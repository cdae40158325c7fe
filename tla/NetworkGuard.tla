----------------------------- MODULE NetworkGuard -----------------------------
(***************************************************************************)
(* apps/worker/src/network-guard.ts: the workers of one monitoring PC      *)
(* probe reference addresses, record outages under one shared observer     *)
(* row, hold back target failures that an outage may explain, and          *)
(* summarise an outage once it is over.  The recording transaction reads   *)
(* from a snapshot taken at its first query; only the FOR UPDATE read of   *)
(* the row, whose result is dropped, is current.  Each monitor has one     *)
(* scheduled check at a time; a check that was dispatched again while it   *)
(* still ran is no longer RUNNING under its claim.                         *)
(***************************************************************************)
EXTENDS Integers, Sequences, FiniteSets

CONSTANTS NetWorkers,    \* worker processes of the PC
          NetCheckers,   \* those whose own checks are followed
          NetMonitors,
          MaxOutages,    \* outages the behaviour may see
          MaxSettings,   \* versions of the settings
          MaxConfig,     \* configuration versions of a monitor
          FreshTicks,    \* the second for which a snapshot stays fresh
          NetClock       \* last instant, which sees no recovery

ASSUME NetworkAssumption ==
    /\ IsFiniteSet(NetWorkers) /\ IsFiniteSet(NetMonitors)
    /\ NetCheckers \subseteq NetWorkers /\ NetCheckers # {}
    /\ {MaxOutages, MaxSettings, MaxConfig, FreshTicks, NetClock} \subseteq Nat \ {0}

VARIABLES netNow,
          settings,     \* network_settings
          observer,     \* network_observers row: status, checkedAt, activeOutageId
          outages,      \* network_outages in the order of their creation
          observed,     \* network_observations
          config,       \* per monitor: configVersion
          probe,        \* per worker: the probe in flight
          cached,       \* per worker in NetCheckers: the last snapshot
          netCheck,     \* per monitor: its check
          overlapped    \* history: two recording transactions have overlapped

netVars == <<netNow, settings, observer, outages, observed, config, probe, cached,
             netCheck, overlapped>>

Statuses  == {"ONLINE", "OFFLINE", "UNKNOWN", "DISABLED"}
Never     == 0                  \* a timestamp that is null
NoOutage  == 0
OutageIds == 1..MaxOutages
Instants  == 0..NetClock

Snapshot(status, outage, at) == [status |-> status, outage |-> outage, at |-> at]
NoSnapshot == Snapshot("UNKNOWN", NoOutage, Never)
NoProbe == [pc |-> "idle", version |-> 0, enabled |-> FALSE, startedAt |-> Never,
            status |-> "UNKNOWN", checkedAt |-> Never, outage |-> NoOutage]
NoCheck == [pc |-> "idle", row |-> "DONE", on |-> CHOOSE w \in NetCheckers : TRUE,
            startedAt |-> Never, measuredAt |-> Never, failedAt |-> Never,
            config |-> 1, result |-> "NONE", outage |-> NoOutage, grounds |-> "NONE"]

Recovered(o) == outages[o].recoveredAt # Never
Unresolved(o) == ~Recovered(o) /\ ~outages[o].canceled
-----------------------------------------------------------------------------
NetInit ==
    /\ netNow = 1
    /\ settings = [enabled |-> TRUE, version |-> 1]
    /\ observer = NoSnapshot
    /\ outages = <<>>
    /\ observed = [o \in OutageIds |-> [m \in NetMonitors |-> [outcome |-> "NONE", config |-> 1]]]
    /\ config = [m \in NetMonitors |-> 1]
    /\ probe = [w \in NetWorkers |-> NoProbe]
    /\ cached = [w \in NetCheckers |-> NoSnapshot]
    /\ netCheck = [m \in NetMonitors |-> NoCheck]
    /\ overlapped = FALSE

\* NetworkService.save: the version guards against another administrator's save.
SaveSettings(enabled) ==
    /\ settings.version < MaxSettings
    /\ settings' = [enabled |-> enabled, version |-> settings.version + 1]
    /\ UNCHANGED <<netNow, observer, outages, observed, config, probe, cached, netCheck, overlapped>>

\* An edit of the monitor makes its running check and its observations stale.
EditMonitor(m) ==
    /\ config[m] < MaxConfig
    /\ config' = [config EXCEPT ![m] = @ + 1]
    /\ UNCHANGED <<netNow, settings, observer, outages, observed, probe, cached, netCheck, overlapped>>

\* inspectFresh up to the requests: the settings as read, and the start time.
NewProbe == [NoProbe EXCEPT !.pc = "probing", !.version = settings.version,
                            !.enabled = settings.enabled, !.startedAt = netNow]

\* poll: inspect(true); with a probe in flight it only joins it.
Poll(w) ==
    /\ probe[w].pc = "idle"
    /\ probe' = [probe EXCEPT ![w] = NewProbe]
    /\ UNCHANGED <<netNow, settings, observer, outages, observed, config, cached, netCheck, overlapped>>

\* What the awaited snapshot means for a network failure (assess).  Only a target
\* that fails twice, with connectivity each time, is taken to be down itself.
Judged(c, snapshot) ==
    LET decided == [c EXCEPT !.pc = "persist", !.failedAt = Never]
        counted(grounds) == [decided EXCEPT !.result = "TARGET_FAILURE", !.grounds = grounds]
    IN  CASE snapshot.status = "DISABLED" -> counted("DISABLED")
          [] snapshot.status = "ONLINE" ->
                IF c.pc = "await_first" THEN [c EXCEPT !.pc = "retry"]
                ELSE counted(IF snapshot.at >= c.failedAt THEN "AFTER" ELSE "BEFORE")
          [] OTHER -> [decided EXCEPT !.result = "INCONCLUSIVE", !.outage = snapshot.outage]

\* The promise of inspect settles: the snapshot is cached, and the worker's
\* checks that await it go on.
Settle(w, snapshot) ==
    /\ probe' = [probe EXCEPT ![w] = NoProbe]
    /\ cached' = [v \in NetCheckers |-> IF v = w THEN snapshot ELSE cached[v]]
    /\ netCheck' = [m \in NetMonitors |->
          IF netCheck[m].on = w /\ netCheck[m].pc \in {"await_first", "await_confirm"}
          THEN Judged(netCheck[m], snapshot) ELSE netCheck[m]]

\* A row that was checked after this probe began wins.
RecordUnlessSuperseded(w, p) ==
    IF observer.at > probe[w].startedAt THEN Settle(w, observer)
    ELSE /\ probe' = [probe EXCEPT ![w] = p]
         /\ UNCHANGED <<cached, netCheck>>

\* The references have answered (checkReferenceUrls, referenceStatus) and the
\* transaction begins.  Its first query takes the snapshot everything else in it
\* is read from; settings saved since the probe began make the probe worthless.
BeginRecording(w) ==
    /\ probe[w].pc = "probing"
    /\ IF settings.version # probe[w].version
       THEN Settle(w, Snapshot("UNKNOWN", NoOutage, netNow))
       ELSE \E status \in IF probe[w].enabled THEN {"ONLINE", "OFFLINE", "UNKNOWN"}
                          ELSE {"DISABLED"} :
              RecordUnlessSuperseded(w,
                [NoProbe EXCEPT !.pc = "recording", !.status = status,
                                !.checkedAt = netNow, !.outage = observer.outage])
    /\ UNCHANGED <<netNow, settings, observer, outages, observed, config, overlapped>>

OpensEveryTime(p) == p.status = "OFFLINE"

\* Does the probe open an outage, or end the one its transaction sees?
Opens(p) == p.status = "OFFLINE" /\ p.outage = NoOutage
Ends(p)  == p.status \in {"ONLINE", "DISABLED"} /\ p.outage # NoOutage

\* The rest of the transaction, once the observer row is locked.  Monitors that
\* wait for their recheck are made due (ScheduleSlots!PullForward).
Record(w) ==
    LET p   == probe[w]
        now == Snapshot(p.status,
                        IF Opens(p) THEN Len(outages) + 1
                        ELSE IF Ends(p) THEN NoOutage ELSE p.outage,
                        p.checkedAt)
    IN  /\ p.pc = "recording"
        /\ \/ /\ Opens(p) /\ Len(outages) < MaxOutages
              /\ outages' = Append(outages, [recoveredAt |-> Never, canceled |-> FALSE,
                                             summarized |-> FALSE])
           \/ /\ Ends(p) /\ p.status = "ONLINE" /\ p.checkedAt < NetClock
              /\ outages' = [outages EXCEPT ![p.outage].recoveredAt = p.checkedAt]
           \/ /\ Ends(p) /\ p.status = "DISABLED"
              /\ outages' = [outages EXCEPT ![p.outage].canceled = TRUE,
                                            ![p.outage].summarized = TRUE]
           \/ ~Opens(p) /\ ~Ends(p) /\ UNCHANGED outages
        /\ observer' = now
        /\ Settle(w, now)
        /\ overlapped' = (overlapped \/ \E v \in NetWorkers \ {w} : probe[v].pc = "recording")
        /\ UNCHANGED <<netNow, settings, observed, config>>

\* A query fails: inspect rejects, and so does the processing of every check
\* that awaits it, whose rows stay RUNNING.
ProbeFails(w) ==
    /\ probe[w].pc # "idle"
    /\ probe' = [probe EXCEPT ![w] = NoProbe]
    /\ netCheck' = [m \in NetMonitors |->
          IF netCheck[m].on = w /\ netCheck[m].pc \in {"await_first", "await_confirm"}
          THEN [netCheck[m] EXCEPT !.pc = "failed"] ELSE netCheck[m]]
    /\ UNCHANGED <<netNow, settings, observer, outages, observed, config, cached, overlapped>>
-----------------------------------------------------------------------------
\* ScheduledCheckProcessor.process claims the check of a monitor.
ClaimCheck(m, w) ==
    /\ \/ netCheck[m].pc = "idle"
       \/ netCheck[m].pc = "failed" /\ netCheck[m].row # "RUNNING"
    /\ netCheck' = [netCheck EXCEPT ![m] =
          [NoCheck EXCEPT !.pc = "running", !.row = "RUNNING", !.on = w,
                          !.startedAt = netNow, !.measuredAt = netNow, !.config = config[m]]]
    /\ UNCHANGED <<netNow, settings, observer, outages, observed, config, probe, cached, overlapped>>

Verdict(c, result) == [c EXCEPT !.pc = "persist", !.result = result, !.failedAt = Never]

\* inspect(force) for a check that failed on the network: join the probe in
\* flight, or take a snapshot less than a second old unless forced, or begin a
\* probe.
Inspect(m, c, force) ==
    LET w == c.on
    IN  IF probe[w].pc # "idle"
        THEN netCheck' = [netCheck EXCEPT ![m] = c] /\ UNCHANGED probe
        ELSE IF ~force /\ cached[w].at # Never
        THEN netCheck' = [netCheck EXCEPT ![m] = Judged(c, cached[w])] /\ UNCHANGED probe
        ELSE /\ netCheck' = [netCheck EXCEPT ![m] = c]
             /\ probe' = [probe EXCEPT ![w] = NewProbe]

\* The first attempt: a result that is no network failure counts as it is.
Attempt(m) ==
    /\ netCheck[m].pc = "running"
    /\ \/ /\ \E result \in {"SUCCESS", "TARGET_FAILURE", "INCONCLUSIVE"} :
               netCheck' = [netCheck EXCEPT ![m] = Verdict(@, result)]
          /\ UNCHANGED probe
       \/ Inspect(m, [netCheck[m] EXCEPT !.pc = "await_first", !.failedAt = netNow], FALSE)
    /\ UNCHANGED <<netNow, settings, observer, outages, observed, config, cached, overlapped>>

RetryUnforced(m) ==
    /\ netCheck[m].pc = "retry"
    /\ \/ /\ \E result \in {"SUCCESS", "TARGET_FAILURE", "INCONCLUSIVE"} :
               netCheck' = [netCheck EXCEPT ![m] = Verdict(@, result)]
          /\ UNCHANGED probe
       \/ Inspect(m, [netCheck[m] EXCEPT !.pc = "await_confirm"], FALSE)
    /\ UNCHANGED <<netNow, settings, observer, outages, observed, config, cached, overlapped>>

\* The retry, or the first result again when the lease leaves no time for one,
\* confirmed by a forced inspection.
Retry(m) ==
    /\ netCheck[m].pc = "retry"
    /\ \/ /\ \E result \in {"SUCCESS", "TARGET_FAILURE", "INCONCLUSIVE"} :
               netCheck' = [netCheck EXCEPT ![m] =
                              [Verdict(@, result) EXCEPT !.measuredAt = netNow]]
          /\ UNCHANGED probe
       \/ \E measured \in {netCheck[m].measuredAt, netNow} :
            Inspect(m, [netCheck[m] EXCEPT !.pc = "await_confirm",
                                           !.measuredAt = measured], TRUE)
    /\ UNCHANGED <<netNow, settings, observer, outages, observed, config, cached, overlapped>>

\* The part of persist that concerns outages: a held back result is observed
\* under its outage, a result measured after a recovery answers for the
\* observations of that outage.  A check of an older configuration does neither.
Persist(m) ==
    LET c == netCheck[m]
        observe(o) == c.result = "INCONCLUSIVE" /\ o = c.outage
                      /\ observed[o][m].outcome = "NONE"
        answers(o) == c.result \in {"SUCCESS", "TARGET_FAILURE"}
                      /\ observed[o][m].outcome = "PENDING"
                      /\ observed[o][m].config = c.config
                      /\ o \in DOMAIN outages /\ Recovered(o)
                      /\ outages[o].recoveredAt <= c.measuredAt
    IN  /\ c.pc = "persist"
        /\ observed' = [o \in OutageIds |->
              IF c.config # config[m] THEN observed[o]
              ELSE IF observe(o) THEN [observed[o] EXCEPT ![m] = [outcome |-> "PENDING", config |-> c.config]]
              ELSE IF answers(o) THEN [observed[o] EXCEPT ![m].outcome = c.result]
              ELSE observed[o]]
        /\ netCheck' = [netCheck EXCEPT ![m] = NoCheck]
        /\ UNCHANGED <<netNow, settings, observer, outages, config, probe, cached, overlapped>>

\* The claim's lease runs out and the scheduler makes the check PENDING,
\* whatever the first processor still does.  (The ENQUEUED that follows, which
\* the summary waits for again, is not told apart from it.)
Redispatch(m) ==
    /\ netCheck[m].row = "RUNNING"
    /\ netCheck' = [netCheck EXCEPT ![m].row = "PENDING"]
    /\ UNCHANGED <<netNow, settings, observer, outages, observed, config, probe, cached, overlapped>>
-----------------------------------------------------------------------------
InFlightAtAll(o) == {m \in NetMonitors : netCheck[m].row = "RUNNING"}

\* Checks that were in flight when connectivity returned.
InFlight(o) ==
    {m \in NetMonitors : /\ netCheck[m].row = "RUNNING"
                         /\ netCheck[m].startedAt <= outages[o].recoveredAt}

Pending(o) ==
    {m \in NetMonitors : observed[o][m].outcome = "PENDING" /\ observed[o][m].config = config[m]}

SummarizeUnasked(o, waited) ==
    /\ o \in DOMAIN outages
    /\ Recovered(o) /\ ~outages[o].summarized
    /\ Pending(o) = {} \/ waited
    /\ outages' = [outages EXCEPT ![o].summarized = TRUE]
    /\ UNCHANGED <<netNow, settings, observer, observed, config, probe, cached, netCheck, overlapped>>

\* summarize, by any worker: after two minutes (waited) it no longer waits for
\* rechecks.  One message per channel, under a key of the outage.
Summarize(o, waited) ==
    /\ o \in DOMAIN outages
    /\ Recovered(o) /\ ~outages[o].summarized
    /\ InFlight(o) = {}
    /\ Pending(o) = {} \/ waited
    /\ outages' = [outages EXCEPT ![o].summarized = TRUE]
    /\ UNCHANGED <<netNow, settings, observer, observed, config, probe, cached, netCheck, overlapped>>

NetTick ==
    /\ netNow < NetClock
    /\ netNow' = netNow + 1
    /\ cached' = [w \in NetCheckers |->      \* one that is no longer fresh is not used
                    IF cached[w].at + FreshTicks > netNow' THEN cached[w] ELSE NoSnapshot]
    /\ UNCHANGED <<settings, observer, outages, observed, config, probe, netCheck, overlapped>>

NetNext ==
    \/ \E enabled \in BOOLEAN : SaveSettings(enabled)
    \/ \E m \in NetMonitors : EditMonitor(m)
    \/ \E w \in NetWorkers :
         Poll(w) \/ BeginRecording(w) \/ Record(w) \/ ProbeFails(w)
    \/ \E m \in NetMonitors, w \in NetCheckers : ClaimCheck(m, w)
    \/ \E m \in NetMonitors :
         Attempt(m) \/ Retry(m) \/ Persist(m) \/ Redispatch(m)
    \/ \E o \in OutageIds, waited \in BOOLEAN : Summarize(o, waited)
    \/ NetTick

\* Requests have timeouts, the poll loop comes back to its summaries, leases
\* run out and the scheduler dispatches what was dropped.
NetFairness ==
    /\ \A w \in NetWorkers :
         WF_netVars(BeginRecording(w) \/ Record(w) \/ ProbeFails(w))
    /\ \A m \in NetMonitors :
         /\ WF_netVars(Attempt(m) \/ Retry(m) \/ Persist(m))
         /\ WF_netVars(netCheck[m].pc = "failed" /\ Redispatch(m))
         /\ WF_netVars(\E w \in NetCheckers : netCheck[m].pc = "failed" /\ ClaimCheck(m, w))
    /\ \A o \in OutageIds : WF_netVars(Summarize(o, TRUE))
    /\ WF_netVars(outages # <<>> /\ NetTick)      \* no property needs the clock before

NetSpec == NetInit /\ [][NetNext]_netVars /\ NetFairness
-----------------------------------------------------------------------------
\* Every variable keeps its type, and a row that says OFFLINE names its outage.
NetTypeOK ==
    LET Snapshots == {s \in [status : Statuses, outage : {NoOutage} \union OutageIds, at : Instants] :
                        s.status = "OFFLINE" => s.outage # NoOutage}
    IN  /\ netNow \in 1..NetClock
        /\ settings \in [enabled : BOOLEAN, version : 1..MaxSettings]
        /\ observer \in Snapshots
        /\ outages \in Seq([recoveredAt : Instants, canceled : BOOLEAN, summarized : BOOLEAN])
        /\ Len(outages) <= MaxOutages
        /\ observed \in [OutageIds -> [NetMonitors ->
               [outcome : {"NONE", "PENDING", "SUCCESS", "TARGET_FAILURE"}, config : 1..MaxConfig]]]
        /\ config \in [NetMonitors -> 1..MaxConfig]
        /\ \A w \in NetCheckers : cached[w] \in Snapshots
        /\ \A m \in NetMonitors : netCheck[m].row \in {"DONE", "RUNNING", "PENDING"}
        /\ overlapped \in BOOLEAN

\* Unless two workers' transactions overlapped, an outage is unresolved exactly
\* while the observer row points to it: none is forgotten open, and none that
\* is over is taken for the current one.
UnresolvedOutageIsActive ==
    overlapped \/ \A o \in DOMAIN outages : Unresolved(o) <=> observer.outage = o

\* A network failure of a target counts only against evidence of connectivity
\* that was gathered after the target had failed; an answer the worker still had
\* from before is not enough.
EvidenceFollowsFailure == \A m \in NetMonitors : netCheck[m].grounds # "BEFORE"

\* A summary leaves out no check that was running when connectivity returned: an
\* observation is added to a summarised outage only for a check that was claimed
\* later or dispatched a second time.
SummaryIsFinal ==
    [][\A o \in DOMAIN outages, m \in NetMonitors :
         /\ ~overlapped /\ Recovered(o) /\ outages[o].summarized
         /\ observed[o][m].outcome = "NONE" /\ observed'[o][m].outcome # "NONE"
         => \/ netCheck[m].startedAt >= outages[o].recoveredAt
            \/ netCheck[m].row # "RUNNING"]_netVars

\* An outage that is over is summarised, although its checks may hang, fail with
\* the probe or be dispatched again, and although rechecks may never come.
RecoveryIsSummarized ==
    []<>(\A o \in DOMAIN outages : Recovered(o) => outages[o].summarized)
=============================================================================
