-------------------------- MODULE NetworkGuardProofs --------------------------
(***************************************************************************)
(* Proofs about NetworkGuard for any workers, monitors and outages, any    *)
(* settings and any clock.                                                 *)
(***************************************************************************)
EXTENDS NetworkGuard, SequenceTheorems, TLAPS

Shown   == {s \in [status : Statuses, outage : {NoOutage} \union OutageIds, at : Instants] :
              s.status = "OFFLINE" => s.outage # NoOutage}
Probes  == [pc : {"idle", "probing", "recording"}, version : Nat, enabled : BOOLEAN,
            startedAt : Instants, status : Statuses, checkedAt : Instants,
            outage : {NoOutage} \union OutageIds]
Outages == [recoveredAt : Instants, canceled : BOOLEAN, summarized : BOOLEAN]
CheckStates == [pc : {"idle", "running", "await_first", "retry", "await_confirm", "persist", "failed"},
                row : {"DONE", "RUNNING", "PENDING"}, on : NetCheckers,
                startedAt : Instants, measuredAt : Instants, failedAt : Instants,
                config : 1..MaxConfig,
                result : {"NONE", "SUCCESS", "TARGET_FAILURE", "INCONCLUSIVE"},
                outage : {NoOutage} \union OutageIds,
                grounds : {"NONE", "DISABLED", "AFTER", "BEFORE"}]

\* Types of the probes and checks too, and no reference to an outage that is not
\* recorded.
Typed ==
    /\ NetTypeOK
    /\ cached \in [NetCheckers -> Shown]
    /\ probe \in [NetWorkers -> Probes]
    /\ netCheck \in [NetMonitors -> CheckStates]
    /\ observer.outage \in {NoOutage} \union DOMAIN outages
    /\ \A w \in NetWorkers : probe[w].pc = "recording" =>
         probe[w].outage \in {NoOutage} \union DOMAIN outages /\ probe[w].checkedAt \in 1..netNow

\* The probe whose answer a retried check gets began after its first attempt
\* failed, and so no answer from before counts.
EvidenceIsNew(c, probes, now) ==
    LET p == probes[c.on]
    IN  /\ c.grounds # "BEFORE"
        /\ c.pc \in {"await_first", "retry", "await_confirm"} => c.failedAt <= now
        /\ c.pc \in {"retry", "await_confirm"} /\ p.pc = "probing" => p.startedAt >= c.failedAt
        /\ c.pc \in {"retry", "await_confirm"} /\ p.pc = "recording" => p.checkedAt >= c.failedAt

EvidenceInv == \A m \in NetMonitors : EvidenceIsNew(netCheck[m], probe, netNow)

\* An outage is summarised only when it is over, and a check that runs on from
\* before its end was waited for.
SummariesOrdered ==
    \A o \in DOMAIN outages :
        /\ outages[o].recoveredAt <= netNow
        /\ outages[o].summarized => Recovered(o) \/ outages[o].canceled
        /\ ~overlapped /\ Recovered(o) /\ outages[o].summarized =>
             \A m \in NetMonitors : netCheck[m].row = "RUNNING" =>
                 netCheck[m].startedAt >= outages[o].recoveredAt

\* Nobody has recorded since a transaction began that still runs.
RecordersAgree ==
    overlapped \/ \A w \in NetWorkers : probe[w].pc = "recording" => probe[w].outage = observer.outage

OutageInv   == SummariesOrdered /\ RecordersAgree /\ UnresolvedOutageIsActive

NetInv == Typed /\ EvidenceInv /\ OutageInv
-----------------------------------------------------------------------------
(* Operators of the model.                                                  *)

LEMMA Constants ==
    /\ MaxOutages \in Nat \ {0} /\ MaxSettings \in Nat \ {0} /\ MaxConfig \in Nat \ {0}
    /\ FreshTicks \in Nat \ {0} /\ NetClock \in Nat \ {0}
    /\ NetCheckers \subseteq NetWorkers
    /\ (CHOOSE w \in NetCheckers : TRUE) \in NetCheckers
BY NetworkAssumption

LEMMA Nothing ==
    /\ NoSnapshot \in Shown /\ NoCheck \in CheckStates
    /\ NoProbe \in Probes /\ NoProbe.pc = "idle"
BY Constants DEF NoSnapshot, Snapshot, NoCheck, NoProbe, Shown, CheckStates, Probes, Statuses,
     NoOutage, OutageIds, Never, Instants

LEMMA NewProbeType ==
    ASSUME Typed
    PROVE  NewProbe \in Probes /\ NewProbe.pc = "probing" /\ NewProbe.startedAt = netNow
<1>1. settings.version \in Nat /\ settings.enabled \in BOOLEAN /\ netNow \in Instants
  BY Constants DEF Typed, NetTypeOK, Instants
<1>2. Never \in Instants /\ NoOutage \in {NoOutage} \union OutageIds /\ "UNKNOWN" \in Statuses
  BY Constants DEF Never, Instants, Statuses
<1>3. NewProbe \in Probes
  BY <1>1, <1>2 DEF NewProbe, NoProbe, Probes
<1>4. NewProbe.pc = "probing" /\ NewProbe.startedAt = netNow
  BY DEF NewProbe, NoProbe
<1>5. QED BY <1>3, <1>4

\* What a snapshot makes of a check that awaits it (assess).
LEMMA JudgedIs ==
    ASSUME NEW c \in CheckStates, NEW s \in Shown, c.pc \in {"await_first", "await_confirm"}
    PROVE  /\ Judged(c, s) \in CheckStates
           /\ Judged(c, s).on = c.on /\ Judged(c, s).row = c.row /\ Judged(c, s).startedAt = c.startedAt
           /\ \/ /\ Judged(c, s).pc = "retry" /\ Judged(c, s).failedAt = c.failedAt
                 /\ Judged(c, s).grounds = c.grounds /\ c.pc = "await_first"
              \/ /\ Judged(c, s).pc = "persist"
                 /\ Judged(c, s).grounds = "BEFORE" =>
                      \/ c.grounds = "BEFORE"
                      \/ c.pc = "await_confirm" /\ s.status = "ONLINE" /\ ~(s.at >= c.failedAt)
<1> DEFINE decided == [c EXCEPT !.pc = "persist", !.failedAt = Never]
           counted(grounds) == [decided EXCEPT !.result = "TARGET_FAILURE", !.grounds = grounds]
<1>0. /\ decided \in CheckStates /\ decided.pc = "persist" /\ decided.on = c.on
      /\ decided.row = c.row /\ decided.startedAt = c.startedAt /\ decided.grounds = c.grounds
  <2>1. Never \in Instants
    BY Constants DEF Never, Instants
  <2>2. QED BY <2>1 DEF CheckStates
<1> HIDE DEF decided
<1>1. ASSUME NEW grounds \in {"DISABLED", "AFTER", "BEFORE"}
      PROVE  /\ counted(grounds) \in CheckStates
             /\ counted(grounds).on = c.on /\ counted(grounds).row = c.row
             /\ counted(grounds).startedAt = c.startedAt
             /\ counted(grounds).pc = "persist" /\ counted(grounds).grounds = grounds
  BY <1>0 DEF CheckStates
<1>2. CASE s.status = "DISABLED"
  <2>1. Judged(c, s) = counted("DISABLED")
    BY <1>2 DEF Judged, decided
  <2> HIDE DEF counted
  <2>2. QED BY <1>1, <2>1
<1>3. CASE s.status = "ONLINE"
  <2>1. Judged(c, s) = IF c.pc = "await_first" THEN [c EXCEPT !.pc = "retry"]
                       ELSE counted(IF s.at >= c.failedAt THEN "AFTER" ELSE "BEFORE")
    BY <1>3 DEF Judged, decided
  <2>2. CASE c.pc = "await_first"
    BY <2>1, <2>2 DEF CheckStates
  <2>3. CASE c.pc # "await_first"
    <3>1. Judged(c, s) = counted(IF s.at >= c.failedAt THEN "AFTER" ELSE "BEFORE")
      BY <2>1, <2>3
    <3> HIDE DEF counted
    <3>2. CASE s.at >= c.failedAt
      BY <1>1, <3>1, <3>2
    <3>3. CASE ~(s.at >= c.failedAt)
      BY <1>1, <1>3, <2>3, <3>1, <3>3
    <3>4. QED BY <3>2, <3>3
  <2>4. QED BY <2>2, <2>3
<1>4. CASE s.status \notin {"DISABLED", "ONLINE"}
  <2>1. Judged(c, s) = [decided EXCEPT !.result = "INCONCLUSIVE", !.outage = s.outage]
    <3>1. s.status # "DISABLED" /\ s.status # "ONLINE"
      BY <1>4
    <3>2. QED BY <3>1 DEF Judged, decided
  <2>2. QED BY <1>0, <2>1 DEF CheckStates, Shown
<1>5. QED BY <1>2, <1>3, <1>4

\* The promise of inspect settles.
LEMMA Settled ==
    ASSUME Typed, NEW w \in NetWorkers, NEW s \in Shown, Settle(w, s)
    PROVE  /\ probe' \in [NetWorkers -> Probes] /\ probe'[w].pc = "idle"
           /\ \A v \in NetWorkers \ {w} : probe'[v] = probe[v]
           /\ cached' \in [NetCheckers -> Shown]
           /\ netCheck' \in [NetMonitors -> CheckStates]
           /\ \A m \in NetMonitors :
                \/ /\ netCheck'[m] = netCheck[m]
                   /\ netCheck[m].on = w => netCheck[m].pc \notin {"await_first", "await_confirm"}
                \/ /\ netCheck[m].on = w /\ netCheck[m].pc \in {"await_first", "await_confirm"}
                   /\ netCheck'[m] = Judged(netCheck[m], s)
<1>1. /\ probe' = [probe EXCEPT ![w] = NoProbe]
      /\ cached' = [v \in NetCheckers |-> IF v = w THEN s ELSE cached[v]]
      /\ netCheck' = [m \in NetMonitors |->
            IF netCheck[m].on = w /\ netCheck[m].pc \in {"await_first", "await_confirm"}
            THEN Judged(netCheck[m], s) ELSE netCheck[m]]
  BY DEF Settle
<1>2. /\ probe \in [NetWorkers -> Probes] /\ cached \in [NetCheckers -> Shown]
      /\ netCheck \in [NetMonitors -> CheckStates]
  BY DEF Typed
<1>3. probe' \in [NetWorkers -> Probes] /\ probe'[w].pc = "idle"
  BY <1>1, <1>2, Nothing
<1>4. \A v \in NetWorkers \ {w} : probe'[v] = probe[v]
  BY <1>1, <1>2
<1>5. cached' \in [NetCheckers -> Shown]
  BY <1>1, <1>2
<1>6. \A m \in NetMonitors :
         \/ /\ netCheck'[m] = netCheck[m]
            /\ netCheck[m].on = w => netCheck[m].pc \notin {"await_first", "await_confirm"}
         \/ /\ netCheck[m].on = w /\ netCheck[m].pc \in {"await_first", "await_confirm"}
            /\ netCheck'[m] = Judged(netCheck[m], s)
  BY <1>1
<1>7. \A m \in NetMonitors : netCheck'[m] \in CheckStates
  BY <1>2, <1>6, JudgedIs
<1>8. netCheck' \in [NetMonitors -> CheckStates]
  BY <1>1, <1>7
<1>9. QED BY <1>3, <1>4, <1>5, <1>6, <1>8

\* What a probe is when its transaction begins.
Recorder(p) == /\ p \in Probes /\ p.pc = "recording"
               /\ p.checkedAt = netNow /\ p.outage = observer.outage

\* The references have answered: the probe is settled without a transaction, by
\* nothing that could count against a target that failed since the probe began,
\* or the transaction begins.
LEMMA Begun ==
    ASSUME Typed, NEW w \in NetWorkers, BeginRecording(w)
    PROVE  \/ \E s \in Shown : /\ Settle(w, s)
                               /\ s.status = "ONLINE" => s.at > probe[w].startedAt
           \/ /\ \E p \in Probes : Recorder(p) /\ probe' = [probe EXCEPT ![w] = p]
              /\ UNCHANGED <<cached, netCheck>>
<1>1. netNow \in Instants /\ observer \in Shown /\ probe[w] \in Probes
  BY Constants DEF Typed, NetTypeOK, Instants, Shown
<1>2. CASE settings.version # probe[w].version
  <2>1. Settle(w, Snapshot("UNKNOWN", NoOutage, netNow))
    BY <1>2 DEF BeginRecording
  <2>2. Snapshot("UNKNOWN", NoOutage, netNow) \in Shown
    BY <1>1 DEF Snapshot, Shown, Statuses
  <2>3. Snapshot("UNKNOWN", NoOutage, netNow).status # "ONLINE"
    BY DEF Snapshot
  <2>4. QED BY <2>1, <2>2, <2>3
<1>3. CASE settings.version = probe[w].version
  <2> DEFINE p(status) == [NoProbe EXCEPT !.pc = "recording", !.status = status,
                                          !.checkedAt = netNow, !.outage = observer.outage]
  <2>1. PICK status \in Statuses : RecordUnlessSuperseded(w, p(status))
    BY <1>3 DEF BeginRecording, Statuses
  <2>2. p(status) \in Probes /\ Recorder(p(status))
    <3>1. NoProbe \in Probes /\ observer.outage \in {NoOutage} \union OutageIds
      BY <1>1, Nothing DEF Shown
    <3>2. p(status) \in Probes
      BY <1>1, <2>1, <3>1 DEF Probes
    <3>3. p(status).pc = "recording" /\ p(status).checkedAt = netNow /\ p(status).outage = observer.outage
      BY <3>1 DEF Probes
    <3>4. QED BY <3>2, <3>3 DEF Recorder
  <2> HIDE DEF p
  <2>3. CASE observer.at > probe[w].startedAt
    BY <1>1, <2>1, <2>3 DEF RecordUnlessSuperseded
  <2>4. CASE ~(observer.at > probe[w].startedAt)
    BY <2>1, <2>2, <2>4 DEF RecordUnlessSuperseded
  <2>5. QED BY <2>3, <2>4
<1>4. QED BY <1>2, <1>3

\* The rest of the transaction: an outage begins or ends, or nothing happens.
LEMMA Recorded ==
    ASSUME Typed, NEW w \in NetWorkers, Record(w)
    PROVE  LET p == probe[w] IN
           /\ p.pc = "recording" /\ p.checkedAt \in 1..netNow
           /\ observer' \in Shown /\ observer'.at = p.checkedAt /\ Settle(w, observer')
           /\ outages' \in Seq(Outages) /\ Len(outages') \in 0..MaxOutages
           /\ \/ /\ p.outage = NoOutage /\ observer'.outage = Len(outages) + 1
                 /\ Len(outages') = Len(outages) + 1
                 /\ \A o \in DOMAIN outages : outages'[o] = outages[o]
                 /\ outages'[Len(outages) + 1] =
                      [recoveredAt |-> Never, canceled |-> FALSE, summarized |-> FALSE]
              \/ /\ p.outage \in DOMAIN outages /\ observer'.outage = NoOutage
                 /\ Len(outages') = Len(outages)
                 /\ \A o \in DOMAIN outages \ {p.outage} : outages'[o] = outages[o]
                 /\ \/ /\ outages'[p.outage].recoveredAt = p.checkedAt
                       /\ outages'[p.outage].summarized = outages[p.outage].summarized
                    \/ /\ outages'[p.outage].recoveredAt = outages[p.outage].recoveredAt
                       /\ outages'[p.outage].canceled /\ outages'[p.outage].summarized
              \/ observer'.outage = p.outage /\ outages' = outages
<1> DEFINE p == probe[w]
           now == Snapshot(p.status, IF Opens(p) THEN Len(outages) + 1
                                     ELSE IF Ends(p) THEN NoOutage ELSE p.outage, p.checkedAt)
<1>1. /\ p \in Probes /\ p.pc = "recording"
      /\ p.outage \in {NoOutage} \union DOMAIN outages /\ p.checkedAt \in 1..netNow
  BY DEF Record, Typed
<1>2. /\ outages \in Seq(Outages) /\ Len(outages) \in 0..MaxOutages /\ DOMAIN outages = 1..Len(outages)
      /\ netNow \in 1..NetClock
  <2>1. outages \in Seq(Outages) /\ Len(outages) <= MaxOutages /\ netNow \in 1..NetClock
    BY DEF Typed, NetTypeOK, Outages
  <2>2. QED BY <2>1, LenProperties, Constants
<1>3. observer' = now /\ Settle(w, now)
  BY DEF Record
<1>4. now.outage = (IF Opens(p) THEN Len(outages) + 1 ELSE IF Ends(p) THEN NoOutage ELSE p.outage)
      /\ now.status = p.status /\ now.at = p.checkedAt
      /\ now = [status |-> now.status, outage |-> now.outage, at |-> now.at]
  BY DEF Snapshot
<1> HIDE DEF now, p
<1>5. CASE Opens(p) /\ Len(outages) < MaxOutages
  <2> DEFINE new == [recoveredAt |-> Never, canceled |-> FALSE, summarized |-> FALSE]
  <2>1. new \in Outages
    BY Constants DEF Outages, Never, Instants
  <2>2. outages' = Append(outages, new)
    BY <1>5 DEF Record, p, Opens, Ends
  <2> HIDE DEF new
  <2>3. /\ outages' \in Seq(Outages) /\ Len(outages') = Len(outages) + 1
        /\ \A o \in 1..Len(outages) : outages'[o] = outages[o]
        /\ outages'[Len(outages) + 1] = new
    BY <1>2, <2>1, <2>2, AppendProperties
  <2>4. now \in Shown /\ now.outage = Len(outages) + 1 /\ p.outage = NoOutage
    BY <1>1, <1>2, <1>4, <1>5, Constants DEF Opens, Shown, Probes, NoOutage, OutageIds, Instants
  <2>5. Len(outages') \in 0..MaxOutages
    BY <1>2, <1>5, <2>3, Constants
  <2>6. QED BY <1>1, <1>2, <1>3, <1>4, <2>3, <2>4, <2>5 DEF new, p
<1>6. CASE Ends(p) /\ p.status = "ONLINE"
  <2> DEFINE new == [outages[p.outage] EXCEPT !.recoveredAt = p.checkedAt]
  <2>1. p.outage \in 1..Len(outages) /\ ~Opens(p)
    BY <1>1, <1>2, <1>6 DEF Ends, Opens, NoOutage
  <2>2. outages[p.outage] \in Outages
    BY <1>2, <2>1, ElementOfSeq
  <2>3. new \in Outages /\ new.recoveredAt = p.checkedAt /\ new.summarized = outages[p.outage].summarized
    BY <1>1, <2>2 DEF Outages, Probes
  <2>4. outages' = [outages EXCEPT ![p.outage] = new]
    BY <1>6, <2>1 DEF Record, p, Opens, Ends
  <2> HIDE DEF new
  <2>5. /\ outages' \in Seq(Outages) /\ Len(outages') = Len(outages)
        /\ \A o \in 1..Len(outages) : outages'[o] = IF o = p.outage THEN new ELSE outages[o]
    BY <1>2, <2>1, <2>3, <2>4, ExceptSeq
  <2>6. now \in Shown /\ now.outage = NoOutage
    BY <1>1, <1>4, <1>6, <2>1 DEF Shown, Probes, NoOutage, OutageIds
  <2>7. QED BY <1>1, <1>2, <1>3, <1>4, <2>1, <2>3, <2>5, <2>6 DEF p
<1>7. CASE Ends(p) /\ p.status = "DISABLED"
  <2> DEFINE new == [outages[p.outage] EXCEPT !.canceled = TRUE, !.summarized = TRUE]
  <2>1. p.outage \in 1..Len(outages) /\ ~Opens(p)
    BY <1>1, <1>2, <1>7 DEF Ends, Opens, NoOutage
  <2>2. outages[p.outage] \in Outages
    BY <1>2, <2>1, ElementOfSeq
  <2>3. /\ new \in Outages /\ new.recoveredAt = outages[p.outage].recoveredAt
        /\ new.canceled /\ new.summarized
    BY <2>2 DEF Outages
  <2>4. outages' = [outages EXCEPT ![p.outage] = new]
    BY <1>2, <1>7, <2>1 DEF Record, p, Opens, Ends
  <2> HIDE DEF new
  <2>5. /\ outages' \in Seq(Outages) /\ Len(outages') = Len(outages)
        /\ \A o \in 1..Len(outages) : outages'[o] = IF o = p.outage THEN new ELSE outages[o]
    BY <1>2, <2>1, <2>3, <2>4, ExceptSeq
  <2>6. now \in Shown /\ now.outage = NoOutage
    BY <1>1, <1>4, <1>7, <2>1 DEF Shown, Probes, NoOutage, OutageIds
  <2>7. QED BY <1>1, <1>2, <1>3, <1>4, <2>1, <2>3, <2>5, <2>6 DEF p
<1>8. CASE ~Opens(p) /\ ~Ends(p)
  <2>1. outages' = outages
    BY <1>8 DEF Record, p
  <2>2. now \in Shown /\ now.outage = p.outage
    BY <1>1, <1>4, <1>8 DEF Shown, Probes, Opens
  <2>3. QED BY <1>1, <1>2, <1>3, <1>4, <2>1, <2>2 DEF p
<1>9. QED
  <2>1. \/ Opens(p) /\ Len(outages) < MaxOutages
        \/ Ends(p) /\ p.status \in {"ONLINE", "DISABLED"}
        \/ ~Opens(p) /\ ~Ends(p)
    BY DEF Record, p
  <2>2. QED BY <1>5, <1>6, <1>7, <1>8, <2>1

\* A check that has failed on the network joins a probe, begins one, or takes the
\* answer it finds.
LEMMA Inspected ==
    ASSUME Typed, NEW m \in NetMonitors, NEW c \in CheckStates, NEW force \in BOOLEAN,
           c.pc \in {"await_first", "await_confirm"}, Inspect(m, c, force)
    PROVE  /\ probe' \in [NetWorkers -> Probes] /\ netCheck' \in [NetMonitors -> CheckStates]
           /\ \A w \in NetWorkers : probe'[w] = probe[w] \/ probe'[w] = NewProbe
           /\ \A n \in NetMonitors \ {m} : netCheck'[n] = netCheck[n]
           /\ \/ netCheck'[m] = c
              \/ /\ ~force /\ probe' = probe /\ probe[c.on].pc = "idle"
                 /\ \E s \in Shown : netCheck'[m] = Judged(c, s)
<1>1. /\ probe \in [NetWorkers -> Probes] /\ cached \in [NetCheckers -> Shown]
      /\ netCheck \in [NetMonitors -> CheckStates]
      /\ c.on \in NetCheckers /\ c.on \in NetWorkers /\ NewProbe \in Probes
  BY Constants, NewProbeType DEF Typed, CheckStates
<1>2. CASE probe[c.on].pc # "idle"
  BY <1>1, <1>2 DEF Inspect
<1>3. CASE probe[c.on].pc = "idle" /\ ~force /\ cached[c.on].at # Never
  <2>1. netCheck' = [netCheck EXCEPT ![m] = Judged(c, cached[c.on])] /\ UNCHANGED probe
    BY <1>3 DEF Inspect
  <2>2. Judged(c, cached[c.on]) \in CheckStates
    BY <1>1, JudgedIs
  <2>3. QED BY <1>1, <1>3, <2>1, <2>2
<1>4. CASE probe[c.on].pc = "idle" /\ ~(~force /\ cached[c.on].at # Never)
  <2>1. /\ netCheck' = [netCheck EXCEPT ![m] = c]
        /\ probe' = [probe EXCEPT ![c.on] = NewProbe]
    BY <1>4 DEF Inspect
  <2>2. QED BY <1>1, <2>1
<1>5. QED BY <1>2, <1>3, <1>4

\* An attempt that needs no evidence.
LEMMA Decided ==
    ASSUME Typed, NEW m \in NetMonitors, NEW result \in {"SUCCESS", "TARGET_FAILURE", "INCONCLUSIVE"}
    PROVE  LET v == Verdict(netCheck[m], result) IN
           /\ v \in CheckStates /\ v.pc = "persist" /\ v.grounds = netCheck[m].grounds
           /\ v.row = netCheck[m].row /\ v.startedAt = netCheck[m].startedAt
<1>1. Never \in Instants /\ netCheck[m] \in CheckStates
  BY Constants DEF Never, Instants, Typed
<1>2. QED BY <1>1 DEF Verdict, CheckStates
-----------------------------------------------------------------------------
(* Types.                                                                   *)

LEMMA SettingsTyped ==
    ASSUME Typed, \/ \E enabled \in BOOLEAN : SaveSettings(enabled)
                  \/ \E m \in NetMonitors : EditMonitor(m)
                  \/ NetTick
    PROVE  Typed'
<1>1. CASE \E enabled \in BOOLEAN : SaveSettings(enabled)
  <2>1. PICK enabled \in BOOLEAN : SaveSettings(enabled)
    BY <1>1
  <2>2. /\ settings' = [enabled |-> enabled, version |-> settings.version + 1]
        /\ settings.version + 1 \in 1..MaxSettings
        /\ UNCHANGED <<netNow, observer, outages, observed, config, probe, cached, netCheck, overlapped>>
    BY <2>1, Constants DEF SaveSettings, Typed, NetTypeOK
  <2>3. settings' \in [enabled : BOOLEAN, version : 1..MaxSettings]
    BY <2>2
  <2>4. QED BY <2>2, <2>3 DEF Typed, NetTypeOK
<1>2. CASE \E m \in NetMonitors : EditMonitor(m)
  <2>1. /\ config' \in [NetMonitors -> 1..MaxConfig]
        /\ UNCHANGED <<netNow, settings, observer, outages, observed, probe, cached, netCheck, overlapped>>
    BY <1>2, Constants DEF EditMonitor, Typed, NetTypeOK
  <2>2. QED BY <2>1 DEF Typed, NetTypeOK
<1>3. CASE NetTick
  <2>1. /\ netNow' = netNow + 1 /\ netNow' \in 1..NetClock /\ netNow \in 1..NetClock
        /\ UNCHANGED <<settings, observer, outages, observed, config, probe, netCheck, overlapped>>
    BY <1>3, Constants DEF NetTick, Typed, NetTypeOK
  <2>2. cached' \in [NetCheckers -> Shown]
    BY <1>3, Nothing DEF NetTick, Typed
  <2>3. \A w \in NetWorkers : probe[w].pc = "recording" => probe[w].checkedAt \in 1..netNow'
    BY <2>1 DEF Typed
  <2>4. QED BY <2>1, <2>2, <2>3 DEF Typed, NetTypeOK, Shown
<1>4. QED BY <1>1, <1>2, <1>3

LEMMA ProbesTyped ==
    ASSUME Typed, NEW w \in NetWorkers, Poll(w) \/ BeginRecording(w) \/ Record(w) \/ ProbeFails(w)
    PROVE  Typed'
<1>0. probe \in [NetWorkers -> Probes] /\ netCheck \in [NetMonitors -> CheckStates]
      /\ cached \in [NetCheckers -> Shown] /\ netNow \in 1..NetClock
  BY DEF Typed, NetTypeOK
<1>1. CASE Poll(w)
  <2>1. /\ probe' = [probe EXCEPT ![w] = NewProbe]
        /\ UNCHANGED <<netNow, settings, observer, outages, observed, config, cached, netCheck, overlapped>>
    BY <1>1 DEF Poll
  <2>2. /\ probe' \in [NetWorkers -> Probes]
        /\ \A v \in NetWorkers : probe'[v].pc = "recording" => probe'[v] = probe[v]
    BY <1>0, <2>1, NewProbeType
  <2>3. QED BY <2>1, <2>2 DEF Typed, NetTypeOK
<1>2. CASE BeginRecording(w)
  <2>1. UNCHANGED <<netNow, settings, observer, outages, observed, config, overlapped>>
    BY <1>2 DEF BeginRecording
  <2>2. CASE \E s \in Shown : Settle(w, s)
    <3>1. /\ probe' \in [NetWorkers -> Probes] /\ probe'[w].pc = "idle"
          /\ \A v \in NetWorkers \ {w} : probe'[v] = probe[v]
          /\ cached' \in [NetCheckers -> Shown] /\ netCheck' \in [NetMonitors -> CheckStates]
      BY <2>2, Settled
    <3>2. QED BY <2>1, <3>1 DEF Typed, NetTypeOK, Shown, CheckStates
  <2>3. CASE ~\E s \in Shown : Settle(w, s)
    <3>1. PICK p \in Probes : Recorder(p) /\ probe' = [probe EXCEPT ![w] = p]
      BY <1>2, <2>3, Begun
    <3>2. UNCHANGED <<cached, netCheck>>
      BY <1>2, <2>3, Begun
    <3>3. /\ probe' \in [NetWorkers -> Probes] /\ probe'[w] = p
          /\ \A v \in NetWorkers \ {w} : probe'[v] = probe[v]
      BY <1>0, <3>1
    <3>4. p.outage \in {NoOutage} \union DOMAIN outages /\ p.checkedAt \in 1..netNow
      BY <1>0, <3>1 DEF Recorder, Typed
    <3>5. QED BY <2>1, <3>2, <3>3, <3>4 DEF Typed, NetTypeOK
  <2>4. QED BY <2>2, <2>3
<1>3. CASE Record(w)
  <2> DEFINE new == observer'
  <2>1. new \in Shown /\ Settle(w, new) /\ outages' \in Seq(Outages) /\ Len(outages') \in 0..MaxOutages
    BY <1>3, Recorded
  <2>2. new.outage \in {NoOutage} \union (1..Len(outages')) /\ Len(outages') >= Len(outages)
    <3>1. outages \in Seq(Outages)
      BY DEF Typed, NetTypeOK, Outages
    <3>2. Len(outages) \in Nat /\ DOMAIN outages = 1..Len(outages)
      BY <3>1, LenProperties
    <3>3. probe[w].outage \in {NoOutage} \union DOMAIN outages
      BY <1>3 DEF Record, Typed
    <3>4. QED BY <1>3, <3>2, <3>3, Recorded
  <2>3. /\ probe' \in [NetWorkers -> Probes] /\ probe'[w].pc = "idle"
        /\ \A v \in NetWorkers \ {w} : probe'[v] = probe[v]
        /\ cached' \in [NetCheckers -> Shown] /\ netCheck' \in [NetMonitors -> CheckStates]
    BY <2>1, Settled
  <2>4. overlapped' \in BOOLEAN /\ UNCHANGED <<netNow, settings, observed, config>>
    BY <1>3 DEF Record, Typed, NetTypeOK
  <2>5. DOMAIN outages' = 1..Len(outages') /\ DOMAIN outages \subseteq DOMAIN outages'
    <3>1. outages \in Seq(Outages)
      BY DEF Typed, NetTypeOK, Outages
    <3>2. DOMAIN outages = 1..Len(outages) /\ DOMAIN outages' = 1..Len(outages') /\ Len(outages) \in Nat
      BY <2>1, <3>1, LenProperties
    <3>3. QED BY <2>1, <2>2, <3>2
  <2>6. NetTypeOK'
    BY <2>1, <2>3, <2>4, Constants DEF Typed, NetTypeOK, Shown, CheckStates, Outages
  <2>7. QED BY <2>2, <2>3, <2>4, <2>5, <2>6 DEF Typed
<1>4. CASE ProbeFails(w)
  <2>1. /\ probe' = [probe EXCEPT ![w] = NoProbe]
        /\ netCheck' = [m \in NetMonitors |->
              IF netCheck[m].on = w /\ netCheck[m].pc \in {"await_first", "await_confirm"}
              THEN [netCheck[m] EXCEPT !.pc = "failed"] ELSE netCheck[m]]
        /\ UNCHANGED <<netNow, settings, observer, outages, observed, config, cached, overlapped>>
    BY <1>4 DEF ProbeFails
  <2>2. /\ probe' \in [NetWorkers -> Probes]
        /\ \A v \in NetWorkers : probe'[v].pc = "recording" => probe'[v] = probe[v]
    BY <1>0, <2>1, Nothing
  <2>3. netCheck' \in [NetMonitors -> CheckStates]
    <3>1. \A m \in NetMonitors : [netCheck[m] EXCEPT !.pc = "failed"] \in CheckStates
      BY <1>0 DEF CheckStates
    <3>2. QED BY <1>0, <2>1, <3>1
  <2>4. QED BY <2>1, <2>2, <2>3 DEF Typed, NetTypeOK, CheckStates
<1>5. QED BY <1>1, <1>2, <1>3, <1>4

\* The first attempt and the retry, as far as they go the same way: a verdict, or
\* a check that awaits evidence.
LEMMA Attempted ==
    ASSUME Typed, NEW m \in NetMonitors, Attempt(m) \/ Retry(m)
    PROVE  /\ netCheck' \in [NetMonitors -> CheckStates] /\ probe' \in [NetWorkers -> Probes]
           /\ \A w \in NetWorkers : probe'[w] = probe[w] \/ probe'[w] = NewProbe
           /\ \A n \in NetMonitors \ {m} : netCheck'[n] = netCheck[n]
           /\ netCheck'[m].row = netCheck[m].row /\ netCheck'[m].startedAt = netCheck[m].startedAt
           /\ \/ netCheck'[m].pc = "persist" /\ netCheck'[m].grounds = netCheck[m].grounds
              \/ \E c \in CheckStates :
                   /\ c.grounds = netCheck[m].grounds
                   /\ \/ c.pc = "await_first" /\ c.failedAt = netNow
                      \/ /\ c.pc = "await_confirm" /\ netCheck'[m] = c
                         /\ netCheck[m].pc = "retry" /\ c.on = netCheck[m].on
                         /\ c.failedAt = netCheck[m].failedAt
                   /\ \/ netCheck'[m] = c
                      \/ /\ probe' = probe /\ probe[c.on].pc = "idle"
                         /\ \E s \in Shown : netCheck'[m] = Judged(c, s)
           /\ UNCHANGED <<netNow, settings, observer, outages, observed, config, cached, overlapped>>
<1>0. /\ netCheck \in [NetMonitors -> CheckStates] /\ netCheck[m] \in CheckStates
      /\ probe \in [NetWorkers -> Probes] /\ netNow \in Instants
  BY Constants DEF Typed, NetTypeOK, Instants
<1>1. ASSUME NEW v \in CheckStates, netCheck' = [netCheck EXCEPT ![m] = v], UNCHANGED probe
      PROVE  /\ netCheck' \in [NetMonitors -> CheckStates] /\ netCheck'[m] = v
             /\ \A n \in NetMonitors \ {m} : netCheck'[n] = netCheck[n]
             /\ probe' \in [NetWorkers -> Probes]
             /\ \A w \in NetWorkers : probe'[w] = probe[w]
  BY <1>0, <1>1
<1>2. CASE Attempt(m)
  <2> DEFINE c == [netCheck[m] EXCEPT !.pc = "await_first", !.failedAt = netNow]
  <2>0. UNCHANGED <<netNow, settings, observer, outages, observed, config, cached, overlapped>>
    BY <1>2 DEF Attempt
  <2>1. CASE /\ \E result \in {"SUCCESS", "TARGET_FAILURE", "INCONCLUSIVE"} :
                  netCheck' = [netCheck EXCEPT ![m] = Verdict(@, result)]
             /\ UNCHANGED probe
    <3>1. PICK result \in {"SUCCESS", "TARGET_FAILURE", "INCONCLUSIVE"} :
            netCheck' = [netCheck EXCEPT ![m] = Verdict(@, result)]
      BY <2>1
    <3> DEFINE v == Verdict(netCheck[m], result)
    <3>2. /\ v \in CheckStates /\ v.pc = "persist" /\ v.grounds = netCheck[m].grounds
          /\ v.row = netCheck[m].row /\ v.startedAt = netCheck[m].startedAt
      BY Decided
    <3>3. netCheck' = [netCheck EXCEPT ![m] = v]
      BY <3>1
    <3> HIDE DEF v
    <3>4. QED BY <1>1, <2>0, <2>1, <3>2, <3>3
  <2>2. CASE Inspect(m, c, FALSE)
    <3>1. /\ c \in CheckStates /\ c.pc = "await_first" /\ c.failedAt = netNow
          /\ c.grounds = netCheck[m].grounds /\ c.row = netCheck[m].row
          /\ c.startedAt = netCheck[m].startedAt
      BY <1>0 DEF CheckStates
    <3> HIDE DEF c
    <3>2. /\ probe' \in [NetWorkers -> Probes] /\ netCheck' \in [NetMonitors -> CheckStates]
          /\ \A w \in NetWorkers : probe'[w] = probe[w] \/ probe'[w] = NewProbe
          /\ \A n \in NetMonitors \ {m} : netCheck'[n] = netCheck[n]
          /\ \/ netCheck'[m] = c
             \/ /\ probe' = probe /\ probe[c.on].pc = "idle"
                /\ \E s \in Shown : netCheck'[m] = Judged(c, s)
      BY <2>2, <3>1, Inspected
    <3>3. netCheck'[m].row = c.row /\ netCheck'[m].startedAt = c.startedAt
      BY <3>1, <3>2, JudgedIs
    <3>4. QED BY <2>0, <3>1, <3>2, <3>3
  <2>3. QED BY <1>2, <2>1, <2>2 DEF Attempt
<1>3. CASE Retry(m)
  <2>0. /\ netCheck[m].pc = "retry"
        /\ UNCHANGED <<netNow, settings, observer, outages, observed, config, cached, overlapped>>
    BY <1>3 DEF Retry
  <2>1. CASE /\ \E result \in {"SUCCESS", "TARGET_FAILURE", "INCONCLUSIVE"} :
                  netCheck' = [netCheck EXCEPT ![m] =
                                 [Verdict(@, result) EXCEPT !.measuredAt = netNow]]
             /\ UNCHANGED probe
    <3>1. PICK result \in {"SUCCESS", "TARGET_FAILURE", "INCONCLUSIVE"} :
            netCheck' = [netCheck EXCEPT ![m] = [Verdict(@, result) EXCEPT !.measuredAt = netNow]]
      BY <2>1
    <3> DEFINE d == Verdict(netCheck[m], result)
               v == [d EXCEPT !.measuredAt = netNow]
    <3>2. /\ d \in CheckStates /\ d.pc = "persist" /\ d.grounds = netCheck[m].grounds
          /\ d.row = netCheck[m].row /\ d.startedAt = netCheck[m].startedAt
      BY Decided
    <3>3. netCheck' = [netCheck EXCEPT ![m] = v]
      BY <3>1
    <3> HIDE DEF d
    <3>4. /\ v \in CheckStates /\ v.pc = "persist" /\ v.grounds = netCheck[m].grounds
          /\ v.row = netCheck[m].row /\ v.startedAt = netCheck[m].startedAt
      BY <1>0, <3>2 DEF CheckStates
    <3> HIDE DEF v
    <3>5. QED BY <1>1, <2>0, <2>1, <3>3, <3>4
  <2>2. CASE \E measured \in {netCheck[m].measuredAt, netNow} :
               Inspect(m, [netCheck[m] EXCEPT !.pc = "await_confirm", !.measuredAt = measured], TRUE)
    <3>1. PICK measured \in {netCheck[m].measuredAt, netNow} :
            Inspect(m, [netCheck[m] EXCEPT !.pc = "await_confirm", !.measuredAt = measured], TRUE)
      BY <2>2
    <3> DEFINE c == [netCheck[m] EXCEPT !.pc = "await_confirm", !.measuredAt = measured]
    <3>2. /\ c \in CheckStates /\ c.pc = "await_confirm" /\ c.failedAt = netCheck[m].failedAt
          /\ c.grounds = netCheck[m].grounds /\ c.row = netCheck[m].row
          /\ c.startedAt = netCheck[m].startedAt /\ c.on = netCheck[m].on
      BY <1>0, <3>1 DEF CheckStates
    <3>3. Inspect(m, c, TRUE)
      BY <3>1
    <3> HIDE DEF c
    <3>4. QED BY <2>0, <3>2, <3>3, Inspected
  <2>3. QED BY <1>3, <2>1, <2>2 DEF Retry
<1>4. QED BY <1>2, <1>3

\* The row of a check, as far as nothing inspects: a new claim, the end, a new
\* dispatch.
LEMMA RowsMove ==
    ASSUME Typed, NEW m \in NetMonitors,
           (\E w \in NetCheckers : ClaimCheck(m, w)) \/ Persist(m) \/ Redispatch(m)
    PROVE  /\ netCheck' \in [NetMonitors -> CheckStates]
           /\ \A n \in NetMonitors \ {m} : netCheck'[n] = netCheck[n]
           /\ \/ /\ netCheck'[m].pc \in {"idle", "running"} /\ netCheck'[m].grounds = "NONE"
                 /\ netCheck'[m].row = "DONE" \/ netCheck'[m].startedAt = netNow
              \/ /\ netCheck'[m] = [netCheck[m] EXCEPT !.row = "PENDING"]
                 /\ netCheck'[m].row = "PENDING"
           /\ UNCHANGED <<netNow, settings, observer, outages, config, probe, cached, overlapped>>
<1>0. /\ netCheck \in [NetMonitors -> CheckStates] /\ netCheck[m] \in CheckStates
      /\ netNow \in Instants /\ config[m] \in 1..MaxConfig
  BY Constants DEF Typed, NetTypeOK, Instants
<1>1. CASE \E w \in NetCheckers : ClaimCheck(m, w)
  <2>1. PICK w \in NetCheckers : ClaimCheck(m, w)
    BY <1>1
  <2> DEFINE c == [NoCheck EXCEPT !.pc = "running", !.row = "RUNNING", !.on = w,
                          !.startedAt = netNow, !.measuredAt = netNow, !.config = config[m]]
  <2>2. netCheck' = [netCheck EXCEPT ![m] = c]
    BY <2>1 DEF ClaimCheck
  <2>3. c \in CheckStates /\ c.pc = "running" /\ c.grounds = "NONE" /\ c.startedAt = netNow
    <3>1. NoCheck \in CheckStates /\ NoCheck.grounds = "NONE"
      BY Nothing DEF NoCheck
    <3>2. QED BY <1>0, <3>1 DEF CheckStates
  <2> HIDE DEF c
  <2>4. QED BY <1>0, <2>1, <2>2, <2>3 DEF ClaimCheck
<1>2. CASE Persist(m)
  <2>1. netCheck' = [netCheck EXCEPT ![m] = NoCheck]
    BY <1>2 DEF Persist
  <2>2. NoCheck \in CheckStates /\ NoCheck.grounds = "NONE" /\ NoCheck.pc = "idle" /\ NoCheck.row = "DONE"
    BY Nothing DEF NoCheck
  <2>3. UNCHANGED <<netNow, settings, observer, outages, config, probe, cached, overlapped>>
    BY <1>2 DEF Persist
  <2>4. QED BY <1>0, <2>1, <2>2, <2>3
<1>3. CASE Redispatch(m)
  <2> DEFINE c == [netCheck[m] EXCEPT !.row = "PENDING"]
  <2>1. netCheck' = [netCheck EXCEPT ![m] = c]
    BY <1>0, <1>3 DEF Redispatch
  <2>2. c \in CheckStates /\ c.row = "PENDING"
    BY <1>0 DEF CheckStates
  <2>3. QED BY <1>0, <1>3, <2>1, <2>2 DEF Redispatch
<1>4. QED BY <1>1, <1>2, <1>3

LEMMA ChecksTyped ==
    ASSUME Typed, NEW m \in NetMonitors,
           \/ \E w \in NetCheckers : ClaimCheck(m, w)
           \/ Attempt(m) \/ Retry(m) \/ Persist(m) \/ Redispatch(m)
    PROVE  Typed'
<1>0. netCheck[m] \in CheckStates /\ config[m] \in 1..MaxConfig
      /\ observed \in [OutageIds -> [NetMonitors ->
            [outcome : {"NONE", "PENDING", "SUCCESS", "TARGET_FAILURE"}, config : 1..MaxConfig]]]
  BY DEF Typed, NetTypeOK
<1>1. CASE Attempt(m) \/ Retry(m)
  <2>1. /\ netCheck' \in [NetMonitors -> CheckStates] /\ probe' \in [NetWorkers -> Probes]
        /\ \A w \in NetWorkers : probe'[w] = probe[w] \/ probe'[w] = NewProbe
        /\ UNCHANGED <<netNow, settings, observer, outages, observed, config, cached, overlapped>>
    BY <1>1, Attempted
  <2>2. \A w \in NetWorkers : probe'[w].pc = "recording" => probe'[w] = probe[w]
    BY <2>1, NewProbeType
  <2>3. QED BY <2>1, <2>2 DEF Typed, NetTypeOK, CheckStates
<1>2. CASE (\E w \in NetCheckers : ClaimCheck(m, w)) \/ Persist(m) \/ Redispatch(m)
  <2>1. /\ netCheck' \in [NetMonitors -> CheckStates]
        /\ UNCHANGED <<netNow, settings, observer, outages, config, probe, cached, overlapped>>
    BY <1>2, RowsMove
  <2>2. observed' \in [OutageIds -> [NetMonitors ->
            [outcome : {"NONE", "PENDING", "SUCCESS", "TARGET_FAILURE"}, config : 1..MaxConfig]]]
    <3>1. CASE Persist(m)
      <4> DEFINE Observations == [outcome : {"NONE", "PENDING", "SUCCESS", "TARGET_FAILURE"},
                                  config : 1..MaxConfig]
                 c == netCheck[m]
      <4>1. \A o \in OutageIds :
               \/ observed'[o] = observed[o]
               \/ observed'[o] = [observed[o] EXCEPT ![m] = [outcome |-> "PENDING", config |-> c.config]]
               \/ /\ observed'[o] = [observed[o] EXCEPT ![m].outcome = c.result]
                  /\ c.result \in {"SUCCESS", "TARGET_FAILURE"}
        BY <3>1 DEF Persist
      <4>2. \A o \in OutageIds : observed[o] \in [NetMonitors -> Observations]
        BY <1>0
      <4>3. [outcome |-> "PENDING", config |-> c.config] \in Observations
        BY <1>0 DEF CheckStates
      <4>4. \A o \in OutageIds : c.result \in {"SUCCESS", "TARGET_FAILURE"} =>
               [observed[o][m] EXCEPT !.outcome = c.result] \in Observations
        BY <4>2
      <4>5. ASSUME NEW o \in OutageIds PROVE observed'[o] \in [NetMonitors -> Observations]
        <5>1. CASE observed'[o] = [observed[o] EXCEPT ![m].outcome = c.result]
                   /\ c.result \in {"SUCCESS", "TARGET_FAILURE"}
          <6> DEFINE new == [observed[o][m] EXCEPT !.outcome = c.result]
          <6>1. new \in Observations
            BY <4>4, <5>1
          <6>2. observed'[o] = [observed[o] EXCEPT ![m] = new]
            BY <5>1
          <6> HIDE DEF new, Observations
          <6>3. QED BY <4>2, <6>1, <6>2
        <5>2. CASE observed'[o] = [observed[o] EXCEPT ![m] = [outcome |-> "PENDING", config |-> c.config]]
          <6> HIDE DEF Observations
          <6>1. QED BY <4>2, <4>3, <5>2
        <5>3. QED BY <4>1, <4>2, <5>1, <5>2
      <4>6. QED BY <3>1, <4>5 DEF Persist
    <3>2. CASE (\E w \in NetCheckers : ClaimCheck(m, w)) \/ Redispatch(m)
      BY <1>0, <3>2 DEF ClaimCheck, Redispatch
    <3>3. QED BY <1>2, <3>1, <3>2
  <2>3. QED BY <2>1, <2>2 DEF Typed, NetTypeOK, CheckStates
<1>3. QED BY <1>1, <1>2

\* A summary changes nothing of an outage but its mark.
LEMMA Summarized ==
    ASSUME Typed, NEW o \in OutageIds, NEW waited \in BOOLEAN, Summarize(o, waited)
    PROVE  /\ outages' \in Seq(Outages) /\ Len(outages') = Len(outages)
           /\ DOMAIN outages' = DOMAIN outages /\ o \in DOMAIN outages
           /\ \A x \in DOMAIN outages \ {o} : outages'[x] = outages[x]
           /\ outages'[o].recoveredAt = outages[o].recoveredAt
           /\ outages'[o].canceled = outages[o].canceled
           /\ UNCHANGED <<netNow, settings, observer, observed, config, probe, cached, netCheck, overlapped>>
<1>1. outages \in Seq(Outages)
  BY DEF Typed, NetTypeOK, Outages
<1>2. DOMAIN outages = 1..Len(outages)
  BY <1>1, LenProperties
<1> DEFINE new == [outages[o] EXCEPT !.summarized = TRUE]
<1>3. o \in 1..Len(outages) /\ outages' = [outages EXCEPT ![o] = new]
  BY <1>2 DEF Summarize
<1>4. new \in Outages /\ new.recoveredAt = outages[o].recoveredAt /\ new.canceled = outages[o].canceled
  <2>1. outages[o] \in Outages
    BY <1>1, <1>3, ElementOfSeq
  <2>2. QED BY <2>1 DEF Outages
<1> HIDE DEF new
<1>5. /\ outages' \in Seq(Outages) /\ Len(outages') = Len(outages)
      /\ \A x \in 1..Len(outages) : outages'[x] = IF x = o THEN new ELSE outages[x]
  BY <1>1, <1>3, <1>4, ExceptSeq
<1>6. DOMAIN outages' = 1..Len(outages')
  BY <1>5, LenProperties
<1>7. QED BY <1>2, <1>3, <1>4, <1>5, <1>6 DEF Summarize

LEMMA SummaryTyped ==
    ASSUME Typed, NEW o \in OutageIds, NEW waited \in BOOLEAN, Summarize(o, waited)
    PROVE  Typed'
<1>1. /\ outages' \in Seq(Outages) /\ Len(outages') = Len(outages) /\ DOMAIN outages' = DOMAIN outages
      /\ UNCHANGED <<netNow, settings, observer, observed, config, probe, cached, netCheck, overlapped>>
  BY Summarized
<1>2. QED BY <1>1 DEF Typed, NetTypeOK, Outages
-----------------------------------------------------------------------------
(* Evidence.                                                                *)

\* A probe that begins now is new enough for every check that has failed.
LEMMA ProbesStayNew ==
    ASSUME Typed, NEW c \in CheckStates, NEW now, now >= netNow, now \in Instants,
           EvidenceIsNew(c, probe, netNow),
           \A w \in NetWorkers : \/ probe'[w] = probe[w]
                                 \/ probe'[w].pc = "idle"
                                 \/ probe'[w].pc = "probing" /\ probe'[w].startedAt = netNow
                                 \/ probe'[w].pc = "recording" /\ probe'[w].checkedAt = netNow
    PROVE  EvidenceIsNew(c, probe', now)
<1>1. /\ c.on \in NetWorkers /\ c.failedAt \in Instants /\ netNow \in Instants
      /\ probe[c.on] \in Probes
  BY Constants DEF CheckStates, Typed, NetTypeOK, Instants
<1>2. c.grounds # "BEFORE" /\ (c.pc \in {"await_first", "retry", "await_confirm"} => c.failedAt <= now)
  BY <1>1 DEF EvidenceIsNew, Instants
<1>3. ASSUME c.pc \in {"retry", "await_confirm"}
      PROVE  /\ probe'[c.on].pc = "probing" => probe'[c.on].startedAt >= c.failedAt
             /\ probe'[c.on].pc = "recording" => probe'[c.on].checkedAt >= c.failedAt
  <2>1. c.failedAt <= netNow
    BY <1>3 DEF EvidenceIsNew
  <2>2. CASE probe'[c.on] = probe[c.on]
    BY <1>3, <2>2 DEF EvidenceIsNew
  <2>3. CASE probe'[c.on] # probe[c.on]
    BY <1>1, <2>1, <2>3 DEF Instants
  <2>4. QED BY <2>2, <2>3
<1>4. QED BY <1>2, <1>3 DEF EvidenceIsNew

\* An answer that a check awaits for the second time is not older than its
\* failure, so it may count.
LEMMA SettledIsNew ==
    ASSUME Typed, EvidenceInv, NEW w \in NetWorkers, NEW s \in Shown, Settle(w, s),
           \A m \in NetMonitors : netCheck[m].on = w /\ netCheck[m].pc = "await_confirm"
                                  /\ s.status = "ONLINE" => s.at >= netCheck[m].failedAt,
           UNCHANGED netNow
    PROVE  EvidenceInv'
<1> SUFFICES ASSUME NEW m \in NetMonitors PROVE EvidenceIsNew(netCheck'[m], probe', netNow)
  BY DEF EvidenceInv
<1> DEFINE c == netCheck[m]
<1>1. c \in CheckStates /\ EvidenceIsNew(c, probe, netNow) /\ netNow \in Instants
  BY Constants DEF Typed, EvidenceInv, NetTypeOK, Instants
<1>2. /\ probe'[w].pc = "idle" /\ \A v \in NetWorkers \ {w} : probe'[v] = probe[v]
      /\ \/ netCheck'[m] = c
         \/ /\ c.on = w /\ c.pc \in {"await_first", "await_confirm"}
            /\ netCheck'[m] = Judged(c, s)
  BY Settled
<1>3. CASE netCheck'[m] = c
  <2>1. netNow >= netNow
    BY <1>1 DEF Instants
  <2>2. QED BY <1>1, <1>2, <1>3, <2>1, ProbesStayNew
<1>4. CASE netCheck'[m] # c
  <2> DEFINE j == Judged(c, s)
  <2>1. /\ j = netCheck'[m] /\ j.on = w
        /\ \/ /\ j.pc = "retry" /\ j.failedAt = c.failedAt
              /\ j.grounds = c.grounds /\ c.pc = "await_first"
           \/ /\ j.pc = "persist"
              /\ j.grounds = "BEFORE" =>
                   \/ c.grounds = "BEFORE"
                   \/ c.pc = "await_confirm" /\ s.status = "ONLINE" /\ ~(s.at >= c.failedAt)
    BY <1>1, <1>2, <1>4, JudgedIs
  <2>2. c.on = w
    BY <1>2, <1>4
  <2> HIDE DEF j
  <2>3. QED BY <1>1, <1>2, <2>1, <2>2 DEF EvidenceIsNew
<1>5. QED BY <1>3, <1>4

LEMMA EvidenceKept ==
    ASSUME Typed, EvidenceInv, [NetNext]_netVars
    PROVE  EvidenceInv'
<1>0. /\ \A m \in NetMonitors : netCheck[m] \in CheckStates /\ EvidenceIsNew(netCheck[m], probe, netNow)
      /\ netNow \in Instants /\ netNow >= netNow
  BY Constants DEF Typed, EvidenceInv, NetTypeOK, Instants
<1>1. ASSUME UNCHANGED <<probe, netCheck>>, netNow' \in Instants, netNow' >= netNow
      PROVE  EvidenceInv'
  <2>1. \A m \in NetMonitors : EvidenceIsNew(netCheck[m], probe', netNow')
    BY <1>0, <1>1, ProbesStayNew
  <2>2. QED BY <1>1, <2>1 DEF EvidenceInv
<1>2. CASE \/ \E enabled \in BOOLEAN : SaveSettings(enabled)
           \/ \E m \in NetMonitors : EditMonitor(m)
           \/ \E o \in OutageIds, waited \in BOOLEAN : Summarize(o, waited)
           \/ UNCHANGED netVars
  BY <1>0, <1>1, <1>2 DEF SaveSettings, EditMonitor, Summarize, netVars
<1>3. CASE NetTick
  <2>1. UNCHANGED <<probe, netCheck>> /\ netNow' = netNow + 1 /\ netNow < NetClock
    BY <1>3 DEF NetTick
  <2>2. netNow' \in Instants /\ netNow' >= netNow
    BY <1>0, <2>1, Constants DEF Instants
  <2>3. QED BY <1>1, <2>1, <2>2
<1>4. ASSUME NEW w \in NetWorkers, Poll(w) PROVE EvidenceInv'
  <2>1. /\ UNCHANGED <<netCheck, netNow>>
        /\ \A v \in NetWorkers : \/ probe'[v] = probe[v]
                                 \/ probe'[v].pc = "probing" /\ probe'[v].startedAt = netNow
    BY <1>4, NewProbeType DEF Poll, Typed
  <2>2. \A m \in NetMonitors : EvidenceIsNew(netCheck[m], probe', netNow)
    BY <1>0, <2>1, ProbesStayNew
  <2>3. QED BY <2>1, <2>2 DEF EvidenceInv
<1>5. ASSUME NEW w \in NetWorkers, BeginRecording(w) PROVE EvidenceInv'
  <2>0. UNCHANGED netNow /\ probe[w].pc = "probing" /\ probe[w] \in Probes
    BY <1>5 DEF BeginRecording, Typed
  <2>1. CASE \E s \in Shown : Settle(w, s) /\ (s.status = "ONLINE" => s.at > probe[w].startedAt)
    <3>1. PICK s \in Shown : Settle(w, s) /\ (s.status = "ONLINE" => s.at > probe[w].startedAt)
      BY <2>1
    <3>2. ASSUME NEW m \in NetMonitors, netCheck[m].on = w, netCheck[m].pc = "await_confirm",
                 s.status = "ONLINE"
          PROVE  s.at >= netCheck[m].failedAt
      <4>1. probe[w].startedAt >= netCheck[m].failedAt
        BY <1>0, <2>0, <3>2 DEF EvidenceIsNew
      <4>2. s.at \in Nat /\ probe[w].startedAt \in Nat /\ netCheck[m].failedAt \in Nat
        BY <1>0, <2>0 DEF Shown, Probes, CheckStates, Instants
      <4>3. QED BY <3>1, <3>2, <4>1, <4>2
    <3>3. QED BY <2>0, <3>1, <3>2, SettledIsNew
  <2>2. CASE ~\E s \in Shown : Settle(w, s) /\ (s.status = "ONLINE" => s.at > probe[w].startedAt)
    <3>1. PICK p \in Probes : Recorder(p) /\ probe' = [probe EXCEPT ![w] = p]
      BY <1>5, <2>2, Begun
    <3>2. UNCHANGED netCheck
      BY <1>5, <2>2, Begun
    <3>3. \A v \in NetWorkers : \/ probe'[v] = probe[v]
                                \/ probe'[v].pc = "recording" /\ probe'[v].checkedAt = netNow
      BY <3>1 DEF Recorder, Typed
    <3>4. \A m \in NetMonitors : EvidenceIsNew(netCheck[m], probe', netNow)
      BY <1>0, <3>3, ProbesStayNew
    <3>5. QED BY <2>0, <3>2, <3>4 DEF EvidenceInv
  <2>3. QED BY <2>1, <2>2
<1>6. ASSUME NEW w \in NetWorkers, Record(w) PROVE EvidenceInv'
  <2> DEFINE s == observer'
  <2>1. /\ probe[w].pc = "recording" /\ s \in Shown /\ s.at = probe[w].checkedAt /\ Settle(w, s)
        /\ UNCHANGED netNow
    BY <1>6, Recorded DEF Record
  <2> HIDE DEF s
  <2>2. \A m \in NetMonitors : netCheck[m].on = w /\ netCheck[m].pc = "await_confirm"
                               => s.at >= netCheck[m].failedAt
    BY <1>0, <2>1 DEF EvidenceIsNew
  <2>3. QED BY <2>1, <2>2, SettledIsNew
<1>7. ASSUME NEW w \in NetWorkers, ProbeFails(w) PROVE EvidenceInv'
  <2> SUFFICES ASSUME NEW m \in NetMonitors PROVE EvidenceIsNew(netCheck'[m], probe', netNow)
    BY <1>7 DEF EvidenceInv, ProbeFails
  <2>1. \A v \in NetWorkers : probe'[v] = probe[v] \/ probe'[v].pc = "idle"
    BY <1>7, Nothing DEF ProbeFails, Typed
  <2>2. EvidenceIsNew(netCheck[m], probe', netNow)
    BY <1>0, <2>1, ProbesStayNew
  <2>3. \/ netCheck'[m] = netCheck[m]
        \/ netCheck'[m] = [netCheck[m] EXCEPT !.pc = "failed"]
    BY <1>7 DEF ProbeFails
  <2>4. QED BY <1>0, <2>2, <2>3 DEF EvidenceIsNew, CheckStates
<1>8. ASSUME NEW m \in NetMonitors, Attempt(m) \/ Retry(m) PROVE EvidenceInv'
  <2>1. /\ \A w \in NetWorkers : probe'[w] = probe[w] \/ probe'[w] = NewProbe
        /\ \A n \in NetMonitors \ {m} : netCheck'[n] = netCheck[n]
        /\ \/ netCheck'[m].pc = "persist" /\ netCheck'[m].grounds = netCheck[m].grounds
           \/ \E c \in CheckStates :
                /\ c.grounds = netCheck[m].grounds
                /\ \/ c.pc = "await_first" /\ c.failedAt = netNow
                   \/ /\ c.pc = "await_confirm" /\ netCheck'[m] = c
                      /\ netCheck[m].pc = "retry" /\ c.on = netCheck[m].on
                      /\ c.failedAt = netCheck[m].failedAt
                /\ \/ netCheck'[m] = c
                   \/ /\ probe' = probe /\ probe[c.on].pc = "idle"
                      /\ \E s \in Shown : netCheck'[m] = Judged(c, s)
        /\ UNCHANGED netNow
    BY <1>8, Attempted
  <2>2. \A w \in NetWorkers : \/ probe'[w] = probe[w]
                              \/ probe'[w].pc = "probing" /\ probe'[w].startedAt = netNow
    BY <2>1, NewProbeType
  <2>3. \A n \in NetMonitors : EvidenceIsNew(netCheck[n], probe', netNow)
    BY <1>0, <2>2, ProbesStayNew
  <2>4. EvidenceIsNew(netCheck'[m], probe', netNow)
    <3>1. netCheck[m].grounds # "BEFORE"
      BY <1>0 DEF EvidenceIsNew
    <3>2. CASE netCheck'[m].pc = "persist" /\ netCheck'[m].grounds = netCheck[m].grounds
      BY <3>1, <3>2 DEF EvidenceIsNew
    <3>3. CASE ~(netCheck'[m].pc = "persist" /\ netCheck'[m].grounds = netCheck[m].grounds)
      <4>1. PICK c \in CheckStates :
                /\ c.grounds = netCheck[m].grounds
                /\ \/ c.pc = "await_first" /\ c.failedAt = netNow
                   \/ /\ c.pc = "await_confirm" /\ netCheck'[m] = c
                      /\ netCheck[m].pc = "retry" /\ c.on = netCheck[m].on
                      /\ c.failedAt = netCheck[m].failedAt
                /\ \/ netCheck'[m] = c
                   \/ /\ probe' = probe /\ probe[c.on].pc = "idle"
                      /\ \E s \in Shown : netCheck'[m] = Judged(c, s)
        BY <2>1, <3>3
      <4>2. CASE c.pc = "await_first" /\ c.failedAt = netNow /\ netCheck'[m] = c
        BY <1>0, <3>1, <4>1, <4>2 DEF EvidenceIsNew
      <4>3. CASE c.pc = "await_confirm"
        <5>1. EvidenceIsNew(c, probe', netNow)
          BY <2>3, <3>1, <4>1, <4>3 DEF EvidenceIsNew
        <5>2. QED BY <4>1, <4>3, <5>1
      <4>4. CASE c.pc = "await_first" /\ netCheck'[m] # c
        <5>1. PICK s \in Shown : netCheck'[m] = Judged(c, s)
          BY <4>1, <4>4
        <5> DEFINE j == Judged(c, s)
        <5>2. /\ j.on = c.on
              /\ \/ j.pc = "retry" /\ j.failedAt = c.failedAt /\ j.grounds = c.grounds
                 \/ j.pc = "persist" /\ (j.grounds = "BEFORE" => c.grounds = "BEFORE")
          BY <4>4, JudgedIs
        <5>3. probe'[c.on].pc = "idle" /\ c.failedAt = netNow
          BY <4>1, <4>4
        <5>4. netCheck'[m] = j
          BY <5>1
        <5> HIDE DEF j
        <5>5. QED BY <1>0, <3>1, <4>1, <5>2, <5>3, <5>4 DEF EvidenceIsNew
      <4>5. QED BY <4>1, <4>2, <4>3, <4>4
    <3>4. QED BY <3>2, <3>3
  <2>5. QED BY <2>1, <2>3, <2>4 DEF EvidenceInv
<1>9. ASSUME NEW m \in NetMonitors,
             (\E w \in NetCheckers : ClaimCheck(m, w)) \/ Persist(m) \/ Redispatch(m)
      PROVE  EvidenceInv'
  <2>1. /\ \A n \in NetMonitors \ {m} : netCheck'[n] = netCheck[n]
        /\ \/ netCheck'[m].pc \in {"idle", "running"} /\ netCheck'[m].grounds = "NONE"
           \/ netCheck'[m] = [netCheck[m] EXCEPT !.row = "PENDING"]
        /\ UNCHANGED <<netNow, probe>>
    BY <1>9, RowsMove
  <2>2. EvidenceIsNew(netCheck'[m], probe, netNow)
    BY <1>0, <2>1 DEF EvidenceIsNew, CheckStates
  <2>3. QED BY <1>0, <2>1, <2>2 DEF EvidenceInv
<1>10. QED BY <1>2, <1>3, <1>4, <1>5, <1>6, <1>7, <1>8, <1>9 DEF NetNext
-----------------------------------------------------------------------------
(* Outages.                                                                 *)

LEMMA OutagesTyped ==
    ASSUME Typed
    PROVE  /\ outages \in Seq(Outages) /\ Len(outages) \in Nat /\ DOMAIN outages = 1..Len(outages)
           /\ \A o \in DOMAIN outages : o # NoOutage /\ outages[o] \in Outages
           /\ netNow \in 1..NetClock
<1>1. outages \in Seq(Outages) /\ netNow \in 1..NetClock
  BY DEF Typed, NetTypeOK, Outages
<1>2. Len(outages) \in Nat /\ DOMAIN outages = 1..Len(outages)
  BY <1>1, LenProperties
<1>3. \A o \in 1..Len(outages) : outages[o] \in Outages
  BY <1>1, ElementOfSeq
<1>4. QED BY <1>1, <1>2, <1>3 DEF NoOutage

\* A check that runs either ran before or was claimed now.
RowsStay ==
    \A m \in NetMonitors : netCheck'[m].row = "RUNNING" =>
        \/ netCheck[m].row = "RUNNING" /\ netCheck'[m].startedAt = netCheck[m].startedAt
        \/ netCheck'[m].startedAt = netNow

\* A transaction that is in progress was so before or has just read the row.
RecordersStay ==
    \A w \in NetWorkers : probe'[w].pc = "recording" =>
        \/ probe[w].pc = "recording" /\ probe'[w].outage = probe[w].outage
        \/ probe'[w].outage = observer.outage

LEMMA OutagesFrame ==
    ASSUME Typed, OutageInv, RowsStay, RecordersStay, UNCHANGED <<observer, outages, overlapped>>,
           netNow' \in Nat, netNow' >= netNow
    PROVE  OutageInv'
<1>1. \A o \in DOMAIN outages : o # NoOutage /\ outages[o] \in Outages
  BY OutagesTyped
<1>2. netNow \in Nat /\ \A m \in NetMonitors : netCheck[m] \in CheckStates
  BY Constants DEF Typed, NetTypeOK
<1>3. SummariesOrdered'
  <2> SUFFICES ASSUME NEW o \in DOMAIN outages
               PROVE  /\ outages[o].recoveredAt <= netNow'
                      /\ outages[o].summarized => Recovered(o) \/ outages[o].canceled
                      /\ ~overlapped /\ Recovered(o) /\ outages[o].summarized =>
                           \A m \in NetMonitors : netCheck'[m].row = "RUNNING" =>
                               netCheck'[m].startedAt >= outages[o].recoveredAt
    BY DEF SummariesOrdered, Recovered
  <2>1. /\ outages[o].recoveredAt <= netNow /\ outages[o].recoveredAt \in Nat
        /\ outages[o].summarized => Recovered(o) \/ outages[o].canceled
        /\ ~overlapped /\ Recovered(o) /\ outages[o].summarized =>
             \A m \in NetMonitors : netCheck[m].row = "RUNNING" =>
                 netCheck[m].startedAt >= outages[o].recoveredAt
    BY <1>1 DEF OutageInv, SummariesOrdered, Outages, Instants
  <2>2. outages[o].recoveredAt <= netNow'
    BY <1>2, <2>1
  <2>3. ASSUME ~overlapped, Recovered(o), outages[o].summarized, NEW m \in NetMonitors,
               netCheck'[m].row = "RUNNING"
        PROVE  netCheck'[m].startedAt >= outages[o].recoveredAt
    <3>1. CASE netCheck[m].row = "RUNNING" /\ netCheck'[m].startedAt = netCheck[m].startedAt
      BY <2>1, <2>3, <3>1
    <3>2. CASE netCheck'[m].startedAt = netNow
      BY <1>2, <2>1, <3>2
    <3>3. QED BY <2>3, <3>1, <3>2 DEF RowsStay
  <2>4. QED BY <2>1, <2>2, <2>3
<1>4. RecordersAgree'
  BY DEF OutageInv, RecordersAgree, RecordersStay
<1>5. UnresolvedOutageIsActive'
  BY DEF OutageInv, UnresolvedOutageIsActive, Unresolved, Recovered
<1>6. QED BY <1>3, <1>4, <1>5 DEF OutageInv

\* What a settled promise leaves of the rows.
LEMMA SettledRows ==
    ASSUME Typed, NEW w \in NetWorkers, NEW s \in Shown, Settle(w, s)
    PROVE  /\ \A m \in NetMonitors : /\ netCheck'[m].row = netCheck[m].row
                                     /\ netCheck'[m].startedAt = netCheck[m].startedAt
           /\ RowsStay
           /\ probe'[w].pc = "idle" /\ \A v \in NetWorkers \ {w} : probe'[v] = probe[v]
<1>1. \A m \in NetMonitors :
         \/ netCheck'[m] = netCheck[m]
         \/ /\ netCheck[m].pc \in {"await_first", "await_confirm"}
            /\ netCheck'[m] = Judged(netCheck[m], s)
  BY Settled
<1>2. \A m \in NetMonitors : netCheck[m] \in CheckStates
  BY DEF Typed
<1>3. \A m \in NetMonitors : /\ netCheck'[m].row = netCheck[m].row
                             /\ netCheck'[m].startedAt = netCheck[m].startedAt
  BY <1>1, <1>2, JudgedIs
<1>4. probe'[w].pc = "idle" /\ \A v \in NetWorkers \ {w} : probe'[v] = probe[v]
  BY Settled
<1>5. QED BY <1>3, <1>4 DEF RowsStay

\* A probe that records: with no other in progress it saw the row as it is, so it
\* opens an outage only when none is open and ends the one that is.
LEMMA RecordKeepsOutages ==
    ASSUME Typed, OutageInv, NEW w \in NetWorkers, Record(w)
    PROVE  OutageInv'
<1> DEFINE p == probe[w]
<1>0. /\ outages \in Seq(Outages) /\ Len(outages) \in Nat /\ DOMAIN outages = 1..Len(outages)
      /\ \A o \in DOMAIN outages : o # NoOutage /\ outages[o] \in Outages
      /\ netNow \in 1..NetClock /\ netNow \in Nat
  BY OutagesTyped, Constants
<1>1. /\ p.pc = "recording" /\ p.checkedAt \in 1..netNow
      /\ observer' \in Shown /\ Settle(w, observer')
      /\ outages' \in Seq(Outages)
      /\ \/ /\ p.outage = NoOutage /\ observer'.outage = Len(outages) + 1
            /\ Len(outages') = Len(outages) + 1
            /\ \A o \in DOMAIN outages : outages'[o] = outages[o]
            /\ outages'[Len(outages) + 1] =
                 [recoveredAt |-> Never, canceled |-> FALSE, summarized |-> FALSE]
         \/ /\ p.outage \in DOMAIN outages /\ observer'.outage = NoOutage
            /\ Len(outages') = Len(outages)
            /\ \A o \in DOMAIN outages \ {p.outage} : outages'[o] = outages[o]
            /\ \/ /\ outages'[p.outage].recoveredAt = p.checkedAt
                  /\ outages'[p.outage].summarized = outages[p.outage].summarized
               \/ /\ outages'[p.outage].recoveredAt = outages[p.outage].recoveredAt
                  /\ outages'[p.outage].canceled /\ outages'[p.outage].summarized
         \/ observer'.outage = p.outage /\ outages' = outages
  BY Recorded
<1>2. DOMAIN outages' = 1..Len(outages')
  BY <1>1, LenProperties
<1>3. /\ overlapped' = (overlapped \/ \E v \in NetWorkers \ {w} : probe[v].pc = "recording")
      /\ netNow' = netNow /\ overlapped \in BOOLEAN
  BY DEF Record, Typed, NetTypeOK
<1>4. /\ \A m \in NetMonitors : /\ netCheck'[m].row = netCheck[m].row
                                /\ netCheck'[m].startedAt = netCheck[m].startedAt
      /\ probe'[w].pc = "idle" /\ \A v \in NetWorkers \ {w} : probe'[v] = probe[v]
  <2> DEFINE s == observer'
  <2>1. s \in Shown /\ Settle(w, s)
    BY <1>1
  <2> HIDE DEF s
  <2>2. QED BY <2>1, SettledRows
<1>5. \A o \in DOMAIN outages :
         /\ outages[o].recoveredAt <= netNow
         /\ outages[o].summarized => outages[o].recoveredAt # Never \/ outages[o].canceled
         /\ ~overlapped /\ outages[o].recoveredAt # Never /\ outages[o].summarized =>
              \A m \in NetMonitors : netCheck[m].row = "RUNNING" =>
                  netCheck[m].startedAt >= outages[o].recoveredAt
  BY DEF OutageInv, SummariesOrdered, Recovered
<1>6. RecordersAgree'
  <2>1. ~overlapped' => \A v \in NetWorkers : probe'[v].pc # "recording"
    BY <1>3, <1>4
  <2>2. QED BY <2>1 DEF RecordersAgree
<1>7. ~overlapped' => /\ ~overlapped /\ p.outage = observer.outage
                      /\ \A o \in DOMAIN outages :
                           outages[o].recoveredAt = Never /\ ~outages[o].canceled <=> p.outage = o
  <2>1. ~overlapped' => ~overlapped
    BY <1>3
  <2>2. ~overlapped => p.outage = observer.outage
    BY <1>1 DEF OutageInv, RecordersAgree
  <2>3. ~overlapped => \A o \in DOMAIN outages :
            outages[o].recoveredAt = Never /\ ~outages[o].canceled <=> observer.outage = o
    BY DEF OutageInv, UnresolvedOutageIsActive, Unresolved, Recovered
  <2>4. QED BY <2>1, <2>2, <2>3
<1> HIDE DEF p
<1>8. ASSUME NEW o \in DOMAIN outages'
      PROVE  /\ outages'[o].recoveredAt <= netNow
             /\ outages'[o].summarized => outages'[o].recoveredAt # Never \/ outages'[o].canceled
             /\ ~overlapped' /\ outages'[o].recoveredAt # Never /\ outages'[o].summarized =>
                  \A m \in NetMonitors : netCheck[m].row = "RUNNING" =>
                      netCheck[m].startedAt >= outages'[o].recoveredAt
             /\ ~overlapped' =>
                  (outages'[o].recoveredAt = Never /\ ~outages'[o].canceled <=> observer'.outage = o)
  <2>1. CASE /\ p.outage = NoOutage /\ observer'.outage = Len(outages) + 1
             /\ Len(outages') = Len(outages) + 1
             /\ \A x \in DOMAIN outages : outages'[x] = outages[x]
             /\ outages'[Len(outages) + 1] =
                  [recoveredAt |-> Never, canceled |-> FALSE, summarized |-> FALSE]
    <3>1. CASE o = Len(outages) + 1
      BY <1>0, <2>1, <3>1 DEF Never
    <3>2. CASE o # Len(outages) + 1
      <4>1. o \in DOMAIN outages /\ o # observer'.outage /\ o # p.outage /\ outages'[o] = outages[o]
        BY <1>0, <1>2, <2>1, <3>2
      <4>2. QED BY <1>5, <1>7, <4>1
    <3>3. QED BY <3>1, <3>2
  <2>2. CASE /\ p.outage \in DOMAIN outages /\ observer'.outage = NoOutage
             /\ Len(outages') = Len(outages)
             /\ \A x \in DOMAIN outages \ {p.outage} : outages'[x] = outages[x]
             /\ \/ /\ outages'[p.outage].recoveredAt = p.checkedAt
                   /\ outages'[p.outage].summarized = outages[p.outage].summarized
                \/ /\ outages'[p.outage].recoveredAt = outages[p.outage].recoveredAt
                   /\ outages'[p.outage].canceled /\ outages'[p.outage].summarized
    <3>1. o \in DOMAIN outages /\ o # observer'.outage
      BY <1>0, <1>2, <2>2
    <3>2. CASE o # p.outage
      BY <1>5, <1>7, <2>2, <3>1, <3>2
    <3>3. CASE o = p.outage
      <4>1. ~overlapped' => outages[o].recoveredAt = Never /\ ~outages[o].canceled /\ ~outages[o].summarized
        BY <1>5, <1>7, <3>1, <3>3
      <4>2. CASE outages'[o].recoveredAt = p.checkedAt /\ outages'[o].summarized = outages[o].summarized
        BY <1>0, <1>1, <3>1, <4>1, <4>2 DEF Never
      <4>3. CASE outages'[o].recoveredAt = outages[o].recoveredAt
                 /\ outages'[o].canceled /\ outages'[o].summarized
        BY <1>5, <3>1, <4>1, <4>3
      <4>4. QED BY <2>2, <3>3, <4>2, <4>3
    <3>4. QED BY <3>2, <3>3
  <2>3. CASE observer'.outage = p.outage /\ outages' = outages
    BY <1>5, <1>7, <2>3
  <2>4. QED BY <1>1, <2>1, <2>2, <2>3 DEF p
<1>9. SummariesOrdered'
  BY <1>3, <1>4, <1>8 DEF SummariesOrdered, Recovered
<1>10. UnresolvedOutageIsActive'
  BY <1>8 DEF UnresolvedOutageIsActive, Unresolved, Recovered
<1>11. QED BY <1>6, <1>9, <1>10 DEF OutageInv

\* A summary waits for the checks that ran when connectivity came back.
LEMMA SummarizeKeepsOutages ==
    ASSUME Typed, OutageInv, NEW o \in OutageIds, NEW waited \in BOOLEAN, Summarize(o, waited)
    PROVE  OutageInv'
<1>1. /\ DOMAIN outages' = DOMAIN outages /\ o \in DOMAIN outages
      /\ \A x \in DOMAIN outages \ {o} : outages'[x] = outages[x]
      /\ outages'[o].recoveredAt = outages[o].recoveredAt
      /\ outages'[o].canceled = outages[o].canceled
      /\ UNCHANGED <<netNow, observer, probe, netCheck, overlapped>>
  BY Summarized
<1>2. /\ Recovered(o) /\ InFlight(o) = {}
  BY DEF Summarize
<1>3. \A m \in NetMonitors : netCheck[m].row = "RUNNING" => netCheck[m].startedAt >= outages[o].recoveredAt
  <2>1. \A m \in NetMonitors : netCheck[m].row = "RUNNING" => ~(netCheck[m].startedAt <= outages[o].recoveredAt)
    BY <1>2 DEF InFlight
  <2>2. /\ outages[o].recoveredAt \in Nat
        /\ \A m \in NetMonitors : netCheck[m].startedAt \in Nat
    BY <1>1, OutagesTyped DEF Outages, Instants, Typed, CheckStates
  <2>3. QED BY <2>1, <2>2
<1>4. SummariesOrdered'
  <2> SUFFICES ASSUME NEW x \in DOMAIN outages
               PROVE  /\ outages'[x].recoveredAt <= netNow
                      /\ outages'[x].summarized => outages'[x].recoveredAt # Never \/ outages'[x].canceled
                      /\ ~overlapped /\ outages'[x].recoveredAt # Never /\ outages'[x].summarized =>
                           \A m \in NetMonitors : netCheck[m].row = "RUNNING" =>
                               netCheck[m].startedAt >= outages'[x].recoveredAt
    BY <1>1 DEF SummariesOrdered, Recovered
  <2>1. CASE x = o
    BY <1>1, <1>2, <1>3, <2>1 DEF OutageInv, SummariesOrdered, Recovered
  <2>2. CASE x # o
    BY <1>1, <2>2 DEF OutageInv, SummariesOrdered, Recovered
  <2>3. QED BY <2>1, <2>2
<1>5. RecordersAgree'
  BY <1>1 DEF OutageInv, RecordersAgree
<1>6. UnresolvedOutageIsActive'
  <2>1. \A x \in DOMAIN outages : /\ outages'[x].recoveredAt = outages[x].recoveredAt
                                  /\ outages'[x].canceled = outages[x].canceled
    BY <1>1
  <2>2. QED BY <1>1, <2>1 DEF OutageInv, UnresolvedOutageIsActive, Unresolved, Recovered
<1>7. QED BY <1>4, <1>5, <1>6 DEF OutageInv

LEMMA OutagesKept ==
    ASSUME Typed, OutageInv, [NetNext]_netVars
    PROVE  OutageInv'
<1>0. netNow \in 1..NetClock /\ netNow \in Nat /\ netNow >= netNow /\ NetClock \in Nat
  BY Constants, OutagesTyped
<1>1. ASSUME UNCHANGED <<netNow, observer, outages, overlapped>>, RowsStay, RecordersStay
      PROVE  OutageInv'
  <2>1. netNow' \in Nat /\ netNow' >= netNow
    BY <1>0, <1>1
  <2>2. QED BY <1>1, <2>1, OutagesFrame
<1>2. CASE \/ \E enabled \in BOOLEAN : SaveSettings(enabled)
           \/ \E m \in NetMonitors : EditMonitor(m)
           \/ UNCHANGED netVars
  <2>1. UNCHANGED <<netNow, observer, outages, overlapped, probe, netCheck>>
    BY <1>2 DEF SaveSettings, EditMonitor, netVars
  <2>2. RowsStay /\ RecordersStay
    BY <2>1 DEF RowsStay, RecordersStay
  <2>3. QED BY <1>1, <2>1, <2>2
<1>3. CASE NetTick
  <2>1. UNCHANGED <<observer, outages, overlapped, probe, netCheck>> /\ netNow' = netNow + 1
    BY <1>3 DEF NetTick
  <2>2. RowsStay /\ RecordersStay
    BY <2>1 DEF RowsStay, RecordersStay
  <2>3. netNow' \in Nat /\ netNow' >= netNow
    BY <1>0, <2>1
  <2>4. QED BY <2>1, <2>2, <2>3, OutagesFrame
<1>4. ASSUME NEW w \in NetWorkers, Poll(w) PROVE OutageInv'
  <2>1. UNCHANGED <<netNow, observer, outages, overlapped, netCheck>>
    BY <1>4 DEF Poll
  <2>2. \A v \in NetWorkers : probe'[v] = probe[v] \/ probe'[v].pc = "probing"
    BY <1>4, NewProbeType DEF Poll, Typed
  <2>3. RowsStay /\ RecordersStay
    BY <2>1, <2>2 DEF RowsStay, RecordersStay
  <2>4. QED BY <1>1, <2>1, <2>3
<1>5. ASSUME NEW w \in NetWorkers, BeginRecording(w) PROVE OutageInv'
  <2>1. UNCHANGED <<netNow, observer, outages, overlapped>>
    BY <1>5 DEF BeginRecording
  <2>2. CASE \E s \in Shown : Settle(w, s)
    <3>1. RowsStay /\ probe'[w].pc = "idle" /\ \A v \in NetWorkers \ {w} : probe'[v] = probe[v]
      BY <2>2, SettledRows
    <3>2. RecordersStay
      BY <3>1 DEF RecordersStay
    <3>3. QED BY <1>1, <2>1, <3>1, <3>2
  <2>3. CASE ~\E s \in Shown : Settle(w, s)
    <3>1. PICK p \in Probes : Recorder(p) /\ probe' = [probe EXCEPT ![w] = p]
      BY <1>5, <2>3, Begun
    <3>2. UNCHANGED netCheck
      BY <1>5, <2>3, Begun
    <3>3. \A v \in NetWorkers : probe'[v] = probe[v] \/ probe'[v].outage = observer.outage
      BY <3>1 DEF Recorder, Typed
    <3>4. RowsStay /\ RecordersStay
      BY <3>2, <3>3 DEF RowsStay, RecordersStay
    <3>5. QED BY <1>1, <2>1, <3>4
  <2>4. QED BY <2>2, <2>3
<1>6. ASSUME NEW w \in NetWorkers, ProbeFails(w) PROVE OutageInv'
  <2>1. UNCHANGED <<netNow, observer, outages, overlapped>>
    BY <1>6 DEF ProbeFails
  <2>2. \A v \in NetWorkers : probe'[v] = probe[v] \/ probe'[v].pc = "idle"
    BY <1>6, Nothing DEF ProbeFails, Typed
  <2>3. \A m \in NetMonitors : /\ netCheck'[m].row = netCheck[m].row
                               /\ netCheck'[m].startedAt = netCheck[m].startedAt
    BY <1>6 DEF ProbeFails, Typed, CheckStates
  <2>4. RowsStay /\ RecordersStay
    BY <2>2, <2>3 DEF RowsStay, RecordersStay
  <2>5. QED BY <1>1, <2>1, <2>4
<1>7. ASSUME NEW m \in NetMonitors, Attempt(m) \/ Retry(m) PROVE OutageInv'
  <2>1. /\ UNCHANGED <<netNow, observer, outages, overlapped>>
        /\ \A w \in NetWorkers : probe'[w] = probe[w] \/ probe'[w] = NewProbe
        /\ \A n \in NetMonitors \ {m} : netCheck'[n] = netCheck[n]
        /\ netCheck'[m].row = netCheck[m].row /\ netCheck'[m].startedAt = netCheck[m].startedAt
    BY <1>7, Attempted
  <2>2. RowsStay
    BY <2>1 DEF RowsStay
  <2>3. RecordersStay
    BY <2>1, NewProbeType DEF RecordersStay
  <2>4. QED BY <1>1, <2>1, <2>2, <2>3
<1>8. ASSUME NEW m \in NetMonitors,
             (\E w \in NetCheckers : ClaimCheck(m, w)) \/ Persist(m) \/ Redispatch(m)
      PROVE  OutageInv'
  <2>1. /\ UNCHANGED <<netNow, observer, outages, overlapped, probe>>
        /\ \A n \in NetMonitors \ {m} : netCheck'[n] = netCheck[n]
        /\ \/ netCheck'[m].row = "DONE" \/ netCheck'[m].startedAt = netNow
           \/ netCheck'[m].row = "PENDING"
    BY <1>8, RowsMove
  <2>2. RowsStay /\ RecordersStay
    BY <2>1 DEF RowsStay, RecordersStay
  <2>3. QED BY <1>1, <2>1, <2>2
<1>9. QED
  BY <1>2, <1>3, <1>4, <1>5, <1>6, <1>7, <1>8, RecordKeepsOutages, SummarizeKeepsOutages DEF NetNext
-----------------------------------------------------------------------------
LEMMA NetInitInv ==
    ASSUME NetInit
    PROVE  NetInv
<1>1. /\ netNow = 1 /\ settings = [enabled |-> TRUE, version |-> 1] /\ observer = NoSnapshot
      /\ outages = <<>> /\ config = [m \in NetMonitors |-> 1]
      /\ observed = [o \in OutageIds |-> [m \in NetMonitors |-> [outcome |-> "NONE", config |-> 1]]]
      /\ probe = [w \in NetWorkers |-> NoProbe] /\ cached = [w \in NetCheckers |-> NoSnapshot]
      /\ netCheck = [m \in NetMonitors |-> NoCheck] /\ overlapped = FALSE
  BY DEF NetInit
<1>2. NoSnapshot.outage = NoOutage /\ NoCheck.grounds = "NONE" /\ NoCheck.pc = "idle"
  BY DEF NoSnapshot, Snapshot, NoCheck
<1>3. outages \in Seq(Outages) /\ Len(outages) = 0 /\ DOMAIN outages = {}
  BY <1>1, EmptySeq
<1>4. Typed
  <2>1. NoSnapshot \in Shown /\ NoCheck \in CheckStates /\ NoProbe \in Probes /\ NoProbe.pc = "idle"
    BY Nothing
  <2>2. /\ netNow \in 1..NetClock /\ settings \in [enabled : BOOLEAN, version : 1..MaxSettings]
        /\ config \in [NetMonitors -> 1..MaxConfig]
        /\ observed \in [OutageIds -> [NetMonitors ->
             [outcome : {"NONE", "PENDING", "SUCCESS", "TARGET_FAILURE"}, config : 1..MaxConfig]]]
        /\ overlapped \in BOOLEAN /\ Len(outages) <= MaxOutages
    <3>1. 1 \in 1..NetClock /\ 1 \in 1..MaxSettings /\ 1 \in 1..MaxConfig /\ 0 <= MaxOutages
      BY Constants
    <3>2. [outcome |-> "NONE", config |-> 1] \in
            [outcome : {"NONE", "PENDING", "SUCCESS", "TARGET_FAILURE"}, config : 1..MaxConfig]
      BY <3>1
    <3>3. observed \in [OutageIds -> [NetMonitors ->
             [outcome : {"NONE", "PENDING", "SUCCESS", "TARGET_FAILURE"}, config : 1..MaxConfig]]]
      BY <1>1, <3>2
    <3>4. settings \in [enabled : BOOLEAN, version : 1..MaxSettings]
      BY <1>1, <3>1
    <3>5. QED BY <1>1, <1>3, <3>1, <3>3, <3>4
  <2>3. /\ probe \in [NetWorkers -> Probes] /\ cached \in [NetCheckers -> Shown]
        /\ netCheck \in [NetMonitors -> CheckStates] /\ observer \in Shown
        /\ \A w \in NetWorkers : probe[w].pc # "recording"
    BY <1>1, <2>1
  <2>4. observer.outage \in {NoOutage} \union DOMAIN outages
    BY <1>1, <1>2
  <2>5. NetTypeOK
    BY <1>3, <2>2, <2>3 DEF NetTypeOK, Shown, CheckStates, Outages
  <2>6. QED BY <2>3, <2>4, <2>5 DEF Typed
<1>5. EvidenceInv
  BY <1>1, <1>2 DEF EvidenceInv, EvidenceIsNew
<1>6. OutageInv
  BY <1>1, <1>3, Nothing DEF OutageInv, SummariesOrdered, RecordersAgree, UnresolvedOutageIsActive
<1>7. QED BY <1>4, <1>5, <1>6 DEF NetInv

LEMMA NetStepInv ==
    ASSUME NetInv, [NetNext]_netVars
    PROVE  NetInv'
<1>1. Typed /\ EvidenceInv /\ OutageInv
  BY DEF NetInv
<1>2. Typed'
  <2>1. CASE UNCHANGED netVars
    BY <1>1, <2>1 DEF netVars, Typed, NetTypeOK
  <2>2. CASE NetNext
    BY <1>1, <2>2, SettingsTyped, ProbesTyped, ChecksTyped, SummaryTyped DEF NetNext
  <2>3. QED BY <2>1, <2>2
<1>3. QED BY <1>1, <1>2, EvidenceKept, OutagesKept DEF NetInv

\* Every reachable state of the guard satisfies the inductive invariant.
THEOREM NetInvariance == NetSpec => []NetInv
<1>1. NetInit => NetInv
  BY NetInitInv
<1>2. NetInv /\ [NetNext]_netVars => NetInv'
  BY NetStepInv
<1>3. QED BY <1>1, <1>2, PTL DEF NetSpec

\* Every variable keeps its type, and an OFFLINE observer row names its outage.
THEOREM NetTypeCorrect == NetSpec => []NetTypeOK
<1>1. NetInv => NetTypeOK
  BY DEF NetInv, Typed
<1>2. QED BY <1>1, NetInvariance, PTL

\* NetworkGuard's recording transaction: unless two overlapped, an outage is
\* unresolved exactly while the observer row names it.
THEOREM OutageIsActive == NetSpec => []UnresolvedOutageIsActive
<1>1. NetInv => UnresolvedOutageIsActive
  BY DEF NetInv, OutageInv
<1>2. QED BY <1>1, NetInvariance, PTL

\* assess: connectivity that makes a network failure count was observed after
\* the failure, whatever probe the check joined.
THEOREM EvidenceIsFresh == NetSpec => []EvidenceFollowsFailure
<1>1. NetInv => EvidenceFollowsFailure
  BY DEF NetInv, EvidenceInv, EvidenceIsNew, EvidenceFollowsFailure
<1>2. QED BY <1>1, NetInvariance, PTL

\* summarize: once an outage is summarised, no check that ran when connectivity
\* came back adds an observation to it.
THEOREM SummaryStaysFinal == NetSpec => SummaryIsFinal
<1>1. ASSUME NetInv
      PROVE  \A o \in DOMAIN outages, m \in NetMonitors :
               /\ ~overlapped /\ Recovered(o) /\ outages[o].summarized
               /\ observed[o][m].outcome = "NONE" /\ observed'[o][m].outcome # "NONE"
               => \/ netCheck[m].startedAt >= outages[o].recoveredAt
                  \/ netCheck[m].row # "RUNNING"
  BY <1>1 DEF NetInv, OutageInv, SummariesOrdered
<1>2. QED BY <1>1, NetInvariance, PTL DEF SummaryIsFinal
=============================================================================
