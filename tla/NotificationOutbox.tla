-------------------------- MODULE NotificationOutbox --------------------------
(***************************************************************************)
(* The transactional outbox of one incident on one notification channel.   *)
(* The transaction that opens an incident writes the DOWN event, the one   *)
(* that resolves it writes RECOVERY or RESOLVED_SUMMARY                     *)
(* (apps/worker/src/check-processor.ts); the outbox dispatcher hands the   *)
(* available rows to BullMQ (outbox-dispatcher.ts); notification workers   *)
(* claim a row, call Telegram and record what they learned                 *)
(* (notification-processor.ts); and the API cancels events when a monitor  *)
(* is paused, reconfigured or removed (monitors.service.ts) or a channel   *)
(* is disabled or deleted (notification-channels.service.ts).              *)
(*                                                                         *)
(* Row 1 is the DOWN event, row 2 the event that ends the incident: the    *)
(* unique key (incident, channel, sequence) leaves room for no other.      *)
(* Time is abstract: a lease is LIVE until it is EXPIRED, a row with a     *)
(* future available_at is not ready until BecomeReady.  The two writes of  *)
(* a persisting check are split at their unlocked read of bindings and     *)
(* DOWN rows; every other transaction is one action.                       *)
(***************************************************************************)
EXTENDS Naturals, FiniteSets

CONSTANTS Dispatchers,   \* outbox dispatchers (their lease-owner names)
          Processors,    \* notification worker slots
          NoOne,         \* "no owner"
          MaxAttempts,   \* max_attempts of an outbox row
          MaxChanges,    \* bound: administrative changes explored
          MaxFaults      \* bound: crashes, failed calls and lost jobs explored

ASSUME OutboxAssumption ==
    /\ NoOne \notin Dispatchers \cup Processors
    /\ Dispatchers \cap Processors = {}
    /\ {"absent", "waiting", "done"} \cap Processors = {}
    /\ MaxAttempts \in Nat \ {0}
    /\ MaxChanges \in Nat
    /\ MaxFaults \in Nat

VARIABLES
    lifecycle,      \* the monitor: "ACTIVE", "PAUSED", "DELETED"
    incident,       \* the incident: "NONE", "OPEN", "RESOLVED", "CANCELED"
    channel,        \* the channel: "ENABLED", "DISABLED", "DELETED"
    bound,          \* a monitor_channels row binds the channel to the monitor
    row,            \* [Events -> Rows]: table notification_outbox
    delivery,       \* [Events -> [1..MaxAttempts -> Deliveries]]
    accepted,       \* events of which the provider has taken a message
    job,            \* [Events -> ...]: the BullMQ job whose id is the row's
    persist,        \* the persisting check: what it read before it writes
    dpc, devent,    \* dispatcher: where it is, the row it works on
    ppc, pevent,    \* processor: where it is, the row of its job
    pattempt,       \* processor: the delivery attempt it claimed
    psecret,        \* processor: the destination it claimed can be decrypted
    pfresh,         \* processor: its own lease_until has not passed
    changes, faults

adminVars == <<lifecycle, channel, bound, changes>>
rowVars   == <<row, delivery>>
dispVars  == <<dpc, devent>>
procVars  == <<ppc, pevent, pattempt, psecret, pfresh>>
vars == <<adminVars, incident, rowVars, accepted, job, persist, dispVars, procVars, faults>>

Events     == {1, 2}                           \* notificationSequence
Kinds      == {"NONE", "DOWN", "RECOVERY", "RESOLVED_SUMMARY"}
OpenStatus == {"PENDING", "ENQUEUED", "PROCESSING", "RETRY"}
Terminal   == {"SENT", "FAILED", "CANCELED"}
Statuses   == {"ABSENT"} \cup OpenStatus \cup Terminal
Leases     == {"NONE", "LIVE", "EXPIRED"}
Deliveries == {"NONE", "ATTEMPTING", "SUCCEEDED", "FAILED", "UNKNOWN"}

\* withheld: last_error_safe is the reason DOWN_NOT_DELIVERED.
\* secret: encrypted_config_snapshot is the destination, not the tombstone.
Rows == [kind : Kinds, status : Statuses, attempts : 0..MaxAttempts, lease : Leases,
         owner : Dispatchers \cup Processors \cup {NoOne},
         ready : BOOLEAN, withheld : BOOLEAN, secret : BOOLEAN]

NoRow == [kind |-> "NONE", status |-> "ABSENT", attempts |-> 0, lease |-> "NONE",
          owner |-> NoOne, ready |-> FALSE, withheld |-> FALSE, secret |-> FALSE]
NewRow(kind, secret) ==
    [kind |-> kind, status |-> "PENDING", attempts |-> 0, lease |-> "NONE",
     owner |-> NoOne, ready |-> TRUE, withheld |-> FALSE, secret |-> secret]

\* The row leaves the queue: its lease ends with the new status.
Settle(r, status) == [r EXCEPT !.status = status, !.lease = "NONE", !.owner = NoOne]
Retire(r) == [r EXCEPT !.secret = FALSE]
Canceled(r, withheld) == [Settle(r, "CANCELED") EXCEPT !.withheld = withheld]
Failed(r) == [Retire(Settle(r, "FAILED")) EXCEPT !.withheld = FALSE]
Requeued(r) == [Settle(r, "RETRY") EXCEPT !.ready = FALSE, !.withheld = FALSE]
Lease(r, status, who) ==
    [r EXCEPT !.status = status, !.lease = "LIVE", !.owner = who]

Idle == [pc |-> "idle", bound |-> FALSE, down |-> NoRow]
NoDelivery == [a \in 1..MaxAttempts |-> "NONE"]

Init ==
    /\ lifecycle = "ACTIVE"
    /\ incident = "NONE"
    /\ channel = "ENABLED"
    /\ bound = TRUE
    /\ row = [e \in Events |-> NoRow]
    /\ delivery = [e \in Events |-> NoDelivery]
    /\ accepted = {}
    /\ job = [e \in Events |-> "absent"]
    /\ persist = Idle
    /\ dpc = [d \in Dispatchers |-> "idle"]
    /\ devent = [d \in Dispatchers |-> 1]
    /\ ppc = [p \in Processors |-> "idle"]
    /\ pevent = [p \in Processors |-> 1]
    /\ pattempt = [p \in Processors |-> 0]
    /\ psecret = [p \in Processors |-> FALSE]
    /\ pfresh = [p \in Processors |-> FALSE]
    /\ changes = 0
    /\ faults = 0
-----------------------------------------------------------------------------
(* The persisting check.  It holds the monitor's row lock from its read to  *)
(* its commit, and no lock on the channel, its bindings or the outbox rows. *)

\* A binding through which an event would be created now.
Listening == bound /\ channel = "ENABLED"

PersistReads(pc) ==
    /\ persist.pc = "idle"
    /\ lifecycle = "ACTIVE"
    /\ persist' = [pc |-> pc, bound |-> Listening, down |-> row[1]]
    /\ UNCHANGED <<adminVars, incident, rowVars, accepted, job, dispVars, procVars, faults>>

\* The health machine opens the incident, and later resolves it.
StartOpen    == incident = "NONE" /\ PersistReads("opening")
StartResolve == incident = "OPEN" /\ PersistReads("resolving")

\* createOutbox.
OpenIncident ==
    /\ persist.pc = "opening"
    /\ incident' = "OPEN"
    /\ row' = [row EXCEPT ![1] = IF persist.bound THEN NewRow("DOWN", TRUE) ELSE @]
    /\ persist' = Idle
    /\ UNCHANGED <<adminVars, delivery, accepted, job, dispVars, procVars, faults>>

\* planRecoveryNotification.
UnsentByStatus(r) == r.status \in {"PENDING", "ENQUEUED"}   \* mutated: attempts ignored
Unsent(r) == r.attempts = 0 /\ r.status \in {"PENDING", "ENQUEUED"}
Plan(r) ==
    CASE Unsent(r) -> "REPLACE_WITH_RESOLVED_SUMMARY"
      [] r.status \in {"FAILED", "CANCELED"} -> "SKIP"
      [] OTHER -> "CREATE_RECOVERY"

\* What is left of a settled DOWN once its incident is resolved: the secret of
\* a row in a terminal status goes.
AfterResolveAlways(r, status) == Retire(r)            \* mutated: whatever the status
AfterResolve(r, status) == IF status \in Terminal THEN Retire(r) ELSE r

\* createRecoveryOutbox, for the DOWN row it has read.  Only the replacement is
\* conditional on what the row is by now; if that fails the plan is made anew.
ResolveIncident ==
    LET down   == persist.down
        asRead == Plan(down)
        stale  == asRead = "REPLACE_WITH_RESOLVED_SUMMARY" /\ ~Unsent(row[1])
        plan   == IF stale THEN Plan(row[1]) ELSE asRead
        status == IF stale THEN row[1].status ELSE down.status
    IN  /\ persist.pc = "resolving"
        /\ incident' = "RESOLVED"
        /\ row' =
               IF ~persist.bound \/ down.status = "ABSENT" THEN row
               ELSE CASE plan = "REPLACE_WITH_RESOLVED_SUMMARY" ->
                             [row EXCEPT ![1] = Retire(Settle(@, "CANCELED")),
                                         ![2] = NewRow("RESOLVED_SUMMARY", down.secret)]
                      [] plan = "SKIP" -> [row EXCEPT ![1] = AfterResolve(@, status)]
                      [] plan = "CREATE_RECOVERY" ->
                             [row EXCEPT ![1] = AfterResolve(@, status),
                                         ![2] = NewRow("RECOVERY", down.secret)]
        /\ persist' = Idle
        /\ UNCHANGED <<adminVars, delivery, accepted, job, dispVars, procVars, faults>>
-----------------------------------------------------------------------------
(* The API. *)

Change == changes < MaxChanges /\ changes' = changes + 1

\* Attempts that a row in PROCESSING has under way are no longer followed.
ForgetNothing(e) == delivery[e]                       \* mutated: attempts left open
ForgetAttempts(e) == [a \in 1..MaxAttempts |->
    IF delivery[e][a] = "ATTEMPTING" THEN "UNKNOWN" ELSE delivery[e][a]]

\* cancelRuntime, and the same statements for a channel: the open events are
\* canceled and every terminal row loses its destination.
CancelEvents ==
    /\ delivery' = [e \in Events |->
           IF row[e].status = "PROCESSING" THEN ForgetAttempts(e) ELSE delivery[e]]
    /\ row' = [e \in Events |->
           IF row[e].status \in OpenStatus
           THEN Retire(Settle(row[e], "CANCELED")) ELSE Retire(row[e])]

CancelIncident == incident' = IF incident = "OPEN" THEN "CANCELED" ELSE incident

\* The monitor's row is free, so its lock can be taken.
MonitorFree == persist.pc = "idle" /\ lifecycle # "DELETED"

PauseMonitor ==
    /\ Change
    /\ MonitorFree /\ lifecycle = "ACTIVE"
    /\ lifecycle' = "PAUSED"
    /\ CancelEvents
    /\ CancelIncident
    /\ UNCHANGED <<channel, bound, accepted, job, persist, dispVars, procVars, faults>>

ResumeMonitor ==
    /\ Change
    /\ MonitorFree /\ lifecycle = "PAUSED"
    /\ lifecycle' = "ACTIVE"
    /\ UNCHANGED <<channel, bound, incident, rowVars, accepted, job, persist,
                   dispVars, procVars, faults>>

RemoveMonitor ==
    /\ Change
    /\ MonitorFree
    /\ lifecycle' = "DELETED"
    /\ CancelEvents
    /\ CancelIncident
    /\ UNCHANGED <<channel, bound, accepted, job, persist, dispVars, procVars, faults>>

\* update: the bindings are written anew, to channels that are enabled
\* (assertChannelIds); a changed field of configFields cancels the runtime.
UpdateMonitor(binds, reconfigured) ==
    /\ Change
    /\ MonitorFree
    /\ binds => channel = "ENABLED"
    /\ bound' = binds
    /\ \/ reconfigured /\ CancelEvents /\ CancelIncident
       \/ ~reconfigured /\ binds # bound /\ UNCHANGED <<rowVars, incident>>
    /\ UNCHANGED <<lifecycle, channel, accepted, job, persist, dispVars, procVars, faults>>

\* The channel's row lock excludes neither a persisting check nor a worker.
DisableChannel ==
    /\ Change
    /\ channel # "DELETED"
    /\ channel' = "DISABLED"
    /\ bound' = FALSE
    /\ CancelEvents
    /\ UNCHANGED <<lifecycle, incident, accepted, job, persist, dispVars, procVars, faults>>

EnableChannel ==
    /\ Change
    /\ channel = "DISABLED"
    /\ channel' = "ENABLED"
    /\ UNCHANGED <<lifecycle, bound, incident, rowVars, accepted, job, persist,
                   dispVars, procVars, faults>>

RemoveChannel ==
    /\ Change
    /\ channel # "DELETED"
    /\ channel' = "DELETED"
    /\ bound' = FALSE
    /\ CancelEvents
    /\ UNCHANGED <<lifecycle, incident, accepted, job, persist, dispVars, procVars, faults>>
-----------------------------------------------------------------------------
(* Time. *)

ExpireLease(e) ==
    /\ row[e].lease = "LIVE"
    /\ row' = [row EXCEPT ![e].lease = "EXPIRED"]
    /\ pfresh' = [p \in Processors |-> pfresh[p] /\ pevent[p] # e]
    /\ UNCHANGED <<adminVars, incident, delivery, accepted, job, persist, dispVars,
                   ppc, pevent, pattempt, psecret, faults>>

BecomeReady(e) ==
    /\ row[e].status \in OpenStatus
    /\ ~row[e].ready
    /\ row' = [row EXCEPT ![e].ready = TRUE]
    /\ UNCHANGED <<adminVars, incident, delivery, accepted, job, persist, dispVars,
                   procVars, faults>>
-----------------------------------------------------------------------------
(* The outbox dispatcher. *)

\* availableForDispatch.
AvailableUnderLease(r) ==                       \* mutated: PROCESSING whatever its lease
    r.ready /\ \/ r.status \in {"PENDING", "RETRY"} /\ r.lease \in {"NONE", "EXPIRED"}
               \/ r.status \in {"ENQUEUED", "PROCESSING"}
AvailableOnce(r) ==                            \* mutated: a lost job is not looked for
    r.ready /\ r.status \in {"PENDING", "RETRY"} /\ r.lease \in {"NONE", "EXPIRED"}
Available(r) ==
    r.ready /\ \/ r.status \in {"PENDING", "RETRY"} /\ r.lease \in {"NONE", "EXPIRED"}
               \/ r.status \in {"ENQUEUED", "PROCESSING"} /\ r.lease = "EXPIRED"

\* An idle dispatcher remembers nothing.
DispWorks(d, to, e) ==
    /\ dpc' = [dpc EXCEPT ![d] = to]
    /\ devent' = [devent EXCEPT ![d] = IF to = "idle" THEN 1 ELSE e]
    /\ UNCHANGED <<adminVars, incident, delivery, accepted, persist, procVars>>

DispGoes(d, to) == DispWorks(d, to, devent[d])

\* The page of candidates, read with their channels.
Scan(d, e) ==
    /\ dpc[d] = "idle"
    /\ Available(row[e])
    /\ LET to == IF row[e].kind = "RECOVERY" THEN "order" ELSE "claim"
       IN DispWorks(d, IF channel = "ENABLED" THEN to ELSE "drop", e)
    /\ UNCHANGED <<row, job, faults>>

\* recoveryPrerequisiteStatus, for the status the DOWN row has now.  A row
\* always exists where a RECOVERY does.
Prerequisite(down) ==
    CASE down = "SENT" -> "claim"
      [] down \in {"ABSENT", "CANCELED"} -> "withhold"
      [] down = "FAILED" -> "withholdKept"
      [] OTHER -> "defer"

CheckOrder(d) ==
    /\ dpc[d] = "order"
    /\ DispGoes(d, Prerequisite(row[1].status))
    /\ UNCHANGED <<row, job, faults>>

\* The updates below repeat availableForDispatch in their WHERE, and only that.
DispWrites(d, from, to, r) ==
    /\ dpc[d] = from
    /\ LET hit == Available(row[devent[d]])
       IN /\ DispGoes(d, IF hit THEN to ELSE "idle")
          /\ row' = [row EXCEPT ![devent[d]] = IF hit THEN r ELSE @]
    /\ UNCHANGED <<job, faults>>

DeferRecovery(d) ==
    DispWrites(d, "defer", "idle", [row[devent[d]] EXCEPT !.ready = FALSE])

\* cancel: the destination is kept only for a DOWN that failed.
CancelEvent(d) ==
    \/ DispWrites(d, "drop", "idle", Retire(Canceled(row[devent[d]], FALSE)))
    \/ DispWrites(d, "withhold", "idle", Retire(Canceled(row[devent[d]], TRUE)))
    \/ DispWrites(d, "withholdKept", "idle", Canceled(row[devent[d]], TRUE))

ClaimForDispatch(d) ==
    DispWrites(d, "claim", "register", Lease(row[devent[d]], "RETRY", d))

\* ensureNotificationJob: a finished job makes way, any other one stays.
RegisterJob(d) ==
    /\ dpc[d] = "register"
    /\ job' = [job EXCEPT ![devent[d]] = IF @ \in {"absent", "done"} THEN "waiting" ELSE @]
    /\ DispGoes(d, "mark")
    /\ UNCHANGED <<row, faults>>

HoldsClaim(d, r) == r.owner = d /\ r.status = "RETRY"

MarkEnqueued(d) ==
    /\ dpc[d] = "mark"
    /\ row' = [row EXCEPT ![devent[d]] =
           IF HoldsClaim(d, @) THEN [@ EXCEPT !.status = "ENQUEUED"] ELSE @]
    /\ DispGoes(d, "idle")
    /\ UNCHANGED <<job, faults>>

\* The catch: the row waits two seconds for another try.
RequeueEvent(d) ==
    /\ dpc[d] = "requeue"
    /\ row' = [row EXCEPT ![devent[d]] =
           IF HoldsClaim(d, @) THEN Requeued(@) ELSE @]
    /\ DispGoes(d, "idle")
    /\ UNCHANGED <<job, faults>>
-----------------------------------------------------------------------------
(* The notification processor. *)

\* BullMQ hands a waiting job to an idle slot.
TakeJob(p, e) ==
    /\ ppc[p] = "idle"
    /\ job[e] = "waiting"
    /\ job' = [job EXCEPT ![e] = p]
    /\ ppc' = [ppc EXCEPT ![p] = "claiming"]
    /\ pevent' = [pevent EXCEPT ![p] = e]
    /\ UNCHANGED <<adminVars, incident, rowVars, accepted, persist, dispVars,
                   pattempt, psecret, pfresh, faults>>

\* process returns or throws; an idle slot remembers nothing.
ProcRests(p) ==
    /\ ppc' = [ppc EXCEPT ![p] = "idle"]
    /\ pevent' = [pevent EXCEPT ![p] = 1]
    /\ pattempt' = [pattempt EXCEPT ![p] = 0]
    /\ psecret' = [psecret EXCEPT ![p] = FALSE]
    /\ pfresh' = [pfresh EXCEPT ![p] = FALSE]
EndJob(p) ==
    /\ ProcRests(p)
    /\ job' = [job EXCEPT ![pevent[p]] = IF @ = p THEN "done" ELSE @]

\* The row may be claimed, by its status, its lease and the clock.
Claimable(r) ==
    \/ r.status \in {"PENDING", "RETRY"} /\ r.ready
    \/ r.status = "ENQUEUED"
    \/ r.status = "PROCESSING" /\ r.lease = "EXPIRED"

\* What a DOWN that fails for good does to a RECOVERY that waits for it: it is
\* withheld, with its destination.
Withhold(r) ==
    IF r.kind = "RECOVERY" /\ r.status \in {"PENDING", "RETRY", "ENQUEUED"}
    THEN Canceled(r, TRUE) ELSE r
WithDownFailed(e, r) ==
    [f \in Events |-> IF f = e THEN r ELSE IF f = 2 THEN Withhold(row[2]) ELSE row[f]]

ExhaustedLate(r) == r.attempts > MaxAttempts            \* mutated: one attempt too many
Exhausted(r) == r.attempts >= MaxAttempts

\* claim finds the channel gone, the row in other hands, or nothing to do.
ClaimNothing(p) ==
    LET e == pevent[p]
        ordered == row[e].kind = "RECOVERY" => row[1].status = "SENT"
    IN  /\ ppc[p] = "claiming"
        /\ \/ /\ channel # "ENABLED"
              /\ row' = [row EXCEPT ![e] =
                     IF @.status \in Terminal THEN Retire(@) ELSE Retire(Canceled(@, FALSE))]
              /\ UNCHANGED delivery
           \/ /\ channel = "ENABLED"
              /\ ~Claimable(row[e])
              /\ UNCHANGED rowVars
           \/ /\ channel = "ENABLED"
              /\ Claimable(row[e])
              /\ IF ordered THEN /\ Exhausted(row[e])
                                 /\ row' = WithDownFailed(e, Failed(row[e]))
                            ELSE UNCHANGED row
              /\ delivery' = [delivery EXCEPT ![e] = ForgetAttempts(e)]
        /\ EndJob(p)
        /\ UNCHANGED <<adminVars, incident, accepted, persist, dispVars, faults>>

\* claim, to the end: a new attempt, the one before it no longer followed.
ClaimEvent(p) ==
    LET e == pevent[p]
        a == row[e].attempts + 1
    IN  /\ ppc[p] = "claiming"
        /\ channel = "ENABLED"
        /\ Claimable(row[e])
        /\ row[e].kind = "RECOVERY" => row[1].status = "SENT"
        /\ ~Exhausted(row[e])
        /\ row' = [row EXCEPT ![e] =
               [Lease(@, "PROCESSING", p) EXCEPT !.attempts = a, !.withheld = FALSE]]
        /\ delivery' = [delivery EXCEPT ![e] = [ForgetAttempts(e) EXCEPT ![a] = "ATTEMPTING"]]
        /\ ppc' = [ppc EXCEPT ![p] = "sending"]
        /\ pattempt' = [pattempt EXCEPT ![p] = a]
        /\ psecret' = [psecret EXCEPT ![p] = row[e].secret]
        /\ pfresh' = [pfresh EXCEPT ![p] = TRUE]
        /\ UNCHANGED <<adminVars, incident, accepted, job, persist, dispVars, pevent, faults>>

\* The call to Telegram.  A confirmed message was taken, a refused one was not;
\* of one that timed out, or whose connection broke, nobody knows.  A
\* tombstone cannot be decrypted and nothing is sent.
Send(p) ==
    LET answer(to, taken) ==
            /\ ppc' = [ppc EXCEPT ![p] = to]
            /\ accepted' = IF taken THEN accepted \cup {pevent[p]} ELSE accepted
    IN  /\ ppc[p] = "sending"
        /\ \/ psecret[p] /\ answer("confirmed", TRUE)
           \/ psecret[p] /\ \E taken \in BOOLEAN :
                  answer("timedOut", taken) \/ answer("unreachable", taken)
           \/ answer("refused", FALSE)
        /\ UNCHANGED <<adminVars, incident, rowVars, job, persist, dispVars,
                       pevent, pattempt, psecret, pfresh, faults>>

RevivesCanceled(r, secret) ==                   \* mutated: the reason is not asked for
    IF incident = "RESOLVED" /\ Listening
    THEN CASE r.status = "ABSENT" -> NewRow("RECOVERY", secret)
           [] r.kind = "RECOVERY" /\ r.status = "CANCELED" ->
                  [Settle(r, "PENDING") EXCEPT !.ready = TRUE, !.withheld = FALSE,
                                               !.secret = secret]
           [] OTHER -> r
    ELSE r
\* ensureRecoveryAfterLateDownSuccess: what row 2 becomes when the DOWN event
\* is confirmed after its incident was resolved.
LateRecovery(r, secret) ==
    IF incident = "RESOLVED" /\ Listening
    THEN CASE r.status = "ABSENT" -> NewRow("RECOVERY", secret)
           [] r.kind = "RECOVERY" /\ r.status = "CANCELED" /\ r.withheld ->
                  [r EXCEPT !.status = "PENDING", !.ready = TRUE, !.lease = "NONE",
                            !.owner = NoOne, !.withheld = FALSE, !.secret = secret]
           [] OTHER -> r
    ELSE r

\* shouldRetainNotificationSecret of a row that has become SENT.
Sent(e, r) ==
    LET sent == [Settle(r, "SENT") EXCEPT !.withheld = FALSE]
    IN  IF e = 1 /\ incident = "OPEN" THEN sent ELSE Retire(sent)

\* markSent: a confirmed attempt wins over everything but a cancellation.
RevivesIfProcessing(r) == r.status = "PROCESSING"          \* mutated: late answers ignored
ConfirmCounts(r) == r.status # "CANCELED"

MarkSent(p) ==
    LET e == pevent[p]
    IN  /\ ppc[p] = "confirmed"
        /\ delivery' = [delivery EXCEPT ![e][pattempt[p]] = "SUCCEEDED"]
        /\ row' = IF ~ConfirmCounts(row[e]) THEN row
                  ELSE [f \in Events |->
                            IF f = e THEN Sent(e, row[e])
                            ELSE IF f = 2 THEN LateRecovery(row[2], psecret[p]) ELSE row[f]]
        /\ EndJob(p)
        /\ UNCHANGED <<adminVars, incident, accepted, persist, dispVars, faults>>

\* The row is still where this attempt put it.
ByAttemptOnly(r, a) == r.attempts = a                      \* mutated: status not compared
OwnAttempt(r, a) == r.status = "PROCESSING" /\ r.attempts = a

MarkFailed(p) ==
    LET e == pevent[p]
        retry == ppc[p] # "refused" /\ pattempt[p] < MaxAttempts
    IN  /\ ppc[p] \in {"timedOut", "unreachable", "refused"}
        /\ delivery' = [delivery EXCEPT ![e][pattempt[p]] =
               IF ppc[p] = "timedOut" THEN "UNKNOWN" ELSE "FAILED"]
        /\ row' = IF ~OwnAttempt(row[e], pattempt[p]) THEN row
                  ELSE IF retry THEN [row EXCEPT ![e] = Requeued(@)]
                  ELSE WithDownFailed(e, Failed(row[e]))
        /\ EndJob(p)
        /\ UNCHANGED <<adminVars, incident, accepted, persist, dispVars, faults>>
-----------------------------------------------------------------------------
(* BullMQ's own housekeeping, and faults. *)

\* A job is held by a slot that is not, or no longer, working on it.
Orphaned(e) ==
    \E p \in Processors : job[e] = p /\ ~(ppc[p] # "idle" /\ pevent[p] = e)

SweepStalledJob(e) ==
    /\ Orphaned(e)
    /\ \E j \in {"waiting", "done"} : job' = [job EXCEPT ![e] = j]
    /\ UNCHANGED <<adminVars, incident, rowVars, accepted, persist, dispVars, procVars, faults>>

Fault == faults < MaxFaults /\ faults' = faults + 1

\* Redis loses its data, or a live slot's job lock lapses.
LoseJob(e) ==
    /\ Fault
    /\ job[e] # "absent"
    /\ \/ job' = [job EXCEPT ![e] = "absent"]
       \/ job[e] \in Processors /\ job' = [job EXCEPT ![e] = "waiting"]
    /\ UNCHANGED <<adminVars, incident, rowVars, accepted, persist, dispVars, procVars>>

\* The persisting transaction rolls back; its check will be persisted again.
PersistFails ==
    /\ Fault
    /\ persist.pc # "idle"
    /\ persist' = Idle
    /\ UNCHANGED <<adminVars, incident, rowVars, accepted, job, dispVars, procVars>>

\* A queue call fails, or the write after it: the catch puts the row back.
DispatchCallFails(d) ==
    /\ Fault
    /\ dpc[d] \in {"register", "mark"}
    /\ DispGoes(d, "requeue")
    /\ UNCHANGED <<row, job>>

\* The process dies, or a call outside the try fails: the poll is over.
DispatcherCrash(d) ==
    /\ Fault
    /\ dpc[d] # "idle"
    /\ DispGoes(d, "idle")
    /\ UNCHANGED <<row, job>>

\* The process dies with its job still marked active in Redis.
ProcessorCrash(p) ==
    /\ Fault
    /\ ppc[p] # "idle"
    /\ ProcRests(p)
    /\ UNCHANGED <<adminVars, incident, rowVars, accepted, job, persist, dispVars>>

\* A database call throws: its transaction rolls back and the job fails.  After
\* a confirmed message this is NotificationPersistenceError: the row stays in
\* PROCESSING and the attempt in ATTEMPTING.
ProcessorThrows(p) ==
    /\ Fault
    /\ ppc[p] # "idle"
    /\ EndJob(p)
    /\ UNCHANGED <<adminVars, incident, rowVars, accepted, persist, dispVars>>
-----------------------------------------------------------------------------
PersistNext == StartOpen \/ OpenIncident \/ StartResolve \/ ResolveIncident

ApiNext ==
    \/ PauseMonitor \/ ResumeMonitor \/ RemoveMonitor
    \/ \E binds, reconfigured \in BOOLEAN : UpdateMonitor(binds, reconfigured)
    \/ DisableChannel \/ EnableChannel \/ RemoveChannel

ClockNext == \E e \in Events : ExpireLease(e) \/ BecomeReady(e)

Dispatch(d) ==
    \/ CheckOrder(d) \/ DeferRecovery(d) \/ CancelEvent(d) \/ ClaimForDispatch(d)
    \/ RegisterJob(d) \/ MarkEnqueued(d) \/ RequeueEvent(d)

Process(p) ==
    ClaimNothing(p) \/ ClaimEvent(p) \/ Send(p) \/ MarkSent(p) \/ MarkFailed(p)

FaultNext ==
    \/ PersistFails
    \/ \E e \in Events : LoseJob(e)
    \/ \E d \in Dispatchers : DispatchCallFails(d) \/ DispatcherCrash(d)
    \/ \E p \in Processors : ProcessorCrash(p) \/ ProcessorThrows(p)

Next ==
    \/ PersistNext
    \/ ApiNext
    \/ ClockNext
    \/ \E d \in Dispatchers : Dispatch(d) \/ \E e \in Events : Scan(d, e)
    \/ \E p \in Processors : Process(p) \/ \E e \in Events : TakeJob(p, e)
    \/ \E e \in Events : SweepStalledJob(e)
    \/ FaultNext

Spec == Init /\ [][Next]_vars
-----------------------------------------------------------------------------
(* Fairness.  The dispatcher polls for ever, oldest row first, so a row that *)
(* keeps becoming available is reached; a waiting job is taken by some slot; *)
(* a started call ends, by its timeout at the latest; the clock runs; BullMQ *)
(* sweeps stalled jobs while a worker is up; a transaction ends.             *)
Fairness ==
    /\ WF_vars(OpenIncident \/ ResolveIncident)
    /\ \A e \in Events :
           /\ SF_vars(\E d \in Dispatchers : Scan(d, e))
           /\ SF_vars(\E p \in Processors : TakeJob(p, e))
           /\ WF_vars(ExpireLease(e))
           /\ WF_vars(BecomeReady(e))
           /\ WF_vars(SweepStalledJob(e))
    /\ \A d \in Dispatchers : WF_vars(Dispatch(d))
    /\ \A p \in Processors : WF_vars(Process(p))

FairSpec == Spec /\ Fairness
-----------------------------------------------------------------------------
(* Properties. *)

\* Every variable stays among the values its column, BullMQ state or process
\* can take; in particular no row is ever tried more than max_attempts times.
TypeOK ==
    /\ lifecycle \in {"ACTIVE", "PAUSED", "DELETED"}
    /\ incident \in {"NONE", "OPEN", "RESOLVED", "CANCELED"}
    /\ channel \in {"ENABLED", "DISABLED", "DELETED"}
    /\ bound \in BOOLEAN
    /\ row \in [Events -> Rows]
    /\ delivery \in [Events -> [1..MaxAttempts -> Deliveries]]
    /\ accepted \in SUBSET Events
    /\ job \in [Events -> {"absent", "waiting", "done"} \cup Processors]
    /\ persist \in [pc : {"idle", "opening", "resolving"}, bound : BOOLEAN, down : Rows]
    /\ dpc \in [Dispatchers -> {"idle", "order", "claim", "defer", "drop", "withhold",
                                "withholdKept", "register", "mark", "requeue"}]
    /\ devent \in [Dispatchers -> Events]
    /\ ppc \in [Processors -> {"idle", "claiming", "sending", "confirmed", "timedOut",
                               "unreachable", "refused"}]
    /\ pevent \in [Processors -> Events]
    /\ pattempt \in [Processors -> 0..MaxAttempts]
    /\ psecret \in [Processors -> BOOLEAN]
    /\ pfresh \in [Processors -> BOOLEAN]
    /\ changes \in 0..MaxChanges
    /\ faults \in 0..MaxFaults

\* A processor that has claimed its event and not yet written its answer.
Begun(p) == ppc[p] \notin {"idle", "claiming"}

Succeeded(e) == \E a \in 1..MaxAttempts : delivery[e][a] = "SUCCEEDED"

\* A recovery message is never attempted before the DOWN message of the same
\* incident and channel is confirmed, and that confirmation is never taken back
\* by the failure of another attempt (PROJECT_PLAN.md:380-381).
RecoveryAfterDown ==
    row[2].kind = "RECOVERY" /\ row[2].attempts > 0 =>
        row[1].status = "SENT" /\ 1 \in accepted

\* A RESOLVED_SUMMARY stands in for a DOWN message that was never sent and never
\* will be: nobody receives both (PROJECT_PLAN.md:382).
SummaryReplacesDown ==
    row[2].kind = "RESOLVED_SUMMARY" =>
        /\ row[1].status = "CANCELED"
        /\ row[1].attempts = 0
        /\ 1 \notin accepted

\* "Any provider-confirmed attempt wins" (notification-processor.ts:303-304): a
\* DOWN with a SUCCEEDED attempt is SENT, or was canceled, however its other
\* attempts end; and no event is SENT but by such an attempt.  A RECOVERY that
\* was withheld and is revived may be sent again after a late confirmation.
ConfirmedAttemptWins ==
    /\ Succeeded(1) => row[1].status \in {"SENT", "CANCELED"}
    /\ \A e \in Events :
           /\ row[e].status = "SENT" => Succeeded(e)
           /\ Succeeded(e) => e \in accepted

\* At most the latest attempt of an event is on record as under way: whoever
\* starts another one first closes those it takes over.
OneAttemptUnderWay ==
    \A e \in Events : \A a \in 1..MaxAttempts :
        delivery[e][a] = "ATTEMPTING" => a = row[e].attempts

\* Two processors whose leases both still run never send the same event.
SenderExclusive ==
    \A p, q \in Processors :
        Begun(p) /\ Begun(q) /\ pfresh[p] /\ pfresh[q] /\ pevent[p] = pevent[q] => p = q

\* A DOWN event that may still be sent has its destination: no resolution,
\* cancellation or late answer retires it too early.
OpenDownHasSecret == row[1].status \in OpenStatus => row[1].secret

\* The parts of the inductive invariant that the properties above do not say.
\* Who names a row names one that exists, and the rows follow the incident.
References ==
    /\ persist.pc = "opening" => incident = "NONE"
    /\ persist.pc = "resolving" => incident = "OPEN"
    /\ incident = "NONE" => row[1].status = "ABSENT"
    /\ incident # "RESOLVED" => row[2].status = "ABSENT"
    /\ \A e \in Events :
           /\ row[e].status = "ABSENT" =>
                  /\ row[e].kind = "NONE" /\ row[e].attempts = 0 /\ job[e] = "absent"
                  /\ delivery[e] = NoDelivery
           /\ e \in accepted => row[e].attempts > 0
    /\ row[1].kind \in {"NONE", "DOWN"}
    /\ \A d \in Dispatchers : dpc[d] # "idle" => row[devent[d]].status # "ABSENT"
    /\ \A p \in Processors :
           /\ ppc[p] # "idle" => row[pevent[p]].status # "ABSENT"
           /\ Begun(p) => /\ pattempt[p] \in 1..row[pevent[p]].attempts
                          /\ delivery[pevent[p]][pattempt[p]] # "SUCCEEDED"
           /\ ppc[p] = "confirmed" => pevent[p] \in accepted

\* No two processors share an attempt.
AttemptsDiffer ==
    \A p, q \in Processors :
        Begun(p) /\ Begun(q) /\ pevent[p] = pevent[q] /\ pattempt[p] = pattempt[q] => p = q

\* A processor inside its lease still owns the row, unless the event has ended
\* in a way no late confirmation of DOWN revives.
FreshHoldsLease ==
    \A p \in Processors :
        Begun(p) /\ pfresh[p] =>
            LET r == row[pevent[p]]
            IN  /\ ~r.withheld
                /\ \/ r.status \in Terminal
                   \/ /\ r.status = "PROCESSING" /\ r.lease = "LIVE"
                      /\ r.owner = p /\ r.attempts = pattempt[p]

\* The DOWN row a resolution has read as settled is settled when it writes.
SettledStays ==
    persist.pc = "resolving" /\ persist.down.status \in Terminal => row[1].status \in Terminal

\* The inductive invariant: the safety invariants above and these.
IInv ==
    /\ TypeOK
    /\ References
    /\ OneAttemptUnderWay
    /\ ConfirmedAttemptWins
    /\ RecoveryAfterDown
    /\ SummaryReplacesDown
    /\ SettledStays
    /\ OpenDownHasSecret
    /\ AttemptsDiffer
    /\ FreshHoldsLease
    /\ SenderExclusive

\* Every event settles, although processes crash, calls fail and Redis forgets
\* jobs: a RECOVERY never waits for ever for its DOWN (PROJECT_PLAN.md:379).
EveryEventSettles ==
    \A e \in Events : row[e].status \in OpenStatus ~> row[e].status \in Terminal

\* What docs/OPERATIONS.md:196-198 says of destinations: they are retired once
\* neither a retry nor a recovery needs them, so an event to be sent has its own.
OpenEventHasSecret == \A e \in Events : row[e].status \in OpenStatus => row[e].secret

\* What PROJECT_PLAN.md:383 says of bindings: a change counts from the next
\* incident on, so a confirmed DOWN on an enabled channel is followed by its
\* RECOVERY when the incident is resolved.
BindingAppliesFromNextIncident ==
    [][ incident = "OPEN" /\ incident' = "RESOLVED" /\ channel = "ENABLED"
            /\ row[1].status = "SENT" => row'[2].status # "ABSENT" ]_vars
=============================================================================
