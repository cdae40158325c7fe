----------------------------- MODULE CheckLedger -----------------------------
(***************************************************************************)
(* The scheduled-check pipeline of LinkAlive around its ledger, the table  *)
(* scheduled_checks: scheduler instances create the checks that are due    *)
(* and register them as BullMQ jobs (apps/scheduler), workers take the     *)
(* jobs, claim the ledger row, run the request and persist its result in   *)
(* one transaction (apps/worker/src/check-processor.ts), and the API       *)
(* creates, pauses, resumes, reconfigures and removes monitors under the   *)
(* same row lock (apps/api/src/monitors/monitors.service.ts).              *)
(*                                                                         *)
(* Time is abstract: a lease is LIVE until ExpireLease makes it EXPIRED, a *)
(* monitor's next check is in the FUTURE until it falls DUE.  One database *)
(* statement, or one transaction that holds the monitor's row lock, is one *)
(* action; a scheduler or a worker may be interrupted between any two.     *)
(***************************************************************************)
EXTENDS HealthMachine, FiniteSets

CONSTANTS Monitors,     \* monitor ids
          Checks,       \* scheduled_checks ids, each used for one check
          Schedulers,   \* scheduler instances (their lease-owner names)
          Workers,      \* worker slots (their lease-owner names)
          NoOne,        \* "no owner", "no check"
          MaxVersion,   \* bound: configuration versions explored
          MaxFaults     \* bound: crashes, failed calls and lost jobs explored

ASSUME LedgerAssumption ==
    /\ NoOne \notin Monitors \cup Checks \cup Schedulers \cup Workers
    /\ Schedulers \cap Workers = {}
    /\ {"absent", "waiting", "done"} \cap Workers = {}
    /\ MaxVersion \in Nat
    /\ MaxFaults \in Nat

VARIABLES
    \* table monitors
    lifecycle,      \* [Monitors -> Lifecycles]
    version,        \* [Monitors -> Nat]: config_version
    health,         \* [Monitors -> HealthRecords]
    nextCheck,      \* [Monitors -> NextChecks]: next_check_at against the clock
    \* table incidents: the monitor's latest incident
    incident,       \* [Monitors -> Incidents]
    \* table scheduled_checks and its check_results row
    status,         \* [Checks -> CheckStatuses]
    target,         \* [Checks -> Monitors \cup {NoOne}]: monitor_id
    checkVersion,   \* [Checks -> Nat]: config_version
    lease,          \* [Checks -> Leases]: lease_until against the clock
    owner,          \* [Checks -> ... \cup {NoOne}]: lease_owner
    result,         \* [Checks -> Outcomes \cup {"NONE"}]
    \* the BullMQ job whose id is the check's
    job,            \* [Checks -> {"absent", "waiting", "done"} \cup Workers]
    \* local state of the processes
    spc, scheck,    \* scheduler: where it is, the check it dispatches
    wpc, wcheck,    \* worker: where it is, the check of its job
    wfresh,         \* worker: its own lease_until has not passed
    faults          \* faults injected so far

monitorVars == <<lifecycle, version, health, nextCheck, incident>>
ledgerVars  == <<status, target, checkVersion, lease, owner, result>>
schedVars   == <<spc, scheck>>
workerVars  == <<wpc, wcheck, wfresh>>
vars == <<monitorVars, ledgerVars, job, schedVars, workerVars, faults>>

Lifecycles    == {"NEW", "ACTIVE", "PAUSED", "DELETED"}
NextChecks    == {"NONE", "FUTURE", "DUE"}
ActiveStatus  == {"PENDING", "ENQUEUED", "RUNNING"}
DecidedStatus == {"COMPLETED", "CANCELED"}
CheckStatuses == {"ABSENT"} \cup ActiveStatus \cup DecidedStatus
Leases        == {"NONE", "LIVE", "EXPIRED"}
IncidentStates == {"NONE", "OPEN", "RESOLVED", "CANCELED"}
ClosureReasons == {"NONE", "RECOVERED", "PAUSED", "CONFIG_CHANGED", "DELETED"}
Incidents == [state : IncidentStates, reason : ClosureReasons, version : Nat]

NoIncident == [state |-> "NONE", reason |-> "NONE", version |-> 0]

Init ==
    /\ lifecycle = [m \in Monitors |-> "NEW"]
    /\ version = [m \in Monitors |-> 0]
    /\ health = [m \in Monitors |-> PendingHealth]
    /\ nextCheck = [m \in Monitors |-> "NONE"]
    /\ incident = [m \in Monitors |-> NoIncident]
    /\ status = [c \in Checks |-> "ABSENT"]
    /\ target = [c \in Checks |-> NoOne]
    /\ checkVersion = [c \in Checks |-> 0]
    /\ lease = [c \in Checks |-> "NONE"]
    /\ owner = [c \in Checks |-> NoOne]
    /\ result = [c \in Checks |-> "NONE"]
    /\ job = [c \in Checks |-> "absent"]
    /\ spc = [s \in Schedulers |-> "idle"]
    /\ scheck = [s \in Schedulers |-> NoOne]
    /\ wpc = [w \in Workers |-> "idle"]
    /\ wcheck = [w \in Workers |-> NoOne]
    /\ wfresh = [w \in Workers |-> FALSE]
    /\ faults = 0
-----------------------------------------------------------------------------
(* The API: every action holds the monitor's row lock for its transaction. *)

ActiveChecks(m) == {c \in Checks : target[c] = m /\ status[c] \in ActiveStatus}

\* The rows whose status is in CANCELABLE_CHECK_STATUSES.
CancelableButRunning(m) == {c \in ActiveChecks(m) : status[c] # "RUNNING"}  \* mutated
Cancelable(m) == ActiveChecks(m)

\* cancelRuntime, the part on incidents and scheduled checks.
CancelRuntime(m, why) ==
    /\ incident' = [incident EXCEPT ![m] =
           IF @.state = "OPEN"
           THEN [state |-> "CANCELED", reason |-> why, version |-> @.version] ELSE @]
    /\ status' = [c \in Checks |-> IF c \in Cancelable(m) THEN "CANCELED" ELSE status[c]]
    /\ lease'  = [c \in Checks |-> IF c \in Cancelable(m) THEN "NONE" ELSE lease[c]]
    /\ owner'  = [c \in Checks |-> IF c \in Cancelable(m) THEN NoOne ELSE owner[c]]
    /\ UNCHANGED <<target, checkVersion, result>>

ResetHealth(m) == health' = [health EXCEPT ![m] = PendingHealth]

CreateMonitor(m) ==
    /\ lifecycle[m] = "NEW"
    /\ lifecycle' = [lifecycle EXCEPT ![m] = "ACTIVE"]
    /\ version' = [version EXCEPT ![m] = 1]
    /\ nextCheck' = [nextCheck EXCEPT ![m] = "FUTURE"]
    /\ ResetHealth(m)
    /\ UNCHANGED <<incident, ledgerVars, job, schedVars, workerVars, faults>>

PauseMonitor(m) ==
    /\ lifecycle[m] = "ACTIVE"
    /\ CancelRuntime(m, "PAUSED")
    /\ lifecycle' = [lifecycle EXCEPT ![m] = "PAUSED"]
    /\ nextCheck' = [nextCheck EXCEPT ![m] = "NONE"]
    /\ ResetHealth(m)
    /\ UNCHANGED <<version, job, schedVars, workerVars, faults>>

\* The configuration version is not raised and nothing is canceled here.
ResumeMonitor(m) ==
    /\ lifecycle[m] = "PAUSED"
    /\ lifecycle' = [lifecycle EXCEPT ![m] = "ACTIVE"]
    /\ nextCheck' = [nextCheck EXCEPT ![m] = "FUTURE"]
    /\ ResetHealth(m)
    /\ UNCHANGED <<version, incident, ledgerVars, job, schedVars, workerVars, faults>>

\* update with a changed field of configFields; other updates leave every
\* variable of this module alone.
ReconfigureMonitor(m) ==
    /\ lifecycle[m] \in {"ACTIVE", "PAUSED"}
    /\ version[m] < MaxVersion
    /\ CancelRuntime(m, "CONFIG_CHANGED")
    /\ version' = [version EXCEPT ![m] = @ + 1]
    /\ nextCheck' = [nextCheck EXCEPT ![m] =
           IF lifecycle[m] = "ACTIVE" THEN "FUTURE" ELSE "NONE"]
    /\ ResetHealth(m)
    /\ UNCHANGED <<lifecycle, job, schedVars, workerVars, faults>>

RemoveMonitor(m) ==
    /\ lifecycle[m] \in {"ACTIVE", "PAUSED"}
    /\ CancelRuntime(m, "DELETED")
    /\ lifecycle' = [lifecycle EXCEPT ![m] = "DELETED"]
    /\ nextCheck' = [nextCheck EXCEPT ![m] = "NONE"]
    /\ ResetHealth(m)
    /\ UNCHANGED <<version, job, schedVars, workerVars, faults>>
-----------------------------------------------------------------------------
(* Time. *)

\* next_check_at passes, or NetworkGuard pulls it forward after an outage.
CheckFallsDue(m) ==
    /\ nextCheck[m] = "FUTURE"
    /\ nextCheck' = [nextCheck EXCEPT ![m] = "DUE"]
    /\ UNCHANGED <<lifecycle, version, health, incident, ledgerVars, job,
                   schedVars, workerVars, faults>>

\* The clock passes lease_until, which the worker that set it knows as well.
ExpireLease(c) ==
    /\ lease[c] = "LIVE"
    /\ lease' = [lease EXCEPT ![c] = "EXPIRED"]
    /\ wfresh' = [w \in Workers |-> wfresh[w] /\ wcheck[w] # c]
    /\ UNCHANGED <<monitorVars, status, target, checkVersion, owner, result, job,
                   schedVars, wpc, wcheck, faults>>
-----------------------------------------------------------------------------
(* The scheduler. *)

\* The WHERE clause of createDueChecks.
DueUnlessQueued(m) ==                                                \* mutated
    /\ lifecycle[m] = "ACTIVE"
    /\ nextCheck[m] = "DUE"
    /\ \A c \in ActiveChecks(m) : status[c] = "RUNNING"
DueForCheck(m) ==
    /\ lifecycle[m] = "ACTIVE"
    /\ nextCheck[m] = "DUE"
    /\ ActiveChecks(m) = {}

\* createDueChecks, for one of the monitors its transaction selects: the row
\* lock and SKIP LOCKED keep two schedulers off one monitor, so the rows of one
\* transaction are independent of each other.
CreateDueCheck(s, m, c) ==
    /\ spc[s] = "idle"
    /\ DueForCheck(m)
    /\ status[c] = "ABSENT"
    /\ status' = [status EXCEPT ![c] = "PENDING"]
    /\ target' = [target EXCEPT ![c] = m]
    /\ checkVersion' = [checkVersion EXCEPT ![c] = version[m]]
    /\ nextCheck' = [nextCheck EXCEPT ![m] = "FUTURE"]
    /\ UNCHANGED <<lifecycle, version, health, incident, lease, owner, result, job,
                   schedVars, workerVars, faults>>

DispatchableIfStarted(c) ==                       \* mutated: ENQUEUED forgotten
    \/ status[c] = "PENDING" /\ lease[c] \in {"NONE", "EXPIRED"}
    \/ status[c] = "RUNNING" /\ lease[c] = "EXPIRED"
DispatchableUnleased(c) ==                        \* mutated: completedAt forgotten
    status[c] # "ABSENT" /\ lease[c] \in {"NONE", "EXPIRED"}
\* A row the reconciliation may take: never leased, or its lease has run out.
Dispatchable(c) ==
    \/ status[c] = "PENDING" /\ lease[c] \in {"NONE", "EXPIRED"}
    \/ status[c] \in {"ENQUEUED", "RUNNING"} /\ lease[c] = "EXPIRED"

\* findDispatchCandidates, then claimForDispatch, which tests it all again.
ClaimForDispatch(s, c) ==
    /\ spc[s] = "idle"
    /\ Dispatchable(c)
    /\ status' = [status EXCEPT ![c] = "PENDING"]
    /\ owner' = [owner EXCEPT ![c] = s]
    /\ lease' = [lease EXCEPT ![c] = "LIVE"]
    /\ spc' = [spc EXCEPT ![s] = "look"]
    /\ scheck' = [scheck EXCEPT ![s] = c]
    /\ UNCHANGED <<monitorVars, target, checkVersion, result, job, workerVars, faults>>

SchedGoes(s, to) ==
    /\ spc' = [spc EXCEPT ![s] = to]
    /\ scheck' = [scheck EXCEPT ![s] = IF to = "idle" THEN NoOne ELSE @]
    /\ UNCHANGED <<monitorVars, workerVars>>

\* ensureQueueJob: getJob and getState.
LookUpJob(s) ==
    /\ spc[s] = "look"
    /\ LET j == job[scheck[s]]
       IN SchedGoes(s, CASE j = "absent" -> "add" [] j = "done" -> "replace" [] OTHER -> "mark")
    /\ UNCHANGED <<ledgerVars, job, faults>>

\* ensureQueueJob: existing.remove() throws on a job a worker holds by now.
RemoveFinishedJob(s) ==
    /\ spc[s] = "replace"
    /\ IF job[scheck[s]] \in Workers
       THEN SchedGoes(s, "release") /\ UNCHANGED job
       ELSE SchedGoes(s, "add") /\ job' = [job EXCEPT ![scheck[s]] = "absent"]
    /\ UNCHANGED <<ledgerVars, faults>>

\* ensureQueueJob: queue.add does nothing when the job id exists.
AddJob(s) ==
    /\ spc[s] = "add"
    /\ job' = [job EXCEPT ![scheck[s]] = IF @ = "absent" THEN "waiting" ELSE @]
    /\ SchedGoes(s, "mark")
    /\ UNCHANGED <<ledgerVars, faults>>

\* The guard markEnqueued and releaseDispatchClaim put in their WHERE.
HoldsClaim(s, c) == owner[c] = s /\ status[c] = "PENDING"

\* The lease it writes is the one the claim wrote.
MarkEnqueued(s) ==
    /\ spc[s] = "mark"
    /\ LET c == scheck[s]
       IN status' = [status EXCEPT ![c] = IF HoldsClaim(s, c) THEN "ENQUEUED" ELSE @]
    /\ SchedGoes(s, "idle")
    /\ UNCHANGED <<target, checkVersion, lease, owner, result, job, faults>>

ReleaseDispatchClaim(s) ==
    /\ spc[s] = "release"
    /\ LET c == scheck[s]
       IN /\ lease' = [lease EXCEPT ![c] = IF HoldsClaim(s, c) THEN "NONE" ELSE @]
          /\ owner' = [owner EXCEPT ![c] = IF HoldsClaim(s, c) THEN NoOne ELSE @]
    /\ SchedGoes(s, "idle")
    /\ UNCHANGED <<status, target, checkVersion, result, job, faults>>
-----------------------------------------------------------------------------
(* The worker. *)

\* BullMQ hands a waiting job to an idle slot.
TakeJob(w, c) ==
    /\ wpc[w] = "idle"
    /\ job[c] = "waiting"
    /\ job' = [job EXCEPT ![c] = w]
    /\ wpc' = [wpc EXCEPT ![w] = "reading"]
    /\ wcheck' = [wcheck EXCEPT ![w] = c]
    /\ UNCHANGED <<monitorVars, ledgerVars, schedVars, wfresh, faults>>

\* process returns or throws: BullMQ moves the job to completed or failed,
\* unless this worker no longer holds it.
EndJob(w) ==
    /\ job' = [job EXCEPT ![wcheck[w]] = IF @ = w THEN "done" ELSE @]
    /\ wpc' = [wpc EXCEPT ![w] = "idle"]
    /\ wcheck' = [wcheck EXCEPT ![w] = NoOne]
    /\ wfresh' = [wfresh EXCEPT ![w] = FALSE]
    /\ UNCHANGED schedVars

WorkerGoes(w, to) ==
    /\ wpc' = [wpc EXCEPT ![w] = to]
    /\ UNCHANGED <<job, schedVars, wcheck, wfresh>>

\* The check is for what the monitor is now: same version, ACTIVE.
CurrentCheck(c) ==
    /\ checkVersion[c] = version[target[c]]
    /\ lifecycle[target[c]] = "ACTIVE"

\* process: the first read, outside any transaction.
ReadCheck(w) ==
    /\ wpc[w] = "reading"
    /\ LET c == wcheck[w]
           answered == result[c] # "NONE" \/ status[c] = "COMPLETED"
       IN \/ answered /\ EndJob(w)
          \/ ~answered /\ ~CurrentCheck(c) /\ WorkerGoes(w, "canceling")
          \/ ~answered /\ CurrentCheck(c) /\ WorkerGoes(w, "claiming")
    /\ UNCHANGED <<monitorVars, ledgerVars, faults>>

\* cancelStale: by id, whatever the monitor has become since the read.
CancelStale(w) ==
    /\ wpc[w] = "canceling"
    /\ LET c == wcheck[w]
           active == status[c] \in ActiveStatus
       IN /\ status' = [status EXCEPT ![c] = IF active THEN "CANCELED" ELSE @]
          /\ lease' = [lease EXCEPT ![c] = IF active THEN "NONE" ELSE @]
          /\ owner' = [owner EXCEPT ![c] = IF active THEN NoOne ELSE @]
    /\ EndJob(w)
    /\ UNCHANGED <<monitorVars, target, checkVersion, result, faults>>

ClaimableRunning(c) == status[c] \in ActiveStatus      \* mutated: lease ignored
ClaimableCanceled(c) ==                                \* mutated: CANCELED allowed
    \/ status[c] \in {"PENDING", "ENQUEUED", "CANCELED"}
    \/ status[c] = "RUNNING" /\ lease[c] = "EXPIRED"
\* A row a worker may claim: any dispatch lease is overridden, a running one
\* only once it has expired.
Claimable(c) ==
    \/ status[c] \in {"PENDING", "ENQUEUED"}
    \/ status[c] = "RUNNING" /\ lease[c] = "EXPIRED"

ClaimCheck(w) ==
    /\ wpc[w] = "claiming"
    /\ LET c == wcheck[w]
       IN IF Claimable(c)
          THEN /\ status' = [status EXCEPT ![c] = "RUNNING"]
               /\ owner' = [owner EXCEPT ![c] = w]
               /\ lease' = [lease EXCEPT ![c] = "LIVE"]
               /\ wpc' = [wpc EXCEPT ![w] = "running"]
               /\ wfresh' = [wfresh EXCEPT ![w] = TRUE]
               /\ UNCHANGED <<job, schedVars, wcheck>>
          ELSE EndJob(w) /\ UNCHANGED <<status, owner, lease>>
    /\ UNCHANGED <<monitorVars, target, checkVersion, result, faults>>

IncidentNamedAfter(m, effect) ==               \* mutated: effect stored as status
    CASE effect = "OPEN" /\ incident[m].state # "OPEN" ->
             [state |-> "OPEN", reason |-> "NONE", version |-> version[m]]
      [] effect = "RESOLVE" /\ incident[m].state = "OPEN" ->
             [state |-> effect, reason |-> "RECOVERED", version |-> incident[m].version]
      [] OTHER -> incident[m]
\* applyIncidentEffect: an incident already open absorbs an OPEN.
IncidentAfter(m, effect) ==
    CASE effect = "OPEN" /\ incident[m].state # "OPEN" ->
             [state |-> "OPEN", reason |-> "NONE", version |-> version[m]]
      [] effect = "RESOLVE" /\ incident[m].state = "OPEN" ->
             [state |-> "RESOLVED", reason |-> "RECOVERED", version |-> incident[m].version]
      [] OTHER -> incident[m]

ValidIfCurrent(c) == CurrentCheck(c)           \* mutated: row status not looked at
ValidIfSameVersion(c) == checkVersion[c] = version[target[c]]  \* mutated: nor lifecycle
\* What persist calls valid: the row is still active and still current.
ValidResult(c) == status[c] \in ActiveStatus /\ CurrentCheck(c)

\* persist: result, health, incident and completion in one transaction under
\* the monitor's row lock.  The outcome is whatever the request produced.
PersistResult(w, outcome) ==
    /\ wpc[w] = "running"
    /\ LET c == wcheck[w]
           m == target[c]
       IN /\ result[c] = "NONE"
          /\ result' = [result EXCEPT ![c] = outcome]
          /\ health' = [health EXCEPT ![m] =
                 IF ValidResult(c) THEN ApplyOutcome(@, outcome) ELSE @]
          /\ incident' = [incident EXCEPT ![m] =
                 IF ValidResult(c) THEN IncidentAfter(m, EffectOf(health[m], outcome)) ELSE @]
          /\ status' = [status EXCEPT ![c] = IF @ = "CANCELED" THEN @ ELSE "COMPLETED"]
          /\ lease' = [lease EXCEPT ![c] = IF status[c] = "CANCELED" THEN @ ELSE "NONE"]
          \* lease_owner is cleared with the lease
          /\ owner' = [owner EXCEPT ![c] = IF status[c] = "CANCELED" THEN @ ELSE NoOne]
    /\ EndJob(w)
    /\ UNCHANGED <<lifecycle, version, nextCheck, target, checkVersion, faults>>

\* persist finds a result for the row and leaves everything as it is.
PersistDuplicate(w) ==
    /\ wpc[w] = "running"
    /\ result[wcheck[w]] # "NONE"
    /\ EndJob(w)
    /\ UNCHANGED <<monitorVars, ledgerVars, faults>>
-----------------------------------------------------------------------------
(* BullMQ's own housekeeping, and faults. *)

\* A job is held by a worker that is not, or no longer, working on it.
Orphaned(c) == \E w \in Workers : job[c] = w /\ wcheck[w] # c

\* The stalled-job sweep returns an orphan to the queue or fails it.
SweepStalledJob(c) ==
    /\ Orphaned(c)
    /\ \E j \in {"waiting", "done"} : job' = [job EXCEPT ![c] = j]
    /\ UNCHANGED <<monitorVars, ledgerVars, schedVars, workerVars, faults>>

\* removeOnComplete and removeOnFail drop old jobs.
ForgetFinishedJob(c) ==
    /\ job[c] = "done"
    /\ job' = [job EXCEPT ![c] = "absent"]
    /\ UNCHANGED <<monitorVars, ledgerVars, schedVars, workerVars, faults>>

Fault == faults < MaxFaults /\ faults' = faults + 1

\* Redis loses its data, or a live worker's job lock lapses.
LoseJob(c) ==
    /\ Fault
    /\ job[c] # "absent"
    /\ \/ job' = [job EXCEPT ![c] = "absent"]
       \/ job[c] \in Workers /\ job' = [job EXCEPT ![c] = "waiting"]
    /\ UNCHANGED <<monitorVars, ledgerVars, schedVars, workerVars>>

\* A queue or database call of the dispatch fails: the catch releases the claim.
DispatchCallFails(s) ==
    /\ Fault
    /\ spc[s] \in {"look", "replace", "add", "mark"}
    /\ SchedGoes(s, "release")
    /\ UNCHANGED <<ledgerVars, job>>

\* The process dies, or releaseDispatchClaim itself fails: the tick is over.
SchedulerCrash(s) ==
    /\ Fault
    /\ spc[s] # "idle"
    /\ SchedGoes(s, "idle")
    /\ UNCHANGED <<ledgerVars, job>>

\* The process dies with its job still marked active in Redis.
WorkerCrash(w) ==
    /\ Fault
    /\ wpc[w] # "idle"
    /\ wpc' = [wpc EXCEPT ![w] = "idle"]
    /\ wcheck' = [wcheck EXCEPT ![w] = NoOne]
    /\ wfresh' = [wfresh EXCEPT ![w] = FALSE]
    /\ UNCHANGED <<monitorVars, ledgerVars, job, schedVars>>

\* A database call of process throws: the transaction rolls back and the job fails.
WorkerThrows(w) ==
    /\ Fault
    /\ wpc[w] # "idle"
    /\ EndJob(w)
    /\ UNCHANGED <<monitorVars, ledgerVars>>
-----------------------------------------------------------------------------
ApiNext ==
    \E m \in Monitors :
        \/ CreateMonitor(m) \/ PauseMonitor(m) \/ ResumeMonitor(m)
        \/ ReconfigureMonitor(m) \/ RemoveMonitor(m)

ClockNext ==
    \/ \E m \in Monitors : CheckFallsDue(m)
    \/ \E c \in Checks : ExpireLease(c)

Dispatch(s) ==
    \/ \E c \in Checks : ClaimForDispatch(s, c)
    \/ LookUpJob(s) \/ RemoveFinishedJob(s) \/ AddJob(s)
    \/ MarkEnqueued(s) \/ ReleaseDispatchClaim(s)

Persist(w) == (\E o \in Outcomes : PersistResult(w, o)) \/ PersistDuplicate(w)

Process(w) ==
    \/ \E c \in Checks : TakeJob(w, c)
    \/ ReadCheck(w) \/ CancelStale(w) \/ ClaimCheck(w) \/ Persist(w)

QueueNext == \E c \in Checks : SweepStalledJob(c) \/ ForgetFinishedJob(c)

FaultNext ==
    \/ \E c \in Checks : LoseJob(c)
    \/ \E s \in Schedulers : DispatchCallFails(s) \/ SchedulerCrash(s)
    \/ \E w \in Workers : WorkerCrash(w) \/ WorkerThrows(w)

Next ==
    \/ ApiNext
    \/ ClockNext
    \/ \E s \in Schedulers :
           Dispatch(s) \/ \E m \in Monitors, c \in Checks : CreateDueCheck(s, m, c)
    \/ \E w \in Workers : Process(w)
    \/ QueueNext
    \/ FaultNext

Spec == Init /\ [][Next]_vars
-----------------------------------------------------------------------------
(* Fairness.  Both programs poll for ever and hand every row or job on in   *)
(* order, so a row that stays dispatchable is reached by some tick and a    *)
(* waiting job by some slot; a started call ends, by its timeout at the     *)
(* latest; the clock runs; BullMQ sweeps stalled jobs while a worker is up. *)
Fairness ==
    /\ \A c \in Checks :
           /\ SF_vars(\E s \in Schedulers : ClaimForDispatch(s, c))
           /\ SF_vars(\E w \in Workers : TakeJob(w, c))
           /\ WF_vars(ExpireLease(c))
           /\ WF_vars(SweepStalledJob(c))
    /\ \A s \in Schedulers :
           WF_vars(LookUpJob(s) \/ RemoveFinishedJob(s) \/ AddJob(s)
                     \/ MarkEnqueued(s) \/ ReleaseDispatchClaim(s))
    /\ \A w \in Workers :
           WF_vars(ReadCheck(w) \/ CancelStale(w) \/ ClaimCheck(w) \/ Persist(w))

FairSpec == Spec /\ Fairness
-----------------------------------------------------------------------------
(* Properties. *)

\* Every variable stays in the set of values its table column, BullMQ state or
\* process can take.
TypeOK ==
    /\ lifecycle \in [Monitors -> Lifecycles]
    /\ version \in [Monitors -> Nat]
    /\ health \in [Monitors -> HealthRecords]
    /\ nextCheck \in [Monitors -> NextChecks]
    /\ incident \in [Monitors -> Incidents]
    /\ status \in [Checks -> CheckStatuses]
    /\ target \in [Checks -> Monitors \cup {NoOne}]
    /\ checkVersion \in [Checks -> Nat]
    /\ lease \in [Checks -> Leases]
    /\ owner \in [Checks -> Schedulers \cup Workers \cup {NoOne}]
    /\ result \in [Checks -> Outcomes \cup {"NONE"}]
    /\ job \in [Checks -> {"absent", "waiting", "done"} \cup Workers]
    /\ spc \in [Schedulers -> {"idle", "look", "replace", "add", "mark", "release"}]
    /\ scheck \in [Schedulers -> Checks \cup {NoOne}]
    /\ wpc \in [Workers -> {"idle", "reading", "canceling", "claiming", "running"}]
    /\ wcheck \in [Workers -> Checks \cup {NoOne}]
    /\ wfresh \in [Workers -> BOOLEAN]
    /\ faults \in 0..MaxFaults

\* A monitor never has two scheduled checks in PENDING, ENQUEUED or RUNNING,
\* however creation, reconciliation and administration interleave
\* (PROJECT_PLAN.md:289).
OneActiveCheck ==
    \A c, d \in Checks :
        status[c] \in ActiveStatus /\ status[d] \in ActiveStatus
            /\ target[c] = target[d] => c = d

\* A check that may still move health was created for the monitor as it is:
\* the monitor is ACTIVE and its configuration unchanged since.  This is what
\* makes the unlocked cancelStale of a slow worker harmless.
ActiveCheckIsCurrent ==
    \A c \in Checks : status[c] \in ActiveStatus => CurrentCheck(c)

\* The check row and its result row are decided together: a COMPLETED row has
\* a result and a row that still waits or runs has none, whatever mixture of
\* crashes, redeliveries and duplicate workers it went through.
ResultWithCompletion ==
    \A c \in Checks :
        /\ status[c] = "COMPLETED" => result[c] # "NONE"
        /\ result[c] # "NONE" => status[c] \in DecidedStatus

\* A monitor has an open incident exactly while its health is DOWN or
\* RECOVERING, and then it is ACTIVE and the incident belongs to its current
\* configuration: neither a late result nor an administrative change separates
\* the two tables.
IncidentMatchesHealth ==
    \A m \in Monitors :
        /\ incident[m].state = "OPEN" <=> InIncident(health[m])
        /\ incident[m].state = "OPEN" =>
               lifecycle[m] = "ACTIVE" /\ incident[m].version = version[m]

\* Two workers whose leases both still run never execute the same check: a
\* second execution starts only after the first lease expired
\* (PROJECT_PLAN.md:289).
LeaseExclusive ==
    \A v, w \in Workers :
        wpc[v] = "running" /\ wpc[w] = "running" /\ wfresh[v] /\ wfresh[w]
            /\ wcheck[v] = wcheck[w] => v = w

\* Whatever names a row names one that exists, and a row that does not exist
\* has no lease, result or job.
References ==
    /\ \A c \in Checks :
           /\ status[c] # "ABSENT" => target[c] \in Monitors
           /\ status[c] = "ABSENT" =>
                  result[c] = "NONE" /\ lease[c] = "NONE" /\ job[c] = "absent"
    /\ \A s \in Schedulers :
           spc[s] # "idle" => scheck[s] \in Checks /\ status[scheck[s]] # "ABSENT"
    /\ \A w \in Workers :
           wpc[w] # "idle" => wcheck[w] \in Checks /\ status[wcheck[w]] # "ABSENT"

\* A worker inside its lease still owns the row, as RUNNING under a live
\* lease, unless the row was decided behind its back.
FreshHoldsLease ==
    \A w \in Workers :
        wpc[w] = "running" /\ wfresh[w] =>
            LET c == wcheck[w]
            IN \/ status[c] \in DecidedStatus
               \/ status[c] = "RUNNING" /\ lease[c] = "LIVE" /\ owner[c] = w

\* The inductive invariant: the safety invariants above, with the references
\* and the hold of a worker on its row, which the steps need.
IInv ==
    /\ TypeOK
    /\ References
    /\ OneActiveCheck
    /\ ActiveCheckIsCurrent
    /\ ResultWithCompletion
    /\ IncidentMatchesHealth
    /\ FreshHoldsLease
    /\ LeaseExclusive

\* Decisions are final: a canceled or completed row is never claimed, queued
\* or decided again, and a stored result is never replaced by a duplicate
\* worker's (PROJECT_PLAN.md:290).
DecisionsAreFinal ==
    [][ \A c \in Checks :
            /\ status[c] \in DecidedStatus => status'[c] = status[c]
            /\ result[c] # "NONE" => result'[c] = result[c] ]_vars

\* Every check that was created is eventually completed or canceled, although
\* schedulers and workers crash, calls fail and Redis forgets jobs
\* (PROJECT_PLAN.md:288).
EveryCheckDecided ==
    \A c \in Checks : status[c] \in ActiveStatus ~> status[c] \in DecidedStatus

\* What PROJECT_PLAN.md:289 says of one monitor's checks: they do not overlap.
ChecksDoNotOverlap ==
    \A v, w \in Workers :
        wpc[v] = "running" /\ wpc[w] = "running" /\ wfresh[v] /\ wfresh[w]
            /\ target[wcheck[v]] = target[wcheck[w]] => v = w
=============================================================================
