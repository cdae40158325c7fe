-------------------------- MODULE CheckLedgerProofs --------------------------
(***************************************************************************)
(* Proofs about CheckLedger for every set of monitors, checks, schedulers  *)
(* and workers, every threshold and every bound on versions and faults:    *)
(* its invariants, and that it implements MonitorContract.                 *)
(***************************************************************************)
EXTENDS CheckLedgerRefinement, TLAPS

\* The health rules stay inside the type of a health record
\* (applyCheckResult, packages/domain/src/state-machine.ts).
LEMMA ApplyOutcomeType ==
    ASSUME NEW h \in HealthRecords, NEW o \in Outcomes
    PROVE  ApplyOutcome(h, o) \in HealthRecords
BY DEF ApplyOutcome, AfterSuccess, AfterFailure, HealthRecords, HealthStates

\* The type invariant holds initially.
LEMMA InitType == Init => TypeOK
BY LedgerAssumption
   DEF Init, TypeOK, Lifecycles, HealthRecords, HealthStates, PendingHealth, NextChecks,
       Incidents, NoIncident, IncidentStates, ClosureReasons, CheckStatuses, Leases

\* Every API transaction keeps the type invariant.
LEMMA ApiType ==
    ASSUME TypeOK, ApiNext
    PROVE  TypeOK'
<1> USE DEF TypeOK, Lifecycles, HealthRecords, HealthStates, PendingHealth, NextChecks,
            Incidents, IncidentStates, ClosureReasons, CheckStatuses, DecidedStatus, Leases,
            ResetHealth
<1>0. PICK m \in Monitors :
          \/ CreateMonitor(m) \/ PauseMonitor(m) \/ ResumeMonitor(m)
          \/ ReconfigureMonitor(m) \/ RemoveMonitor(m)
  BY DEF ApiNext
<1>c. ASSUME NEW why \in ClosureReasons, CancelRuntime(m, why)
      PROVE  /\ incident' \in [Monitors -> Incidents]
             /\ status' \in [Checks -> CheckStatuses]
             /\ lease' \in [Checks -> Leases]
             /\ owner' \in [Checks -> Schedulers \cup Workers \cup {NoOne}]
  <2>1. [state |-> "CANCELED", reason |-> why, version |-> incident[m].version] \in Incidents
    BY <1>c
  <2>2. incident' \in [Monitors -> Incidents]
    BY <2>1, <1>c DEF CancelRuntime
  <2>3. QED BY <2>2, <1>c DEF CancelRuntime
<1>1. CASE CreateMonitor(m)
  BY <1>1 DEF CreateMonitor, monitorVars, ledgerVars, schedVars, workerVars
<1>2. CASE PauseMonitor(m)
  BY <1>2, <1>c DEF PauseMonitor, CancelRuntime, schedVars, workerVars
<1>3. CASE ResumeMonitor(m)
  BY <1>3 DEF ResumeMonitor, ledgerVars, schedVars, workerVars
<1>4. CASE ReconfigureMonitor(m)
  BY <1>4, <1>c DEF ReconfigureMonitor, CancelRuntime, schedVars, workerVars
<1>5. CASE RemoveMonitor(m)
  BY <1>5, <1>c DEF RemoveMonitor, CancelRuntime, schedVars, workerVars
<1>6. QED BY <1>0, <1>1, <1>2, <1>3, <1>4, <1>5

\* The clock keeps the type invariant.
LEMMA ClockType ==
    ASSUME TypeOK, ClockNext
    PROVE  TypeOK'
<1> USE DEF TypeOK, NextChecks, Leases
<1>1. ASSUME NEW m \in Monitors, CheckFallsDue(m) PROVE TypeOK'
  BY <1>1 DEF CheckFallsDue, ledgerVars, schedVars, workerVars
<1>2. ASSUME NEW c \in Checks, ExpireLease(c) PROVE TypeOK'
  BY <1>2 DEF ExpireLease, monitorVars, schedVars
<1>3. QED BY <1>1, <1>2 DEF ClockNext

\* Every step of a scheduler keeps the type invariant.
LEMMA SchedulerType ==
    ASSUME TypeOK, NEW s \in Schedulers,
           Dispatch(s) \/ \E m \in Monitors, c \in Checks : CreateDueCheck(s, m, c)
    PROVE  TypeOK'
<1> USE DEF TypeOK, NextChecks, CheckStatuses, ActiveStatus, Leases,
            monitorVars, ledgerVars, schedVars, workerVars, SchedGoes
<1>1. ASSUME NEW m \in Monitors, NEW c \in Checks, CreateDueCheck(s, m, c) PROVE TypeOK'
  BY <1>1 DEF CreateDueCheck
<1>2. ASSUME NEW c \in Checks, ClaimForDispatch(s, c) PROVE TypeOK'
  BY <1>2 DEF ClaimForDispatch
<1>3. CASE LookUpJob(s)
  BY <1>3 DEF LookUpJob
<1>4. CASE RemoveFinishedJob(s)
  BY <1>4 DEF RemoveFinishedJob
<1>5. CASE AddJob(s)
  BY <1>5 DEF AddJob
<1>6. CASE MarkEnqueued(s)
  BY <1>6 DEF MarkEnqueued
<1>7. CASE ReleaseDispatchClaim(s)
  BY <1>7 DEF ReleaseDispatchClaim
<1>8. QED BY <1>1, <1>2, <1>3, <1>4, <1>5, <1>6, <1>7 DEF Dispatch

\* What persist writes to the monitor's row and incident keeps their types.
LEMMA IncidentAfterType ==
    ASSUME TypeOK, NEW m \in Monitors, NEW e \in Effects
    PROVE  IncidentAfter(m, e) \in Incidents
BY DEF TypeOK, IncidentAfter, Incidents, IncidentStates, ClosureReasons

\* The effect of an outcome is one of the four.
LEMMA EffectType ==
    ASSUME NEW h, NEW o
    PROVE  EffectOf(h, o) \in Effects
BY DEF EffectOf, Effects

\* Finishing a job keeps the types of the queue and of the worker's state.
LEMMA EndJobType ==
    ASSUME TypeOK, NEW w \in Workers, EndJob(w)
    PROVE  /\ job' \in [Checks -> {"absent", "waiting", "done"} \cup Workers]
           /\ wpc' \in [Workers -> {"idle", "reading", "canceling", "claiming", "running"}]
           /\ wcheck' \in [Workers -> Checks \cup {NoOne}]
           /\ wfresh' \in [Workers -> BOOLEAN]
           /\ UNCHANGED <<spc, scheck>>
<1>1. job' \in [Checks -> {"absent", "waiting", "done"} \cup Workers]
  BY DEF TypeOK, EndJob
<1>2. wpc' \in [Workers -> {"idle", "reading", "canceling", "claiming", "running"}]
  BY DEF TypeOK, EndJob
<1>3. wcheck' \in [Workers -> Checks \cup {NoOne}]
  BY DEF TypeOK, EndJob
<1>4. wfresh' \in [Workers -> BOOLEAN]
  BY DEF TypeOK, EndJob
<1>5. QED BY <1>1, <1>2, <1>3, <1>4 DEF EndJob, schedVars

\* Every step of a worker keeps the type invariant, given that the row it works
\* on names a monitor.
LEMMA WorkerType ==
    ASSUME TypeOK, References, NEW w \in Workers, Process(w)
    PROVE  TypeOK'
<1> USE DEF TypeOK, CheckStatuses, ActiveStatus, DecidedStatus, Leases,
            ledgerVars, schedVars, workerVars, monitorVars
<1>1. ASSUME NEW c \in Checks, TakeJob(w, c) PROVE TypeOK'
  BY <1>1 DEF TakeJob
<1>2. CASE ReadCheck(w)
  <2>1. CASE EndJob(w)
    BY <1>2, <2>1, EndJobType DEF ReadCheck
  <2>2. PICK to \in {"canceling", "claiming"} : EndJob(w) \/ WorkerGoes(w, to)
    BY <1>2 DEF ReadCheck
  <2>3. QED BY <1>2, <2>1, <2>2 DEF ReadCheck, WorkerGoes
<1>3. CASE CancelStale(w)
  <2>1. /\ status' \in [Checks -> CheckStatuses]
        /\ lease' \in [Checks -> Leases]
        /\ owner' \in [Checks -> Schedulers \cup Workers \cup {NoOne}]
    BY <1>3 DEF CancelStale
  <2>2. QED BY <1>3, <2>1, EndJobType DEF CancelStale
<1>4. CASE ClaimCheck(w)
  <2>1. CASE Claimable(wcheck[w])
    <3>1. status' \in [Checks -> CheckStatuses] /\ lease' \in [Checks -> Leases]
      BY <1>4, <2>1 DEF ClaimCheck
    <3>2. owner' \in [Checks -> Schedulers \cup Workers \cup {NoOne}]
      BY <1>4, <2>1 DEF ClaimCheck
    <3>3. /\ wpc' \in [Workers -> {"idle", "reading", "canceling", "claiming", "running"}]
          /\ wfresh' \in [Workers -> BOOLEAN]
      BY <1>4, <2>1 DEF ClaimCheck
    <3>4. UNCHANGED <<monitorVars, target, checkVersion, result, faults, job, schedVars, wcheck>>
      BY <1>4, <2>1 DEF ClaimCheck
    <3>5. QED BY <3>1, <3>2, <3>3, <3>4
  <2>2. CASE ~Claimable(wcheck[w])
    BY <1>4, <2>2, EndJobType DEF ClaimCheck
  <2>3. QED BY <2>1, <2>2
<1>5. ASSUME NEW o \in Outcomes, PersistResult(w, o) PROVE TypeOK'
  <2> DEFINE c == wcheck[w]
             m == target[c]
  <2>1. c \in Checks /\ m \in Monitors
    BY <1>5 DEF PersistResult, References
  <2>2. health' \in [Monitors -> HealthRecords]
    BY <1>5, <2>1, ApplyOutcomeType DEF PersistResult
  <2>3. incident' \in [Monitors -> Incidents]
    BY <1>5, <2>1, IncidentAfterType, EffectType DEF PersistResult
  <2>4. status' \in [Checks -> CheckStatuses] /\ result' \in [Checks -> Outcomes \cup {"NONE"}]
    BY <1>5, <2>1 DEF PersistResult
  <2>5. /\ lease' \in [Checks -> Leases]
        /\ owner' \in [Checks -> Schedulers \cup Workers \cup {NoOne}]
    BY <1>5, <2>1 DEF PersistResult
  <2>6. QED BY <1>5, <2>2, <2>3, <2>4, <2>5, EndJobType DEF PersistResult
<1>6. CASE PersistDuplicate(w)
  BY <1>6, EndJobType DEF PersistDuplicate
<1>7. QED BY <1>1, <1>2, <1>3, <1>4, <1>5, <1>6 DEF Process, Persist

\* The queue's housekeeping and the faults keep the type invariant.
LEMMA QueueAndFaultType ==
    ASSUME TypeOK, QueueNext \/ FaultNext
    PROVE  TypeOK'
<1> USE LedgerAssumption
    DEF TypeOK, ledgerVars, schedVars, workerVars, monitorVars
<1>1. ASSUME NEW c \in Checks, SweepStalledJob(c) \/ ForgetFinishedJob(c) PROVE TypeOK'
  BY <1>1 DEF SweepStalledJob, ForgetFinishedJob
<1>2. ASSUME NEW c \in Checks, LoseJob(c) PROVE TypeOK'
  BY <1>2 DEF LoseJob, Fault
<1>3. ASSUME NEW s \in Schedulers, DispatchCallFails(s) \/ SchedulerCrash(s) PROVE TypeOK'
  <2>1. PICK to \in {"idle", "release"} : SchedGoes(s, to) /\ faults' = faults + 1
          /\ faults < MaxFaults /\ UNCHANGED <<ledgerVars, job>>
    BY <1>3 DEF DispatchCallFails, SchedulerCrash, Fault
  <2>2. QED BY <2>1 DEF SchedGoes
<1>4. ASSUME NEW w \in Workers, WorkerCrash(w) \/ WorkerThrows(w) PROVE TypeOK'
  <2>1. CASE WorkerCrash(w)
    BY <1>4, <2>1 DEF WorkerCrash, Fault
  <2>2. CASE WorkerThrows(w)
    BY <1>4, <2>2, EndJobType DEF WorkerThrows, Fault
  <2>3. QED BY <1>4, <2>1, <2>2
<1>5. QED BY <1>1, <1>2, <1>3, <1>4 DEF QueueNext, FaultNext
-----------------------------------------------------------------------------
\* The conjuncts of IInv beside the types.
Safe ==
    /\ References
    /\ OneActiveCheck
    /\ ActiveCheckIsCurrent
    /\ ResultWithCompletion
    /\ IncidentMatchesHealth
    /\ FreshHoldsLease
    /\ LeaseExclusive

\* The invariant holds initially.
LEMMA InitSafe == Init => Safe
BY DEF Init, Safe, References, OneActiveCheck, ActiveCheckIsCurrent, ResultWithCompletion,
       IncidentMatchesHealth, FreshHoldsLease, LeaseExclusive, ActiveStatus, DecidedStatus,
       InIncident, NoIncident, PendingHealth

\* Steps of the clock, of the queue and of a failing process leave every row's
\* decision, every monitor and every incident alone.
LEMMA ClockSafe ==
    ASSUME TypeOK, Safe, ClockNext
    PROVE  Safe'
<1> USE DEF TypeOK, Safe, References, OneActiveCheck, ActiveCheckIsCurrent, CurrentCheck,
            ResultWithCompletion, IncidentMatchesHealth, FreshHoldsLease, LeaseExclusive
<1>1. ASSUME NEW m \in Monitors, CheckFallsDue(m) PROVE Safe'
  BY <1>1 DEF CheckFallsDue, ledgerVars, schedVars, workerVars
<1>2. ASSUME NEW c \in Checks, ExpireLease(c) PROVE Safe'
  <2>1. ASSUME NEW w \in Workers PROVE wfresh'[w] => wfresh[w] /\ wcheck[w] # c
    BY <1>2 DEF ExpireLease
  <2>2. ASSUME NEW d \in Checks, d # c PROVE lease'[d] = lease[d]
    BY <1>2, <2>2 DEF ExpireLease
  <2>3. lease[c] = "LIVE" /\ UNCHANGED <<monitorVars, status, target, checkVersion, owner,
                                        result, job, schedVars, wpc, wcheck, faults>>
    BY <1>2 DEF ExpireLease
  <2>4. FreshHoldsLease' /\ LeaseExclusive'
    BY <2>1, <2>2, <2>3
  <2>5. References' /\ OneActiveCheck' /\ ActiveCheckIsCurrent'
    BY <2>2, <2>3 DEF monitorVars, schedVars
  <2>6. ResultWithCompletion' /\ IncidentMatchesHealth'
    BY <2>3 DEF monitorVars
  <2>7. QED BY <2>4, <2>5, <2>6
<1>3. QED BY <1>1, <1>2 DEF ClockNext

\* Neither the queue's housekeeping nor a fault touches a ledger row or a
\* monitor, and no job appears for a row that does not exist.
LEMMA QueueAndFaultSafe ==
    ASSUME TypeOK, Safe, QueueNext \/ FaultNext
    PROVE  Safe'
<1> USE DEF TypeOK, Safe, References, OneActiveCheck, ActiveCheckIsCurrent, CurrentCheck,
            ResultWithCompletion, IncidentMatchesHealth, FreshHoldsLease, LeaseExclusive,
            ledgerVars, schedVars, workerVars, monitorVars
<1>1. ASSUME NEW c \in Checks, SweepStalledJob(c) \/ ForgetFinishedJob(c) PROVE Safe'
  <2>1. \E j \in {"absent", "waiting", "done"} : job' = [job EXCEPT ![c] = j]
    BY <1>1 DEF SweepStalledJob, ForgetFinishedJob
  <2>2. job[c] # "absent"
    BY <1>1, LedgerAssumption DEF SweepStalledJob, ForgetFinishedJob, Orphaned
  <2>3. UNCHANGED <<monitorVars, ledgerVars, schedVars, workerVars>>
    BY <1>1 DEF SweepStalledJob, ForgetFinishedJob
  <2>4. QED BY <2>1, <2>2, <2>3
<1>2. ASSUME NEW c \in Checks, LoseJob(c) PROVE Safe'
  <2>1. job[c] # "absent" /\ \E j \in {"absent", "waiting"} : job' = [job EXCEPT ![c] = j]
    BY <1>2 DEF LoseJob
  <2>2. UNCHANGED <<monitorVars, ledgerVars, schedVars, workerVars>>
    BY <1>2 DEF LoseJob
  <2>3. QED BY <2>1, <2>2
<1>3. ASSUME NEW s \in Schedulers, DispatchCallFails(s) PROVE Safe'
  BY <1>3 DEF DispatchCallFails, SchedGoes
<1>4. ASSUME NEW s \in Schedulers, SchedulerCrash(s) PROVE Safe'
  BY <1>4 DEF SchedulerCrash, SchedGoes
<1>5. ASSUME NEW w \in Workers, WorkerCrash(w) PROVE Safe'
  BY <1>5 DEF WorkerCrash
<1>6. ASSUME NEW w \in Workers, WorkerThrows(w) PROVE Safe'
  BY <1>6 DEF WorkerThrows, EndJob
<1>7. QED BY <1>1, <1>2, <1>3, <1>4, <1>5, <1>6 DEF QueueNext, FaultNext

\* An API transaction cancels the monitor's active rows, closes its incident
\* and resets its health together, so the invariant survives.
LEMMA ApiSafe ==
    ASSUME TypeOK, Safe, ApiNext
    PROVE  Safe'
<1> USE DEF TypeOK, Safe, References, OneActiveCheck, ActiveCheckIsCurrent, CurrentCheck,
            ResultWithCompletion, IncidentMatchesHealth, FreshHoldsLease, LeaseExclusive
<1>0. PICK m \in Monitors :
          \/ CreateMonitor(m) \/ PauseMonitor(m) \/ ResumeMonitor(m)
          \/ ReconfigureMonitor(m) \/ RemoveMonitor(m)
  BY DEF ApiNext
<1>1. CASE CreateMonitor(m) \/ ResumeMonitor(m)
  <2>1. /\ lifecycle' = [lifecycle EXCEPT ![m] = "ACTIVE"]
        /\ version' = version \/ (lifecycle[m] = "NEW" /\ version' = [version EXCEPT ![m] = 1])
        /\ lifecycle[m] # "ACTIVE"
        /\ health' = [health EXCEPT ![m] = PendingHealth]
        /\ UNCHANGED <<incident, ledgerVars, job, schedVars, workerVars>>
    BY <1>1 DEF CreateMonitor, ResumeMonitor, ResetHealth
  <2>2. \A c \in Checks : status[c] \in ActiveStatus => target[c] # m /\ target[c] \in Monitors
    BY <2>1 DEF ActiveStatus
  <2>3. ActiveCheckIsCurrent'
    BY <2>1, <2>2 DEF ledgerVars
  <2>4. IncidentMatchesHealth'
    BY <2>1 DEF InIncident, PendingHealth
  <2>5. QED BY <2>1, <2>3, <2>4 DEF ledgerVars, schedVars, workerVars
<1>2. ASSUME NEW why \in ClosureReasons, CancelRuntime(m, why), ResetHealth(m),
             UNCHANGED <<job, schedVars, workerVars>>,
             \A n \in Monitors \ {m} : lifecycle'[n] = lifecycle[n] /\ version'[n] = version[n]
      PROVE  Safe'
  <2>1. \A c \in Checks :
            /\ status'[c] = IF c \in ActiveChecks(m) THEN "CANCELED" ELSE status[c]
            /\ lease'[c] = IF c \in ActiveChecks(m) THEN "NONE" ELSE lease[c]
            /\ owner'[c] = IF c \in ActiveChecks(m) THEN NoOne ELSE owner[c]
            /\ target'[c] = target[c] /\ checkVersion'[c] = checkVersion[c]
            /\ result'[c] = result[c]
    BY <1>2 DEF CancelRuntime, Cancelable
  <2>2. \A c \in Checks : status'[c] \in ActiveStatus =>
            status[c] = status'[c] /\ target[c] \in Monitors /\ target[c] # m
    BY <2>1 DEF ActiveChecks, ActiveStatus
  <2>3. \A n \in Monitors : n # m =>
            incident'[n] = incident[n] /\ health'[n] = health[n]
    BY <1>2 DEF CancelRuntime, ResetHealth
  <2>4. incident'[m].state # "OPEN" /\ ~InIncident(health'[m])
    BY <1>2 DEF CancelRuntime, ResetHealth, InIncident, PendingHealth
  <2>5. UNCHANGED <<job, spc, scheck, wpc, wcheck, wfresh>>
    BY <1>2 DEF schedVars, workerVars
  <2>6. References'
    BY <2>1, <2>5 DEF ActiveChecks, ActiveStatus
  <2>7. OneActiveCheck' /\ ActiveCheckIsCurrent'
    BY <1>2, <2>1, <2>2
  <2>8. ResultWithCompletion'
    BY <2>1 DEF ActiveChecks, ActiveStatus, DecidedStatus
  <2>9. IncidentMatchesHealth'
    BY <1>2, <2>3, <2>4
  <2>10. FreshHoldsLease' /\ LeaseExclusive'
    BY <2>1, <2>5 DEF DecidedStatus
  <2>11. QED BY <2>6, <2>7, <2>8, <2>9, <2>10
<1>3. CASE PauseMonitor(m)
  BY <1>2, <1>3 DEF PauseMonitor, ClosureReasons
<1>4. CASE ReconfigureMonitor(m)
  BY <1>2, <1>4 DEF ReconfigureMonitor, ClosureReasons
<1>5. CASE RemoveMonitor(m)
  BY <1>2, <1>5 DEF RemoveMonitor, ClosureReasons
<1>6. QED BY <1>0, <1>1, <1>3, <1>4, <1>5

\* A scheduler creates a row only for an ACTIVE monitor without an active one,
\* and reconciliation takes a row only when no worker's lease runs on it.
LEMMA SchedulerSafe ==
    ASSUME TypeOK, Safe, NEW s \in Schedulers,
           Dispatch(s) \/ \E m \in Monitors, c \in Checks : CreateDueCheck(s, m, c)
    PROVE  Safe'
<1> USE DEF TypeOK, Safe, References, OneActiveCheck, ActiveCheckIsCurrent, CurrentCheck,
            ResultWithCompletion, IncidentMatchesHealth, FreshHoldsLease, LeaseExclusive
<1>1. ASSUME NEW m \in Monitors, NEW c \in Checks, CreateDueCheck(s, m, c) PROVE Safe'
  <2>1. /\ status[c] = "ABSENT" /\ lifecycle[m] = "ACTIVE" /\ ActiveChecks(m) = {}
        /\ status' = [status EXCEPT ![c] = "PENDING"]
        /\ target' = [target EXCEPT ![c] = m]
        /\ checkVersion' = [checkVersion EXCEPT ![c] = version[m]]
        /\ UNCHANGED <<lifecycle, version, health, incident, lease, owner, result, job,
                       schedVars, workerVars>>
    BY <1>1 DEF CreateDueCheck, DueForCheck
  <2>2. \A d \in Checks : d # c => status'[d] = status[d] /\ target'[d] = target[d]
                                      /\ checkVersion'[d] = checkVersion[d]
    BY <2>1
  <2>3. \A d \in Checks : ~(status[d] \in ActiveStatus /\ target[d] = m)
    BY <2>1 DEF ActiveChecks
  <2>4. status'[c] = "PENDING" /\ target'[c] = m /\ checkVersion'[c] = version[m]
    BY <2>1
  <2>5. References'
    BY <2>1 DEF schedVars, workerVars
  <2>6. OneActiveCheck'
    BY <2>2, <2>3, <2>4
  <2>7. ActiveCheckIsCurrent'
    BY <2>1, <2>2, <2>4
  <2>8. ResultWithCompletion'
    BY <2>1 DEF DecidedStatus
  <2>9. IncidentMatchesHealth' /\ LeaseExclusive'
    BY <2>1 DEF workerVars
  <2>10. FreshHoldsLease'
    BY <2>1, <2>2 DEF workerVars, DecidedStatus
  <2>11. QED BY <2>5, <2>6, <2>7, <2>8, <2>9, <2>10
<1>2. ASSUME NEW c \in Checks, ClaimForDispatch(s, c) PROVE Safe'
  <2>1. /\ status[c] \in ActiveStatus
        /\ lease[c] # "LIVE"
        /\ \/ status[c] # "RUNNING" \/ lease[c] = "EXPIRED"
        /\ status' = [status EXCEPT ![c] = "PENDING"]
        /\ lease' = [lease EXCEPT ![c] = "LIVE"]
        /\ owner' = [owner EXCEPT ![c] = s]
        /\ spc' = [spc EXCEPT ![s] = "look"]
        /\ scheck' = [scheck EXCEPT ![s] = c]
        /\ UNCHANGED <<monitorVars, target, checkVersion, result, job, workerVars>>
    BY <1>2 DEF ClaimForDispatch, Dispatchable, ActiveStatus
  <2>2. \A w \in Workers : wpc[w] = "running" /\ wfresh[w] => wcheck[w] # c
    BY <2>1 DEF DecidedStatus, ActiveStatus
  <2>3. References'
    BY <2>1 DEF workerVars, ActiveStatus
  <2>4. OneActiveCheck' /\ ActiveCheckIsCurrent' /\ ResultWithCompletion'
    BY <2>1 DEF monitorVars, ActiveStatus, DecidedStatus
  <2>5. FreshHoldsLease' /\ LeaseExclusive' /\ IncidentMatchesHealth'
    BY <2>1, <2>2 DEF monitorVars, workerVars
  <2>6. QED BY <2>3, <2>4, <2>5
<1>3. ASSUME LookUpJob(s) \/ RemoveFinishedJob(s) \/ AddJob(s) PROVE Safe'
  <2>1. /\ spc[s] # "idle" /\ scheck[s] \in Checks
        /\ \E to \in {"add", "replace", "mark", "release"} : SchedGoes(s, to)
        /\ UNCHANGED job \/ \E j : job' = [job EXCEPT ![scheck[s]] = j]
        /\ UNCHANGED ledgerVars
    <3>1. CASE LookUpJob(s)
      <4> DEFINE to == CASE job[scheck[s]] = "absent" -> "add"
                         [] job[scheck[s]] = "done" -> "replace"
                         [] OTHER -> "mark"
      <4>1. SchedGoes(s, to) /\ spc[s] = "look" /\ UNCHANGED <<ledgerVars, job>>
        BY <3>1 DEF LookUpJob
      <4>2. to \in {"add", "replace", "mark", "release"}
        OBVIOUS
      <4> HIDE DEF to
      <4>3. QED BY <4>1, <4>2
    <3>2. CASE RemoveFinishedJob(s)
      <4>1. CASE job[scheck[s]] \in Workers
        BY <3>2, <4>1 DEF RemoveFinishedJob
      <4>2. CASE job[scheck[s]] \notin Workers
        <5>1. job' = [job EXCEPT ![scheck[s]] = "absent"] /\ SchedGoes(s, "add")
          BY <3>2, <4>2 DEF RemoveFinishedJob
        <5>2. spc[s] = "replace" /\ UNCHANGED ledgerVars
          BY <3>2 DEF RemoveFinishedJob
        <5>3. QED BY <5>1, <5>2
      <4>3. QED BY <4>1, <4>2
    <3>3. CASE AddJob(s)
      BY <3>3 DEF AddJob
    <3>4. QED BY <1>3, <3>1, <3>2, <3>3
  <2>2. QED BY <2>1 DEF SchedGoes, ledgerVars, monitorVars, workerVars
<1>4. CASE MarkEnqueued(s)
  <2> DEFINE c == scheck[s]
  <2>1. /\ c \in Checks
        /\ \A d \in Checks :
               status'[d] = IF d = c /\ HoldsClaim(s, c) THEN "ENQUEUED" ELSE status[d]
        /\ SchedGoes(s, "idle")
        /\ UNCHANGED <<target, checkVersion, lease, owner, result, job>>
    BY <1>4 DEF MarkEnqueued
  <2>2. QED BY <2>1 DEF SchedGoes, HoldsClaim, monitorVars, workerVars,
                        ActiveStatus, DecidedStatus
<1>5. CASE ReleaseDispatchClaim(s)
  <2> DEFINE c == scheck[s]
  <2>1. /\ c \in Checks
        /\ \A d \in Checks :
               /\ lease'[d] = IF d = c /\ HoldsClaim(s, c) THEN "NONE" ELSE lease[d]
               /\ owner'[d] = IF d = c /\ HoldsClaim(s, c) THEN NoOne ELSE owner[d]
        /\ SchedGoes(s, "idle")
        /\ UNCHANGED <<status, target, checkVersion, result, job>>
    BY <1>5 DEF ReleaseDispatchClaim
  <2>2. QED BY <2>1 DEF SchedGoes, HoldsClaim, monitorVars, workerVars,
                        ActiveStatus, DecidedStatus
<1>6. QED BY <1>1, <1>2, <1>3, <1>4, <1>5 DEF Dispatch

\* The effect applyCheckResult returns says how the health moved: OPEN when an
\* incident begins with this outcome, RESOLVE when it ends with it.
LEMMA EffectMatchesHealth ==
    ASSUME NEW h \in HealthRecords, NEW o
    PROVE  /\ EffectOf(h, o) = "OPEN"
                  <=> ~InIncident(h) /\ InIncident(ApplyOutcome(h, o))
           /\ EffectOf(h, o) = "RESOLVE"
                  <=> InIncident(h) /\ ~InIncident(ApplyOutcome(h, o))
<1>1. CASE o = "SUCCESS"
  <2>1. ApplyOutcome(h, o).state =
            IF InIncident(h) /\ ~Recovers(h) THEN "RECOVERING" ELSE "UP"
    BY <1>1 DEF ApplyOutcome, AfterSuccess
  <2>2. InIncident(ApplyOutcome(h, o)) <=> InIncident(h) /\ ~Recovers(h)
    BY <2>1 DEF InIncident
  <2>3. Recovers(h) => InIncident(h)
    BY DEF Recovers
  <2>4. EffectOf(h, o) = IF Recovers(h) THEN "RESOLVE" ELSE "NONE"
    BY <1>1 DEF EffectOf
  <2>5. QED BY <2>2, <2>3, <2>4
<1>2. CASE o = "TARGET_FAILURE"
  <2>1. ApplyOutcome(h, o).state = IF EntersDown(h) THEN "DOWN" ELSE "SUSPECT"
    BY <1>2 DEF ApplyOutcome, AfterFailure
  <2>2. InIncident(ApplyOutcome(h, o)) <=> EntersDown(h)
    BY <2>1 DEF InIncident
  <2>3. InIncident(h) => EntersDown(h)
    BY DEF EntersDown
  <2>4. EffectOf(h, o) = IF InIncident(h) THEN "UPDATE"
                         ELSE IF EntersDown(h) THEN "OPEN" ELSE "NONE"
    BY <1>2 DEF EffectOf
  <2>5. QED BY <2>2, <2>3, <2>4
<1>3. CASE o \notin {"SUCCESS", "TARGET_FAILURE"}
  <2>1. ApplyOutcome(h, o) = h /\ EffectOf(h, o) = "NONE"
    BY <1>3 DEF ApplyOutcome, EffectOf
  <2>2. QED BY <2>1
<1>4. QED BY <1>1, <1>2, <1>3

\* A worker claims a row only when no other worker is inside its lease on it,
\* and persist answers the row, the health and the incident together.
LEMMA WorkerSafe ==
    ASSUME TypeOK, Safe, NEW w \in Workers, Process(w)
    PROVE  Safe'
<1> USE DEF TypeOK, Safe, References, OneActiveCheck, ActiveCheckIsCurrent,
            ResultWithCompletion, IncidentMatchesHealth, FreshHoldsLease, LeaseExclusive
<1>a. ASSUME EndJob(w), UNCHANGED <<monitorVars, ledgerVars>> PROVE Safe'
  <2>1. /\ UNCHANGED <<spc, scheck>>
        /\ \A v \in Workers : v # w => wpc'[v] = wpc[v] /\ wcheck'[v] = wcheck[v]
                                        /\ wfresh'[v] = wfresh[v]
        /\ wpc'[w] = "idle"
        /\ \A d \in Checks : job[d] = "absent" => job'[d] = "absent"
    BY <1>a, LedgerAssumption DEF EndJob, schedVars
  <2>2. References'
    BY <1>a, <2>1 DEF monitorVars, ledgerVars
  <2>3. OneActiveCheck' /\ ActiveCheckIsCurrent'
    BY <1>a DEF monitorVars, ledgerVars, CurrentCheck
  <2>4. ResultWithCompletion' /\ IncidentMatchesHealth'
    BY <1>a DEF monitorVars, ledgerVars
  <2>5. FreshHoldsLease' /\ LeaseExclusive'
    BY <1>a, <2>1 DEF monitorVars, ledgerVars
  <2>6. QED BY <2>2, <2>3, <2>4, <2>5
<1>1. ASSUME NEW c \in Checks, TakeJob(w, c) PROVE Safe'
  BY <1>1 DEF TakeJob, monitorVars, ledgerVars, schedVars, CurrentCheck
<1>2. CASE ReadCheck(w)
  <2>1. \/ EndJob(w)
        \/ wpc[w] = "reading" /\ WorkerGoes(w, "canceling")
        \/ wpc[w] = "reading" /\ WorkerGoes(w, "claiming")
    BY <1>2 DEF ReadCheck
  <2>2. UNCHANGED <<monitorVars, ledgerVars>>
    BY <1>2 DEF ReadCheck
  <2>3. QED BY <1>a, <2>1, <2>2 DEF WorkerGoes, monitorVars, ledgerVars, schedVars, CurrentCheck
<1>3. CASE CancelStale(w)
  <2> DEFINE c == wcheck[w]
             hit(d) == d = c /\ status[c] \in ActiveStatus
  <2>1. /\ c \in Checks
        /\ \A d \in Checks :
               /\ status'[d] = IF hit(d) THEN "CANCELED" ELSE status[d]
               /\ lease'[d] = IF hit(d) THEN "NONE" ELSE lease[d]
               /\ owner'[d] = IF hit(d) THEN NoOne ELSE owner[d]
        /\ UNCHANGED <<monitorVars, target, checkVersion, result>>
    BY <1>3 DEF CancelStale
  <2>2. /\ UNCHANGED <<spc, scheck>>
        /\ \A v \in Workers : v # w => wpc'[v] = wpc[v] /\ wcheck'[v] = wcheck[v]
                                        /\ wfresh'[v] = wfresh[v]
        /\ wpc'[w] = "idle"
        /\ \A d \in Checks : job[d] = "absent" => job'[d] = "absent"
    BY <1>3, LedgerAssumption DEF CancelStale, EndJob, schedVars
  <2>3. References'
    BY <2>1, <2>2 DEF ActiveStatus
  <2>4. OneActiveCheck' /\ ActiveCheckIsCurrent'
    BY <2>1 DEF ActiveStatus, CurrentCheck, monitorVars
  <2>5. ResultWithCompletion' /\ IncidentMatchesHealth'
    BY <2>1 DEF monitorVars, ActiveStatus, DecidedStatus
  <2>6. FreshHoldsLease' /\ LeaseExclusive'
    BY <2>1, <2>2 DEF DecidedStatus
  <2>7. QED BY <2>3, <2>4, <2>5, <2>6
<1>4. CASE ClaimCheck(w)
  <2> DEFINE c == wcheck[w]
  <2>1. CASE ~Claimable(c)
    <3>1. EndJob(w) /\ UNCHANGED <<monitorVars, ledgerVars>>
      BY <1>4, <2>1 DEF ClaimCheck, ledgerVars
    <3>2. QED BY <1>a, <3>1
  <2>2. CASE Claimable(c)
    <3>1. /\ c \in Checks /\ status[c] \in ActiveStatus
          /\ status[c] = "RUNNING" => lease[c] = "EXPIRED"
          /\ status' = [status EXCEPT ![c] = "RUNNING"]
          /\ owner' = [owner EXCEPT ![c] = w]
          /\ lease' = [lease EXCEPT ![c] = "LIVE"]
      BY <1>4, <2>2 DEF ClaimCheck, Claimable, ActiveStatus
    <3>2. /\ wpc' = [wpc EXCEPT ![w] = "running"]
          /\ wfresh' = [wfresh EXCEPT ![w] = TRUE]
          /\ UNCHANGED <<job, schedVars, wcheck, monitorVars, target, checkVersion, result>>
      BY <1>4, <2>2 DEF ClaimCheck
    <3>3. \A v \in Workers : wpc[v] = "running" /\ wfresh[v] => wcheck[v] # c
      BY <3>1 DEF ActiveStatus, DecidedStatus
    <3>4. References'
      BY <1>4, <3>1, <3>2 DEF ClaimCheck, schedVars, ActiveStatus
    <3>5. OneActiveCheck' /\ ActiveCheckIsCurrent' /\ ResultWithCompletion'
      BY <3>1, <3>2 DEF monitorVars, CurrentCheck, ActiveStatus, DecidedStatus
    <3>6. IncidentMatchesHealth'
      BY <3>2 DEF monitorVars
    <3>7. FreshHoldsLease' /\ LeaseExclusive'
      <4>1. \A v \in Workers : v # w => wpc'[v] = wpc[v] /\ wfresh'[v] = wfresh[v]
        BY <3>2
      <4>2. \A d \in Checks : d # c =>
                status'[d] = status[d] /\ owner'[d] = owner[d] /\ lease'[d] = lease[d]
        BY <3>1
      <4>3. status'[c] = "RUNNING" /\ owner'[c] = w /\ lease'[c] = "LIVE" /\ wcheck' = wcheck
        BY <3>1, <3>2
      <4>4. QED BY <3>3, <4>1, <4>2, <4>3
    <3>8. QED BY <3>4, <3>5, <3>6, <3>7
  <2>3. QED BY <2>1, <2>2
<1>6. CASE PersistDuplicate(w)
  BY <1>a, <1>6 DEF PersistDuplicate
<1>7. ASSUME NEW o \in Outcomes, PersistResult(w, o) PROVE Safe'
  <2> DEFINE c == wcheck[w]
             m == target[c]
             after == ApplyOutcome(health[m], o)
  <2>1. /\ c \in Checks /\ m \in Monitors /\ status[c] # "ABSENT"
        /\ health[m] \in HealthRecords /\ incident[m] \in Incidents
    BY <1>7 DEF PersistResult
  <2>2. /\ result[c] = "NONE"
        /\ \A d \in Checks : d # c => /\ result'[d] = result[d] /\ status'[d] = status[d]
                                      /\ lease'[d] = lease[d] /\ owner'[d] = owner[d]
        /\ result'[c] = o
        /\ status'[c] = IF status[c] = "CANCELED" THEN "CANCELED" ELSE "COMPLETED"
        /\ UNCHANGED <<lifecycle, version, nextCheck, target, checkVersion>>
    BY <1>7, <2>1 DEF PersistResult
  <2>3. \A n \in Monitors : n # m => health'[n] = health[n] /\ incident'[n] = incident[n]
    BY <1>7 DEF PersistResult
  <2>4. ASSUME ValidResult(c) PROVE IncidentMatchesHealth'
    <3>1. health'[m] = after /\ incident'[m] = IncidentAfter(m, EffectOf(health[m], o))
      BY <1>7, <2>1, <2>4 DEF PersistResult
    <3>2. lifecycle[m] = "ACTIVE"
      BY <2>4 DEF ValidResult, CurrentCheck
    <3>3. /\ incident'[m].state = "OPEN" <=> InIncident(after)
          /\ incident'[m].state = "OPEN" => incident'[m].version = version[m]
      BY <2>1, <3>1, EffectMatchesHealth DEF IncidentAfter
    <3>4. IncidentMatchesHealth'
      BY <2>2, <2>3, <3>1, <3>2, <3>3
    <3>5. QED BY <3>4
  <2>5. ASSUME ~ValidResult(c) PROVE IncidentMatchesHealth'
    <3>1. health'[m] = health[m] /\ incident'[m] = incident[m]
      BY <1>7, <2>1, <2>5 DEF PersistResult
    <3>2. QED BY <2>2, <2>3, <3>1
  <2>6. IncidentMatchesHealth'
    BY <2>4, <2>5
  <2>7. /\ UNCHANGED <<spc, scheck>>
        /\ \A v \in Workers : v # w => wpc'[v] = wpc[v] /\ wcheck'[v] = wcheck[v]
                                        /\ wfresh'[v] = wfresh[v]
        /\ wpc'[w] = "idle"
        /\ \A d \in Checks : job[d] = "absent" => job'[d] = "absent"
    BY <1>7, LedgerAssumption DEF PersistResult, EndJob, schedVars
  <2>8. References'
    BY <2>1, <2>2, <2>7
  <2>9. OneActiveCheck' /\ ActiveCheckIsCurrent'
    <3>1. OneActiveCheck'
      BY <2>2 DEF ActiveStatus
    <3>2. ActiveCheckIsCurrent'
      BY <2>2 DEF ActiveStatus, CurrentCheck
    <3>3. QED BY <3>1, <3>2
  <2>10. ResultWithCompletion'
    BY <2>1, <2>2 DEF DecidedStatus, Outcomes
  <2>11. FreshHoldsLease' /\ LeaseExclusive'
    BY <2>2, <2>7 DEF DecidedStatus
  <2>12. QED BY <2>6, <2>8, <2>9, <2>10, <2>11
<1>8. QED BY <1>1, <1>2, <1>3, <1>4, <1>6, <1>7 DEF Process, Persist

\* IInv is inductive.
LEMMA InductiveStep == IInv /\ [Next]_vars => IInv'
<1> SUFFICES ASSUME IInv, [Next]_vars PROVE IInv'
  OBVIOUS
<1>1. TypeOK /\ Safe
  BY DEF IInv, Safe
<1>2. ASSUME Next PROVE TypeOK' /\ Safe'
  <2>1. CASE ApiNext
    BY <1>1, <2>1, ApiType, ApiSafe
  <2>2. CASE ClockNext
    BY <1>1, <2>2, ClockType, ClockSafe
  <2>3. CASE \E s \in Schedulers :
                Dispatch(s) \/ \E m \in Monitors, c \in Checks : CreateDueCheck(s, m, c)
    BY <1>1, <2>3, SchedulerType, SchedulerSafe
  <2>4. CASE \E w \in Workers : Process(w)
    BY <1>1, <2>4, WorkerType, WorkerSafe DEF Safe
  <2>5. CASE QueueNext \/ FaultNext
    BY <1>1, <2>5, QueueAndFaultType, QueueAndFaultSafe
  <2>6. QED BY <1>2, <2>1, <2>2, <2>3, <2>4, <2>5 DEF Next
<1>3. CASE UNCHANGED vars
  BY <1>3 DEF vars, IInv, TypeOK, References, OneActiveCheck, ActiveCheckIsCurrent,
              CurrentCheck, ResultWithCompletion, IncidentMatchesHealth, FreshHoldsLease,
              LeaseExclusive, monitorVars, ledgerVars, schedVars, workerVars
<1>4. QED BY <1>2, <1>3 DEF IInv, Safe

\* The invariant of the whole pipeline: types, references, the ledger's
\* uniqueness and currency, and the leases hold in every reachable state.
THEOREM Invariance == Spec => []IInv
<1>1. Init => IInv
  BY InitType, InitSafe DEF IInv, Safe
<1>2. QED BY <1>1, InductiveStep, PTL DEF Spec

\* Each part of the invariant on its own: the statements the runs check.

\* Type correctness of tables, queue and processes.
THEOREM TypeCorrect == Spec => []TypeOK
<1>1. IInv => TypeOK
  BY DEF IInv
<1>2. QED BY <1>1, Invariance, PTL

\* A monitor never has two active rows (createDueChecks under the row lock,
\* apps/scheduler/src/store.ts).
THEOREM UniqueActiveCheck == Spec => []OneActiveCheck
<1>1. IInv => OneActiveCheck
  BY DEF IInv
<1>2. QED BY <1>1, Invariance, PTL

\* An active row is for the configuration and lifecycle the monitor has now
\* (cancelRuntime, apps/api/src/monitors/monitors.service.ts).
THEOREM ActiveRowsAreCurrent == Spec => []ActiveCheckIsCurrent
<1>1. IInv => ActiveCheckIsCurrent
  BY DEF IInv
<1>2. QED BY <1>1, Invariance, PTL

\* A row and its result are decided together (persist, check-processor.ts).
THEOREM ResultsMatchRows == Spec => []ResultWithCompletion
<1>1. IInv => ResultWithCompletion
  BY DEF IInv
<1>2. QED BY <1>1, Invariance, PTL

\* Health and incident never part (persist and cancelRuntime).
LEMMA IncidentFollows == Spec => []IncidentMatchesHealth
<1>1. IInv => IncidentMatchesHealth
  BY DEF IInv
<1>2. QED BY <1>1, Invariance, PTL

\* No two workers are inside their leases on one row (the claim of
\* check-processor.ts and claimForDispatch of store.ts).
THEOREM LeasesExclude == Spec => []LeaseExclusive
<1>1. IInv => LeaseExclusive
  BY DEF IInv
<1>2. QED BY <1>1, Invariance, PTL
-----------------------------------------------------------------------------
\* No step takes a row back from COMPLETED or CANCELED or overwrites a result.
LEMMA DecisionStep ==
    ASSUME IInv, [Next]_vars, NEW c \in Checks
    PROVE  /\ status[c] \in DecidedStatus => status'[c] = status[c]
           /\ result[c] # "NONE" => result'[c] = result[c]
<1> USE DEF IInv, TypeOK, DecidedStatus, ActiveStatus, ledgerVars
<1>1. CASE ApiNext
  BY <1>1 DEF ApiNext, CreateMonitor, PauseMonitor, ResumeMonitor, ReconfigureMonitor,
              RemoveMonitor, CancelRuntime, Cancelable, ActiveChecks
<1>2. CASE ClockNext \/ QueueNext \/ FaultNext
  BY <1>2 DEF ClockNext, CheckFallsDue, ExpireLease, QueueNext, SweepStalledJob,
              ForgetFinishedJob, FaultNext, LoseJob, DispatchCallFails, SchedulerCrash,
              WorkerCrash, WorkerThrows
<1>3. ASSUME NEW s \in Schedulers,
             Dispatch(s) \/ \E m \in Monitors, d \in Checks : CreateDueCheck(s, m, d)
      PROVE  /\ status[c] \in DecidedStatus => status'[c] = status[c]
             /\ result[c] # "NONE" => result'[c] = result[c]
  <2>1. CASE MarkEnqueued(s)
    BY <2>1 DEF MarkEnqueued, HoldsClaim
  <2>2. CASE ~MarkEnqueued(s)
    BY <1>3, <2>2 DEF Dispatch, CreateDueCheck, ClaimForDispatch, Dispatchable, LookUpJob,
                      RemoveFinishedJob, AddJob, ReleaseDispatchClaim
  <2>3. QED BY <2>1, <2>2
<1>4. ASSUME NEW w \in Workers, Process(w)
      PROVE  /\ status[c] \in DecidedStatus => status'[c] = status[c]
             /\ result[c] # "NONE" => result'[c] = result[c]
  <2>1. CASE CancelStale(w)
    BY <2>1 DEF CancelStale
  <2>2. CASE ClaimCheck(w)
    BY <2>2 DEF ClaimCheck, Claimable
  <2>3. ASSUME NEW o \in Outcomes, PersistResult(w, o)
        PROVE  /\ status[c] \in DecidedStatus => status'[c] = status[c]
               /\ result[c] # "NONE" => result'[c] = result[c]
    <3>1. /\ result[wcheck[w]] = "NONE"
          /\ c # wcheck[w] => status'[c] = status[c] /\ result'[c] = result[c]
          /\ c = wcheck[w] /\ status[c] = "CANCELED" => status'[c] = status[c]
          /\ c = wcheck[w] => status'[c] \in {status[c], "COMPLETED"}
      BY <2>3 DEF PersistResult
    <3>2. QED BY <3>1
  <2>4. QED BY <1>4, <2>1, <2>2, <2>3
            DEF Process, Persist, TakeJob, ReadCheck, PersistDuplicate
<1>5. CASE UNCHANGED vars
  BY <1>5 DEF vars
<1>6. QED BY <1>1, <1>2, <1>3, <1>4, <1>5 DEF Next

\* Decisions are final: the claim, the dispatch and persist never touch a
\* decided row again (PROJECT_PLAN.md:290).
THEOREM DecisionsFinal == Spec => DecisionsAreFinal
<1>1. IInv /\ [Next]_vars =>
          [\A c \in Checks :
              /\ status[c] \in DecidedStatus => status'[c] = status[c]
              /\ result[c] # "NONE" => result'[c] = result[c]]_vars
  BY DecisionStep
<1>2. QED BY <1>1, Invariance, PTL DEF Spec, DecisionsAreFinal
-----------------------------------------------------------------------------
(* The pipeline implements MonitorContract.                                 *)

\* Only an API transaction and a persisted result of an ACTIVE monitor write
\* health, so a monitor at rest keeps the health it was reset to.
LEMMA RestingStep ==
    ASSUME IInv, RestingHealth, [Next]_vars
    PROVE  RestingHealth'
<1> USE DEF IInv, TypeOK, RestingHealth, monitorVars
<1>1. CASE ApiNext
  BY <1>1 DEF ApiNext, CreateMonitor, PauseMonitor, ResumeMonitor, ReconfigureMonitor,
              RemoveMonitor, ResetHealth
<1>2. CASE ClockNext \/ QueueNext \/ FaultNext
  BY <1>2 DEF ClockNext, CheckFallsDue, ExpireLease, QueueNext, SweepStalledJob,
              ForgetFinishedJob, FaultNext, LoseJob, DispatchCallFails, SchedulerCrash,
              SchedGoes, WorkerCrash, WorkerThrows
<1>3. CASE \E s \in Schedulers :
              Dispatch(s) \/ \E m \in Monitors, c \in Checks : CreateDueCheck(s, m, c)
  BY <1>3 DEF Dispatch, CreateDueCheck, ClaimForDispatch, LookUpJob, RemoveFinishedJob,
              AddJob, MarkEnqueued, ReleaseDispatchClaim, SchedGoes
<1>4. ASSUME NEW w \in Workers, Process(w) PROVE RestingHealth'
  <2>1. ASSUME NEW o \in Outcomes, PersistResult(w, o) PROVE RestingHealth'
    <3>1. lifecycle' = lifecycle
          /\ \A m \in Monitors : health'[m] # health[m] => lifecycle[m] = "ACTIVE"
      BY <2>1 DEF PersistResult, ValidResult, CurrentCheck
    <3>2. QED BY <3>1
  <2>2. QED BY <1>4, <2>1 DEF Process, Persist, TakeJob, ReadCheck, CancelStale, ClaimCheck,
                              PersistDuplicate
<1>5. CASE UNCHANGED vars
  BY <1>5 DEF vars
<1>6. QED BY <1>1, <1>2, <1>3, <1>4, <1>5 DEF Next

\* What the contract sees of a state: a step that keeps the monitors' rows and
\* which rows are active is a stutter.
LEMMA Unseen ==
    ASSUME UNCHANGED <<lifecycle, version, health, incident, target>>,
           \A c \in Checks : status'[c] \in ActiveStatus <=> status[c] \in ActiveStatus
    PROVE  UNCHANGED Contract!vars
<1>1. \A m \in Monitors : ActiveChecks(m)' = ActiveChecks(m)
  BY DEF ActiveChecks
<1>2. Outstanding' = Outstanding
  BY <1>1 DEF Outstanding
<1>3. QED BY <1>2 DEF Contract!vars

\* When exactly monitor m's active rows come or go, the outstanding flag of m
\* alone moves.
LEMMA OutstandingMoves ==
    ASSUME NEW m \in Monitors,
           \A n \in Monitors : n # m => ActiveChecks(n)' = ActiveChecks(n)
    PROVE  Outstanding' = [Outstanding EXCEPT ![m] = (ActiveChecks(m)' # {})]
BY DEF Outstanding

\* An API transaction is the administrative change of the contract.
LEMMA ApiImplements ==
    ASSUME IInv, RestingHealth, ApiNext
    PROVE  Contract!Next
<1> USE DEF IInv, TypeOK
<1>0. PICK m \in Monitors :
          \/ CreateMonitor(m) \/ PauseMonitor(m) \/ ResumeMonitor(m)
          \/ ReconfigureMonitor(m) \/ RemoveMonitor(m)
  BY DEF ApiNext
<1>1. ASSUME CreateMonitor(m) \/ ResumeMonitor(m)
      PROVE  Contract!Create(m) \/ Contract!Resume(m)
  <2>1. /\ health' = [health EXCEPT ![m] = PendingHealth]
        /\ health[m] = PendingHealth
    BY <1>1 DEF CreateMonitor, ResumeMonitor, ResetHealth, RestingHealth
  <2>2. health' = health
    BY <2>1
  <2>3. UNCHANGED <<incident, target, status>>
    BY <1>1 DEF CreateMonitor, ResumeMonitor, ledgerVars
  <2>4. Outstanding' = Outstanding
    BY <2>3 DEF Outstanding, ActiveChecks
  <2>5. QED BY <1>1, <2>2, <2>3, <2>4
            DEF CreateMonitor, ResumeMonitor, Contract!Create, Contract!Resume
<1>2. ASSUME NEW why, CancelRuntime(m, why), ResetHealth(m)
      PROVE  Contract!StartOver(m, why)
  <2>1. \A c \in Checks :
            /\ status'[c] = IF c \in ActiveChecks(m) THEN "CANCELED" ELSE status[c]
            /\ target'[c] = target[c]
    BY <1>2 DEF CancelRuntime, Cancelable
  <2>2. \A n \in Monitors : n # m => ActiveChecks(n)' = ActiveChecks(n)
    BY <2>1 DEF ActiveChecks, ActiveStatus
  <2>3. ActiveChecks(m)' = {}
    BY <2>1 DEF ActiveChecks, ActiveStatus
  <2>4. Outstanding' = [Outstanding EXCEPT ![m] = FALSE]
    BY <2>2, <2>3, OutstandingMoves
  <2>5. incident' = [incident EXCEPT ![m] =
            IF InIncident(health[m])
            THEN [state |-> "CANCELED", reason |-> why, version |-> version[m]]
            ELSE incident[m]]
    BY <1>2 DEF CancelRuntime, IncidentMatchesHealth
  <2>6. health' = [health EXCEPT ![m] = PendingHealth]
    BY <1>2 DEF ResetHealth
  <2>7. \A h : Contract!InIncident(h) <=> InIncident(h)
    BY DEF Contract!InIncident, InIncident
  <2>8. QED BY <2>4, <2>5, <2>6, <2>7
            DEF Contract!StartOver, Contract!PendingHealth, PendingHealth
<1>3. CASE PauseMonitor(m)
  BY <1>2, <1>3 DEF PauseMonitor, Contract!Pause, Contract!Next
<1>4. CASE ReconfigureMonitor(m)
  BY <1>2, <1>4 DEF ReconfigureMonitor, Contract!Reconfigure, Contract!Next
<1>5. CASE RemoveMonitor(m)
  BY <1>2, <1>5 DEF RemoveMonitor, Contract!Remove, Contract!Next
<1>6. QED BY <1>0, <1>1, <1>3, <1>4, <1>5 DEF Contract!Next

\* A created row is the contract's scheduled check; dispatching is unseen.
LEMMA SchedulerImplements ==
    ASSUME IInv, NEW s \in Schedulers,
           Dispatch(s) \/ \E m \in Monitors, c \in Checks : CreateDueCheck(s, m, c)
    PROVE  [Contract!Next]_Contract!vars
<1> USE DEF IInv, TypeOK, ActiveStatus, monitorVars, ledgerVars
<1>1. ASSUME NEW m \in Monitors, NEW c \in Checks, CreateDueCheck(s, m, c)
      PROVE  Contract!Schedule(m)
  <2>1. /\ status[c] = "ABSENT" /\ status' = [status EXCEPT ![c] = "PENDING"]
        /\ target' = [target EXCEPT ![c] = m]
        /\ lifecycle[m] = "ACTIVE" /\ ActiveChecks(m) = {}
        /\ UNCHANGED <<lifecycle, version, health, incident>>
    BY <1>1 DEF CreateDueCheck, DueForCheck
  <2>2. c \in ActiveChecks(m)'
    BY <2>1 DEF ActiveChecks
  <2>3. \A n \in Monitors : n # m => ActiveChecks(n)' = ActiveChecks(n)
    BY <2>1 DEF ActiveChecks
  <2>4. Outstanding' = [Outstanding EXCEPT ![m] = TRUE]
    BY <2>2, <2>3, OutstandingMoves
  <2>5. ~Outstanding[m]
    BY <2>1 DEF Outstanding
  <2>6. QED BY <2>1, <2>4, <2>5 DEF Contract!Schedule
<1>2. ASSUME NEW c \in Checks, ClaimForDispatch(s, c) PROVE UNCHANGED Contract!vars
  BY <1>2, Unseen DEF ClaimForDispatch, Dispatchable
<1>3. CASE LookUpJob(s) \/ RemoveFinishedJob(s) \/ AddJob(s) \/ ReleaseDispatchClaim(s)
  BY <1>3, Unseen DEF LookUpJob, RemoveFinishedJob, AddJob, ReleaseDispatchClaim, SchedGoes
<1>4. CASE MarkEnqueued(s)
  <2>1. UNCHANGED <<lifecycle, version, health, incident, target>>
    BY <1>4 DEF MarkEnqueued, SchedGoes
  <2>2. \A c \in Checks : 
            \/ status'[c] = status[c]
            \/ status[c] = "PENDING" /\ status'[c] = "ENQUEUED"
    BY <1>4 DEF MarkEnqueued, HoldsClaim
  <2>3. QED BY <2>1, <2>2, Unseen
<1>5. QED BY <1>1, <1>2, <1>3, <1>4 DEF Dispatch, Contract!Next

\* A worker's only visible step is the answer of the outstanding check: a
\* result, or the cancelation by id, which the contract sees as an answer that
\* says nothing of the target.
LEMMA WorkerImplements ==
    ASSUME IInv, NEW w \in Workers, Process(w)
    PROVE  [Contract!Next]_Contract!vars
<1> USE DEF IInv, TypeOK, monitorVars, ledgerVars
<1>a. ASSUME NEW c \in Checks, NEW m \in Monitors, target[c] = m,
             status[c] \in ActiveStatus, target' = target,
             \A d \in Checks : d # c => status'[d] = status[d],
             status'[c] \notin ActiveStatus
      PROVE  /\ Outstanding[m] /\ lifecycle[m] = "ACTIVE"
             /\ Outstanding' = [Outstanding EXCEPT ![m] = FALSE]
  <2>1. c \in ActiveChecks(m) /\ CurrentCheck(c)
    BY <1>a DEF ActiveChecks, ActiveCheckIsCurrent
  <2>2. ActiveChecks(m) = {c}
    BY <2>1 DEF ActiveChecks, OneActiveCheck
  <2>3. ActiveChecks(m)' = {}
    BY <1>a, <2>2 DEF ActiveChecks
  <2>4. \A n \in Monitors : n # m => ActiveChecks(n)' = ActiveChecks(n)
    BY <1>a DEF ActiveChecks
  <2>5. Outstanding[m] /\ lifecycle[m] = "ACTIVE"
    BY <1>a, <2>1 DEF CurrentCheck, Outstanding
  <2>6. QED BY <2>3, <2>4, <2>5, OutstandingMoves
<1> DEFINE c == wcheck[w]
           m == target[c]
<1>1. ASSUME NEW d \in Checks, TakeJob(w, d) PROVE UNCHANGED Contract!vars
  BY <1>1, Unseen DEF TakeJob
<1>2. CASE ReadCheck(w) \/ PersistDuplicate(w)
  BY <1>2, Unseen DEF ReadCheck, PersistDuplicate
<1>3. CASE CancelStale(w)
  <2>1. /\ UNCHANGED <<lifecycle, version, health, incident, target>>
        /\ c \in Checks /\ status[c] # "ABSENT"
        /\ \A d \in Checks : status'[d] =
               IF d = c /\ status[c] \in ActiveStatus THEN "CANCELED" ELSE status[d]
    BY <1>3 DEF CancelStale, References
  <2>2. CASE status[c] \notin ActiveStatus
    BY <2>1, <2>2, Unseen
  <2>3. CASE status[c] \in ActiveStatus
    <3>1. m \in Monitors
      BY <2>1 DEF References
    <3>2. /\ Outstanding[m] /\ lifecycle[m] = "ACTIVE"
          /\ Outstanding' = [Outstanding EXCEPT ![m] = FALSE]
      BY <1>a, <2>1, <2>3, <3>1 DEF ActiveStatus
    <3>3. Contract!ApplyOutcome(health[m], "NON_TARGET") = health[m]
      BY DEF Contract!ApplyOutcome
    <3>4. Contract!Decide(m, "NON_TARGET")
      BY <2>1, <3>1, <3>2, <3>3 DEF Contract!Decide
    <3>5. QED BY <3>1, <3>4 DEF Contract!Next, Contract!Outcomes
  <2>4. QED BY <2>2, <2>3
<1>4. CASE ClaimCheck(w)
  <2>1. UNCHANGED <<lifecycle, version, health, incident, target>>
    BY <1>4 DEF ClaimCheck
  <2>2. \A d \in Checks : 
            \/ status'[d] = status[d]
            \/ status[d] \in ActiveStatus /\ status'[d] = "RUNNING"
    BY <1>4 DEF ClaimCheck, Claimable, ActiveStatus
  <2>3. QED BY <2>1, <2>2, Unseen DEF ActiveStatus
<1>5. ASSUME NEW o \in Outcomes, PersistResult(w, o)
      PROVE  [Contract!Next]_Contract!vars
  <2>1. /\ c \in Checks /\ m \in Monitors /\ status[c] # "ABSENT" /\ result[c] = "NONE"
        /\ UNCHANGED <<lifecycle, version, target>>
        /\ status' = [status EXCEPT ![c] =
               IF status[c] = "CANCELED" THEN "CANCELED" ELSE "COMPLETED"]
    BY <1>5 DEF PersistResult, References
  <2>2. CASE ~ValidResult(c)
    <3>1. status[c] \notin ActiveStatus
      BY <2>1, <2>2 DEF ValidResult, ActiveCheckIsCurrent
    <3>2. status[c] = "CANCELED"
      BY <2>1, <3>1 DEF CheckStatuses, DecidedStatus, ResultWithCompletion
    <3>3. health' = health /\ incident' = incident
      BY <1>5, <2>2 DEF PersistResult
    <3>4. QED BY <2>1, <3>2, <3>3, Unseen
  <2>3. CASE ValidResult(c)
    <3>1. /\ Outstanding[m] /\ lifecycle[m] = "ACTIVE"
          /\ Outstanding' = [Outstanding EXCEPT ![m] = FALSE]
      BY <1>a, <2>1, <2>3 DEF ValidResult, ActiveStatus
    <3>2. /\ health' = [health EXCEPT ![m] = ApplyOutcome(health[m], o)]
          /\ incident' = [incident EXCEPT ![m] = IncidentAfter(m, EffectOf(health[m], o))]
      BY <1>5, <2>3 DEF PersistResult
    <3>3. /\ \A h : Contract!InIncident(h) <=> InIncident(h)
          /\ Contract!ApplyOutcome(health[m], o) = ApplyOutcome(health[m], o)
      BY DEF Contract!InIncident, InIncident, Contract!ApplyOutcome, ApplyOutcome,
             Contract!AfterSuccess, AfterSuccess, Contract!AfterFailure, AfterFailure,
             Contract!Recovers, Recovers, Contract!EntersDown, EntersDown
    <3> DEFINE before == InIncident(health[m])
               after  == InIncident(ApplyOutcome(health[m], o))
    <3>4. IncidentAfter(m, EffectOf(health[m], o)) =
              CASE after /\ ~before ->
                       [state |-> "OPEN", reason |-> "NONE", version |-> version[m]]
                [] before /\ ~after ->
                       [state |-> "RESOLVED", reason |-> "RECOVERED", version |-> version[m]]
                [] OTHER -> incident[m]
      <4>1. health[m] \in HealthRecords
        BY <2>1
      <4>2. /\ EffectOf(health[m], o) = "OPEN" <=> after /\ ~before
            /\ EffectOf(health[m], o) = "RESOLVE" <=> before /\ ~after
        BY <4>1, EffectMatchesHealth
      <4>3. /\ incident[m].state = "OPEN" <=> before
            /\ incident[m].state = "OPEN" => incident[m].version = version[m]
        BY <2>1 DEF IncidentMatchesHealth
      <4> HIDE DEF before, after
      <4>4. QED BY <4>2, <4>3 DEF IncidentAfter
    <3>5. Contract!Decide(m, o)
      BY <2>1, <3>1, <3>2, <3>3, <3>4 DEF Contract!Decide
    <3>6. QED BY <2>1, <3>5 DEF Contract!Next, Contract!Outcomes, Outcomes
  <2>4. QED BY <2>2, <2>3
<1>6. QED BY <1>1, <1>2, <1>3, <1>4, <1>5 DEF Process, Persist

\* The pipeline implements the contract: every reachable step is one answered
\* check, one administrative change, or nothing the monitor's row shows
\* (PROJECT_PLAN.md:290-291).
THEOREM PipelineImplementsContract == Spec => ImplementsContract
<1>1. Init => Contract!Init /\ RestingHealth
  <2> SUFFICES ASSUME Init PROVE Contract!Init /\ RestingHealth
    OBVIOUS
  <2>1. \A m \in Monitors : ActiveChecks(m) = {}
    BY DEF Init, ActiveChecks, ActiveStatus
  <2>2. Outstanding = [m \in Monitors |-> FALSE]
    BY <2>1 DEF Outstanding
  <2>3. QED BY <2>2 DEF Init, Contract!Init, NoIncident, Contract!PendingHealth,
                        PendingHealth, RestingHealth
<1>2. IInv /\ RestingHealth /\ [Next]_vars => RestingHealth'
  BY RestingStep
<1>3. IInv /\ RestingHealth /\ [Next]_vars => [Contract!Next]_Contract!vars
  <2> SUFFICES ASSUME IInv, RestingHealth, [Next]_vars
               PROVE  [Contract!Next]_Contract!vars
    OBVIOUS
  <2>1. CASE ApiNext
    BY <2>1, ApiImplements
  <2>2. CASE ClockNext \/ QueueNext \/ FaultNext
    BY <2>2, Unseen
       DEF ClockNext, CheckFallsDue, ExpireLease, QueueNext, SweepStalledJob,
           ForgetFinishedJob, FaultNext, LoseJob, DispatchCallFails, SchedulerCrash,
           SchedGoes, WorkerCrash, WorkerThrows, monitorVars, ledgerVars
  <2>3. CASE \E s \in Schedulers :
                Dispatch(s) \/ \E m \in Monitors, c \in Checks : CreateDueCheck(s, m, c)
    BY <2>3, SchedulerImplements
  <2>4. CASE \E w \in Workers : Process(w)
    BY <2>4, WorkerImplements
  <2>5. CASE UNCHANGED vars
    BY <2>5, Unseen DEF vars, monitorVars, ledgerVars
  <2>6. QED BY <2>1, <2>2, <2>3, <2>4, <2>5 DEF Next
<1>4. QED BY <1>1, <1>2, <1>3, Invariance, PTL DEF Spec, ImplementsContract, Contract!Spec

\* While a monitor is paused or deleted its health stays at PENDING with zero
\* counters: no late result of a canceled check writes into it, because
\* persistResult asks for an active row of an ACTIVE monitor
\* (check-processor.ts:522-529) and pause, resume and delete reset the health.
LEMMA RestsPending == Spec => []RestingHealth
<1>1. Init => RestingHealth
  BY DEF Init, RestingHealth
<1>2. IInv /\ RestingHealth /\ [Next]_vars => RestingHealth'
  BY RestingStep
<1>3. QED BY <1>1, <1>2, Invariance, PTL DEF Spec

\* Health, lifecycle and incident of a monitor agree for any numbers of monitors,
\* checks, schedulers and workers and for all thresholds (persist and cancelRuntime).
THEOREM HealthAndIncidentAgree == Spec => []HealthAgrees
<1>1. IncidentMatchesHealth /\ RestingHealth => HealthAgrees
  BY DEF HealthAgrees
<1>2. QED BY <1>1, IncidentFollows, RestsPending, PTL
=============================================================================
