---------------------------- MODULE HealthMachine ----------------------------
(***************************************************************************)
(* The pure health-state rules of packages/domain/src/state-machine.ts.    *)
(* A monitor's health is a record of the derived state and the two streak  *)
(* counters; the timestamps and error types of a streak are left out.      *)
(* Operators only: the modules that store a monitor call them the way      *)
(* check-processor.ts calls applyCheckResult.                              *)
(***************************************************************************)
EXTENDS Naturals

CONSTANTS FailureThreshold,   \* failures in a row that open an incident
          RecoveryThreshold   \* successes in a row that resolve it

ASSUME ThresholdAssumption ==
    /\ FailureThreshold \in Nat \ {0}
    /\ RecoveryThreshold \in Nat \ {0}

HealthStates == {"PENDING", "UP", "SUSPECT", "DOWN", "RECOVERING"}

\* BLOCKED, PLATFORM_ERROR and INCONCLUSIVE all fall in one branch of the code.
Outcomes == {"SUCCESS", "TARGET_FAILURE", "NON_TARGET"}

Effects == {"NONE", "OPEN", "UPDATE", "RESOLVE"}

HealthRecords ==
    [state : HealthStates, failures : Nat, successes : Nat]

\* What a new, resumed, paused, deleted or reconfigured monitor starts from.
PendingHealth == [state |-> "PENDING", failures |-> 0, successes |-> 0]

\* `alreadyIncident' and `isRecoveringFromIncident': the two name one test.
InIncident(h) == h.state \in {"DOWN", "RECOVERING"}

\* An outcome that says something about the target; the others are ignored.
IsTargetOutcome(outcome) == outcome \in {"SUCCESS", "TARGET_FAILURE"}

Recovers(h) == InIncident(h) /\ h.successes + 1 >= RecoveryThreshold

AfterSuccessDecayed(h) ==            \* mutated: the failure streak only decays
    [state     |-> IF InIncident(h) /\ ~Recovers(h) THEN "RECOVERING" ELSE "UP",
     failures  |-> IF h.failures = 0 THEN 0 ELSE h.failures - 1,
     successes |-> h.successes + 1]
AfterSuccess(h) ==
    [state     |-> IF InIncident(h) /\ ~Recovers(h) THEN "RECOVERING" ELSE "UP",
     failures  |-> 0,
     successes |-> h.successes + 1]

EntersDown(h) == InIncident(h) \/ h.failures + 1 >= FailureThreshold

AfterFailure(h) ==
    [state     |-> IF EntersDown(h) THEN "DOWN" ELSE "SUSPECT",
     failures  |-> h.failures + 1,
     successes |-> 0]

\* The health part of applyCheckResult, for a result that passed its guards.
ApplyOutcome(h, outcome) ==
    CASE outcome = "SUCCESS"        -> AfterSuccess(h)
      [] outcome = "TARGET_FAILURE" -> AfterFailure(h)
      [] OTHER                      -> h

EffectAtFirstSuccess(h, outcome) ==          \* mutated: threshold not awaited
    CASE outcome = "SUCCESS" /\ InIncident(h)           -> "RESOLVE"
      [] outcome = "TARGET_FAILURE" /\ InIncident(h)    -> "UPDATE"
      [] outcome = "TARGET_FAILURE" /\ ~InIncident(h) /\ EntersDown(h) -> "OPEN"
      [] OTHER                                          -> "NONE"
\* The incident effect that goes with it.
EffectOf(h, outcome) ==
    CASE outcome = "SUCCESS" /\ Recovers(h)             -> "RESOLVE"
      [] outcome = "TARGET_FAILURE" /\ InIncident(h)    -> "UPDATE"
      [] outcome = "TARGET_FAILURE" /\ ~InIncident(h) /\ EntersDown(h) -> "OPEN"
      [] OTHER                                          -> "NONE"
=============================================================================
