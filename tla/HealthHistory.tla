---------------------------- MODULE HealthHistory ----------------------------
(***************************************************************************)
(* The state machine of HealthMachine driven by every sequence of results  *)
(* and administrative resets, next to the history of target outcomes since *)
(* the last reset.  The reference definitions read the health off that     *)
(* history alone, with no counter: the properties compare the two.         *)
(***************************************************************************)
EXTENDS HealthMachine, Sequences

CONSTANT MaxHistory   \* bound on the length of the history TLC explores

VARIABLES health,     \* the record the state machine keeps
          incident,   \* TRUE while its effects have an incident open
          history     \* target outcomes since the last reset

vars == <<health, incident, history>>

Init ==
    /\ health = PendingHealth
    /\ incident = FALSE
    /\ history = <<>>

\* One result of the active configuration is applied.
Apply(outcome) ==
    /\ Len(history) < MaxHistory
    /\ health' = ApplyOutcome(health, outcome)
    /\ incident' = CASE EffectOf(health, outcome) = "OPEN"    -> TRUE
                     [] EffectOf(health, outcome) = "RESOLVE" -> FALSE
                     [] OTHER                                 -> incident
    /\ history' = IF IsTargetOutcome(outcome)
                  THEN Append(history, outcome)
                  ELSE history

\* transitionLifecycle and resetForConfigChange: back to PENDING, and an open
\* incident is canceled with the change.
Reset ==
    /\ health' = PendingHealth
    /\ incident' = FALSE
    /\ history' = <<>>

Next == (\E outcome \in Outcomes : Apply(outcome)) \/ Reset

Spec == Init /\ [][Next]_vars
-----------------------------------------------------------------------------
\* The last n results before position i (included) all equal o.
RunEndsAt(n, o, i) ==
    /\ i >= n
    /\ \A k \in (i - n + 1)..i : history[k] = o

\* Where the last full run ends, 0 when there is none.
LastRun(n, o) ==
    LET ends == {i \in 1..Len(history) : RunEndsAt(n, o, i)}
    IN  IF ends = {} THEN 0 ELSE CHOOSE i \in ends : \A j \in ends : i >= j

LastFailureRun  == LastRun(FailureThreshold, "TARGET_FAILURE")
LastRecoveryRun == LastRun(RecoveryThreshold, "SUCCESS")

\* An incident is open exactly when the last full run of failures is more
\* recent than the last full run of successes.
IncidentByHistory == LastFailureRun > LastRecoveryRun

HealthByHistory ==
    CASE history = <<>>     -> "PENDING"
      [] IncidentByHistory  -> IF history[Len(history)] = "SUCCESS"
                               THEN "RECOVERING" ELSE "DOWN"
      [] OTHER              -> IF history[Len(history)] = "SUCCESS"
                               THEN "UP" ELSE "SUSPECT"
-----------------------------------------------------------------------------
\* The health the counters of applyCheckResult arrive at is the one the whole
\* history calls for: PENDING, UP, SUSPECT, DOWN and RECOVERING are each
\* decided by where the last full failure run and recovery run ended, and a
\* streak ends the other one.
HealthMatchesHistory ==
    /\ health \in HealthRecords
    /\ health.state = HealthByHistory
    /\ health.failures = 0 \/ health.successes = 0

\* The OPEN and RESOLVE effects alternate: the incident they keep is open
\* exactly while the history has an unanswered failure run.
EffectsMatchHistory == incident = IncidentByHistory
=============================================================================
