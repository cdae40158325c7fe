--------------------------- MODULE MonitorContract ---------------------------
(***************************************************************************)
(* What the check pipeline promises about one monitor's row and incident,  *)
(* with no queue, lease, worker or ledger in sight: at most one check is   *)
(* outstanding, only an outstanding check moves the health, each moves it  *)
(* once, and an administrative change answers the outstanding check        *)
(* together with the incident.  The incident is described by how the       *)
(* health moves, not by the effects applyCheckResult returns.              *)
(***************************************************************************)
EXTENDS HealthMachine

CONSTANT Monitors

VARIABLES lifecycle, version, health, incident,
          outstanding   \* [Monitors -> BOOLEAN]: a check is being worked on

vars == <<lifecycle, version, health, incident, outstanding>>

Init ==
    /\ lifecycle = [m \in Monitors |-> "NEW"]
    /\ version = [m \in Monitors |-> 0]
    /\ health = [m \in Monitors |-> PendingHealth]
    /\ incident = [m \in Monitors |-> [state |-> "NONE", reason |-> "NONE", version |-> 0]]
    /\ outstanding = [m \in Monitors |-> FALSE]

Create(m) ==
    /\ lifecycle[m] = "NEW"
    /\ lifecycle' = [lifecycle EXCEPT ![m] = "ACTIVE"]
    /\ version' = [version EXCEPT ![m] = 1]
    /\ UNCHANGED <<health, incident, outstanding>>

\* Health starts over; an incident under way is canceled for the reason given,
\* and no check is outstanding afterwards.
StartOver(m, why) ==
    /\ health' = [health EXCEPT ![m] = PendingHealth]
    /\ incident' = [incident EXCEPT ![m] =
           IF InIncident(health[m])
           THEN [state |-> "CANCELED", reason |-> why, version |-> version[m]] ELSE @]
    /\ outstanding' = [outstanding EXCEPT ![m] = FALSE]

Pause(m) ==
    /\ lifecycle[m] = "ACTIVE"
    /\ lifecycle' = [lifecycle EXCEPT ![m] = "PAUSED"]
    /\ StartOver(m, "PAUSED")
    /\ UNCHANGED version

Resume(m) ==
    /\ lifecycle[m] = "PAUSED"
    /\ lifecycle' = [lifecycle EXCEPT ![m] = "ACTIVE"]
    /\ UNCHANGED <<version, health, incident, outstanding>>

Reconfigure(m) ==
    /\ lifecycle[m] \in {"ACTIVE", "PAUSED"}
    /\ version' = [version EXCEPT ![m] = @ + 1]
    /\ StartOver(m, "CONFIG_CHANGED")
    /\ UNCHANGED lifecycle

Remove(m) ==
    /\ lifecycle[m] \in {"ACTIVE", "PAUSED"}
    /\ lifecycle' = [lifecycle EXCEPT ![m] = "DELETED"]
    /\ StartOver(m, "DELETED")
    /\ UNCHANGED version

Schedule(m) ==
    /\ lifecycle[m] = "ACTIVE"
    /\ ~outstanding[m]
    /\ outstanding' = [outstanding EXCEPT ![m] = TRUE]
    /\ UNCHANGED <<lifecycle, version, health, incident>>

\* The outstanding check is answered, and with it the health moves once.
Decide(m, outcome) ==
    LET before == InIncident(health[m])
        after  == InIncident(ApplyOutcome(health[m], outcome))
    IN  /\ lifecycle[m] = "ACTIVE"
        /\ outstanding[m]
        /\ outstanding' = [outstanding EXCEPT ![m] = FALSE]
        /\ health' = [health EXCEPT ![m] = ApplyOutcome(@, outcome)]
        /\ incident' = [incident EXCEPT ![m] =
               CASE after /\ ~before ->
                        [state |-> "OPEN", reason |-> "NONE", version |-> version[m]]
                 [] before /\ ~after ->
                        [state |-> "RESOLVED", reason |-> "RECOVERED", version |-> version[m]]
                 [] OTHER -> @]
        /\ UNCHANGED <<lifecycle, version>>

Next ==
    \E m \in Monitors :
        \/ Create(m) \/ Pause(m) \/ Resume(m) \/ Reconfigure(m) \/ Remove(m)
        \/ Schedule(m)
        \/ \E outcome \in Outcomes : Decide(m, outcome)

Spec == Init /\ [][Next]_vars
=============================================================================
