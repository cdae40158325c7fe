------------------------ MODULE CheckLedgerRefinement ------------------------
(***************************************************************************)
(* The pipeline of CheckLedger implements MonitorContract: the outstanding *)
(* check of a monitor is its row in PENDING, ENQUEUED or RUNNING.          *)
(***************************************************************************)
EXTENDS CheckLedger

Outstanding == [m \in Monitors |-> ActiveChecks(m) # {}]

Contract == INSTANCE MonitorContract WITH outstanding <- Outstanding

\* Queue, leases, crashes, redelivery, duplicate and late workers are invisible
\* in a monitor's row and incident: every change of them is one answered check
\* or one administrative change (PROJECT_PLAN.md:290-291).
ImplementsContract == Contract!Spec

\* A monitor that is not ACTIVE rests: its health is PENDING with empty streaks.
\* The refinement needs it where create and resume write that value again.
RestingHealth == \A m \in Monitors : lifecycle[m] # "ACTIVE" => health[m] = PendingHealth

\* A monitor's health, its lifecycle and its incident agree in every state: no
\* result that arrives late, twice or for a canceled check, and no administrative
\* change, leaves one of the three behind (check-processor.ts:522-625).
HealthAgrees == IncidentMatchesHealth /\ RestingHealth
=============================================================================
