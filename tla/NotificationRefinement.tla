------------------------ MODULE NotificationRefinement ------------------------
(***************************************************************************)
(* The outbox implements NotificationContract: an event is open while its  *)
(* row is in one of the statuses that wait, withheld when it was canceled  *)
(* for a DOWN that was not delivered, and tried once it has an attempt.    *)
(***************************************************************************)
EXTENDS NotificationOutbox

EventState(r) ==
    CASE r.status = "ABSENT" -> "NONE"
      [] r.status \in OpenStatus -> "OPEN"
      [] r.status = "CANCELED" /\ r.withheld -> "WITHHELD"
      [] OTHER -> r.status

EventKinds  == [e \in Events |-> row[e].kind]
EventStates == [e \in Events |-> EventState(row[e])]
Tried       == {e \in Events : row[e].attempts > 0}

Contract == INSTANCE NotificationContract
    WITH kind <- EventKinds, state <- EventStates, tried <- Tried

\* Leases, jobs, lost and repeated attempts, crashes and the dispatchers' and
\* the resolution's unlocked reads are invisible to the reader of the channel:
\* every step moves the events as the contract allows (PROJECT_PLAN.md:373-385).
ImplementsContract == Contract!Spec

\* What the mapping needs to know of the detail, beside IInv: only a RECOVERY
\* that no longer waits is marked withheld, a row in PROCESSING was attempted, a
\* RECOVERY is created only beside a DOWN, and a dispatcher about to withhold a
\* row has a RECOVERY whose DOWN is settled.
RefinementInv ==
    /\ \A e \in Events :
           /\ row[e].status \in OpenStatus => ~row[e].withheld
           /\ row[e].withheld => row[e].kind = "RECOVERY"
           /\ row[e].status = "PROCESSING" => row[e].attempts > 0
    /\ row[2].kind = "RECOVERY" => row[1].status # "ABSENT"
    /\ persist.pc = "resolving" /\ persist.down.status # "ABSENT" =>
           row[1].status # "ABSENT"
    /\ \A d \in Dispatchers :
           /\ dpc[d] \in {"order", "defer", "withhold", "withholdKept"} =>
                  devent[d] = 2 /\ row[2].kind = "RECOVERY"
           /\ dpc[d] \in {"withhold", "withholdKept"} =>
                  row[1].status \in Terminal
=============================================================================
