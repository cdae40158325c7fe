------------------------ MODULE MCNotificationOutbox ------------------------
(* NotificationOutbox for TLC: interchangeable processors and dispatchers. *)
EXTENDS NotificationRefinement, TLC

CONSTANTS d1, d2, p1, p2

Symmetry == Permutations(Processors) \cup Permutations(Dispatchers)

\* Two dispatchers work side by side until a fault strikes, and in turns after it.
InTurnsAfterFault ==
    faults > 0 => \A d, e \in Dispatchers : d # e => "idle" \in {dpc[d], dpc[e]}

SpecInTurns == Init /\ [][Next /\ InTurnsAfterFault']_vars
=============================================================================
