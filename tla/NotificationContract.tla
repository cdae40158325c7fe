------------------------- MODULE NotificationContract -------------------------
(***************************************************************************)
(* What the outbox promises the reader of one channel about one incident,  *)
(* with no queue, lease, attempt, worker or unlocked read in sight: which  *)
(* events exist, which messages were taken by the provider, and how an     *)
(* event ends.  Event 1 is DOWN, event 2 what follows the incident's end.  *)
(* Administration appears by what it does to the events.                   *)
(***************************************************************************)

VARIABLES incident,   \* "NONE", "OPEN", "RESOLVED", "CANCELED"
          kind,       \* [Events -> "NONE", "DOWN", "RECOVERY", "RESOLVED_SUMMARY"]
          state,      \* [Events -> "NONE", "OPEN", "SENT", "FAILED", "CANCELED", "WITHHELD"]
          tried,      \* events that were attempted
          accepted    \* events of which the provider has taken a message

vars == <<incident, kind, state, tried, accepted>>

Events == {1, 2}

Init ==
    /\ incident = "NONE"
    /\ kind = [e \in Events |-> "NONE"]
    /\ state = [e \in Events |-> "NONE"]
    /\ tried = {}
    /\ accepted = {}

Queue(e, k) ==
    /\ kind' = [kind EXCEPT ![e] = k]
    /\ state' = [state EXCEPT ![e] = "OPEN"]

OpenIncident ==
    /\ incident = "NONE"
    /\ incident' = "OPEN"
    /\ \/ Queue(1, "DOWN")
       \/ UNCHANGED <<kind, state>>
    /\ UNCHANGED <<tried, accepted>>

\* A DOWN that nobody has tried to send is replaced; any other one, whatever has
\* become of it, may be followed by a RECOVERY.
ResolveIncident ==
    /\ incident = "OPEN"
    /\ incident' = "RESOLVED"
    /\ \/ UNCHANGED <<kind, state>>
       \/ state[1] # "NONE" /\ Queue(2, "RECOVERY")
       \/ /\ state[1] = "OPEN" /\ 1 \notin tried
          /\ kind' = [kind EXCEPT ![2] = "RESOLVED_SUMMARY"]
          /\ state' = [state EXCEPT ![1] = "CANCELED", ![2] = "OPEN"]
    /\ UNCHANGED <<tried, accepted>>

\* The events go together, and the incident with them where it is the monitor
\* and not the channel that is given up.
Withdraw ==
    /\ state' = [e \in Events |-> IF state[e] = "OPEN" THEN "CANCELED" ELSE state[e]]
    /\ \/ incident' = incident
       \/ incident = "OPEN" /\ incident' = "CANCELED"
    /\ UNCHANGED <<kind, tried, accepted>>

\* An event whose channel is found disabled.
Drop(e) ==
    /\ state[e] = "OPEN"
    /\ state' = [state EXCEPT ![e] = "CANCELED"]
    /\ UNCHANGED <<incident, kind, tried, accepted>>

\* A RECOVERY never goes first.
Try(e) ==
    /\ state[e] = "OPEN"
    /\ kind[e] = "RECOVERY" => state[1] = "SENT"
    /\ tried' = tried \cup {e}
    /\ UNCHANGED <<incident, kind, state, accepted>>

\* At least once: a message may be taken again, and after its event has ended.
Receive(e) ==
    /\ e \in tried
    /\ accepted' = accepted \cup {e}
    /\ UNCHANGED <<incident, kind, state, tried>>

\* A confirmation counts unless the event was canceled.  That of a DOWN whose
\* incident is over may bring the RECOVERY that was not created or was withheld.
Confirm(e) ==
    /\ e \in accepted
    /\ state[e] \in {"OPEN", "SENT", "FAILED"}
    /\ \/ state' = [state EXCEPT ![e] = "SENT"] /\ UNCHANGED kind
       \/ /\ e = 1 /\ incident = "RESOLVED"
          /\ state[2] \in {"NONE", "WITHHELD"}
          /\ kind' = [kind EXCEPT ![2] = "RECOVERY"]
          /\ state' = [state EXCEPT ![1] = "SENT", ![2] = "OPEN"]
    /\ UNCHANGED <<incident, tried, accepted>>

\* A DOWN that fails for good takes a waiting RECOVERY with it.
GiveUp(e) ==
    /\ state[e] = "OPEN" /\ e \in tried
    /\ state' = [f \in Events |->
           CASE f = e -> "FAILED"
             [] f = 2 /\ f # e /\ kind[2] = "RECOVERY" /\ state[2] = "OPEN" -> "WITHHELD"
             [] OTHER -> state[f]]
    /\ UNCHANGED <<incident, kind, tried, accepted>>

\* A RECOVERY is withheld on its own only when its DOWN is settled: settled and
\* not SENT by what was read of it, which a late confirmation may have overtaken.
Withhold ==
    /\ kind[2] = "RECOVERY" /\ state[2] = "OPEN"
    /\ state[1] \in {"SENT", "FAILED", "CANCELED"}
    /\ state' = [state EXCEPT ![2] = "WITHHELD"]
    /\ UNCHANGED <<incident, kind, tried, accepted>>

Next ==
    \/ OpenIncident \/ ResolveIncident \/ Withdraw \/ Withhold
    \/ \E e \in Events : Drop(e) \/ Try(e) \/ Receive(e) \/ Confirm(e) \/ GiveUp(e)

Spec == Init /\ [][Next]_vars
-----------------------------------------------------------------------------
\* What the reader of the channel is promised: no RECOVERY without the DOWN it
\* ends, and no DOWN where a RESOLVED_SUMMARY stands in for it
\* (PROJECT_PLAN.md:380-382).
ReaderSeesInOrder ==
    /\ kind[2] = "RECOVERY" /\ 2 \in accepted => 1 \in accepted
    /\ kind[2] = "RESOLVED_SUMMARY" => 1 \notin accepted
=============================================================================
