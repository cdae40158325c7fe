------------------------------ MODULE MCServices ------------------------------
(***************************************************************************)
(* The components that share no state with the check pipeline and the      *)
(* outbox, checked next to each other: "part" says which one a behaviour   *)
(* is about.  All others stay in their initial state.                      *)
(***************************************************************************)
EXTENDS ScheduleSlots, HttpChecker, NetworkGuard, Accounts, Retention, ProcessLifecycle, TLC

CONSTANTS n1, k1, k2, u1, u2, host, address, w1, w2, w3, m1, ann, bob, s1, r1, r2

VARIABLE part

Parts == {"slots", "http", "pair", "checks", "edits", "accounts", "retention", "process"}

\* Every monitor's jitter is half an interval, rounded down.
MCJitter == [m \in {n1} |-> [i \in {2, 3} |-> i \div 2]]

MCFirstUrl   == (k1 :> u1 @@ k2 :> u2)
MCSubjectsOf == (u1 :> {host, address} @@ u2 :> {address})

MCKind == ("result" :> "result" @@ "check" :> "check" @@ "attempt" :> "delivery"
           @@ "down" :> "down" @@ "recovery" :> "recovery" @@ "incident" :> "incident"
           @@ "channel" :> "channel" @@ "audit" :> "audit")
MCParent == [x \in Rows |-> CASE x = "result" -> "check" [] x = "attempt" -> "down"
                              [] x \in {"down", "recovery"} -> "incident" [] OTHER -> "none"]
-----------------------------------------------------------------------------
(* Bounds.                                                                  *)

\* Two checks, of which one follows a redirect.
HttpBound == hop'[k2] = 0

\* Two workers that record at once; one worker that runs checks; one worker
\* while settings and monitors are edited.
NetBound ==
    CASE part = "pair" ->
           /\ netNow' = 1 /\ probe'[w1].pc = "idle"
           /\ netCheck' = netCheck /\ settings' = settings /\ config' = config
      [] part = "checks" ->
           /\ probe'[w2].pc = "idle" /\ probe'[w3].pc = "idle"
           /\ Len(outages') <= 1 /\ settings' = settings /\ config' = config
           /\ netNow' = NetClock => outages' # <<>> /\ outages'[1].recoveredAt # Never
      [] part = "edits" ->
           /\ netNow' = 1 /\ probe'[w2].pc = "idle" /\ probe'[w3].pc = "idle"
           /\ Len(outages') <= 1

\* Of two requests one may be anything, the other demotes the first administrator.
AccountsBound == call'[r2].what \in {"none", "demote"} /\ call'[r2].on = FirstAdmin

\* An incident with an attempt, runs killed or skipping rows; an incident whose
\* recoveries are switched off and on or late; the other tables.
Unused(S) == \A x \in S : row'[x] = "absent"
OtherTables == {"result", "check", "channel", "audit"}
RetentionBound ==
    \/ /\ toggles' = 0 /\ late' = {} /\ Unused(OtherTables)
       /\ Running' => old' \subseteq run'.cutoff
    \/ faults' = 0 /\ Unused(OtherTables \union {"attempt"})
    \/ toggles' = 0 /\ Unused(Rows \ OtherTables)
-----------------------------------------------------------------------------
Init ==
    /\ part \in Parts
    /\ SlotsInit /\ (part # "slots" => interval = [m \in {n1} |-> 2])
    /\ HttpInit /\ NetInit /\ AccountsInit /\ RetentionInit /\ LifeInit

Next ==
    /\ UNCHANGED part
    /\ \/ part = "slots" /\ SlotsNext
          /\ UNCHANGED <<httpVars, netVars, accountVars, retentionVars, lifeVars>>
       \/ part = "http" /\ HttpNext /\ HttpBound
          /\ UNCHANGED <<slotsVars, netVars, accountVars, retentionVars, lifeVars>>
       \/ part \in {"pair", "checks", "edits"} /\ NetNext /\ NetBound
          /\ UNCHANGED <<slotsVars, httpVars, accountVars, retentionVars, lifeVars>>
       \/ part = "accounts" /\ AccountsNext /\ AccountsBound
          /\ UNCHANGED <<slotsVars, httpVars, netVars, retentionVars, lifeVars>>
       \/ part = "retention" /\ RetentionNext /\ RetentionBound
          /\ UNCHANGED <<slotsVars, httpVars, netVars, accountVars, lifeVars>>
       \/ part = "process" /\ LifeNext
          /\ UNCHANGED <<slotsVars, httpVars, netVars, accountVars, retentionVars>>

allVars == <<part, slotsVars, httpVars, netVars, accountVars, retentionVars, lifeVars>>

\* In its initial state no component has a fair step to take, so the fairness of
\* one asks nothing of a behaviour about another.
Spec ==
    /\ Init /\ [][Next]_allVars
    /\ HttpFairness /\ NetFairness /\ RetentionFairness /\ LifeFairness

\* The type invariants of the components, each with what it says beyond types:
\* no check is scheduled for the future, no window counts more than its limit, an
\* OFFLINE observer names its outage, a live session is one of an account that
\* exists, and only rows that are there grow old or hold a secret.
ServicesTypeOK ==
    SlotsTypeOK /\ HttpTypeOK /\ NetTypeOK /\ AccountsTypeOK /\ RetentionTypeOK /\ LifeTypeOK
=============================================================================
