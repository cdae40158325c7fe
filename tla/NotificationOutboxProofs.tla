----------------------- MODULE NotificationOutboxProofs -----------------------
(***************************************************************************)
(* Proofs about NotificationOutbox for every number of dispatchers,        *)
(* processors and attempts and every bound on changes and faults: its      *)
(* safety, and that it implements NotificationContract.                    *)
(***************************************************************************)
EXTENDS NotificationRefinement, TLAPS

(* What the operations on a row leave and set. *)

\* A row that leaves the queue gives up its lease and keeps the rest.
LEMMA SettleRow ==
    ASSUME NEW r \in Rows, NEW s \in Statuses
    PROVE  LET q == Settle(r, s)
           IN  /\ q \in Rows
               /\ q.kind = r.kind /\ q.status = s /\ q.attempts = r.attempts
               /\ q.lease = "NONE" /\ q.owner = NoOne /\ q.ready = r.ready
               /\ q.withheld = r.withheld /\ q.secret = r.secret
BY DEF Rows, Settle, Statuses, Leases, OpenStatus, Terminal

\* Retiring a destination (secretTombstoneBytes) touches nothing else.
LEMMA RetireRow ==
    ASSUME NEW r \in Rows
    PROVE  LET q == Retire(r)
           IN  /\ q \in Rows
               /\ q.kind = r.kind /\ q.status = r.status /\ q.attempts = r.attempts
               /\ q.lease = r.lease /\ q.owner = r.owner /\ q.ready = r.ready
               /\ q.withheld = r.withheld /\ q.secret = FALSE
BY DEF Rows, Retire

\* A lease goes with a status and an owner.
LEMMA LeaseRow ==
    ASSUME NEW r \in Rows, NEW s \in Statuses, NEW who \in Dispatchers \cup Processors
    PROVE  LET q == Lease(r, s, who)
           IN  /\ q \in Rows
               /\ q.kind = r.kind /\ q.status = s /\ q.attempts = r.attempts
               /\ q.lease = "LIVE" /\ q.owner = who /\ q.ready = r.ready
               /\ q.withheld = r.withheld /\ q.secret = r.secret
BY DEF Rows, Lease, Leases

\* A canceled row records whether it waits for a late confirmation of DOWN.
LEMMA CanceledRow ==
    ASSUME NEW r \in Rows, NEW w \in BOOLEAN
    PROVE  LET q == Canceled(r, w)
           IN  /\ q \in Rows
               /\ q.kind = r.kind /\ q.status = "CANCELED" /\ q.attempts = r.attempts
               /\ q.lease = "NONE" /\ q.owner = NoOne /\ q.ready = r.ready
               /\ q.withheld = w /\ q.secret = r.secret
BY DEF Rows, Canceled, Settle, Statuses, Leases, OpenStatus, Terminal

\* A row that failed for good has lost its destination.
LEMMA FailedRow ==
    ASSUME NEW r \in Rows
    PROVE  LET q == Failed(r)
           IN  /\ q \in Rows
               /\ q.kind = r.kind /\ q.status = "FAILED" /\ q.attempts = r.attempts
               /\ q.lease = "NONE" /\ q.owner = NoOne /\ q.ready = r.ready
               /\ ~q.withheld /\ ~q.secret
BY DEF Rows, Failed, Settle, Retire, Statuses, Leases, OpenStatus, Terminal

\* A requeued row waits to become ready again.
LEMMA RequeuedRow ==
    ASSUME NEW r \in Rows
    PROVE  LET q == Requeued(r)
           IN  /\ q \in Rows
               /\ q.kind = r.kind /\ q.status = "RETRY" /\ q.attempts = r.attempts
               /\ ~q.withheld /\ q.secret = r.secret
BY DEF Requeued, Rows, Settle, Statuses, Leases, OpenStatus, Terminal

\* A new row is PENDING and was never tried.
LEMMA NewRowFields ==
    ASSUME NEW kind \in Kinds, NEW secret \in BOOLEAN
    PROVE  LET q == NewRow(kind, secret)
           IN  /\ q \in Rows
               /\ q.kind = kind /\ q.status = "PENDING" /\ q.attempts = 0
               /\ ~q.withheld /\ q.secret = secret
BY OutboxAssumption DEF Rows, NewRow, Statuses, OpenStatus, Leases

\* Only a RECOVERY that waits is withheld.
LEMMA WithholdRow ==
    ASSUME NEW r \in Rows
    PROVE  LET q == Withhold(r)
           IN  /\ q \in Rows
               /\ \/ q = r
                  \/ /\ r.kind = "RECOVERY" /\ r.status \in {"PENDING", "RETRY", "ENQUEUED"}
                     /\ q.status = "CANCELED"
               /\ q.kind = r.kind /\ q.attempts = r.attempts
BY CanceledRow DEF Withhold

\* What a sent row becomes; only the DOWN of an open incident keeps its
\* destination.
LEMMA SentRow ==
    ASSUME NEW r \in Rows, NEW e \in Events
    PROVE  LET q == Sent(e, r)
           IN  /\ q \in Rows
               /\ q.kind = r.kind /\ q.status = "SENT" /\ q.attempts = r.attempts
               /\ ~q.withheld
<1> DEFINE sent == [Settle(r, "SENT") EXCEPT !.withheld = FALSE]
<1>2. /\ sent \in Rows
      /\ sent.kind = r.kind /\ sent.status = "SENT" /\ sent.attempts = r.attempts
      /\ ~sent.withheld
  <2> DEFINE c == Settle(r, "SENT")
  <2>1. "SENT" \in Statuses
    BY DEF Statuses, Terminal
  <2>2. c \in Rows /\ c.kind = r.kind /\ c.status = "SENT" /\ c.attempts = r.attempts
    BY <2>1, SettleRow
  <2> HIDE DEF c
  <2>3. sent = [c EXCEPT !.withheld = FALSE]
    BY DEF c
  <2>4. QED BY <2>2, <2>3 DEF Rows
<1> HIDE DEF sent
<1>3. Sent(e, r) = IF e = 1 /\ incident = "OPEN" THEN sent ELSE Retire(sent)
  BY DEF Sent, sent
<1>4. /\ Retire(sent) \in Rows /\ Retire(sent).kind = r.kind /\ Retire(sent).status = "SENT"
      /\ Retire(sent).attempts = r.attempts /\ ~Retire(sent).withheld
  BY <1>2, RetireRow
<1>5. QED BY <1>2, <1>3, <1>4

\* What a late confirmation of DOWN makes of row 2: nothing, a new RECOVERY, or
\* a withheld RECOVERY put back in the queue.
LEMMA LateRecoveryRow ==
    ASSUME NEW r \in Rows, NEW secret \in BOOLEAN
    PROVE  LET q == LateRecovery(r, secret)
           IN  /\ q \in Rows
               /\ \/ q = r
                  \/ /\ incident = "RESOLVED" /\ r.status = "ABSENT"
                     /\ q.kind = "RECOVERY" /\ q.attempts = 0 /\ q.status = "PENDING"
                  \/ /\ incident = "RESOLVED" /\ r.kind = "RECOVERY"
                     /\ r.status = "CANCELED" /\ r.withheld
                     /\ q.kind = r.kind /\ q.attempts = r.attempts /\ q.status = "PENDING"
<1> DEFINE queued == [r EXCEPT !.status = "PENDING", !.ready = TRUE, !.lease = "NONE",
                               !.owner = NoOne]
           back == [queued EXCEPT !.withheld = FALSE, !.secret = secret]
<1>1. /\ back \in Rows /\ back.kind = r.kind /\ back.attempts = r.attempts
      /\ back.status = "PENDING"
  <2>1. /\ queued \in Rows /\ queued.kind = r.kind /\ queued.attempts = r.attempts
        /\ queued.status = "PENDING"
    BY DEF Rows, Statuses, OpenStatus, Leases
  <2> HIDE DEF queued
  <2>2. QED BY <2>1 DEF Rows
<1> HIDE DEF back
<1>2. LateRecovery(r, secret) =
        IF incident = "RESOLVED" /\ Listening
        THEN CASE r.status = "ABSENT" -> NewRow("RECOVERY", secret)
               [] r.kind = "RECOVERY" /\ r.status = "CANCELED" /\ r.withheld -> back
               [] OTHER -> r
        ELSE r
  BY DEF LateRecovery, back, queued
<1>3. "RECOVERY" \in Kinds
  BY DEF Kinds
<1>4. CASE ~(incident = "RESOLVED" /\ Listening)
  BY <1>2, <1>4
<1>5. CASE incident = "RESOLVED" /\ Listening /\ r.status = "ABSENT"
  BY <1>2, <1>3, <1>5, NewRowFields
<1>6. CASE incident = "RESOLVED" /\ Listening /\ r.status # "ABSENT"
  BY <1>1, <1>2, <1>6
<1>7. QED BY <1>4, <1>5, <1>6
-----------------------------------------------------------------------------
(* Type correctness. *)

\* Forgetting attempts keeps the type of the delivery records.
LEMMA ForgetType ==
    ASSUME TypeOK, NEW e \in Events
    PROVE  ForgetAttempts(e) \in [1..MaxAttempts -> Deliveries]
<1>1. delivery[e] \in [1..MaxAttempts -> Deliveries]
  BY DEF TypeOK
<1>2. \A a \in 1..MaxAttempts : delivery[e][a] \in Deliveries
  BY <1>1
<1>3. QED BY <1>2 DEF ForgetAttempts, Deliveries

\* The type invariant holds initially.
LEMMA InitType == Init => TypeOK
<1> SUFFICES ASSUME Init PROVE TypeOK
  OBVIOUS
<1>1. NoRow \in Rows
  BY OutboxAssumption DEF NoRow, Rows, Kinds, Statuses, Leases
<1>2. row \in [Events -> Rows] /\ Idle \in [pc : {"idle", "opening", "resolving"},
                                             bound : BOOLEAN, down : Rows]
  BY <1>1 DEF Init, Idle
<1>3. NoDelivery \in [1..MaxAttempts -> Deliveries]
  BY DEF NoDelivery, Deliveries
<1>4. QED BY <1>2, <1>3, OutboxAssumption DEF Init, TypeOK, Events

\* What is left of the DOWN row after a resolution keeps its type.
LEMMA AfterResolveRow ==
    ASSUME NEW r \in Rows, NEW s
    PROVE  LET q == AfterResolve(r, s)
           IN  /\ q \in Rows
               /\ q.kind = r.kind /\ q.status = r.status /\ q.attempts = r.attempts
               /\ s \notin Terminal => q = r
BY RetireRow DEF AfterResolve

\* A resolution leaves the rows alone, retires row 1, or replaces it.
LEMMA ResolveRows ==
    ASSUME TypeOK, ResolveIncident
    PROVE  \/ row' = row
           \/ \E s \in Statuses :
                  /\ s \in Terminal =>
                         s = persist.down.status \/ s = row[1].status
                  /\ row' = [row EXCEPT ![1] = AfterResolve(@, s)]
           \/ \E s \in Statuses :
                  /\ s \in Terminal =>
                         s = persist.down.status \/ s = row[1].status
                  /\ row' = [row EXCEPT ![1] = AfterResolve(@, s),
                                        ![2] = NewRow("RECOVERY", persist.down.secret)]
           \/ /\ Unsent(row[1])
              /\ row' = [row EXCEPT ![1] = Retire(Settle(@, "CANCELED")),
                                    ![2] = NewRow("RESOLVED_SUMMARY", persist.down.secret)]
<1> DEFINE down   == persist.down
           asRead == Plan(down)
           stale  == asRead = "REPLACE_WITH_RESOLVED_SUMMARY" /\ ~Unsent(row[1])
           plan   == IF stale THEN Plan(row[1]) ELSE asRead
           status == IF stale THEN row[1].status ELSE down.status
<1>1. /\ down \in Rows /\ row[1] \in Rows
      /\ down.status \in Statuses /\ row[1].status \in Statuses
  BY DEF TypeOK, Rows, Events
<1>2. plan \in {"REPLACE_WITH_RESOLVED_SUMMARY", "SKIP", "CREATE_RECOVERY"}
  BY DEF Plan, Unsent
<1>3. plan = "REPLACE_WITH_RESOLVED_SUMMARY" => Unsent(row[1])
  BY DEF Plan, Unsent
<1>4. status \in Statuses /\ (status = persist.down.status \/ status = row[1].status)
  BY <1>1
<1>5. row' = IF ~persist.bound \/ down.status = "ABSENT" THEN row
             ELSE CASE plan = "REPLACE_WITH_RESOLVED_SUMMARY" ->
                           [row EXCEPT ![1] = Retire(Settle(@, "CANCELED")),
                                       ![2] = NewRow("RESOLVED_SUMMARY", down.secret)]
                    [] plan = "SKIP" -> [row EXCEPT ![1] = AfterResolve(@, status)]
                    [] plan = "CREATE_RECOVERY" ->
                           [row EXCEPT ![1] = AfterResolve(@, status),
                                       ![2] = NewRow("RECOVERY", down.secret)]
  BY DEF ResolveIncident
<1> HIDE DEF plan, status
<1>6. CASE ~persist.bound \/ down.status = "ABSENT"
  BY <1>5, <1>6
<1>7. CASE ~(~persist.bound \/ down.status = "ABSENT")
  <2>1. CASE plan = "REPLACE_WITH_RESOLVED_SUMMARY"
    BY <1>3, <1>5, <1>7, <2>1
  <2>2. CASE plan = "SKIP"
    BY <1>4, <1>5, <1>7, <2>2
  <2>3. CASE plan = "CREATE_RECOVERY"
    BY <1>4, <1>5, <1>7, <2>3
  <2>4. QED BY <1>2, <2>1, <2>2, <2>3
<1>8. QED BY <1>6, <1>7

\* The persisting check keeps the type invariant.
LEMMA PersistType ==
    ASSUME TypeOK, PersistNext
    PROVE  TypeOK'
<1> USE DEF TypeOK, adminVars, rowVars, dispVars, procVars
<1>0. Idle \in [pc : {"idle", "opening", "resolving"}, bound : BOOLEAN, down : Rows]
  BY OutboxAssumption DEF Idle, NoRow, Rows, Kinds, Statuses, Leases
<1>1. ASSUME NEW pc \in {"opening", "resolving"}, PersistReads(pc) PROVE TypeOK'
  <2>1. row[1] \in Rows /\ Listening \in BOOLEAN
    BY DEF Events, Listening
  <2>2. persist' = [pc |-> pc, bound |-> Listening, down |-> row[1]]
    BY <1>1 DEF PersistReads
  <2>3. persist' \in [pc : {"idle", "opening", "resolving"}, bound : BOOLEAN, down : Rows]
    BY <2>1, <2>2
  <2>4. QED BY <1>1, <2>3 DEF PersistReads
<1>2. CASE OpenIncident
  <2>1. NewRow("DOWN", TRUE) \in Rows
    BY NewRowFields DEF Kinds
  <2>2. QED BY <1>0, <1>2, <2>1 DEF OpenIncident
<1>3. CASE ResolveIncident
  <2>1. /\ row[1] \in Rows
        /\ \A s : AfterResolve(row[1], s) \in Rows
        /\ Retire(Settle(row[1], "CANCELED")) \in Rows
    BY AfterResolveRow, SettleRow, RetireRow DEF Events, Statuses, Terminal
  <2>2. persist.down.secret \in BOOLEAN
    BY DEF Rows
  <2>3. NewRow("RECOVERY", persist.down.secret) \in Rows
        /\ NewRow("RESOLVED_SUMMARY", persist.down.secret) \in Rows
    BY <2>2, NewRowFields DEF Kinds
  <2>4. row' \in [Events -> Rows]
    <3>1. \E q, q2 \in Rows : row' = row \/ row' = [row EXCEPT ![1] = q]
                                \/ row' = [row EXCEPT ![1] = q, ![2] = q2]
      BY <1>3, <2>1, <2>3, ResolveRows
    <3>2. QED BY <3>1
  <2>5. QED BY <1>0, <1>3, <2>4 DEF ResolveIncident
<1>4. QED BY <1>1, <1>2, <1>3 DEF PersistNext, StartOpen, StartResolve

\* What the API's cancellation leaves of the rows and their attempts.
LEMMA CancelRows ==
    ASSUME TypeOK, CancelEvents
    PROVE  /\ row' \in [Events -> Rows]
           /\ delivery' \in [Events -> [1..MaxAttempts -> Deliveries]]
           /\ \A e \in Events :
                  /\ row'[e].kind = row[e].kind /\ row'[e].attempts = row[e].attempts
                  /\ row'[e].withheld = row[e].withheld
                  /\ row'[e].status = IF row[e].status \in OpenStatus
                                      THEN "CANCELED" ELSE row[e].status
                  /\ delivery'[e] = delivery[e] \/ delivery'[e] = ForgetAttempts(e)
                  /\ delivery'[e] = IF row[e].status = "PROCESSING"
                                    THEN ForgetAttempts(e) ELSE delivery[e]
<1>1. \A e \in Events : row[e] \in Rows
  BY DEF TypeOK
<1>2. \A e \in Events :
          LET q == IF row[e].status \in OpenStatus
                   THEN Retire(Settle(row[e], "CANCELED")) ELSE Retire(row[e])
          IN  /\ q \in Rows
              /\ q.kind = row[e].kind /\ q.attempts = row[e].attempts
              /\ q.withheld = row[e].withheld
              /\ q.status = IF row[e].status \in OpenStatus THEN "CANCELED" ELSE row[e].status
  <2> SUFFICES ASSUME NEW e \in Events
               PROVE  LET q == IF row[e].status \in OpenStatus
                               THEN Retire(Settle(row[e], "CANCELED")) ELSE Retire(row[e])
                      IN  /\ q \in Rows
                          /\ q.kind = row[e].kind /\ q.attempts = row[e].attempts
                          /\ q.withheld = row[e].withheld
                          /\ q.status = IF row[e].status \in OpenStatus
                                        THEN "CANCELED" ELSE row[e].status
    OBVIOUS
  <2>1. "CANCELED" \in Statuses
    BY DEF Statuses, Terminal
  <2> DEFINE c == Settle(row[e], "CANCELED")
  <2>2. /\ row[e] \in Rows /\ c \in Rows
        /\ c.kind = row[e].kind /\ c.attempts = row[e].attempts
        /\ c.withheld = row[e].withheld /\ c.status = "CANCELED"
    BY <1>1, <2>1, SettleRow
  <2> HIDE DEF c
  <2>a. /\ Retire(c) \in Rows
        /\ Retire(c).kind = row[e].kind /\ Retire(c).attempts = row[e].attempts
        /\ Retire(c).withheld = row[e].withheld /\ Retire(c).status = "CANCELED"
    BY <2>2, RetireRow
  <2>3. CASE row[e].status \in OpenStatus
    BY <2>3, <2>a DEF c
  <2>4. CASE row[e].status \notin OpenStatus
    BY <2>2, <2>4, RetireRow
  <2>5. QED BY <2>3, <2>4
<1>3. row' = [e \in Events |->
           IF row[e].status \in OpenStatus
           THEN Retire(Settle(row[e], "CANCELED")) ELSE Retire(row[e])]
  BY DEF CancelEvents
<1>4. delivery' = [e \in Events |->
           IF row[e].status = "PROCESSING" THEN ForgetAttempts(e) ELSE delivery[e]]
  BY DEF CancelEvents
<1>5. delivery' \in [Events -> [1..MaxAttempts -> Deliveries]]
  BY <1>4, ForgetType DEF TypeOK
<1>6. QED BY <1>2, <1>3, <1>4, <1>5

\* The API keeps the type invariant.
LEMMA ApiType ==
    ASSUME TypeOK, ApiNext
    PROVE  TypeOK'
<1> USE DEF TypeOK, adminVars, dispVars, procVars
<1>a. Change => changes' \in 0..MaxChanges
  BY OutboxAssumption DEF Change
<1>i. CancelIncident => incident' \in {"NONE", "OPEN", "RESOLVED", "CANCELED"}
  BY DEF CancelIncident
<1>1. CASE PauseMonitor \/ RemoveMonitor
  BY <1>1, <1>a, <1>i, CancelRows DEF PauseMonitor, RemoveMonitor
<1>2. CASE ResumeMonitor \/ EnableChannel
  BY <1>2, <1>a DEF ResumeMonitor, EnableChannel, rowVars
<1>3. ASSUME NEW binds \in BOOLEAN, NEW reconfigured \in BOOLEAN,
             UpdateMonitor(binds, reconfigured)
      PROVE  TypeOK'
  BY <1>3, <1>a, <1>i, CancelRows DEF UpdateMonitor, rowVars
<1>4. CASE DisableChannel \/ RemoveChannel
  BY <1>4, <1>a, CancelRows DEF DisableChannel, RemoveChannel
<1>5. QED BY <1>1, <1>2, <1>3, <1>4 DEF ApiNext

\* What the clock does to a row.
LEMMA ClockRow ==
    ASSUME NEW r \in Rows
    PROVE  [r EXCEPT !.lease = "EXPIRED"] \in Rows /\ [r EXCEPT !.ready = TRUE] \in Rows
BY DEF Rows, Leases

\* The clock keeps the type invariant.
LEMMA ClockType ==
    ASSUME TypeOK, ClockNext
    PROVE  TypeOK'
<1> USE DEF TypeOK, adminVars, dispVars, procVars
<1>1. ASSUME NEW e \in Events, ExpireLease(e) PROVE TypeOK'
  <2>1. [row[e] EXCEPT !.lease = "EXPIRED"] \in Rows
    BY ClockRow
  <2>2. row' \in [Events -> Rows]
    BY <1>1, <2>1 DEF ExpireLease
  <2>3. QED BY <1>1, <2>2 DEF ExpireLease
<1>2. ASSUME NEW e \in Events, BecomeReady(e) PROVE TypeOK'
  <2>1. [row[e] EXCEPT !.ready = TRUE] \in Rows
    BY ClockRow
  <2>2. row' \in [Events -> Rows]
    BY <1>2, <2>1 DEF BecomeReady
  <2>3. QED BY <1>2, <2>2 DEF BecomeReady
<1>3. QED BY <1>1, <1>2 DEF ClockNext

\* A dispatcher may change a row that is open and not under a live lease of a
\* processor; the event is canceled, requeued or handed on.
DispatchMoves(r, q) ==
    /\ q \in Rows
    /\ q.kind = r.kind /\ q.attempts = r.attempts
    /\ r.status \in OpenStatus
    /\ ~(r.status = "PROCESSING" /\ r.lease = "LIVE")
    /\ \/ q.status = r.status
       \/ q.status \in {"RETRY", "ENQUEUED"}
       \/ q.status = "CANCELED"
    /\ q.status \in OpenStatus => q.secret = r.secret

\* Every step of a dispatcher leaves the rows alone or changes one of them so.
LEMMA DispatchRows ==
    ASSUME TypeOK, NEW d \in Dispatchers, Dispatch(d) \/ \E e \in Events : Scan(d, e)
    PROVE  \/ row' = row
           \/ \E e \in Events, q \in Rows :
                  DispatchMoves(row[e], q) /\ row' = [row EXCEPT ![e] = q]
<1> DEFINE e == devent[d]
           r == row[e]
<1>0. e \in Events /\ r \in Rows
  BY DEF TypeOK
<1>s. {"RETRY", "ENQUEUED", "CANCELED"} \subseteq Statuses
  BY DEF Statuses, OpenStatus, Terminal
<1>1. ASSUME NEW f \in Events, Scan(d, f) PROVE row' = row
  BY <1>1 DEF Scan
<1>2. CASE CheckOrder(d) \/ RegisterJob(d)
  BY <1>2 DEF CheckOrder, RegisterJob
<1>3. ASSUME Available(r) PROVE r.status \in OpenStatus /\ ~(r.status = "PROCESSING" /\ r.lease = "LIVE")
  BY <1>3 DEF Available, OpenStatus
<1>4. ASSUME NEW from, NEW to, NEW q \in Rows, DispWrites(d, from, to, q),
             Available(r) => DispatchMoves(r, q)
      PROVE  row' = row \/ (DispatchMoves(r, q) /\ row' = [row EXCEPT ![e] = q])
  <2>1. row' = [row EXCEPT ![e] = IF Available(r) THEN q ELSE row[e]]
    BY <1>4 DEF DispWrites
  <2>2. CASE Available(r)
    BY <1>4, <2>1, <2>2
  <2>3. CASE ~Available(r)
    <3>1. row = [row EXCEPT ![e] = row[e]]
      BY <1>0 DEF TypeOK
    <3>2. row' = [row EXCEPT ![e] = row[e]]
      BY <2>1, <2>3
    <3>3. QED BY <3>1, <3>2
  <2>4. QED BY <2>2, <2>3
<1>5. CASE DeferRecovery(d)
  <2> DEFINE q == [r EXCEPT !.ready = FALSE]
  <2>1. /\ q \in Rows /\ q.kind = r.kind /\ q.attempts = r.attempts
        /\ q.status = r.status /\ q.secret = r.secret
    BY <1>0 DEF Rows
  <2>2. DispWrites(d, "defer", "idle", q)
    BY <1>5 DEF DeferRecovery
  <2> HIDE DEF q, r, e
  <2>3. Available(r) => DispatchMoves(r, q)
    BY <1>3, <2>1 DEF DispatchMoves
  <2>4. QED BY <1>0, <1>4, <2>1, <2>2, <2>3 DEF r
<1>6. CASE CancelEvent(d)
  <2>1. PICK from \in {"drop", "withhold", "withholdKept"},
             q \in {Retire(Canceled(r, FALSE)), Retire(Canceled(r, TRUE)), Canceled(r, TRUE)} :
            DispWrites(d, from, "idle", q)
    BY <1>6 DEF CancelEvent
  <2> HIDE DEF r, e
  <2>a. \A w \in BOOLEAN :
            /\ Canceled(r, w) \in Rows /\ Canceled(r, w).kind = r.kind
            /\ Canceled(r, w).attempts = r.attempts /\ Canceled(r, w).status = "CANCELED"
    BY <1>0, CanceledRow
  <2>b. \A w \in BOOLEAN :
            /\ Retire(Canceled(r, w)) \in Rows /\ Retire(Canceled(r, w)).kind = r.kind
            /\ Retire(Canceled(r, w)).attempts = r.attempts
            /\ Retire(Canceled(r, w)).status = "CANCELED"
    BY <2>a, RetireRow
  <2>2. q \in Rows /\ q.kind = r.kind /\ q.attempts = r.attempts /\ q.status = "CANCELED"
    BY <2>1, <2>a, <2>b
  <2>3. Available(r) => DispatchMoves(r, q)
    BY <1>3, <2>2 DEF DispatchMoves, OpenStatus
  <2>4. QED BY <1>0, <1>4, <2>1, <2>2, <2>3 DEF r
<1>7. CASE ClaimForDispatch(d)
  <2> DEFINE q == Lease(r, "RETRY", d)
  <2>1. /\ q \in Rows /\ q.kind = r.kind /\ q.attempts = r.attempts
        /\ q.status = "RETRY" /\ q.secret = r.secret
    BY <1>0, <1>s, LeaseRow
  <2>2. DispWrites(d, "claim", "register", q)
    BY <1>7 DEF ClaimForDispatch
  <2> HIDE DEF q, r, e
  <2>3. Available(r) => DispatchMoves(r, q)
    BY <1>3, <2>1 DEF DispatchMoves
  <2>4. QED BY <1>0, <1>4, <2>1, <2>2, <2>3 DEF r
<1>8. CASE MarkEnqueued(d)
  <2> DEFINE q == [r EXCEPT !.status = "ENQUEUED"]
  <2>1. /\ q \in Rows /\ q.kind = r.kind /\ q.attempts = r.attempts
        /\ q.status = "ENQUEUED" /\ q.secret = r.secret
    BY <1>0, <1>s DEF Rows
  <2>2. row' = [row EXCEPT ![e] = IF HoldsClaim(d, r) THEN q ELSE r]
    BY <1>8 DEF MarkEnqueued
  <2> HIDE DEF q, r, e
  <2>3. HoldsClaim(d, r) => DispatchMoves(r, q)
    BY <2>1 DEF DispatchMoves, HoldsClaim, OpenStatus
  <2>4. ~HoldsClaim(d, r) => row' = row
    BY <1>0, <2>2 DEF r, TypeOK
  <2>5. QED BY <1>0, <2>1, <2>2, <2>3, <2>4 DEF r
<1>9. CASE RequeueEvent(d)
  <2> DEFINE q == Requeued(r)
  <2>1. /\ q \in Rows /\ q.kind = r.kind /\ q.attempts = r.attempts
        /\ q.status = "RETRY" /\ q.secret = r.secret
    BY <1>0, RequeuedRow
  <2>2. row' = [row EXCEPT ![e] = IF HoldsClaim(d, r) THEN q ELSE r]
    BY <1>9 DEF RequeueEvent
  <2> HIDE DEF q, r, e
  <2>3. HoldsClaim(d, r) => DispatchMoves(r, q)
    BY <2>1 DEF DispatchMoves, HoldsClaim, OpenStatus
  <2>4. ~HoldsClaim(d, r) => row' = row
    BY <1>0, <2>2 DEF r, TypeOK
  <2>5. QED BY <1>0, <2>1, <2>2, <2>3, <2>4 DEF r
<1>10. QED BY <1>1, <1>2, <1>5, <1>6, <1>7, <1>8, <1>9 DEF Dispatch

\* What a step of a dispatcher leaves alone, and where it leaves the dispatcher.
LEMMA DispatchFrame ==
    ASSUME TypeOK, NEW d \in Dispatchers, Dispatch(d) \/ \E e \in Events : Scan(d, e)
    PROVE  /\ UNCHANGED <<adminVars, incident, delivery, accepted, persist, procVars, faults>>
           /\ job' \in [Events -> {"absent", "waiting", "done"} \cup Processors]
           /\ \E to \in {"idle", "order", "claim", "defer", "drop", "withhold",
                         "withholdKept", "register", "mark", "requeue"}, e \in Events :
                  /\ dpc' = [dpc EXCEPT ![d] = to]
                  /\ devent' = [devent EXCEPT ![d] = IF to = "idle" THEN 1 ELSE e]
                  /\ to # "idle" => (e = devent[d] /\ dpc[d] # "idle") \/ Available(row[e])
                  /\ \A f \in Events : job'[f] # job[f] => dpc[d] # "idle" /\ f = devent[d]
<1> USE DEF DispGoes, DispWorks, DispWrites, TypeOK
<1>0. devent[d] \in Events
  OBVIOUS
<1>1. ASSUME NEW f \in Events, Scan(d, f)
      PROVE  /\ UNCHANGED <<adminVars, incident, delivery, accepted, persist, procVars, faults, job>>
             /\ \E to \in {"order", "claim", "drop"} :
                    /\ dpc' = [dpc EXCEPT ![d] = to]
                    /\ devent' = [devent EXCEPT ![d] = IF to = "idle" THEN 1 ELSE f]
                    /\ Available(row[f])
  BY <1>1 DEF Scan
<1>2. CASE CheckOrder(d)
  <2>1. Prerequisite(row[1].status) \in {"claim", "defer", "withhold", "withholdKept"}
    BY DEF Prerequisite
  <2>2. QED BY <1>0, <1>2, <2>1 DEF CheckOrder
<1>3. CASE DeferRecovery(d) \/ CancelEvent(d) \/ ClaimForDispatch(d)
  BY <1>0, <1>3 DEF DeferRecovery, CancelEvent, ClaimForDispatch
<1>4. CASE RegisterJob(d)
  BY <1>0, <1>4 DEF RegisterJob
<1>5. CASE MarkEnqueued(d) \/ RequeueEvent(d)
  BY <1>0, <1>5 DEF MarkEnqueued, RequeueEvent
<1>6. QED BY <1>1, <1>2, <1>3, <1>4, <1>5 DEF Dispatch

\* A dispatcher keeps the type invariant.
LEMMA DispatchType ==
    ASSUME TypeOK, NEW d \in Dispatchers, Dispatch(d) \/ \E e \in Events : Scan(d, e)
    PROVE  TypeOK'
<1>1. row' \in [Events -> Rows]
  BY DispatchRows DEF TypeOK
<1>2. /\ dpc' \in [Dispatchers -> {"idle", "order", "claim", "defer", "drop", "withhold",
                                   "withholdKept", "register", "mark", "requeue"}]
      /\ devent' \in [Dispatchers -> Events]
  <2>1. PICK to \in {"idle", "order", "claim", "defer", "drop", "withhold",
                     "withholdKept", "register", "mark", "requeue"}, e \in Events :
            /\ dpc' = [dpc EXCEPT ![d] = to]
            /\ devent' = [devent EXCEPT ![d] = IF to = "idle" THEN 1 ELSE e]
    BY DispatchFrame
  <2>2. QED BY <2>1 DEF TypeOK, Events
<1>3. QED BY <1>1, <1>2, DispatchFrame DEF TypeOK, adminVars, procVars

\* The row of an event just claimed.
LEMMA ClaimedRow ==
    ASSUME NEW r \in Rows, NEW p \in Processors, NEW a \in 0..MaxAttempts
    PROVE  LET q == [Lease(r, "PROCESSING", p) EXCEPT !.attempts = a, !.withheld = FALSE]
           IN  /\ q \in Rows
               /\ q.kind = r.kind /\ q.status = "PROCESSING" /\ q.attempts = a
               /\ q.lease = "LIVE" /\ q.owner = p /\ ~q.withheld /\ q.secret = r.secret
<1> DEFINE c == Lease(r, "PROCESSING", p)
<1>1. "PROCESSING" \in Statuses
  BY DEF Statuses, OpenStatus
<1>2. /\ c \in Rows /\ c.kind = r.kind /\ c.status = "PROCESSING"
      /\ c.lease = "LIVE" /\ c.owner = p /\ c.secret = r.secret
  BY <1>1, LeaseRow
<1> HIDE DEF c
<1>3. LET q == [c EXCEPT !.attempts = a, !.withheld = FALSE]
      IN  /\ q \in Rows
          /\ q.kind = c.kind /\ q.status = c.status /\ q.attempts = a
          /\ q.lease = c.lease /\ q.owner = c.owner /\ ~q.withheld /\ q.secret = c.secret
  BY <1>2 DEF Rows
<1>4. QED BY <1>2, <1>3 DEF c

\* What a slot that rests remembers, and what becomes of its job.
LEMMA RestType ==
    ASSUME TypeOK, NEW p \in Processors, ProcRests(p)
    PROVE  /\ ppc' \in [Processors -> {"idle", "claiming", "sending", "confirmed",
                                       "timedOut", "unreachable", "refused"}]
           /\ pevent' \in [Processors -> Events]
           /\ pattempt' \in [Processors -> 0..MaxAttempts]
           /\ psecret' \in [Processors -> BOOLEAN]
           /\ pfresh' \in [Processors -> BOOLEAN]
<1>1. 1 \in Events /\ 0 \in 0..MaxAttempts
  BY OutboxAssumption DEF Events
<1>2. QED BY <1>1 DEF ProcRests, TypeOK

\* The job of a slot that ends it.
LEMMA EndJobType ==
    ASSUME TypeOK, NEW p \in Processors, EndJob(p)
    PROVE  job' \in [Events -> {"absent", "waiting", "done"} \cup Processors]
BY DEF EndJob, TypeOK

\* A processor that ends its job keeps the type invariant if it does so of rows
\* and deliveries.
LEMMA EndedType ==
    ASSUME TypeOK, NEW p \in Processors, EndJob(p),
           UNCHANGED <<adminVars, incident, accepted, persist, dispVars, faults>>,
           row' \in [Events -> Rows],
           delivery' \in [Events -> [1..MaxAttempts -> Deliveries]]
    PROVE  TypeOK'
<1>1. /\ ppc' \in [Processors -> {"idle", "claiming", "sending", "confirmed",
                                   "timedOut", "unreachable", "refused"}]
      /\ pevent' \in [Processors -> Events]
      /\ pattempt' \in [Processors -> 0..MaxAttempts]
      /\ psecret' \in [Processors -> BOOLEAN]
      /\ pfresh' \in [Processors -> BOOLEAN]
  BY RestType DEF EndJob
<1>2. job' \in [Events -> {"absent", "waiting", "done"} \cup Processors]
  BY EndJobType
<1>3. QED BY <1>1, <1>2 DEF TypeOK, adminVars, dispVars

\* What claim does to the rows when it ends without a new attempt: the row is
\* retired, canceled or failed, or nothing; a failed DOWN withholds row 2.
LEMMA ClaimNothingRows ==
    ASSUME TypeOK, NEW p \in Processors, ClaimNothing(p)
    PROVE  LET e == pevent[p]
           IN  /\ \/ row' = row
                  \/ \E q \in Rows :
                         /\ row' = [row EXCEPT ![e] = q]
                         /\ q.kind = row[e].kind /\ q.attempts = row[e].attempts
                         /\ q.withheld = row[e].withheld \/ ~q.withheld
                         /\ \/ row[e].status \in Terminal /\ q.status = row[e].status
                            \/ row[e].status \notin Terminal /\ q.status = "CANCELED"
                  \/ /\ Claimable(row[e])
                     /\ row' = WithDownFailed(e, Failed(row[e]))
               /\ delivery' = delivery \/ delivery' = [delivery EXCEPT ![e] = ForgetAttempts(e)]
<1> DEFINE e == pevent[p]
           r == row[e]
<1>0. e \in Events /\ r \in Rows
  BY DEF TypeOK
<1>1. CASE channel # "ENABLED"
  <2> DEFINE q == IF r.status \in Terminal THEN Retire(r) ELSE Retire(Canceled(r, FALSE))
  <2>1. row' = [row EXCEPT ![e] = q] /\ delivery' = delivery
    BY <1>1 DEF ClaimNothing, rowVars
  <2> HIDE DEF r, e
  <2>2. CASE r.status \in Terminal
    <3>1. /\ Retire(r) \in Rows /\ Retire(r).kind = r.kind /\ Retire(r).status = r.status
          /\ Retire(r).attempts = r.attempts /\ Retire(r).withheld = r.withheld
      BY <1>0, RetireRow
    <3>2. QED BY <2>1, <2>2, <3>1 DEF r, e
  <2>3. CASE r.status \notin Terminal
    <3> DEFINE c == Canceled(r, FALSE)
    <3>1. /\ c \in Rows /\ c.kind = r.kind /\ c.status = "CANCELED"
          /\ c.attempts = r.attempts /\ c.withheld = FALSE
      BY <1>0, CanceledRow
    <3> HIDE DEF c
    <3>2. /\ Retire(c) \in Rows /\ Retire(c).kind = r.kind /\ Retire(c).status = "CANCELED"
          /\ Retire(c).attempts = r.attempts /\ Retire(c).withheld = FALSE
      BY <3>1, RetireRow
    <3>3. row' = [row EXCEPT ![e] = Retire(c)]
      BY <2>1, <2>3 DEF c
    <3>4. QED BY <2>1, <2>3, <3>2, <3>3 DEF r, e
  <2>4. QED BY <2>2, <2>3
<1>2. CASE channel = "ENABLED" /\ ~Claimable(r)
  BY <1>2 DEF ClaimNothing, rowVars
<1>3. CASE channel = "ENABLED" /\ Claimable(r)
  <2>1. /\ row' = row \/ row' = WithDownFailed(e, Failed(r))
        /\ delivery' = [delivery EXCEPT ![e] = ForgetAttempts(e)]
    BY <1>3 DEF ClaimNothing, rowVars
  <2>2. QED BY <1>3, <2>1
<1>4. QED BY <1>1, <1>2, <1>3

\* The rows after an event has failed for good, one by one.
LEMMA FailedRows ==
    ASSUME TypeOK, NEW e \in Events
    PROVE  LET rows == WithDownFailed(e, Failed(row[e]))
           IN  /\ rows \in [Events -> Rows]
               /\ rows[e] = Failed(row[e])
               /\ e = 1 => rows[2] = Withhold(row[2])
               /\ e = 2 => rows[1] = row[1]
<1>0. row[e] \in Rows /\ row[1] \in Rows /\ row[2] \in Rows
  BY DEF TypeOK, Events
<1>1. Failed(row[e]) \in Rows /\ Withhold(row[2]) \in Rows
  BY <1>0, FailedRow, WithholdRow
<1>2. QED BY <1>0, <1>1 DEF WithDownFailed, Events

\* The rows after a confirmed message, one by one.
LEMMA SentRows ==
    ASSUME TypeOK, NEW p \in Processors, MarkSent(p), ConfirmCounts(row[pevent[p]])
    PROVE  LET e == pevent[p]
           IN  /\ row' \in [Events -> Rows]
               /\ row'[e] = Sent(e, row[e])
               /\ e = 1 => row'[2] = LateRecovery(row[2], psecret[p])
               /\ e = 2 => row'[1] = row[1]
<1> DEFINE e == pevent[p]
<1>0. /\ e \in Events /\ row[e] \in Rows /\ row[1] \in Rows /\ row[2] \in Rows
      /\ psecret[p] \in BOOLEAN
  BY DEF TypeOK, Events
<1>1. Sent(e, row[e]) \in Rows /\ LateRecovery(row[2], psecret[p]) \in Rows
  BY <1>0, SentRow, LateRecoveryRow
<1>2. row' = [f \in Events |->
                  IF f = e THEN Sent(e, row[e])
                  ELSE IF f = 2 THEN LateRecovery(row[2], psecret[p]) ELSE row[f]]
  BY DEF MarkSent
<1>3. QED BY <1>0, <1>1, <1>2 DEF Events

\* What markFailed does to the rows.
LEMMA MarkFailedRows ==
    ASSUME TypeOK, NEW p \in Processors, MarkFailed(p)
    PROVE  LET e == pevent[p]
           IN  \/ row' = row
               \/ /\ OwnAttempt(row[e], pattempt[p])
                  /\ \/ row' = [row EXCEPT ![e] = Requeued(row[e])]
                     \/ row' = WithDownFailed(e, Failed(row[e]))
BY DEF MarkFailed

\* A processor keeps the type invariant.
LEMMA ProcessType ==
    ASSUME TypeOK, NEW p \in Processors, Process(p) \/ \E e \in Events : TakeJob(p, e)
    PROVE  TypeOK'
<1> DEFINE e == pevent[p]
<1>0. e \in Events /\ row[e] \in Rows /\ pattempt[p] \in 0..MaxAttempts /\ psecret[p] \in BOOLEAN
  BY DEF TypeOK
<1>1. ASSUME NEW f \in Events, TakeJob(p, f) PROVE TypeOK'
  BY <1>1 DEF TakeJob, TypeOK, adminVars, rowVars, dispVars
<1>2. CASE ClaimNothing(p)
  <2>1. row' \in [Events -> Rows]
    <3>1. CASE row' = row
      BY <3>1 DEF TypeOK
    <3>2. ASSUME NEW q \in Rows, row' = [row EXCEPT ![e] = q] PROVE row' \in [Events -> Rows]
      BY <3>2 DEF TypeOK
    <3>3. CASE row' = WithDownFailed(e, Failed(row[e]))
      BY <1>0, <3>3, FailedRows
    <3>4. QED BY <1>2, <3>1, <3>2, <3>3, ClaimNothingRows
  <2>2. delivery' \in [Events -> [1..MaxAttempts -> Deliveries]]
    <3>1. ForgetAttempts(e) \in [1..MaxAttempts -> Deliveries]
      BY <1>0, ForgetType
    <3>2. delivery' = delivery \/ delivery' = [delivery EXCEPT ![e] = ForgetAttempts(e)]
      BY <1>2, ClaimNothingRows
    <3> HIDE DEF e
    <3>3. QED BY <1>0, <3>1, <3>2 DEF TypeOK
  <2>3. EndJob(p) /\ UNCHANGED <<adminVars, incident, accepted, persist, dispVars, faults>>
    BY <1>2 DEF ClaimNothing
  <2>4. QED BY <2>1, <2>2, <2>3, EndedType
<1>3. CASE ClaimEvent(p)
  <2> DEFINE a == row[e].attempts + 1
             q == [Lease(row[e], "PROCESSING", p) EXCEPT !.attempts = a, !.withheld = FALSE]
             s == [ForgetAttempts(e) EXCEPT ![a] = "ATTEMPTING"]
  <2>1. a \in 0..MaxAttempts
    BY <1>0, <1>3, OutboxAssumption DEF ClaimEvent, Exhausted, Rows
  <2>2. row' = [row EXCEPT ![e] = q] /\ delivery' = [delivery EXCEPT ![e] = s]
    BY <1>3 DEF ClaimEvent
  <2>3. q \in Rows
    BY <1>0, <2>1, ClaimedRow
  <2>4. s \in [1..MaxAttempts -> Deliveries]
    BY <1>0, ForgetType DEF Deliveries
  <2>5. pattempt' \in [Processors -> 0..MaxAttempts]
    BY <1>3, <2>1 DEF ClaimEvent, TypeOK
  <2>6. psecret' \in [Processors -> BOOLEAN]
    BY <1>0, <1>3 DEF ClaimEvent, TypeOK, Rows
  <2> HIDE DEF q, s, a, e
  <2>7. row' \in [Events -> Rows] /\ delivery' \in [Events -> [1..MaxAttempts -> Deliveries]]
    BY <1>0, <2>2, <2>3, <2>4 DEF TypeOK
  <2>8. QED BY <1>3, <2>5, <2>6, <2>7 DEF ClaimEvent, TypeOK, adminVars, dispVars
<1>4. CASE Send(p)
  <2>1. /\ \E to \in {"confirmed", "timedOut", "unreachable", "refused"} :
               ppc' = [ppc EXCEPT ![p] = to]
        /\ accepted' \in {accepted, accepted \cup {e}}
        /\ UNCHANGED <<adminVars, incident, rowVars, job, persist, dispVars,
                       pevent, pattempt, psecret, pfresh, faults>>
    BY <1>4 DEF Send
  <2>2. accepted' \in SUBSET Events
    BY <1>0, <2>1 DEF TypeOK
  <2>3. QED BY <2>1, <2>2 DEF TypeOK, adminVars, rowVars, dispVars
<1>5. CASE MarkSent(p) \/ MarkFailed(p)
  <2>1. row' \in [Events -> Rows]
    <3>1. CASE row' = row
      BY <3>1 DEF TypeOK
    <3>2. CASE MarkSent(p)
      BY <3>1, <3>2, SentRows DEF MarkSent
    <3>3. CASE MarkFailed(p)
      <4>1. Requeued(row[e]) \in Rows
        BY <1>0, RequeuedRow
      <4>2. CASE row' = [row EXCEPT ![e] = Requeued(row[e])]
        BY <4>1, <4>2 DEF TypeOK
      <4>3. CASE row' = WithDownFailed(e, Failed(row[e]))
        BY <1>0, <4>3, FailedRows
      <4>4. QED BY <3>1, <3>3, <4>2, <4>3, MarkFailedRows
    <3>4. QED BY <1>5, <3>2, <3>3
  <2>2. delivery' \in [Events -> [1..MaxAttempts -> Deliveries]]
    <3>1. PICK o \in Deliveries : delivery' = [delivery EXCEPT ![e][pattempt[p]] = o]
      BY <1>5 DEF MarkSent, MarkFailed, Deliveries
    <3>2. [delivery[e] EXCEPT ![pattempt[p]] = o] \in [1..MaxAttempts -> Deliveries]
      BY <1>0 DEF TypeOK
    <3>3. QED BY <3>1, <3>2 DEF TypeOK
  <2>3. EndJob(p) /\ UNCHANGED <<adminVars, incident, accepted, persist, dispVars, faults>>
    BY <1>5 DEF MarkSent, MarkFailed
  <2>4. QED BY <2>1, <2>2, <2>3, EndedType
<1>6. QED BY <1>1, <1>2, <1>3, <1>4, <1>5 DEF Process

\* Housekeeping and faults keep the type invariant.
LEMMA QueueAndFaultType ==
    ASSUME TypeOK, (\E e \in Events : SweepStalledJob(e)) \/ FaultNext
    PROVE  TypeOK'
<1> USE DEF TypeOK, adminVars, rowVars, dispVars, procVars
<1>a. Fault => faults' \in 0..MaxFaults
  BY OutboxAssumption DEF Fault
<1>i. Idle \in [pc : {"idle", "opening", "resolving"}, bound : BOOLEAN, down : Rows]
  BY OutboxAssumption DEF Idle, NoRow, Rows, Kinds, Statuses, Leases
<1>1. ASSUME NEW e \in Events, SweepStalledJob(e) PROVE TypeOK'
  BY <1>1 DEF SweepStalledJob
<1>2. CASE PersistFails
  BY <1>2, <1>a, <1>i DEF PersistFails
<1>3. ASSUME NEW e \in Events, LoseJob(e) PROVE TypeOK'
  BY <1>3, <1>a DEF LoseJob
<1>4. ASSUME NEW d \in Dispatchers, DispatchCallFails(d) \/ DispatcherCrash(d) PROVE TypeOK'
  <2>1. /\ \E to \in {"idle", "requeue"} :
               /\ dpc' = [dpc EXCEPT ![d] = to]
               /\ devent' = [devent EXCEPT ![d] = IF to = "idle" THEN 1 ELSE devent[d]]
        /\ faults' \in 0..MaxFaults
        /\ UNCHANGED <<adminVars, incident, rowVars, accepted, job, persist, procVars>>
    BY <1>4, <1>a DEF DispatchCallFails, DispatcherCrash, DispGoes, DispWorks
  <2>2. 1 \in Events
    BY DEF Events
  <2>3. QED BY <2>1, <2>2
<1>5. ASSUME NEW p \in Processors, ProcessorCrash(p) \/ ProcessorThrows(p) PROVE TypeOK'
  BY <1>5, <1>a, RestType, EndJobType DEF ProcessorCrash, ProcessorThrows, EndJob
<1>6. QED BY <1>1, <1>2, <1>3, <1>4, <1>5 DEF FaultNext

\* Every step keeps the type invariant.
LEMMA TypeStep == TypeOK /\ [Next]_vars => TypeOK'
<1> SUFFICES ASSUME TypeOK, [Next]_vars PROVE TypeOK'
  OBVIOUS
<1>1. CASE PersistNext
  BY <1>1, PersistType
<1>2. CASE ApiNext
  BY <1>2, ApiType
<1>3. CASE ClockNext
  BY <1>3, ClockType
<1>4. CASE \E d \in Dispatchers : Dispatch(d) \/ \E e \in Events : Scan(d, e)
  BY <1>4, DispatchType
<1>5. CASE \E p \in Processors : Process(p) \/ \E e \in Events : TakeJob(p, e)
  BY <1>5, ProcessType
<1>6. CASE (\E e \in Events : SweepStalledJob(e)) \/ FaultNext
  BY <1>6, QueueAndFaultType
<1>7. CASE UNCHANGED vars
  BY <1>7 DEF TypeOK, vars, adminVars, rowVars, dispVars, procVars
<1>8. QED BY <1>1, <1>2, <1>3, <1>4, <1>5, <1>6, <1>7 DEF Next

\* Every variable stays in the set of values its column, job or process can
\* take, and no event is tried more than max_attempts times.
THEOREM TypeCorrect == Spec => []TypeOK
<1>1. QED BY InitType, TypeStep, PTL DEF Spec
-----------------------------------------------------------------------------
(* Safety.  Most steps move a row without ending a confirmed event, reviving  *)
(* an ended one or starting an attempt: Moves says so of a row before and     *)
(* after, HoldKept that a live hold survives or the event has ended, Still    *)
(* that a processor goes on as it was or has not begun.                       *)

Moves(r, q) ==
    /\ q.kind = r.kind /\ q.attempts = r.attempts
    /\ r.status = "ABSENT" <=> q.status = "ABSENT"
    /\ r.status \in Terminal => q.status = r.status
    /\ q.status = "SENT" => r.status = "SENT"
    /\ q.status \in OpenStatus => r.status \in OpenStatus /\ q.secret = r.secret

HoldKept(r, q) ==
    ~r.withheld /\ (r.status \in Terminal \/ (r.status = "PROCESSING" /\ r.lease = "LIVE")) =>
        /\ ~q.withheld
        /\ \/ q.status \in Terminal
           \/ q.status = "PROCESSING" /\ q.lease = "LIVE" /\ q.owner = r.owner

Still(p) ==
    \/ /\ ppc'[p] = ppc[p] /\ pevent'[p] = pevent[p] /\ pattempt'[p] = pattempt[p]
       /\ pfresh'[p] => pfresh[p]
    \/ ppc'[p] = "idle"
    \/ ppc'[p] = "claiming" /\ row[pevent'[p]].status # "ABSENT"

\* Attempts of the event may end; none begins, is confirmed or loses that.
NoneOpened(e) ==
    \A a \in 1..MaxAttempts :
        /\ delivery'[e][a] = "ATTEMPTING" => delivery[e][a] = "ATTEMPTING"
        /\ delivery'[e][a] = "SUCCEEDED" <=> delivery[e][a] = "SUCCEEDED"

QuietMove ==
    /\ accepted' = accepted
    /\ \/ incident' = incident
       \/ incident = "OPEN" /\ incident' = "CANCELED" /\ persist'.pc # "resolving"
    /\ persist'.pc = "opening" => incident = "NONE"
    /\ persist'.pc = "resolving" =>
           incident = "OPEN" /\ (persist' = persist \/ persist'.down = row[1])
    /\ \A e \in Events :
           /\ Moves(row[e], row'[e])
           /\ \/ HoldKept(row[e], row'[e])
              \/ \A p \in Processors :
                     Begun(p) /\ pevent[p] = e /\ pfresh[p] => ~Begun(p)' \/ ~pfresh'[p]
           /\ NoneOpened(e)
           /\ row[e].status = "ABSENT" => delivery'[e] = delivery[e] /\ job'[e] = "absent"
    /\ \A d \in Dispatchers : dpc'[d] # "idle" => row[devent'[d]].status # "ABSENT"
    /\ \A p \in Processors : Still(p)

\* A quiet move keeps the inductive invariant.
LEMMA QuietMoveSafe ==
    ASSUME IInv, TypeOK', QuietMove
    PROVE  IInv'
<1> USE DEF IInv, Events
<1>a. /\ \A e \in Events : row[e] \in Rows /\ row'[e] \in Rows
      /\ \A p \in Processors : pevent[p] \in Events /\ pevent'[p] \in Events
      /\ \A d \in Dispatchers : devent'[d] \in Events
  BY DEF TypeOK
<1>b. \A e \in Events : Moves(row[e], row'[e])
  BY DEF QuietMove
<1>c. \A e \in Events, a \in 1..MaxAttempts :
          /\ delivery'[e][a] = "ATTEMPTING" => delivery[e][a] = "ATTEMPTING"
          /\ delivery'[e][a] = "SUCCEEDED" <=> delivery[e][a] = "SUCCEEDED"
  BY DEF QuietMove, NoneOpened
<1>d. \A p \in Processors :
          \/ /\ ppc'[p] = ppc[p] /\ pevent'[p] = pevent[p] /\ pattempt'[p] = pattempt[p]
             /\ pfresh'[p] => pfresh[p]
          \/ ppc'[p] = "idle"
          \/ ppc'[p] = "claiming" /\ row[pevent'[p]].status # "ABSENT"
  BY DEF QuietMove, Still
<1>e. \A p \in Processors : Begun(p)' =>
          /\ Begun(p) /\ ppc'[p] = ppc[p] /\ pevent'[p] = pevent[p]
          /\ pattempt'[p] = pattempt[p] /\ (pfresh'[p] => pfresh[p])
  BY <1>d DEF Begun
<1>1. References'
  <2>1. /\ persist'.pc = "opening" => incident' = "NONE"
        /\ persist'.pc = "resolving" => incident' = "OPEN"
        /\ incident' = "NONE" => row'[1].status = "ABSENT"
        /\ incident' # "RESOLVED" => row'[2].status = "ABSENT"
        /\ row'[1].kind \in {"NONE", "DOWN"}
    BY <1>b DEF QuietMove, Moves, References
  <2>2. \A e \in Events :
           /\ row'[e].status = "ABSENT" =>
                  /\ row'[e].kind = "NONE" /\ row'[e].attempts = 0 /\ job'[e] = "absent"
                  /\ delivery'[e] = NoDelivery
           /\ e \in accepted' => row'[e].attempts > 0
    BY <1>b DEF QuietMove, Moves, References
  <2>3. \A d \in Dispatchers : dpc'[d] # "idle" => row'[devent'[d]].status # "ABSENT"
    BY <1>a, <1>b DEF QuietMove, Moves
  <2>4. \A p \in Processors : ppc'[p] # "idle" => row'[pevent'[p]].status # "ABSENT"
    BY <1>a, <1>b, <1>d DEF Moves, References
  <2>5. \A p \in Processors :
           /\ Begun(p)' => /\ pattempt'[p] \in 1..row'[pevent'[p]].attempts
                           /\ delivery'[pevent'[p]][pattempt'[p]] # "SUCCEEDED"
           /\ ppc'[p] = "confirmed" => pevent'[p] \in accepted'
    <3>1. \A p \in Processors : Begun(p)' => pattempt'[p] \in 1..row'[pevent'[p]].attempts
      BY <1>a, <1>b, <1>e DEF Moves, References
    <3>2. \A p \in Processors : ppc'[p] = "confirmed" => pevent'[p] \in accepted'
      BY <1>d DEF QuietMove, References
    <3>3. \A p \in Processors : Begun(p)' => delivery'[pevent'[p]][pattempt'[p]] # "SUCCEEDED"
      <4> SUFFICES ASSUME NEW p \in Processors, Begun(p)'
                   PROVE  delivery'[pevent'[p]][pattempt'[p]] # "SUCCEEDED"
        OBVIOUS
      <4>1. /\ Begun(p) /\ pevent'[p] = pevent[p] /\ pattempt'[p] = pattempt[p]
            /\ delivery[pevent[p]][pattempt[p]] # "SUCCEEDED"
        BY <1>e DEF References
      <4>2. pattempt[p] \in 1..MaxAttempts
        BY <1>a, <4>1, OutboxAssumption DEF References, Rows
      <4>3. QED BY <1>a, <1>c, <4>1, <4>2
    <3>4. QED BY <3>1, <3>2, <3>3
  <2>6. QED BY <2>1, <2>2, <2>3, <2>4, <2>5 DEF References, NoDelivery
<1>2. OneAttemptUnderWay'
  BY <1>b, <1>c DEF OneAttemptUnderWay, Moves
<1>3. ConfirmedAttemptWins'
  <2>1. \A e \in Events : Succeeded(e)' <=> Succeeded(e)
    BY <1>c DEF Succeeded
  <2>2. QED BY <1>b, <2>1 DEF ConfirmedAttemptWins, Moves, QuietMove, Terminal
<1>4. RecoveryAfterDown'
  BY <1>b DEF RecoveryAfterDown, Moves, QuietMove, Terminal
<1>5. SummaryReplacesDown'
  BY <1>b DEF SummaryReplacesDown, Moves, QuietMove, Terminal
<1>6. SettledStays'
  BY <1>b DEF SettledStays, Moves, QuietMove
<1>7. OpenDownHasSecret'
  BY <1>b DEF OpenDownHasSecret, Moves
<1>8. AttemptsDiffer'
  BY <1>e DEF AttemptsDiffer
<1>9. FreshHoldsLease'
  <2> SUFFICES ASSUME NEW p \in Processors, Begun(p)', pfresh'[p]
               PROVE  LET r == row'[pevent'[p]]
                      IN  /\ ~r.withheld
                          /\ \/ r.status \in Terminal
                             \/ /\ r.status = "PROCESSING" /\ r.lease = "LIVE"
                                /\ r.owner = p /\ r.attempts = pattempt'[p]
    BY DEF FreshHoldsLease
  <2> DEFINE e == pevent[p]
  <2>1. e \in Events /\ pevent'[p] = e /\ Begun(p) /\ pfresh[p] /\ pattempt'[p] = pattempt[p]
    BY <1>a, <1>e
  <2>2. /\ ~row[e].withheld
        /\ \/ row[e].status \in Terminal
           \/ /\ row[e].status = "PROCESSING" /\ row[e].lease = "LIVE"
              /\ row[e].owner = p /\ row[e].attempts = pattempt[p]
    BY <2>1 DEF FreshHoldsLease
  <2>3. HoldKept(row[e], row'[e]) /\ Moves(row[e], row'[e])
    BY <2>1 DEF QuietMove
  <2>4. QED BY <2>1, <2>2, <2>3 DEF HoldKept, Moves
<1>10. SenderExclusive'
  BY <1>e DEF SenderExclusive
<1>11. QED BY <1>1, <1>2, <1>3, <1>4, <1>5, <1>6, <1>7, <1>8, <1>9, <1>10

\* Records left alone or no longer followed open nothing.
LEMMA ForgetOpensNone ==
    ASSUME NEW e \in Events, delivery'[e] = delivery[e] \/ delivery'[e] = ForgetAttempts(e)
    PROVE  NoneOpened(e)
BY DEF NoneOpened, ForgetAttempts

\* A row that does not change moves quietly.
LEMMA SameRow ==
    ASSUME NEW r \in Rows
    PROVE  Moves(r, r) /\ HoldKept(r, r)
BY DEF Moves, HoldKept, Rows, Statuses, OpenStatus, Terminal

\* A step that leaves rows, deliveries, messages and incident alone is quiet,
\* as long as every process keeps to rows that exist.
LEMMA UnseenQuiet ==
    ASSUME IInv, UNCHANGED <<row, delivery, accepted, incident>>,
           persist' = persist \/ persist'.pc = "idle",
           \A e \in Events : row[e].status = "ABSENT" => job'[e] = "absent",
           \A d \in Dispatchers : dpc'[d] # "idle" => row[devent'[d]].status # "ABSENT",
           \A p \in Processors : Still(p)
    PROVE  QuietMove
<1>1. \A e \in Events : Moves(row[e], row'[e]) /\ HoldKept(row[e], row'[e])
  BY SameRow DEF IInv, TypeOK
<1>2. /\ persist'.pc = "opening" => incident = "NONE"
      /\ persist'.pc = "resolving" => incident = "OPEN" /\ persist' = persist
  BY DEF IInv, References
<1>3. QED BY <1>1, <1>2, ForgetOpensNone DEF QuietMove

\* The reads of the persisting check are quiet.
LEMMA StartQuiet ==
    ASSUME IInv, StartOpen \/ StartResolve
    PROVE  QuietMove
<1> USE DEF adminVars, rowVars, dispVars, procVars
<1>1. UNCHANGED <<row, delivery, accepted, incident, job, dpc, devent, ppc, pevent, pattempt, pfresh>>
  BY DEF StartOpen, StartResolve, PersistReads
<1>2. /\ persist'.pc = "opening" => incident = "NONE"
      /\ persist'.pc = "resolving" => incident = "OPEN" /\ persist'.down = row[1]
  BY DEF StartOpen, StartResolve, PersistReads
<1>3. \A e \in Events : Moves(row[e], row'[e]) /\ HoldKept(row[e], row'[e])
  BY <1>1, SameRow DEF IInv, TypeOK
<1>4. QED BY <1>1, <1>2, <1>3, ForgetOpensNone DEF QuietMove, Still, IInv, References

\* The API's transactions are quiet: they end events, and attempts under way.
LEMMA ApiQuiet ==
    ASSUME IInv, ApiNext
    PROVE  QuietMove
<1> USE DEF adminVars, rowVars, dispVars, procVars
<1>1. UNCHANGED <<accepted, job, persist, dpc, devent, ppc, pevent, pattempt, pfresh>>
  BY DEF ApiNext, PauseMonitor, ResumeMonitor, RemoveMonitor, UpdateMonitor,
         DisableChannel, EnableChannel, RemoveChannel
<1>2. \/ UNCHANGED <<row, delivery, incident>>
      \/ CancelEvents /\ incident' = incident
      \/ CancelEvents /\ CancelIncident /\ persist.pc = "idle"
  BY DEF ApiNext, PauseMonitor, ResumeMonitor, RemoveMonitor, UpdateMonitor,
         DisableChannel, EnableChannel, RemoveChannel, MonitorFree
<1>3. /\ \A p \in Processors : Still(p)
      /\ \A d \in Dispatchers : dpc'[d] # "idle" => row[devent'[d]].status # "ABSENT"
      /\ \A e \in Events : row[e].status = "ABSENT" => job'[e] = "absent"
  BY <1>1 DEF Still, IInv, References
<1>4. CASE UNCHANGED <<row, delivery, incident>>
  BY <1>1, <1>3, <1>4, UnseenQuiet
<1>5. CASE CancelEvents
  <2>1. \A e \in Events :
           /\ row[e] \in Rows
           /\ row'[e].kind = row[e].kind /\ row'[e].attempts = row[e].attempts
           /\ row'[e].withheld = row[e].withheld
           /\ row'[e].status = IF row[e].status \in OpenStatus
                               THEN "CANCELED" ELSE row[e].status
           /\ delivery'[e] = delivery[e] \/ delivery'[e] = ForgetAttempts(e)
           /\ delivery'[e] = IF row[e].status = "PROCESSING"
                             THEN ForgetAttempts(e) ELSE delivery[e]
    BY <1>5, CancelRows DEF IInv, TypeOK
  <2>2. \A e \in Events : Moves(row[e], row'[e])
    BY <2>1 DEF Moves, Rows, Statuses, OpenStatus, Terminal
  <2>3. \A e \in Events : HoldKept(row[e], row'[e])
    BY <2>1 DEF HoldKept, OpenStatus, Terminal
  <2>4. /\ \/ incident' = incident
           \/ incident = "OPEN" /\ incident' = "CANCELED" /\ persist'.pc # "resolving"
    BY <1>1, <1>2 DEF CancelIncident
  <2>5. /\ persist'.pc = "opening" => incident = "NONE"
        /\ persist'.pc = "resolving" => incident = "OPEN"
    BY <1>1 DEF IInv, References
  <2>a. \A e \in Events : NoneOpened(e)
    BY <2>1, ForgetOpensNone
  <2>6. QED BY <1>1, <1>3, <2>1, <2>2, <2>3, <2>4, <2>5, <2>a DEF QuietMove
<1>6. QED BY <1>2, <1>4, <1>5

\* The clock is quiet: where it ends a lease, the holder knows.
LEMMA ClockQuiet ==
    ASSUME IInv, ClockNext
    PROVE  QuietMove
<1> USE DEF adminVars, rowVars, dispVars, procVars
<1>1. UNCHANGED <<incident, delivery, accepted, job, persist, dpc, devent, ppc, pevent, pattempt>>
  BY DEF ClockNext, ExpireLease, BecomeReady
<1>2. /\ persist'.pc = "opening" => incident = "NONE"
      /\ persist'.pc = "resolving" => incident = "OPEN"
      /\ \A d \in Dispatchers : dpc'[d] # "idle" => row[devent'[d]].status # "ABSENT"
      /\ \A e \in Events : row[e].status = "ABSENT" => job'[e] = "absent"
  BY <1>1 DEF IInv, References
<1>3. ASSUME NEW e \in Events, ExpireLease(e) PROVE QuietMove
  <2> DEFINE q == [row[e] EXCEPT !.lease = "EXPIRED"]
  <2>1. row' = [row EXCEPT ![e] = q] /\ row[e] \in Rows
    BY <1>3 DEF ExpireLease, IInv, TypeOK
  <2>2. /\ q.kind = row[e].kind /\ q.attempts = row[e].attempts
        /\ q.status = row[e].status /\ q.secret = row[e].secret
    BY <2>1 DEF Rows
  <2> HIDE DEF q
  <2>3. Moves(row[e], q)
    BY <2>1, <2>2 DEF Moves, Rows, Statuses, OpenStatus, Terminal
  <2>4. \A f \in Events : /\ f = e => row'[f] = q
                          /\ f # e => row'[f] = row[f] /\ row[f] \in Rows
    BY <2>1 DEF IInv, TypeOK
  <2>5. \A f \in Events : Moves(row[f], row'[f])
    BY <2>3, <2>4, SameRow
  <2>6. \A p \in Processors : pfresh'[p] => pfresh[p] /\ pevent[p] # e
    BY <1>3 DEF ExpireLease
  <2>7. \A f \in Events :
           \/ HoldKept(row[f], row'[f])
           \/ \A p \in Processors :
                  Begun(p) /\ pevent[p] = f /\ pfresh[p] => ~Begun(p)' \/ ~pfresh'[p]
    BY <2>4, <2>6, SameRow
  <2>8. \A p \in Processors : Still(p)
    BY <1>1, <2>6 DEF Still
  <2>9. QED BY <1>1, <1>2, <2>5, <2>7, <2>8, ForgetOpensNone DEF QuietMove
<1>4. ASSUME NEW e \in Events, BecomeReady(e) PROVE QuietMove
  <2> DEFINE q == [row[e] EXCEPT !.ready = TRUE]
  <2>1. row' = [row EXCEPT ![e] = q] /\ row[e] \in Rows /\ pfresh' = pfresh
    BY <1>4 DEF BecomeReady, IInv, TypeOK
  <2>2. /\ q.kind = row[e].kind /\ q.attempts = row[e].attempts
        /\ q.status = row[e].status /\ q.secret = row[e].secret
        /\ q.withheld = row[e].withheld /\ q.lease = row[e].lease /\ q.owner = row[e].owner
    BY <2>1 DEF Rows
  <2> HIDE DEF q
  <2>3. Moves(row[e], q) /\ HoldKept(row[e], q)
    BY <2>1, <2>2 DEF Moves, HoldKept, Rows, Statuses, OpenStatus, Terminal
  <2>4. \A f \in Events : /\ f = e => row'[f] = q
                          /\ f # e => row'[f] = row[f] /\ row[f] \in Rows
    BY <2>1 DEF IInv, TypeOK
  <2>5. \A f \in Events : Moves(row[f], row'[f]) /\ HoldKept(row[f], row'[f])
    BY <2>3, <2>4, SameRow
  <2>6. \A p \in Processors : Still(p)
    BY <1>1, <2>1 DEF Still
  <2>7. QED BY <1>1, <1>2, <2>5, <2>6, ForgetOpensNone DEF QuietMove
<1>5. QED BY <1>3, <1>4 DEF ClockNext

\* A dispatcher is quiet: it takes no row from a live processor and ends no
\* event but by canceling it.
LEMMA DispatchQuiet ==
    ASSUME IInv, NEW d \in Dispatchers, Dispatch(d) \/ \E e \in Events : Scan(d, e)
    PROVE  QuietMove
<1> USE DEF adminVars, rowVars, dispVars, procVars
<1>0. TypeOK
  BY DEF IInv
<1>1. UNCHANGED <<incident, delivery, accepted, persist, ppc, pevent, pattempt, pfresh>>
  BY <1>0, DispatchFrame
<1>2. PICK to \in {"idle", "order", "claim", "defer", "drop", "withhold",
                   "withholdKept", "register", "mark", "requeue"}, e \in Events :
          /\ dpc' = [dpc EXCEPT ![d] = to]
          /\ devent' = [devent EXCEPT ![d] = IF to = "idle" THEN 1 ELSE e]
          /\ to # "idle" => (e = devent[d] /\ dpc[d] # "idle") \/ Available(row[e])
          /\ \A f \in Events : job'[f] # job[f] => dpc[d] # "idle" /\ f = devent[d]
  BY <1>0, DispatchFrame
<1>3. \A f \in Dispatchers : dpc'[f] # "idle" => row[devent'[f]].status # "ABSENT"
  BY <1>0, <1>2 DEF IInv, References, Available, TypeOK
<1>4. \A f \in Events : row[f].status = "ABSENT" => job'[f] = "absent"
  BY <1>2 DEF IInv, References
<1>5. \A f \in Events : Moves(row[f], row'[f]) /\ HoldKept(row[f], row'[f])
  <2>1. CASE row' = row
    BY <1>0, <2>1, SameRow DEF TypeOK
  <2>2. ASSUME NEW f \in Events, NEW q \in Rows, DispatchMoves(row[f], q),
               row' = [row EXCEPT ![f] = q]
        PROVE  \A g \in Events : Moves(row[g], row'[g]) /\ HoldKept(row[g], row'[g])
    <3>1. Moves(row[f], q) /\ HoldKept(row[f], q)
      BY <2>2 DEF DispatchMoves, Moves, HoldKept, Rows, Statuses, OpenStatus, Terminal
    <3>2. \A g \in Events : /\ g = f => row'[g] = q
                            /\ g # f => row'[g] = row[g] /\ row[g] \in Rows
      BY <1>0, <2>2 DEF TypeOK
    <3>3. QED BY <3>1, <3>2, SameRow
  <2>3. QED BY <1>0, <2>1, <2>2, DispatchRows
<1>6. \A p \in Processors : Still(p)
  BY <1>1 DEF Still
<1>7. /\ persist'.pc = "opening" => incident = "NONE"
      /\ persist'.pc = "resolving" => incident = "OPEN"
  BY <1>1 DEF IInv, References
<1>8. QED BY <1>1, <1>3, <1>4, <1>5, <1>6, <1>7, ForgetOpensNone DEF QuietMove

\* Housekeeping and faults are quiet: what a crash forgets is not in the rows.
LEMMA QueueAndFaultQuiet ==
    ASSUME IInv, (\E e \in Events : SweepStalledJob(e)) \/ FaultNext
    PROVE  QuietMove
<1> USE DEF adminVars, rowVars, dispVars, procVars
<1>1. UNCHANGED <<row, delivery, accepted, incident>>
  BY DEF FaultNext, SweepStalledJob, PersistFails, LoseJob, DispatchCallFails,
         DispatcherCrash, ProcessorCrash, ProcessorThrows, DispGoes, DispWorks
<1>2. persist' = persist \/ persist'.pc = "idle"
  BY DEF FaultNext, SweepStalledJob, PersistFails, LoseJob, DispatchCallFails,
         DispatcherCrash, ProcessorCrash, ProcessorThrows, EndJob, DispGoes, DispWorks, Idle
<1>3. \A e \in Events : row[e].status = "ABSENT" => job[e] = "absent"
  BY DEF IInv, References
<1>4. /\ \A d \in Dispatchers : dpc[d] # "idle" => row[devent[d]].status # "ABSENT"
      /\ \A p \in Processors : ppc[p] # "idle" => row[pevent[p]].status # "ABSENT"
  BY DEF IInv, References
<1>5. \A e \in Events : row[e].status = "ABSENT" => job'[e] = "absent"
  <2>1. ASSUME NEW e \in Events, SweepStalledJob(e) PROVE job[e] # "absent"
    BY <2>1, OutboxAssumption DEF SweepStalledJob, Orphaned
  <2>2. ASSUME NEW e \in Events, SweepStalledJob(e) \/ LoseJob(e)
        PROVE  job[e] # "absent" /\ \A f \in Events : f # e => job'[f] = job[f]
    BY <2>1, <2>2 DEF SweepStalledJob, LoseJob, IInv, TypeOK
  <2>3. ASSUME NEW p \in Processors, ProcessorThrows(p)
        PROVE  ppc[p] # "idle" /\ \A f \in Events : f # pevent[p] => job'[f] = job[f]
    BY <2>3 DEF ProcessorThrows, EndJob, IInv, TypeOK
  <2>4. \/ \E e \in Events : SweepStalledJob(e) \/ LoseJob(e)
        \/ \E p \in Processors : ProcessorThrows(p)
        \/ job' = job
    BY DEF FaultNext, PersistFails, DispatchCallFails, DispatcherCrash, ProcessorCrash,
           DispGoes, DispWorks
  <2>5. QED BY <1>3, <1>4, <2>2, <2>3, <2>4
<1>6. \A d \in Dispatchers : dpc'[d] # "idle" => row[devent'[d]].status # "ABSENT"
  <2>1. ASSUME NEW d \in Dispatchers, DispatchCallFails(d) \/ DispatcherCrash(d)
        PROVE  \A f \in Dispatchers :
                   \/ dpc'[f] = dpc[f] /\ devent'[f] = devent[f]
                   \/ dpc'[f] = "idle"
                   \/ dpc[f] # "idle" /\ devent'[f] = devent[f]
    BY <2>1 DEF DispatchCallFails, DispatcherCrash, DispGoes, DispWorks, IInv, TypeOK
  <2>2. \/ \E d \in Dispatchers : DispatchCallFails(d) \/ DispatcherCrash(d)
        \/ dpc' = dpc /\ devent' = devent
    BY DEF FaultNext, SweepStalledJob, PersistFails, LoseJob, ProcessorCrash, ProcessorThrows
  <2>3. QED BY <1>4, <2>1, <2>2
<1>7. \A p \in Processors : Still(p)
  <2>1. ASSUME NEW p \in Processors, ProcRests(p) PROVE \A q \in Processors : Still(q)
    BY <2>1 DEF ProcRests, Still, IInv, TypeOK
  <2>2. \/ \E p \in Processors : ProcRests(p)
        \/ UNCHANGED <<ppc, pevent, pattempt, pfresh>>
    BY DEF FaultNext, SweepStalledJob, PersistFails, LoseJob, DispatchCallFails,
           DispatcherCrash, ProcessorCrash, ProcessorThrows, EndJob, DispGoes, DispWorks
  <2>3. QED BY <2>1, <2>2 DEF Still
<1>8. QED BY <1>1, <1>2, <1>5, <1>6, <1>7, UnseenQuiet

\* Taking a job is quiet: only an event with a row has one.
LEMMA TakeJobQuiet ==
    ASSUME IInv, NEW p \in Processors, NEW e \in Events, TakeJob(p, e)
    PROVE  QuietMove
<1> USE DEF adminVars, rowVars, dispVars
<1>1. row[e].status # "ABSENT"
  BY DEF TakeJob, IInv, References
<1>2. \A q \in Processors : Still(q)
  BY <1>1 DEF TakeJob, Still, IInv, TypeOK
<1>3. \A f \in Events : row[f].status = "ABSENT" => job'[f] = "absent"
  BY <1>1 DEF TakeJob, IInv, References, TypeOK
<1>4. \A d \in Dispatchers : dpc'[d] # "idle" => row[devent'[d]].status # "ABSENT"
  BY DEF TakeJob, IInv, References
<1>5. UNCHANGED <<row, delivery, accepted, incident, persist>>
  BY DEF TakeJob
<1>6. QED BY <1>2, <1>3, <1>4, <1>5, UnseenQuiet

\* A processor that ends its job leaves the others as they were.
LEMMA EndJobFrame ==
    ASSUME IInv, NEW p \in Processors, EndJob(p), ppc[p] # "idle",
           UNCHANGED <<incident, persist, dispVars>>
    PROVE  /\ \A q \in Processors : Still(q)
           /\ ~Begun(p)'
           /\ \A f \in Events : row[f].status = "ABSENT" => job'[f] = "absent"
           /\ \A d \in Dispatchers : dpc'[d] # "idle" => row[devent'[d]].status # "ABSENT"
           /\ persist'.pc = "opening" => incident = "NONE"
           /\ persist'.pc = "resolving" => incident = "OPEN"
<1> USE DEF IInv, EndJob, ProcRests
<1>1. \A q \in Processors : Still(q)
  BY DEF Still, TypeOK
<1>2. ~Begun(p)'
  BY DEF Begun, TypeOK
<1>3. \A f \in Events : row[f].status = "ABSENT" => job'[f] = "absent"
  <2>1. row[pevent[p]].status # "ABSENT"
    BY DEF References
  <2>2. \A f \in Events : f # pevent[p] => job'[f] = job[f]
    BY DEF TypeOK
  <2>3. QED BY <2>1, <2>2 DEF References
<1>4. QED BY <1>1, <1>2, <1>3 DEF References, dispVars

\* An event of this processor that ends or is requeued takes no other one's
\* row; a RECOVERY that is withheld with it is under nobody's lease.
LEMMA RowsMove ==
    ASSUME IInv, NEW e \in Events, row[e].status \in OpenStatus,
           row' = WithDownFailed(e, Failed(row[e])) \/ row' = [row EXCEPT ![e] = Requeued(row[e])]
    PROVE  /\ \A f \in Events : Moves(row[f], row'[f])
           /\ \A f \in Events : f # e => HoldKept(row[f], row'[f])
           /\ row[e].status # "PROCESSING" \/ row[e].lease # "LIVE" => HoldKept(row[e], row'[e])
<1>0. \A f \in Events : row[f] \in Rows
  BY DEF IInv, TypeOK
<1>1. CASE row' = WithDownFailed(e, Failed(row[e]))
  <2>1. /\ row'[e] = Failed(row[e])
        /\ e = 1 => row'[2] = Withhold(row[2])
        /\ e = 2 => row'[1] = row[1]
    BY <1>1, FailedRows DEF IInv
  <2>2. Moves(row[e], row'[e])
    BY <1>0, <2>1, FailedRow DEF Moves, OpenStatus, Terminal
  <2>3. HoldKept(row[e], row'[e])
    BY <1>0, <2>1, FailedRow DEF HoldKept, Terminal
  <2>4. ASSUME e = 1 PROVE Moves(row[2], row'[2]) /\ HoldKept(row[2], row'[2])
    <3> DEFINE q == Withhold(row[2])
    <3>1. /\ q = row[2] \/ (/\ row[2].status \in {"PENDING", "RETRY", "ENQUEUED"}
                            /\ q.status = "CANCELED")
          /\ q.kind = row[2].kind /\ q.attempts = row[2].attempts
          /\ row[2] \in Rows
      BY <1>0, WithholdRow DEF Events
    <3> HIDE DEF q
    <3>2. Moves(row[2], q) /\ HoldKept(row[2], q)
      BY <3>1, SameRow DEF Moves, HoldKept, OpenStatus, Terminal
    <3>3. QED BY <2>1, <2>4, <3>2 DEF q
  <2>5. QED BY <1>0, <2>1, <2>2, <2>3, <2>4, SameRow DEF Events
<1>2. CASE row' = [row EXCEPT ![e] = Requeued(row[e])]
  <2>1. row'[e] = Requeued(row[e]) /\ \A f \in Events : f # e => row'[f] = row[f]
    BY <1>2 DEF IInv, TypeOK
  <2>2. Moves(row[e], row'[e])
    BY <1>0, <2>1, RequeuedRow DEF Moves, OpenStatus, Terminal
  <2>3. row[e].status # "PROCESSING" \/ row[e].lease # "LIVE" => HoldKept(row[e], row'[e])
    BY DEF HoldKept, OpenStatus, Terminal
  <2>4. QED BY <1>0, <2>1, <2>2, <2>3, SameRow
<1>3. QED BY <1>1, <1>2

\* A claim that starts nothing is quiet.
LEMMA ClaimNothingQuiet ==
    ASSUME IInv, NEW p \in Processors, ClaimNothing(p)
    PROVE  QuietMove
<1> DEFINE e == pevent[p]
<1>0. /\ e \in Events /\ row[e] \in Rows /\ row[e].status # "ABSENT"
      /\ \A f \in Events : row[f] \in Rows
  BY DEF ClaimNothing, IInv, TypeOK, References
<1>1. UNCHANGED <<incident, accepted, persist, dispVars>> /\ EndJob(p) /\ ppc[p] # "idle"
  BY DEF ClaimNothing
<1>2. /\ \A q \in Processors : Still(q)
      /\ \A f \in Events : row[f].status = "ABSENT" => job'[f] = "absent"
      /\ \A d \in Dispatchers : dpc'[d] # "idle" => row[devent'[d]].status # "ABSENT"
      /\ persist'.pc = "opening" => incident = "NONE"
      /\ persist'.pc = "resolving" => incident = "OPEN"
  BY <1>1, EndJobFrame
<1>3. delivery' = delivery \/ delivery' = [delivery EXCEPT ![e] = ForgetAttempts(e)]
  BY ClaimNothingRows DEF IInv
<1>4. \A f \in Events : /\ NoneOpened(f)
                        /\ row[f].status = "ABSENT" => delivery'[f] = delivery[f]
  <2>1. \A f \in Events : f # e => delivery'[f] = delivery[f]
    BY <1>3 DEF IInv, TypeOK
  <2>2. delivery'[e] = delivery[e] \/ delivery'[e] = ForgetAttempts(e)
    BY <1>0, <1>3 DEF IInv, TypeOK
  <2> HIDE DEF e
  <2>3. QED BY <1>0, <2>1, <2>2, ForgetOpensNone
<1>5. \A f \in Events : Moves(row[f], row'[f]) /\ HoldKept(row[f], row'[f])
  <2>1. CASE row' = row
    BY <1>0, <2>1, SameRow
  <2>2. ASSUME NEW q \in Rows, row' = [row EXCEPT ![e] = q],
               q.kind = row[e].kind, q.attempts = row[e].attempts,
               q.withheld = row[e].withheld \/ ~q.withheld,
               \/ row[e].status \in Terminal /\ q.status = row[e].status
               \/ row[e].status \notin Terminal /\ q.status = "CANCELED"
        PROVE  \A f \in Events : Moves(row[f], row'[f]) /\ HoldKept(row[f], row'[f])
    <3>1. row'[e] = q /\ \A f \in Events : f # e => row'[f] = row[f]
      BY <1>0, <2>2 DEF IInv, TypeOK
    <3>2. Moves(row[e], q) /\ HoldKept(row[e], q)
      BY <1>0, <2>2 DEF Moves, HoldKept, Rows, Statuses, OpenStatus, Terminal
    <3> HIDE DEF e
    <3>3. QED BY <1>0, <3>1, <3>2, SameRow
  <2>3. CASE Claimable(row[e]) /\ row' = WithDownFailed(e, Failed(row[e]))
    <3>1. row[e].status \in OpenStatus /\ (row[e].status # "PROCESSING" \/ row[e].lease # "LIVE")
      BY <2>3 DEF Claimable, OpenStatus
    <3> HIDE DEF e
    <3>2. QED BY <1>0, <2>3, <3>1, RowsMove
  <2>4. QED BY <2>1, <2>2, <2>3, ClaimNothingRows DEF IInv
<1>6. QED BY <1>1, <1>2, <1>4, <1>5 DEF QuietMove

\* The failure of an attempt is quiet: if the row is still its own, nobody else
\* works on it inside a lease.
LEMMA MarkFailedQuiet ==
    ASSUME IInv, NEW p \in Processors, MarkFailed(p)
    PROVE  QuietMove
<1> DEFINE e == pevent[p]
           a == pattempt[p]
<1>0. /\ e \in Events /\ row[e] \in Rows /\ row[e].status # "ABSENT"
      /\ \A f \in Events : row[f] \in Rows
      /\ Begun(p)
  BY DEF MarkFailed, IInv, TypeOK, References, Begun
<1>1. UNCHANGED <<incident, accepted, persist, dispVars>> /\ EndJob(p) /\ ppc[p] # "idle"
  BY DEF MarkFailed
<1>2. /\ \A q \in Processors : Still(q)
      /\ ~Begun(p)'
      /\ \A f \in Events : row[f].status = "ABSENT" => job'[f] = "absent"
      /\ \A d \in Dispatchers : dpc'[d] # "idle" => row[devent'[d]].status # "ABSENT"
      /\ persist'.pc = "opening" => incident = "NONE"
      /\ persist'.pc = "resolving" => incident = "OPEN"
  BY <1>1, EndJobFrame
<1>3. \A f \in Events : /\ NoneOpened(f)
                        /\ row[f].status = "ABSENT" => delivery'[f] = delivery[f]
  <2>1. PICK o \in {"UNKNOWN", "FAILED"} : delivery' = [delivery EXCEPT ![e][a] = o]
    BY DEF MarkFailed
  <2>2. delivery[e][a] # "SUCCEEDED"
    BY <1>0 DEF IInv, References
  <2> HIDE DEF e, a
  <2>3. \A f \in Events, b \in 1..MaxAttempts :
            delivery'[f][b] = IF f = e /\ b = a THEN o ELSE delivery[f][b]
    BY <1>0, <2>1 DEF IInv, TypeOK
  <2>4. \A f \in Events : f # e => delivery'[f] = delivery[f]
    BY <2>1 DEF IInv, TypeOK
  <2>5. QED BY <1>0, <2>2, <2>3, <2>4 DEF NoneOpened
<1>4. \A f \in Events :
          /\ Moves(row[f], row'[f])
          /\ \/ HoldKept(row[f], row'[f])
             \/ \A q \in Processors :
                    Begun(q) /\ pevent[q] = f /\ pfresh[q] => ~Begun(q)' \/ ~pfresh'[q]
  <2>1. CASE row' = row
    BY <1>0, <2>1, SameRow
  <2>2. CASE row' # row
    <3>1. /\ OwnAttempt(row[e], a)
          /\ \/ row' = [row EXCEPT ![e] = Requeued(row[e])]
             \/ row' = WithDownFailed(e, Failed(row[e]))
      BY <2>2, MarkFailedRows DEF IInv
    <3>2. row[e].status = "PROCESSING" /\ row[e].attempts = a /\ row[e].status \in OpenStatus
      BY <3>1 DEF OwnAttempt, OpenStatus
    <3>3. ASSUME NEW q \in Processors, Begun(q), pevent[q] = e, pfresh[q] PROVE q = p
      <4>1. pattempt[q] = a
        BY <3>2, <3>3 DEF IInv, FreshHoldsLease, Terminal
      <4>2. QED BY <1>0, <3>3, <4>1 DEF IInv, AttemptsDiffer
    <3> HIDE DEF e, a
    <3>4. /\ \A f \in Events : Moves(row[f], row'[f])
          /\ \A f \in Events : f # e => HoldKept(row[f], row'[f])
      BY <1>0, <3>1, <3>2, RowsMove
    <3>5. QED BY <1>2, <3>3, <3>4
  <2>3. QED BY <2>1, <2>2
<1>5. QED BY <1>1, <1>2, <1>3, <1>4 DEF QuietMove

\* Opening the incident: its row is the first, so nobody works on one yet.
LEMMA OpenSafe ==
    ASSUME IInv, TypeOK', OpenIncident
    PROVE  IInv'
<1> USE DEF IInv, adminVars, rowVars, dispVars, procVars
<1>1. /\ row[1].status = "ABSENT" /\ row[2].status = "ABSENT"
      /\ row[1] \in Rows /\ row[2] \in Rows /\ row'[2] = row[2]
      /\ incident' = "OPEN" /\ persist'.pc = "idle"
      /\ UNCHANGED <<delivery, accepted, job, dpc, devent, ppc, pevent, pattempt, pfresh>>
  BY DEF OpenIncident, References, TypeOK, Events, Idle
<1>2. \A e \in Events : delivery[e] = NoDelivery /\ job[e] = "absent" /\ e \notin accepted
  BY <1>1 DEF References, Events, TypeOK
<1>3. /\ \A d \in Dispatchers : dpc[d] = "idle"
      /\ \A p \in Processors : ppc[p] = "idle"
  <2>1. /\ \A d \in Dispatchers : devent[d] = 1 \/ devent[d] = 2
        /\ \A p \in Processors : pevent[p] = 1 \/ pevent[p] = 2
    BY DEF TypeOK, Events
  <2>2. /\ \A d \in Dispatchers : row[devent[d]].status = "ABSENT"
        /\ \A p \in Processors : row[pevent[p]].status = "ABSENT"
    BY <1>1, <2>1
  <2>3. QED BY <2>2 DEF References
<1>4. row'[1] = row[1] \/ row'[1] = NewRow("DOWN", TRUE)
  BY DEF OpenIncident, TypeOK, Events
<1>5. /\ row'[1].status \in {"ABSENT", "PENDING"} /\ row'[1].kind \in {"NONE", "DOWN"}
      /\ row'[1].attempts = 0
      /\ row'[1].status = "ABSENT" => row'[1].kind = "NONE"
      /\ row'[1].status = "PENDING" => row'[1].secret
      /\ row'[2].status = "ABSENT" /\ row'[2].kind = "NONE" /\ row'[2].attempts = 0
  <2>1. /\ row[1].kind = "NONE" /\ row[1].attempts = 0
        /\ row[2].kind = "NONE" /\ row[2].attempts = 0
    BY <1>1 DEF References, Events
  <2>2. QED BY <1>1, <1>4, <2>1, NewRowFields DEF Kinds
<1>6. References'
  BY <1>1, <1>2, <1>3, <1>5 DEF References, Begun, Events, NoDelivery
<1>7. OneAttemptUnderWay' /\ \A e \in Events : ~Succeeded(e)'
  BY <1>1, <1>2 DEF OneAttemptUnderWay, Succeeded, NoDelivery
<1>8. ConfirmedAttemptWins' /\ RecoveryAfterDown' /\ SummaryReplacesDown'
  BY <1>5, <1>7 DEF ConfirmedAttemptWins, RecoveryAfterDown, SummaryReplacesDown, Events
<1>9. SettledStays' /\ OpenDownHasSecret'
  BY <1>1, <1>5 DEF SettledStays, OpenDownHasSecret, OpenStatus
<1>10. AttemptsDiffer' /\ FreshHoldsLease' /\ SenderExclusive'
  BY <1>1, <1>3 DEF AttemptsDiffer, FreshHoldsLease, SenderExclusive, Begun
<1>11. QED BY <1>6, <1>7, <1>8, <1>9, <1>10

\* Resolving the incident.  Row 2 is new.  Row 1 is canceled only while it was
\* never tried, so no processor works on it; it loses its destination only if
\* it is settled, because a DOWN that was settled when it was read still is.
LEMMA ResolveSafe ==
    ASSUME IInv, TypeOK', ResolveIncident
    PROVE  IInv'
<1> USE DEF IInv, adminVars, rowVars, dispVars, procVars
<1>1. /\ persist.pc = "resolving" /\ incident = "OPEN"
      /\ incident' = "RESOLVED" /\ persist'.pc = "idle"
      /\ UNCHANGED <<delivery, accepted, job, dpc, devent, ppc, pevent, pattempt, pfresh>>
  BY DEF ResolveIncident, References, Idle
<1>2. /\ row[1] \in Rows /\ row[2] \in Rows /\ persist.down \in Rows
      /\ row[2].status = "ABSENT" /\ row[2].kind = "NONE" /\ row[2].attempts = 0
      /\ delivery[2] = NoDelivery /\ job[2] = "absent" /\ 2 \notin accepted
  BY <1>1 DEF References, TypeOK, Events
<1>3. /\ \A d \in Dispatchers : dpc[d] # "idle" => devent[d] = 1
      /\ \A p \in Processors : ppc[p] # "idle" => pevent[p] = 1
  BY <1>2 DEF References, TypeOK, Events
<1>4. \/ row'[2] = row[2]
      \/ row'[2] \in {NewRow("RECOVERY", persist.down.secret),
                      NewRow("RESOLVED_SUMMARY", persist.down.secret)}
  BY ResolveRows DEF TypeOK, Events
<1>5. /\ row'[2].attempts = 0
      /\ row'[2].status \in {"ABSENT", "PENDING"}
      /\ row'[2].status = "ABSENT" => row'[2].kind = "NONE"
  <2>1. persist.down.secret \in BOOLEAN
    BY <1>2 DEF Rows
  <2>2. QED BY <1>2, <1>4, <2>1, NewRowFields DEF Kinds
<1>6. \/ row'[1] = row[1] /\ row'[2].kind # "RESOLVED_SUMMARY"
      \/ /\ \E s \in Statuses : /\ s \in Terminal => row[1].status \in Terminal
                                /\ row'[1] = AfterResolve(row[1], s)
         /\ row'[2].kind # "RESOLVED_SUMMARY"
      \/ /\ Unsent(row[1])
         /\ row'[1] = Retire(Settle(row[1], "CANCELED"))
  <2>1. persist.down.status \in Terminal => row[1].status \in Terminal
    BY <1>1 DEF SettledStays
  <2>2. persist.down.secret \in BOOLEAN
    BY <1>2 DEF Rows
  <2>3. NewRow("RECOVERY", persist.down.secret).kind = "RECOVERY"
    BY <2>2, NewRowFields DEF Kinds
  <2>4. QED BY <1>2, <2>1, <2>3, ResolveRows DEF TypeOK, Events
<1> DEFINE Kept ==
           /\ row'[1].kind = row[1].kind /\ row'[1].attempts = row[1].attempts
           /\ row'[1].withheld = row[1].withheld
           /\ \/ /\ row'[1].status = row[1].status /\ row'[1].lease = row[1].lease
                 /\ row'[1].owner = row[1].owner
              \/ row'[1].status = "CANCELED" /\ Unsent(row[1])
           /\ row'[1].status \in OpenStatus => row'[1].secret = row[1].secret
           /\ row'[2].kind = "RESOLVED_SUMMARY" =>
                  row'[1].status = "CANCELED" /\ Unsent(row[1])
<1>7. Kept
  <2>1. CASE row'[1] = row[1] /\ row'[2].kind # "RESOLVED_SUMMARY"
    BY <2>1
  <2>2. ASSUME NEW s \in Statuses, s \in Terminal => row[1].status \in Terminal,
               row'[1] = AfterResolve(row[1], s), row'[2].kind # "RESOLVED_SUMMARY"
        PROVE  Kept
    <3>1. CASE s \notin Terminal
      BY <2>2, <3>1 DEF AfterResolve
    <3>2. CASE s \in Terminal
      <4>1. row'[1] = Retire(row[1]) /\ row[1].status \in Terminal
        BY <2>2, <3>2 DEF AfterResolve
      <4> DEFINE q == Retire(row[1])
      <4>2. /\ q.kind = row[1].kind /\ q.status = row[1].status
            /\ q.attempts = row[1].attempts /\ q.withheld = row[1].withheld
            /\ q.lease = row[1].lease /\ q.owner = row[1].owner
        BY <1>2, RetireRow
      <4> HIDE DEF q
      <4>3. row'[1] = q
        BY <4>1 DEF q
      <4>4. q.status \notin OpenStatus
        BY <4>1, <4>2 DEF OpenStatus, Terminal
      <4>5. QED BY <2>2, <4>2, <4>3, <4>4
    <3>3. QED BY <3>1, <3>2
  <2>3. CASE Unsent(row[1]) /\ row'[1] = Retire(Settle(row[1], "CANCELED"))
    <3> DEFINE c == Settle(row[1], "CANCELED")
    <3>0. "CANCELED" \in Statuses
      BY DEF Statuses, Terminal
    <3>1. /\ c \in Rows /\ c.kind = row[1].kind /\ c.attempts = row[1].attempts
          /\ c.withheld = row[1].withheld /\ c.status = "CANCELED"
      BY <1>2, <3>0, SettleRow
    <3> HIDE DEF c
    <3>2. row'[1] = Retire(c) /\ Unsent(row[1])
      BY <2>3 DEF c
    <3> DEFINE q == Retire(c)
    <3>a. /\ q.kind = c.kind /\ q.attempts = c.attempts
          /\ q.withheld = c.withheld /\ q.status = c.status
      BY <3>1, RetireRow
    <3> HIDE DEF q
    <3>3. /\ row'[1].kind = c.kind /\ row'[1].attempts = c.attempts
          /\ row'[1].withheld = c.withheld /\ row'[1].status = c.status
      BY <3>2, <3>a DEF q
    <3>4. "CANCELED" \notin OpenStatus
      BY DEF OpenStatus
    <3>5. QED BY <3>1, <3>2, <3>3, <3>4
  <2>4. QED BY <1>6, <2>1, <2>2, <2>3
<1>8. /\ row'[1].kind = row[1].kind /\ row'[1].attempts = row[1].attempts
      /\ row'[1].withheld = row[1].withheld
      /\ \/ /\ row'[1].status = row[1].status /\ row'[1].lease = row[1].lease
            /\ row'[1].owner = row[1].owner
         \/ row'[1].status = "CANCELED" /\ row[1].attempts = 0
                /\ row[1].status \in {"PENDING", "ENQUEUED"}
      /\ row'[1].status \in OpenStatus => row'[1].secret = row[1].secret
      /\ row'[2].kind = "RESOLVED_SUMMARY" =>
             row'[1].status = "CANCELED" /\ row[1].attempts = 0
  BY <1>7 DEF Unsent
<1> HIDE DEF Kept
<1>9. \A p \in Processors : Begun(p) => row[1].attempts # 0 /\ pevent[p] = 1
  BY <1>2, <1>3 DEF Begun, References, Rows
<1>10. References'
  <2>1. row'[1].status = "ABSENT" <=> row[1].status = "ABSENT"
    BY <1>8
  <2>2. \A e \in Events :
           /\ row'[e].status = "ABSENT" =>
                  /\ row'[e].kind = "NONE" /\ row'[e].attempts = 0 /\ job'[e] = "absent"
                  /\ delivery'[e] = NoDelivery
           /\ e \in accepted' => row'[e].attempts > 0
    BY <1>1, <1>2, <1>5, <1>8, <2>1 DEF References, Events
  <2>3. /\ \A d \in Dispatchers : dpc'[d] # "idle" => row'[devent'[d]].status # "ABSENT"
        /\ \A p \in Processors :
               /\ ppc'[p] # "idle" => row'[pevent'[p]].status # "ABSENT"
               /\ Begun(p)' => /\ pattempt'[p] \in 1..row'[pevent'[p]].attempts
                               /\ delivery'[pevent'[p]][pattempt'[p]] # "SUCCEEDED"
               /\ ppc'[p] = "confirmed" => pevent'[p] \in accepted'
    BY <1>1, <1>3, <1>8, <2>1 DEF References, Begun
  <2>4. incident' = "NONE" => row'[1].status = "ABSENT"
    BY <1>1
  <2>5. row'[1].kind \in {"NONE", "DOWN"}
    BY <1>8 DEF References
  <2>6. QED BY <1>1, <2>2, <2>3, <2>4, <2>5 DEF References, NoDelivery
<1>11. OneAttemptUnderWay'
  BY <1>1, <1>2, <1>8 DEF OneAttemptUnderWay, Events, NoDelivery
<1>12. ConfirmedAttemptWins'
  BY <1>1, <1>2, <1>5, <1>8 DEF ConfirmedAttemptWins, Succeeded, Events
<1>13. RecoveryAfterDown' /\ SummaryReplacesDown'
  BY <1>1, <1>2, <1>5, <1>8 DEF RecoveryAfterDown, SummaryReplacesDown, References, Events
<1>14. SettledStays' /\ OpenDownHasSecret'
  BY <1>1, <1>8 DEF SettledStays, OpenDownHasSecret, OpenStatus
<1>15. AttemptsDiffer' /\ SenderExclusive'
  BY <1>1 DEF AttemptsDiffer, SenderExclusive, Begun
<1>16. FreshHoldsLease'
  BY <1>1, <1>8, <1>9 DEF FreshHoldsLease, Begun
<1>17. QED BY <1>10, <1>11, <1>12, <1>13, <1>14, <1>15, <1>16

\* Claiming an event.  A row that can be claimed is open and under no live
\* lease, so no processor inside its own works on it; its number of attempts is
\* new, and the attempts before it are no longer under way.
LEMMA ClaimSafe ==
    ASSUME IInv, TypeOK', NEW p \in Processors, ClaimEvent(p)
    PROVE  IInv'
<1> USE DEF adminVars, dispVars
<1> DEFINE e == pevent[p]
           a == row[e].attempts + 1
           q == [Lease(row[e], "PROCESSING", p) EXCEPT !.attempts = a, !.withheld = FALSE]
           s == [ForgetAttempts(e) EXCEPT ![a] = "ATTEMPTING"]
<1>1. /\ UNCHANGED <<incident, accepted, job, persist, dpc, devent, pevent>>
      /\ ppc[p] = "claiming" /\ Claimable(row[e]) /\ ~Exhausted(row[e])
      /\ row[e].kind = "RECOVERY" => row[1].status = "SENT"
      /\ row' = [row EXCEPT ![e] = q] /\ delivery' = [delivery EXCEPT ![e] = s]
      /\ ppc' = [ppc EXCEPT ![p] = "sending"] /\ pattempt' = [pattempt EXCEPT ![p] = a]
      /\ pfresh' = [pfresh EXCEPT ![p] = TRUE]
  BY DEF ClaimEvent
<1>2. /\ e \in Events /\ row[e] \in Rows /\ a \in 1..MaxAttempts
      /\ row[e].attempts \in Nat /\ a > row[e].attempts
      /\ \A f \in Events : row[f] \in Rows
  BY <1>1, OutboxAssumption DEF IInv, TypeOK, Exhausted, Rows
<1>3. /\ q.kind = row[e].kind /\ q.status = "PROCESSING" /\ q.attempts = a
      /\ q.lease = "LIVE" /\ q.owner = p /\ ~q.withheld /\ q.secret = row[e].secret
  <2> DEFINE c == Lease(row[e], "PROCESSING", p)
  <2> HIDE DEF a, e
  <2>0. "PROCESSING" \in Statuses
    BY DEF Statuses, OpenStatus
  <2>1. /\ c \in Rows /\ c.kind = row[e].kind /\ c.status = "PROCESSING"
        /\ c.lease = "LIVE" /\ c.owner = p /\ c.secret = row[e].secret
    BY <1>2, <2>0, LeaseRow
  <2> HIDE DEF c
  <2>2. q = [c EXCEPT !.attempts = a, !.withheld = FALSE]
    BY DEF c
  <2>3. QED BY <2>1, <2>2 DEF Rows
<1>4. \A b \in 1..MaxAttempts :
          /\ s[b] = "ATTEMPTING" => b = a
          /\ s[b] = "SUCCEEDED" => delivery[e][b] = "SUCCEEDED"
          /\ b # a /\ delivery[e][b] = "SUCCEEDED" => s[b] = "SUCCEEDED"
  BY <1>2 DEF ForgetAttempts
<1>a. s[a] = "ATTEMPTING"
  BY <1>2 DEF ForgetAttempts
<1>5. /\ row[e].status \in OpenStatus
      /\ ~(row[e].status = "PROCESSING" /\ row[e].lease = "LIVE")
      /\ row[e].status # "ABSENT" /\ row[e].status \notin Terminal
  BY <1>1 DEF Claimable, OpenStatus, Terminal
<1>6. /\ row'[e] = q /\ \A f \in Events : f # e => row'[f] = row[f]
      /\ delivery'[e] = s /\ \A f \in Events : f # e => delivery'[f] = delivery[f]
  BY <1>1, <1>2 DEF IInv, TypeOK
<1>7. /\ ppc'[p] = "sending" /\ pattempt'[p] = a /\ pevent'[p] = e /\ Begun(p)' /\ ~Begun(p)
      /\ \A x \in Processors : x # p =>
             /\ ppc'[x] = ppc[x] /\ pattempt'[x] = pattempt[x] /\ pfresh'[x] = pfresh[x]
             /\ pevent'[x] = pevent[x] /\ Begun(x)' = Begun(x)
  BY <1>1 DEF IInv, TypeOK, Begun
<1> HIDE DEF e, a, q, s
<1>8. \A x \in Processors : Begun(x) /\ pfresh[x] => pevent[x] # e
  BY <1>5 DEF IInv, FreshHoldsLease
<1>9. \A x \in Processors : Begun(x) =>
          /\ pevent[x] \in Events /\ pattempt[x] \in 1..MaxAttempts
          /\ pattempt[x] \in 1..row[pevent[x]].attempts
  BY OutboxAssumption DEF IInv, References, TypeOK, Rows
<1>10. References'
  <2>1. incident' = "NONE" => row'[1].status = "ABSENT"
    BY <1>1, <1>5, <1>6 DEF IInv, References, Events
  <2>2. incident' # "RESOLVED" => row'[2].status = "ABSENT"
    BY <1>1, <1>5, <1>6 DEF IInv, References, Events
  <2>3. \A f \in Events :
           /\ row'[f].status = "ABSENT" =>
                  /\ row'[f].kind = "NONE" /\ row'[f].attempts = 0 /\ job'[f] = "absent"
                  /\ delivery'[f] = NoDelivery
           /\ f \in accepted' => row'[f].attempts > 0
    BY <1>1, <1>2, <1>3, <1>6 DEF IInv, References
  <2>4. row'[1].kind \in {"NONE", "DOWN"}
    BY <1>3, <1>6 DEF IInv, References, Events
  <2>5. \A f \in Events : row[f].status # "ABSENT" => row'[f].status # "ABSENT"
    BY <1>3, <1>6
  <2>6. \A d \in Dispatchers : dpc'[d] # "idle" => row'[devent'[d]].status # "ABSENT"
    BY <1>1, <2>5 DEF IInv, References, TypeOK
  <2>7. ASSUME NEW x \in Processors
        PROVE  /\ ppc'[x] # "idle" => row'[pevent'[x]].status # "ABSENT"
               /\ Begun(x)' => /\ pattempt'[x] \in 1..row'[pevent'[x]].attempts
                               /\ delivery'[pevent'[x]][pattempt'[x]] # "SUCCEEDED"
               /\ ppc'[x] = "confirmed" => pevent'[x] \in accepted'
    <3>1. CASE x = p
      BY <1>2, <1>3, <1>5, <1>6, <1>7, <1>a, <2>5, <3>1
    <3>2. CASE x # p
      <4>1. ppc'[x] # "idle" => row'[pevent'[x]].status # "ABSENT"
        BY <1>7, <2>5, <3>2 DEF IInv, References, TypeOK
      <4>2. ppc'[x] = "confirmed" => pevent'[x] \in accepted'
        BY <1>1, <1>7, <3>2 DEF IInv, References
      <4>3. Begun(x)' => pattempt'[x] \in 1..row'[pevent'[x]].attempts
        BY <1>2, <1>3, <1>6, <1>7, <1>9, <3>2
      <4>4. Begun(x)' => delivery'[pevent'[x]][pattempt'[x]] # "SUCCEEDED"
        <5>1. Begun(x)' => /\ Begun(x) /\ delivery[pevent[x]][pattempt[x]] # "SUCCEEDED"
                           /\ pevent'[x] = pevent[x] /\ pattempt'[x] = pattempt[x]
          BY <1>7, <3>2 DEF IInv, References
        <5>2. QED BY <1>4, <1>6, <1>9, <5>1
      <4>5. QED BY <4>1, <4>2, <4>3, <4>4
    <3>3. QED BY <3>1, <3>2
  <2>8. /\ persist'.pc = "opening" => incident' = "NONE"
        /\ persist'.pc = "resolving" => incident' = "OPEN"
    BY <1>1 DEF IInv, References
  <2>9. QED BY <2>1, <2>2, <2>3, <2>4, <2>6, <2>7, <2>8 DEF References, NoDelivery
<1>11. OneAttemptUnderWay'
  BY <1>3, <1>4, <1>6 DEF IInv, OneAttemptUnderWay
<1>12. ConfirmedAttemptWins'
  <2>1. \A f \in Events : Succeeded(f)' => Succeeded(f)
    BY <1>4, <1>6 DEF Succeeded
  <2>2. \A f \in Events : f # e => Succeeded(f)' = Succeeded(f)
    BY <1>6 DEF Succeeded
  <2>3. 1 = e => ~Succeeded(1)
    BY <1>5 DEF IInv, ConfirmedAttemptWins, Terminal
  <2>4. QED BY <1>1, <1>3, <1>6, <2>1, <2>2, <2>3 DEF IInv, ConfirmedAttemptWins, Events
<1>13. RecoveryAfterDown'
  <2>1. CASE e = 1
    BY <1>1, <1>5, <1>6, <2>1 DEF IInv, RecoveryAfterDown, Events, Terminal
  <2>2. CASE e = 2
    BY <1>1, <1>3, <1>6, <2>2 DEF IInv, RecoveryAfterDown, ConfirmedAttemptWins, Events
  <2>3. QED BY <1>2, <2>1, <2>2 DEF Events
<1>14. SummaryReplacesDown'
  <2>1. CASE e = 1
    BY <1>1, <1>5, <1>6, <2>1 DEF IInv, SummaryReplacesDown, Events, Terminal
  <2>2. CASE e = 2
    BY <1>1, <1>3, <1>6, <2>2 DEF IInv, SummaryReplacesDown, Events
  <2>3. QED BY <1>2, <2>1, <2>2 DEF Events
<1>15. SettledStays'
  BY <1>1, <1>5, <1>6 DEF IInv, SettledStays, Events
<1>16. OpenDownHasSecret'
  BY <1>3, <1>5, <1>6 DEF IInv, OpenDownHasSecret, Events
<1>17. AttemptsDiffer'
  <2> SUFFICES ASSUME NEW x \in Processors, NEW y \in Processors, x # y, Begun(x)', Begun(y)',
                      pevent'[x] = pevent'[y], pattempt'[x] = pattempt'[y]
               PROVE  FALSE
    BY DEF AttemptsDiffer
  <2>1. CASE x # p /\ y # p
    BY <1>7, <2>1 DEF IInv, AttemptsDiffer
  <2>2. ASSUME NEW z \in Processors, z # p, Begun(z), pevent[z] = e PROVE pattempt[z] # a
    BY <1>2, <1>9, <2>2
  <2>3. QED BY <1>7, <2>1, <2>2
<1>18. FreshHoldsLease'
  <2> SUFFICES ASSUME NEW x \in Processors, Begun(x)', pfresh'[x]
               PROVE  LET r == row'[pevent'[x]]
                      IN  /\ ~r.withheld
                          /\ \/ r.status \in Terminal
                             \/ /\ r.status = "PROCESSING" /\ r.lease = "LIVE"
                                /\ r.owner = x /\ r.attempts = pattempt'[x]
    BY DEF FreshHoldsLease
  <2>1. CASE x = p
    BY <1>3, <1>6, <1>7, <2>1
  <2>2. CASE x # p
    <3>1. /\ Begun(x) /\ pfresh[x] /\ pevent'[x] = pevent[x] /\ pattempt'[x] = pattempt[x]
          /\ row'[pevent[x]] = row[pevent[x]]
      BY <1>6, <1>7, <1>8, <1>9, <2>2
    <3>2. QED BY <3>1 DEF IInv, FreshHoldsLease
  <2>3. QED BY <2>1, <2>2
<1>19. SenderExclusive'
  BY <1>7, <1>8 DEF IInv, SenderExclusive
<1>20. QED BY <1>10, <1>11, <1>12, <1>13, <1>14, <1>15, <1>16, <1>17, <1>18, <1>19 DEF IInv

\* The call to Telegram: the event whose message the provider may take has
\* been tried.
LEMMA SendSafe ==
    ASSUME IInv, TypeOK', NEW p \in Processors, Send(p)
    PROVE  IInv'
<1> USE DEF adminVars, rowVars, dispVars
<1> DEFINE e == pevent[p]
<1>1. /\ UNCHANGED <<incident, row, delivery, job, persist, dpc, devent, pevent, pattempt, pfresh>>
      /\ ppc[p] = "sending"
      /\ \E to \in {"confirmed", "timedOut", "unreachable", "refused"} :
             ppc' = [ppc EXCEPT ![p] = to] /\ (to = "confirmed" => e \in accepted')
      /\ accepted' \in {accepted, accepted \cup {e}}
  BY DEF Send
<1>2. \A x \in Processors : Begun(x)' = Begun(x)
  BY <1>1 DEF Begun, IInv, TypeOK
<1>3. e \in Events /\ row[e] \in Rows /\ row[e].attempts > 0
  <2>1. Begun(p) /\ e \in Events /\ row[e] \in Rows
    BY <1>1 DEF Begun, IInv, TypeOK
  <2>2. QED BY <2>1 DEF IInv, References, Rows
<1>4. References'
  <2>1. /\ \A x \in Processors : x # p => ppc'[x] = ppc[x]
        /\ ppc'[p] # "idle" /\ (ppc'[p] = "confirmed" => e \in accepted')
    BY <1>1 DEF IInv, TypeOK
  <2>2. \A x \in Processors :
            /\ ppc'[x] # "idle" => row'[pevent'[x]].status # "ABSENT"
            /\ ppc'[x] = "confirmed" => pevent'[x] \in accepted'
    BY <1>1, <2>1 DEF IInv, References
  <2>3. \A f \in Events : f \in accepted' => row'[f].attempts > 0
    BY <1>1, <1>3 DEF IInv, References
  <2> HIDE DEF e
  <2>4. \A x \in Processors :
            Begun(x)' => /\ pattempt'[x] \in 1..row'[pevent'[x]].attempts
                         /\ delivery'[pevent'[x]][pattempt'[x]] # "SUCCEEDED"
    BY <1>1, <1>2 DEF IInv, References
  <2>5. QED BY <1>1, <2>2, <2>3, <2>4 DEF IInv, References, NoDelivery
<1>5. OneAttemptUnderWay' /\ SettledStays' /\ OpenDownHasSecret'
  BY <1>1 DEF IInv, OneAttemptUnderWay, SettledStays, OpenDownHasSecret
<1>6. ConfirmedAttemptWins' /\ RecoveryAfterDown'
  BY <1>1 DEF IInv, ConfirmedAttemptWins, Succeeded, RecoveryAfterDown
<1>7. SummaryReplacesDown'
  BY <1>1, <1>3 DEF IInv, SummaryReplacesDown
<1>8. AttemptsDiffer' /\ FreshHoldsLease' /\ SenderExclusive'
  BY <1>1, <1>2 DEF IInv, AttemptsDiffer, FreshHoldsLease, SenderExclusive
<1>9. QED BY <1>4, <1>5, <1>6, <1>7, <1>8 DEF IInv

\* What markSent does to the rows: the event is SENT unless it was canceled,
\* and with the DOWN event row 2 may become a RECOVERY to be sent.
LEMMA MarkSentRows ==
    ASSUME IInv, NEW p \in Processors, MarkSent(p)
    PROVE  LET e == pevent[p]
           IN  /\ \/ row[e].status = "CANCELED" /\ row'[e] = row[e]
                  \/ /\ row'[e].status = "SENT" /\ row'[e].kind = row[e].kind
                     /\ row'[e].attempts = row[e].attempts /\ ~row'[e].withheld
               /\ e = 2 => row'[1] = row[1]
               /\ e = 1 => \/ row'[2] = row[2]
                           \/ /\ incident = "RESOLVED" /\ row[1].status # "CANCELED"
                              /\ row'[2].kind = "RECOVERY" /\ row'[2].status = "PENDING"
                              /\ row'[2].attempts = row[2].attempts
                              /\ row[2].status = "ABSENT" \/ row[2].withheld
<1> DEFINE e == pevent[p]
<1>1. /\ e \in Events /\ row[e] \in Rows /\ row[2] \in Rows /\ psecret[p] \in BOOLEAN
      /\ TypeOK
  BY DEF IInv, TypeOK, Events
<1>2. row[2].status = "ABSENT" => row[2].attempts = 0
  BY DEF IInv, References, Events
<1>3. CASE ~ConfirmCounts(row[e])
  <2>1. row' = row /\ row[e].status = "CANCELED"
    BY <1>3 DEF MarkSent, ConfirmCounts
  <2>2. QED BY <2>1
<1>4. CASE ConfirmCounts(row[e])
  <2>1. /\ row'[e] = Sent(e, row[e])
        /\ e = 1 => row'[2] = LateRecovery(row[2], psecret[p])
        /\ e = 2 => row'[1] = row[1]
    BY <1>1, <1>4, SentRows
  <2> HIDE DEF e
  <2>2. /\ row'[e].status = "SENT" /\ row'[e].kind = row[e].kind
        /\ row'[e].attempts = row[e].attempts /\ ~row'[e].withheld
    BY <1>1, <2>1, SentRow
  <2>3. ASSUME e = 1
        PROVE  \/ row'[2] = row[2]
               \/ /\ incident = "RESOLVED"
                  /\ row'[2].kind = "RECOVERY" /\ row'[2].status = "PENDING"
                  /\ row'[2].attempts = row[2].attempts
                  /\ row[2].status = "ABSENT" \/ row[2].withheld
    BY <1>1, <1>2, <2>1, <2>3, LateRecoveryRow
  <2>4. e = 1 => row[1].status # "CANCELED"
    BY <1>4 DEF ConfirmCounts
  <2>5. QED BY <2>1, <2>2, <2>3, <2>4 DEF e
<1>5. QED BY <1>3, <1>4

\* Recording a confirmed message.  Nobody works on a row 2 that it creates or
\* revives, and no other processor has this attempt.
LEMMA MarkSentSafe ==
    ASSUME IInv, TypeOK', NEW p \in Processors, MarkSent(p)
    PROVE  IInv'
<1> DEFINE e == pevent[p]
           a == pattempt[p]
<1>0. /\ e \in Events /\ \A f \in Events : row[f] \in Rows /\ row'[f] \in Rows
      /\ ppc[p] = "confirmed" /\ Begun(p) /\ e \in accepted
      /\ a \in 1..row[e].attempts /\ a \in 1..MaxAttempts
      /\ row[e].status # "ABSENT" /\ row[e].attempts > 0
  <2>1. ppc[p] = "confirmed" /\ Begun(p) /\ e \in Events
    BY DEF MarkSent, Begun, IInv, TypeOK
  <2>2. /\ \A f \in Events : row[f] \in Rows /\ row'[f] \in Rows
    BY DEF IInv, TypeOK
  <2>3. e \in accepted /\ a \in 1..row[e].attempts /\ row[e].status # "ABSENT"
    BY <2>1 DEF IInv, References
  <2>4. a \in 1..MaxAttempts /\ row[e].attempts > 0
    BY <2>1, <2>2, <2>3, OutboxAssumption DEF Rows
  <2>5. QED BY <2>1, <2>2, <2>3, <2>4
<1>1. UNCHANGED <<incident, accepted, persist, dispVars>> /\ EndJob(p)
  BY DEF MarkSent
<1>2. /\ \A q \in Processors : Still(q)
      /\ ~Begun(p)'
      /\ \A f \in Events : row[f].status = "ABSENT" => job'[f] = "absent"
      /\ \A d \in Dispatchers : dpc'[d] # "idle" => row[devent'[d]].status # "ABSENT"
      /\ persist'.pc = "opening" => incident = "NONE"
      /\ persist'.pc = "resolving" => incident = "OPEN"
  BY <1>0, <1>1, EndJobFrame
<1>3. /\ \/ row[e].status = "CANCELED" /\ row'[e] = row[e]
         \/ /\ row'[e].status = "SENT" /\ row'[e].kind = row[e].kind
            /\ row'[e].attempts = row[e].attempts /\ ~row'[e].withheld
      /\ e = 2 => row'[1] = row[1]
      /\ e = 1 => \/ row'[2] = row[2]
                  \/ /\ incident = "RESOLVED" /\ row[1].status # "CANCELED"
                     /\ row'[2].kind = "RECOVERY" /\ row'[2].status = "PENDING"
                     /\ row'[2].attempts = row[2].attempts
                     /\ row[2].status = "ABSENT" \/ row[2].withheld
  BY MarkSentRows
<1>4. \A f \in Events, b \in 1..MaxAttempts :
          delivery'[f][b] = IF f = e /\ b = a THEN "SUCCEEDED" ELSE delivery[f][b]
  <2>1. delivery' = [delivery EXCEPT ![e][a] = "SUCCEEDED"]
    BY DEF MarkSent
  <2> HIDE DEF e, a
  <2>2. QED BY <1>0, <2>1 DEF IInv, TypeOK
<1>5. \A f \in Events : f # e => delivery'[f] = delivery[f]
  BY DEF MarkSent, IInv, TypeOK
<1>6. e \in {1, 2}
  BY <1>0 DEF Events
<1> HIDE DEF e
<1>7. \A x \in Processors : Begun(x)' =>
          /\ x # p /\ Begun(x) /\ ppc'[x] = ppc[x] /\ pevent'[x] = pevent[x]
          /\ pattempt'[x] = pattempt[x] /\ (pfresh'[x] => pfresh[x])
          /\ pevent[x] \in Events /\ pattempt[x] \in 1..MaxAttempts
  <2>1. \A x \in Processors : Begun(x) =>
            pevent[x] \in Events /\ pattempt[x] \in 1..MaxAttempts
    BY OutboxAssumption DEF IInv, References, TypeOK, Rows
  <2>2. QED BY <1>2, <2>1 DEF Still, Begun
<1>8. \A x \in Processors : Begun(x) /\ x # p /\ pevent[x] = e => pattempt[x] # a
  BY <1>0 DEF IInv, AttemptsDiffer, e, a
<1> HIDE DEF a
<1>9. /\ row'[1].status = "SENT" \/ row'[1] = row[1]
      /\ row'[1].kind = row[1].kind
      /\ \A f \in Events : row'[f].attempts = row[f].attempts
      /\ \A f \in Events : row[f].status # "ABSENT" => row'[f].status # "ABSENT"
      /\ \A f \in Events : row'[f].status = "ABSENT" => row'[f] = row[f]
  BY <1>0, <1>3, <1>6 DEF Events
<1>10. References'
  <2>1. incident' = "NONE" => row'[1].status = "ABSENT"
    BY <1>0, <1>1, <1>3, <1>6 DEF IInv, References
  <2>2. incident' # "RESOLVED" => row'[2].status = "ABSENT"
    BY <1>0, <1>1, <1>3, <1>6 DEF IInv, References
  <2>3. \A f \in Events :
           /\ row'[f].status = "ABSENT" =>
                  /\ row'[f].kind = "NONE" /\ row'[f].attempts = 0 /\ job'[f] = "absent"
                  /\ delivery'[f] = NoDelivery
           /\ f \in accepted' => row'[f].attempts > 0
    BY <1>0, <1>1, <1>2, <1>5, <1>9 DEF IInv, References
  <2>4. row'[1].kind \in {"NONE", "DOWN"}
    BY <1>9 DEF IInv, References
  <2>5. \A d \in Dispatchers : dpc'[d] # "idle" => row'[devent'[d]].status # "ABSENT"
    BY <1>2, <1>9 DEF TypeOK
  <2>6. \A x \in Processors : ppc'[x] # "idle" => row'[pevent'[x]].status # "ABSENT"
    BY <1>2, <1>9 DEF Still, IInv, References, TypeOK
  <2>7. \A x \in Processors : ppc'[x] = "confirmed" => pevent'[x] \in accepted'
    BY <1>1, <1>2 DEF Still, IInv, References
  <2>8. \A x \in Processors : Begun(x)' => pattempt'[x] \in 1..row'[pevent'[x]].attempts
    BY <1>7, <1>9 DEF IInv, References
  <2>9. \A x \in Processors : Begun(x)' => delivery'[pevent'[x]][pattempt'[x]] # "SUCCEEDED"
    BY <1>4, <1>7, <1>8 DEF IInv, References
  <2>10. QED BY <1>1, <1>2, <2>1, <2>2, <2>3, <2>4, <2>5, <2>6, <2>7, <2>8, <2>9
             DEF References, NoDelivery
<1>11. OneAttemptUnderWay'
  BY <1>4, <1>9 DEF IInv, OneAttemptUnderWay
<1>12. ConfirmedAttemptWins'
  <2>1. \A f \in Events : f # e => Succeeded(f)' = Succeeded(f)
    BY <1>5 DEF Succeeded
  <2>2. \A f \in Events : f = e => Succeeded(f)'
    <3>1. e \in Events /\ a \in 1..MaxAttempts
      BY <1>0 DEF e, a
    <3>2. delivery'[e][a] = "SUCCEEDED"
      BY <1>4, <3>1
    <3>3. QED BY <3>1, <3>2 DEF Succeeded
  <2>3. Succeeded(1)' => row'[1].status \in {"SENT", "CANCELED"}
    <3>1. CASE e = 1
      BY <1>3, <3>1
    <3>2. CASE e = 2
      BY <1>3, <2>1, <3>2 DEF IInv, ConfirmedAttemptWins, Events
    <3>3. QED BY <1>6, <3>1, <3>2
  <2>4. \A f \in Events : row'[f].status = "SENT" => Succeeded(f)'
    <3>1. ASSUME NEW f \in Events, f # e, row'[f].status = "SENT" PROVE row[f].status = "SENT"
      BY <1>3, <1>6, <3>1 DEF Events
    <3>2. QED BY <2>1, <2>2, <3>1 DEF IInv, ConfirmedAttemptWins
  <2>5. \A f \in Events : Succeeded(f)' => f \in accepted'
    BY <1>0, <1>1, <2>1 DEF IInv, ConfirmedAttemptWins, e
  <2>6. QED BY <2>3, <2>4, <2>5 DEF ConfirmedAttemptWins
<1>13. RecoveryAfterDown'
  <2>1. CASE e = 1
    <3>1. CASE row[1].status = "CANCELED" /\ row'[1] = row[1]
      BY <1>1, <1>3, <2>1, <3>1 DEF IInv, RecoveryAfterDown
    <3>2. CASE row'[1].status = "SENT"
      BY <1>0, <1>1, <2>1, <3>2 DEF RecoveryAfterDown, e
    <3>3. QED BY <1>3, <2>1, <3>1, <3>2
  <2>2. CASE e = 2
    BY <1>1, <1>3, <2>2 DEF IInv, RecoveryAfterDown
  <2>3. QED BY <1>6, <2>1, <2>2
<1>14. SummaryReplacesDown'
  <2>1. CASE e = 1
    BY <1>0, <1>3, <2>1 DEF IInv, SummaryReplacesDown, e
  <2>2. CASE e = 2
    BY <1>1, <1>3, <2>2 DEF IInv, SummaryReplacesDown
  <2>3. QED BY <1>6, <2>1, <2>2
<1>15. SettledStays' /\ OpenDownHasSecret'
  BY <1>1, <1>9 DEF IInv, SettledStays, OpenDownHasSecret, OpenStatus, Terminal
<1>16. AttemptsDiffer' /\ SenderExclusive'
  BY <1>7 DEF IInv, AttemptsDiffer, SenderExclusive
<1>17. FreshHoldsLease'
  <2> SUFFICES ASSUME NEW x \in Processors, Begun(x)', pfresh'[x]
               PROVE  LET r == row'[pevent'[x]]
                      IN  /\ ~r.withheld
                          /\ \/ r.status \in Terminal
                             \/ /\ r.status = "PROCESSING" /\ r.lease = "LIVE"
                                /\ r.owner = x /\ r.attempts = pattempt'[x]
    BY DEF FreshHoldsLease
  <2> DEFINE f == pevent[x]
             r == row[f]
  <2>1. /\ Begun(x) /\ pfresh[x] /\ f \in Events /\ pevent'[x] = f /\ pattempt'[x] = pattempt[x]
    BY <1>7
  <2>2. /\ ~r.withheld /\ r.status # "ABSENT"
        /\ \/ r.status \in Terminal
           \/ /\ r.status = "PROCESSING" /\ r.lease = "LIVE"
              /\ r.owner = x /\ r.attempts = pattempt[x]
    BY <2>1 DEF IInv, FreshHoldsLease, Terminal
  <2>3. CASE f = e
    BY <1>3, <2>1, <2>2, <2>3 DEF Terminal
  <2>4. CASE f # e
    <3>1. row'[f] = row[f]
      BY <1>3, <1>6, <2>1, <2>2, <2>4 DEF Events
    <3>2. QED BY <2>1, <2>2, <3>1
  <2>5. QED BY <2>3, <2>4
<1>18. QED BY <1>10, <1>11, <1>12, <1>13, <1>14, <1>15, <1>16, <1>17 DEF IInv
-----------------------------------------------------------------------------
(* The inductive invariant and what follows from it. *)

\* Nothing has been written, read or tried at the start.
LEMMA InitSafe == Init => IInv
<1> SUFFICES ASSUME Init PROVE IInv
  OBVIOUS
<1>1. TypeOK
  BY InitType
<1>2. \A e \in Events : row[e] = NoRow /\ delivery[e] = NoDelivery /\ job[e] = "absent"
  BY DEF Init
<1>3. /\ \A d \in Dispatchers : dpc[d] = "idle"
      /\ \A p \in Processors : ppc[p] = "idle" /\ ~Begun(p)
  BY DEF Init, Begun
<1>4. References
  BY <1>2, <1>3 DEF Init, References, NoRow, Idle, Events
<1>5. OneAttemptUnderWay /\ \A e \in Events : ~Succeeded(e)
  BY <1>2 DEF OneAttemptUnderWay, Succeeded, NoDelivery
<1>6. ConfirmedAttemptWins /\ RecoveryAfterDown /\ SummaryReplacesDown
  BY <1>2, <1>5 DEF ConfirmedAttemptWins, RecoveryAfterDown, SummaryReplacesDown, NoRow, Events
<1>7. SettledStays /\ OpenDownHasSecret
  BY <1>2 DEF Init, SettledStays, OpenDownHasSecret, NoRow, Idle, Events, OpenStatus
<1>8. AttemptsDiffer /\ FreshHoldsLease /\ SenderExclusive
  BY <1>3 DEF AttemptsDiffer, FreshHoldsLease, SenderExclusive
<1>9. QED BY <1>1, <1>4, <1>5, <1>6, <1>7, <1>8 DEF IInv

\* Every step keeps the inductive invariant: most are quiet, and the five that
\* open or resolve the incident, claim, send or confirm an event keep it each in
\* its own way.
LEMMA InductiveStep == IInv /\ [Next]_vars => IInv'
<1> SUFFICES ASSUME IInv, [Next]_vars PROVE IInv'
  OBVIOUS
<1>1. TypeOK'
  BY TypeStep DEF IInv
<1>2. QuietMove => IInv'
  BY <1>1, QuietMoveSafe
<1>3. CASE PersistNext
  BY <1>1, <1>2, <1>3, StartQuiet, OpenSafe, ResolveSafe DEF PersistNext
<1>4. CASE ApiNext
  BY <1>2, <1>4, ApiQuiet
<1>5. CASE ClockNext
  BY <1>2, <1>5, ClockQuiet
<1>6. ASSUME NEW d \in Dispatchers, Dispatch(d) \/ \E e \in Events : Scan(d, e) PROVE IInv'
  BY <1>2, <1>6, DispatchQuiet
<1>7. ASSUME NEW p \in Processors, Process(p) PROVE IInv'
  BY <1>1, <1>2, <1>7, ClaimNothingQuiet, MarkFailedQuiet, ClaimSafe, SendSafe, MarkSentSafe
     DEF Process
<1>8. ASSUME NEW p \in Processors, NEW e \in Events, TakeJob(p, e) PROVE IInv'
  BY <1>2, <1>8, TakeJobQuiet
<1>9. CASE (\E e \in Events : SweepStalledJob(e)) \/ FaultNext
  BY <1>2, <1>9, QueueAndFaultQuiet
<1>10. CASE UNCHANGED vars
  <2>1. \A p \in Processors : Still(p)
    BY <1>10 DEF Still, vars, procVars
  <2>2. UNCHANGED <<row, delivery, accepted, incident, persist, job, dpc, devent>>
    BY <1>10 DEF vars, rowVars, dispVars
  <2>3. QED BY <1>2, <2>1, <2>2, UnseenQuiet DEF IInv, References
<1>11. QED BY <1>3, <1>4, <1>5, <1>6, <1>7, <1>8, <1>9, <1>10 DEF Next

\* The inductive invariant holds in every state of every behavior.
LEMMA Invariance == Spec => []IInv
BY InitSafe, InductiveStep, PTL DEF Spec

\* A recovery message is attempted only after its DOWN message was confirmed,
\* and a failed later attempt of the DOWN does not take that back
\* (the ordering checks of dispatch and claim, markSent and markFailed).
THEOREM RecoveryFollowsDown == Spec => []RecoveryAfterDown
<1>1. IInv => RecoveryAfterDown
  BY DEF IInv
<1>2. QED BY <1>1, Invariance, PTL

\* A summary replaces a DOWN that nobody was sent and nobody will be
\* (replaceUnsentDownWithSummary against a claim of the same row).
THEOREM SummariesReplace == Spec => []SummaryReplacesDown
<1>1. IInv => SummaryReplacesDown
  BY DEF IInv
<1>2. QED BY <1>1, Invariance, PTL

\* A confirmed attempt decides: the DOWN is SENT or canceled whatever becomes of
\* its other attempts, and no event is SENT otherwise (markSent, markFailed).
THEOREM ConfirmedWins == Spec => []ConfirmedAttemptWins
<1>1. IInv => ConfirmedAttemptWins
  BY DEF IInv
<1>2. QED BY <1>1, Invariance, PTL

\* Claiming an event closes the attempts before it (claim, cancelRuntime).
THEOREM OneUnderWay == Spec => []OneAttemptUnderWay
<1>1. IInv => OneAttemptUnderWay
  BY DEF IInv
<1>2. QED BY <1>1, Invariance, PTL

\* However many workers run and whatever jobs are lost or repeated, two of them
\* never send the same event inside their leases (claim and its lease).
THEOREM SendersExclude == Spec => []SenderExclusive
<1>1. IInv => SenderExclusive
  BY DEF IInv
<1>2. QED BY <1>1, Invariance, PTL

\* A DOWN event still to be sent has its destination, although a resolution
\* retires it by what it read of the row without a lock (createRecoveryOutbox).
THEOREM DownKeepsSecret == Spec => []OpenDownHasSecret
<1>1. IInv => OpenDownHasSecret
  BY DEF IInv
<1>2. QED BY <1>1, Invariance, PTL
-----------------------------------------------------------------------------
(* The outbox implements NotificationContract.                              *)

\* How the status of a row and its reason decide what the contract sees.
LEMMA StateOf ==
    ASSUME NEW r \in Rows
    PROVE  LET s == EventState(r)
           IN  /\ s \in {"NONE", "OPEN", "SENT", "FAILED", "CANCELED", "WITHHELD"}
               /\ s = "NONE" <=> r.status = "ABSENT"
               /\ s = "OPEN" <=> r.status \in OpenStatus
               /\ s = "SENT" <=> r.status = "SENT"
               /\ s = "FAILED" <=> r.status = "FAILED"
               /\ s = "CANCELED" <=> r.status = "CANCELED" /\ ~r.withheld
               /\ s = "WITHHELD" <=> r.status = "CANCELED" /\ r.withheld
<1>1. /\ r.status \in Statuses /\ r.withheld \in BOOLEAN
  BY DEF Rows
<1>2. CASE r.withheld = TRUE
  BY <1>1, <1>2 DEF EventState, Statuses, OpenStatus, Terminal
<1>3. CASE r.withheld = FALSE
  BY <1>1, <1>3 DEF EventState, Statuses, OpenStatus, Terminal
<1>4. QED BY <1>1, <1>2, <1>3

\* The part of RefinementInv that is about one row.
Fine(r) ==
    /\ r.status \in OpenStatus => ~r.withheld
    /\ r.withheld => r.kind = "RECOVERY"
    /\ r.status = "PROCESSING" => r.attempts > 0

\* Row r turns into q, which the contract sees in state s.
Becomes(r, q, s) ==
    /\ q.kind = r.kind /\ q.attempts = r.attempts
    /\ EventState(q) = s
    /\ Fine(q)

Stays(e) == Becomes(row[e], row'[e], EventState(row[e]))

\* A row whose status and reason stay is seen as it was.
LEMMA StatusStays ==
    ASSUME NEW r \in Rows, Fine(r), NEW q \in Rows,
           q.kind = r.kind, q.attempts = r.attempts, q.withheld = r.withheld,
           q.status = r.status
    PROVE  Becomes(r, q, EventState(r))
<1>1. EventState(q) = EventState(r)
  BY DEF EventState
<1>2. QED BY <1>1 DEF Becomes, Fine

\* A row that waits and goes on waiting is seen as it was.
LEMMA StaysOpen ==
    ASSUME NEW r \in Rows, NEW q \in Rows, r.status \in OpenStatus, q.status \in OpenStatus,
           q.kind = r.kind, q.attempts = r.attempts, ~q.withheld,
           q.status = "PROCESSING" => q.attempts > 0
    PROVE  Becomes(r, q, EventState(r))
<1>1. EventState(q) = EventState(r)
  BY StateOf
<1>2. QED BY <1>1 DEF Becomes, Fine

\* Where every event stays as it is, the contract sees nothing.
LEMMA NothingSeen ==
    ASSUME \A e \in Events : Stays(e), UNCHANGED <<incident, accepted>>
    PROVE  UNCHANGED Contract!vars
<1>1. UNCHANGED <<EventKinds, EventStates, Tried>>
  BY DEF EventKinds, EventStates, Tried, Stays, Becomes
<1>2. QED BY <1>1 DEF Contract!vars

\* One event changes its state and the other stays.
LEMMA OneSeen ==
    ASSUME NEW e \in Events, NEW s, Becomes(row[e], row'[e], s),
           \A f \in Events : f # e => Stays(f)
    PROVE  /\ EventStates' = [EventStates EXCEPT ![e] = s]
           /\ UNCHANGED <<EventKinds, Tried>>
BY DEF EventKinds, EventStates, Tried, Stays, Becomes

\* An open event that is canceled on its own is dropped.
LEMMA DropSeen ==
    ASSUME NEW e \in Events, row[e] \in Rows, row[e].status \in OpenStatus,
           Becomes(row[e], row'[e], "CANCELED"),
           \A f \in Events : f # e => Stays(f), UNCHANGED <<incident, accepted>>
    PROVE  Contract!Next
<1>1. EventStates[e] = "OPEN"
  BY StateOf DEF EventStates
<1>2. Contract!Drop(e)
  BY <1>1, OneSeen DEF Contract!Drop
<1>3. e \in Contract!Events
  BY DEF Events, Contract!Events
<1>4. QED BY <1>2, <1>3 DEF Contract!Next

\* An event that fails for good, and the RECOVERY it takes with it.
LEMMA GiveUpSeen ==
    ASSUME IInv, RefinementInv, NEW e \in Events, row[e].status \in OpenStatus,
           row[e].attempts > 0, row' = WithDownFailed(e, Failed(row[e])),
           UNCHANGED <<incident, accepted>>
    PROVE  Contract!Next /\ \A f \in Events : Fine(row'[f])
<1>0. /\ \A f \in Events : row[f] \in Rows /\ Fine(row[f])
      /\ TypeOK /\ 1 \in Events /\ 2 \in Events
  BY DEF IInv, TypeOK, RefinementInv, Fine, Events
<1>1. /\ row'[e] = Failed(row[e])
      /\ e = 1 => row'[2] = Withhold(row[2])
      /\ e = 2 => row'[1] = row[1]
  BY <1>0, FailedRows
<1>2. Becomes(row[e], row'[e], "FAILED")
  <2> DEFINE q == Failed(row[e])
  <2>1. /\ q \in Rows /\ q.kind = row[e].kind /\ q.status = "FAILED"
        /\ q.attempts = row[e].attempts /\ ~q.withheld
    BY <1>0, FailedRow
  <2> HIDE DEF q
  <2>2. EventState(q) = "FAILED" /\ Fine(q)
    BY <2>1, StateOf DEF Fine, OpenStatus
  <2>3. QED BY <1>1, <2>1, <2>2 DEF Becomes, q
<1>3. ASSUME e = 2 PROVE Stays(1)
  BY <1>0, <1>1, <1>3, StatusStays DEF Stays
<1>4. ASSUME e = 1
      PROVE  Becomes(row[2], row'[2],
                     IF row[2].kind = "RECOVERY" /\ EventState(row[2]) = "OPEN"
                     THEN "WITHHELD" ELSE EventState(row[2]))
  <2>1. CASE row[2].kind = "RECOVERY" /\ row[2].status \in OpenStatus
    <3>1. row[2].status # "PROCESSING"
      BY <1>0, <1>4, <2>1 DEF IInv, RecoveryAfterDown, Fine, OpenStatus
    <3> DEFINE q == Canceled(row[2], TRUE)
    <3>2. row'[2] = q
      BY <1>1, <1>4, <2>1, <3>1 DEF Withhold, OpenStatus
    <3>3. /\ q \in Rows /\ q.kind = row[2].kind /\ q.status = "CANCELED"
          /\ q.attempts = row[2].attempts /\ q.withheld = TRUE
      BY <1>0, CanceledRow
    <3> HIDE DEF q
    <3>4. EventState(q) = "WITHHELD" /\ Fine(q)
      BY <2>1, <3>3, StateOf DEF Fine, OpenStatus
    <3>5. EventState(row[2]) = "OPEN"
      BY <1>0, <2>1, StateOf
    <3>6. QED BY <2>1, <3>2, <3>3, <3>4, <3>5 DEF Becomes
  <2>2. CASE ~(row[2].kind = "RECOVERY" /\ row[2].status \in OpenStatus)
    <3>1. row'[2] = row[2]
      BY <1>1, <1>4, <2>2 DEF Withhold, OpenStatus
    <3>2. ~(row[2].kind = "RECOVERY" /\ EventState(row[2]) = "OPEN")
      BY <1>0, <2>2, StateOf
    <3>3. Becomes(row[2], row'[2], EventState(row[2]))
      BY <1>0, <3>1, StatusStays
    <3>4. QED BY <3>2, <3>3
  <2>3. QED BY <2>1, <2>2
<1>5. EventStates[e] = "OPEN" /\ e \in Tried
  BY <1>0, StateOf DEF EventStates, Tried
<1>6. UNCHANGED <<EventKinds, Tried>> /\ \A f \in Events : Fine(row'[f])
  BY <1>2, <1>3, <1>4 DEF EventKinds, Tried, Becomes, Stays, Events
<1>7. EventStates' = [f \in Contract!Events |->
          CASE f = e -> "FAILED"
            [] f = 2 /\ f # e /\ EventKinds[2] = "RECOVERY" /\ EventStates[2] = "OPEN" -> "WITHHELD"
            [] OTHER -> EventStates[f]]
  <2>1. EventKinds[2] = row[2].kind /\ \A f \in Events : EventStates[f] = EventState(row[f])
    BY DEF EventKinds, EventStates, Events
  <2>2. e = 1 \/ e = 2
    BY DEF Events
  <2>3. CASE e = 1
    <3>1. /\ EventState(row'[1]) = "FAILED"
          /\ EventState(row'[2]) = IF EventKinds[2] = "RECOVERY" /\ EventStates[2] = "OPEN"
                                   THEN "WITHHELD" ELSE EventStates[2]
      BY <1>0, <1>2, <1>4, <2>1, <2>3 DEF Becomes
    <3>2. QED BY <2>3, <3>1 DEF EventStates, Events, Contract!Events
  <2>4. CASE e = 2
    <3>1. EventState(row'[2]) = "FAILED" /\ EventState(row'[1]) = EventStates[1]
      BY <1>0, <1>2, <1>3, <2>1, <2>4 DEF Becomes, Stays
    <3>2. QED BY <2>4, <3>1 DEF EventStates, Events, Contract!Events
  <2>5. QED BY <2>2, <2>3, <2>4
<1>8. Contract!GiveUp(e)
  BY <1>5, <1>6, <1>7 DEF Contract!GiveUp
<1>9. e \in Contract!Events
  BY DEF Events, Contract!Events
<1>10. QED BY <1>6, <1>8, <1>9 DEF Contract!Next

\* A step is a step of the contract or unseen, and leaves the rows fine.
Implements ==
    /\ [Contract!Next]_Contract!vars
    /\ \A e \in Events : Fine(row'[e])

\* A step that changes no row, message or incident is unseen.
LEMMA UnseenImplements ==
    ASSUME IInv, RefinementInv, UNCHANGED <<row, incident, accepted>>
    PROVE  Implements
<1>1. \A e \in Events : row[e] \in Rows /\ Fine(row[e])
  BY DEF IInv, TypeOK, RefinementInv, Fine
<1>2. \A e \in Events : Stays(e)
  BY <1>1, StatusStays DEF Stays
<1>3. QED BY <1>1, <1>2, NothingSeen DEF Implements

\* A step that keeps every event in the eyes of the contract.
LEMMA StaysImplements ==
    ASSUME \A e \in Events : Stays(e), UNCHANGED <<incident, accepted>>
    PROVE  Implements
BY NothingSeen DEF Implements, Stays, Becomes

\* A new row is open and fine.
LEMMA NewRowSeen ==
    ASSUME NEW k \in Kinds, NEW secret \in BOOLEAN
    PROVE  LET q == NewRow(k, secret)
           IN  q.kind = k /\ q.attempts = 0 /\ EventState(q) = "OPEN" /\ Fine(q)
<1> DEFINE q == NewRow(k, secret)
<1>1. /\ q \in Rows /\ q.kind = k /\ q.status = "PENDING" /\ q.attempts = 0 /\ ~q.withheld
  BY NewRowFields
<1> HIDE DEF q
<1>2. EventState(q) = "OPEN" /\ Fine(q)
  BY <1>1, StateOf DEF Fine, OpenStatus
<1>3. QED BY <1>1, <1>2 DEF q

\* The DOWN event is created with its incident.
LEMMA OpenImplements ==
    ASSUME IInv, RefinementInv, OpenIncident
    PROVE  Implements
<1>1. /\ incident = "NONE" /\ incident' = "OPEN" /\ accepted' = accepted
      /\ row[1].status = "ABSENT" /\ row[1].attempts = 0
      /\ row'[2] = row[2] /\ row'[1] = IF persist.bound THEN NewRow("DOWN", TRUE) ELSE row[1]
      /\ \A e \in Events : row[e] \in Rows /\ Fine(row[e])
  BY DEF OpenIncident, IInv, References, TypeOK, RefinementInv, Fine, Events
<1>2. Stays(2)
  BY <1>1, StatusStays DEF Stays, Events
<1>3. CASE persist.bound
  <2>1. /\ row'[1].kind = "DOWN" /\ row'[1].attempts = 0
        /\ EventState(row'[1]) = "OPEN" /\ Fine(row'[1])
    BY <1>1, <1>3, NewRowSeen DEF Kinds
  <2>2. /\ EventKinds' = [EventKinds EXCEPT ![1] = "DOWN"]
        /\ EventStates' = [EventStates EXCEPT ![1] = "OPEN"]
        /\ Tried' = Tried
    BY <1>1, <1>2, <2>1 DEF EventKinds, EventStates, Tried, Stays, Becomes, Events
  <2>3. Contract!OpenIncident
    BY <1>1, <2>2 DEF Contract!OpenIncident, Contract!Queue
  <2>4. QED BY <1>2, <2>1, <2>3 DEF Implements, Contract!Next, Stays, Becomes, Events
<1>4. CASE ~persist.bound
  <2>1. \A e \in Events : Stays(e)
    BY <1>1, <1>2, <1>4, StatusStays DEF Stays, Events
  <2>2. UNCHANGED <<EventKinds, EventStates, Tried>>
    BY <2>1 DEF EventKinds, EventStates, Tried, Stays, Becomes
  <2>3. Contract!OpenIncident
    BY <1>1, <2>2 DEF Contract!OpenIncident
  <2>4. QED BY <2>1, <2>3 DEF Implements, Contract!Next, Stays, Becomes
<1>5. QED BY <1>3, <1>4

\* The write of a resolution, by what it makes of the DOWN event.  A RECOVERY is
\* created only for a DOWN that existed when it was read, so it exists now.
LEMMA ResolveImplements ==
    ASSUME IInv, RefinementInv, ResolveIncident
    PROVE  Implements
<1>1. /\ incident = "OPEN" /\ incident' = "RESOLVED" /\ accepted' = accepted
      /\ row[2].status = "ABSENT" /\ row[2].attempts = 0
      /\ persist.pc = "resolving" /\ persist.down \in Rows
      /\ \A e \in Events : row[e] \in Rows /\ Fine(row[e])
      /\ row \in [Events -> Rows] /\ TypeOK
  BY DEF ResolveIncident, IInv, References, TypeOK, RefinementInv, Fine, Events
<1>a. persist.down.secret \in BOOLEAN
  BY <1>1 DEF Rows
<1>b. \A q \in Rows : q.kind = row[1].kind /\ q.attempts = row[1].attempts
                         /\ q.withheld = row[1].withheld /\ q.status = row[1].status
                      => Becomes(row[1], q, EventState(row[1]))
  BY <1>1, StatusStays DEF Events
<1>c. \A s \in Statuses : Becomes(row[1], AfterResolve(row[1], s), EventState(row[1]))
  <2>1. TAKE s \in Statuses
  <2> DEFINE q == AfterResolve(row[1], s)
  <2>2. /\ Retire(row[1]) \in Rows /\ Retire(row[1]).kind = row[1].kind
        /\ Retire(row[1]).status = row[1].status /\ Retire(row[1]).attempts = row[1].attempts
        /\ Retire(row[1]).withheld = row[1].withheld
    BY <1>1, RetireRow DEF Events
  <2>3. q = row[1] \/ q = Retire(row[1])
    BY DEF AfterResolve
  <2> HIDE DEF q
  <2>4. QED BY <1>1, <1>b, <2>2, <2>3 DEF q, Events
<1>2. CASE \/ row' = row
           \/ \E s \in Statuses : row' = [row EXCEPT ![1] = AfterResolve(@, s)]
  <2>1. Stays(1) /\ Stays(2)
    BY <1>1, <1>2, <1>b, <1>c, StatusStays DEF Stays, Events
  <2>2. UNCHANGED <<EventKinds, EventStates, Tried>>
    BY <2>1 DEF EventKinds, EventStates, Tried, Stays, Becomes, Events
  <2>3. Contract!ResolveIncident
    BY <1>1, <2>2 DEF Contract!ResolveIncident
  <2>4. QED BY <2>1, <2>3 DEF Implements, Contract!Next, Stays, Becomes, Events
<1>3. ASSUME NEW s \in Statuses, persist.down.status # "ABSENT",
             row' = [row EXCEPT ![1] = AfterResolve(@, s),
                                ![2] = NewRow("RECOVERY", persist.down.secret)]
      PROVE  Implements
  <2>1. Stays(1)
    BY <1>1, <1>3, <1>c DEF Stays, Events
  <2>2. /\ row'[2].kind = "RECOVERY" /\ row'[2].attempts = 0
        /\ EventState(row'[2]) = "OPEN" /\ Fine(row'[2])
    BY <1>1, <1>3, <1>a, NewRowSeen DEF Kinds, Events
  <2>3. /\ EventKinds' = [EventKinds EXCEPT ![2] = "RECOVERY"]
        /\ EventStates' = [EventStates EXCEPT ![2] = "OPEN"]
        /\ Tried' = Tried
    BY <1>1, <2>1, <2>2 DEF EventKinds, EventStates, Tried, Stays, Becomes, Events
  <2>4. EventStates[1] # "NONE"
    <3>1. row[1].status # "ABSENT"
      BY <1>1, <1>3 DEF RefinementInv
    <3>2. QED BY <1>1, <3>1, StateOf DEF EventStates, Events
  <2>5. Contract!ResolveIncident
    BY <1>1, <2>3, <2>4 DEF Contract!ResolveIncident, Contract!Queue
  <2>6. QED BY <2>1, <2>2, <2>5 DEF Implements, Contract!Next, Stays, Becomes, Events
<1>4. ASSUME Unsent(row[1]),
             row' = [row EXCEPT ![1] = Retire(Settle(@, "CANCELED")),
                                ![2] = NewRow("RESOLVED_SUMMARY", persist.down.secret)]
      PROVE  Implements
  <2> DEFINE c == Settle(row[1], "CANCELED")
             q == Retire(c)
  <2>1. row[1].attempts = 0 /\ row[1].status \in OpenStatus
    BY <1>4 DEF Unsent, OpenStatus
  <2>2. /\ c \in Rows /\ c.kind = row[1].kind /\ c.attempts = row[1].attempts
        /\ c.status = "CANCELED" /\ c.withheld = row[1].withheld
    BY <1>1, SettleRow DEF Events, Statuses, Terminal
  <2>3. row'[1] = q
    BY <1>1, <1>4 DEF Events
  <2> HIDE DEF c
  <2>4. /\ q \in Rows /\ q.kind = c.kind /\ q.attempts = c.attempts
        /\ q.status = c.status /\ q.withheld = c.withheld
    BY <2>2, RetireRow
  <2> HIDE DEF q
  <2>5. ~row[1].withheld
    BY <1>1, <2>1 DEF Fine, Events
  <2>6. EventState(q) = "CANCELED" /\ Fine(q)
    BY <2>2, <2>4, <2>5, StateOf DEF Fine, OpenStatus
  <2>7. /\ row'[2].kind = "RESOLVED_SUMMARY" /\ row'[2].attempts = 0
        /\ EventState(row'[2]) = "OPEN" /\ Fine(row'[2])
    BY <1>1, <1>4, <1>a, NewRowSeen DEF Kinds, Events
  <2>8. /\ EventKinds' = [EventKinds EXCEPT ![2] = "RESOLVED_SUMMARY"]
        /\ EventStates' = [EventStates EXCEPT ![1] = "CANCELED", ![2] = "OPEN"]
        /\ Tried' = Tried
    BY <1>1, <2>2, <2>3, <2>4, <2>6, <2>7 DEF EventKinds, EventStates, Tried, Events
  <2>9. EventStates[1] = "OPEN" /\ 1 \notin Tried
    BY <1>1, <2>1, StateOf DEF EventStates, Tried, Events
  <2>10. Contract!ResolveIncident
    BY <1>1, <2>8, <2>9 DEF Contract!ResolveIncident
  <2>11. QED BY <2>3, <2>6, <2>7, <2>10 DEF Implements, Contract!Next, Events
<1>5. ASSUME persist.down.status = "ABSENT" PROVE row' = row
  BY <1>5 DEF ResolveIncident
<1>6. QED BY <1>1, <1>2, <1>3, <1>4, <1>5, ResolveRows

\* The API withdraws what is open, or changes nothing that is seen here.
LEMMA ApiImplements ==
    ASSUME IInv, RefinementInv, ApiNext
    PROVE  Implements
<1> USE DEF adminVars, rowVars
<1>1. accepted' = accepted
  BY DEF ApiNext, PauseMonitor, ResumeMonitor, RemoveMonitor, UpdateMonitor,
         DisableChannel, EnableChannel, RemoveChannel
<1>2. \/ UNCHANGED <<row, incident>>
      \/ CancelEvents /\ (incident' = incident \/ CancelIncident)
  BY DEF ApiNext, PauseMonitor, ResumeMonitor, RemoveMonitor, UpdateMonitor,
         DisableChannel, EnableChannel, RemoveChannel
<1>3. CASE UNCHANGED <<row, incident>>
  BY <1>1, <1>3, UnseenImplements
<1>4. CASE CancelEvents /\ (incident' = incident \/ CancelIncident)
  <2>1. \A e \in Events :
            /\ row[e] \in Rows /\ row'[e] \in Rows /\ Fine(row[e])
            /\ row'[e].kind = row[e].kind /\ row'[e].attempts = row[e].attempts
            /\ row'[e].withheld = row[e].withheld
            /\ row'[e].status = IF row[e].status \in OpenStatus
                                THEN "CANCELED" ELSE row[e].status
    BY <1>4, CancelRows DEF IInv, TypeOK, RefinementInv, Fine
  <2>2. \A e \in Events :
            /\ EventState(row'[e]) = IF EventState(row[e]) = "OPEN"
                                     THEN "CANCELED" ELSE EventState(row[e])
            /\ Fine(row'[e])
    <3>1. TAKE e \in Events
    <3>2. CASE row[e].status \in OpenStatus
      <4>1. row'[e].status = "CANCELED" /\ ~row'[e].withheld
        BY <2>1, <3>2 DEF Fine
      <4>2. QED BY <2>1, <3>2, <4>1, StateOf DEF Fine, OpenStatus
    <3>3. CASE row[e].status \notin OpenStatus
      <4>1. Becomes(row[e], row'[e], EventState(row[e]))
        BY <2>1, <3>3, StatusStays
      <4>2. QED BY <2>1, <3>3, <4>1, StateOf DEF Becomes
    <3>4. QED BY <3>2, <3>3
  <2>3. /\ EventStates' = [e \in Contract!Events |->
               IF EventStates[e] = "OPEN" THEN "CANCELED" ELSE EventStates[e]]
        /\ UNCHANGED <<EventKinds, Tried>>
    BY <2>1, <2>2 DEF EventStates, EventKinds, Tried, Events, Contract!Events
  <2>4. \/ incident' = incident
        \/ incident = "OPEN" /\ incident' = "CANCELED"
    BY <1>4 DEF CancelIncident
  <2>5. Contract!Withdraw
    BY <1>1, <2>3, <2>4 DEF Contract!Withdraw
  <2>6. QED BY <2>2, <2>5 DEF Implements, Contract!Next
<1>5. QED BY <1>2, <1>3, <1>4

\* The clock is not seen.
LEMMA ClockImplements ==
    ASSUME IInv, RefinementInv, ClockNext
    PROVE  Implements
<1>1. PICK e \in Events : ExpireLease(e) \/ BecomeReady(e)
  BY DEF ClockNext
<1>2. /\ row \in [Events -> Rows] /\ \A f \in Events : row[f] \in Rows /\ Fine(row[f])
      /\ UNCHANGED <<incident, accepted>>
  BY <1>1 DEF IInv, TypeOK, RefinementInv, Fine, ExpireLease, BecomeReady
<1>3. \E q \in {[row[e] EXCEPT !.lease = "EXPIRED"], [row[e] EXCEPT !.ready = TRUE]} :
          row' = [row EXCEPT ![e] = q]
  BY <1>1 DEF ExpireLease, BecomeReady
<1>4. \A q \in {[row[e] EXCEPT !.lease = "EXPIRED"], [row[e] EXCEPT !.ready = TRUE]} :
          /\ q \in Rows /\ q.kind = row[e].kind /\ q.attempts = row[e].attempts
          /\ q.withheld = row[e].withheld /\ q.status = row[e].status
  BY <1>2 DEF Rows, Leases
<1>5. PICK q \in Rows :
          /\ row' = [row EXCEPT ![e] = q]
          /\ q.kind = row[e].kind /\ q.attempts = row[e].attempts
          /\ q.withheld = row[e].withheld /\ q.status = row[e].status
  BY <1>3, <1>4
<1>6. \A f \in Events : Stays(f)
  BY <1>2, <1>5, StatusStays DEF Stays
<1>7. QED BY <1>2, <1>6, StaysImplements

\* A row that a dispatcher writes goes on waiting, is dropped or is withheld.
LEMMA DispatchImplements ==
    ASSUME IInv, RefinementInv, NEW d \in Dispatchers,
           Dispatch(d) \/ \E e \in Events : Scan(d, e)
    PROVE  Implements
<1> DEFINE e == devent[d]
           r == row[e]
           Waits(q) ==
               /\ q \in Rows /\ r.status \in OpenStatus /\ q.status \in OpenStatus
               /\ q.kind = r.kind /\ q.attempts = r.attempts /\ ~q.withheld
               /\ q.status = "PROCESSING" => q.attempts > 0
<1>0. /\ e \in Events /\ r \in Rows /\ Fine(r) /\ row \in [Events -> Rows]
      /\ \A f \in Events : row[f] \in Rows /\ Fine(row[f])
      /\ UNCHANGED <<incident, accepted>>
  BY DispatchFrame DEF IInv, TypeOK, RefinementInv, Fine
<1>s. {"RETRY", "ENQUEUED", "CANCELED"} \subseteq Statuses
  BY DEF Statuses, OpenStatus, Terminal
<1>1. ASSUME row' = row PROVE Implements
  BY <1>0, <1>1, UnseenImplements
<1>2. ASSUME NEW q, Waits(q), row' = [row EXCEPT ![e] = q] PROVE Implements
  <2>1. Stays(e)
    BY <1>0, <1>2, StaysOpen DEF Stays
  <2>2. \A f \in Events : f # e => Stays(f)
    BY <1>0, <1>2, StatusStays DEF Stays
  <2>3. QED BY <1>0, <2>1, <2>2, StaysImplements
<1>3. ASSUME NEW from, NEW to, NEW q, DispWrites(d, from, to, q)
      PROVE  \/ row' = row
             \/ Available(r) /\ r.status \in OpenStatus /\ row' = [row EXCEPT ![e] = q]
  <2>1. row' = [row EXCEPT ![e] = IF Available(r) THEN q ELSE row[e]]
    BY <1>3 DEF DispWrites
  <2>2. CASE Available(r)
    BY <2>1, <2>2 DEF Available, OpenStatus
  <2>3. CASE ~Available(r)
    BY <1>0, <2>1, <2>3
  <2>4. QED BY <2>2, <2>3
<1>4. CASE CheckOrder(d) \/ RegisterJob(d) \/ \E f \in Events : Scan(d, f)
  BY <1>1, <1>4 DEF CheckOrder, RegisterJob, Scan
<1>5. CASE DeferRecovery(d)
  <2> DEFINE q == [r EXCEPT !.ready = FALSE]
  <2>1. /\ q \in Rows /\ q.kind = r.kind /\ q.attempts = r.attempts
        /\ q.status = r.status /\ q.withheld = r.withheld
    BY <1>0 DEF Rows
  <2>2. DispWrites(d, "defer", "idle", q)
    BY <1>5 DEF DeferRecovery
  <2> HIDE DEF q, r, e
  <2>3. r.status \in OpenStatus => Waits(q)
    BY <1>0, <2>1 DEF Fine
  <2>4. row' = row \/ (r.status \in OpenStatus /\ row' = [row EXCEPT ![e] = q])
    BY <1>3, <2>2
  <2>5. QED BY <1>1, <1>2, <2>3, <2>4
<1>6. CASE ClaimForDispatch(d)
  <2> DEFINE q == Lease(r, "RETRY", d)
  <2>1. /\ q \in Rows /\ q.kind = r.kind /\ q.attempts = r.attempts
        /\ q.status = "RETRY" /\ q.withheld = r.withheld
    BY <1>0, <1>s, LeaseRow
  <2>2. DispWrites(d, "claim", "register", q)
    BY <1>6 DEF ClaimForDispatch
  <2> HIDE DEF q, r, e
  <2>3. r.status \in OpenStatus => Waits(q)
    BY <1>0, <2>1 DEF Fine, OpenStatus
  <2>4. row' = row \/ (r.status \in OpenStatus /\ row' = [row EXCEPT ![e] = q])
    BY <1>3, <2>2
  <2>5. QED BY <1>1, <1>2, <2>3, <2>4
<1>7. CASE MarkEnqueued(d)
  <2> DEFINE q == [r EXCEPT !.status = "ENQUEUED"]
  <2>1. /\ q \in Rows /\ q.kind = r.kind /\ q.attempts = r.attempts
        /\ q.status = "ENQUEUED" /\ q.withheld = r.withheld
    BY <1>0, <1>s DEF Rows
  <2>2. row' = [row EXCEPT ![e] = IF HoldsClaim(d, r) THEN q ELSE r]
    BY <1>7 DEF MarkEnqueued
  <2>3. ~HoldsClaim(d, r) => row' = row
    BY <1>0, <2>2
  <2> HIDE DEF q, r, e
  <2>4. HoldsClaim(d, r) => Waits(q)
    BY <1>0, <2>1 DEF Fine, HoldsClaim, OpenStatus
  <2>5. QED BY <1>1, <1>2, <2>2, <2>3, <2>4
<1>8. CASE RequeueEvent(d)
  <2> DEFINE q == Requeued(r)
  <2>1. /\ q \in Rows /\ q.kind = r.kind /\ q.attempts = r.attempts
        /\ q.status = "RETRY" /\ ~q.withheld
    BY <1>0, RequeuedRow
  <2>2. row' = [row EXCEPT ![e] = IF HoldsClaim(d, r) THEN q ELSE r]
    BY <1>8 DEF RequeueEvent
  <2>3. ~HoldsClaim(d, r) => row' = row
    BY <1>0, <2>2
  <2> HIDE DEF q, r, e
  <2>4. HoldsClaim(d, r) => Waits(q)
    BY <1>0, <2>1 DEF Fine, HoldsClaim, OpenStatus
  <2>5. QED BY <1>1, <1>2, <2>2, <2>3, <2>4
<1>9. CASE DispWrites(d, "drop", "idle", Retire(Canceled(r, FALSE)))
  <2> DEFINE c == Canceled(r, FALSE)
             q == Retire(c)
  <2>1. /\ c \in Rows /\ c.kind = r.kind /\ c.attempts = r.attempts
        /\ c.status = "CANCELED" /\ c.withheld = FALSE
    BY <1>0, CanceledRow
  <2> HIDE DEF c
  <2>2. /\ q \in Rows /\ q.kind = r.kind /\ q.attempts = r.attempts
        /\ q.status = "CANCELED" /\ ~q.withheld
    BY <2>1, RetireRow
  <2>3. DispWrites(d, "drop", "idle", q)
    BY <1>9 DEF c
  <2> HIDE DEF q, r, e
  <2>4. Becomes(r, q, "CANCELED")
    BY <2>2, StateOf DEF Becomes, Fine, OpenStatus
  <2>5. CASE r.status \in OpenStatus /\ row' = [row EXCEPT ![e] = q]
    <3>1. Becomes(row[e], row'[e], "CANCELED")
      BY <1>0, <2>4, <2>5 DEF r
    <3>2. \A f \in Events : f # e => Stays(f)
      BY <1>0, <2>5, StatusStays DEF Stays
    <3>3. Contract!Next
      BY <1>0, <2>5, <3>1, <3>2, DropSeen DEF r
    <3>4. QED BY <3>1, <3>2, <3>3 DEF Implements, Stays, Becomes
  <2>6. row' = row \/ (r.status \in OpenStatus /\ row' = [row EXCEPT ![e] = q])
    BY <1>3, <2>3
  <2>7. QED BY <1>1, <2>5, <2>6
<1>10. CASE \/ DispWrites(d, "withhold", "idle", Retire(Canceled(r, TRUE)))
            \/ DispWrites(d, "withholdKept", "idle", Canceled(r, TRUE))
  <2> DEFINE c == Canceled(r, TRUE)
             Parts(q) == /\ q \in Rows /\ q.kind = r.kind /\ q.attempts = r.attempts
                         /\ q.status = "CANCELED" /\ q.withheld = TRUE
  <2>1. Parts(c)
    BY <1>0, CanceledRow
  <2>2. /\ Retire(c) \in Rows /\ Retire(c).kind = c.kind /\ Retire(c).attempts = c.attempts
        /\ Retire(c).status = c.status /\ Retire(c).withheld = c.withheld
    <3> HIDE DEF c
    <3>1. QED BY <2>1, RetireRow
  <2>3. PICK q \in {c, Retire(c)}, from \in {"withhold", "withholdKept"} :
            DispWrites(d, from, "idle", q)
    BY <1>10
  <2>4. Parts(q)
    <3> HIDE DEF c, r
    <3>1. QED BY <2>1, <2>2, <2>3
  <2>5. e = 2 /\ row[2].kind = "RECOVERY" /\ row[1].status \in Terminal
    <3>1. dpc[d] \in {"withhold", "withholdKept"}
      BY <2>3 DEF DispWrites
    <3>2. QED BY <3>1 DEF RefinementInv
  <2> HIDE DEF c, r, e
  <2>6. CASE r.status \in OpenStatus /\ row' = [row EXCEPT ![e] = q]
    <3>1. Becomes(r, q, "WITHHELD")
      BY <2>4, <2>5, StateOf DEF Becomes, Fine, OpenStatus, r
    <3>2. Becomes(row[2], row'[2], "WITHHELD")
      BY <1>0, <2>5, <2>6, <3>1 DEF r
    <3>3. \A f \in Events : f # 2 => Stays(f)
      BY <1>0, <2>5, <2>6, StatusStays DEF Stays
    <3>4. /\ EventStates' = [EventStates EXCEPT ![2] = "WITHHELD"]
          /\ UNCHANGED <<EventKinds, Tried>>
      BY <1>0, <2>5, <3>2, <3>3, OneSeen
    <3>5. EventState(row[2]) = "OPEN"
      BY <1>0, <2>5, <2>6, StateOf DEF r
    <3>6. EventState(row[1]) \in {"SENT", "FAILED", "CANCELED"}
      <4>1. row[1] \in Rows /\ ~row[1].withheld
        BY <1>0 DEF Fine, Events, IInv, References
      <4>2. QED BY <2>5, <4>1, StateOf DEF Terminal
    <3>7. Contract!Withhold
      BY <1>0, <2>5, <3>4, <3>5, <3>6
      DEF Contract!Withhold, EventKinds, EventStates, Events
    <3>8. QED BY <3>2, <3>3, <3>7 DEF Implements, Contract!Next, Stays, Becomes
  <2>7. row' = row \/ (r.status \in OpenStatus /\ row' = [row EXCEPT ![e] = q])
    BY <1>3, <2>3
  <2>8. QED BY <1>1, <2>6, <2>7
<1>11. QED
  BY <1>4, <1>5, <1>6, <1>7, <1>8, <1>9, <1>10 DEF Dispatch, CancelEvent

\* The queue, and faults, are not seen.
LEMMA QueueAndFaultImplements ==
    ASSUME IInv, RefinementInv, (\E e \in Events : SweepStalledJob(e)) \/ FaultNext
    PROVE  Implements
<1>1. UNCHANGED <<row, incident, accepted>>
  BY DEF SweepStalledJob, FaultNext, LoseJob, PersistFails, DispatchCallFails,
         DispatcherCrash, ProcessorCrash, ProcessorThrows, DispGoes, DispWorks, rowVars
<1>2. QED BY <1>1, UnseenImplements

\* Neither is the read of a persisting check.
LEMMA StartImplements ==
    ASSUME IInv, RefinementInv, StartOpen \/ StartResolve
    PROVE  Implements
<1>1. UNCHANGED <<row, incident, accepted>>
  BY DEF StartOpen, StartResolve, PersistReads, rowVars
<1>2. QED BY <1>1, UnseenImplements

\* A claim that leads to no attempt: the event is dropped for its channel, or
\* given up after its last attempt.
LEMMA ClaimNothingImplements ==
    ASSUME IInv, RefinementInv, NEW p \in Processors, ClaimNothing(p)
    PROVE  Implements
<1> DEFINE e == pevent[p]
           r == row[e]
<1>0. /\ e \in Events /\ r \in Rows /\ Fine(r) /\ row \in [Events -> Rows]
      /\ \A f \in Events : row[f] \in Rows /\ Fine(row[f])
      /\ UNCHANGED <<incident, accepted>>
      /\ r.status # "ABSENT"
      /\ MaxAttempts \in Nat \ {0}
  BY OutboxAssumption
  DEF IInv, TypeOK, References, RefinementInv, Fine, ClaimNothing
<1>1. CASE row' = row
  BY <1>0, <1>1, UnseenImplements
<1>2. CASE r.status \in Terminal /\ row' = [row EXCEPT ![e] = Retire(@)]
  <2>1. Stays(e)
    <3> DEFINE q == Retire(r)
    <3>1. /\ q \in Rows /\ q.kind = r.kind /\ q.attempts = r.attempts
          /\ q.withheld = r.withheld /\ q.status = r.status
      BY <1>0, RetireRow
    <3> HIDE DEF q
    <3>2. Becomes(r, q, EventState(r))
      BY <1>0, <3>1, StatusStays
    <3>3. QED BY <1>0, <1>2, <3>2 DEF Stays, q
  <2>2. \A f \in Events : f # e => Stays(f)
    BY <1>0, <1>2, StatusStays DEF Stays
  <2>3. QED BY <1>0, <2>1, <2>2, StaysImplements
<1>3. CASE r.status \notin Terminal /\ row' = [row EXCEPT ![e] = Retire(Canceled(@, FALSE))]
  <2> DEFINE c == Canceled(r, FALSE)
             q == Retire(c)
  <2>1. /\ c \in Rows /\ c.kind = r.kind /\ c.attempts = r.attempts
        /\ c.status = "CANCELED" /\ c.withheld = FALSE
    BY <1>0, CanceledRow
  <2>2. row' = [row EXCEPT ![e] = q]
    BY <1>3
  <2> HIDE DEF c
  <2>3. /\ q \in Rows /\ q.kind = r.kind /\ q.attempts = r.attempts
        /\ q.status = "CANCELED" /\ ~q.withheld
    BY <2>1, RetireRow
  <2> HIDE DEF q
  <2>4. Becomes(r, q, "CANCELED")
    BY <2>3, StateOf DEF Becomes, Fine, OpenStatus
  <2>5. r.status \in OpenStatus
    BY <1>0, <1>3 DEF Rows, Statuses
  <2>6. Becomes(row[e], row'[e], "CANCELED")
    BY <1>0, <2>2, <2>4
  <2>7. \A f \in Events : f # e => Stays(f)
    BY <1>0, <2>2, StatusStays DEF Stays
  <2>8. Contract!Next
    BY <1>0, <2>5, <2>6, <2>7, DropSeen
  <2>9. QED BY <2>6, <2>7, <2>8 DEF Implements, Stays, Becomes
<1>4. CASE Claimable(r) /\ Exhausted(r) /\ row' = WithDownFailed(e, Failed(row[e]))
  <2>1. r.status \in OpenStatus /\ r.attempts > 0
    BY <1>0, <1>4 DEF Claimable, OpenStatus, Exhausted, Rows
  <2>2. QED BY <1>0, <1>4, <2>1, GiveUpSeen DEF Implements
<1>5. \/ row' = row
      \/ row' = [row EXCEPT ![e] = IF r.status \in Terminal THEN Retire(r)
                                   ELSE Retire(Canceled(r, FALSE))]
      \/ Claimable(r) /\ Exhausted(r) /\ row' = WithDownFailed(e, Failed(row[e]))
  BY DEF ClaimNothing, rowVars
<1>6. QED BY <1>1, <1>2, <1>3, <1>4, <1>5

\* The hand-over of a job is not seen.
LEMMA TakeJobImplements ==
    ASSUME IInv, RefinementInv, NEW p \in Processors, NEW e \in Events, TakeJob(p, e)
    PROVE  Implements
<1>1. UNCHANGED <<row, incident, accepted>>
  BY DEF TakeJob, rowVars
<1>2. QED BY <1>1, UnseenImplements

\* A claimed event is tried, in its turn.
LEMMA ClaimImplements ==
    ASSUME IInv, RefinementInv, NEW p \in Processors, ClaimEvent(p)
    PROVE  Implements
<1> DEFINE e == pevent[p]
           r == row[e]
           a == r.attempts + 1
           q == [Lease(r, "PROCESSING", p) EXCEPT !.attempts = a, !.withheld = FALSE]
<1>1. /\ e \in Events /\ r \in Rows /\ row \in [Events -> Rows]
      /\ \A f \in Events : row[f] \in Rows /\ Fine(row[f])
      /\ UNCHANGED <<incident, accepted>>
      /\ row' = [row EXCEPT ![e] = q]
      /\ Claimable(r) /\ (r.kind = "RECOVERY" => row[1].status = "SENT")
  BY DEF IInv, TypeOK, RefinementInv, Fine, ClaimEvent
<1>2. a \in 1..MaxAttempts
  <2>1. r.attempts \in 0..MaxAttempts /\ ~(r.attempts >= MaxAttempts)
    BY <1>1 DEF Rows, ClaimEvent, Exhausted
  <2>2. QED BY <2>1, OutboxAssumption
<1>3. /\ q \in Rows /\ q.kind = r.kind /\ q.status = "PROCESSING" /\ q.attempts = a
      /\ ~q.withheld
  <2> DEFINE c == Lease(r, "PROCESSING", p)
  <2> HIDE DEF a, r, e
  <2>1. "PROCESSING" \in Statuses
    BY DEF Statuses, OpenStatus
  <2>2. /\ c \in Rows /\ c.kind = r.kind /\ c.status = "PROCESSING"
    BY <1>1, <2>1, LeaseRow
  <2>3. a \in 0..MaxAttempts
    BY <1>2, OutboxAssumption
  <2> HIDE DEF c
  <2>4. q = [c EXCEPT !.attempts = a, !.withheld = FALSE]
    BY DEF c
  <2>5. QED BY <2>2, <2>3, <2>4 DEF Rows
<1> HIDE DEF q, a
<1>4. r.status \in OpenStatus
  BY <1>1 DEF Claimable, OpenStatus
<1>5. /\ row'[e].kind = row[e].kind /\ row'[e].attempts > 0
      /\ EventState(row'[e]) = "OPEN" /\ EventState(row[e]) = "OPEN" /\ Fine(row'[e])
  BY <1>1, <1>2, <1>3, <1>4, StateOf DEF Fine, OpenStatus
<1>6. \A f \in Events : f # e => Stays(f)
  BY <1>1, StatusStays DEF Stays
<1>7. /\ UNCHANGED <<EventKinds, EventStates>>
      /\ Tried' = Tried \cup {e}
  BY <1>1, <1>5, <1>6 DEF EventKinds, EventStates, Tried, Stays, Becomes
<1>8. EventKinds[e] = "RECOVERY" => EventStates[1] = "SENT"
  BY <1>1, StateOf DEF EventKinds, EventStates, Events
<1>9. Contract!Try(e)
  BY <1>1, <1>5, <1>7, <1>8 DEF Contract!Try, EventStates
<1>10. e \in Contract!Events
  BY <1>1 DEF Events, Contract!Events
<1>11. QED BY <1>5, <1>6, <1>9, <1>10 DEF Implements, Contract!Next, Stays, Becomes

\* Who sends has tried.
LEMMA SendImplements ==
    ASSUME IInv, RefinementInv, NEW p \in Processors, Send(p)
    PROVE  Implements
<1>1. /\ pevent[p] \in Events /\ row' = row /\ incident' = incident
      /\ \A f \in Events : row[f] \in Rows /\ Fine(row[f])
      /\ accepted' = accepted \/ accepted' = accepted \cup {pevent[p]}
  BY DEF IInv, TypeOK, RefinementInv, Fine, Send, rowVars
<1>2. CASE accepted' = accepted
  BY <1>1, <1>2, UnseenImplements
<1>3. CASE accepted' = accepted \cup {pevent[p]}
  <2>1. pattempt[p] \in 1..row[pevent[p]].attempts /\ row[pevent[p]].attempts \in Nat
    BY <1>1, OutboxAssumption DEF IInv, References, Begun, Send, Rows
  <2>2. pevent[p] \in Tried
    BY <1>1, <2>1 DEF Tried
  <2>3. UNCHANGED <<EventKinds, EventStates, Tried>>
    BY <1>1 DEF EventKinds, EventStates, Tried
  <2>4. Contract!Receive(pevent[p])
    BY <1>1, <1>3, <2>2, <2>3 DEF Contract!Receive
  <2>5. pevent[p] \in Contract!Events
    BY <1>1 DEF Events, Contract!Events
  <2>6. QED BY <1>1, <2>4, <2>5 DEF Implements, Contract!Next
<1>4. QED BY <1>1, <1>2, <1>3

\* What a late confirmation makes of row 2, as the contract sees it.
LEMMA LateRecoverySeen ==
    ASSUME NEW r \in Rows, Fine(r), r.status = "ABSENT" => r.attempts = 0,
           NEW secret \in BOOLEAN
    PROVE  LET q == LateRecovery(r, secret)
           IN  \/ q = r
               \/ /\ incident = "RESOLVED" /\ EventState(r) \in {"NONE", "WITHHELD"}
                  /\ q.kind = "RECOVERY" /\ q.attempts = r.attempts
                  /\ EventState(q) = "OPEN" /\ Fine(q)
<1> DEFINE q == LateRecovery(r, secret)
           n == NewRow("RECOVERY", secret)
           v == [r EXCEPT !.status = "PENDING", !.ready = TRUE, !.lease = "NONE",
                          !.owner = NoOne, !.withheld = FALSE, !.secret = secret]
<1>1. \/ q = r
      \/ incident = "RESOLVED" /\ r.status = "ABSENT" /\ q = n
      \/ /\ incident = "RESOLVED" /\ r.kind = "RECOVERY"
         /\ r.status = "CANCELED" /\ r.withheld /\ q = v
  BY DEF LateRecovery
<1>2. n.kind = "RECOVERY" /\ n.attempts = 0 /\ EventState(n) = "OPEN" /\ Fine(n)
  BY NewRowSeen DEF Kinds
<1>3. /\ v \in Rows /\ v.kind = r.kind /\ v.status = "PENDING" /\ v.attempts = r.attempts
      /\ v.withheld = FALSE
  BY DEF Rows, Statuses, OpenStatus, Leases
<1> HIDE DEF n, v, q
<1>4. EventState(v) = "OPEN" /\ Fine(v)
  BY <1>3, StateOf DEF Fine, OpenStatus
<1>5. /\ r.status = "ABSENT" => EventState(r) = "NONE"
      /\ r.status = "CANCELED" /\ r.withheld => EventState(r) = "WITHHELD"
  BY StateOf
<1>6. QED BY <1>1, <1>2, <1>3, <1>4, <1>5 DEF q

\* A confirmation counts unless the event was canceled, and may bring a RECOVERY.
LEMMA MarkSentImplements ==
    ASSUME IInv, RefinementInv, NEW p \in Processors, MarkSent(p)
    PROVE  Implements
<1> DEFINE e == pevent[p]
           r == row[e]
<1>1. /\ e \in Events /\ r \in Rows /\ TypeOK /\ row \in [Events -> Rows]
      /\ \A f \in Events : row[f] \in Rows /\ Fine(row[f])
      /\ UNCHANGED <<incident, accepted>>
      /\ r.status # "ABSENT" /\ e \in accepted /\ psecret[p] \in BOOLEAN
      /\ row[2].status = "ABSENT" => row[2].attempts = 0
  BY DEF IInv, TypeOK, References, RefinementInv, Fine, MarkSent, Events
<1>2. CASE ~ConfirmCounts(r)
  <2>1. row' = row
    BY <1>2 DEF MarkSent
  <2>2. QED BY <1>1, <2>1, UnseenImplements
<1>3. CASE ConfirmCounts(r)
  <2>1. /\ row'[e] = Sent(e, row[e])
        /\ e = 1 => row'[2] = LateRecovery(row[2], psecret[p])
        /\ e = 2 => row'[1] = row[1]
    BY <1>1, <1>3, SentRows
  <2>2. Becomes(row[e], row'[e], "SENT")
    <3> DEFINE q == Sent(e, row[e])
    <3>1. /\ q \in Rows /\ q.kind = row[e].kind /\ q.status = "SENT"
          /\ q.attempts = row[e].attempts /\ ~q.withheld
      BY <1>1, SentRow
    <3> HIDE DEF q
    <3>2. EventState(q) = "SENT" /\ Fine(q)
      BY <3>1, StateOf DEF Fine, OpenStatus
    <3>3. QED BY <2>1, <3>1, <3>2 DEF Becomes, q
  <2>3. EventStates[e] \in {"OPEN", "SENT", "FAILED"}
    BY <1>1, <1>3, StateOf DEF EventStates, ConfirmCounts, Rows, Statuses, Terminal
  <2>4. e \in Contract!Events
    BY <1>1 DEF Events, Contract!Events
  <2>5. CASE \A f \in Events : f # e => Stays(f)
    <3>1. /\ EventStates' = [EventStates EXCEPT ![e] = "SENT"]
          /\ UNCHANGED <<EventKinds, Tried>>
      BY <1>1, <2>2, <2>5, OneSeen
    <3>2. Contract!Confirm(e)
      BY <1>1, <2>3, <3>1 DEF Contract!Confirm
    <3>3. QED BY <2>2, <2>4, <2>5, <3>2 DEF Implements, Contract!Next, Stays, Becomes
  <2>6. CASE /\ e = 1 /\ incident = "RESOLVED" /\ EventState(row[2]) \in {"NONE", "WITHHELD"}
             /\ row'[2].kind = "RECOVERY" /\ row'[2].attempts = row[2].attempts
             /\ EventState(row'[2]) = "OPEN" /\ Fine(row'[2])
    <3>1. /\ EventKinds' = [EventKinds EXCEPT ![2] = "RECOVERY"]
          /\ EventStates' = [EventStates EXCEPT ![1] = "SENT", ![2] = "OPEN"]
          /\ UNCHANGED Tried
      BY <2>2, <2>6 DEF EventKinds, EventStates, Tried, Becomes, Events
    <3>2. EventStates[2] \in {"NONE", "WITHHELD"}
      BY <2>6 DEF EventStates, Events
    <3>3. Contract!Confirm(e)
      BY <1>1, <2>3, <2>6, <3>1, <3>2 DEF Contract!Confirm
    <3>4. \A f \in Events : Fine(row'[f])
      BY <2>2, <2>6 DEF Becomes, Events
    <3>5. QED BY <2>4, <3>3, <3>4 DEF Implements, Contract!Next
  <2>7. CASE e = 2
    BY <1>1, <2>1, <2>5, <2>7, StatusStays DEF Stays, Events
  <2>8. CASE e = 1 /\ row'[2] = row[2]
    BY <1>1, <2>5, <2>8, StatusStays DEF Stays, Events
  <2>9. e = 1 => \/ row'[2] = row[2]
                 \/ /\ incident = "RESOLVED" /\ EventState(row[2]) \in {"NONE", "WITHHELD"}
                    /\ row'[2].kind = "RECOVERY" /\ row'[2].attempts = row[2].attempts
                    /\ EventState(row'[2]) = "OPEN" /\ Fine(row'[2])
    BY <1>1, <2>1, LateRecoverySeen DEF Events
  <2>10. QED BY <1>1, <2>6, <2>7, <2>8, <2>9 DEF Events
<1>4. QED BY <1>2, <1>3

\* A failed attempt goes back to the queue, is given up, or counts no more.
LEMMA MarkFailedImplements ==
    ASSUME IInv, RefinementInv, NEW p \in Processors, MarkFailed(p)
    PROVE  Implements
<1> DEFINE e == pevent[p]
           r == row[e]
<1>1. /\ e \in Events /\ r \in Rows /\ TypeOK /\ row \in [Events -> Rows]
      /\ \A f \in Events : row[f] \in Rows /\ Fine(row[f])
      /\ UNCHANGED <<incident, accepted>>
  BY DEF IInv, TypeOK, RefinementInv, Fine, MarkFailed
<1>2. CASE row' = row
  BY <1>1, <1>2, UnseenImplements
<1>3. ASSUME OwnAttempt(r, pattempt[p]) PROVE r.status \in OpenStatus /\ r.attempts > 0
  BY <1>1, <1>3 DEF OwnAttempt, OpenStatus, Fine
<1>4. CASE OwnAttempt(r, pattempt[p]) /\ row' = [row EXCEPT ![e] = Requeued(row[e])]
  <2> DEFINE q == Requeued(r)
  <2>1. /\ q \in Rows /\ q.kind = r.kind /\ q.status = "RETRY"
        /\ q.attempts = r.attempts /\ ~q.withheld
    BY <1>1, RequeuedRow
  <2> HIDE DEF q
  <2>2. Becomes(r, q, EventState(r))
    BY <1>1, <1>3, <1>4, <2>1, StaysOpen DEF OpenStatus
  <2>3. row'[e] = q
    BY <1>1, <1>4 DEF q
  <2>4. \A f \in Events : Stays(f)
    BY <1>1, <1>4, <2>2, <2>3, StatusStays DEF Stays
  <2>5. QED BY <1>1, <2>4, StaysImplements
<1>5. CASE OwnAttempt(r, pattempt[p]) /\ row' = WithDownFailed(e, Failed(row[e]))
  BY <1>1, <1>3, <1>5, GiveUpSeen DEF Implements
<1>6. QED BY <1>1, <1>2, <1>4, <1>5, MarkFailedRows

\* Every step is a step of the contract or unseen.
LEMMA StepImplements ==
    ASSUME IInv, RefinementInv, [Next]_vars
    PROVE  Implements
<1>1. CASE UNCHANGED vars
  BY <1>1, UnseenImplements DEF vars, rowVars
<1>2. CASE Next
  BY <1>2, StartImplements, OpenImplements, ResolveImplements, ApiImplements,
     ClockImplements, DispatchImplements, TakeJobImplements, ClaimNothingImplements,
     ClaimImplements, SendImplements, MarkSentImplements, MarkFailedImplements,
     QueueAndFaultImplements
  DEF Next, PersistNext, Process
<1>3. QED BY <1>1, <1>2

\* What no step of the contract takes back: an event that exists stays, a settled
\* DOWN stays settled, a RECOVERY stays one and is never the first event.
LEMMA ContractKeeps ==
    ASSUME IInv, RefinementInv, TypeOK', Implements
    PROVE  /\ row[1].status # "ABSENT" => row'[1].status # "ABSENT"
           /\ row[1].status \in Terminal => row'[1].status \in Terminal
           /\ row[2].kind = "RECOVERY" => row'[2].kind = "RECOVERY"
           /\ row'[2].kind = "RECOVERY" => row'[1].status # "ABSENT"
<1>1. /\ row[1] \in Rows /\ row[2] \in Rows /\ row'[1] \in Rows /\ row'[2] \in Rows
      /\ row[1].kind \in {"NONE", "DOWN"} /\ Fine(row[1]) /\ Fine(row'[1])
      /\ incident = "NONE" => row[1].status = "ABSENT"
      /\ incident # "RESOLVED" => row[2].kind = "NONE"
      /\ row[2].kind = "RECOVERY" => row[1].status # "ABSENT"
  BY DEF IInv, TypeOK, References, RefinementInv, Fine, Implements, Events
<1>2. /\ EventStates[1] = EventState(row[1]) /\ EventStates'[1] = EventState(row'[1])
      /\ EventKinds[1] = row[1].kind /\ EventKinds[2] = row[2].kind
      /\ EventKinds'[1] = row'[1].kind /\ EventKinds'[2] = row'[2].kind
      /\ EventStates = [e \in Events |-> EventStates[e]]
      /\ EventKinds = [e \in Events |-> EventKinds[e]]
  BY DEF EventStates, EventKinds, Events
<1>3. /\ \A s \in {EventStates[1]} :
             /\ s = "NONE" <=> row[1].status = "ABSENT"
             /\ row[1].status \in Terminal <=> s \in {"SENT", "FAILED", "CANCELED"}
      /\ EventStates'[1] = "NONE" <=> row'[1].status = "ABSENT"
      /\ EventStates'[1] \in {"SENT", "FAILED", "CANCELED"} => row'[1].status \in Terminal
  <2>1. ~row[1].withheld
    BY <1>1 DEF Fine
  <2>2. QED BY <1>1, <1>2, <2>1, StateOf DEF Terminal
<1> DEFINE Keeps ==
        /\ EventStates[1] # "NONE" => EventStates'[1] # "NONE"
        /\ EventStates[1] \in {"SENT", "FAILED", "CANCELED"} =>
               EventStates'[1] \in {"SENT", "FAILED", "CANCELED"}
        /\ EventKinds[2] = "RECOVERY" => EventKinds'[2] = "RECOVERY"
        /\ EventKinds'[2] = "RECOVERY" => EventKinds[2] = "RECOVERY" \/ EventStates'[1] # "NONE"
<1> HIDE DEF Fine
<1> USE DEF Events, Contract!Events
<1>4. CASE Contract!OpenIncident
  BY <1>1, <1>2, <1>3, <1>4 DEF Contract!OpenIncident, Contract!Queue
<1>5. CASE Contract!ResolveIncident
  BY <1>1, <1>2, <1>3, <1>5 DEF Contract!ResolveIncident, Contract!Queue
<1>6. CASE Contract!Withdraw \/ Contract!Withhold
  BY <1>1, <1>2, <1>3, <1>6 DEF Contract!Withdraw, Contract!Withhold
<1>7. ASSUME NEW e \in Events, Contract!Drop(e) \/ Contract!Try(e) \/ Contract!Receive(e)
      PROVE  Keeps
  BY <1>2, <1>7 DEF Contract!Drop, Contract!Try, Contract!Receive
<1>8. ASSUME NEW e \in Events, Contract!Confirm(e) PROVE Keeps
  BY <1>2, <1>8 DEF Contract!Confirm
<1>9. ASSUME NEW e \in Events, Contract!GiveUp(e) PROVE Keeps
  BY <1>2, <1>9 DEF Contract!GiveUp
<1>10. CASE UNCHANGED Contract!vars
  BY <1>1, <1>2, <1>3, <1>10 DEF Contract!vars
<1>11. ASSUME Keeps
       PROVE  /\ row[1].status # "ABSENT" => row'[1].status # "ABSENT"
              /\ row[1].status \in Terminal => row'[1].status \in Terminal
              /\ row[2].kind = "RECOVERY" => row'[2].kind = "RECOVERY"
              /\ row'[2].kind = "RECOVERY" => row'[1].status # "ABSENT"
  BY <1>1, <1>2, <1>3, <1>11
<1>12. QED
  BY <1>4, <1>5, <1>6, <1>7, <1>8, <1>9, <1>10, <1>11 DEF Implements, Contract!Next

\* What a dispatcher knows when it orders or withholds a RECOVERY.
Informed(d) ==
    /\ dpc[d] \in {"order", "defer", "withhold", "withholdKept"} =>
           devent[d] = 2 /\ row[2].kind = "RECOVERY"
    /\ dpc[d] \in {"withhold", "withholdKept"} => row[1].status \in Terminal

LEMMA StaysInformed ==
    ASSUME IInv, RefinementInv, NEW d \in Dispatchers, UNCHANGED <<dpc[d], devent[d]>>,
           row[1].status \in Terminal => row'[1].status \in Terminal,
           row[2].kind = "RECOVERY" => row'[2].kind = "RECOVERY"
    PROVE  Informed(d)'
BY DEF Informed, RefinementInv

\* An idle dispatcher, or one on its way to a claim, need not be informed.
LEMMA BecomesInformed ==
    ASSUME IInv, RefinementInv, NEW d \in Dispatchers,
           Dispatch(d) \/ \E e \in Events : Scan(d, e),
           row[1].status \in Terminal => row'[1].status \in Terminal,
           row[2].kind = "RECOVERY" => row'[2].kind = "RECOVERY"
    PROVE  Informed(d)'
<1>1. /\ dpc \in [Dispatchers -> {"idle", "order", "claim", "defer", "drop", "withhold",
                                  "withholdKept", "register", "mark", "requeue"}]
      /\ devent \in [Dispatchers -> Events]
  BY DEF IInv, TypeOK
<1>2. ASSUME NEW e \in Events, Scan(d, e) PROVE Informed(d)'
  <2>1. /\ dpc'[d] \in {"order", "claim", "drop"} /\ devent'[d] = e
        /\ dpc'[d] = "order" => row[e].kind = "RECOVERY"
    BY <1>1, <1>2 DEF Scan, DispWorks
  <2>2. row[e].kind = "RECOVERY" => e = 2
    BY DEF IInv, References, Events
  <2>3. QED BY <2>1, <2>2 DEF Informed
<1>3. CASE CheckOrder(d)
  <2>1. /\ dpc[d] = "order" /\ dpc'[d] = Prerequisite(row[1].status)
        /\ devent[d] = 2 /\ row[2].kind = "RECOVERY" /\ devent'[d] = 2
    BY <1>1, <1>3 DEF CheckOrder, DispGoes, DispWorks, Prerequisite, RefinementInv
  <2>2. row[1].status # "ABSENT"
    BY <2>1 DEF RefinementInv
  <2>3. dpc'[d] \in {"withhold", "withholdKept"} => row[1].status \in Terminal
    BY <2>1, <2>2 DEF Prerequisite, Terminal
  <2>4. QED BY <2>1, <2>3 DEF Informed
<1>4. CASE \/ DeferRecovery(d) \/ CancelEvent(d) \/ ClaimForDispatch(d)
           \/ RegisterJob(d) \/ MarkEnqueued(d) \/ RequeueEvent(d)
  <2>1. dpc'[d] \in {"idle", "register", "mark"}
    BY <1>1, <1>4 DEF DeferRecovery, CancelEvent, ClaimForDispatch, RegisterJob,
       MarkEnqueued, RequeueEvent, DispWrites, DispGoes, DispWorks
  <2>2. QED BY <2>1 DEF Informed
<1>5. QED BY <1>2, <1>3, <1>4 DEF Dispatch

\* What the mapping needs to know is known in every reachable state.
LEMMA RefinementStep ==
    ASSUME IInv, TypeOK', RefinementInv, [Next]_vars
    PROVE  RefinementInv'
<1>1. /\ \A e \in Events : Fine(row'[e])
      /\ row[1].status # "ABSENT" => row'[1].status # "ABSENT"
      /\ row[1].status \in Terminal => row'[1].status \in Terminal
      /\ row[2].kind = "RECOVERY" => row'[2].kind = "RECOVERY"
      /\ row'[2].kind = "RECOVERY" => row'[1].status # "ABSENT"
  BY StepImplements, ContractKeeps DEF Implements
<1>2. \/ UNCHANGED persist
      \/ persist'.pc # "resolving"
      \/ persist'.down = row[1]
  <2>1. CASE StartOpen \/ StartResolve
    BY <2>1 DEF StartOpen, StartResolve, PersistReads
  <2>2. CASE OpenIncident \/ ResolveIncident \/ PersistFails
    <3>1. persist' = Idle
      BY <2>2 DEF OpenIncident, ResolveIncident, PersistFails
    <3>2. QED BY <3>1 DEF Idle
  <2>3. CASE ApiNext
    BY <2>3 DEF ApiNext, PauseMonitor, ResumeMonitor, RemoveMonitor, UpdateMonitor,
       DisableChannel, EnableChannel, RemoveChannel
  <2>4. CASE ClockNext \/ \E e \in Events : SweepStalledJob(e) \/ LoseJob(e)
    BY <2>4 DEF ClockNext, ExpireLease, BecomeReady, SweepStalledJob, LoseJob
  <2>5. ASSUME NEW d \in Dispatchers, Dispatch(d) \/ \E e \in Events : Scan(d, e)
        PROVE  UNCHANGED persist
    BY <2>5, DispatchFrame DEF IInv
  <2>6. ASSUME NEW d \in Dispatchers, DispatchCallFails(d) \/ DispatcherCrash(d)
        PROVE  UNCHANGED persist
    BY <2>6 DEF DispatchCallFails, DispatcherCrash, DispGoes, DispWorks
  <2>7. ASSUME NEW p \in Processors,
               \/ Process(p) \/ (\E e \in Events : TakeJob(p, e))
               \/ ProcessorCrash(p) \/ ProcessorThrows(p)
        PROVE  UNCHANGED persist
    BY <2>7 DEF Process, ClaimNothing, ClaimEvent, Send, MarkSent, MarkFailed, TakeJob,
       ProcessorCrash, ProcessorThrows
  <2>8. CASE UNCHANGED vars
    BY <2>8 DEF vars
  <2>9. QED
    BY <2>1, <2>2, <2>3, <2>4, <2>5, <2>6, <2>7, <2>8 DEF Next, PersistNext, FaultNext
<1>3. persist'.pc = "resolving" /\ persist'.down.status # "ABSENT" => row'[1].status # "ABSENT"
  BY <1>1, <1>2 DEF RefinementInv
<1>4. ASSUME NEW d \in Dispatchers PROVE Informed(d)'
  <2> USE DEF dispVars
  <2>0. dpc \in [Dispatchers -> {"idle", "order", "claim", "defer", "drop", "withhold",
                                 "withholdKept", "register", "mark", "requeue"}]
    BY DEF IInv, TypeOK
  <2>1. CASE UNCHANGED dispVars
    BY <1>1, <2>1, StaysInformed
  <2>2. ASSUME NEW c \in Dispatchers, Dispatch(c) \/ \E e \in Events : Scan(c, e)
        PROVE  Informed(d)'
    <3>1. CASE c = d
      BY <1>1, <2>2, <3>1, BecomesInformed
    <3>2. CASE c # d
      <4>1. UNCHANGED <<dpc[d], devent[d]>>
        <5>1. PICK to, e :
                  /\ dpc' = [dpc EXCEPT ![c] = to]
                  /\ devent' = [devent EXCEPT ![c] = IF to = "idle" THEN 1 ELSE e]
          BY <2>2, DispatchFrame DEF IInv
        <5>2. devent \in [Dispatchers -> Events]
          BY DEF IInv, TypeOK
        <5>3. QED BY <2>0, <3>2, <5>1, <5>2
      <4>2. QED BY <1>1, <4>1, StaysInformed
    <3>3. QED BY <3>1, <3>2
  <2>3. ASSUME NEW c \in Dispatchers, DispatchCallFails(c) \/ DispatcherCrash(c)
        PROVE  Informed(d)'
    <3>1. CASE c = d
      <4>1. dpc'[d] \in {"requeue", "idle"}
        BY <2>0, <2>3, <3>1 DEF DispatchCallFails, DispatcherCrash, DispGoes, DispWorks
      <4>2. QED BY <4>1 DEF Informed
    <3>2. CASE c # d
      <4>1. UNCHANGED <<dpc[d], devent[d]>>
        BY <2>3, <3>2 DEF DispatchCallFails, DispatcherCrash, DispGoes, DispWorks, IInv, TypeOK
      <4>2. QED BY <1>1, <4>1, StaysInformed
    <3>3. QED BY <3>1, <3>2
  <2>4. CASE PersistNext \/ PersistFails
    BY <2>1, <2>4 DEF PersistNext, StartOpen, StartResolve, PersistReads, OpenIncident,
       ResolveIncident, PersistFails
  <2>5. CASE ApiNext
    BY <2>1, <2>5 DEF ApiNext, PauseMonitor, ResumeMonitor, RemoveMonitor, UpdateMonitor,
       DisableChannel, EnableChannel, RemoveChannel
  <2>6. CASE ClockNext \/ \E e \in Events : SweepStalledJob(e) \/ LoseJob(e)
    BY <2>1, <2>6 DEF ClockNext, ExpireLease, BecomeReady, SweepStalledJob, LoseJob
  <2>7. ASSUME NEW p \in Processors,
               \/ Process(p) \/ (\E e \in Events : TakeJob(p, e))
               \/ ProcessorCrash(p) \/ ProcessorThrows(p)
        PROVE  Informed(d)'
    BY <2>1, <2>7 DEF Process, ClaimNothing, ClaimEvent, Send, MarkSent, MarkFailed, TakeJob,
       ProcessorCrash, ProcessorThrows
  <2>8. CASE UNCHANGED vars
    BY <2>1, <2>8 DEF vars
  <2>9. QED
    BY <2>2, <2>3, <2>4, <2>5, <2>6, <2>7, <2>8 DEF Next, FaultNext
<1>5. QED BY <1>1, <1>3, <1>4 DEF RefinementInv, Fine, Informed

LEMMA InitMaps == Init => Contract!Init /\ RefinementInv
<1> SUFFICES ASSUME Init PROVE Contract!Init /\ RefinementInv
  OBVIOUS
<1>1. \A e \in Events : row[e] = NoRow
  BY DEF Init
<1>2. NoRow.status = "ABSENT" /\ NoRow.kind = "NONE" /\ NoRow.attempts = 0 /\ ~NoRow.withheld
  BY DEF NoRow
<1>3. EventState(NoRow) = "NONE"
  <2>1. NoRow \in Rows
    BY <1>1, InitType DEF TypeOK, Events
  <2>2. QED BY <1>2, <2>1, StateOf
<1>4. Contract!Init
  BY <1>1, <1>2, <1>3
  DEF Init, Contract!Init, EventKinds, EventStates, Tried, Events, Contract!Events
<1>5. RefinementInv
  BY <1>1, <1>2 DEF Init, RefinementInv, Idle, OpenStatus, Events
<1>6. QED BY <1>4, <1>5

\* Only a RECOVERY that no longer waits is marked withheld, and a dispatcher that
\* withholds one has a DOWN that is settled, however stale what it read
\* (outbox-dispatcher.ts:100-135).
THEOREM WithheldIsSettled == Spec => []RefinementInv
<1>1. IInv /\ RefinementInv /\ [Next]_vars => (IInv /\ RefinementInv)'
  BY InductiveStep, RefinementStep DEF IInv
<1>2. Init => IInv /\ RefinementInv
  BY InitSafe, InitMaps
<1>3. QED BY <1>1, <1>2, PTL DEF Spec

\* For every number of dispatchers, workers, attempts, changes and faults: leases,
\* lost and repeated jobs, late answers, crashes and unlocked reads show the
\* reader of the channel nothing that NotificationContract does not allow.
THEOREM OutboxImplementsContract == Spec => ImplementsContract
<1>1. IInv /\ RefinementInv /\ [Next]_vars => [Contract!Next]_Contract!vars
  BY StepImplements DEF Implements
<1>2. Init => Contract!Init
  BY InitMaps
<1>3. QED BY <1>1, <1>2, Invariance, WithheldIsSettled, PTL DEF Spec, ImplementsContract, Contract!Spec

\* What makes ReaderSeesInOrder inductive in the contract.
ContractInv ==
    /\ EventStates = [e \in Events |-> EventStates[e]]
    /\ EventKinds = [e \in Events |-> EventKinds[e]]
    /\ accepted \subseteq Tried /\ Tried \subseteq Events
    /\ \A e \in Events : EventStates[e] = "SENT" => e \in accepted
    /\ incident = "NONE" => EventStates[1] = "NONE"
    /\ incident \in {"NONE", "OPEN"} => EventStates[2] = "NONE" /\ 2 \notin Tried
    /\ EventKinds[2] = "RECOVERY" /\ 2 \in Tried => 1 \in accepted
    /\ EventKinds[2] = "RESOLVED_SUMMARY" => EventStates[1] = "CANCELED" /\ 1 \notin Tried

\* The contract keeps what it is for.
THEOREM ContractKeepsOrder == Contract!Spec => []Contract!ReaderSeesInOrder
<1> USE DEF Events, Contract!Events
<1>1. Contract!Init => ContractInv
  BY DEF Contract!Init, ContractInv
<1>2. ContractInv /\ [Contract!Next]_Contract!vars => ContractInv'
  <2> SUFFICES ASSUME ContractInv, [Contract!Next]_Contract!vars PROVE ContractInv'
    OBVIOUS
  <2> USE DEF ContractInv
  <2>1. CASE Contract!OpenIncident
    BY <2>1 DEF Contract!OpenIncident, Contract!Queue
  <2>2. CASE Contract!ResolveIncident
    BY <2>2 DEF Contract!ResolveIncident, Contract!Queue
  <2>3. CASE Contract!Withdraw
    BY <2>3 DEF Contract!Withdraw
  <2>4. CASE Contract!Withhold
    BY <2>4 DEF Contract!Withhold
  <2>5. ASSUME NEW e \in Events, Contract!Drop(e) PROVE ContractInv'
    BY <2>5 DEF Contract!Drop
  <2>6. ASSUME NEW e \in Events, Contract!Try(e) PROVE ContractInv'
    BY <2>6 DEF Contract!Try
  <2>7. ASSUME NEW e \in Events, Contract!Receive(e) PROVE ContractInv'
    BY <2>7 DEF Contract!Receive
  <2>8. ASSUME NEW e \in Events, Contract!Confirm(e) PROVE ContractInv'
    BY <2>8 DEF Contract!Confirm
  <2>9. ASSUME NEW e \in Events, Contract!GiveUp(e) PROVE ContractInv'
    BY <2>9 DEF Contract!GiveUp
  <2>10. CASE UNCHANGED Contract!vars
    BY <2>10 DEF Contract!vars
  <2>11. QED
    BY <2>1, <2>2, <2>3, <2>4, <2>5, <2>6, <2>7, <2>8, <2>9, <2>10 DEF Contract!Next
<1>3. ContractInv => Contract!ReaderSeesInOrder
  BY DEF ContractInv, Contract!ReaderSeesInOrder
<1>4. QED BY <1>1, <1>2, <1>3, PTL DEF Contract!Spec

\* And so does the outbox: nobody receives a RECOVERY without its DOWN, or a DOWN
\* beside the RESOLVED_SUMMARY that replaces it (PROJECT_PLAN.md:380-382).
THEOREM ReadersSeeInOrder == Spec => []Contract!ReaderSeesInOrder
BY OutboxImplementsContract, ContractKeepsOrder, PTL DEF ImplementsContract
=============================================================================
