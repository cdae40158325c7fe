---------------------------- MODULE RetentionProofs ----------------------------
(***************************************************************************)
(* Proofs about Retention for any rows, batch sizes, crashes and changes   *)
(* of the binding.                                                         *)
(***************************************************************************)
EXTENDS Retention, TLAPS

\* A row that the cutoff of the run covers is still old: one that is reopened
\* leaves it.
CutoffStaysOld == \A x \in run.cutoff : row[x] = "gone" \/ x \in old

\* A RECOVERY is attempted only after its DOWN was sent, so one that is withheld
\* has no attempts.
RecoveryWaitsForDown ==
    \A x \in Rows : Kind[x] = "delivery" /\ Kind[Parent[x]] = "recovery" /\ row[x] # "absent" =>
        /\ row[Parent[x]] # "withheld"
        /\ \A y \in DownOf(Parent[x]) : row[y] \in {"sent", "gone"}

\* The DOWN of an open incident has the secret a RECOVERY will need.
DownKeepsSecret ==
    \A y \in Rows : /\ Kind[y] = "down" /\ row[y] \in {"open", "sent"}
                    /\ Parent[y] # NONE /\ row[Parent[y]] = "open"
                    /\ toggles = 0 /\ y \notin late
                    => y \in secret

WantedUntilToggled == toggles = 0 => wanted

\* The inductive invariant: the first part is about which rows there are, the
\* second about their secrets.
RowsInv    == RetentionTypeOK /\ CutoffStaysOld /\ HistoryIsWhole /\ RecoveryWaitsForDown
SecretsInv == WantedUntilToggled /\ DownKeepsSecret /\ RecoveryHasSecret
RetentionInv       == RowsInv /\ SecretsInv
-----------------------------------------------------------------------------
\* What the foreign keys say of a row and its parent (schema.prisma).
LEMMA Parents ==
    ASSUME NEW x \in Rows
    PROVE  /\ Parent[x] # NONE => Parent[x] \in Rows
           /\ Kind[x] \in {"delivery", "recovery"} => Parent[x] # NONE
           /\ Kind[x] = "delivery" => Kind[Parent[x]] \in {"down", "recovery"}
           /\ Kind[x] \in {"down", "recovery"} /\ Parent[x] # NONE => Kind[Parent[x]] = "incident"
           /\ Kind[x] = "result" /\ Parent[x] # NONE => Kind[Parent[x]] = "check"
           /\ Parent[x] # NONE => /\ Kind[x] \in {"result", "delivery", "down", "recovery"}
                                  /\ Kind[Parent[x]] # "delivery"
BY RetentionAssumption DEF ForeignKeys, WithParent

\* A channel gets one DOWN for an incident (notification_outbox_incident_channel_sequence_key).
LEMMA TheDown ==
    ASSUME NEW r \in Rows, Kind[r] = "recovery", NEW d \in DownOf(r), NEW e \in DownOf(r)
    PROVE  d = e
<1>1. Parent[r] # NONE
  BY Parents
<1>2. QED BY <1>1, RetentionAssumption DEF OneDown, DownOf

\* The rows that a step of the command finds are finished or, if attempts, belong
\* to a notification that is; deletion takes rows from the cutoff that have no
\* children left, redaction spares what is exempt (retention-plan.ts).
LEMMA Found ==
    ASSUME RowsInv, Running, NEW x \in Candidates(run.step, run.cutoff)
    PROVE  /\ x \in Rows /\ Present(x)
           /\ run.step > 2 =>
                /\ x \in run.cutoff /\ \A y \in Children(x) : ~Present(y)
                /\ Kind[x] = "delivery" => row[Parent[x]] \in Finished /\ Parent[x] \in run.cutoff
                /\ Kind[x] # "delivery" => row[x] \in Finished
           /\ run.step <= 2 => row[x] \in Finished /\ ~Exempt(x)
<1> DEFINE C == Candidates(run.step, run.cutoff)
<1>1. run.step \in 1..8 /\ run.cutoff \subseteq Rows
  BY DEF RowsInv, RetentionTypeOK, Running, LastStep
<1>2. CASE run.step \in {1, 2}
  <2>1. \E K : C = Redactable(K)
    BY <1>2 DEF Candidates
  <2>2. x \in secret /\ row[x] \in Finished /\ ~Exempt(x)
    BY <2>1 DEF Redactable
  <2>3. x \in Rows /\ Present(x)
    BY <2>2 DEF RowsInv, RetentionTypeOK
  <2>4. QED BY <1>2, <2>2, <2>3
<1>3. CASE run.step = 5
  <2>1. x \in RemovableAttempts(run.cutoff)
    BY <1>3 DEF Candidates
  <2>2. ASSUME NEW y \in Children(x) PROVE FALSE
    <3>1. y \in Rows /\ Parent[y] = x /\ x \in Rows /\ Kind[x] = "delivery"
      BY <1>1, <2>1 DEF Children, RemovableAttempts
    <3>2. Parent[y] # NONE
      BY <3>1, RetentionAssumption
    <3>3. QED BY <3>1, <3>2, Parents
  <2>3. QED BY <1>1, <1>3, <2>1, <2>2 DEF RemovableAttempts
<1>4. CASE run.step \in {3, 4, 6, 7, 8}
  <2>1. \E K : "delivery" \notin K /\ C = Removable(K, run.cutoff)
    <3>1. run.step = 3 => C = Removable({"result"}, run.cutoff)                BY DEF Candidates
    <3>2. run.step = 4 => C = Removable({"check"}, run.cutoff)                 BY DEF Candidates
    <3>3. run.step = 6 => C = Removable({"down", "recovery"}, run.cutoff)      BY DEF Candidates
    <3>4. run.step = 7 => C = Removable({"incident"}, run.cutoff)              BY DEF Candidates
    <3>5. run.step = 8 => C = Removable({"audit"}, run.cutoff)                 BY DEF Candidates
    <3>6. QED BY <1>4, <3>1, <3>2, <3>3, <3>4, <3>5
  <2>2. QED BY <1>1, <1>4, <2>1 DEF Removable, Present, Finished
<1>5. QED BY <1>1, <1>2, <1>3, <1>4
-----------------------------------------------------------------------------
LEMMA RetentionInitInv == RetentionInit => RowsInv /\ SecretsInv
BY RetentionAssumption DEF RetentionInit, RowsInv, SecretsInv, RetentionTypeOK, CutoffStaysOld,
     HistoryIsWhole, RecoveryWaitsForDown, WantedUntilToggled, DownKeepsSecret, RecoveryHasSecret,
     Idle, Present, LastStep, Finished, DownOf

\* The states of a row, and of the writers beside the command all but a late
\* confirmation: they make rows, end them or let them grow old.
States == {"absent", "open", "gone"} \union Finished

Writes ==
    \/ \E x \in Rows : \/ WriteRecord(x) \/ OpenRow(x) \/ Close(x) \/ GrowOld(x)
                       \/ \E to \in {"sent", "failed", "canceled", "withheld"} : SettleNotification(x, to)
    \/ \E i, d, r \in Rows : Resolve(i, d, r)
    \/ Toggle

\* What a writer does to the rows: none is deleted or reopened, a new one has a
\* parent, and what is finished stays as it is.
OnlyNewRows ==
    /\ row' \in [Rows -> States]
    /\ \A x \in Rows : row'[x] # row[x] =>
         \/ row[x] = "open" /\ row'[x] \in Finished
         \/ row[x] = "absent" /\ row'[x] \notin {"absent", "gone"}
              /\ (Parent[x] # NONE => row[Parent[x]] = "open")
    /\ old \subseteq old' /\ \A x \in old' : x \in Rows /\ row'[x] \notin {"absent", "gone"}
    /\ \A x \in secret' : x \in Rows /\ row'[x] \notin {"absent", "gone"}

LEMMA WritersOnlyAdd ==
    ASSUME RowsInv, Writes
    PROVE  OnlyNewRows /\ UNCHANGED run
<1> USE RetentionAssumption DEF RowsInv, RetentionTypeOK, Present, Finished, States, OnlyNewRows
<1>1. ASSUME NEW x \in Rows, WriteRecord(x) PROVE OnlyNewRows /\ UNCHANGED run
  BY <1>1 DEF WriteRecord
<1>2. ASSUME NEW x \in Rows, OpenRow(x) PROVE OnlyNewRows /\ UNCHANGED run
  BY <1>2 DEF OpenRow
<1>3. ASSUME NEW x \in Rows, Close(x) PROVE OnlyNewRows /\ UNCHANGED run
  BY <1>3 DEF Close
<1>4. ASSUME NEW x \in Rows, GrowOld(x) PROVE OnlyNewRows /\ UNCHANGED run
  BY <1>4 DEF GrowOld
<1>5. ASSUME NEW x \in Rows, NEW to \in {"sent", "failed", "canceled", "withheld"}, SettleNotification(x, to)
      PROVE  OnlyNewRows /\ UNCHANGED run
  BY <1>5 DEF SettleNotification
<1>6. ASSUME NEW i \in Rows, NEW d \in Rows, NEW r \in Rows, Resolve(i, d, r)
      PROVE  OnlyNewRows /\ UNCHANGED run
  BY <1>6 DEF Resolve
<1>7. CASE Toggle
  BY <1>7 DEF Toggle
<1>8. QED BY <1>1, <1>2, <1>3, <1>4, <1>5, <1>6, <1>7 DEF Writes

\* An attempt of a RECOVERY begins after its DOWN was sent, and what is withheld
\* is a RECOVERY whose DOWN has failed (outbox-dispatcher.ts:116-142).
LEMMA WritersKeepOrder ==
    ASSUME RowsInv, Writes
    PROVE  /\ \A x \in Rows : /\ row[x] = "absent" /\ row'[x] # "absent"
                              /\ Kind[x] = "delivery" /\ Kind[Parent[x]] = "recovery"
                 => row'[Parent[x]] = "open" /\ \E y \in DownOf(Parent[x]) : row[y] = "sent"
           /\ \A x \in Rows : row'[x] = "withheld" /\ row[x] # "withheld"
                 => Kind[x] = "recovery" /\ \E y \in DownOf(x) : row[y] = "failed"
<1> DEFINE Began(x)    == /\ row[x] = "absent" /\ row'[x] # "absent"
                          /\ Kind[x] = "delivery" /\ Kind[Parent[x]] = "recovery"
                          => row'[Parent[x]] = "open" /\ \E y \in DownOf(Parent[x]) : row[y] = "sent"
           Withheld(x) == row'[x] = "withheld" /\ row[x] # "withheld"
                          => Kind[x] = "recovery" /\ \E y \in DownOf(x) : row[y] = "failed"
           Order == \A x \in Rows : Began(x) /\ Withheld(x)
<1> USE DEF RowsInv, RetentionTypeOK
<1>1. ASSUME NEW x \in Rows, WriteRecord(x) PROVE Order
  <2>1. \A z \in Rows : row'[z] # row[z] =>
           row'[z] = "closed" /\ (row[z] = "open" \/ Kind[z] \in {"result", "audit"})
    BY <1>1, RetentionAssumption DEF WriteRecord
  <2>2. QED BY <2>1
<1>2. ASSUME NEW x \in Rows, OpenRow(x) PROVE Order
  <2>1. row' = [row EXCEPT ![x] = "open"] /\ row[x] = "absent"
    BY <1>2 DEF OpenRow
  <2>2. \A z \in Rows : Withheld(z)
    BY <2>1
  <2>3. Began(x)
    <3> SUFFICES ASSUME Kind[x] = "delivery", Kind[Parent[x]] = "recovery" PROVE Began(x)
      OBVIOUS
    <3>1. row[Parent[x]] = "open" /\ \E y \in DownOf(Parent[x]) : row[y] = "sent"
      BY <1>2, Parents DEF OpenRow
    <3>2. QED BY <2>1, <3>1, Parents
  <2>4. QED BY <2>1, <2>2, <2>3
<1>3. ASSUME NEW x \in Rows, Close(x) \/ GrowOld(x) PROVE Order
  BY <1>3 DEF Close, GrowOld
<1>4. ASSUME NEW x \in Rows, NEW to \in {"sent", "failed", "canceled", "withheld"}, SettleNotification(x, to)
      PROVE  Order
  BY <1>4 DEF SettleNotification
<1>5. ASSUME NEW i \in Rows, NEW d \in Rows, NEW r \in Rows, Resolve(i, d, r) PROVE Order
  BY <1>5 DEF Resolve
<1>6. CASE Toggle
  BY <1>6 DEF Toggle
<1>7. Order
  BY <1>1, <1>2, <1>3, <1>4, <1>5, <1>6 DEF Writes
<1>8. QED BY <1>7

LEMMA WritersKeepRows ==
    ASSUME RowsInv, Writes
    PROVE  RowsInv'
<1>1. OnlyNewRows /\ UNCHANGED run
  BY WritersOnlyAdd
<1>2. RetentionTypeOK'
  <2>1. wanted' \in BOOLEAN /\ late' \subseteq Rows /\ toggles' \in 0..MaxToggles
        /\ faults' \in 0..MaxFaults
    <3>1. CASE Toggle
      BY <3>1, RetentionAssumption DEF RowsInv, RetentionTypeOK, Toggle
    <3>2. CASE ~Toggle
      <4>1. UNCHANGED <<wanted, late, toggles, faults>>
        BY <3>2 DEF Writes, WriteRecord, OpenRow, Close, GrowOld, SettleNotification, Resolve
      <4>2. QED BY <4>1 DEF RowsInv, RetentionTypeOK
    <3>3. QED BY <3>1, <3>2
  <2>2. QED BY <1>1, <2>1 DEF RowsInv, RetentionTypeOK, OnlyNewRows, States, Present
<1>3. CutoffStaysOld'
  BY <1>1 DEF RowsInv, RetentionTypeOK, CutoffStaysOld, OnlyNewRows, Finished
<1>4. HistoryIsWhole'
  <2> SUFFICES ASSUME NEW x \in Rows, Parent[x] # NONE
               PROVE  /\ row'[x] \notin {"absent", "gone"} => row'[Parent[x]] \notin {"absent", "gone"}
                      /\ Kind[x] = "delivery" /\ row'[x] = "gone" =>
                            \/ row'[Parent[x]] = "gone"
                            \/ row'[Parent[x]] \in Finished /\ Parent[x] \in old'
    BY DEF HistoryIsWhole, Present
  <2>1. Parent[x] \in Rows
    BY Parents
  <2>2. /\ row[x] \notin {"absent", "gone"} => row[Parent[x]] \notin {"absent", "gone"}
        /\ Kind[x] = "delivery" /\ row[x] = "gone" =>
              \/ row[Parent[x]] = "gone"
              \/ row[Parent[x]] \in Finished /\ Parent[x] \in old
    BY DEF RowsInv, HistoryIsWhole, Present
  <2>3. QED BY <1>1, <2>1, <2>2 DEF OnlyNewRows, Finished
<1>5. RecoveryWaitsForDown'
  <2> SUFFICES ASSUME NEW x \in Rows, Kind[x] = "delivery", Kind[Parent[x]] = "recovery", row'[x] # "absent"
               PROVE  /\ row'[Parent[x]] # "withheld"
                      /\ \A y \in DownOf(Parent[x]) : row'[y] \in {"sent", "gone"}
    BY DEF RecoveryWaitsForDown, DownOf
  <2>1. Parent[x] \in Rows
    BY Parents
  <2>2. CASE row[x] = "absent"
    <3>1. PICK z \in DownOf(Parent[x]) : row[z] = "sent"
      BY <2>2, WritersKeepOrder
    <3>2. \A y \in DownOf(Parent[x]) : y = z
      BY <2>1, TheDown
    <3>3. row'[z] = "sent"
      BY <1>1, <3>1 DEF OnlyNewRows, DownOf, Finished
    <3>4. row'[Parent[x]] = "open"
      BY <2>2, WritersKeepOrder
    <3>5. QED BY <3>2, <3>3, <3>4
  <2>3. CASE row[x] # "absent"
    <3>1. row[Parent[x]] # "withheld" /\ \A y \in DownOf(Parent[x]) : row[y] \in {"sent", "gone"}
      BY <2>3 DEF RowsInv, RecoveryWaitsForDown
    <3>2. row'[Parent[x]] # "withheld"
      BY <2>1, <3>1, WritersKeepOrder
    <3>3. \A y \in DownOf(Parent[x]) : row'[y] = row[y]
      BY <1>1, <3>1 DEF OnlyNewRows, DownOf
    <3>4. QED BY <3>1, <3>2, <3>3
  <2>4. QED BY <2>2, <2>3
<1>6. QED BY <1>2, <1>3, <1>4, <1>5 DEF RowsInv

\* A late confirmation reopens at most a RECOVERY without attempts, which leaves
\* the cutoff (notification-processor.ts:324-441).
LEMMA LateKeepsRows ==
    ASSUME RowsInv, NEW d \in Rows, NEW r \in Rows, ConfirmLate(d, r)
    PROVE  RowsInv'
<1>1. /\ Kind[d] = "down" /\ row[d] = "failed" /\ d \notin old
      /\ Kind[r] = "recovery" /\ d \in DownOf(r) /\ d # r
      /\ late' = late \union {d}
      /\ UNCHANGED <<wanted, toggles, faults>>
  BY DEF ConfirmLate, DownOf
<1>2. PICK recovers \in BOOLEAN :
         /\ recovers => row[r] \in {"withheld", "absent"} /\ row[Parent[d]] = "closed"
         /\ row' = [row EXCEPT ![d] = "sent", ![r] = IF recovers THEN "open" ELSE @]
         /\ secret' \subseteq secret \union (IF recovers THEN {r} ELSE {})
         /\ old' = IF recovers THEN old \ {r} ELSE old
         /\ run' = IF recovers THEN [run EXCEPT !.cutoff = @ \ {r}] ELSE run
  <2>1. PICK why \in {{"withheld"}, {"withheld", "absent"}} :
          LET recovers == wanted /\ row[r] \in why /\ row[Parent[d]] = "closed"
          IN  /\ row' = [row EXCEPT ![d] = "sent", ![r] = IF recovers THEN "open" ELSE @]
              /\ secret' = (IF Retained(d, "sent") THEN secret ELSE secret \ {d})
                           \union (IF recovers THEN {r} ELSE {})
              /\ old' = IF recovers THEN old \ {r} ELSE old
              /\ run' = IF recovers THEN [run EXCEPT !.cutoff = @ \ {r}] ELSE run
    BY DEF ConfirmLate
  <2> DEFINE rec == wanted /\ row[r] \in why /\ row[Parent[d]] = "closed"
  <2>2. rec \in BOOLEAN /\ (rec => row[r] \in {"withheld", "absent"} /\ row[Parent[d]] = "closed")
    BY DEF RowsInv, RetentionTypeOK
  <2>3. secret' \subseteq secret \union (IF rec THEN {r} ELSE {})
    BY <2>1
  <2>4. QED BY <2>1, <2>2, <2>3
<1>3. /\ row' \in [Rows -> States]
      /\ row'[d] = "sent" /\ row'[r] = IF recovers THEN "open" ELSE row[r]
      /\ \A x \in Rows \ {d, r} : row'[x] = row[x]
  BY <1>1, <1>2 DEF RowsInv, RetentionTypeOK, States, Finished
<1>4. /\ run' \in [step : 0..LastStep, batches : 0..(MaxBatches - 1), cutoff : SUBSET Rows]
      /\ \A x \in run'.cutoff : x \in run.cutoff /\ (x = r => ~recovers)
  BY <1>2 DEF RowsInv, RetentionTypeOK
<1>5. RetentionTypeOK'
  BY <1>1, <1>2, <1>3, <1>4 DEF RowsInv, RetentionTypeOK, Present, States
<1>6. CutoffStaysOld'
  BY <1>1, <1>2, <1>3, <1>4 DEF RowsInv, RetentionTypeOK, CutoffStaysOld
<1>7. \A x \in Rows : Kind[x] = "delivery" /\ Parent[x] = r => row[x] = "absent"
  BY <1>1, RetentionAssumption DEF RowsInv, RecoveryWaitsForDown
<1>8. HistoryIsWhole'
  <2> SUFFICES ASSUME NEW x \in Rows, Parent[x] # NONE
               PROVE  /\ row'[x] \notin {"absent", "gone"} => row'[Parent[x]] \notin {"absent", "gone"}
                      /\ Kind[x] = "delivery" /\ row'[x] = "gone" =>
                            \/ row'[Parent[x]] = "gone"
                            \/ row'[Parent[x]] \in Finished /\ Parent[x] \in old'
    BY DEF HistoryIsWhole, Present
  <2>1. Parent[x] \in Rows
    BY Parents
  <2>2. /\ row[x] \notin {"absent", "gone"} => row[Parent[x]] \notin {"absent", "gone"}
        /\ Kind[x] = "delivery" /\ row[x] = "gone" =>
              \/ row[Parent[x]] = "gone"
              \/ row[Parent[x]] \in Finished /\ Parent[x] \in old
    BY DEF RowsInv, HistoryIsWhole, Present
  <2>3. row'[x] \notin {"absent", "gone"} => row'[Parent[x]] \notin {"absent", "gone"}
    BY <1>1, <1>2, <1>3, <2>1, <2>2 DEF DownOf
  <2>4. ASSUME Kind[x] = "delivery", row'[x] = "gone"
        PROVE  \/ row'[Parent[x]] = "gone"
               \/ row'[Parent[x]] \in Finished /\ Parent[x] \in old'
    <3>1. row[x] = "gone" /\ Parent[x] # r
      BY <1>1, <1>2, <1>3, <1>7, <2>4
    <3>2. Parent[x] # d
      BY <1>1, <2>2, <2>4, <3>1
    <3>3. QED BY <1>2, <1>3, <2>1, <2>2, <2>4, <3>1, <3>2
  <2>5. QED BY <2>3, <2>4
<1>9. RecoveryWaitsForDown'
  <2> SUFFICES ASSUME NEW x \in Rows, Kind[x] = "delivery", Kind[Parent[x]] = "recovery", row'[x] # "absent"
               PROVE  /\ row'[Parent[x]] # "withheld"
                      /\ \A y \in DownOf(Parent[x]) : row'[y] \in {"sent", "gone"}
    BY DEF RecoveryWaitsForDown, DownOf
  <2>1. Parent[x] \in Rows /\ row'[x] = row[x]
    BY <1>1, <1>3, Parents
  <2>2. row[Parent[x]] # "withheld" /\ \A y \in DownOf(Parent[x]) : row[y] \in {"sent", "gone"}
    BY <2>1 DEF RowsInv, RecoveryWaitsForDown
  <2>3. row'[Parent[x]] = row[Parent[x]]
    BY <1>1, <1>3, <1>7, <2>1
  <2>4. \A y \in DownOf(Parent[x]) : row'[y] = row[y]
    BY <1>1, <1>3, <2>2 DEF DownOf
  <2>5. QED BY <2>2, <2>3, <2>4
<1>10. QED BY <1>5, <1>6, <1>8, <1>9 DEF RowsInv

\* What one batch changes: a redaction takes secrets that nobody needs any more, a
\* deletion takes rows whose children are gone (retention-runner.ts:202-232).
LEMMA BatchChanges ==
    ASSUME RowsInv, Batch
    PROVE  \E B \in SUBSET Rows :
             /\ \A x \in B : x \in Candidates(run.step, run.cutoff)
             /\ run.step <= 2 => secret' = secret \ B /\ UNCHANGED <<row, old>>
             /\ run.step > 2 => /\ row' = [x \in Rows |-> IF x \in B THEN "gone" ELSE row[x]]
                                /\ old' = old \ B /\ secret' = secret \ B
             /\ run' \in [step : 0..LastStep, batches : 0..(MaxBatches - 1), cutoff : SUBSET Rows]
             /\ run'.cutoff \subseteq run.cutoff
             /\ faults' \in 0..MaxFaults
             /\ UNCHANGED <<wanted, late, toggles>>
<1>1. /\ Running /\ run.step \in 1..8 /\ run.batches \in 0..(MaxBatches - 1)
      /\ run \in [step : 0..LastStep, batches : 0..(MaxBatches - 1), cutoff : SUBSET Rows]
      /\ faults \in 0..MaxFaults /\ MaxFaults \in Nat /\ MaxBatches \in Nat \ {0}
  BY RetentionAssumption DEF Batch, RowsInv, RetentionTypeOK, Running, LastStep
<1>2. PICK locked \in SUBSET Candidates(run.step, run.cutoff) :
         LET found == Candidates(run.step, run.cutoff) \ locked
             size  == IF Cardinality(found) < BatchSize THEN Cardinality(found) ELSE BatchSize
         IN  /\ locked # {} => faults < MaxFaults
             /\ faults' = IF locked = {} THEN faults ELSE faults + 1
             /\ \E B \in SUBSET found : Cardinality(B) = size /\ Mutate(B) /\ AfterBatch(size)
  BY DEF Batch
<1>3. PICK B \in SUBSET Candidates(run.step, run.cutoff) :
         Mutate(B) /\ AfterBatch(Cardinality(B))
  BY <1>2
<1> DEFINE size == Cardinality(B)
<1>4. B \in SUBSET Rows
  BY <1>1, <1>3, Found
<1>5. faults' \in 0..MaxFaults
  BY <1>1, <1>2
<1>6. /\ run' \in [step : 0..LastStep, batches : 0..(MaxBatches - 1), cutoff : SUBSET Rows]
      /\ run'.cutoff \subseteq run.cutoff
  <2>1. CASE size = BatchSize /\ run.batches + 1 < MaxBatches
    <3>1. run' = [run EXCEPT !.batches = @ + 1]
      BY <1>3, <2>1 DEF AfterBatch
    <3>2. QED BY <1>1, <2>1, <3>1
  <2>2. CASE ~(size = BatchSize /\ run.batches + 1 < MaxBatches) /\ run.step = LastStep
    <3>1. run' = Idle
      BY <1>3, <2>2 DEF AfterBatch
    <3>2. QED BY <1>1, <3>1 DEF Idle, LastStep
  <2>3. CASE ~(size = BatchSize /\ run.batches + 1 < MaxBatches) /\ run.step # LastStep
    <3>1. run' = [run EXCEPT !.step = @ + 1, !.batches = 0]
      BY <1>3, <2>3 DEF AfterBatch
    <3>2. run.step + 1 \in 0..LastStep /\ 0 \in 0..(MaxBatches - 1)
      BY <1>1, <2>3 DEF LastStep
    <3>3. run'.cutoff = run.cutoff
      BY <1>1, <3>1
    <3>4. run' \in [step : 0..LastStep, batches : 0..(MaxBatches - 1), cutoff : SUBSET Rows]
      BY <1>1, <3>1, <3>2
    <3>5. QED BY <3>3, <3>4
  <2>4. QED BY <2>1, <2>2, <2>3
<1>7. /\ run.step <= 2 => secret' = secret \ B /\ UNCHANGED <<row, old>>
      /\ run.step > 2 => /\ row' = [x \in Rows |-> IF x \in B THEN "gone" ELSE row[x]]
                         /\ old' = old \ B /\ secret' = secret \ B
  BY <1>1, <1>3 DEF Mutate
<1>8. UNCHANGED <<wanted, late, toggles>>
  BY DEF Batch
<1>9. QED BY <1>3, <1>4, <1>5, <1>6, <1>7, <1>8

\* Child before parent: no batch takes a row that has children, nor an attempt
\* whose notification is not old.
LEMMA BatchKeepsRows ==
    ASSUME RowsInv, Batch
    PROVE  RowsInv'
<1>1. PICK B \in SUBSET Rows :
             /\ \A x \in B : x \in Candidates(run.step, run.cutoff)
             /\ run.step <= 2 => secret' = secret \ B /\ UNCHANGED <<row, old>>
             /\ run.step > 2 => /\ row' = [x \in Rows |-> IF x \in B THEN "gone" ELSE row[x]]
                                /\ old' = old \ B /\ secret' = secret \ B
             /\ run' \in [step : 0..LastStep, batches : 0..(MaxBatches - 1), cutoff : SUBSET Rows]
             /\ run'.cutoff \subseteq run.cutoff
             /\ faults' \in 0..MaxFaults
             /\ UNCHANGED <<wanted, late, toggles>>
  BY BatchChanges
<1>2. Running /\ run.step \in 1..8
  BY DEF Batch, RowsInv, RetentionTypeOK, Running, LastStep
<1>3. CASE run.step <= 2
  BY <1>1, <1>3 DEF RowsInv, RetentionTypeOK, CutoffStaysOld, HistoryIsWhole, RecoveryWaitsForDown,
       Present, DownOf
<1>4. CASE run.step > 2
  <2>1. \A x \in B : /\ Present(x) /\ \A y \in Children(x) : ~Present(y)
                     /\ Kind[x] = "delivery" => row[Parent[x]] \in Finished /\ Parent[x] \in run.cutoff
    BY <1>1, <1>2, <1>4, Found
  <2>2. \A x \in Rows : row'[x] = IF x \in B THEN "gone" ELSE row[x]
    BY <1>1, <1>4
  <2>3. RetentionTypeOK'
    BY <1>1, <1>4, <2>2 DEF RowsInv, RetentionTypeOK, Present
  <2>4. CutoffStaysOld'
    BY <1>1, <1>4, <2>2 DEF RowsInv, RetentionTypeOK, CutoffStaysOld
  <2>5. HistoryIsWhole'
    <3> SUFFICES ASSUME NEW x \in Rows, Parent[x] # NONE
                 PROVE  /\ row'[x] \notin {"absent", "gone"} => row'[Parent[x]] \notin {"absent", "gone"}
                        /\ Kind[x] = "delivery" /\ row'[x] = "gone" =>
                              \/ row'[Parent[x]] = "gone"
                              \/ row'[Parent[x]] \in Finished /\ Parent[x] \in old'
      BY DEF HistoryIsWhole, Present
    <3>1. Parent[x] \in Rows /\ x \in Children(Parent[x])
      BY Parents DEF Children
    <3>2. /\ row[x] \notin {"absent", "gone"} => row[Parent[x]] \notin {"absent", "gone"}
          /\ Kind[x] = "delivery" /\ row[x] = "gone" =>
                \/ row[Parent[x]] = "gone"
                \/ row[Parent[x]] \in Finished /\ Parent[x] \in old
      BY DEF RowsInv, HistoryIsWhole, Present
    <3>3. row'[x] \notin {"absent", "gone"} => row'[Parent[x]] \notin {"absent", "gone"}
      BY <2>1, <2>2, <3>1, <3>2 DEF Present
    <3>4. ASSUME Kind[x] = "delivery", row'[x] = "gone", row'[Parent[x]] # "gone"
          PROVE  row'[Parent[x]] \in Finished /\ Parent[x] \in old'
      <4>1. row[Parent[x]] \in Finished /\ Parent[x] \in old
        BY <2>1, <2>2, <3>1, <3>2, <3>4 DEF RowsInv, CutoffStaysOld, Finished
      <4>2. QED BY <1>1, <1>4, <2>2, <3>1, <3>4, <4>1
    <3>5. QED BY <3>3, <3>4
  <2>6. RecoveryWaitsForDown'
    <3> SUFFICES ASSUME NEW x \in Rows, Kind[x] = "delivery", Kind[Parent[x]] = "recovery",
                        row'[x] # "absent"
                 PROVE  /\ row'[Parent[x]] # "withheld"
                        /\ \A y \in DownOf(Parent[x]) : row'[y] \in {"sent", "gone"}
      BY DEF RecoveryWaitsForDown, DownOf
    <3>1. Parent[x] \in Rows /\ row[x] # "absent"
      BY <2>1, <2>2, Parents DEF Present
    <3>2. row[Parent[x]] # "withheld" /\ \A y \in DownOf(Parent[x]) : row[y] \in {"sent", "gone"}
      BY <3>1 DEF RowsInv, RecoveryWaitsForDown
    <3>3. QED BY <2>2, <3>1, <3>2 DEF DownOf
  <2>7. QED BY <2>3, <2>4, <2>5, <2>6 DEF RowsInv
<1>5. QED BY <1>2, <1>3, <1>4

\* A run begins with the cutoff of now, and one that fails forgets it.
LEMMA RunKeepsRows ==
    ASSUME RowsInv, StartRun \/ Abandon
    PROVE  RowsInv'
<1>1. UNCHANGED <<row, old, secret, wanted, late, toggles>>
  BY DEF StartRun, Abandon
<1>2. /\ run' \in [step : 0..LastStep, batches : 0..(MaxBatches - 1), cutoff : SUBSET Rows]
      /\ run'.cutoff \subseteq old
  BY RetentionAssumption DEF StartRun, Abandon, Idle, RowsInv, RetentionTypeOK, LastStep
<1>3. faults' \in 0..MaxFaults
  BY RetentionAssumption DEF StartRun, Abandon, RowsInv, RetentionTypeOK
<1>4. QED BY <1>1, <1>2, <1>3 DEF RowsInv, RetentionTypeOK, CutoffStaysOld, HistoryIsWhole,
             RecoveryWaitsForDown, Present, DownOf
-----------------------------------------------------------------------------
(* Secrets.                                                                *)

\* A step that gives no row a new state in which it needs its secret, and takes
\* no secret that is needed, keeps the secrets.
LEMMA SecretsKept ==
    ASSUME RowsInv, SecretsInv,
           UNCHANGED <<wanted, toggles>>, late \subseteq late',
           \A y \in Rows : Kind[y] = "down" /\ row'[y] \in {"open", "sent"} /\ y \notin late' =>
               row[y] \in {"open", "sent"} \/ y \in secret',
           \A i \in Rows : Kind[i] = "incident" /\ row'[i] = "open" =>
               row[i] = "open" \/ \A y \in Rows : Parent[y] = i => row'[y] \notin {"open", "sent"},
           \A x \in Rows : Kind[x] = "recovery" /\ row'[x] = "open" => row[x] = "open" \/ x \in secret',
           \A x \in secret \ secret' :
               /\ Kind[x] = "recovery" => row'[x] # "open"
               /\ Kind[x] = "down" /\ row'[x] \in {"open", "sent"} /\ Parent[x] # NONE
                  /\ toggles = 0 /\ x \notin late' => row'[Parent[x]] # "open"
    PROVE  SecretsInv'
<1>1. WantedUntilToggled'
  BY DEF SecretsInv, WantedUntilToggled
<1>2. DownKeepsSecret'
  <2> SUFFICES ASSUME NEW y \in Rows, Kind[y] = "down", row'[y] \in {"open", "sent"},
                      Parent[y] # NONE, row'[Parent[y]] = "open", toggles' = 0, y \notin late'
               PROVE  y \in secret'
    BY DEF DownKeepsSecret
  <2>1. Parent[y] \in Rows /\ Kind[Parent[y]] = "incident"
    BY Parents
  <2>2. row[Parent[y]] = "open"
    BY <2>1
  <2>3. CASE row[y] \in {"open", "sent"}
    BY <2>2, <2>3 DEF SecretsInv, DownKeepsSecret
  <2>4. CASE row[y] \notin {"open", "sent"}
    BY <2>4
  <2>5. QED BY <2>3, <2>4
<1>3. RecoveryHasSecret'
  <2> SUFFICES ASSUME NEW x \in Rows, NEW y \in DownOf(x), Kind[x] = "recovery", row'[x] = "open",
                      toggles' = 0, y \notin late'
               PROVE  x \in secret'
    BY DEF RecoveryHasSecret, DownOf
  <2>1. CASE row[x] = "open"
    BY <2>1 DEF SecretsInv, RecoveryHasSecret
  <2>2. QED BY <2>1
<1>4. QED BY <1>1, <1>2, <1>3 DEF SecretsInv

\* Whatever a writer does, a secret stays where shouldRetainNotificationSecret
\* says (secret-lifecycle.ts), and a RECOVERY takes over the secret of its DOWN.
LEMMA WritersKeepSecrets ==
    ASSUME RowsInv, SecretsInv, Writes
    PROVE  SecretsInv'
<1> USE RetentionAssumption DEF RowsInv, RetentionTypeOK, Finished
<1>1. ASSUME NEW x \in Rows, WriteRecord(x) \/ Close(x) \/ GrowOld(x) PROVE SecretsInv'
  <2>1. /\ \A z \in Rows : row'[z] # row[z] => row'[z] = "closed"
        /\ \A z \in secret \ secret' : Kind[z] \in {"channel", "check", "delivery"}
        /\ UNCHANGED <<wanted, toggles, late>>
    BY <1>1 DEF WriteRecord, Close, GrowOld
  <2>2. QED BY <2>1, SecretsKept
<1>2. ASSUME NEW x \in Rows, OpenRow(x) PROVE SecretsInv'
  <2>1. /\ row' = [row EXCEPT ![x] = "open"] /\ row[x] = "absent" /\ Kind[x] # "recovery"
        /\ secret \subseteq secret' /\ (Kind[x] = "down" => x \in secret')
        /\ UNCHANGED <<wanted, toggles, late>>
    BY <1>2 DEF OpenRow
  <2>2. \A y \in Rows : Parent[y] = x /\ Kind[x] = "incident" => row'[y] \notin {"open", "sent"}
    BY <2>1, Parents DEF HistoryIsWhole, Present
  <2>3. QED BY <2>1, <2>2, SecretsKept
<1>3. ASSUME NEW x \in Rows, NEW to \in {"sent", "failed", "canceled", "withheld"}, SettleNotification(x, to)
      PROVE  SecretsInv'
  <2>1. /\ row' = [row EXCEPT ![x] = to] /\ row[x] = "open" /\ Kind[x] \in {"down", "recovery"}
        /\ secret' \in (IF Retained(x, to) THEN {secret} ELSE {secret, secret \ {x}})
        /\ UNCHANGED <<wanted, toggles, late>>
    BY <1>3 DEF SettleNotification
  <2>2. \A z \in secret \ secret' : z = x /\ ~Retained(x, to)
    BY <2>1
  <2>3. Kind[x] = "down" /\ to = "sent" /\ Parent[x] # NONE /\ row'[Parent[x]] = "open" => Retained(x, to)
    BY <2>1, Parents DEF Retained
  <2>4. QED BY <2>1, <2>2, <2>3, SecretsKept
<1>4. ASSUME NEW i \in Rows, NEW d \in Rows, NEW r \in Rows, Resolve(i, d, r) PROVE SecretsInv'
  <2> DEFINE recovers == row[d] \in {"open", "sent"} /\ wanted
  <2>1. /\ row[i] = "open" /\ Kind[i] = "incident"
        /\ Kind[d] = "down" /\ Parent[d] = i /\ Kind[r] = "recovery" /\ Parent[r] = i
        /\ row[r] = "absent"
        /\ row' = [row EXCEPT ![i] = "closed", ![r] = IF recovers THEN "open" ELSE @]
        /\ secret' = (IF row[d] = "sent" THEN secret \ {d} ELSE secret)
                     \union (IF recovers /\ d \in secret THEN {r} ELSE {})
        /\ UNCHANGED <<wanted, toggles, late>>
    BY <1>4 DEF Resolve
  <2>2. CASE toggles # 0
    BY <2>1, <2>2 DEF SecretsInv, WantedUntilToggled, DownKeepsSecret, RecoveryHasSecret
  <2>3. CASE d \in secret
    <3>1. \A y \in Rows \ {i, r} : row'[y] = row[y]
      BY <2>1
    <3>2. row'[i] = "closed" /\ (row'[r] = "open" => r \in secret') /\ row'[r] # "sent"
      BY <2>1, <2>3
    <3>3. secret \ {d} \subseteq secret'
      BY <2>1
    <3>4. QED BY <2>1, <3>1, <3>2, <3>3, SecretsKept
  <2>4. CASE toggles = 0 /\ d \notin secret
    <3>1. row[d] \notin {"open", "sent"} \/ d \in late
      BY <2>1, <2>4 DEF SecretsInv, DownKeepsSecret
    <3>2. \A y \in Rows \ {i, r} : row'[y] = row[y]
      BY <2>1
    <3>3. row'[i] = "closed" /\ secret \ {d} \subseteq secret' /\ (row'[r] = "open" => d \in late)
      BY <2>1, <3>1
    <3>4. DownKeepsSecret'
      <4> SUFFICES ASSUME NEW y \in Rows, Kind[y] = "down", row'[y] \in {"open", "sent"},
                          Parent[y] # NONE, row'[Parent[y]] = "open", toggles = 0, y \notin late
                   PROVE  y \in secret'
        BY <2>1 DEF DownKeepsSecret
      <4>1. Parent[y] \in Rows \ {i, r} /\ y \in Rows \ {i, r}
        BY <2>1, <3>3, Parents
      <4>2. y \in secret
        BY <3>2, <4>1 DEF SecretsInv, DownKeepsSecret
      <4>3. QED BY <2>4, <3>3, <4>2
    <3>5. RecoveryHasSecret'
      <4> SUFFICES ASSUME NEW x \in Rows, NEW y \in DownOf(x), Kind[x] = "recovery", row'[x] = "open",
                          toggles = 0, y \notin late
                   PROVE  x \in secret'
        BY <2>1 DEF RecoveryHasSecret, DownOf
      <4>1. CASE x = r
        <5>1. d \in DownOf(r)
          BY <2>1 DEF DownOf
        <5>2. y = d
          BY <2>1, <4>1, <5>1, TheDown
        <5>3. QED BY <3>3, <4>1, <5>2
      <4>2. CASE x # r
        BY <2>1, <3>2, <3>3, <4>2 DEF SecretsInv, RecoveryHasSecret
      <4>3. QED BY <4>1, <4>2
    <3>6. QED BY <2>1, <3>4, <3>5 DEF SecretsInv, WantedUntilToggled
  <2>5. QED BY <2>2, <2>3, <2>4
<1>5. CASE Toggle
  <2>1. toggles' # 0
    BY <1>5 DEF Toggle
  <2>2. QED BY <2>1 DEF SecretsInv, WantedUntilToggled, DownKeepsSecret, RecoveryHasSecret
<1>6. QED BY <1>1, <1>2, <1>3, <1>4, <1>5 DEF Writes
\* A late confirmation takes the secret of its own DOWN at most, and gives the
\* RECOVERY that it reopens the secret of the attempt.
LEMMA LateKeepsSecrets ==
    ASSUME RowsInv, SecretsInv, NEW d \in Rows, NEW r \in Rows, ConfirmLate(d, r)
    PROVE  SecretsInv'
<1>1. /\ Kind[d] = "down" /\ Kind[r] = "recovery" /\ d # r
      /\ late' = late \union {d} /\ UNCHANGED <<wanted, toggles>>
  BY DEF ConfirmLate
<1>2. PICK recovers \in BOOLEAN :
         /\ row' = [row EXCEPT ![d] = "sent", ![r] = IF recovers THEN "open" ELSE @]
         /\ secret' \in {secret, secret \ {d}, secret \union {r}, (secret \ {d}) \union {r}}
         /\ recovers => r \in secret'
  <2>1. PICK why \in {{"withheld"}, {"withheld", "absent"}} :
          LET recovers == wanted /\ row[r] \in why /\ row[Parent[d]] = "closed"
          IN  /\ row' = [row EXCEPT ![d] = "sent", ![r] = IF recovers THEN "open" ELSE @]
              /\ secret' = (IF Retained(d, "sent") THEN secret ELSE secret \ {d})
                           \union (IF recovers THEN {r} ELSE {})
    BY DEF ConfirmLate
  <2>2. QED BY <2>1
<1>3. \A z \in Rows \ {d, r} : row'[z] = row[z]
  BY <1>2 DEF RowsInv, RetentionTypeOK
<1>4. row'[r] = "open" => row[r] = "open" \/ r \in secret'
  BY <1>1, <1>2 DEF RowsInv, RetentionTypeOK
<1>5. row'[d] = "sent"
  BY <1>1, <1>2 DEF RowsInv, RetentionTypeOK
<1>6. secret \ secret' \subseteq {d}
  BY <1>2
<1>7. QED BY <1>1, <1>3, <1>4, <1>5, <1>6, SecretsKept

\* A batch redacts what is not exempt, and the DOWN of an open incident is exempt
\* as long as recoveries are wanted; it deletes only what is finished.
LEMMA BatchKeepsSecrets ==
    ASSUME RowsInv, SecretsInv, Batch
    PROVE  SecretsInv'
<1>1. PICK B \in SUBSET Rows :
             /\ \A x \in B : x \in Candidates(run.step, run.cutoff)
             /\ run.step <= 2 => secret' = secret \ B /\ UNCHANGED <<row, old>>
             /\ run.step > 2 => /\ row' = [x \in Rows |-> IF x \in B THEN "gone" ELSE row[x]]
                                /\ old' = old \ B /\ secret' = secret \ B
             /\ UNCHANGED <<wanted, late, toggles>>
  BY BatchChanges
<1>2. Running /\ run.step \in 1..8
  BY DEF Batch, RowsInv, RetentionTypeOK, Running, LastStep
<1>3. CASE run.step <= 2
  <2>1. \A x \in B : row[x] \in Finished /\ ~Exempt(x)
    BY <1>1, <1>2, <1>3, Found
  <2>2. \A x \in secret \ secret' :
           /\ Kind[x] = "recovery" => row'[x] # "open"
           /\ Kind[x] = "down" /\ row'[x] \in {"open", "sent"} /\ Parent[x] # NONE
              /\ toggles = 0 /\ x \notin late' => row'[Parent[x]] # "open"
    BY <1>1, <1>3, <2>1 DEF Exempt, Finished, SecretsInv, WantedUntilToggled
  <2>3. QED BY <1>1, <1>3, <2>2, SecretsKept
<1>4. CASE run.step > 2
  <2>1. \A x \in Rows : row'[x] = IF x \in B THEN "gone" ELSE row[x]
    BY <1>1, <1>4
  <2>2. \A x \in secret \ secret' : x \in Rows /\ row'[x] = "gone"
    BY <1>1, <1>4, <2>1
  <2>3. QED BY <1>1, <2>1, <2>2, SecretsKept
<1>5. QED BY <1>2, <1>3, <1>4

LEMMA RunKeepsSecrets ==
    ASSUME RowsInv, SecretsInv, StartRun \/ Abandon
    PROVE  SecretsInv'
<1>1. UNCHANGED <<row, secret, wanted, late, toggles>>
  BY DEF StartRun, Abandon
<1>2. QED BY <1>1 DEF SecretsInv, WantedUntilToggled, DownKeepsSecret, RecoveryHasSecret, DownOf
-----------------------------------------------------------------------------
LEMMA RetentionStepInv == RetentionInv /\ [RetentionNext]_retentionVars => RetentionInv'
<1> SUFFICES ASSUME RetentionInv, [RetentionNext]_retentionVars PROVE RetentionInv'
  OBVIOUS
<1> USE DEF RetentionInv
<1>1. CASE Writes
  BY <1>1, WritersKeepRows, WritersKeepSecrets
<1>2. ASSUME NEW d \in Rows, NEW r \in Rows, ConfirmLate(d, r) PROVE RetentionInv'
  BY <1>2, LateKeepsRows, LateKeepsSecrets
<1>3. CASE StartRun \/ Abandon
  BY <1>3, RunKeepsRows, RunKeepsSecrets
<1>4. CASE Batch
  BY <1>4, BatchKeepsRows, BatchKeepsSecrets
<1>5. CASE UNCHANGED retentionVars
  BY <1>5 DEF retentionVars, RowsInv, RetentionTypeOK, CutoffStaysOld, HistoryIsWhole, SecretsInv,
       RecoveryWaitsForDown, WantedUntilToggled, DownKeepsSecret, RecoveryHasSecret, Present, DownOf
<1>6. QED BY <1>1, <1>2, <1>3, <1>4, <1>5 DEF RetentionNext, Writes

\* Every reachable state satisfies the inductive invariant.
THEOREM RetentionInvariance == RetentionSpec => []RetentionInv
<1>1. RetentionInit => RetentionInv
  BY RetentionInitInv DEF RetentionInv
<1>2. QED BY <1>1, RetentionStepInv, PTL DEF RetentionSpec

\* The tables, the cutoff and the command only hold values of their types: in
\* particular every secret and every old stamp belongs to a row that is there.
THEOREM RetentionTypeCorrect == RetentionSpec => []RetentionTypeOK
<1>1. RetentionInv => RetentionTypeOK
  BY DEF RetentionInv, RowsInv
<1>2. QED BY <1>1, RetentionInvariance, PTL

\* Whatever batch a run is killed at, whatever is locked and whatever is written
\* meanwhile, no row loses its parent, and a notification that is not finished and
\* old keeps all of its attempts (retention-plan.ts, retention-runner.ts:181-245).
THEOREM HistoryStaysWhole == RetentionSpec => []HistoryIsWhole
<1>1. RetentionInv => HistoryIsWhole
  BY DEF RetentionInv, RowsInv
<1>2. QED BY <1>1, RetentionInvariance, PTL

\* While recoveries stay switched on, the redaction leaves every RECOVERY that is
\* to be sent its secret, unless its DOWN was confirmed late
\* (retention-plan.ts, secret-lifecycle.ts).
THEOREM RecoveryKeepsSecret == RetentionSpec => []RecoveryHasSecret
<1>1. RetentionInv => RecoveryHasSecret
  BY DEF RetentionInv, SecretsInv
<1>2. QED BY <1>1, RetentionInvariance, PTL
=============================================================================
