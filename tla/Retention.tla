------------------------------ MODULE Retention ------------------------------
(***************************************************************************)
(* packages/database/src/retention-*.ts: the command that an external      *)
(* timer calls once a day.  It redacts secrets nobody needs any more and   *)
(* then deletes history older than two cutoffs fixed at its start, each    *)
(* step in bounded batches, each batch a transaction of its own, while the *)
(* API and the workers go on writing.                                      *)
(***************************************************************************)
EXTENDS Integers, FiniteSets, Sequences

CONSTANTS Rows,        \* rows of all tables
          Kind,        \* [Rows -> Kinds]: the table of a row
          Parent,      \* [Rows -> Rows \union {NONE}]: its foreign key
          NONE,
          BatchSize,   \* RETENTION_BATCH_SIZE
          MaxBatches,  \* RETENTION_MAX_BATCHES_PER_STEP
          MaxFaults,   \* crashes, failed batches and rows found locked
          MaxToggles   \* changes of the binding that asks for recoveries

Kinds == {"channel", "result", "check", "delivery", "down", "recovery", "incident", "audit"}

\* The tables of a row and of its parent.  An attempt has a notification and a
\* RECOVERY has an incident; the others may come without a parent.
ForeignKeys == {<<"result", "check">>, <<"delivery", "down">>, <<"delivery", "recovery">>,
                <<"down", "incident">>, <<"recovery", "incident">>}
WithParent  == {"delivery", "recovery"}

\* An incident is one as far as one channel is told of it: a channel gets one DOWN.
OneDown(x, y) == Kind[x] = "down" /\ Kind[y] = "down" /\ Parent[x] = Parent[y] /\ Parent[x] # NONE
                 => x = y

ASSUME RetentionAssumption ==
    /\ IsFiniteSet(Rows) /\ NONE \notin Rows
    /\ Kind \in [Rows -> Kinds] /\ Parent \in [Rows -> Rows \union {NONE}]
    /\ \A x \in Rows : IF Parent[x] = NONE THEN Kind[x] \notin WithParent
                       ELSE <<Kind[x], Kind[Parent[x]]>> \in ForeignKeys
    /\ \A x, y \in Rows : OneDown(x, y)
    /\ {BatchSize, MaxBatches} \subseteq Nat \ {0}
    /\ {MaxFaults, MaxToggles} \subseteq Nat

VARIABLES row,       \* per row: its life
          old,       \* rows whose closing stamp lies before the cutoff of now
          secret,    \* rows that hold an encrypted secret, not the tombstone
          wanted,    \* the channel is enabled and bound for recoveries
          run,       \* the retention command
          late,      \* history: DOWNs confirmed after they had counted as failed
          toggles, faults

retentionVars == <<row, old, secret, wanted, run, late, toggles, faults>>

\* "withheld" is CANCELED because the DOWN was not delivered.
Finished   == {"closed", "sent", "failed", "canceled", "withheld"}
Present(x) == row[x] \notin {"absent", "gone"}
Children(x) == {y \in Rows : Parent[y] = x}
Idle == [step |-> 0, batches |-> 0, cutoff |-> {}]
Running == run.step > 0
-----------------------------------------------------------------------------
RetentionInit ==
    /\ row = [x \in Rows |-> "absent"]
    /\ old = {} /\ secret = {} /\ wanted = TRUE
    /\ run = Idle /\ late = {}
    /\ toggles = 0 /\ faults = 0

(* What the API and the workers write meanwhile.                            *)

\* A record that is final once written; a result completes its check.
WriteRecord(x) ==
    /\ row[x] = "absent" /\ Kind[x] \in {"result", "audit"}
    /\ Parent[x] # NONE => row[Parent[x]] = "open"
    /\ row' = [y \in Rows |-> IF y = x \/ y = Parent[x] THEN "closed" ELSE row[y]]
    /\ UNCHANGED <<old, secret, wanted, run, late, toggles, faults>>

\* The DOWN that goes before a RECOVERY.
DownOf(x) == {y \in Rows : Kind[y] = "down" /\ Parent[y] = Parent[x]}

\* An attempt belongs to a notification that is being sent, which a RECOVERY is
\* only after its DOWN; a DOWN belongs to an incident.
OpenRow(x) ==
    /\ row[x] = "absent" /\ Kind[x] \in {"channel", "check", "delivery", "down", "incident"}
    /\ Parent[x] # NONE =>
         /\ row[Parent[x]] = "open"
         /\ Kind[Parent[x]] = "recovery" => \E y \in DownOf(Parent[x]) : row[y] = "sent"
    /\ row' = [row EXCEPT ![x] = "open"]
    /\ secret' = IF Kind[x] \in {"channel", "down"} THEN secret \union {x} ELSE secret
    /\ UNCHANGED <<old, wanted, run, late, toggles, faults>>

\* The end of a check, of an attempt or of a channel.  A release that did not
\* write tombstones yet left the secret of a channel where it was.
Close(x) ==
    /\ row[x] = "open" /\ Kind[x] \in {"channel", "check", "delivery"}
    /\ row' = [row EXCEPT ![x] = "closed"]
    /\ secret' \in {secret, secret \ {x}}
    /\ UNCHANGED <<old, wanted, run, late, toggles, faults>>

\* shouldRetainNotificationSecret, for a notification that ends as "to".
Retained(x, to) ==
    \/ Kind[x] = "recovery" /\ to = "withheld"
    \/ Kind[x] = "down" /\ to = "sent" /\ Parent[x] # NONE /\ row[Parent[x]] = "open"

\* The end of a notification, by this release or by one without tombstones.
SettleNotification(x, to) ==
    /\ row[x] = "open" /\ Kind[x] \in {"down", "recovery"}
    /\ to = "withheld" => /\ Kind[x] = "recovery"
                          /\ \E y \in DownOf(x) : row[y] = "failed"
    /\ row' = [row EXCEPT ![x] = to]
    /\ secret' \in (IF Retained(x, to) THEN {secret} ELSE {secret, secret \ {x}})
    /\ UNCHANGED <<old, wanted, run, late, toggles, faults>>

\* The incident of a DOWN ends; a DOWN that was not skipped hands its secret
\* over to the RECOVERY, and loses it once it is settled.
Resolve(i, d, r) ==
    LET recovers == row[d] \in {"open", "sent"} /\ wanted
    IN  /\ row[i] = "open" /\ Kind[i] = "incident"
        /\ Kind[d] = "down" /\ Parent[d] = i
        /\ Kind[r] = "recovery" /\ Parent[r] = i /\ row[r] = "absent"
        /\ row' = [row EXCEPT ![i] = "closed", ![r] = IF recovers THEN "open" ELSE @]
        /\ secret' = (IF row[d] = "sent" THEN secret \ {d} ELSE secret)
                     \union (IF recovers /\ d \in secret THEN {r} ELSE {})
        /\ UNCHANGED <<old, wanted, run, late, toggles, faults>>

\* An attempt the provider confirms late: the DOWN counts as sent after all, and
\* a RECOVERY that was withheld, or left out when the incident was resolved, is
\* sent with the secret the attempt still has.  Its old stamp goes.
ConfirmLate(d, r) ==
    /\ Kind[d] = "down" /\ row[d] = "failed" /\ d \notin old
    /\ Kind[r] = "recovery" /\ Parent[r] = Parent[d]
    /\ \E why \in {{"withheld"}, {"withheld", "absent"}} :  \* resolved, or canceled
         LET recovers == wanted /\ row[r] \in why /\ row[Parent[d]] = "closed"
         IN  /\ row' = [row EXCEPT ![d] = "sent", ![r] = IF recovers THEN "open" ELSE @]
             /\ secret' = (IF Retained(d, "sent") THEN secret ELSE secret \ {d})
                          \union (IF recovers THEN {r} ELSE {})
             /\ old' = IF recovers THEN old \ {r} ELSE old
             /\ run' = IF recovers THEN [run EXCEPT !.cutoff = @ \ {r}] ELSE run
    /\ late' = late \union {d}
    /\ UNCHANGED <<wanted, toggles, faults>>

\* The operator switches recoveries off or on for the binding or the channel.
Toggle ==
    /\ toggles < MaxToggles
    /\ toggles' = toggles + 1
    /\ wanted' = ~wanted
    /\ UNCHANGED <<row, old, secret, run, late, faults>>

\* The stamp of a row falls behind the cutoff of now.  Channels are kept.
GrowOld(x) ==
    /\ Present(x) /\ x \notin old /\ Kind[x] # "channel"
    /\ row[x] \in Finished \/ Kind[x] = "delivery"
    /\ old' = old \union {x}
    /\ UNCHANGED <<row, secret, wanted, run, late, toggles, faults>>
-----------------------------------------------------------------------------
(* The command.                                                             *)

ExemptInOpenIncident(x) == FALSE

\* A secret the DOWN of an open incident, or a withheld RECOVERY, may still need.
Exempt(x) ==
    /\ wanted
    /\ \/ Kind[x] = "down" /\ row[x] = "sent" /\ Parent[x] # NONE /\ row[Parent[x]] = "open"
       \/ /\ Kind[x] = "recovery" /\ row[x] = "withheld"
          /\ \E y \in DownOf(x) : Present(y) /\ row[y] # "canceled"

Redactable(K) == {x \in secret : Kind[x] \in K /\ row[x] \in Finished /\ ~Exempt(x)}

RemovableUncanceled(K, cutoff) ==
    {x \in cutoff : /\ Kind[x] \in K /\ row[x] \in Finished \ {"canceled"}
                    /\ \A y \in Children(x) : ~Present(y)}

\* Rows of a table without children left, finished before the cutoff.
Removable(K, cutoff) ==
    {x \in cutoff : Kind[x] \in K /\ row[x] \in Finished /\ \A y \in Children(x) : ~Present(y)}

AttemptsByOwnAge(cutoff) == {x \in cutoff : Kind[x] = "delivery" /\ Present(x)}

\* An attempt goes only with its notification, whose stamp has to be old as well.
RemovableAttempts(cutoff) ==
    {x \in cutoff : /\ Kind[x] = "delivery" /\ Present(x)
                    /\ row[Parent[x]] \in Finished /\ Parent[x] \in cutoff}

LastStep == 8

\* The rows that the SELECT of a step finds.  A "channel" stands for a deleted
\* channel or monitor, whose URL is as secret; both are redacted alike.
Candidates(step, cutoff) ==
    CASE step = 1 -> Redactable({"channel"})
      [] step = 2 -> Redactable({"down", "recovery"})
      [] step = 3 -> Removable({"result"}, cutoff)
      [] step = 4 -> Removable({"check"}, cutoff)
      [] step = 5 -> RemovableAttempts(cutoff)
      [] step = 6 -> Removable({"down", "recovery"}, cutoff)
      [] step = 7 -> Removable({"incident"}, cutoff)
      [] step = 8 -> Removable({"audit"}, cutoff)

\* The advisory lock is free and the cutoffs are taken.  (A second command skips;
\* a run that finds nothing to do changes nothing.)
StartRun ==
    /\ ~Running
    /\ \E step \in 1..LastStep : Candidates(step, old) # {}
    /\ run' = [step |-> 1, batches |-> 0, cutoff |-> old]
    /\ UNCHANGED <<row, old, secret, wanted, late, toggles, faults>>

\* The next batch of the step, the next step, or the end and RELEASE_LOCK.
AfterBatch(n) ==
    run' = IF n = BatchSize /\ run.batches + 1 < MaxBatches THEN [run EXCEPT !.batches = @ + 1]
           ELSE IF run.step = LastStep THEN Idle
           ELSE [run EXCEPT !.step = @ + 1, !.batches = 0]

Mutate(B) ==
    IF run.step <= 2 THEN secret' = secret \ B /\ UNCHANGED <<row, old>>
    ELSE /\ row' = [x \in Rows |-> IF x \in B THEN "gone" ELSE row[x]]
         /\ old' = old \ B /\ secret' = secret \ B

\* One transaction: at most BatchSize of the rows found, the locked ones skipped.
Batch ==
    /\ Running
    /\ \E locked \in SUBSET Candidates(run.step, run.cutoff) :
         LET found == Candidates(run.step, run.cutoff) \ locked
             size  == IF Cardinality(found) < BatchSize THEN Cardinality(found) ELSE BatchSize
         IN  /\ locked # {} => faults < MaxFaults
             /\ faults' = IF locked = {} THEN faults ELSE faults + 1
             /\ \E B \in SUBSET found : Cardinality(B) = size /\ Mutate(B) /\ AfterBatch(size)
    /\ UNCHANGED <<wanted, late, toggles>>

\* A batch fails and is rolled back, or the process dies: the lock is released.
Abandon ==
    /\ Running /\ faults < MaxFaults
    /\ run' = Idle
    /\ faults' = faults + 1
    /\ UNCHANGED <<row, old, secret, wanted, late, toggles>>

RetentionNext ==
    \/ \E x \in Rows : \/ WriteRecord(x) \/ OpenRow(x) \/ Close(x) \/ GrowOld(x)
                       \/ \E to \in {"sent", "failed", "canceled", "withheld"} : SettleNotification(x, to)
    \/ \E i, d, r \in Rows : Resolve(i, d, r)
    \/ \E d, r \in Rows : ConfirmLate(d, r)
    \/ Toggle \/ StartRun \/ Batch \/ Abandon

\* The timer calls the command again and again, and a command that is not
\* killed goes on.
RetentionFairness == WF_retentionVars(StartRun) /\ WF_retentionVars(Batch)

RetentionSpec == RetentionInit /\ [][RetentionNext]_retentionVars /\ RetentionFairness
-----------------------------------------------------------------------------
RetentionTypeOK ==
    /\ row \in [Rows -> {"absent", "open", "gone"} \union Finished]
    /\ old \subseteq {x \in Rows : Present(x)}
    /\ secret \subseteq {x \in Rows : Present(x)}
    /\ wanted \in BOOLEAN
    /\ run \in [step : 0..LastStep, batches : 0..(MaxBatches - 1), cutoff : SUBSET Rows]
    /\ late \subseteq Rows
    /\ toggles \in 0..MaxToggles /\ faults \in 0..MaxFaults

\* Whatever a run was killed at, no row has lost its parent (a RESTRICT foreign
\* key never aborts a batch), and a notification that is not old, or not
\* finished, still has all of its attempts.
HistoryIsWhole ==
    \A x \in Rows : Parent[x] # NONE =>
        /\ Present(x) => Present(Parent[x])
        /\ Kind[x] = "delivery" /\ row[x] = "gone" =>
             \/ row[Parent[x]] = "gone"
             \/ row[Parent[x]] \in Finished /\ Parent[x] \in old

\* A RECOVERY that is to be sent has its secret: the redaction leaves alone what
\* an incident that is still open needs.  Two exceptions: recoveries were switched
\* off for a while, or the DOWN was confirmed after it had lost its secret as a
\* failed one.
RecoveryHasSecret ==
    \A x \in Rows : \A y \in DownOf(x) :
        Kind[x] = "recovery" /\ row[x] = "open" /\ toggles = 0 /\ y \notin late => x \in secret

\* Descendants that have to go before a row can.
Below(x) == Children(x) \union UNION {Children(y) : y \in Children(x)}

\* A row that the documented policy says is to go: it and all below it are over
\* and old; an attempt waits for its notification.
Outlived(x) ==
    LET Over(y) == Present(y) => y \in old /\ (row[y] \in Finished \/ Kind[y] = "delivery")
    IN  /\ Present(x) /\ Over(x) /\ \A y \in Below(x) : Over(y)
        /\ Kind[x] = "delivery" => Over(Parent[x])

\* A secret for which there is no use left: the channel is deleted, or the
\* notification is over and no RECOVERY can come of it.
Useless(x) ==
    /\ x \in secret /\ row[x] \in Finished \ {"withheld"}
    /\ row[x] = "sent" /\ Kind[x] = "down" => row[Parent[x]] = "closed"

\* Redaction and deletion keep up with what becomes due, however small the
\* batches are and wherever a run is killed.
BacklogIsCleared == []<>(\A x \in Rows : ~Outlived(x) /\ ~Useless(x))
=============================================================================
