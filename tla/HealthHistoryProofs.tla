-------------------------- MODULE HealthHistoryProofs --------------------------
(***************************************************************************)
(* Proofs about HealthHistory for every pair of thresholds and histories   *)
(* of any length.                                                          *)
(***************************************************************************)
EXTENDS HealthHistory, SequenceTheorems, TLAPS

Results == {"SUCCESS", "TARGET_FAILURE"}

\* The last k results all equal o, and the one before them, if any, does not.
Streak(o, k) ==
    /\ k <= Len(history)
    /\ \A i \in 1..Len(history) : i > Len(history) - k => history[i] = o
    /\ k < Len(history) => history[Len(history) - k] # o

\* x is the end of the last run of n results o, 0 when there is none.
IsLastRun(n, o, x) ==
    /\ x \in 0..Len(history)
    /\ x # 0 => RunEndsAt(n, o, x)
    /\ \A i \in 1..Len(history) : RunEndsAt(n, o, i) => i <= x

\* The two counters are the lengths of the streaks the history ends in, and the
\* incident is the one the last full runs call for.
IInv ==
    /\ health \in HealthRecords
    /\ history \in Seq(Results)
    /\ incident \in BOOLEAN
    /\ Streak("TARGET_FAILURE", health.failures)
    /\ Streak("SUCCESS", health.successes)
    /\ IsLastRun(FailureThreshold, "TARGET_FAILURE", LastFailureRun)
    /\ IsLastRun(RecoveryThreshold, "SUCCESS", LastRecoveryRun)
    /\ incident = IncidentByHistory
    /\ health.state = HealthByHistory

\* What LastRun chooses from a set with a greatest element.
LEMMA Greatest ==
    ASSUME NEW ends \in SUBSET (Nat \ {0}), NEW x \in Nat, x # 0 => x \in ends,
           \A i \in ends : i <= x
    PROVE  (IF ends = {} THEN 0 ELSE CHOOSE i \in ends : \A j \in ends : i >= j) = x
<1>1. CASE x = 0
  <2>1. ends = {}
    BY <1>1
  <2>2. QED BY <1>1, <2>1
<1>2. CASE x # 0
  <2>1. x \in ends /\ \A j \in ends : x >= j
    BY <1>2
  <2> DEFINE y == CHOOSE i \in ends : \A j \in ends : i >= j
  <2>2. y \in ends /\ \A j \in ends : y >= j
    BY <2>1
  <2> HIDE DEF y
  <2>3. y = x
    BY <2>1, <2>2
  <2>4. QED BY <2>1, <2>3 DEF y
<1>3. QED BY <1>1, <1>2

\* One more result.
LEMMA Appended ==
    ASSUME history \in Seq(Results), NEW o \in Results, history' = Append(history, o)
    PROVE  /\ history' \in Seq(Results) /\ Len(history) \in Nat /\ Len(history') = Len(history) + 1
           /\ \A i \in 1..Len(history) : history'[i] = history[i]
           /\ history'[Len(history')] = o
BY AppendProperties, LenProperties

LEMMA StreakGoesOn ==
    ASSUME history \in Seq(Results), NEW o \in Results, history' = Append(history, o),
           NEW k \in Nat, Streak(o, k)
    PROVE  Streak(o, k + 1)'
<1>1. /\ Len(history) \in Nat /\ Len(history') = Len(history) + 1
      /\ \A i \in 1..Len(history) : history'[i] = history[i]
      /\ history'[Len(history) + 1] = o
  BY Appended
<1>2. /\ k <= Len(history)
      /\ \A i \in 1..Len(history) : i > Len(history) - k => history[i] = o
      /\ k < Len(history) => history[Len(history) - k] # o
  BY DEF Streak
<1>3. k + 1 <= Len(history')
  BY <1>1, <1>2
<1>4. ASSUME NEW i \in 1..Len(history'), i > Len(history') - (k + 1)
      PROVE  history'[i] = o
  <2>1. CASE i = Len(history) + 1
    BY <1>1, <2>1
  <2>2. CASE i # Len(history) + 1
    <3>1. i \in 1..Len(history) /\ i > Len(history) - k
      BY <1>1, <1>4, <2>2
    <3>2. QED BY <1>1, <1>2, <3>1
  <2>3. QED BY <2>1, <2>2
<1>5. k + 1 < Len(history') => history'[Len(history') - (k + 1)] # o
  <2>1. Len(history') - (k + 1) = Len(history) - k
    BY <1>1
  <2>2. k < Len(history) => Len(history) - k \in 1..Len(history)
    BY <1>1
  <2>3. k + 1 < Len(history') => k < Len(history)
    BY <1>1
  <2>4. QED BY <1>1, <1>2, <2>1, <2>2, <2>3
<1>6. QED BY <1>3, <1>4, <1>5 DEF Streak

LEMMA StreakEnds ==
    ASSUME history \in Seq(Results), NEW o \in Results, NEW q \in Results, o # q,
           history' = Append(history, q)
    PROVE  Streak(o, 0)'
<1>1. Len(history') \in Nat /\ history'[Len(history')] = q
  BY Appended
<1>2. QED BY <1>1 DEF Streak

\* One more result changes nothing of the runs that end before it.
LEMMA RunEndsBefore ==
    ASSUME history \in Seq(Results), NEW q \in Results, history' = Append(history, q),
           NEW n \in Nat \ {0}, NEW o
    PROVE  \A i \in 1..Len(history) :
             i >= n /\ (\A k \in (i - n + 1)..i : history'[k] = o) <=> RunEndsAt(n, o, i)
<1>1. Len(history) \in Nat /\ \A j \in 1..Len(history) : history'[j] = history[j]
  BY Appended
<1>2. SUFFICES ASSUME NEW i \in 1..Len(history)
               PROVE  i >= n /\ (\A k \in (i - n + 1)..i : history'[k] = o) <=> RunEndsAt(n, o, i)
  OBVIOUS
<1>3. i >= n => \A j \in (i - n + 1)..i : j \in 1..Len(history)
  BY <1>1
<1>4. QED BY <1>1, <1>3 DEF RunEndsAt

\* The last run stays the last unless one ends at the new result.
LEMMA RunStays ==
    ASSUME history \in Seq(Results), NEW q \in Results, history' = Append(history, q),
           NEW n \in Nat \ {0}, NEW o \in Results, NEW x, IsLastRun(n, o, x),
           NEW e, e = Len(history) + 1, ~RunEndsAt(n, o, e)'
    PROVE  IsLastRun(n, o, x)'
<1>1. Len(history) \in Nat /\ Len(history') = Len(history) + 1
  BY Appended
<1>2. /\ x \in 0..Len(history)
      /\ x # 0 => RunEndsAt(n, o, x)
      /\ \A i \in 1..Len(history) : RunEndsAt(n, o, i) => i <= x
  BY DEF IsLastRun
<1>3. \A i \in 1..Len(history) :
         i >= n /\ (\A k \in (i - n + 1)..i : history'[k] = o) <=> RunEndsAt(n, o, i)
  BY RunEndsBefore
<1>4. x # 0 => x >= n /\ \A k \in (x - n + 1)..x : history'[k] = o
  BY <1>1, <1>2, <1>3
<1>5. ASSUME NEW i \in 1..Len(history'), i >= n, \A k \in (i - n + 1)..i : history'[k] = o
      PROVE  i <= x
  <2>1. i # e
    BY <1>5 DEF RunEndsAt
  <2>2. i \in 1..Len(history)
    BY <1>1, <2>1
  <2>3. QED BY <1>2, <1>3, <1>5, <2>2
<1>6. x \in 0..Len(history')
  BY <1>1, <1>2
<1>7. QED BY <1>4, <1>5, <1>6 DEF IsLastRun, RunEndsAt

\* A run of o ends at the new result exactly when the streak of o has grown to n.
LEMMA RunGoesOn ==
    ASSUME history \in Seq(Results), NEW o \in Results, history' = Append(history, o),
           NEW n \in Nat \ {0}, NEW k \in Nat, Streak(o, k), NEW e, e = Len(history) + 1
    PROVE  /\ k + 1 >= n => IsLastRun(n, o, e)'
           /\ ~(k + 1 >= n) => ~RunEndsAt(n, o, e)'
<1>1. /\ Len(history) \in Nat /\ Len(history') = e /\ e \in Nat
      /\ \A i \in 1..Len(history) : history'[i] = history[i]
      /\ history'[e] = o
  BY Appended
<1>2. /\ k <= Len(history)
      /\ \A i \in 1..Len(history) : i > Len(history) - k => history[i] = o
      /\ k < Len(history) => history[Len(history) - k] # o
  BY DEF Streak
<1>3. ASSUME k + 1 >= n PROVE IsLastRun(n, o, e)'
  <2>1. e >= n /\ e \in 0..Len(history')
    BY <1>1, <1>2, <1>3
  <2>2. ASSUME NEW i \in (e - n + 1)..e PROVE history'[i] = o
    <3>1. CASE i = e
      BY <1>1, <3>1
    <3>2. CASE i # e
      <4>1. i \in 1..Len(history) /\ i > Len(history) - k
        BY <1>1, <1>2, <1>3, <2>1, <3>2
      <4>2. QED BY <1>1, <1>2, <4>1
    <3>3. QED BY <3>1, <3>2
  <2>3. \A i \in 1..Len(history') : i <= e
    BY <1>1
  <2>4. QED BY <2>1, <2>2, <2>3 DEF IsLastRun, RunEndsAt
<1>4. ASSUME ~(k + 1 >= n), e >= n, \A i \in (e - n + 1)..e : history'[i] = o
      PROVE  FALSE
  <2>1. k < Len(history) /\ Len(history) - k \in 1..Len(history)
        /\ Len(history) - k \in (e - n + 1)..e
    BY <1>1, <1>4
  <2>2. QED BY <1>1, <1>2, <1>4, <2>1
<1>5. QED BY <1>3, <1>4 DEF RunEndsAt

\* So the last run of the state that follows is known.
LEMMA NextLastRun ==
    ASSUME history' \in Seq(Results), NEW n, NEW o, NEW x, IsLastRun(n, o, x)'
    PROVE  LastRun(n, o)' = x
<1> DEFINE ends == {i \in 1..Len(history') : RunEndsAt(n, o, i)'}
<1>1. Len(history') \in Nat
  BY LenProperties
<1>2. /\ x \in Nat /\ ends \in SUBSET (Nat \ {0})
      /\ x # 0 => x \in ends
      /\ \A i \in ends : i <= x
  BY <1>1 DEF IsLastRun
<1>3. LastRun(n, o)' = IF ends = {} THEN 0 ELSE CHOOSE i \in ends : \A j \in ends : i >= j
  BY DEF LastRun
<1> HIDE DEF ends
<1>4. QED BY <1>2, <1>3, Greatest
-----------------------------------------------------------------------------
LEMMA Thresholds == FailureThreshold \in Nat \ {0} /\ RecoveryThreshold \in Nat \ {0}
BY ThresholdAssumption

\* The invariant with a name for every part of the state.
LEMMA Parts ==
    ASSUME IInv
    PROVE  \E f, s, lf, lr \in Nat :
             /\ health = [state |-> health.state, failures |-> f, successes |-> s]
             /\ Streak("TARGET_FAILURE", f) /\ Streak("SUCCESS", s)
             /\ IsLastRun(FailureThreshold, "TARGET_FAILURE", lf)
             /\ IsLastRun(RecoveryThreshold, "SUCCESS", lr)
             /\ lf <= Len(history) /\ lr <= Len(history)
             /\ (incident <=> lf > lr) /\ (InIncident(health) <=> lf > lr)
<1>0. /\ health \in HealthRecords /\ history \in Seq(Results) /\ Len(history) \in Nat
      /\ Streak("TARGET_FAILURE", health.failures) /\ Streak("SUCCESS", health.successes)
      /\ IsLastRun(FailureThreshold, "TARGET_FAILURE", LastFailureRun)
      /\ IsLastRun(RecoveryThreshold, "SUCCESS", LastRecoveryRun)
      /\ incident = IncidentByHistory /\ health.state = HealthByHistory
  BY LenProperties DEF IInv
<1>1. /\ LastFailureRun \in 0..Len(history) /\ LastRecoveryRun \in 0..Len(history)
  BY <1>0 DEF IsLastRun
<1>2. /\ health.failures \in Nat /\ health.successes \in Nat
      /\ health = [state |-> health.state, failures |-> health.failures, successes |-> health.successes]
  BY <1>0 DEF HealthRecords
<1>3. incident <=> LastFailureRun > LastRecoveryRun
  BY <1>0 DEF IncidentByHistory
<1>4. InIncident(health) <=> LastFailureRun > LastRecoveryRun
  <2>1. CASE history = <<>>
    <3>1. Len(history) = 0
      BY <2>1, EmptySeq
    <3>2. ~(LastFailureRun > LastRecoveryRun)
      BY <1>1, <3>1
    <3>3. health.state = "PENDING"
      BY <1>0, <2>1, <3>2 DEF HealthByHistory, IncidentByHistory
    <3>4. QED BY <3>2, <3>3 DEF InIncident
  <2>2. CASE history # <<>>
    <3>1. CASE IncidentByHistory
      <4>1. health.state = IF history[Len(history)] = "SUCCESS" THEN "RECOVERING" ELSE "DOWN"
        BY <1>0, <2>2, <3>1 DEF HealthByHistory
      <4>2. QED BY <3>1, <4>1 DEF InIncident, IncidentByHistory
    <3>2. CASE ~IncidentByHistory
      <4>1. health.state = IF history[Len(history)] = "SUCCESS" THEN "UP" ELSE "SUSPECT"
        BY <1>0, <2>2, <3>2 DEF HealthByHistory
      <4>2. QED BY <3>2, <4>1 DEF InIncident, IncidentByHistory
    <3>3. QED BY <3>1, <3>2
  <2>3. QED BY <2>1, <2>2
<1>5. /\ LastFailureRun \in Nat /\ LastRecoveryRun \in Nat
      /\ LastFailureRun <= Len(history) /\ LastRecoveryRun <= Len(history)
  BY <1>0, <1>1
<1>6. QED BY <1>0, <1>2, <1>3, <1>4, <1>5

\* The invariant of the next state from its parts.
LEMMA NextParts ==
    ASSUME history' \in Seq(Results), NEW o \in Results, Len(history') # 0,
           history'[Len(history')] = o,
           NEW f \in Nat, NEW s \in Nat, NEW lf \in Nat, NEW lr \in Nat,
           Streak("TARGET_FAILURE", f)', Streak("SUCCESS", s)',
           IsLastRun(FailureThreshold, "TARGET_FAILURE", lf)',
           IsLastRun(RecoveryThreshold, "SUCCESS", lr)',
           incident' \in BOOLEAN, incident' <=> lf > lr,
           health' = [state     |-> IF lf > lr THEN IF o = "SUCCESS" THEN "RECOVERING" ELSE "DOWN"
                                    ELSE IF o = "SUCCESS" THEN "UP" ELSE "SUSPECT",
                      failures  |-> f,
                      successes |-> s]
    PROVE  IInv'
<1>1. LastFailureRun' = lf /\ LastRecoveryRun' = lr
  BY NextLastRun DEF LastFailureRun, LastRecoveryRun
<1>2. IncidentByHistory' <=> lf > lr
  BY <1>1 DEF IncidentByHistory
<1>3. incident' = IncidentByHistory'
  BY <1>1 DEF IncidentByHistory
<1>4. history' # <<>>
  BY EmptySeq
<1>5. health'.state = HealthByHistory'
  BY <1>2, <1>4 DEF HealthByHistory
<1>6. health' \in HealthRecords
  BY DEF HealthRecords, HealthStates
<1>7. Streak("TARGET_FAILURE", health.failures)' /\ Streak("SUCCESS", health.successes)'
  BY DEF Streak
<1>8. /\ IsLastRun(FailureThreshold, "TARGET_FAILURE", LastFailureRun)'
      /\ IsLastRun(RecoveryThreshold, "SUCCESS", LastRecoveryRun)'
  BY <1>1 DEF IsLastRun, RunEndsAt
<1>9. QED BY <1>3, <1>5, <1>6, <1>7, <1>8 DEF IInv

\* applyCheckResult for a success: the failure streak ends, and the incident with
\* it when the recovery streak is long enough.
LEMMA SuccessStep ==
    ASSUME IInv, Apply("SUCCESS")
    PROVE  IInv'
<1>1. PICK f, s, lf, lr \in Nat :
         /\ health = [state |-> health.state, failures |-> f, successes |-> s]
         /\ Streak("TARGET_FAILURE", f) /\ Streak("SUCCESS", s)
         /\ IsLastRun(FailureThreshold, "TARGET_FAILURE", lf)
         /\ IsLastRun(RecoveryThreshold, "SUCCESS", lr)
         /\ lf <= Len(history) /\ lr <= Len(history)
         /\ (incident <=> lf > lr) /\ (InIncident(health) <=> lf > lr)
  BY Parts
<1>2. /\ history \in Seq(Results) /\ incident \in BOOLEAN
      /\ "SUCCESS" \in Results /\ "TARGET_FAILURE" \in Results
      /\ history' = Append(history, "SUCCESS")
      /\ health' = AfterSuccess(health)
  BY DEF IInv, Results, Apply, IsTargetOutcome, ApplyOutcome
<1>3. /\ history' \in Seq(Results) /\ Len(history) \in Nat /\ Len(history') = Len(history) + 1
      /\ history'[Len(history')] = "SUCCESS"
  BY <1>2, Appended
<1>4. PICK e \in Nat : e = Len(history) + 1
  BY <1>3
<1>5. IsLastRun(FailureThreshold, "TARGET_FAILURE", lf)'
  <2>1. ~RunEndsAt(FailureThreshold, "TARGET_FAILURE", e)'
    BY <1>3, <1>4, Thresholds DEF RunEndsAt
  <2>2. QED BY <1>1, <1>2, <1>4, <2>1, RunStays, Thresholds
<1>6. /\ s + 1 >= RecoveryThreshold => IsLastRun(RecoveryThreshold, "SUCCESS", e)'
      /\ ~(s + 1 >= RecoveryThreshold) => IsLastRun(RecoveryThreshold, "SUCCESS", lr)'
  <2>1. /\ s + 1 >= RecoveryThreshold => IsLastRun(RecoveryThreshold, "SUCCESS", e)'
        /\ ~(s + 1 >= RecoveryThreshold) => ~RunEndsAt(RecoveryThreshold, "SUCCESS", e)'
    BY <1>1, <1>2, <1>4, RunGoesOn, Thresholds
  <2>2. ~(s + 1 >= RecoveryThreshold) => IsLastRun(RecoveryThreshold, "SUCCESS", lr)'
    BY <1>1, <1>2, <1>4, <2>1, RunStays, Thresholds
  <2>3. QED BY <2>1, <2>2
<1>7. Streak("TARGET_FAILURE", 0)'
  BY <1>2, StreakEnds
<1>8. Streak("SUCCESS", s + 1)'
  BY <1>1, <1>2, StreakGoesOn
<1>9. Recovers(health) <=> lf > lr /\ s + 1 >= RecoveryThreshold
  BY <1>1 DEF Recovers
<1>10. health' = [state     |-> IF lf > lr /\ ~Recovers(health) THEN "RECOVERING" ELSE "UP",
                  failures  |-> 0, successes |-> s + 1]
  BY <1>1, <1>2 DEF AfterSuccess
<1>11. incident' = IF Recovers(health) THEN FALSE ELSE incident
  BY DEF Apply, EffectOf
<1>12. Len(history') # 0
  BY <1>3
<1>13. CASE s + 1 >= RecoveryThreshold
  <2>1. ~(lf > e)
    BY <1>1, <1>3, <1>4
  <2>2. incident' \in BOOLEAN /\ (incident' <=> lf > e)
    BY <1>1, <1>2, <1>9, <1>11, <1>13, <2>1
  <2>3. health' = [state     |-> IF lf > e THEN "RECOVERING" ELSE "UP",
                   failures  |-> 0, successes |-> s + 1]
    BY <1>9, <1>10, <1>13, <2>1
  <2>4. QED BY <1>2, <1>3, <1>5, <1>6, <1>7, <1>8, <1>12, <1>13, <2>2, <2>3, NextParts
<1>14. CASE ~(s + 1 >= RecoveryThreshold)
  <2>1. incident' \in BOOLEAN /\ (incident' <=> lf > lr)
    BY <1>1, <1>2, <1>9, <1>11, <1>14
  <2>2. health' = [state     |-> IF lf > lr THEN "RECOVERING" ELSE "UP",
                   failures  |-> 0, successes |-> s + 1]
    BY <1>9, <1>10, <1>14
  <2>3. QED BY <1>2, <1>3, <1>5, <1>6, <1>7, <1>8, <1>12, <1>14, <2>1, <2>2, NextParts
<1>15. QED BY <1>13, <1>14

\* applyCheckResult for a failure of the target: the recovery streak ends, and an
\* incident opens when the failure streak is long enough.
LEMMA FailureStep ==
    ASSUME IInv, Apply("TARGET_FAILURE")
    PROVE  IInv'
<1>1. PICK f, s, lf, lr \in Nat :
         /\ health = [state |-> health.state, failures |-> f, successes |-> s]
         /\ Streak("TARGET_FAILURE", f) /\ Streak("SUCCESS", s)
         /\ IsLastRun(FailureThreshold, "TARGET_FAILURE", lf)
         /\ IsLastRun(RecoveryThreshold, "SUCCESS", lr)
         /\ lf <= Len(history) /\ lr <= Len(history)
         /\ (incident <=> lf > lr) /\ (InIncident(health) <=> lf > lr)
  BY Parts
<1>2. /\ history \in Seq(Results) /\ incident \in BOOLEAN
      /\ "SUCCESS" \in Results /\ "TARGET_FAILURE" \in Results
      /\ history' = Append(history, "TARGET_FAILURE")
      /\ health' = AfterFailure(health)
  BY DEF IInv, Results, Apply, IsTargetOutcome, ApplyOutcome
<1>3. /\ history' \in Seq(Results) /\ Len(history) \in Nat /\ Len(history') = Len(history) + 1
      /\ history'[Len(history')] = "TARGET_FAILURE"
  BY <1>2, Appended
<1>4. PICK e \in Nat : e = Len(history) + 1
  BY <1>3
<1>5. IsLastRun(RecoveryThreshold, "SUCCESS", lr)'
  <2>1. ~RunEndsAt(RecoveryThreshold, "SUCCESS", e)'
    BY <1>3, <1>4, Thresholds DEF RunEndsAt
  <2>2. QED BY <1>1, <1>2, <1>4, <2>1, RunStays, Thresholds
<1>6. /\ f + 1 >= FailureThreshold => IsLastRun(FailureThreshold, "TARGET_FAILURE", e)'
      /\ ~(f + 1 >= FailureThreshold) => IsLastRun(FailureThreshold, "TARGET_FAILURE", lf)'
  <2>1. /\ f + 1 >= FailureThreshold => IsLastRun(FailureThreshold, "TARGET_FAILURE", e)'
        /\ ~(f + 1 >= FailureThreshold) => ~RunEndsAt(FailureThreshold, "TARGET_FAILURE", e)'
    BY <1>1, <1>2, <1>4, RunGoesOn, Thresholds
  <2>2. ~(f + 1 >= FailureThreshold) => IsLastRun(FailureThreshold, "TARGET_FAILURE", lf)'
    BY <1>1, <1>2, <1>4, <2>1, RunStays, Thresholds
  <2>3. QED BY <2>1, <2>2
<1>7. Streak("SUCCESS", 0)'
  BY <1>2, StreakEnds
<1>8. Streak("TARGET_FAILURE", f + 1)'
  BY <1>1, <1>2, StreakGoesOn
<1>9. EntersDown(health) <=> lf > lr \/ f + 1 >= FailureThreshold
  BY <1>1 DEF EntersDown
<1>10. health' = [state     |-> IF EntersDown(health) THEN "DOWN" ELSE "SUSPECT",
                  failures  |-> f + 1, successes |-> 0]
  BY <1>1, <1>2 DEF AfterFailure
<1>11. incident' = IF ~InIncident(health) /\ EntersDown(health) THEN TRUE ELSE incident
  <2>1. CASE InIncident(health)
    BY <2>1 DEF Apply, EffectOf
  <2>2. CASE ~InIncident(health)
    BY <2>2 DEF Apply, EffectOf
  <2>3. QED BY <2>1, <2>2
<1>12. Len(history') # 0
  BY <1>3
<1>13. CASE f + 1 >= FailureThreshold
  <2>1. e > lr
    BY <1>1, <1>3, <1>4
  <2>2. incident' \in BOOLEAN /\ (incident' <=> e > lr)
    BY <1>1, <1>2, <1>9, <1>11, <1>13, <2>1
  <2>3. health' = [state     |-> IF e > lr THEN "DOWN" ELSE "SUSPECT",
                   failures  |-> f + 1, successes |-> 0]
    BY <1>9, <1>10, <1>13, <2>1
  <2>4. QED BY <1>2, <1>3, <1>5, <1>6, <1>7, <1>8, <1>12, <1>13, <2>2, <2>3, NextParts
<1>14. CASE ~(f + 1 >= FailureThreshold)
  <2>1. incident' \in BOOLEAN /\ (incident' <=> lf > lr)
    BY <1>1, <1>2, <1>9, <1>11, <1>14
  <2>2. health' = [state     |-> IF lf > lr THEN "DOWN" ELSE "SUSPECT",
                   failures  |-> f + 1, successes |-> 0]
    BY <1>9, <1>10, <1>14
  <2>3. QED BY <1>2, <1>3, <1>5, <1>6, <1>7, <1>8, <1>12, <1>14, <2>1, <2>2, NextParts
<1>15. QED BY <1>13, <1>14
-----------------------------------------------------------------------------
\* No results yet: nothing ends, and the monitor is PENDING.
LEMMA FreshState == Init => IInv
<1> SUFFICES ASSUME Init PROVE IInv
  OBVIOUS
<1>1. /\ history \in Seq(Results) /\ Len(history) = 0 /\ history = <<>>
  BY EmptySeq DEF Init
<1>2. health \in HealthRecords /\ incident \in BOOLEAN
      /\ health.failures = 0 /\ health.successes = 0 /\ health.state = "PENDING"
  BY DEF Init, PendingHealth, HealthRecords, HealthStates
<1>3. Streak("TARGET_FAILURE", health.failures) /\ Streak("SUCCESS", health.successes)
  BY <1>1, <1>2 DEF Streak
<1>4. ASSUME NEW n, NEW o PROVE LastRun(n, o) = 0
  <2>1. {i \in 1..Len(history) : RunEndsAt(n, o, i)} = {}
    BY <1>1
  <2>2. QED BY <2>1 DEF LastRun
<1>5. LastFailureRun = 0 /\ LastRecoveryRun = 0
  BY <1>4 DEF LastFailureRun, LastRecoveryRun
<1>6. /\ IsLastRun(FailureThreshold, "TARGET_FAILURE", LastFailureRun)
      /\ IsLastRun(RecoveryThreshold, "SUCCESS", LastRecoveryRun)
  BY <1>1, <1>5 DEF IsLastRun
<1>7. ~IncidentByHistory /\ incident = IncidentByHistory
  <2>1. ~IncidentByHistory /\ ~incident
    BY <1>5 DEF IncidentByHistory, Init
  <2>2. QED BY <1>2, <2>1 DEF IncidentByHistory
<1>8. health.state = HealthByHistory
  BY <1>1, <1>2, <1>7 DEF HealthByHistory
<1>9. QED BY <1>1, <1>2, <1>3, <1>6, <1>7, <1>8 DEF IInv

\* A step that the history does not see.
LEMMA Stutters ==
    ASSUME IInv, UNCHANGED vars
    PROVE  IInv'
<1>1. health' = health /\ incident' = incident /\ history' = history
  BY DEF vars
<1>2. ASSUME NEW n, NEW o PROVE LastRun(n, o)' = LastRun(n, o)
  <2> DEFINE ends == {i \in 1..Len(history) : RunEndsAt(n, o, i)}
  <2>1. ends' = ends
    BY <1>1 DEF RunEndsAt
  <2>2. /\ LastRun(n, o) = IF ends = {} THEN 0 ELSE CHOOSE i \in ends : \A j \in ends : i >= j
        /\ LastRun(n, o)' = IF ends' = {} THEN 0 ELSE CHOOSE i \in ends' : \A j \in ends' : i >= j
    BY DEF LastRun
  <2> HIDE DEF ends
  <2>3. QED BY <2>1, <2>2
<1>3. LastFailureRun' = LastFailureRun /\ LastRecoveryRun' = LastRecoveryRun
  BY <1>2 DEF LastFailureRun, LastRecoveryRun
<1>4. IncidentByHistory' = IncidentByHistory
  BY <1>3 DEF IncidentByHistory
<1>5. HealthByHistory' = HealthByHistory
  <2>1. CASE IncidentByHistory
    BY <1>1, <1>4, <2>1 DEF HealthByHistory
  <2>2. CASE ~IncidentByHistory
    BY <1>1, <1>4, <2>2 DEF HealthByHistory
  <2>3. QED BY <2>1, <2>2
<1>6. /\ Streak("TARGET_FAILURE", health.failures)' /\ Streak("SUCCESS", health.successes)'
      /\ IsLastRun(FailureThreshold, "TARGET_FAILURE", LastFailureRun)'
      /\ IsLastRun(RecoveryThreshold, "SUCCESS", LastRecoveryRun)'
  BY <1>1, <1>3 DEF IInv, Streak, IsLastRun, RunEndsAt
<1>7. QED BY <1>1, <1>4, <1>5, <1>6 DEF IInv

LEMMA StepInv ==
    ASSUME IInv, [Next]_vars
    PROVE  IInv'
<1>1. CASE \E outcome \in Outcomes : Apply(outcome)
  <2>1. PICK outcome \in Outcomes : Apply(outcome)
    BY <1>1
  <2>2. CASE outcome = "NON_TARGET"
    <3>1. UNCHANGED vars
      BY <2>1, <2>2 DEF Apply, ApplyOutcome, EffectOf, IsTargetOutcome, vars
    <3>2. QED BY <3>1, Stutters
  <2>3. QED BY <2>1, <2>2, SuccessStep, FailureStep DEF Outcomes
<1>2. CASE UNCHANGED vars
  BY <1>2, Stutters
<1>3. CASE Reset
  <2>1. Init'
    BY <1>3 DEF Reset, Init
  <2>2. Init' => IInv'
    BY FreshState, PTL
  <2>3. QED BY <2>1, <2>2
<1>4. QED BY <1>1, <1>2, <1>3 DEF Next

\* The invariant holds of every history.
THEOREM HistoryInvariance == Spec => []IInv
<1>1. Init => IInv
  BY FreshState
<1>2. IInv /\ [Next]_vars => IInv'
  BY StepInv
<1>3. QED BY <1>1, <1>2, PTL DEF Spec

\* applyCheckResult: the state its counters arrive at is the one the results
\* since the last reset call for, and one of the two streaks is empty.
THEOREM CountersTellHistory == Spec => []HealthMatchesHistory
<1>1. IInv => HealthMatchesHistory
  <2> SUFFICES ASSUME IInv PROVE HealthMatchesHistory
    OBVIOUS
  <2>1. /\ health \in HealthRecords /\ health.state = HealthByHistory
        /\ history \in Seq(Results) /\ Len(history) \in Nat
    BY LenProperties DEF IInv
  <2>2. PICK f, s \in Nat : /\ f = health.failures /\ s = health.successes
                            /\ Streak("TARGET_FAILURE", f) /\ Streak("SUCCESS", s)
    BY <2>1 DEF IInv, HealthRecords
  <2>3. f = 0 \/ s = 0
    <3>1. ASSUME f # 0, s # 0 PROVE FALSE
      <4>1. Len(history) \in 1..Len(history)
        BY <2>1, <2>2, <3>1 DEF Streak
      <4>2. history[Len(history)] = "TARGET_FAILURE" /\ history[Len(history)] = "SUCCESS"
        BY <2>1, <2>2, <3>1, <4>1 DEF Streak
      <4>3. QED BY <4>2
    <3>2. QED BY <3>1
  <2>4. QED BY <2>1, <2>2, <2>3 DEF HealthMatchesHistory
<1>2. QED BY <1>1, HistoryInvariance, PTL

\* OPEN and RESOLVE alternate as the history has it.
THEOREM EffectsTellHistory == Spec => []EffectsMatchHistory
<1>1. IInv => EffectsMatchHistory
  BY DEF IInv, EffectsMatchHistory
<1>2. QED BY <1>1, HistoryInvariance, PTL
=============================================================================
