---------------------------- MODULE ServicesProofs -----------------------------
(***************************************************************************)
(* Proofs about ScheduleSlots, for any monitors, intervals and clock; about*)
(* ProcessLifecycle, for any limits of freshness and concurrency; and      *)
(* about MCServices, which puts the services next to each other.           *)
(***************************************************************************)
EXTENDS MCServices, HttpCheckerProofs, NetworkGuardProofs, AccountsProofs, RetentionProofs

-----------------------------------------------------------------------------
(* The arithmetic of the schedule.                                         *)

\* Multiples of an interval are ordered as their factors are.
LEMMA MultiplesOrdered ==
    ASSUME NEW a \in Nat, NEW b \in Nat, NEW i \in Nat \ {0}
    PROVE  /\ a <= b => a * i <= b * i
           /\ a < b => a * i + i <= b * i
           /\ a * i < b * i => a < b
<1>1. ASSUME a < b PROVE a * i + i <= b * i
  <2> DEFINE d == b - a - 1
  <2>1. d \in Nat /\ b = a + 1 + d
    BY <1>1
  <2>2. b * i = a * i + i + d * i
    BY <2>1
  <2>3. d * i \in Nat
    BY <2>1
  <2>4. QED BY <2>2, <2>3
<1>2. a <= b => a * i <= b * i
  BY <1>1
<1>3. ASSUME a * i < b * i PROVE a < b
  <2> SUFFICES ASSUME b <= a PROVE FALSE
    OBVIOUS
  <2> DEFINE d == a - b
  <2>1. d \in Nat /\ a = b + d
    OBVIOUS
  <2>2. a * i = b * i + d * i /\ d * i \in Nat /\ b * i \in Nat
    BY <2>1
  <2>3. QED BY <1>3, <2>2
<1>4. QED BY <1>1, <1>2, <1>3

\* Whole intervals in a span of time.
LEMMA WholeIntervals ==
    ASSUME NEW n \in Nat, NEW i \in Nat \ {0}
    PROVE  /\ n \div i \in Nat
           /\ (n \div i) * i <= n
           /\ n < (n \div i) * i + i
           /\ n < i => n \div i = 0
BY Z3

\* The slot coalesceDueScheduledAt returns (scheduling.ts) is due, less than an
\* interval old and a whole number of intervals after the slot it started from.
LEMMA CoalescedSlot ==
    ASSUME NEW next \in Nat, NEW i \in Nat \ {0}, NEW now \in Nat, next <= now
    PROVE  LET latest == CoalesceDueScheduledAt(next, i, now)
               q    == (now - next) \div i
           IN  /\ q \in Nat /\ q <= now - next
               /\ latest \in Nat /\ latest = next + q * i
               /\ latest <= now /\ now < latest + i
<1> DEFINE q == (now - next) \div i
<1>1. q \in Nat /\ q * i <= now - next /\ now - next < q * i + i
  BY WholeIntervals
<1>2. q <= q * i
  BY <1>1, Z3
<1> HIDE DEF q
<1>3. CoalesceDueScheduledAt(next, i, now) = next + q * i
  BY DEF CoalesceDueScheduledAt, q
<1>4. q * i \in Nat
  BY <1>1
<1>5. QED BY <1>1, <1>2, <1>3, <1>4 DEF q

\* calculateNextCheckAt, asked about the slot just scheduled, returns the one
\* right after it.
LEMMA SlotAfter ==
    ASSUME NEW latest \in Nat, NEW i \in Nat \ {0}, NEW now \in Nat, latest <= now, now < latest + i
    PROVE  CalculateNextCheckAt(latest, i, now) = latest + i
<1>1. (now - latest) \div i = 0
  BY WholeIntervals
<1>2. QED BY <1>1 DEF CalculateNextCheckAt, AtLeast

\* A new schedule starts in the future.
LEMMA FirstSlot ==
    ASSUME NEW m \in SlotMonitors, NEW i \in Intervals, NEW now \in Nat
    PROVE  InitialNextCheckAt(m, i, now) \in Nat
<1>1. i \in Nat \ {0} /\ Jitter[m][i] \in Nat
  BY SlotsAssumption
<1>2. now \div i \in Nat
  BY <1>1, WholeIntervals
<1>3. QED BY <1>1, <1>2 DEF InitialNextCheckAt
-----------------------------------------------------------------------------
(* ScheduleSlots.                                                          *)

\* The slots of a monitor are a set of instants of the past.
SlotsInv == SlotsTypeOK /\ used \in [SlotMonitors -> SUBSET Nat]

\* The clock, the intervals and the limits are numbers.
LEMMA SlotNumbers ==
    ASSUME SlotsInv
    PROVE  /\ clock \in Nat /\ MaxClock \in Nat /\ clock <= MaxClock /\ StaleGrace \in Nat
           /\ \A m \in SlotMonitors : interval[m] \in Nat \ {0}
           /\ \A m \in SlotMonitors : nextCheckAt[m] # NoSlot => nextCheckAt[m] \in Nat
<1>1. MaxClock \in Nat /\ StaleGrace \in Nat /\ Intervals \subseteq Nat \ {0}
  BY SlotsAssumption
<1>2. clock \in 0..MaxClock /\ interval \in [SlotMonitors -> Intervals]
  BY DEF SlotsInv, SlotsTypeOK
<1>3. \A m \in SlotMonitors : interval[m] \in Nat \ {0}
  BY <1>1, <1>2
<1>4. \A m \in SlotMonitors : nextCheckAt[m] # NoSlot => nextCheckAt[m] \in Nat
  BY DEF SlotsInv, SlotsTypeOK
<1>5. QED BY <1>1, <1>2, <1>3, <1>4

\* What a tick of the scheduler writes for a monitor that is due.
LEMMA DueSlot ==
    ASSUME SlotsInv, NEW m \in SlotMonitors, IsDue(m)
    PROVE  LET i == interval[m]
               q == (clock - nextCheckAt[m]) \div i
           IN  /\ i \in Nat \ {0} /\ nextCheckAt[m] \in Nat /\ clock \in Nat
               /\ q \in Nat /\ q <= clock
               /\ SlotOf(m) = nextCheckAt[m] + q * i
               /\ SlotOf(m) \in 0..clock
               /\ clock < SlotOf(m) + i
               /\ CalculateNextCheckAt(SlotOf(m), i, clock) = SlotOf(m) + i
<1> DEFINE i == interval[m]
<1>1. i \in Nat \ {0} /\ nextCheckAt[m] \in Nat /\ clock \in Nat /\ nextCheckAt[m] <= clock
  BY SlotNumbers DEF IsDue
<1> DEFINE latest == SlotOf(m)
<1>2. LET q == (clock - nextCheckAt[m]) \div i
      IN  /\ q \in Nat /\ q <= clock - nextCheckAt[m]
          /\ latest \in Nat /\ latest = nextCheckAt[m] + q * i
          /\ latest <= clock /\ clock < latest + i
  BY <1>1, CoalescedSlot DEF SlotOf
<1> HIDE DEF i, latest
<1>3. CalculateNextCheckAt(latest, i, clock) = latest + i
  BY <1>1, <1>2, SlotAfter
<1>4. QED BY <1>1, <1>2, <1>3 DEF i, latest

LEMMA SlotsInitInv == SlotsInit => SlotsInv
BY SlotsAssumption DEF SlotsInit, SlotsInv, SlotsTypeOK

\* Every step keeps the slots in the past and next_check_at an instant.
LEMMA SlotsNextInv == SlotsInv /\ [SlotsNext]_slotsVars => SlotsInv'
<1> SUFFICES ASSUME SlotsInv, [SlotsNext]_slotsVars PROVE SlotsInv'
  OBVIOUS
<1> USE DEF SlotsInv, SlotsTypeOK
<1>1. CASE ClockAdvances
  <2>1. clock' \in 0..MaxClock /\ 0..clock \subseteq 0..clock'
    BY <1>1, SlotNumbers DEF ClockAdvances
  <2>2. QED BY <1>1, <2>1 DEF ClockAdvances
<1>2. CASE CreateDueChecks
  <2>1. \A m \in SlotMonitors : IsDue(m) =>
           /\ SlotOf(m) \in 0..clock
           /\ CalculateNextCheckAt(SlotOf(m), interval[m], clock) \in Nat
    <3> SUFFICES ASSUME NEW m \in SlotMonitors, IsDue(m)
                 PROVE  /\ SlotOf(m) \in 0..clock
                        /\ CalculateNextCheckAt(SlotOf(m), interval[m], clock) \in Nat
      OBVIOUS
    <3>1. SlotOf(m) \in 0..clock /\ interval[m] \in Nat \ {0}
          /\ CalculateNextCheckAt(SlotOf(m), interval[m], clock) = SlotOf(m) + interval[m]
      BY DueSlot
    <3>2. QED BY <3>1
  <2>2. nextCheckAt' \in [SlotMonitors -> Nat \union {NoSlot}]
    BY <1>2, <2>1 DEF CreateDueChecks
  <2>3. used' \in [SlotMonitors -> SUBSET Nat] /\ \A m \in SlotMonitors : used'[m] \subseteq 0..clock
    BY <1>2, <2>1 DEF CreateDueChecks
  <2>4. outstanding' \in [SlotMonitors -> BOOLEAN] /\ UNCHANGED <<clock, interval>>
    BY <1>2 DEF CreateDueChecks
  <2>5. QED BY <2>2, <2>3, <2>4
<1>3. ASSUME NEW m \in SlotMonitors, Activate(m) PROVE SlotsInv'
  BY <1>3, FirstSlot DEF Activate
<1>4. ASSUME NEW m \in SlotMonitors, PauseSlots(m) PROVE SlotsInv'
  BY <1>4 DEF PauseSlots
<1>5. ASSUME NEW m \in SlotMonitors, DecideCheck(m) PROVE SlotsInv'
  BY <1>5 DEF DecideCheck
<1>6. ASSUME NEW m \in SlotMonitors, NEW i \in Intervals, ChangeInterval(m, i) PROVE SlotsInv'
  <2>1. InitialNextCheckAt(m, i, clock) \in Nat
    BY FirstSlot
  <2>2. QED BY <1>6, <2>1 DEF ChangeInterval
<1>7. ASSUME NEW m \in SlotMonitors, NEW t \in 0..MaxClock, PullForward(m, t) PROVE SlotsInv'
  BY <1>7 DEF PullForward
<1>8. CASE UNCHANGED slotsVars
  BY <1>8 DEF slotsVars
<1>9. QED BY <1>1, <1>2, <1>3, <1>4, <1>5, <1>6, <1>7, <1>8 DEF SlotsNext

\* No check is scheduled for the future, for any intervals, jitter and sleeps.
THEOREM SlotsTypeCorrect == SlotsSpec => []SlotsTypeOK
<1>1. SlotsInv => SlotsTypeOK
  BY DEF SlotsInv
<1>2. QED BY <1>1, SlotsInitInv, SlotsNextInv, PTL DEF SlotsSpec

\* A slot refused by scheduled_checks_schedule_key is less than an interval old
\* and the next one is new, so a batch that rolls back heals by itself.
THEOREM RefusedSlotHeals == SlotsSpec => []RefusalHeals
<1>1. SlotsInv => RefusalHeals
  <2> SUFFICES ASSUME SlotsInv, NEW m \in SlotMonitors, Refused(m)
               PROVE  /\ clock - SlotOf(m) < interval[m]
                      /\ \A s \in used[m] : s < SlotOf(m) + interval[m]
    BY DEF RefusalHeals
  <2>1. /\ interval[m] \in Nat \ {0} /\ clock \in Nat /\ SlotOf(m) \in 0..clock
        /\ clock < SlotOf(m) + interval[m]
    BY DueSlot DEF Refused
  <2>2. used[m] \subseteq 0..clock
    BY DEF SlotsInv, SlotsTypeOK
  <2>3. QED BY <2>1, <2>2
<1>2. QED BY <1>1, SlotsInitInv, SlotsNextInv, PTL DEF SlotsSpec

\* staleMonitorWhere drops no monitor that isMonitorStale counts: the stale window
\* is never shorter than the grace the filter uses.
THEOREM StaleViewsCorrect == SlotsSpec => []StaleViewsAgree
<1>1. SlotsInv => StaleViewsAgree
  <2> SUFFICES ASSUME SlotsInv, NEW m \in SlotMonitors, nextCheckAt[m] # NoSlot
               PROVE  ListedAsStale(m) <=> DashboardStale(m)
    BY DEF StaleViewsAgree
  <2>1. nextCheckAt[m] \in Nat /\ interval[m] \in Nat /\ clock \in Nat /\ StaleGrace \in Nat
    BY SlotNumbers
  <2>2. QED BY <2>1 DEF ListedAsStale, StalePrefilter, IsMonitorStale, StaleAfter, DashboardStale, AtLeast
<1>2. QED BY <1>1, SlotsInitInv, SlotsNextInv, PTL DEF SlotsSpec

\* A tick of createDueChecks creates the latest slot that is due and makes the
\* earliest one that is not due next, after any sleep.
THEOREM LatestSlotIsCreated == SlotsSpec => LatestDueThenFirstFuture
<1> DEFINE Created(m) == used'[m] \ used[m]
           Right(m) == /\ Created(m) \subseteq Grid(m)
                       /\ \A s \in Created(m) :
                            s <= clock /\ \A g \in Grid(m) : g <= clock => g <= s
                       /\ nextCheckAt'[m] \in Grid(m)
                       /\ nextCheckAt'[m] > clock
                       /\ \A g \in Grid(m) : g > clock => nextCheckAt'[m] <= g
           Step == CreateDueChecks => \A m \in SlotMonitors : IsDue(m) => Right(m)
<1>1. ASSUME SlotsInv, CreateDueChecks, NEW m \in SlotMonitors, IsDue(m) PROVE Right(m)
  <2> DEFINE i    == interval[m]
             next == nextCheckAt[m]
             q    == (clock - next) \div i
             latest == SlotOf(m)
  <2>1. /\ i \in Nat \ {0} /\ next \in Nat /\ clock \in Nat /\ clock <= MaxClock
        /\ q \in Nat /\ q <= clock
        /\ latest = next + q * i /\ latest \in 0..clock /\ clock < latest + i
    BY <1>1, DueSlot DEF SlotsInv, SlotsTypeOK
  <2>2. Created(m) \subseteq {latest} /\ nextCheckAt'[m] = latest + i
    BY <1>1, DueSlot DEF CreateDueChecks
  <2>3. \A g \in Grid(m) : \E k \in Nat : g = next + k * i
    BY DEF Grid
  <2> HIDE DEF i, next, q, latest
  <2>4. latest + i = next + (q + 1) * i
    BY <2>1
  <2>5. latest \in Grid(m) /\ latest + i \in Grid(m)
    <3>1. q \in 0..(MaxClock + 1) /\ (q + 1) \in 0..(MaxClock + 1)
      BY <2>1, SlotsAssumption
    <3>2. QED BY <2>1, <2>4, <3>1 DEF Grid, next, i
  <2>6. ASSUME NEW g \in Grid(m)
        PROVE  (g <= clock => g <= latest) /\ (g > clock => latest + i <= g)
    <3>1. PICK k \in Nat : g = next + k * i
      BY <2>3
    <3>2. k * i \in Nat /\ q * i \in Nat
      BY <2>1
    <3>3. CASE k <= q
      <4>1. k * i <= q * i
        BY <2>1, <3>3, MultiplesOrdered
      <4>2. QED BY <2>1, <3>1, <3>2, <4>1
    <3>4. CASE q < k
      <4>1. q * i + i <= k * i
        BY <2>1, <3>4, MultiplesOrdered
      <4>2. QED BY <2>1, <3>1, <3>2, <4>1
    <3>5. QED BY <2>1, <3>3, <3>4
  <2>7. QED BY <2>1, <2>2, <2>5, <2>6
<1>2. SlotsInv /\ [SlotsNext]_slotsVars => [Step]_slotsVars
  BY <1>1
<1>3. QED BY <1>2, SlotsInitInv, SlotsNextInv, PTL DEF SlotsSpec, LatestDueThenFirstFuture
-----------------------------------------------------------------------------
(* ProcessLifecycle.                                                       *)

\* Only shutdown stops the process, and the flag is set before anything else.
StopComesFirst == (shutdown = "none") <=> ~Stopped

\* What an open /health request has read of the poll is as old as the request,
\* and it has not been answered.
InspectionIsTimely ==
    inspection.open =>
        /\ reported = "none"
        /\ inspection.fresh => polledAgo <= PollStaleAfter + inspection.elapsed

LifeInv == LifeTypeOK /\ QuietAfterStop /\ StopComesFirst /\ InspectionIsTimely

Inspections == [open : BOOLEAN, fresh : BOOLEAN, failing : BOOLEAN, running : BOOLEAN,
                elapsed : 0..ProbeTimeout]

\* The limits are positive numbers, and an age never grows beyond LongAgo.
LEMMA Ages ==
    /\ {PollStaleAfter, PipelineStale, FailureThreshold, ProbeTimeout, Concurrency} \subseteq Nat \ {0}
    /\ LongAgo \in Nat \ {0}
    /\ NoInspection \in Inspections
    /\ NoInspection.open = FALSE /\ NoInspection.elapsed = 0
BY LifecycleAssumption DEF LongAgo, NoInspection, Inspections

LEMMA LifeInitInv == LifeInit => LifeInv
BY Ages DEF LifeInit, LifeInv, LifeTypeOK, QuietAfterStop, StopComesFirst, InspectionIsTimely,
            Stopped, Inspections

\* Starting, polling and guarding: no timer is armed once the process stops.
LEMMA PollSteps ==
    ASSUME LifeInv, Start \/ BeginPoll \/ EndPoll \/ BeginGuard \/ EndGuard
    PROVE  LifeInv'
<1> USE Ages DEF LifeInv, LifeTypeOK, QuietAfterStop, StopComesFirst, InspectionIsTimely, Stopped,
                 Rearm, healthVars
<1>1. CASE Start      BY <1>1 DEF Start
<1>2. CASE BeginPoll  BY <1>2 DEF BeginPoll
<1>3. CASE EndPoll    BY <1>3 DEF EndPoll
<1>4. CASE BeginGuard BY <1>4 DEF BeginGuard
<1>5. CASE EndGuard   BY <1>5 DEF EndGuard
<1>6. QED BY <1>1, <1>2, <1>3, <1>4, <1>5

\* Jobs: none is taken after the consumers have closed, and failures count no
\* further than the threshold.
LEMMA JobSteps ==
    ASSUME LifeInv, BeginJob \/ EndJob
    PROVE  LifeInv'
<1> USE Ages DEF LifeInv, LifeTypeOK, QuietAfterStop, StopComesFirst, InspectionIsTimely, Stopped
<1>1. CASE BeginJob BY <1>1 DEF BeginJob
<1>2. CASE EndJob   BY <1>2 DEF EndJob
<1>3. QED BY <1>1, <1>2

\* /health: what is read when a request begins.
LEMMA InspectionSteps ==
    ASSUME LifeInv, BeginInspection \/ \E healthyProbes \in BOOLEAN : Answer(healthyProbes)
    PROVE  LifeInv'
<1> USE Ages DEF LifeInv, LifeTypeOK, QuietAfterStop, StopComesFirst, InspectionIsTimely, Stopped
<1>1. CASE BeginInspection /\ process = "running"
  <2> DEFINE new == [open |-> TRUE, fresh |-> Fresh, failing |-> Failing, running |-> TRUE,
                     elapsed |-> 0]
  <2>1. Fresh \in BOOLEAN /\ Failing \in BOOLEAN
    BY DEF Fresh, Failing
  <2>2. new \in Inspections /\ new.open /\ new.elapsed = 0
    BY <2>1 DEF Inspections
  <2>3. new.fresh = Fresh
    OBVIOUS
  <2>4. inspection' = new /\ reported' = "none"
        /\ UNCHANGED <<process, shutdown, poll, guard, polledAgo, jobs, failures, failedAgo>>
    BY <1>1 DEF BeginInspection
  <2> HIDE DEF new
  <2>5. LifeTypeOK' /\ QuietAfterStop' /\ StopComesFirst'
    BY <2>2, <2>4 DEF Inspections
  <2>6. new.fresh => polledAgo <= PollStaleAfter
    BY <2>3, Zenon DEF Fresh
  <2>7. inspection'.fresh => polledAgo' <= PollStaleAfter + inspection'.elapsed
    <3>1. PollStaleAfter + 0 = PollStaleAfter
      BY Ages
    <3>2. QED BY <2>2, <2>4, <2>6, <3>1
  <2>8. QED BY <2>4, <2>5, <2>7
<1>2. CASE BeginInspection /\ process # "running"
  BY <1>2 DEF BeginInspection
<1>3. ASSUME NEW healthyProbes \in BOOLEAN, Answer(healthyProbes) PROVE LifeInv'
  BY <1>3 DEF Answer, Inspections
<1>4. QED BY <1>1, <1>2, <1>3

\* shutdown: the timers are cleared with the flag, and the clients outlive the
\* jobs and the guard.
LEMMA ShutdownSteps ==
    ASSUME LifeInv, Stop \/ CloseServer \/ CloseClients
    PROVE  LifeInv'
<1> USE Ages DEF LifeInv, LifeTypeOK, QuietAfterStop, StopComesFirst, InspectionIsTimely, Stopped,
                 healthVars
<1>1. CASE Stop         BY <1>1 DEF Stop
<1>2. CASE CloseServer  BY <1>2 DEF CloseServer, Inspections
<1>3. CASE CloseClients BY <1>3 DEF CloseClients, ConsumersIdle
<1>4. QED BY <1>1, <1>2, <1>3

\* Time passes: a poll that was fresh when a request began ages with the request.
LEMMA TickStep == LifeInv /\ Tick => LifeInv'
<1> SUFFICES ASSUME LifeInv, Tick PROVE LifeInv'
  OBVIOUS
<1> USE Ages DEF LifeInv, LifeTypeOK, QuietAfterStop, StopComesFirst, InspectionIsTimely, Stopped
<1>0. UNCHANGED <<process, shutdown, poll, guard, jobs, failures, reported>>
  BY DEF Tick
<1>1. /\ polledAgo' \in 0..LongAgo /\ polledAgo' <= polledAgo + 1
      /\ failedAgo' \in 0..LongAgo
  BY DEF Tick
<1>2. /\ inspection' \in Inspections
      /\ inspection'.open <=> inspection.open
      /\ inspection.open => /\ inspection'.fresh <=> inspection.fresh
                            /\ inspection'.elapsed = inspection.elapsed + 1
  <2> DEFINE older == [inspection EXCEPT !.elapsed = @ + 1]
  <2>1. inspection.elapsed + 1 \in 0..ProbeTimeout
    BY DEF Tick
  <2>2. older \in Inspections /\ older.elapsed = inspection.elapsed + 1
    BY <2>1 DEF Inspections
  <2>3. older.open = inspection.open /\ older.fresh = inspection.fresh
    OBVIOUS
  <2>4. inspection' = IF inspection.open THEN older ELSE inspection
    BY DEF Tick
  <2> HIDE DEF older
  <2>5. QED BY <2>2, <2>3, <2>4 DEF Inspections
<1>3. LifeTypeOK' /\ QuietAfterStop' /\ StopComesFirst'
  BY <1>0, <1>1, <1>2 DEF Inspections
<1>4. InspectionIsTimely'
  BY <1>0, <1>1, <1>2 DEF Inspections
<1>5. QED BY <1>3, <1>4

LEMMA LifeNextInv == LifeInv /\ [LifeNext]_lifeVars => LifeInv'
<1> SUFFICES ASSUME LifeInv, [LifeNext]_lifeVars PROVE LifeInv'
  OBVIOUS
<1>1. CASE UNCHANGED lifeVars
  BY <1>1 DEF lifeVars, LifeInv, LifeTypeOK, QuietAfterStop, StopComesFirst, InspectionIsTimely, Stopped
<1>2. QED BY <1>1, PollSteps, JobSteps, InspectionSteps, ShutdownSteps, TickStep DEF LifeNext

\* The state of a process keeps its types, for any limits.
THEOREM LifeTypeCorrect == LifeSpec => []LifeTypeOK
<1>1. LifeInv => LifeTypeOK
  BY DEF LifeInv
<1>2. QED BY <1>1, LifeInitInv, LifeNextInv, PTL DEF LifeSpec

\* Once the process stops no poll begins, and when its clients are closed no job
\* and no guard is left (index.ts shutdown).
THEOREM StaysQuiet == LifeSpec => []QuietAfterStop
<1>1. LifeInv => QuietAfterStop
  BY DEF LifeInv
<1>2. QED BY <1>1, LifeInitInv, LifeNextInv, PTL DEF LifeSpec

\* A 200 of /health is true when it is given: the process still runs and a poll
\* has succeeded within its limit and the time of the probes (WorkerHealth.inspect).
THEOREM HealthyAnswerIsCurrent == LifeSpec => HealthyIsCurrent
<1>1. ASSUME LifeInv, [LifeNext]_lifeVars, inspection.open, reported' = "healthy"
      PROVE  process = "running" /\ polledAgo <= PollStaleAfter + ProbeTimeout
  <2>1. reported' # reported
    BY <1>1 DEF LifeInv, InspectionIsTimely
  <2>2. PICK healthyProbes \in BOOLEAN : Answer(healthyProbes)
    BY <1>1, <2>1 DEF LifeNext, lifeVars, healthVars, Start, BeginPoll, EndPoll, BeginGuard, EndGuard,
          BeginJob, EndJob, BeginInspection, Stop, CloseServer, CloseClients, Tick
  <2>3. process = "running" /\ inspection.fresh
    BY <1>1, <2>2 DEF Answer, RunningStill
  <2>4. polledAgo <= PollStaleAfter + inspection.elapsed /\ inspection.elapsed \in 0..ProbeTimeout
        /\ polledAgo \in 0..LongAgo
    BY <1>1, <2>3 DEF LifeInv, LifeTypeOK, InspectionIsTimely
  <2>5. QED BY <2>3, <2>4, Ages
<1>2. LifeInv /\ [LifeNext]_lifeVars =>
        [inspection.open /\ reported' = "healthy" =>
           process = "running" /\ polledAgo <= PollStaleAfter + ProbeTimeout]_lifeVars
  BY <1>1
<1>3. QED BY <1>2, LifeInitInv, LifeNextInv, PTL DEF LifeSpec, HealthyIsCurrent
-----------------------------------------------------------------------------
(* The services next to each other.                                        *)

\* A step of one service leaves the variables of every other one alone.
LEMMA StepsApart ==
    ASSUME [Next]_allVars
    PROVE  /\ [SlotsNext]_slotsVars /\ [HttpNext]_httpVars /\ [NetNext]_netVars
           /\ [AccountsNext]_accountVars /\ [RetentionNext]_retentionVars
           /\ [LifeNext]_lifeVars
BY DEF Next, allVars

\* What is checked of a service beside the others is checked of its own
\* specification: the composition restricts the services and adds nothing.
THEOREM ServicesCompose ==
    Spec => /\ SlotsSpec /\ HttpSpec /\ NetSpec
            /\ AccountsSpec /\ RetentionSpec /\ LifeSpec
<1>1. Init => SlotsInit /\ HttpInit /\ NetInit /\ AccountsInit /\ RetentionInit /\ LifeInit
  BY DEF Init
<1>2. QED
  BY <1>1, StepsApart, PTL
  DEF Spec, SlotsSpec, HttpSpec, NetSpec, AccountsSpec, RetentionSpec, LifeSpec

\* The types of all services, with what their modules say beyond types, hold in
\* the composition for every value of their constants.
THEOREM ServicesTypeCorrect == Spec => []ServicesTypeOK
<1>1. SlotsTypeOK /\ HttpTypeOK /\ NetTypeOK /\ AccountsTypeOK /\ RetentionTypeOK
        /\ LifeTypeOK => ServicesTypeOK
  BY DEF ServicesTypeOK
<1>2. QED
  BY <1>1, ServicesCompose, SlotsTypeCorrect, HttpTypeCorrect, NetTypeCorrect, TypeCorrect,
     RetentionTypeCorrect, LifeTypeCorrect, PTL
=============================================================================
