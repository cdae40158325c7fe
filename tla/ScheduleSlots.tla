---------------------------- MODULE ScheduleSlots ----------------------------
(***************************************************************************)
(* packages/domain/src/scheduling.ts and its users: which instants become  *)
(* the scheduled_at of a check.  Time is in units of one tick of the       *)
(* database's millisecond column; the scheduler may sleep for any while.   *)
(* The whole batch of createDueChecks is one transaction, so one slot that *)
(* the unique key scheduled_checks_schedule_key refuses rolls back all.    *)
(***************************************************************************)
EXTENDS Integers, FiniteSets

CONSTANTS SlotMonitors,   \* monitors
          Intervals,      \* interval_sec values
          Jitter,         \* stableJitterMs of each monitor and interval
          StaleGrace,     \* the least stale window, five minutes in the code
          MaxClock        \* bound on the clock

ASSUME SlotsAssumption ==
    /\ IsFiniteSet(SlotMonitors)
    /\ Intervals \subseteq Nat \ {0}
    /\ Jitter \in [SlotMonitors -> [Intervals -> Nat]]
    /\ StaleGrace \in Nat
    /\ MaxClock \in Nat

NoSlot == -1     \* next_check_at is NULL

VARIABLES clock,
          interval,      \* interval_sec
          nextCheckAt,   \* next_check_at, or NoSlot while the monitor is paused
          used,          \* scheduled_at of the checks of the present configuration
          outstanding    \* a check of the monitor is PENDING, ENQUEUED or RUNNING

slotsVars == <<clock, interval, nextCheckAt, used, outstanding>>
-----------------------------------------------------------------------------
AtLeast(a, b) == IF a >= b THEN a ELSE b

\* A newly activated monitor starts in the next whole interval of the clock.
InitialNextCheckAt(m, i, now) == (now \div i) * i + i + Jitter[m][i]

NextFromNow(scheduledAt, i, now) == now + i

\* The first future slot on the grid of the slot just scheduled.
CalculateNextCheckAt(scheduledAt, i, now) ==
    scheduledAt + AtLeast(1, (now - scheduledAt) \div i + 1) * i

OldestDueSlot(next, i, now) == next

\* The most recent slot that is due; asked only of a monitor that is due.
CoalesceDueScheduledAt(next, i, now) == next + ((now - next) \div i) * i

StaleAfter(next, i) == next + AtLeast(2 * i, StaleGrace)

IsMonitorStale(m) ==
    nextCheckAt[m] # NoSlot /\ clock > StaleAfter(nextCheckAt[m], interval[m])
-----------------------------------------------------------------------------
SlotsInit ==
    /\ clock = 0
    /\ interval \in [SlotMonitors -> Intervals]
    /\ nextCheckAt = [m \in SlotMonitors |-> NoSlot]
    /\ used = [m \in SlotMonitors |-> {}]
    /\ outstanding = [m \in SlotMonitors |-> FALSE]

ClockAdvances ==
    /\ clock < MaxClock
    /\ clock' = clock + 1
    /\ UNCHANGED <<interval, nextCheckAt, used, outstanding>>

\* create and resume: the monitor is due in the next bucket.
Activate(m) ==
    /\ nextCheckAt[m] = NoSlot
    /\ nextCheckAt' = [nextCheckAt EXCEPT ![m] = InitialNextCheckAt(m, interval[m], clock)]
    /\ UNCHANGED <<clock, interval, used, outstanding>>

\* pause: next_check_at is cleared and the outstanding check is canceled; its
\* row, and with it the slot, stays.
PauseSlots(m) ==
    /\ nextCheckAt[m] # NoSlot
    /\ nextCheckAt' = [nextCheckAt EXCEPT ![m] = NoSlot]
    /\ outstanding' = [outstanding EXCEPT ![m] = FALSE]
    /\ UNCHANGED <<clock, interval, used>>

\* update with a new interval: a new configuration, whose slots are its own.
ChangeInterval(m, i) ==
    /\ i # interval[m]
    /\ interval' = [interval EXCEPT ![m] = i]
    /\ used' = [used EXCEPT ![m] = {}]
    /\ outstanding' = [outstanding EXCEPT ![m] = FALSE]
    /\ nextCheckAt' = [nextCheckAt EXCEPT ![m] =
                         IF @ = NoSlot THEN NoSlot ELSE InitialNextCheckAt(m, i, clock)]
    /\ UNCHANGED clock

IsDue(m) ==
    /\ nextCheckAt[m] # NoSlot
    /\ nextCheckAt[m] <= clock
    /\ ~outstanding[m]

SlotOf(m) == CoalesceDueScheduledAt(nextCheckAt[m], interval[m], clock)

\* The unique key refuses the slot of m: a check of this configuration has it.
Refused(m) == IsDue(m) /\ SlotOf(m) \in used[m]

\* One tick of createDueChecks that commits.  With a refused slot in the batch
\* it rolls back, and nothing changes.
CreateDueChecks ==
    LET due == {m \in SlotMonitors : IsDue(m)}
    IN  /\ due # {}
        /\ \A m \in due : ~Refused(m)
        /\ used' = [m \in SlotMonitors |->
                      IF m \in due THEN used[m] \union {SlotOf(m)} ELSE used[m]]
        /\ nextCheckAt' = [m \in SlotMonitors |->
                             IF m \in due
                             THEN CalculateNextCheckAt(SlotOf(m), interval[m], clock)
                             ELSE nextCheckAt[m]]
        /\ outstanding' = [m \in SlotMonitors |-> m \in due \/ outstanding[m]]
        /\ UNCHANGED <<clock, interval>>

\* The outstanding check is completed.
DecideCheck(m) ==
    /\ outstanding[m]
    /\ outstanding' = [outstanding EXCEPT ![m] = FALSE]
    /\ UNCHANGED <<clock, interval, nextCheckAt, used>>

\* The network guard asks for an immediate check: with the instant of its probe,
\* which the commit may follow by a tick (inspectFresh), or with the instant of
\* a summary that finds next_check_at in the future (summarize).
PullForward(m, t) ==
    /\ nextCheckAt[m] # NoSlot
    /\ \/ t \in {clock, clock - 1}
       \/ t = clock /\ nextCheckAt[m] > clock
    /\ t >= 0
    /\ nextCheckAt' = [nextCheckAt EXCEPT ![m] = t]
    /\ UNCHANGED <<clock, interval, used, outstanding>>

SlotsNext ==
    \/ ClockAdvances
    \/ CreateDueChecks
    \/ \E m \in SlotMonitors :
         \/ Activate(m)
         \/ PauseSlots(m)
         \/ DecideCheck(m)
         \/ \E i \in Intervals : ChangeInterval(m, i)
         \/ \E t \in 0..MaxClock : PullForward(m, t)

SlotsSpec == SlotsInit /\ [][SlotsNext]_slotsVars
-----------------------------------------------------------------------------
\* The dashboard's own test (GET /dashboard/summary) of an ACTIVE monitor.
DashboardStale(m) ==
    \/ nextCheckAt[m] = NoSlot
    \/ clock > nextCheckAt[m] + AtLeast(2 * interval[m], StaleGrace)

StalePrefilterOnInterval(m) ==
    nextCheckAt[m] # NoSlot /\ nextCheckAt[m] < clock - AtLeast(2 * interval[m], StaleGrace) - 1

\* staleMonitorWhere: the rows the database hands to list() with state STALE.
StalePrefilter(m) == nextCheckAt[m] # NoSlot /\ nextCheckAt[m] < clock - StaleGrace

\* MonitorsService.list: the rows of the filter that are stale by their interval.
ListedAsStale(m) == StalePrefilter(m) /\ IsMonitorStale(m)
-----------------------------------------------------------------------------
\* Each variable keeps its type, and no check is scheduled for the future.
SlotsTypeOK ==
    /\ clock \in 0..MaxClock
    /\ interval \in [SlotMonitors -> Intervals]
    /\ nextCheckAt \in [SlotMonitors -> Nat \union {NoSlot}]
    /\ \A m \in SlotMonitors : used[m] \subseteq 0..clock
    /\ outstanding \in [SlotMonitors -> BOOLEAN]

\* The slots of m's schedule that a tick can see, stated without division.
Grid(m) == {nextCheckAt[m] + k * interval[m] : k \in 0..(MaxClock + 1)}

\* Whenever the scheduler creates a check, after however long a sleep, its slot is
\* the latest of the schedule that is due and next_check_at becomes the earliest
\* that is not: no backlog is replayed, none is skipped and the grid does not
\* drift (coalesceDueScheduledAt, calculateNextCheckAt).
LatestDueThenFirstFuture ==
    [][CreateDueChecks =>
        \A m \in SlotMonitors : IsDue(m) =>
            LET created == used'[m] \ used[m]
            IN  /\ created \subseteq Grid(m)
                /\ \A s \in created :
                     s <= clock /\ \A g \in Grid(m) : g <= clock => g <= s
                /\ nextCheckAt'[m] \in Grid(m)
                /\ nextCheckAt'[m] > clock
                /\ \A g \in Grid(m) : g > clock => nextCheckAt'[m] <= g]_slotsVars

\* A monitor pulled forward onto an instant that already is the slot of one of
\* its checks makes createDueChecks roll back, for every monitor of the batch.
\* That heals by itself: the slot refused is less than an interval old, and the
\* next slot of the grid is a new one.
RefusalHeals ==
    \A m \in SlotMonitors :
        Refused(m) => /\ clock - SlotOf(m) < interval[m]
                      /\ \A s \in used[m] : s < SlotOf(m) + interval[m]

\* The list of stale monitors, narrowed by a database filter before it is
\* computed, holds the monitors the dashboard counts as stale.
StaleViewsAgree ==
    \A m \in SlotMonitors :
        nextCheckAt[m] # NoSlot => (ListedAsStale(m) <=> DashboardStale(m))
=============================================================================
