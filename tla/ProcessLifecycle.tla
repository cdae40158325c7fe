--------------------------- MODULE ProcessLifecycle ---------------------------
(***************************************************************************)
(* apps/worker/src/index.ts and health.ts: how a worker process starts,    *)
(* polls its outbox and its network guard, works on jobs, answers /health  *)
(* and stops.  The scheduler's process is the same with a tick for a poll, *)
(* no jobs, no guard and an answer that awaits nothing.                    *)
(***************************************************************************)
EXTENDS Integers

CONSTANTS PollStaleAfter,        \* outboxPollFreshnessMs, in ticks
          PipelineStale,     \* checkPipelineStaleAfterMs, in ticks
          FailureThreshold,  \* checkFailureThreshold
          ProbeTimeout,      \* healthProbeTimeoutMs, in ticks
          Concurrency        \* checkConcurrency

ASSUME LifecycleAssumption ==
    {PollStaleAfter, PipelineStale, FailureThreshold, ProbeTimeout, Concurrency} \subseteq Nat \ {0}

VARIABLES process,    \* processStatus; "stopping" is also the flag stopped
          shutdown,   \* how far the shutdown has come
          poll,       \* the outbox poll: resting, due by its timer, busy or hung
          guard,      \* the poll of the network guard
          polledAgo,  \* ticks since the last successful poll
          jobs,       \* check jobs under way
          failures,   \* consecutiveCheckProcessorFailures
          failedAgo,  \* ticks since the last failed job
          inspection, \* the /health request under way and what it has read
          reported    \* the answer given last

lifeVars == <<process, shutdown, poll, guard, polledAgo, jobs, failures, failedAgo,
              inspection, reported>>

LongAgo == 1 + PollStaleAfter + PipelineStale + ProbeTimeout     \* an age beyond all limits
NoInspection == [open |-> FALSE, fresh |-> FALSE, failing |-> FALSE,
                 running |-> FALSE, elapsed |-> 0]
Stopped == process = "stopping"
-----------------------------------------------------------------------------
LifeInit ==
    /\ process = "starting" /\ shutdown = "none"
    /\ poll = "rest" /\ guard = "rest"
    /\ polledAgo = LongAgo /\ jobs = 0
    /\ failures = 0 /\ failedAgo = LongAgo
    /\ inspection = NoInspection /\ reported = "none"

healthVars == <<polledAgo, jobs, failures, failedAgo, inspection, reported>>

\* The health server listens; then the first polls begin.  BullMQ takes jobs
\* from the moment the module is loaded.
Start ==
    /\ process = "starting"
    /\ process' = "running"
    /\ poll' = "busy" /\ guard' = "busy"
    /\ UNCHANGED <<shutdown, healthVars>>

\* The finally of a poll arms its timer unless the process is stopping.
RearmAlways == "due"
Rearm == IF Stopped THEN "rest" ELSE "due"

\* The timer fires; shutdown has cleared it if the process is stopping.
BeginPoll ==
    /\ poll = "due"
    /\ poll' = IF Stopped THEN "rest" ELSE "busy"
    /\ UNCHANGED <<process, shutdown, guard, healthVars>>

\* dispatch returns or throws, or never does either.
EndPoll ==
    /\ poll = "busy"
    /\ \/ poll' = Rearm /\ polledAgo' = 0
       \/ poll' = Rearm /\ UNCHANGED polledAgo
       \/ poll' = "hung" /\ UNCHANGED polledAgo
    /\ UNCHANGED <<process, shutdown, guard, jobs, failures, failedAgo, inspection, reported>>

BeginGuard ==
    /\ guard = "due"
    /\ guard' = IF Stopped THEN "rest" ELSE "busy"
    /\ UNCHANGED <<process, shutdown, poll, healthVars>>

EndGuard ==
    /\ guard = "busy"
    /\ guard' = Rearm
    /\ UNCHANGED <<process, shutdown, poll, healthVars>>

\* markCheckStarted: failures of long ago no longer count.
BeginJob ==
    /\ jobs < Concurrency
    /\ shutdown \in {"none", "server"}                   \* Worker.close takes no more
    /\ jobs' = jobs + 1
    /\ failures' = IF failedAgo > PipelineStale THEN 0 ELSE failures
    /\ UNCHANGED <<process, shutdown, poll, guard, polledAgo, failedAgo, inspection, reported>>

\* markCheckSucceeded, markCheckFailed; failures count up to the threshold.
EndJob ==
    /\ jobs > 0
    /\ jobs' = jobs - 1
    /\ \/ failures' = 0 /\ UNCHANGED failedAgo
       \/ /\ failures' = IF failures < FailureThreshold THEN failures + 1 ELSE failures
          /\ failedAgo' = 0
    /\ UNCHANGED <<process, shutdown, poll, guard, polledAgo, inspection, reported>>
-----------------------------------------------------------------------------
(* WorkerHealth.inspect.                                                    *)
Fresh == polledAgo <= PollStaleAfter

Failing == failures >= FailureThreshold /\ failedAgo <= PipelineStale

\* What is read before the probes are awaited.  A process that is not running is
\* answered for at once.
BeginInspection ==
    /\ ~inspection.open
    /\ process # "starting" /\ shutdown \in {"none", "server"}
    /\ IF process = "running"
       THEN /\ inspection' = [open |-> TRUE, fresh |-> Fresh, failing |-> Failing,
                              running |-> TRUE, elapsed |-> 0]
            /\ reported' = "none"
       ELSE /\ reported' = "unhealthy"
            /\ UNCHANGED inspection
    /\ UNCHANGED <<process, shutdown, poll, guard, polledAgo, jobs, failures, failedAgo>>

RunningWhenRead == inspection.running

\* processStatus is read again after the probes.
RunningStill == process = "running"

\* The probes are over: the dependencies answered, or did not in time; the
\* ledger has no stalled work, or has some.
Answer(healthyProbes) ==
    /\ inspection.open
    /\ reported' = IF healthyProbes /\ RunningStill /\ inspection.fresh /\ ~inspection.failing
                 THEN "healthy" ELSE "unhealthy"
    /\ inspection' = NoInspection
    /\ UNCHANGED <<process, shutdown, poll, guard, polledAgo, jobs, failures, failedAgo>>
-----------------------------------------------------------------------------
(* shutdown: a signal, or a health server that cannot listen.               *)
Stop ==
    /\ ~Stopped
    /\ process' = "stopping"
    /\ shutdown' = "server"
    /\ poll' = IF poll = "due" THEN "rest" ELSE poll
    /\ guard' = IF guard = "due" THEN "rest" ELSE guard
    /\ UNCHANGED healthVars

\* closeHealthServer waits for open requests, two seconds at most.
CloseServer ==
    /\ shutdown = "server"
    /\ shutdown' = "consumers"
    /\ inspection' = NoInspection
    /\ UNCHANGED <<process, poll, guard, polledAgo, jobs, failures, failedAgo, reported>>

ConsumersAndPollIdle == jobs = 0 /\ guard # "busy" /\ poll \notin {"busy", "hung"}

\* What is awaited before the clients go: the guard and the jobs, not the poll.
ConsumersIdle == jobs = 0 /\ guard # "busy"

CloseClients ==
    /\ shutdown = "consumers"
    /\ ConsumersIdle
    /\ shutdown' = "done"
    /\ UNCHANGED <<process, poll, guard, healthVars>>

\* Probes end within their timeout.
Tick ==
    LET Older(age) == IF age < LongAgo THEN age + 1 ELSE LongAgo
    IN  /\ inspection.elapsed < ProbeTimeout
        /\ polledAgo' = Older(polledAgo) /\ failedAgo' = Older(failedAgo)
        /\ inspection' = IF inspection.open THEN [inspection EXCEPT !.elapsed = @ + 1]
                         ELSE inspection
        /\ UNCHANGED <<process, shutdown, poll, guard, jobs, failures, reported>>

LifeNext ==
    \/ Start \/ BeginPoll \/ EndPoll \/ BeginGuard \/ EndGuard \/ BeginJob \/ EndJob
    \/ BeginInspection \/ \E healthyProbes \in BOOLEAN : Answer(healthyProbes)
    \/ Stop \/ CloseServer \/ CloseClients \/ Tick

\* The container's health check asks again and again, time passes, a job and
\* the guard's poll end by their timeouts and a shutdown goes on.  Nothing says
\* that a poll ends.
LifeFairness ==
    /\ WF_lifeVars(process = "running" /\ Tick)
    /\ WF_lifeVars(process = "running" /\ BeginInspection)
    /\ WF_lifeVars(\E healthyProbes \in BOOLEAN : Answer(healthyProbes))
    /\ WF_lifeVars(EndJob) /\ WF_lifeVars(EndGuard)
    /\ WF_lifeVars(CloseServer) /\ WF_lifeVars(CloseClients)

LifeSpec == LifeInit /\ [][LifeNext]_lifeVars /\ LifeFairness
-----------------------------------------------------------------------------
LifeTypeOK ==
    /\ process \in {"starting", "running", "stopping"}
    /\ shutdown \in {"none", "server", "consumers", "done"}
    /\ poll \in {"rest", "due", "busy", "hung"} /\ guard \in {"rest", "due", "busy"}
    /\ {polledAgo, failedAgo} \subseteq 0..LongAgo
    /\ jobs \in 0..Concurrency /\ failures \in 0..FailureThreshold
    /\ inspection \in [open : BOOLEAN, fresh : BOOLEAN, failing : BOOLEAN,
                       running : BOOLEAN, elapsed : 0..ProbeTimeout]
    /\ reported \in {"none", "healthy", "unhealthy"}

\* The answer 200 is true when it is given, although all it says but the process
\* status was read before the probes: the process is not stopping, and a poll has
\* succeeded within the freshness limit and the time of the probes.
HealthyIsCurrent ==
    [][inspection.open /\ reported' = "healthy" =>
         process = "running" /\ polledAgo <= PollStaleAfter + ProbeTimeout]_lifeVars

\* Once the process stops, no poll of the outbox or the guard begins any more,
\* and when its clients are closed no job and no guard is left that uses them.
QuietAfterStop ==
    /\ Stopped => "due" \notin {poll, guard}
    /\ shutdown = "done" => jobs = 0 /\ guard = "rest"

\* A dispatcher that hangs for ever is reported by /health, again and again, and
\* does not keep the process from stopping.
HungPollIsHarmless ==
    []<>(/\ poll = "hung" => reported = "unhealthy" \/ Stopped
         /\ Stopped => shutdown = "done")
=============================================================================
