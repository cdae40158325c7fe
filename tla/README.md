# LinkAlive: TLA+ specifications

LinkAlive checks registered URLs at fixed intervals, decides from consecutive
results whether a target is down, and tells Telegram channels about the outage
and the recovery. Four processes cooperate over one MySQL/MariaDB database and
one Redis: `apps/api`, `apps/web`, `apps/scheduler`, `apps/worker`. This
directory models the parts in which steps of several of them interleave: the
ledger of scheduled checks, the health state machine and its incidents, the
transactional outbox of notifications, and the services around them: schedule
slots, URL checks under the destination limiter, the network guard, accounts and
sessions, retention, and the life of a worker process. Paths below are relative
to `src/`.

## 1. The system

| component | state it keeps | operations | talks to |
|---|---|---|---|
| Health state machine `packages/domain/src/state-machine.ts` | `MonitorHealthState`: status, two streak counters | `applyCheckResult`, `transitionLifecycle`, `resetForConfigChange` | called by the check processor and, through `initialHealthState` resets, by the API |
| Check scheduler and dispatcher `apps/scheduler/src/{store,check-dispatcher,scheduler-service}.ts` | rows of `scheduled_checks`, `monitors.next_check_at` | `createDueChecks`, `findDispatchCandidates`, `claimForDispatch`, `ensureQueueJob`, `markEnqueued`, `releaseDispatchClaim` | database, BullMQ |
| Check processor `apps/worker/src/check-processor.ts` | the same rows, `check_results`, health columns, `incidents`, outbox rows | `process`, `cancelStale`, `claim`, `execute`, `persist`, `createOutbox`, `createRecoveryOutbox` | database, network guard, destination limiter, HTTP checker |
| Monitor administration `apps/api/src/monitors/monitors.service.ts` | `monitors`, `monitor_channels` | create, update, pause, resume, remove, `cancelRuntime`, immediate and test checks | database |
| Outbox dispatcher `apps/worker/src/outbox-dispatcher.ts` | lease and status of `notification_outbox` | scan, order check, defer, cancel, claim, `ensureNotificationJob`, mark, requeue | database, BullMQ |
| Notification processor `apps/worker/src/notification-processor.ts` | `notification_outbox`, `notification_deliveries` | `claim`, send, `markSent`, `ensureRecoveryAfterLateDownSuccess`, `markFailed` | database, Telegram |
| Notification channels `apps/api/src/notifications/notification-channels.service.ts` | `notification_channels`, bindings | create, update, disable, enable, remove, test | database |
| Telegram adapter `packages/notifications/src` | none | send, classify the answer | Telegram |
| Schedule arithmetic `packages/domain/src/scheduling.ts` | none; works on `next_check_at` | `calculateInitialNextCheckAt`, `calculateNextCheckAt`, `coalesceDueScheduledAt`, `isMonitorStale` | scheduler, API |
| Network guard `apps/worker/src/network-guard.ts` | observer row, outages, observations, cached snapshot | `poll`, `inspect`, `assess`, `summarize` | database, reference URLs, check processor |
| Destination limiter `packages/monitoring/src/destination-limiter.ts` | Redis sorted sets and counters | acquire, release | Redis, called by the HTTP checker |
| HTTP checker `packages/monitoring/src/{checker,transport,url-policy}.ts` | one check's URL, redirects, lease and timer | resolve, acquire, request, follow, read, release, clean up | limiter, DNS, the target |
| Accounts and sessions `apps/api/src/{accounts,auth}` | `accounts`, `login_sessions` | create, update, remove, log in and out, revoke | database |
| Retention `packages/database/src/retention-*.ts` | none of its own | redact secrets, delete old rows, in bounded batches | database |
| Process health `apps/{worker,scheduler}/src/{health,index}.ts` | process status, last poll, failure counter | start, poll, job, `/health`, shutdown | container health check |
| API read side, web console, schema and bootstrap | none that others write | queries, views, migrations, first administrator | - |

How they interact:

* The database is the source of truth, BullMQ only a delivery mechanism: the id
  of a job is the id of the row it is for, jobs have `attempts: 1`, and every
  consumer re-reads the row and claims it with a conditional update. A row whose
  job has been lost is found again by its expired lease.
* The API and the check processor lock the monitor's row before they write
  health, incidents or the status of its checks. The scheduler locks the rows it
  selects with `FOR UPDATE SKIP LOCKED`. **Nothing locks the channel, its
  bindings or the outbox rows against the monitor's transactions**, which is
  where most of the outbox's difficulty lies.
* A worker knows the lease it wrote, not whether it still holds it; what it
  writes after the request is guarded by what the row says by then.

What is hard: two schedulers and several worker slots race for one row; a
process stops between any two statements; Redis forgets or repeats a job; a
lease runs out while the request is still on the wire; an administrator pauses,
reconfigures or removes the monitor in between; a Telegram call is confirmed
after its row was given to somebody else, or nobody learns whether it was
delivered; DOWN and RECOVERY must keep their order although they are
independent jobs; a destination must be wiped as soon as, and not before,
nothing needs it. `PROJECT.json` lists each such hazard at its line.

What makes each component correct:

* *Health*: PENDING, UP, SUSPECT, DOWN and RECOVERING depend on the target
  outcomes since the last reset and on nothing else; OPEN and RESOLVE alternate.
* *Ledger*: one active check per monitor, for its present configuration; each
  row decided once, together with its result; no two fresh leases on one row;
  health and incident never part; every row is decided.
* *Outbox*: RECOVERY only after a confirmed DOWN, RESOLVED_SUMMARY only in place
  of a DOWN never sent, a confirmed attempt is never overruled, one attempt on
  record under way, attempts bounded, a DOWN to be sent has its destination,
  every event settles.
* *Schedule*: a check's slot is the latest that is due, the next one the first
  that is not, on one grid without drift; a slot the unique key refuses blocks
  the scheduler for less than an interval.
* *URL checks*: no host or address sees more requests than allowed, every open
  request has a live slot, every slot comes back, and a fault of the limiter
  never counts for or against a target.
* *Network guard*: one unresolved outage per PC, and the observer names it; a
  target failure counts only on evidence of connectivity gathered after it; the
  summary of an outage comes, once, and is complete.
* *Accounts*: an active administrator remains; a session is worth no more than
  the password and the account it was started with.
* *Retention*: no row loses its parent or its attempts early, no secret goes
  that a recovery needs, and everything that is due goes in the end.
* *Process*: a stopping process starts nothing, a hung poll is reported and does
  not keep it from stopping, and 200 is true when it is given.

## 2. Modules

| module | models | extends |
|---|---|---|
| `HealthMachine` | `applyCheckResult` as operators: `AfterSuccess`, `AfterFailure`, `ApplyOutcome`, `EffectOf` | - |
| `HealthHistory` | the same driven by every sequence of results and resets, beside a definition that reads health off the history | HealthMachine |
| `HealthHistoryProofs` | the theorems about it | HealthHistory, TLAPS |
| `CheckLedger` | scheduler, BullMQ check queue, check processor and monitor administration around `scheduled_checks` | HealthMachine |
| `MonitorContract` | what that pipeline promises: no queue, lease or ledger | HealthMachine |
| `CheckLedgerRefinement` | the mapping: a check is outstanding while a row is active | CheckLedger, instance of MonitorContract |
| `CheckLedgerProofs` | the theorems about the pipeline, the refinement included | CheckLedgerRefinement, TLAPS |
| `NotificationOutbox` | one incident on one channel: the events, the dispatcher, the processors, the API's and the persisting check's writes | - |
| `NotificationContract` | what the outbox promises the reader of one channel: no queue, lease, attempt or worker | - |
| `NotificationRefinement` | the mapping: an event is open while its row waits, tried once it has an attempt | NotificationOutbox, instance of NotificationContract |
| `NotificationOutboxProofs` | the theorems about the outbox, the refinement included | NotificationRefinement, TLAPS |
| `ScheduleSlots` | `scheduling.ts` as functions of integers, and every writer of `next_check_at` | - |
| `DestinationLimiter` | the two Redis scripts and commands that are late, lost or repeated | - |
| `HttpChecker` | checks that follow redirects, each hop under a slot | DestinationLimiter |
| `NetworkGuard` | probes, observer, outages, observations, held-back checks, summaries | - |
| `Accounts` | accounts, sessions, requests and their transactions | - |
| `Retention` | the daily command beside the writers of the rows it handles | - |
| `ProcessLifecycle` | a worker process and its `/health` | - |
| `HttpCheckerProofs`, `NetworkGuardProofs`, `AccountsProofs`, `RetentionProofs` | the theorems about the module of that name | that module, TLAPS |
| `MCServices` | the seven from `ScheduleSlots` to `ProcessLifecycle`, one at a time: `part` says which one a behaviour is about, the others rest in their initial state | all of them |
| `ServicesProofs` | the theorems about schedule, process and the composition | MCServices, the four modules of proofs above |
| `MC*` | constants and symmetry for TLC | - |

### CheckLedger

Variables are columns (`status`, `lease`, `owner`, `checkVersion`, `health`,
`incident`, ...), the state of the BullMQ job with the row's id (`job`) and the
program counters of schedulers (`spc`) and worker slots (`wpc`). Times are
compared with the clock, so a lease is NONE, LIVE or EXPIRED and
`next_check_at` is NONE, FUTURE or DUE.

One action is one database statement or one transaction:

* API transactions lock the monitor's row first and read after it: one action
  each, with everything `cancelRuntime` does in it.
* `createDueChecks` handles many monitors in one transaction; row locks and
  `SKIP LOCKED` make the monitors independent, so it is one action per monitor.
* `findDispatchCandidates` is an unlocked read, but `claimForDispatch` repeats
  its condition, so the two are one action. The claim, each queue call and the
  closing update are separate actions.
* `process` first reads the row outside any transaction (`ReadCheck`), and acts
  on that read later: `CancelStale` or `ClaimCheck` are separate actions.
* `persist` runs under READ COMMITTED and holds the lock of the monitor's row.
  Another worker's or scheduler's claim may commit between its read and its
  update of the check row. Such a claim only exchanges one active status for
  another, and COMPLETED overwrites both, so persist is one action.
  A second result is stopped by the unique key, `PersistDuplicate`.
* All slots of a worker process share one lease owner in the code; no guard of
  a worker reads the owner, so the model gives each slot its own name in order
  to say who holds a lease.

The request itself is the choice of an outcome in `PersistResult`: success,
failure of the target, or an outcome that counts for nothing (an internal
error, or INCONCLUSIVE while the network guard sees an outage; the guard's own
bookkeeping is not modelled, its effect of pulling `next_check_at` forward is
within `CheckFallsDue`).

### NotificationOutbox

One incident and one channel: the unique key over incident, channel and
sequence makes rows of other incidents and channels independent. Row 1 is DOWN,
row 2 RECOVERY or RESOLVED_SUMMARY. `ready` is `available_at <= now`, `secret`
says that the row still holds its destination and not the tombstone, `withheld`
that `last_error_safe` is DOWN_NOT_DELIVERED, `delivery` is one status per
attempt, and `accepted` is a history variable: the events of which Telegram has
really taken a message.

* The persisting check reads bindings and DOWN rows without locks and writes
  later. `StartOpen` and `StartResolve` are the reads, `OpenIncident` and
  `ResolveIncident` the writes; anything may happen in between. Only the
  replacement of an unsent DOWN is conditional on the row as it is by then.
* `markSent` takes the row's lock before its snapshot: one action, with the late
  creation or revival of RECOVERY and the disposal of the destination in it.
* The dispatcher's candidate page, its look at the DOWN row and each of its
  updates are separate actions; every update repeats `availableForDispatch` and
  nothing else. The queue calls of `ensureNotificationJob` are one action here;
  `CheckLedger` has the same calls in single steps.
* `claim` is one transaction with the row and its DOWN locked. Its test that
  DOWN is SENT is defensive: the dispatcher never enqueues RECOVERY earlier.
* A Telegram call ends confirmed (taken), refused (not taken), timed out or with
  a broken connection (taken or not: nobody knows).
* Disabling or deleting a channel is one action. Its statements could interleave
  with a claim only to leave a delivery record in ATTEMPTING.
* Delivery is at least once, and `ConfirmedAttemptWins` claims precedence of a
  confirmation for DOWN only: with several dispatchers a RECOVERY of which an
  attempt was confirmed late can be withheld and revived, and is then sent again.
* The API only creates bindings with `notifyOnRecovery`, so it is not a variable.

`NotificationContract` keeps of all this what the reader of the channel can tell:
the incident, the two events with their kinds, which of them were tried, and which
messages were taken. `NotificationRefinement` maps PENDING, ENQUEUED, PROCESSING and
RETRY_WAIT to one state OPEN, and a row that was canceled for want of its DOWN to
WITHHELD, the one ended state that can be left again. Two steps of the contract
are as loose as they are because of the code. `Withhold` asks that DOWN be settled
and not that it be unsent: the dispatcher withholds on the strength of an unlocked
read, and a late confirmation may come in between (outbox-dispatcher.ts:117-138).
`Confirm` may create or revive RECOVERY only once the incident is RESOLVED, as
`markSent` does.

### ScheduleSlots

Time is an integer, a tick being one unit of the database's clock, and a check
is its slot. `used` are the `scheduled_at` of the present configuration, which
`scheduled_checks_schedule_key` makes unique. `createDueChecks` is one transaction
for all due monitors, so `CreateDueChecks` is one action that a single refused
slot disables. `PullForward` is the network guard's request for a recheck; the
instant it writes may be a tick older than its commit. `DashboardStale` and
`ListedAsStale` are the two places of the API that decide who is stale, the
second after a filter in the database.

### DestinationLimiter and HttpChecker

A script is atomic in Redis. What is not is the client's view: `wire` holds the
commands sent, and Redis executes one, answered or not, executes it and gets it
again after a reconnect, or never sees it, also after its client gave up. A
token is the acquisition of one check at one hop. The key's own PEXPIRE is a
second longer than the last lease in it and changes nothing.

`HttpChecker` has one program counter per check: `resolve`, `acquire`, `request`,
`body`, and three places where a slot is given back (`release_hop` before a
redirect is followed, `release_end`, `cleanup` in the catch block). DNS, TLS,
headers, decompression and the keyword search are choices among the outcomes
they can have. `visited` holds URLs; the code compares the cookie as well, so a
visited URL may or may not be a loop. The overall timer covers `Timed`; the
release at a hop is not aborted by it but has the command's own timeout.

### NetworkGuard

`BeginRecording` is the end of the probe and the first query of the recording
transaction, which takes the snapshot: settings, and the observer as `probe`
remembers it. `Record` is everything after `SELECT ... FOR UPDATE`. Between the
two another worker may commit, which `overlapped` remembers; an outage the code
would create twice is created twice. `inspect` joins the probe in flight, uses
a snapshot that is fresh, or begins a probe; a forced one does not use the
snapshot. A failed check goes through `await_first`, `retry` and
`await_confirm`. `netCheck.row` is the status of its ledger row under its own
claim: `Redispatch` makes it PENDING while the first processor is still at work
(the ENQUEUED that follows is not told apart). `grounds` remembers whether the
evidence a target failure was counted on is younger than the failure.

### Accounts

A request is authorised once (`Authorise`), its transaction reads later
(`BeginChange`) and writes later still (`CommitUpdate`, `CommitRemove`): what it
decided on is its snapshot, what it writes over is the row as it is now.
`collided` remembers that two such transactions overlapped. A login is
`VerifyPassword` and `StartSession`; `raced` marks one whose account's sessions
were revoked in between.

### Retention

A row is open, ended one way or another, or gone; `old` says that its stamp is
before the cutoff of now, and a run keeps the cutoff of its start. The table of
a row and its foreign key are constants. The steps are those of
`RETENTION_REDACTION_STEPS` and `RETENTION_STEPS`: redaction of deleted channels
and monitors (one kind here, they are redacted alike) and of ended
notifications, then deletion, child before parent. A batch takes at most
`BatchSize` rows, skips the locked ones, and is one transaction. Close and
SettleNotification may leave the secret, as releases without tombstones did: the
command repairs what they left. The writers are those of the other modules,
with what matters to the command kept.

What the tables guarantee is `RetentionAssumption`: which tables refer to which
(`ForeignKeys`), that an attempt has a notification and a RECOVERY an incident
(`WithParent`), and that a channel gets one DOWN for an incident (`OneDown`).
`ConfirmLate` is `markSent` for an attempt whose DOWN had already counted as
failed: it revives a RECOVERY that was withheld, creates one that the resolution
had left out, and retires the secret of the DOWN unless its incident is open. A
revived row has no stamp any more, so it leaves `old`, and leaves the cutoff of
the run, whose statements compare the stamp the row has when they run. The
dispatcher's read of a FAILED DOWN and its cancellation of the RECOVERY are one
step here; `NotificationOutbox` takes them apart.

### ProcessLifecycle

Ages are counted in ticks up to `LongAgo`. A poll rests, is due by its timer, is
busy, or hangs. `BeginInspection` is what `inspect` reads before it awaits its
probes, `Answer` what it reads and says after. Listening and becoming `running`
are one action. The scheduler's process has one poll, no jobs, no guard, and an
inspection that awaits nothing.

## 3. Runs

`CHECK_DEADLOCK FALSE` appears where the model may really stop: check ids,
incident and administrative changes of an instance are used up, and a deleted
monitor without work is at rest.

| run | instance | question |
|---|---|---|
| `health_history` | thresholds 3 and 2, histories up to 9 | Do two counters compute what the whole history calls for? Nine results hold two failure runs with a recovery between them and a run cut short. |
| `ledger_workers` | 1 monitor, 2 checks, 1 scheduler, 2 workers, 2 versions, 1 fault | Is each row decided once and finally, with its result, under one fresh lease, and is the whole pipeline `MonitorContract` one step at a time? |
| `ledger_schedulers` | 2 schedulers, 1 worker, recovery threshold 2 | At most one active row per monitor, always for its present configuration; health and incident agree, and a monitor at rest is PENDING with empty streaks (`HealthAgrees`). |
| `ledger_live` | 1 check, 2 workers, 2 faults, fairness | Is a created check decided although two faults strike anywhere? |
| `ledger_overlap` | no fault | Violated, see section 6. |
| `outbox_events` | 1 dispatcher, 2 processors, 1 attempt per row, 2 changes, 1 fault | Is the outbox `NotificationContract` one step at a time? Attempts bounded, precedence of confirmations, replacement of an unsent DOWN, disposal of the destination of DOWN. |
| `outbox_faults` | 2 dispatchers, 2 processors, 2 attempts per row, no change, 1 fault | Order of messages, attempts that are taken over, exclusive leases. |
| `outbox_live` | 1 processor, 2 attempts, 1 fault, fairness | Does every event settle? |
| `outbox_secret`, `outbox_binding` | no fault, 3 and 1 changes | Violated, see section 6. |
| `services` | see below, fairness | The properties of the seven modules around pipeline and outbox, one module at a time. |
| `accounts` | 2 accounts, 1 session, 2 requests | Violated, see section 6. |

Why the bounds are enough to be interesting. Two checks are a row that is
decided and its successor, which is all that can meet, as one row at a time is
active. Two workers give a late and a present holder of the row. Two versions
give an old and a new configuration. Two attempts give a late and a present
attempt, and an exhausted row. One fault on top of free lease expiry (expiry is
not a fault, it may happen at any moment) gives an abandoned claim, a lost job
or a failed write in every state. Two
administrative changes give a channel disabled and enabled or a monitor paused
and resumed around an event; two dispatchers a page that somebody else has
already worked on.
One attempt is enough where the question is how an event ends: with
two processors the attempt is still late when its lease has run out and the row
has counted as failed. `outbox_faults` needs two, for one that is taken over; after
its fault the two dispatchers take turns (`InTurnsAfterFault` in
`MCNotificationOutbox`), which keeps it to a million states. The monitor's threads are
independent, so one monitor is checked; the proofs are for any number.

`services` begins in one of eight parts, and only the component of that part
moves; a property of another component holds there as it does in its initial
state. The bounds of each part, in `MCServices`:

* *slots*: 1 monitor, intervals 2 and 3 with jitter 1, clock up to 7, stale
  grace 5 (between the doubled intervals, so each term of the maximum decides
  once): a slot, sleeps of several intervals, a pause, a changed
  interval and immediate rechecks onto used slots.
* *http*: 2 checks for two URLs, one host and one address of which one is
  shared, one of the two follows one redirect; 1 slot and 1 count per window,
  lease 2, timeout 1 (a lease outlives the overall timeout, as in the code):
  contention, expiry under a lost release, and every point of failure.
* *pair*, *checks*, *edits*: the network guard with three recording workers, up
  to two outages and a standing clock; with one worker, the clock and the checks
  of one monitor (the last instant is kept for what follows a recovery); and
  with a change of settings and a new configuration of the monitor.
* *accounts*: 2 people, 1 session, 2 requests, of which the second demotes the
  first administrator; 2 passwords.
* *retention*: 8 rows, one of each kind; batches of 1, one batch per step, 1
  fault. Either an incident with an attempt is handled by runs that are killed or
  skip rows, or recoveries are switched off and on or confirmed late, or the
  other tables are handled.
* *process*: 1 job slot, freshness and stale limits of 2 ticks, probes of 1, a
  failure threshold of 2.

Symmetry is used in the safety runs only: for check ids, schedulers and workers
of the ledger, none of which any property or action tells apart, and for
processors and dispatchers of the outbox.

### Fairness

* A row that keeps becoming available is claimed (strong fairness of the claim
  or scan of each row): both dispatchers poll for ever, take rows in order of
  their due time and skip those in other hands.
* A job that keeps waiting is taken by a slot (strong fairness of `TakeJob`).
* A process that is inside a job, a tick or a page goes on (weak fairness of its
  program): every call has a timeout, and crashes are separate, bounded actions.
* The clock passes each lease and each `available_at` (weak fairness).
* BullMQ's stalled-job sweep runs while a worker is up (weak fairness).
* The persisting transaction ends (weak fairness); nothing is assumed about
  administrators, outcomes of requests, or that an incident is ever resolved.

* `HttpFairness`: lookups, commands and requests have timeouts, Redis or the end
  of the connection disposes of every command, clocks run. Nothing says that
  the target or Redis answers.
* `NetFairness`: probes end or fail, checks go on, the lease of a dropped check
  runs out and it is claimed again, the poll loop returns to its summaries.
* `RetentionFairness`: the timer calls the command again and again, and a
  command that is not killed goes on.
* `LifeFairness`: time passes, `/health` is asked again and again, jobs and the
  guard's poll have timeouts, a shutdown goes on. An outbox poll may hang.

In `services` the fairness of a component that rests asks nothing, as none of
its fair steps is possible in its initial state. The liveness properties there
are of the form `[]<>`: what they forbid is an obligation that stays open for
ever.

Faults are bounded because a system that crashes for ever settles nothing.

## 4. Proofs

### CheckLedger

TLAPS proves, for any sets of monitors, checks, schedulers and workers, any
thresholds and any bound on faults, under the named assumptions of the modules:

* `Invariance`: `Spec => []IInv`. `OneActiveCheck`, `ResultWithCompletion` and
  `IncidentMatchesHealth` lean on `ActiveCheckIsCurrent` (so that an
  administrative change finds every active row, and a valid result meets the
  version of its incident) and all of them on `References` (whoever names a row
  names one that exists). `LeaseExclusive` is not inductive: it needs
  `FreshHoldsLease`, that a worker inside its lease still owns the row as RUNNING
  under a live lease unless the row has been decided, so that nobody else can
  claim it. `IInv` joins them. The step is proved per group of actions, type
  part (`...Type`) and safety part (`...Safe`) apart.
* From it `TypeCorrect`, `UniqueActiveCheck`, `ActiveRowsAreCurrent`,
  `ResultsMatchRows`, `HealthAndIncidentAgree`, `LeasesExclude`, and the action
  property `DecisionsFinal`.
* `EffectMatchesHealth`: OPEN is returned exactly when health enters
  DOWN/RECOVERING and RESOLVE exactly when it leaves them, for all thresholds.
* `PipelineImplementsContract`: `Spec` implies `MonitorContract` under the
  mapping. The proof shows which action is which contract step: creation is
  Schedule, a valid persist or an effective cancelStale is Decide, an API
  transaction is itself, and everything else stutters. It needs `RestingHealth`
  (a monitor that is not ACTIVE is PENDING with empty streaks), as create and
  resume write health again and the contract leaves it alone. That half of
  `HealthAgrees` is read off the contract (`RestsPending`), the other half off
  `IInv` (`IncidentFollows`); `HealthAndIncidentAgree` joins them.

### NotificationOutbox

For any sets of dispatchers and processors, any number of attempts and any
bounds on changes and faults, under `OutboxAssumption`: `TypeCorrect`,
`RecoveryFollowsDown`, `SummariesReplace`, `ConfirmedWins`, `OneUnderWay`,
`SendersExclude` and `DownKeepsSecret`, one for every safety invariant of
`outbox_events` and `outbox_faults`; what a run leaves out of its instance for
want of memory and time (changes beside two dispatchers, a second attempt beside
changes and faults) is within these, and within the refinement below. The
seven together are not inductive. `IInv` adds

* `References`: the rows follow the incident (no DOWN before it opens, nothing
  in row 2 before it is resolved), a row that does not exist has no job, attempt
  or reader, an accepted message was attempted, and a processor at work holds an
  attempt that its row has counted and that is not confirmed yet;
* `AttemptsDiffer`: no two processors hold the same attempt, so a late answer is
  written to the record of its own attempt only;
* `FreshHoldsLease`: a processor inside its lease owns the row in PROCESSING
  under a live lease, unless the event has ended; and then not as a withheld
  RECOVERY, the one ended row that comes back to life (a late confirmation of
  DOWN revives it). Without that clause a revived RECOVERY could be claimed
  beside a processor that still holds it;
* `SettledStays`: a DOWN that the resolving transaction read as settled is
  settled when it writes, which is why retiring its destination on the strength
  of an unlocked read is harmless for DOWN.

Most steps are *quiet* (`QuietMove`): they end, requeue, lease or cancel rows,
take no row from a live holder, and open or confirm no attempt. `QuietMoveSafe`
shows once that a quiet step keeps `IInv`; a `...Quiet` lemma per group of
actions shows that its steps are quiet. Five actions are not, and each has a
`...Safe` lemma: `OpenIncident`, `ResolveIncident`, `ClaimEvent`, `Send`,
`MarkSent`. The lemmas at the head of the module say what each operation on a
row sets and leaves.

`OutboxImplementsContract`: `Spec` implies `NotificationContract` under the
mapping. A lemma `...Implements` per action or group of actions shows which step of
the contract it is: the persisting transaction is OpenIncident or ResolveIncident,
a change of channel or monitor is Withdraw, a claim is Try (Drop when the channel
turns out disabled, GiveUp when the attempts are used up), a message Telegram takes is Receive, `markSent` is Confirm, the
last failed attempt is GiveUp, the dispatcher's cancellations are Withhold or Drop, and
leases, queue calls, jobs, retries and crashes stutter. `IInv` alone does not
justify the mapping, which looks at columns no safety property mentions.
`RefinementInv` adds what it needs of them: only a RECOVERY that no longer waits is
marked withheld, a row in PROCESSING was attempted, a RECOVERY has a DOWN beside it,
and a dispatcher that has made up its mind to withhold has before it a RECOVERY
whose DOWN is settled. The last is about a read that may be stale, and is stable
because a settled DOWN never waits again. Its proof goes through the contract: once a
step is known to be a step of the contract, `ContractKeeps` says what such a step
leaves alone (kinds that stay, events that do not come back), and the clauses
about rows follow. `WithheldIsSettled` states it as a theorem.

`ContractKeepsOrder` proves of the contract alone that no RECOVERY is accepted
without the DOWN it ends and no DOWN where a summary stands in for it;
`ReadersSeeInOrder` carries it to the outbox by the refinement.

### HealthHistory

For every pair of thresholds and every history (`MaxHistory` bounds the histories
that are compared, and may be any number): `CountersTellHistory` and
`EffectsTellHistory`. The two properties compare the counters with the whole
history and say nothing of how one leads to the other, so they are not inductive.
`IInv` adds that each counter is the length of the streak that the history ends
in (`Streak`, with the result before the streak when there is one) and that
`LastFailureRun` and `LastRecoveryRun` really are the last runs (`IsLastRun`),
which spares the proof any induction over the history: one more result either
ends a run at its own position, exactly when the streak has reached the threshold
(`RunGoesOn`), or leaves the last run where it was (`RunStays`).

### ScheduleSlots, ProcessLifecycle and the composition

For any monitors, intervals, jitters, graces and clock: `RefusedSlotHeals`,
`StaleViewsCorrect` and the action property `LatestSlotIsCreated`. They rest on
integer facts about `coalesceDueScheduledAt` and `calculateNextCheckAt`
(`CoalescedSlot`: due, less than an interval old, on the grid; `SlotAfter`: the
next slot is the one right after it) and on the order of multiples.

For any limits and concurrency: `StaysQuiet` and the action property
`HealthyAnswerIsCurrent`. The invariant adds `StopComesFirst`, that the stop flag
is set before anything else of a shutdown, and `InspectionIsTimely`, that what an
open `/health` request has read of the poll is no older than the request.

`ServicesCompose`: the specification of `MCServices` implies that of each of its
components but the fairness, whatever part a behaviour begins in. So every theorem
of a component holds in the composition, and `ServicesTypeCorrect` is the type
invariant of all of them together, from the type theorem of each.

### HttpChecker

For any checks, URLs, hosts, limits, windows and numbers of redirects:
`LimitIsKept`, `LimiterFaultIsNeutral`, `CountedResultIsReleased`. The argument
for the limit goes through slots: Redis never holds more live slots of a subject
than allowed (`MembersWithinLimit`), and every open request has a live slot with
the subjects of its URL, because the lease outlives the overall timeout that began
no later than it (`SlotOutlives`: what is left of the lease plus the elapsed time
is at least the lease). The requests of a subject then inject into its slots. That
nobody else's late command takes or frees a slot is `WireMatches`: a command on
the wire names a check and a hop, is no later than the hop the check is at, and a
RELEASE of the present hop is there only when its request is over. `GivenBack` says
that slots of hops that are over are free *for good*, no ACQUIRE being under way,
unless the limiter has failed.

### NetworkGuard

For any workers, monitors, outages, settings and clock: `OutageIsActive`,
`EvidenceIsFresh` and the action property `SummaryStaysFinal`.

* `RecordersAgree`: unless transactions overlapped, every one in progress has
  read the observer as it still is. So a probe opens an outage only when none is
  open and ends the one that is.
* `EvidenceIsNew`: a check that was told to retry failed before the probe that
  its worker runs began, or, when that one records already, before it answered.
  The cached snapshot needs no clause: a retried check forces a new probe. This is
  why joining a probe in flight is harmless at the second attempt only.
* `SummariesOrdered`: an outage is summarised only when it is over, and no check
  that still runs from before its end is left then; later claims are later.

### Accounts

For any people, sessions, requests and passwords: `AdministratorStays` and
`SessionsMatch`. `DecisionsStand` says that a decision not yet written still rests
on the account as it is unless changes overlapped, and in particular that another
active administrator is left if it unseats one; `LoginsMatch` says of a login that
is still making its session what the property says of live ones.

### Retention

For any rows and foreign keys that satisfy `RetentionAssumption`, any batch size,
crashes and changes of the binding: `HistoryStaysWhole` and `RecoveryKeepsSecret`.
`CutoffStaysOld` is needed because a run compares with the cutoff of its start
while rows are reopened; `RecoveryWaitsForDown` because a RECOVERY that is revived
must not have attempts that an earlier batch has taken away; `DownKeepsSecret`
because a RECOVERY gets its secret from its DOWN when the incident is resolved.

### What stays with TLC

Liveness and everything under fairness, which the prover cannot reason about:
`WF_`, `SF_` and `ENABLED` are outside its reach. Every invariant, every action property
and both refinements of the passing runs are theorems.

## 5. Not modelled

* *Immediate and test checks* of the API: they append a `check_results` row and an
  audit entry, and touch neither health nor the ledger. *Test messages* of a
  channel are sent directly and likewise touch no event.
* *Web console*: views and forms over the API, with no state others write. *API
  read side*: queries, but for the two computations of stale monitors.
* *Inside a URL check*: DNS answers, address policy, TLS, header limits,
  decompression, keyword search and the probing of reference addresses appear as
  the outcomes they can have.
* *Schema, migrations and bootstrap* beyond the keys and the first administrator.
* Start-up and shutdown of the API process; configuration parsing; logging.
* `NETWORK_RECOVERY` events once they are written: they have no order to keep, and
  the outbox handles them as it handles DOWN.
* In the outbox: the wording of messages, rate-limit delays beyond "not ready
  yet", deletion of old rows, channel credentials, and several incidents of one
  monitor at a time.

## 6. Where code and documents disagree

* `ledger_overlap`: PROJECT_PLAN.md:289 says checks of one monitor do not
  overlap. Pausing cancels the row of a running check at once, so after a resume
  the next check starts while the first request is still within its lease. The
  result of the first is recorded but moves nothing (`ImplementsContract`).
* `outbox_secret`: docs/OPERATIONS.md:196-198 says a destination is kept while a
  recovery needs it. Disabling a channel retires the destination of the SENT
  DOWN of an open incident; enabled and bound again, the channel gets a RECOVERY
  that cannot be decrypted.
* `outbox_binding`: PROJECT_PLAN.md:383 says a change of bindings counts from the
  next incident. The resolution looks at the bindings of the moment, so a
  removed binding suppresses the RECOVERY of a confirmed DOWN.
* `accounts`: accounts.service.ts:191 and :243 refuse to lose the last active
  administrator. The count and the change are not serialised, so two overlapping
  requests of (or against) two administrators leave none, and the bootstrap
  script makes a new one only for an empty table. `LastAdministratorStays` shows
  that nothing but such an overlap does it.

Met while modelling, and visible as exceptions of properties that hold:

* `overlapped` in `UnresolvedOutageIsActive`: network-guard.ts:107 says workers
  of one PC are serialised. The row lock does that, but the observer is read from
  the snapshot of the transaction's first query, which precedes the lock; two
  workers that find the references OFFLINE at once open two outages, and the
  first stays unresolved.
* `late` in `RecoveryHasSecret`: a DOWN that FAILED has lost its destination; a
  late confirmation (notification-processor.ts:307) makes it the SENT DOWN of an
  open incident all the same. `OpenEventHasSecret` is about the same loss.
* retention-plan.ts:190 deletes a SENT DOWN older than the history cutoff also
  while its incident is open, against docs/OPERATIONS.md:196-198. No RECOVERY is
  created then, so no property of a RECOVERY sees it.

## 7. Plan

Done: 1 `HealthMachine`/`HealthHistory`; 2 `CheckLedger`; 3 `MonitorContract` and
the refinement; 4 proofs of both; 5 `NotificationOutbox`; 6
`NotificationOutboxProofs`; 7 `ScheduleSlots`; 8 `DestinationLimiter` and
`HttpChecker`; 9 `NetworkGuard`; 10 `Accounts`; 11 `Retention`; 12
`ProcessLifecycle`; 13 `MCServices`; 14 proofs about all of these; 15
`NotificationContract`, and `NotificationOutbox` shown to implement it; 16 the
composition's own theorems.

Left: splitting the update of bindings at its unlocked count of channels
(monitors.service.ts:126): a binding left at a disabled channel creates no event and
counts again when the channel is enabled; several incidents of one monitor at a
time; and the Telegram adapter's rate limits beyond "not ready yet".
