# CronHive: a TLA+ verification project

CronHive fires HTTP callbacks on cron schedules. Three kinds of processes (API,
scheduler, worker), each replicated, share PostgreSQL and Redis and nothing else.
This directory models the parts of that system whose correctness depends on the order
of steps, checks them with TLC on small instances, and proves every safety property
those runs check with TLAPS, for every instance.

## 1. Inventory

| component | state it keeps | operations | meets others through |
|---|---|---|---|
| scan tick (`scheduler.ts`) | none between ticks; a job snapshot within one | read jobs, per job: lock, insert, add, release | job table, Execution table, lock keys, execution queue |
| manual trigger (`routes/jobs.router.ts`) | none | lookup, lock, insert, add, release on error | the same |
| job lock (`lib/lock.ts`) | `lock:job:<id>:<slot>` with TTL and owner token | SET NX EX, compare-and-delete | tick, trigger |
| execution store (`services/execution.service.ts`, `schema.prisma`) | Execution rows, unique (jobId, scheduledFor), cascade | insert, status updates | tick, trigger, worker, API delete |
| job API and cache (`services/job.service.ts`, `lib/job-cache.ts`) | Job rows; `job:config:<id>` with EX 3600 | create, update, pause, delete, bulk enable | tick reads the table, worker reads the copy |
| worker (`worker.ts`, `services/callback.service.ts`) | none between attempts | look up, mark, call back, record, dead-letter | BullMQ, both tables, the copy |
| circuit breaker (`worker.ts`) | `consecutiveDeadCount`, `enabled` | increment and disable, reset | job table |
| queues (`lib/queues.ts`, BullMQ) | waiting, active, delayed, finished jobs; dead-letter queue | add, deliver, retry, stall | tick, trigger, worker |
| leader election (`lib/leader.ts`) | lease key with TTL; per node a flag and a timer | campaign, renew, stop | decides which replica ticks |
| cron window (`lib/cron-utils.ts`), lock TTL (`lib/lock-ttl.ts`) | none | pure functions of time and policy | tick, trigger |
| execution API (`routes/jobs.router.ts`, `services/execution.service.ts`) | none | list page by page, statistics | Execution rows |
| dashboard (`frontend/src`) | job list, `loading`, `busyId`, error, form | load, act on a job, create a job | API |
| events, sockets | last 50 events in the browser | publish, forward, show | worker, API |
| auth, rate limit, URL check, config, metrics, logging, health | none of interest | | |

What is hard here: every `await` is a point where another replica, request or worker can
run; locks, leases, cache entries and BullMQ locks expire while their holder works; a
process can die between any two writes to two different stores; and the same slot,
execution or job is worked on by several processes at once. PROJECT.json lists these
places under `hazards`, each with the properties aimed at it.

What makes each component correct:

- tick, trigger, lock, store: a slot is queued at most once; what is queued has its row;
  a process never removes a lock that is not its own; a claim that was not queued leaves no lock;
  a claimed slot gets queued (true only without faults).
- job API and cache: the copy the worker trusts is the row, or absent, except after
  overlapping or interrupted requests, and then until a request completes alone.
- worker and breaker: callbacks stay within the attempts; DEAD comes after all attempts,
  with one dead letter (and with every fault no more dead letters than lost locks allow);
  SUCCESS and DEAD are final; every queued execution gets there; deleted and disabled jobs
  are not called; the breaker opens over consecutive dead executions (true only without faults).
- leader election: a scanning node has the lease; late commands hurt nobody else's lease;
  the lead is taken again in bounded time; stopping gives the lease up.
- cron window: no slot is skipped, whatever the phases of the replicas and the delays of a
  scan (not true of slots as close as scans, nor when a leader is lost).
- lock TTL: a manual run is over, all its attempts and backoffs included, when its lock is.
- execution API: a reader that follows the pages misses nothing; the counts add up, but for
  executions that were skipped because their job was disabled.
- dashboard: nothing waits for an answer that does not come; the last click decides; the
  table shows it; a form makes one job.

## 2. Modules

| module | models | status |
|---|---|---|
| `FireOnce` | the promise: a slot is closed once, fired at most once, after it was closed | done |
| `Scheduler` | tick, trigger, lock, Execution inserts, queue | done |
| `MCScheduler` | instance of Scheduler for TLC | done |
| `SchedulerProofs` | proofs about Scheduler: at most one fire per slot, the refinement of FireOnce, the locks | done |
| `JobConfig` | job table, cache, API requests | done |
| `JobConfigProofs` | proofs about JobConfig: when the copy is the row | done |
| `Worker` (extends `JobConfig`) | BullMQ as the worker sees it, processExecutionJob, dead letters, breaker | done |
| `MCWorker` | instance of Worker for TLC | done |
| `WorkerProofs` (extends `JobConfigProofs`) | proofs about Worker with every fault: budgets, deleted and disabled jobs | done |
| `WorkerCalmProofs` (extends `WorkerProofs`) | proofs about Worker when no call of a runner fails and no lock is lost: the breaker, dead letters, final states | done |
| `LeaderElection` | lease, heartbeats, commands under way, in discrete time | done |
| `LeaderElectionProofs` | proofs about LeaderElection: one leader, bounded failover, stopping | done |
| `CronWindow` | which scans see which slots: scan period, window, slow scans, losses of leaders, a job whose turn throws | done |
| `CronWindowProofs` | proofs about CronWindow: no slot is skipped | done |
| `ExecutionApi` | executions of a job in time: manual lock and its TTL, attempts and backoffs, pages and statistics | done |
| `MCExecutionApi` | instance of ExecutionApi for TLC | done |
| `ExecutionApiProofs` | proofs about ExecutionApi: the TTL covers the run, pages and counts | done |
| `Dashboard` | the page's table, buttons and form and their overlapping requests | done |
| `MCDashboard` | instance of Dashboard for TLC | done |
| `DashboardProofs` | proofs about Dashboard: its flags, the last click, one job per form | done |

### Scheduler

A *claimant* is one scan in flight or one trigger request in flight. Several scans stand
for several replicas or for overlapping scans of one replica (`setInterval` does not wait
for the previous one). Its `pc` names the await it is at: `scan` (in the loop over the
snapshot), `lock`, `create` (lock held, insert pending), `add` (row inserted, queue.add
pending), `dup` (P2002, release pending), `undo` (exception, release pending).

| action | code |
|---|---|
| `TickStart` | `run()`, `prisma.job.findMany`: the snapshot of enabled, unpaused jobs |
| `SkipJob` / `ClaimSlot` | not due or lock taken / lock acquired on (job, slot) |
| `TriggerRequest`, `TriggerLock` | the trigger's lookup with its 404/409 answers; its lock |
| `CreateExecution` | the insert: a row, or P2002, or a foreign key error because the job is gone |
| `EnqueueExecution` | `queue.add`; the lock stays |
| `ReleaseClaim` | release and continue (P2002), or release and rethrow |
| `CreateFails`, `EnqueueFails` | the call throws; its effect may have happened or not |
| `Crash` | the process dies or exits, or a Redis call outside the try throws |
| `ExpireLock` | a lock's TTL, at any moment |
| `CreateJob`, `UpdateJob`, `DeleteJob` | the API's and the breaker's writes |

The clock is left out on purpose: a tick may find a job due at any slot or none, and any
scan may start at any time. So nothing shown here rests on synchronised clocks, on the
scan window or on there being one leader. A lock token is the claimant's name: a
claimant holds one lock at a time and forgets its token when the claim ends.

Assumed of the libraries: an `add` that is reported as done stored one BullMQ job; one
that is reported as failed stored one or none. (A client that resends an executed add
after losing the answer would store two; see the hazards.)

### JobConfig and Worker

After its database write an API request owes Redis some DELs and then perhaps a SET of
the row it read back (`owesDel`, `owesSet`); all four writing operations have that shape.
`raced` is history: the jobs on which requests overlapped or died, until the copy expires
with no request under way, or a request begins with no other under way, which removes the
copy and sets it anew.

A *runner* is one concurrency slot of one worker process. Its `rpc` names the await:
`cache`, `db`, `row`, `run`, `call`, `success`, `reset`, `failed`, `dead`, `dlq`, `count`,
`open`, `announce`, `done`, `throw`. BullMQ's part is external: a job waits, is active
under the lock of one runner, is delayed for its backoff, completes or fails. `LoseLock`
takes the job from a runner, which, unless it also died, goes on and is refused at the
end. The Execution row exists as long as its job does (cascade). `calls`, `barred` and
`streak` are history variables; `streak` is the set of executions of a job that were counted
as dead since a SUCCESS of the job was last recorded, which is what "consecutive DEAD
executions" means, and is held against the counter the code keeps.

### LeaderElection

Time is counted in units. A node's commands travel in order on one connection; each is
executed by Redis and then answered, and its continuation runs when it is the oldest.
Heartbeats do not wait for answers, so several commands may be under way. With `Timely`
no command takes longer than `Delay` and no heartbeat is late; without it anything may
be late by any amount. `Exit` covers death and process exit: the lease, if held, stays,
and commands that had left the process are still executed, with a token nobody has any
more. `Start` is a new process with a new token, under a name whose last process has no
command under way (what is left of its lease then belongs to `Ghost`). `caught` is
history: the nodes whose `stop()` met an unanswered SET of theirs, or whose commands failed.

### CronWindow

Scheduler leaves open which slot a tick finds due; this module is about that choice.
`run(n)` is one firing of the scan timer, `Visit` a job's turn in the loop (in any order,
as `findMany` has no `orderBy`), `SlotComes` a slot of the schedule. cron-parser is
represented by what `dueFireSlot` uses of it: the latest slot strictly in the past. All
schedules with a least spacing are covered at once. Lock, insert and add are one step here
(`claimed`); their interleavings are Scheduler's. The leaders are the environment: any of
them may be lost at any time, also before the last loss was made good, and there may be none
for at most `Gap` after the last loss, which is `FailoverBounded` of LeaderElection. `calm`
is the time since the last loss; `Recovery` is the gap, a scan and the delay of a turn, the
time after which the next leader has looked at every job. With the election switched off
every node leads. A job in `Throwing`
is one whose lock Redis refuses: the API accepts `maxRetries` up to 50, and the TTL
computed from a large backoff is beyond what EX takes. That SET is outside the try block,
so the tick ends there.

### ExecutionApi

The executions of one job on a clock. `trigger` takes the lock for
`computeJobLockTtlSeconds`, which is translated with its rounding and with its loop as a
recursive function (`backoffSum`), and `Attempt`,
`AttemptEnds` and `Promote` are the attempts as BullMQ times them (external: the
exponential backoff). The job may be disabled and enabled at any time: an attempt that finds
it disabled (`AttemptSkipped`) returns, BullMQ completes it, and the row keeps its status.
`Schedule` is a row the scheduler inserts, over or skipped in the same step:
the list and the counts need its row, nothing needs its course. A new row takes any place
in the order of `triggeredAt`, as the clocks of several processes write it. The reader goes
through `GET /:id/executions` page by page, the two queries of `Promise.all` in either
order; the clock stands still while it reads. `getJobStats` is translated without its
window of days and its mean duration.

### Dashboard

A request is a handler of the page from its first await to its end (`sent`, `answered`,
`fetch`, `fetched`), and requests overtake each other. `handleAction`, `loadJobs` and
`handleSubmit` are split at their awaits; `actionDone`, `actionFailed`, `showJobs` and the
answers are the continuations with their catch and finally blocks. The switch `enabled`
stands for `paused` as well, which the page and the routes treat alike. `Outsider` is
another user or the breaker. `want`, `crossed`, `doubted`, `typed` and `origin` are history:
what the last click asked for, whether loads overlapped, and which drafts became which jobs.

## 3. Runs

| run | instance | shows |
|---|---|---|
| `scheduler_faults` | 1 job, 2 slots, 2 scans, 1 request, 2 rows, all faults | `TypeOK`, `NoDoubleEnqueue`, `QueuedHasRow`, `ClaimExclusive`, `OwnLockOnly`, `ImplementsFireOnce` |
| `scheduler_nofault` | the same without faults, fair | `LeftLockIsFired`, `ClaimedSlotFires` |
| `scheduler_lost_slot` | 1 scan, 1 slot, faults, fair | violates `ClaimedSlotFires` |
| `worker_faults` | 1 execution, 2 runners, 1 request at a time that may die, 2 attempts, breaker out of reach, all faults | `StaleOnlyAfterRace`, `WorkerTypeOK`, `CallbackBudget`, `DeadLetterBudget`, `DeletedJobNotCalled`, `DisabledJobNotCalled` |
| `worker_settles` | 3 executions, 1 runner, 1 request, 2 attempts, threshold 2, no faults, fair | `DeadAfterAllAttempts`, `DeadLetteredOnce`, `ExhaustedIsDeadLettered`, `SettledStays`, `BreakerHonest`, `Settles` |
| `worker_breaker_cache` | threshold 1, no faults | violates `DisabledJobNotCalled` |
| `leader_timely` | 2 nodes, lease 6, heartbeat 1, delay 2, errors | `LeaseTypeOK`, `LeaderHoldsLease`, `FailoverBounded`, `StopRelinquishes` |
| `leader_late` | 2 nodes, lease 2, heartbeat 1, anything late, fair | `LostLeadIsNoticed`, `OnlyHolderTouchesLease` |
| `cron_window` | 2 nodes, 1 job and 1 that throws, scan 3, slack 1, delay 1, gap 2, spacing 5 | `WindowTypeOK`, `NoSlotSkipped` |
| `cron_failover` | 2 nodes, 1 job, the defaults in units of 5 s: scan 12, slack 1, gap 3; spacing 60 | violates `EverySlotClaimed` |
| `execution_api` | 3 executions, timeout 1, 1 retry, backoff 2, buffer 1, 2 units to a second, pages of 2 | `ApiTypeOK`, `OneManualRun`, `PagingMissesNothing`, `StatsAddUp` |
| `dashboard` | 2 jobs, 1 draft, 2 requests | `DashboardTypeOK`, `NothingStuck`, `LastClickWins`, `TableShowsLastClick`, `NoDuplicateJob` |

The runs marked "violates" are disagreements between the code and what the repository
says of it; PROJECT.json quotes both sides under `findings`. In short:

- a crash between the insert and the add loses the slot;
- the breaker does not reach the worker's cache;
- the window covers a scan and 5 s, so that the loss of a leader at the default intervals
  loses slots: the next leader looks up to a gap and a scan later.

Four more disagreements have no run of their own; TLC finds each when the constants of a
run are changed as said:

- the breaker counts calls, not executions ("N consecutive DEAD executions"): one execution
  whose BullMQ lock was lost after it was counted is counted twice and opens a breaker with
  a threshold of two. `BreakerHonest` with `LocksLost` and 1 execution, 1 attempt;
- a success whose reset fails leaves the deaths before it on the count, and with one after it
  they open the breaker. `BreakerHonest` with `CallsFail` and 3 executions, 1 attempt;
- a query that throws uses the last attempt up, and the execution is given up without a dead
  letter ("dead-letters on exhaustion"). `ExhaustedIsDeadLettered` with `CallsFail`;
- a job that fires as often as the scans come loses the slot that falls between a turn that
  was early and one that was late, as only the latest slot is looked at ("prevents drift
  misses"). `NoSlotSkipped` with the constants of `cron_failover`, 1 node and `Spacing = 12`,
  a slot every minute.

The conditions that passing properties carry are needed, not convenient; each of the
following fails when its condition is dropped.

- `DeadLetteredOnce` needs `LocksLost = FALSE`: a stalled last attempt is run again,
  dead-lettered again and counted again. `DeadLetterBudget` says what is left with every
  fault.
- `ExhaustedIsDeadLettered` needs `CallsFail = FALSE`, as above.
- `BreakerHonest` needs both, as above. A death
  is dated by its count and a success by its row: while a success of the job still has its
  reset ahead of it, the property says nothing, as the counter is then behind the rows.
- `StaleOnlyAfterRace` excepts the jobs in `raced`. Overlapping requests can leave a copy for
  as long as an hour; the property says that no other request does, and that the next one
  that runs alone ends it. The breaker's write leaves the old copy behind as well
  (`worker_breaker_cache`); it is out of reach in `worker_faults`, and no part of JobConfig,
  whose specification the theorem is about. `worker_faults` runs JobConfig's actions as part
  of Worker.
- `Settles` excludes a request under way on the job: an execution queued between the
  database write and the cache refresh of the request that enables its job meets the old
  copy and is skipped.
- `LeftLockIsFired` needs `Crashes = FALSE`; failing calls do not break it.
- `LeaderHoldsLease` needs `Timely`: when renewals are late the lease passes on while the
  old leader still takes itself for the leader, so two replicas tick (which the theorems
  about Scheduler allow for).
- `StopRelinquishes` excepts the nodes in `caught`: a stop during an unanswered SET sees a
  node that does not lead yet, and the lease it then gets stays until it expires.
- `NoSlotSkipped` excepts the time until a loss of a leader has been recovered from
  (`Recovery`): in it slots are skipped at any intervals whose slack is less than the gap and
  the delay of a turn together, the defaults among them. What the README of the repository
  promises there is `EverySlotClaimed`, which `cron_failover` refutes. `NoSlotSkipped` needs
  Delay <= Slack, and slots further apart than Scan + Delay; both are sharp: delay 2 or spacing 4 is a counterexample.
  It also excepts the slots that are in the window together with a due job whose turn throws:
  the jobs behind that one do miss their turns.
- `StatsAddUp` excepts skipped executions: they stay PENDING and are not counted, or stay
  FAILED, for good.
- `OneManualRun` excepts runs that waited for a worker as long as the buffer;
  `PagingMissesNothing` a row inserted between a count and its page.
- `LastClickWins` makes no claim for a job while an action on another job set or cleared
  `busyId`, which holds one id: then two requests on one job can be under way, and the one
  executed last wins. `TableShowsLastClick` excepts overlapping loads, whose
  answers are shown in the order they arrive. `NoDuplicateJob` excepts a POST whose answer
  was lost and that the user sent again.

**Bounds.** A double fire needs two claimants and one slot; the second slot and the
trigger are there so that a lock or a row of one claim can be mistaken for another's. Two
rows are enough because a double fire is two rows of one slot. Jobs do not interact in
Scheduler except as entries of a snapshot, and the theorems hold for any number. In
Worker the executions of one job interact (counter, copy), so all belong to one job; two
attempts give a first, a retry and a last one. In `worker_faults` the threshold is out of
reach, as an open breaker is what `worker_breaker_cache` is about; two
requests at a time, which overlap, were checked apart with the same properties (1.2 million
states, too many for a run beside the others), and the theorems hold for any number. The three executions of `worker_settles` are two deaths and a
success among them; its one runner takes them in any order and not at once, so that a count
never meets a reset of another runner there: three executions with two runners were checked
for `BreakerHonest` apart, with symmetry, which a liveness property does not admit, and the
theorem holds for any number. A lock may be lost once and tried again
(`MaxStalls = 1`, BullMQ's default), then once more, finally. In LeaderElection a delay of
two heartbeats lets three commands of one node be under way; `MaxCmds` is larger than
that. `leader_late` has `Delay = 0`, which means nothing where everything may be late. The
condition 2 * Delay + Heartbeat < Lease of `leader_timely` is sharp there:
lease 5 in place of 6 is a counterexample. With the code's defaults (10 s, 3.3 s)
it allows delays below 3.3 s. In CronWindow the passing run has its intervals in the order
of the defaults (slack < gap < scan; 5 s, 15 s, 60 s) with both conditions of
`NoSlotSkipped` met exactly; ages are counted up to `Old` and `calm` up to just above
`Recovery`, beyond which nobody tells them apart. `cron_failover` has the defaults
themselves, five seconds to a unit, a gap of 15 s (a lease of 10 s and the heartbeat that
finds it gone), and a turn at most 5 s late. ExecutionApi has two pages, a retry with its backoff, and enough ids
for two manual runs beside a scheduled one. In Dashboard two requests are what it takes to
overlap; a draft is typed once, and an outsider's write ends the claims about a job, after
which a second one would add nothing. Scans, slots and execution ids, executions and
runners, jobs and requests of the page are interchangeable; runs with liveness properties use no
symmetry.

**Fairness.** A live process runs its continuations (weak fairness of every step of a
scan, request or runner that is under way); `setInterval` starts scans and heartbeats;
BullMQ delivers waiting jobs and promotes delayed ones; Redis answers and expires keys;
time passes. A replica's heartbeats and continuations are fair together, per node: the
event loop of a live process does not stop, but which of them is next is open. Users, faults and the scheduler's choice of slots are under no obligation.

## 4. Proofs

Every invariant and every action property of the passing runs is a theorem. A theorem
holds for every value of the constants that the named assumption of its module admits:
any number of jobs, slots, replicas, executions, requests, and any bound. The assumptions
say that numbers are numbers, positive where the code's are (an interval, a lease, a
timeout, a page), that at least one job is scanned, and that `None`, `Nobody` and `Manual`
are different from the values they stand beside. Further hypotheses are in the statements:

| theorems | hypothesis | without it |
|---|---|---|
| `LeftLocksAreFired` | `~Crashes` | a dead process leaves its lock |
| all of `WorkerCalmProofs` | `~CallsFail`, `~LocksLost` | a stalled attempt runs twice and is counted twice; an exception skips the dead letter or the reset |
| `LeadersHoldTheLease`, `FailoverIsBounded`, `StoppedNodesRelinquish` | `Timely`, 2 * Delay + Heartbeat < Lease | the lease passes on under a leader that does not know it |
| `NoSlotIsSkipped` | Delay <= Slack, Scan + Delay < Spacing | a late turn finds the slot out of the window, or the next slot in its place |

The hypotheses are those of the runs (section 3), which says what happens without them; the instances of the runs satisfy them.

An invariant as a run states it is seldom inductive. What each proof adds, and why it is
enough:

**SchedulerProofs.** `TypeCorrect`, `FiresAtMostOnce`, `ClaimsAreExclusive`,
`QueuedRowsExist`, `Refinement`, `ReleasesOwnLockOnly`, `LeftLocksAreFired`.
`NoDoubleEnqueue` says nothing about a claimant that is about to add. The inductive
invariant is `IInv`: the types, `NoDoubleEnqueue`, `QueuedHasRow` and `ClaimExclusive`. An
insert succeeds only if its job exists and its slot has no row; by `QueuedHasRow` and
`ClaimExclusive` a slot that is queued or on its way has a row unless its job is deleted;
so the inserting claimant is alone (`InsertStep`), and it still is when it adds
(`AddStep`). Deleting a job removes rows, but retires the id, and no insert for it can
succeed again (`DeleteStep`). All other steps are `Quiet`. The locks do not occur in the
argument, which is what the comments in `scheduler.ts` claim. The refinement maps
`closed` to the slots that have a row or a deleted job and `fires` to the queue positions
of each slot; every step closes slots (`CloseStep`) or fires one (`FireStep`), or changes
neither. `LockIsUsed` is what `LeftLockIsFired` needs: a lock is its claimant's, who is
still to insert, add or release, or its slot is queued.

**JobConfigProofs.** `ConfigTypeCorrect`, `CopyIsRow`. Added: the copy a request has still
to SET is the row, unless another request on the job came between. The invariant takes a
set of jobs about which nothing is claimed, so that Worker, whose breaker writes rows
without telling Redis, can use it for the others.

**WorkerProofs** (every fault on or off). `WorkerTypeCorrect`, `CallbacksBounded`,
`DeadLettersBounded`, `DeletedNeverCalled`, `DisabledNeverCalled`.
Nothing keeps two runners from working on one execution, so the budgets are counts: the
callbacks sent and the runners that have theirs ahead of them together are at most the
attempts made, the locks lost and the one under way (`CallsCounted`); likewise the dead
letters and the runners in a last attempt (`LettersCounted`, with `LastAttempts`).
`DisabledNeverCalled` says what is left of the claim
that `worker_breaker_cache` refutes: a job that was read as disabled is called only if its
breaker disabled it.

**WorkerCalmProofs.** `DeadMeansAllAttempts`, `DeadMeansOneLetter`,
`NothingGivenUpSilently`, `BreakerOpensHonestly`, `SettledIsFinal`. Without lost locks a runner has its execution
for itself (`Owned`), so the row, the dead letters and the callbacks can be said exactly:
`CallsExact`, `LettersExact`, `FailsEarly`, `DeadIsLast`, `SuccessIsLast`. Deletion of the
job at any moment is the case that takes most of the proof.
For the breaker, `StreakCounted`: the counter of a job is at most the number of executions
in its `streak`, unless a success is about to reset it or the job is deleted, and an
execution whose death is still to be counted is not yet in the streak. Every step of a
runner changes the two together (`Tallies`, `TallyFacts`), or leaves both alone.

**LeaderElectionProofs.** `LeaseTypeCorrect` and `LeaseIsTheHolders` hold however late
commands are. For `LeadersHoldTheLease` the invariant follows the commands of a node:
they are executed in order; a SET that won and was not heard of is younger than what is
gone of the lease; a leader's lease outlasts its next renewal, or a renewal is under way
that arrives in time (`LeadLasts`). `StoppedNodesRelinquish` adds that the last command of
a node that stopped is its release. `FailoverIsBounded` adds, for the time nobody leads,
that somebody has won and will hear of it in time, or the lease is free and every candidate
has asked or will, or it runs out in time (`Recovers`); and that only the SETs of candidates
are younger than the vacancy. The bound is the `Gap` CronWindow assumes. `MaxCmds` bounds
the commands a node has under way; a heartbeat that meets the bound cannot be sent and
stops the clock, and the theorems hold for every bound, so for those never met.

**CronWindowProofs.** `WindowTypeCorrect`, `NoSlotIsSkipped`. The invariant says who will
look at an unclaimed slot that is still in the window, if anybody leads: a leader there was
all along, within one scan of the slot; or a leader found after the last loss, within the gap
and one scan of that loss (`InTime`). A unit of time brings each look nearer (`ComingTick`),
a scan takes it over from the timer, and only a throwing job can put it off (`ComingStays`);
a loss makes the second case true of whoever leads next. Once `calm` exceeds `Recovery` the
second case is over (`ComingBound`), and the first excludes that the slot leaves the window
or is replaced.

**ExecutionApiProofs.** `ApiTypeCorrect`, `OneManualRunAtATime`, `PagingIsComplete`,
`StatsAreExact`. `LockCovers`: what a manual run still takes (the rest of its attempt or
backoff, the attempts and backoffs to come) and what it has left of the buffer is at most
what is left on its lock. That the TTL starts out large enough needs `backoffSum`
for every number of retries: `Induction` takes the least number for which a statement fails
(the library's `WFMin`), `RunningSum` shows from it that the recursive function exists, and
powers of two are handled as numbers of subsets. For the reader, the rows wanted that lie
on pages read have been seen (`Seen`), and insertions only move rows to later pages.

**DashboardProofs.** `DashboardTypeCorrect`, `NothingStaysStuck`, `FormMakesOneJob`,
`ClicksAreHonoured`, `TableIsCurrent`. Each flag of the page waits for a request that
clears it; a draft a job was made of is in the form only while the page is about to hear of
it; while a claim is made on a job at most one request is on it; what was fetched is what
there is unless a reload or an error is to come (`FreshInv`).

All inductive invariants were also checked with TLC, on the instances of section 3.

**Only model-checked.** The liveness properties `ClaimedSlotFires`, `Settles` and
`LostLeadIsNoticed`: fairness and ENABLED are beyond the prover. Not proved either is that
a bounded counter such as `MaxStalls` or `MaxCmds` is large enough for the real library:
that is a choice of the instance.

## 5. Not modelled

- The live event feed (`lib/events.ts`, `lib/socket-server.ts`, `useSocket`,
  `ExecutionLog`): fire-and-forget, with a list of the last 50 events in the browser that
  no other part reads. Of `publishEvent` only the exceptions matter (`StepThrows`).
- HTTP, JSON, signatures, authentication and rate limiting, the callback URL check,
  configuration parsing, metrics, logging, health endpoints and the construction of
  clients, which keep no state the properties could be about. That a route may answer with
  an error is in Dashboard (`Refuse`).
- Cron expressions and time zones: cron-parser's work. A schedule is any sequence of slots.
- In ExecutionApi a change of the retry policy while an execution runs (its lock is
  computed from the older one), the window of days and the mean of `getJobStats`, and its
  filter on `finishedAt`, which every row of the statuses it counts satisfies. Two rows with
  the same `triggeredAt` (it has milliseconds, and the query no second key): the database may
  give such rows in a different order from page to page.
- BullMQ's removal of old finished jobs, and a client that resends an `add` that was
  executed: library behaviour under the options of `lib/queues.ts`; see the hazards.
- Backoff durations, except in ExecutionApi: elsewhere a retry comes "later".
