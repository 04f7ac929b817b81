# Books of Time: specification and verification

TLA+ specifications of the books-of-time archive service (`src/books_of_time`), the TLC runs
that check them on small instances and the TLAPS proofs of their main theorems.

Contents: 1 inventory of the system · 2 plan · 3 the modules and the code · 4 runs and bounds ·
5 fairness and time · 6 proofs · 7 disagreements between the code and what is said of it ·
8 what is not modelled · 9 how to run it.

## 1. Inventory of the system

Books of Time polls Bilibili for video metrics and comments and keeps the raw evidence. One
PostgreSQL database is the only state its processes share; any number of scheduler processes, of
worker processes and of operators at the command line meet in it. (SQLite is supported for
tests; the models follow the PostgreSQL behaviour: row locks, `SKIP LOCKED`, unique indexes that
wait.) Paths below are relative to `src/books_of_time/`.

### 1.1 Components

**Task queue and worker** (`worker.py`, `db/repositories.py` 277-598, `db/models.py` 575-640).
*State:* `collection_tasks` rows: status, priority, idempotency key, `not_before`, lease,
`retry_count`. *Operations:* `enqueue` (returns the active row of the key or inserts one),
`lease_next`, `recover_expired_leases`, `retry_failed`, and `Worker.run_once`, which leases,
runs a collector and commits success, retry or failure. *Interactions:* collectors enqueue
follow-ups inside the worker's transaction, so workers wait for each other in the unique index;
cohort components are told of starts and ends. *Hard:* the whole attempt is one transaction, so
`status = running` and the lease are never visible to anybody; what protects a running task is its
row lock, and recovery is the rollback of a dead worker. Lock cycles between workers, conflicts
that vanish between insert and second select, retries at the boundary. *Correct when:* a key is
held by one transaction, has one active row, an answer of `enqueue` does not go stale, the retry
budget is exact, every task settles.

**Scheduled jobs and coordinator** (`service/coordinator.py`, `service/scheduled_jobs.py`,
`db/repositories.py` 1649-1770). *State:* `scheduled_jobs` rows: `next_run_at`, interval,
enabled, lease owner and end. *Operations:* `bootstrap`, `lease_due`, handler, `mark_succeeded`,
`mark_failed`, `run_loop`. *Interactions:* handlers ask for lists, sweep videos, plan cohorts,
evaluate alerts and maintain partitions. *Hard:* three transactions per run, only the first of which
looks at the lease; the others write what they computed from the row they loaded. *Correct when:*
one handler per job at a time, no slot twice, none skipped that is still to come, a due job is served
promptly.

**Cohort policy** (`domain/cohort_policy.py`). Pure arithmetic on ages,
tiers, stages, grids and pages, and the validation of the configuration. *State:* the policy
versions in the database. *Correct when:* slots and checkpoints stay on their grids at every
boundary, and the status of a cohort says what its components have come to.

**Cohort planner** (`task_orchestrator/snapshot_cohort_planner.py`, the planning parts of
`db/cohort_repositories.py`). *State:* a row per video (tier with its confirmations, stage, next
routine slot, last checkpoint), the cohorts of a video by key (a checkpoint by its age, a recovery
by the checkpoint it ends at, a routine slot by its bucket) and the gaps. *Operations:*
`plan_due`: adopt the policy, plan every checkpoint whose age has come, plan a recovery of what
expired checkpoints lack, plan the routine slot, write off the slots that were missed, record the
new state, repair latest components, finalize expired checkpoints. *Interactions:* queues the first
tasks of components, claims comment scans, reads what workers and scans have made of components.
*Hard:* one transaction for all videos, which plans every past checkpoint again at every turn and
raises when a cohort in the database contradicts the plan; a service that was away. *Correct when:*
what is closed stays closed, each lack is recovered once, each slot is either served or written off.

**Cohort materialization and execution** (`db/cohort_repositories.py` 880-1900, `worker.py`).
*State:* cohorts, their components, the slice tasks and scans of components. *Operations:*
`materialize`, `mark_task_started`, `record_task_succeeded`, `record_task_failed`, expiry.
*Interactions:* called in the worker's transaction and in the planner's. *Hard:* workers and planner
lock task, component, cohort and siblings in different orders. *Correct when:* a component closes
once, the status of the cohort is that of its components, no slice is lost or doubled.

**Hot comment scan** (`collectors/hot_comments.py`, `db/comment_scan_repositories.py`). *State:* a
scan with its next page, slice number and outcome. *Operations:* a slice of pages within its page
and time limit; pause with a follow-up slice, end of the list, failure, an end that cannot be told.
*Hard:* a slice that fails half-way is committed half-way. *Correct when:* the pages are captured
without a hole, each slice is counted once.

**Latest-comment scans and frontier** (`collectors/latest_scan.py`,
`db/latest_scan_repositories.py`, `domain/latest_frontier.py`, the latest parts of
`db/cohort_repositories.py`). *State:* a row of `frontier_states` per video (owner, version,
cursor, anchors, baseline, progress), `comment_scan_runs`, numbered slice tasks, the latest
components of cohorts. *Operations:* claim or join a scan, run a slice page by page, pause with
a follow-up, close as complete, partial, corrupted or failed, hand a tail over to a head sweep,
sync the consumers, repair by the planner. *Hard:* compare-and-swap on a version that the slice
task carries, partial progress committed by a failed attempt, deadlines that pass during a slice,
a platform that repeats cursors and deletes anchors. *Correct when:* the frontier points exactly
to the open scan and its slice can go on; nothing below the official frontier is missing from the
archive; no component loses a capture made for it; each comes to an end.

**Comment archive** (`db/repositories.py` 1940-2420, `collectors/reply_comments.py`,
`domain/watchlist.py`, `parsers/comments.py`). *State:* comments, their observations (each
compared with the latest before it), visibility events (disappeared, reappeared, folded,
unfolded), the watch list, reply tasks. *Operations:* archive a page of a hot list or of a scan,
mark an anchor as disappeared, watch a comment and enqueue the reading of its replies.
*Interactions:* runs inside the transactions of hot, latest and reply tasks. *Hard:* two pages with
the same comment in open transactions that do not see each other; capture order is not commit order.
*Correct when:* the history of a comment does not fork, a comment that was seen again is not left
as gone, a watched comment gets its replies read.

**Discovery and video snapshots** (`task_orchestrator/discovery*.py`,
`task_orchestrator/video_snapshot_*.py`, `collectors/user_videos.py`, `collectors/video_stats.py`,
the events of `db/repositories.py`). *State:* videos and the uids they came from, their last figures and availability, events
with uid and seed targets and attached videos, tasks by key. *Operations:* rounds that ask for
lists, storing of a list, first task of a new video, measuring and chaining, sweep, nightly
snapshot, the discovery loop of the command line, commands on events. *Hard:* several transactions
find the same video unknown; the chain of snapshots hangs on one task; the sweep sees a limited
number of videos. *Correct when:* a listed video gets known, gets its first task exactly then,
and is measured slot after slot; an exclusion from an event lasts.

**Service host, health and alerts** (`service/host.py`, `service/health.py`, `service/alerts.py`,
`app.py`). *State:* service instances with heartbeats, alert rows. *Operations:* register, start of
worker, coordinator and heartbeat loops, stop, drain with a grace period, failure; evaluate alerts,
notify, commit. *Hard:* a loop that breaks while the host is waiting for another, shutdown against a
running task, notifications that no rollback takes back. *Correct when:* the process ends as a
whole, its row does not report an end before its tasks have ended nor a clean one after an error, and
alerts follow their conditions.

**Request budget** (`http/rate_limiter.py`). *State:* `request_budget_states`: a token bucket
per layer (global, host, request type). *Operations:* `acquire_many`, which inserts, locks,
refills and charges all layers in one transaction or sleeps. *Hard:* several locks at once, the
clock read before the locks, processes with different configurations. *Correct when:* all
processes together behave like one set of buckets, and the locks never block everyone.

**Request backoff** (`db/repositories.py` 752-850). *State:* `request_backoff_states`.
*Operations:* `record_failure` doubles the delay of a key, `reset_all_success` clears it.
*Hard:* the row is read without a lock. *Correct when:* no failure is lost, backoff grows and ends.

**HTTP client and request evidence** (`http/client.py`, `http/evidence.py`,
`db/http_evidence.py`, `platforms/bilibili/request_client.py`). *State:* a row per attempt,
raw response objects. *Operations:* begin, finish and fail an attempt, in transactions of their
own. *Hard:* cancellation and death between them. *Correct when:* every attempt is closed and
its evidence outlives a rolled back task.

**Legacy latest collector** (`collectors/latest_comments.py`). A manual collection on the same
frontier row, without compare-and-swap. *Hard:* its follow-up has the key of the task it runs in.

**Accounts** (`accounts/`), **raw and media storage** (`storage/`, `media/`): encrypted
cookies and their refresh; objects by hash, migration between backends, image deduplication.

**Parsers** (`parsers/`), **analysis and reports** (`analysis/`, `reports/`): pure functions of
responses or archived rows. **Schema, partitions, maintenance, configuration** (`db/schema.py`,
`db/partitioning.py`, `db/maintenance.py`, `config/loader.py`): declarative code.

### 1.2 How they interact

    host --runs--> worker, coordinator, heartbeat
    coordinator --runs--> handlers (rounds, sweep, nightly snapshot, cohort planner, alerts)
    handlers, operators, collectors --enqueue--> collection_tasks --lease--> worker
    worker --calls--> collector --acquire_many--> request budget --> HTTP --> evidence
    collectors --pages--> comment archive --watch list--> reply tasks
    hot and metrics tasks --start, end--> cohort components <--plan, finalize-- planner
    latest collector --CAS--> frontier, scans --sync--> latest components <--repair-- planner

There are no messages: every arrow but the first two is a transaction on shared rows, so the hard
behaviours are those of transactions (what is read before a lock, what is committed together, who
waits for whom, what a death rolls back) and of clocks (deadlines, leases, backoff, slots).

## 2. Plan

| stage | module | main question | state |
|---|---|---|---|
| 1 | `TaskQueue`, abstract `TaskLifecycle` | exclusive work, exact retries | done, safety and refinement proved |
| 1 | `ScheduledJobs`, with it `ScheduledJobsWatched` | slots and leases | done, safety proved |
| 1 | `LatestScan` | frontier, gaps, deadlines | done, safety proved |
| 1 | `RequestBudget`, abstract `SharedBudget` | one budget for all processes | done, refinement proved |
| 2 | `CohortPolicy`, `CohortPlanner` | what is planned, recovered, written off | done, safety proved |
| 2 | `CohortExecution` | workers and planner on one cohort; slices of hot scans | done, safety proved |
| 2 | `ServiceHost`, with it `OperationalAlerts` | ends of a process; alerts | done, safety of the host proved |
| 2 | `CommentArchive` | histories under overlapping pages | done, safety proved |
| 2 | `Discovery` | found, measured, attached | done, model-checked |
| 3 | `RequestBackoff`, `HttpAttempt`, `LegacyLatest` | lost updates; open attempts; the self-absorbed follow-up | open; section 7 has what reading shows |
| 3 | proofs | safety of `Discovery` (`FirstOnce`) | open; what is proved of the rest is in section 6 |

Composition: `OperationalAlerts` EXTENDS `ServiceHost` and joins their actions (an alert draft is
lost when the host's coordinator ends); `ScheduledJobsWatched` EXTENDS `ScheduledJobs` with the
history that one of its properties needs; `CohortPlanner` and `CohortExecution` EXTEND `CohortPolicy`.
`CohortPlanner` sees the workers as `Execute`, `CohortExecution` sees one cohort and the planner's
three ways to touch it, row lock by row lock. What all collectors need of the queue is one
task per key, whose exclusive execution `TaskQueue` establishes; what the jobs need is one handler at a
time, from `ScheduledJobs`. Every module has its parameters as CONSTANTS with named assumptions and
one action per operation; no module declares a RECURSIVE operator. The number of runs is kept small
on purpose: a disagreement without a run of its own is described in section 7.
## 3. The modules and the code

`PROJECT.json` ("map") names the lines of every definition; this is the reading guide.

### TaskQueue, refining TaskLifecycle

`Worker.run_once` is one database transaction from lease to commit. `rows` is therefore the
table as the committed transactions left it (plus uncommitted inserts, status `"uncommitted"`,
which only the unique index can feel), and what a worker has written so far lives in `leased`,
`locks` and `want`. `Lease`, `FailUnhandled`, `RejectStart` are the three ways `run_once` begins
(a collector, no collector for the kind, an exception of `mark_task_started` outside its `try`);
`Absorb`, `Insert`, `WaitForIndex`, `WaitForRow` are the branches of `enqueue` inside a
collector: found, inserted in a savepoint, waiting in the unique index, waiting in the second
select; `Succeed`, `Raise`, `Abort`, `Crash` its ends; `Enqueue` is an enqueue from a handler or the
command line, `RetryFailed`/`RefuseRetry` are `task retry-failed`, `CloseComponent` what may
befall the cohort component of a waiting task. `Deadlocked` is the circle of waiting transactions
in which the database picks a victim. Time is relative (time left until `not_before`, since
`effective_now`). `TaskLifecycle` is the life cycle that `docs/COLLECTION.md` draws for one task;
`LifecycleRefined` maps "a worker's transaction is open on it" to `running`.

### ScheduledJobs

One action per transaction of `run_once`: `Lease` (`lease_due`, commit), `Load` and `Succeed`
(second transaction: load, handler, `mark_succeeded`), `Raise`, `MarkFailed` (third transaction),
`Crash`, and `Bootstrap` with any configuration. `loaded` is the row as the second transaction read
it: like the ORM, `Succeed` writes only columns whose value differs from the loaded one.
`NextSlot` is the slot arithmetic of `mark_succeeded`. Handlers are abstracted to the slot they
commit (`done`).

### LatestScan

A slice runs in the worker's transaction and locks its scan first; all others who would change the
frontier, scan or components must lock that scan, so they act when `run = NoRun`, and a dying
process goes back to `saved` (`RollBack`). `Start`, `Read`, `FetchFails`, `Pause`, `CursorLoop`,
`RetryExhausted`, `CompleteEmpty`, `HandOver`, `CompleteHead`, `StartAnchorMissing`,
`CompleteIncremental`, `Fail`, `Die` are the paths through the collector; `Sync` is
`sync_latest_scan_consumers`. A plan is one transaction too: `PlanBegins` takes a `Snapshot` and notes
in `plan` which components it will repair and which it will materialize, `Repair` is the walk over
waiting components in the order of their deadlines, `Materialize` is `claim_or_join` for a component
with the first slice, and the last of these steps commits (`Done`). Besides the cohorts whose time has
come, a plan materializes existing ones again (`PlannedAgain`): a checkpoint as long as its age has come
and its deadline has not passed, a recovery until a later checkpoint has expired; `Until` gives that
time for each component. A component with a slice of its scan is left as it is (`MaterializeKept`), one
that has joined its scan joins it again, whatever it has come to, and if that is not the scan to be
joined any more (`Contradicts`), the planner raises and the repair is rolled back with the rest
(`PlanRaises`). Comments are numbers in posting order, a page
holds one comment, a cursor is the number where a page starts; the platform may post, delete, and
answer with a cursor it gave before (`NextCursors`). `Fail` comes only before a page is fully
processed (`last` none, more or refused), where the code can raise.

### RequestBudget, refining SharedBudget

`Acquire` filters the keys that have a rule, `Insert` is one `INSERT .. ON CONFLICT DO NOTHING`,
`Lock` one row of the `SELECT .. FOR UPDATE`; `states` is what the transaction has loaded, so a
missing lock is a lost update in the model as in the database. `RefuseRule`, `Grant`, `Postpone`
are the three ends. Time is relative to the present: the age of `last_refill_at` (`age`), the age of
the clock value the transaction has read (`lag`), what is left of a sleep (`wait`). Tokens are
counted in parts, `Unit` to the token, so that fractions of tokens occur. `SharedBudget` is one
bucket per layer that refills at every unit of time and from which a request takes one token of each
layer or none; a request may see its buckets as they were up to `Lag` ago, and what they have gained
since they may gain once more (`Slack`), which is what the clock that is read before the locks comes
to. `MaxLag`, the longest wait for locks, is put for `Lag`. `Level` maps the lazily refilled row to what it
holds now.

### CohortPolicy and CohortPlanner

`CohortPolicy` is `domain/cohort_policy.py` as operators on a record `P`, the policy: what
`from_config` accepts (`Accepted`), tiers (`DesiredTier`, `Assess` with its confirmations), stages
(`LifeStage`), intervals and grids (`EffectiveInterval`, `NextAlignedSlot`), pages (`PagePlan`), and
the status of a cohort (`Aggregate`). Times are minutes.

`CohortPlanner` is `plan_due` for one video. `Plan(found)` is the whole transaction, with `found` what
the video's rows may be found to say (growth of the views, an active event, a complete frontier): it
plans the checkpoints whose age has come (`Checkpointed`, each as `Looked`), one recovery
(`Recovery`) and one routine slot (`Routine`), both sets of at most one plan, writes off what went by
(`GapOf`), records the video's state (`Recorded`), repairs and finalizes (`Repaired`, `Finalized`). The
video's row is `Adopted` from the beginning, which is what `adopt` inserts in the plan that first
considers the video; `FirstAdoption` is that plan, the one that finds no next slot. When a cohort in the database does
not fit the plan (`Fits`, `CheckpointsFit`; `SameCohort`, `SameComponents`, `SameScan` are the
comparisons of `materialize`) or a plan is not well formed (`WellFormed`), the transaction raises and nothing changes. `Execute` is what a worker
or a scan makes of a component in between (`Attempted`), `Configure` another version or rollout, `Tick` a jump of
the clock. Cohorts are a function from keys to records; `AgeKey`, `RecoveryKey`, `RoutineKey`
stand for the three sorts of idempotency keys.

### CohortExecution

One checkpoint cohort, its components and their slice tasks, row lock by row lock. A transaction is
a draft and a list `todo` of the rows it still has to lock; `Lock` takes the next one or waits, `Abort`
is the database breaking a circle (`InCircle`), `Crash` and `Restart` are the process. `Lease` and
`Start` are `lease_next` and `mark_task_started`; `CollectOnce` and `CollectSlice` what a collector
comes to (all pages read, list ended, paused, failed, unresolved, after `k` pages); `Close` is
`record_task_succeeded` or `record_task_failed`, which locks the component, the cohort and all
siblings, reads their statuses then, and commits in `Commit`. The planner reads the cohort first (`Plan`,
or `PlanLate` after the deadline), locks, and commits in `Materialize` or `Finalize`. `Expire` is the
deadline: any time. Latest components are left to `LatestScan`.

### ServiceHost and OperationalAlerts

`ServiceHost` is `service/host.py`: `main` is where `run` stands, `loop` the state of its three tasks,
`row` the instance in the database. `Register`, `MarkRunning`, `StartFails` are the start; `Wakes` the
first task that ends or the stop event; `FinishWorker` the grace period; `MarkStopping`, `Awaits`,
`MarkStopped` the orderly way, `Drain` and `MarkFailed` the other; `Kill` is the end without any. A loop
begins, returns, ends or raises at any time (`LoopBegins` ... `LoopRaises`). `OperationalAlerts` adds
what the coordinator's alert job does: `Lease`, `Evaluate` (a draft of all alerts, and the messages,
which go out here), `Commit`, `RollBack`; `Loses` says that an evaluation ends with its coordinator.
`Action` and `Applied` are `OperationalAlertRepository`'s decisions; the load that the evaluation reads
changes at any time.

### CommentArchive

A run is a task of a worker: a hot page, a scan page, or a reply reading. `Answer` captures what the
platform shows of the comments (a hot list in any order, a scan newest first) at an instant of its
own; `Look`, `Write` go through the page comment by comment: the first looks for the comment and its
latest observation, the second waits for the comment's row (`Free`) and writes the observation with its
visibility events; `Watch` puts it on the watch list and enqueues the reading of replies, and waits
while that task is running; `Mark` is `mark_disappeared` for the newest anchor when a scan has met none
of them. `Commit` makes it visible, `GiveUp` is a request that fails: what was written before is
committed with the failure. A failure of the database ends a hot or reply process (`Die`, `Deadlock`),
and rolls a scan's page back to its savepoint (`Fall`). `Change` is the platform: comments vanish, come
back, are folded. Observations refer to the instant of the one they were compared with (`prev`), which
makes the history a chain.

### Discovery

A task runs in two steps, `Read` (the request and the look-up of rows) and `StoreList`/`StoreFigures`
(writes and commit); in between others commit. Keys are the code's: `First`, `Seeded`, `Swept`,
`Chained`, `Terminal`, and lists. `Round` and `Sweep` are scheduled jobs, `TerminalJob` the nightly one,
`Loop` the command-line discovery; `Die` is a conflict on a unique key, which ends the process. `Misread`
is an answer with an error code, which ends the task, or one without usable data ("empty"): then
`ParseFails` records the availability that the answer was taken for, which is committed with the failed
attempt, and the task is retried; so it may also be with the answer of a visible video that cannot be
parsed. `Fail` is a request that fails, which records nothing. The operator adds and switches targets, seeds and
videos of the event. The environment publishes, takes down, and pushes a video off the first page
(`PushOff`) or beyond the 500 newest that a sweep looks at (`Outnumber`). `Turn` counts what goes wrong and what
the operator does; of the attempts at one task only the first one to fail counts (`Mishap`), so that each
may fail up to its last. A slot is the time from one instant of the snapshot policy to the next, counted by video.

## 4. Runs and bounds

Runs that pass:

| run | properties | what it shows |
|---|---|---|
| `task_queue_safety` | TypeOK, ExclusiveKeys, UniqueActiveKey, AnswerStaysActive, RetryBudget, LifecycleRefined | 3 rows, 2 workers, one key each with a cohort component, without, and without a collector; 1 retry, delays 0..1, 1 crash, 1 operator retry; symmetric in rows and workers |
| `task_queue_life` | EveryTaskSettles | the same without cohort tasks (see 7, follow-ups of closed components), without symmetry, under `FairSpec` |
| `scheduled_jobs_safety` | OneHandler, SlotOnce, PunctualIfPrompt, SkipsOnlyMissedSlots | 2 coordinators, 2 jobs, 2 configurations (other interval, disabled), 1 kill, 1 failure, 7 units of time, runs of at most 2 under a lease of 3 |
| `latest_scan_gap` | SliceMatchesScan, NoGap | 2 interchangeable components, 4 scans, 3 posts, 1 deletion, repeating cursors, failed requests, failed attempts with 1 retry |
| `latest_scan_deadline` | TypeOK, OwnershipExact, PartialMeansNoCapture, ConsumersSettle | a routine cohort with the window [0,2) and a recovery with [1,2) that is planned again up to instant 4; the clock, 1 retry, deaths, plans that raise |
| `cohort_planner` | GapsExclusive, ClosedStays, RecoveryExact, DueInTime | one video through checkpoints at 40, 60 and 420 minutes, plans at 61, 401 and 441, live or shadow, components closed in between by workers or scans |
| `cohort_execution` | StatusTells, OneTaskWaits, PagesWithoutHole, SlicesCounted, WrittenOffRests, Settles | 2 workers and the planner, a metrics component and a hot one of 3 pages in slices of 2; 1 retry, 1 crash, 1 plan, the deadline at any moment |
| `comment_archive` | ChainUnforked, SeenAgain, RepliesFollow, Ends | 2 comments, 2 workers, 3 runs of any kind, 3 changes on the platform |
| `discovery` | Found, FirstOnce, Measured | one uid and one video, a worker and the command-line loop, 2 slots, 1 retry, 1 turn of fortune (a crash, a command, a push, or a task one or both of whose attempts fail, by a request or by an answer that cannot be parsed) |
| `service` | RestsWhenDone, CleanStop, Ends, AlertsConverge | one process with all three loops, 1 fault, an alert per sort of condition, 2 changes of load or jobs |
| `request_budget` | BudgetShared, SomebodyServed | 2 processes, 2 layers with different rates and bursts, requests for one or both layers, 2 configurations (drifted rule, missing rule), kills, restarts, up to a unit of time passing while a transaction waits for its locks |

One run finds a violation, see section 7: `discovery_exclusion` (`ExcludedStays`), with two workers.

Why the bounds are enough to see the interesting cases. *TaskQueue:* two workers and three rows give
lock cycles, an insert that waits for a commit or a rollback, an own task found by its own
enqueue, and a failed row beside an active one of the same key; one retry exercises both sides
of the budget. *ScheduledJobs:* intervals 1, 2 and 3 against runs of 2 give slots that are on time,
due this instant, and several intervals late; a lease of 3 is taken over after the kill. *LatestScan:*
four scans allow tail, head sweep, incremental, and another after a corrupted one, three posts an
anchor in the middle of the list; `MaxVersion` only limits how many compare-and-swaps a behaviour
has. The windows of the deadline run overlap, so that the recovery joins the scan of the routine
cohort, which may close before the recovery is planned again: plans raise, and are rolled back with
what they have repaired. They go on doing so, or set the recovery that the repair has written off back to
joined, for two units after its deadline. The clock stops at 4, when the next checkpoint has expired and
nothing is planned again. *RequestBudget:* rates of 2 and 1 parts with `Unit = 2` give fractional tokens, overfull
refills and waits of more than one unit; `MaxLag = 1` lets one process commit and time pass while
another waits with an earlier time; `MaxAge = 5` is no bound on behaviours, since a bucket of that
age is full, and was full `MaxLag` ago (an assumption of the module, used in the proof).

*CohortPlanner:* the instants put the first two checkpoints in their window and past it, the
third before, within and, with the dormant stage at 430, into another stage; the ceiling of 50
minutes is no divisor of an hour, so that grids shift; the clock jumps over many slots, which are
gaps. Only three components are worked on (`Checkpoints`), but the checkpoint of an hour, which they
belong to, passes through open, closed, lacking and recovered. *CohortExecution:* two components give
the circle of two workers that lock each other's siblings and the one with the planner; three pages in
slices of two give a full slice, a follow-up that completes, and a failure in the middle of each.
*CommentArchive:* two comments are the least for opposite lock orders and for an anchor that vanishes
while another comment of the page stays; the third run is the reader that must find what two
overlapping ones left; three changes let a comment vanish, come back and be folded. *Discovery:* one
video meets the worker, the loop, rounds, sweep and the nightly job on the same rows; two slots are a
chained measurement and what follows a broken chain, and one retry makes the first attempt and the last
one fail differently. *Service:* one fault at every place of the host,
and a second error is only met by the code in the drain that the first one starts.

`CHECK_DEADLOCK FALSE` is there where bounds (counts of changes, versions, runs, the clock) stop the
model, or where a component legitimately comes to rest; the queue, the budget and the service are
checked for deadlock.

Every property of a passing run has a mutant in `PROJECT.json`: a plausible slip in a mapped
definition, kept beside it in the module with a comment, under which TLC finds the property violated.

`PunctualIfPrompt` needs history, kept in `prompt` of `ScheduledJobsWatched`: has time passed only
when no idle coordinator had work?

## 5. Fairness and time

*TaskQueue:* WF for a worker that polls, collects, finishes or is restarted (`run_loop` is an
unconditional loop and the service manager restarts processes) and for time. SF for a worker that
waits in `enqueue`: PostgreSQL queues lock waiters, so a newcomer cannot overtake for ever.
Nobody is obliged to enqueue, crash or retry.

*ScheduledJobs:* safety only. `MaxHandle` bounds a run in `Tick`; `PunctualIfPrompt` is stated
for behaviours in which time does not pass while an idle coordinator has something to lease,
since it polls every `idle_sleep_seconds`, less than a unit.

*LatestScan:* SF for time (it passes, whatever plans and slices do), WF for some step of the slice
under way (the slice has a time limit, so it ends one way or another; which one is open), SF for the
beginning of a plan, since the planner is a scheduled job that comes again and again and waits for the
slice's lock in the database's queue, and WF for the plan's next step, which may be that it raises and rolls everything
back. No repair is fair by itself: what `ConsumersSettle` shows is that every component comes to an end once
its cohort is not planned again. Until then plans may raise, and undo their repair each time, or set back
to joined what they have written off (section 7). `Start` is not fair: no worker need ever run.

*RequestBudget:* SF for time (it passes, whatever the processes do), SF for the next insert or lock
of each process (lock queue), WF for its decision and its wake-up. Which of several waiters is
served is not fair in the code, so only `SomebodyServed` holds, not that each is. `MaxLag` bounds
the time that passes inside a transaction; the proofs hold for any such bound.

*CohortPlanner:* safety only; the clock jumps between a few instants.

*CohortExecution:* WF for what a worker does next (poll, collect, commit) and its restart, for each
lock, for the planner's commit once it has its locks, and for the database's search for circles. Which
transaction of a circle is the victim is open, and two that are retried can meet again for ever:
`Settles` is stated for behaviours in which that ends. It also allows for a component that has been
written off with its task still in the queue, after which workers end one by one (section 7).

*CommentArchive:* SF for each worker's next step, since the queue for a row serves whoever waits. No
fairness for the platform, for crashes or for the choice of runs.

*Discovery:* WF for the rounds and the sweep, which are scheduled jobs, and for a worker to store what
it has read; SF for each list to be taken up, since tasks that ask for lists have the highest priorities of
all (120 and 110). Tasks that measure a video have no such claim, a worker may always find something
of a higher priority: `Measured` is stated for behaviours in which the workers keep up, that is, have
again and again no ready task left (`KeptUp`). Nobody is obliged to publish, push, fail or command.

*Service:* WF for time, for each step of the host, for a loop's iteration to end, for heartbeats, and
for lease, evaluation and commit of the alert job. Loops need not begin anything: what is shown holds for
idle ones too. A process need not break or be stopped.

## 6. Proofs

All proofs are checked by TLAPS without omitted steps. They hold for any finite or infinite sets
and any bounds that satisfy the ASSUMEs of the modules.

**TaskQueueProofs** (assumptions KeyAssumption, TaskAssumption, BoundAssumption): `TypeCorrect`,
`ExclusionTheorem`, `UniquenessTheorem`, `AnswerTheorem`, `RetryTheorem`. None of the
properties is inductive by itself. The invariant `Base` adds that no committed row is ever running
(`RunningNeverCommitted`: so `recover_expired_leases` finds nothing and locks nothing), that the
variables of a transaction agree with its phase, that a locked row is pending or the holder's own
insert, that a row has one holder, that uncommitted inserts belong to somebody, that every present
row has a key, and the count of attempts. `Keys`, exclusion and uniqueness together, is inductive
relative to `Base`: neither goes without the other, since an insert is refused by what is active
or held, and a lease presumes that the active row is the only one. `LifecycleTheorem` is the
refinement: the initial states map to `TaskLifecycle`'s, and each action maps to one step in which every
task moves along an edge of the life cycle or stays (`MoveOf`, `StayOf`, then one lemma for
each action). `Base` is what it needs: a leased task is pending, locked and leased once, so that "running"
has one meaning, and a rollback leads from there back to pending with the attempts it had.

**ScheduledJobsProofs** (JobAssumption, TimeAssumption): `TypesTheorem`; `HandlerTheorem`,
`SlotTheorem`, `SkipTheorem` and `PunctualTheorem` under `LeaseCoversRun == MaxHandle < LeaseSeconds`.
The code does not enforce this condition (section 7), hence it is a hypothesis and no ASSUME. The
invariant `Safe` says that
who runs a job owns its unexpired lease, that the loaded row still has the slot of the table, and
that committed slots lie before `next_run_at`. With it a success computes the next slot from the row that
is there, and `NextSlotIsNext` shows the formula of `mark_succeeded` to give the first slot of the grid
after the start of the run. `PunctualTheorem` is about the jobs that outrank every other and that no
configuration switches off (`Foremost`); it needs at least one coordinator. A job of that sort that
has waited longer than one run cannot be: the invariant `Served` says that, when one waits at all, some
coordinator is free, and will take it at this instant, or is in a run that began before the wait
(`InTurn`, in terms of what was `Reached` at a time), and such a run is over within `MaxHandle`.

**RequestBudgetProofs** (BudgetAssumption): `BudgetTypes` and `BudgetTheorem == Spec => BudgetShared`,
that the processes implement `SharedBudget`, both for any wait for locks. The invariant is type
correctness, that a process only asks for keys that its configuration has a rule for (`Scoped`), and that what it
has loaded is still the row of the table, whose lock it holds (`Coherent`), which is the point of `FOR UPDATE`. Under
it `Grant` is the abstract `Take`, `Postpone` is `Wait`, `Tick` is `Refill` (lemma `RefillOfOneUnit`:
refilling in one go is refilling unit by unit, although both are capped), and everything else
stutters. That a transaction sees the past is the lemma `ViewOfThePast`: with a time that is l old it
computes no more than the bucket holds, and what it writes, dated back by l, is worth at most what the
bucket gains in l more than the present level less the charge. So nothing is granted that is not there
at that instant, and the second count of the wait is bounded by `Slack`; for `MaxLag = 0` the budget
is exact.

**LatestScanProofs** (Bounds): `LatestTypes`, `OwnershipTheorem`, `SliceTheorem`, `GapTheorem`,
`CaptureTheorem`. `OwnershipExact`
and `SliceMatchesScan` speak of committed states only, and a death leads back to one of them, as does a plan that raises, so
the invariant says `Consistent` of the rows at every step of a slice or plan and of the rows in `saved` as well:
the frontier owns exactly the open scan, every scan agrees with its last slice in status, number
and frontier version, and a pending slice has attempts left. The one scan with a slice under way is
running (`InSlice`). It follows that no queued slice is refused by `_validate_task`
(`PendingIsValid`), that the planner's repair never finds a slice missing (`NothingToReissue`), and
that the last failed attempt always closes its scan (`FailInv`). Two lemmas carry the
steps: `SliceStep` replaces a scan and its slice, `ScanAppended` adds one; handing a tail over to
its head sweep is one after the other. `InPlan` says that a plan runs between slices and that what it
would be rolled back to is `Consistent`; each further invariant has a lemma for a plan's beginning, for its
steps, and for its rollback.

`NoGap` takes `Evident` on top of that. What lies between the first comment a scan has seen and its
cursor is stored (`Pursued`), in the rows and in what a death or a rolled back plan would go back to; a head sweep relies on the
tail before it, down from whose start everything is stored; an incremental scan starts from the official
frontier, which nothing else moves while it is open. The proof shows the one way in which a scan can leave
a hole behind its cursor: the platform leads back to a page that the scan has seen. Then the cursor is in
`seen`, and the code refuses the page before it can end the scan. `PartialMeansNoCapture` is stated of
every component; `Windows` adds that the scan it waited for exists and, once its head is captured, keeps it.

**CommentArchiveProofs** (CommentArchiveAssumption: finite sets of comments): `ArchiveTypes`,
`ChainTheorem`, `SeenAgainTheorem`, `RepliesTheorem`, for any number of comments, workers, runs and
changes. Four layers, each inductive on those before it. `Typed`: the types, at most one scan at a time,
and no instant beyond the clock. `Replies`: who is reading the replies of a comment is the one holder of
its task (`Asking`), and a watched comment is awaited or its last reading began after it was watched.
`Seen`: what `SeenAgain` says of committed observations holds of those that a run is about to commit as
well, with the events that it commits along with them (`Answered`): a page looks once and writes much
later, and what it saw must still be enough then. `Chain`: a comment that a run has written is in that
run's hands only (the row lock), a page meets each comment once, answers come at different instants, and
the committed observations together with a run's own do not fork; a comment that the look found is
still there at the write, one that it did not find is inserted, which fails if somebody else has
(`Conflict`).

**ServiceHostProofs** (HostAssumption, AlertAssumption): `HostTypes`, `RestTheorem`
(`RestsWhenDone`), `CleanTheorem` (`CleanStop`), of the composed specification with any number of
instances, any roles and any times; that alerts are evaluated beside the host does not matter to them.
The invariant is the types and `Sound(i)`: at each place of `run`, which loops are over by then and
which may have ended with an error (after the grace period, after each await, after the drain), and that the row
reports an end only of a process that has exited.

**CohortExecutionProofs** (ExecutionAssumption: a finite, non-empty set of components):
`ExecutionTypes`, `StatusTheorem`, `TaskTheorem`, `PagesTheorem`, `SlicesTheorem`, `WriteOffTheorem`, for any
number of workers, components, pages, retries, deaths and plans. The invariant has four parts. `Disjoint`: a row is
locked by one transaction; `Hand(w)`: a worker that has started holds its task and its component, so
what it decided before the lock of the siblings still fits the rows when it commits (`Result`).
`Sliced`: the tasks of a component are its slices 0..m, all over but the last, which waits exactly as
long as the component can be started. `Kept`: the pages up to the next one are stored. `Reads`: the planner locks
every component before it writes one off, and compares the outcome with a status that it read before
any lock. Why that cannot leave a stale status behind is the point of `StatusTheorem`: two
statuses read early, "missed" and "partial", are facts that no worker takes back, and for the others the
write-off changes nothing that the status depends on (`WrittenOffTold`; `ToldIs` replaces the sets of
`Aggregate` by quantifiers over components).

**CohortPlannerProofs** (PlannerAssumption: every policy is `Accepted`, which is what the configuration
has checked; OutcomeAssumption): `PlannerTypes`, `ClosedTheorem`, `RecoveryTheorem`, `DueTheorem`,
`GapsTheorem`, for any policies, instants, findings and histories.

- `ClosedTheorem`: `Keeps(c, d)` says that d has what c has, closed components unchanged. It holds along
  each of the functions a plan is made of (`Repaired`, `Finalized`, `Rematerialized`, `With`) and is
  transitive, so it holds along the plan; `Shapes` are the fields that all this reads.
- `RecoveryTheorem`: neither the recovery nor the routine cohort touches a checkpoint any more, so what the
  committed checkpoints lack is what the plan saw (`CommittedRecovers`). In live mode no checkpoint is in shadow, or
  the plan would have raised (`OverdueExpired`): hence those that are recovered are those that have expired.
- `DueTheorem`: the interval is a positive number, at most the distance to the next checkpoint
  (`IntervalPositive`), whatever tier, growth and activity window it comes from, and an aligned slot is at most
  one interval ahead (`NextAligned`).
- `GapsTheorem`: the invariant `Served` says that what has been served or written off lies before
  the next slot and within the past buckets. A gap starts where the next slot was and ends by the present
  bucket, and the next slot moves beyond it. It is a theorem under `EqualBuckets`: no policy version changes
  `planning_seconds`. Without that it is false: with buckets of 5 and then 30 minutes, a gap up to
  minute 33 can be followed by a routine slot at minute 30, the floor of the longer bucket (TLC finds this
  with checkpoints from 55 minutes on and plans at 2, 38 and 44).
- `PlannerTypes`: a recovery prefers one of several ranges of pages (`Preferred`), and there is one to
  prefer since the expired hours are numbers up to the present age (`Bounded`).

Nothing in these proofs depends on the numbers in `AgeGrowthInterval` but that they are positive.
The unit is the minute, so the proofs are about buckets of whole minutes and a clock that stands at whole
minutes; the shipped default is 30 seconds.

Only model-checked: all liveness properties (`EveryTaskSettles`, `ConsumersSettle`,
`SomebodyServed`, `Settles`, `Found`, `Measured`, `Ends`, `AlertsConverge`), since fairness and
ENABLED are out of the prover's reach; and `Discovery` with its action property `FirstOnce`.
`TypeOK` is checked by TLC for the queue and the latest scan, and proved for these and for the planner,
`RequestBudget`, `ScheduledJobs`, `CommentArchive`, `ServiceHost` and `CohortExecution`; for the alerts
it is stated as documentation of the variables. The least and greatest members of sets of numbers come
from the well-foundedness of the naturals (`NatLessThanWellFounded`, `WFMin`), which the library states
without an operator parameter. There is no induction over data in the project: slot
arithmetic and refills are closed formulas.

## 7. Disagreements between the code and what is said of it

With a run (`PROJECT.json`, "findings"):

- *discovery_exclusion:* `docs/EVENTS.md:51` takes a deactivated video out of the analysis of its event.
  `attach_video` (`db/repositories.py:1285`) sets it active again at the next list that shows it.

Without a run. *Live rollout* marks what only happens to live cohorts; the shipped scheduler still
refuses that rollout, so these wait for whoever turns it on.

*Cohorts*

- A new policy version, or live after shadow, meets cohorts planned under the old one: the version is part
  of their identity (`cohort_repositories.py:1902-1916`), and `plan_due`, which plans every past
  checkpoint again, raises for all videos at every attempt. The design says that the version is
  evidence and no part of a slot's key
  (`docs/superpowers/specs/2026-07-13-collection-snapshot-cohorts-design.md:745`).
- Live rollout: a component that has been written off after its deadline leaves its task in the queue;
  `mark_task_started` refuses it outside the worker's `try` (`worker.py`), so that one worker after the other
  ends. The deadlines of routine slots are never looked at. The follow-up of a paused latest scan
  whose component was closed meanwhile has the same effect, and the scan stays open.
- The recovery of what expired checkpoints lack shrinks, in its kinds and pages, when a component that was
  still running completes later; the smaller plan contradicts the cohort that exists, and planning raises
  until a later checkpoint gives a new key.
- A routine slot that is due again within its bucket contradicts its own first plan. A cohort's
  `finished_at` is set on expiry although a component is still running. A cohort whose only component has
  joined a scan stays "planned".
- Live rollout: a component that joined a scan of another cohort claims a scan again when its own cohort is
  planned again, a checkpoint's up to its deadline, a recovery's until a later checkpoint has expired. When the
  scan it had has ended, the claim gives another one and the plan raises, for all videos
  (`cohort_repositories.py:643`), which rolls its repair back. When that scan is open, the component becomes
  "joined" again (`:672`), whether the repair has just settled it or not. So `docs/COLLECTION.md:361`
  (at the deadline without a head page the component ends as partial) does not hold of a recovery as long as it
  is planned again: `latest_scan_deadline` passes through these plans, and `ConsumersSettle` is about
  what comes after them.
- Live rollout: the repair of latest consumers marks an untouched component partial before the
  finalization, so a checkpoint that nobody started is partial, not missed.
- Worker and worker, or worker and planner, lock rows of one cohort in different orders; the victim of
  the database is an ended worker process, or a failed plan.
- The hand-over repair raises FrontierVersionConflict when the frontier has moved
  (`cohort_repositories.py:734`), which fails the planning of all videos.
- The status "blocked" and the pinned tier are never set. Of two recovery ranges the one that ends last wins,
  whatever it starts with.

*Latest scans*

- After a head sweep corrupted by failing requests the next claim plans a head sweep without anchors,
  which can only raise; the baseline is never completed.
- An incremental scan corrupted half-way leaves its cursor behind, and the first page of the next one, in
  the middle of the list, counts as head.
- `docs/COLLECTION.md:351` says that corruption never makes the baseline start again from zero. After a
  head sweep that misses its start anchor (`latest_scan.py:455`) the next claim does just that: it
  plans a tail from the empty cursor.
- `failed_attempts` of the frontier are compared with a `page_retry_attempts` that may have been configured
  lower since (`latest_scan.py:740`).
- The legacy collector's follow-up has a key without a number, which may be that of the task it runs in
  (`latest_comments.py:530`): `enqueue` answers with that very task and the collection stops after its second
  slice. `Absorb` in TaskQueue is the general case. It also keeps failed attempts and seen cursors over
  corruption, may resume at a page of the scan before, and overwrites the frontier row of a scan or of
  a second legacy task.

*Comments*

- Pages that are committed in another order than they were answered leave events in reversed order:
  `ChainUnforked` has to allow for it.
- A disappearance that is not committed yet is invisible to a page that shows the comment: an observation
  after "disappeared" without "reappeared". When a folding event lies in between, no later page notices
  either (the look takes the latest event). `SeenAgain` speaks of events that were there when the page
  was answered.
- The removal of all images of a comment is never recorded.
- Pages with the same comments in other orders deadlock; the victim is a hot or reply worker's process,
  while a scan only fails its slice.

*Discovery and events*

- `docs/TROUBLESHOOTING.md:376` recommends event seeds for tracking a video by hand; a seed is measured once,
  and the chain only goes on for videos known from a list.
- One answer with an error code stops a video for good: the sweep passes over a video whose latest
  availability is not "visible" (`video_snapshot_scheduler.py:47`). So does an answer without usable data
  (`video_stats.py:87-117`): its availability is committed with the failed attempt (`worker.py:188`), and
  if it was the last attempt nothing measures the video any more: the exception `Dropped` in `Measured`. The design
  ends the task for every answer that is not visible
  (`docs/superpowers/specs/2026-07-09-phase-1j-video-availability-design.md:104`); the code raises
  a ParseFailure for one without data. Videos beyond the 500 newest are not swept.
- A video that has never been measured gets another task at every sweep once the one before has ended; the
  key of a sweep and that of a chained task differ, so a slot may be measured twice.
- Two workers that store the same new video, or the same new comment, conflict on its key, and the second
  one's process ends.

*Queue, jobs, service*

- `docs/OPERATIONS.md:87` and `docs/COLLECTION.md:80` say that the tasks of a killed worker wait for
  their lease to expire. The lease is never committed (`worker.py:69` to 207 is one transaction): they
  are pending again at once. The invariant RunningNeverCommitted, proved within `Base`, says so.
- `docs/OPERATIONS.md:134` lets one coordinator run a job while its lease lasts; the coordinator
  neither renews nor checks it (`service/coordinator.py:97`). A handler that outlasts its lease
  is joined by another: the hypothesis LeaseCoversRun is needed.
- A focus slot is skipped when the slot before it is served late; `mark_failed` moves the next run off the
  grid of slots (`repositories.py:1763`).
- `task retry-failed` aborts as a whole when one selected key is active again.
- The row says "stopping" only after the grace period, not before (`service/host.py:107-121`; shutdown
  order of `2026-07-10-long-running-service-design.md:88`). A TimeoutError that the worker raises is taken
  for the end of the grace period and reported as a clean stop: the exception in `CleanStop`. Nor does a worker that raises when it is cancelled at the end of
  the grace period count as an error (`gather(return_exceptions=True)`, `service/host.py:158`). A failure
  while registering leaves the row at "starting".
- Notifications go out before the commit (`service/alerts.py:137`). When the first one of a condition is
  rolled back and the condition ends before the next evaluation, the operator never hears of the end:
  `AlertsConverge` promises less for conditions that are over.

*Requests*

- `docs/CONFIGURATION.md:145` calls `rps` the tokens that a bucket regains in a second. The clock is read
  before the row locks are granted (`http/rate_limiter.py:119`); a transaction that had to wait sets
  `last_refill_at` back (`:162`), and the next one counts the same time again. `BudgetTheorem` bounds what
  that can cost.
- Backoff reads its row without a lock (`repositories.py:765`): of two failures one is not counted, a reset
  may be overwritten by a failure that was read before it, and two first failures conflict on the unique
  key, which ends a process. `backoff_until` counts from the start of the task and holds no other task back.

## 8. What is not modelled, and why

`PROJECT.json` lists each component with its status.

- **Request backoff, attempts of the HTTP client, legacy latest collector:** reading shows what goes wrong
  (section 7); in the other modules a request is one step that answers or fails.
- **Parsers, analysis and reports:** evaluations without state; what the models depend on is modelled
  where it is used (cursors, items, pinned and folded comments, availability).
- **Accounts, raw and media storage:** encryption, hashing and image processing are external or numerical.
- **Schema, partitions, maintenance, configuration:** declarative, except the validation of the cohort
  policy, which is `Accepted`.

Left out of modelled components: several videos in one plan (they share nothing but its fate, which in `LatestScan`
is that of the video modelled); two
latest components of one video that claim different scans; counters of pages and items; the growth and
keyword signals of the watch list, and ranks below the top comment of a hot page; events for changed
counts, contents and positions; keyword and game targets and the validity of an event; lengths of the
intervals, active hours and focus times of the snapshot policy as clock times;
`repair_latest_tail_handoffs` (it looks for states that one transaction no longer leaves behind); the
reconciliation scan modes (nothing creates them); changes of `page_retry_attempts` between slices;
`TokenBucketRateLimiter` for a single process; the commands that only read.

Pages of `CommentArchive` show all comments that the platform shows, one page per run. Two tasks that
measure one video at the same time occur in `discovery_exclusion` only.

## 9. How to run it

    tlc -workers 2 -config MCTaskQueue.cfg MCTaskQueue       # and so for each run of PROJECT.json
    tlapm TaskQueueProofs.tla                                # and the other *Proofs modules

Each run takes at most four minutes on two workers; `discovery` (0.5 million states, with liveness),
`latest_scan_gap` (1.5 million) and `cohort_execution` (0.6 million, with liveness) take longest,
`comment_archive` (0.4 million) is slow for its size because pages come in every order. The proofs take some
minutes in all, `LatestScanProofs` two of them, `CommentArchiveProofs` one and a half.
