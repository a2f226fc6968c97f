# gamevallies-backend: a TLA+ model of its task, money and recovery logic

The system turns a player's prompt into a playable game. This directory models the parts
of it whose correctness depends on the order in which things happen: creation sessions and
the generation tasks they start, the execution of generation commands, one run of the
pipeline and its model calls, iterations and publication of the finished game, and the
payments, quotas and subscriptions that pay for it. It says what TLC has checked on small instances and
what TLAPS has proved for every instance. Paths below are relative to `src/packages/`
unless they say otherwise.

## 1. Inventory

| Part | Where | State it keeps | Operations | What is hard |
|---|---|---|---|---|
| Durable command executor | `ai-engine/src/services/durable_task_executor.py` | Redis: command records, sorted set of pending ids; per process: handles | submit, sweep, claim, heartbeat, checkpoint get/put, finish, cancel, TTL | several processes race on one record; leases run out under a live execution; crashes; optimistic transactions |
| In-process task manager | `ai-engine/src/services/async_task_manager.py`, `async_task_store.py` | per process: records, idempotency index, handles; Redis: snapshots, idempotency keys | create, run, progress, cancel, prune | cancellation races start and finish; Redis comes and goes. With Redis both callers hand their command to the durable executor, so this path serves installations without it |
| Pipeline run | `ai-engine/src/engine/pipeline_v2_runner.py`, `pipeline_v2_validation.py` and the stages in `ai-engine/src/engine/*` | local to one run: the candidate code, what is known of it, attempts, patches, the deadline | plan, generate, preflight, contract QA, runtime QA beside a review, gate, patch, regenerate, degrade | a review runs concurrently with the browser and must be dropped with the code it reads; six kinds of retry share one plan; the deadline can fire in any await |
| Model calls | `ai-engine/src/services/llm_client.py` | a process-wide semaphore per concurrency limit, a heartbeat, checkpoints | complete, retry on truncation, timeout and provider errors, fail over, hedge | hedged attempts are cancelled in any state; the limit changes while requests are out; a lease is lost while an answer is on its way |
| Engine endpoints | `ai-engine/src/api/endpoints/generate.py` | per task: the chain of progress posts | admit, execute, relay progress and failures, finish | posts are chained, a finish waits for them; a crash between a relay and the finish executes the command again |
| Runtime QA scheduler | `ai-engine/src/engine/runtime_qa_scheduler.py` | notes of one coroutine per task | schedule, note | none: nobody decides by it |
| LLM gateway | `ai-engine/src/services/llm_gateway.py` | routes | order candidates | a pure function of the configuration |
| Prompt de-duplication, task memory | `ai-engine/src/services/prompt_dedup.py`, `task_memory.py` | similarity caches | look up, remember | best effort |
| Generation tasks and games | `game-service/src/game/generation-task.service.ts`, `game.service.ts`, `internal-generation.controller.ts` | MySQL: generation_tasks, games, game_bundles, the owner's quota | create, deliver, launch, progress, complete, fail, cancel, time out, reconcile, delete | each handler is a series of statements under InnoDB's REPEATABLE READ (a transaction sees the snapshot of its first read); relays, polls, users and the sweep act on one task |
| Iterations, publication | `iterate`, `publish`, `delete`, `completeIterationTask`, `failIterationTask` in `game.service.ts` | the same rows; a bundle per version, the version served | iterate, publish, delete, complete, fail, reconcile | the row of the game is read, written by several handlers and left to whoever is last; versions are numbers taken from what was read |
| Generation queue | `game-service/src/game/generation-queue.service.ts`, `src/deploy/fc/task-drain.cjs` | BullMQ jobs, maintenance flag | enqueue, deliver, drain | lost enqueue, ids BullMQ still remembers, admissions against maintenance |
| Creation sessions | `game-service/src/game/creation-session.service.ts` | MySQL: session with revision, status, turns | create, append, skip, generate, abandon, follow the task | optimistic revision checks beside unconditional status writes |
| Billing and access | `user-service/src/billing/*`, `game-service/src/admin/*-grant.service.ts`, access rules in `game.service.ts` | MySQL: subscription_orders, user_subscriptions, user_quotas, games.can_play and access_grant_source | create an order, poll, notify, activate, expire; take, unlock, refund; grant | payment notifications race polls and expiry and come twice; two services write the same rows |
| Accounts | `user-service/src/auth/*`, `user/*` | users, tokens, SMS codes in Redis | register, log in, refresh, check a code | a code is read and deleted in two calls |
| Feed and social | `feed-service/src/*`, `social-service/src/*` | likes, follows, comments, counters | toggle, list | counters beside rows |
| Growth, forks, statistics, administration, bundles, websockets | `game-service/src/*` | MySQL, object storage, sockets | CRUD (promotion banners, app releases), one transaction per fork, presentation | little ordering of their own |
| Deployment, schema, scripts | `src/deploy`, `src/infrastructure`, `src/nginx`, `src/prisma`, `src/scripts` | - | - | configuration |

How they interact. The game-service consumes quota and inserts a game and a task row,
then adds the task's id to a BullMQ queue. A queue worker posts the command to the AI
engine (`POST /api/v1/ai/pipeline/v2/run/async`, with the task id as
`X-Idempotency-Key`); the AI engine answers once the command is in Redis and one of its
processes claims it. Progress and failures come back as calls to
`internal-generation.controller.ts` (sequence numbers start at `attempt * 1000000`); the
game-service also polls the AI engine and sweeps the active tasks, oldest first. Inside
the AI engine a command executes one pipeline run, whose model calls save their answers in
the command's record before the run goes on. A creation session names the game it has
started and follows the game's task through whatever handler ends it. The
user-service activates subscriptions when a payment provider says so, and writes the
games such a payment unlocks; the game-service draws on free quota and subscriptions.

What makes each part correct:

- *Durable commands*: an accepted command is never lost, is started a bounded number of
  times, only its latest start decides its outcome, the outcome is final, and what one
  start has paid a model for the next one does not ask for again.
- *Generation tasks*: a task ends once, its game agrees with the outcome, the quota taken
  is given back exactly when the game is lost, and no game stays in generation.
- *Billing*: one subscription at a time, nothing overdrawn, usage equal to the games it
  was spent on, no payment without effect, and orders that say what happened.
- *Pipeline runs*: what is returned has itself been checked, run and reviewed; patches
  never make it worse; no review outlives the code it reads; every run ends.
- *Model calls*: the concurrency limit holds through failures, hedges and cancellations;
  a call that is over leaves nothing running; a durable answer is saved; a command that
  has been lost asks no model again; every call ends.
- *Creation sessions*: one live game per session, generated from the prompt the user was
  shown, and no session stuck in generation.
- *Iterations and publication*: one active iteration per game; the version served is
  stored; a published game stays published while it is iterated.
- *Queue* (not modelled): nothing is admitted once maintenance has counted what is left.

`PROJECT.json` lists every component with its status and every hazard at its line.

## 2. Modules

| Module | Models | Proofs |
|---|---|---|
| `CommandLifecycle` | what the executor promises: accept, begin, deliver, abandon, forget | - |
| `DurableTask` | the durable command executor, implements `CommandLifecycle` | `DurableTaskProofs` |
| `LlmCall` | concurrent model calls: retries, hedges, permits, checkpoints, cancellation | `LlmCallProofs` |
| `PipelineV2` | one pipeline run, create or iterate | `PipelineV2Proofs` |
| `CreationSession` | a session, the requests on it and the tasks that report to it | `CreationSessionProofs` |
| `GenerationTask` | a `pipeline_run` task, its game and one unit of free quota | `GenerationTaskProofs` |
| `Iteration` | the `pipeline_iterate` tasks of one game, its publication and deletion | `IterationProofs` |
| `Billing` | orders, payments, subscriptions, free quota, access to games | `BillingProofs` |
| `MC...` | model values, symmetry and request profiles for TLC | - |

The modules meet in a few values, and each keeps the half the others do not need:

- `GenerationTask` and `Billing` meet in the grant a game holds: the first has one kind of
  quota and every interleaving of the handlers that end a task; the second has both kinds
  of quota and what they meet: activations, unlocks, grants, and refunds that overlap.
- `GenerationTask` and `Iteration` see the AI engine as `CommandLifecycle` presents it: a
  record that is running, failing, ended or gone.
- `CreationSession` sees a task as the outcome it ends with and reports.
- `PipelineV2` sees a model call as a step that succeeds or fails in one of the families
  of errors its caller tells apart; `LlmCall` shows that this step ends and what it
  leaves behind. `LlmCall` sees its durable command as a lease that may be lost, which is
  what `DurableTask` does to a command whose owner is replaced.

### DurableTask

One record per id (`rec`), the pending set with its scores (`active`), the record's TTL
(`expires`), the polling loops (`sweep`), the executions alive in some process (`runs`)
and the updates that are computed and not yet applied (`txn`).

| Code | Actions |
|---|---|
| `change()`: WATCH, GET, compute, MULTI/EXEC | a step that puts an update in `txn`, then `...Exec` if the record is `Unwatched`, else `Retry` |
| `submit()`, `cancel()` | `Submit`, `Cancel`, one step at their EXEC, since they read no clock in between |
| `sweep()`, `claim()` | `SweepPoll`, `SweepGet`, `SweepZrem`, `ClaimRead`, `ClaimExec` |
| `_heartbeat()` | `BeatRead`, `RenewExec` |
| `checkpoint_get()`, `checkpoint_put()` and the runner's model calls | `LookUp`, `SaveRead`, `SaveExec`, `RunnerReturns` |
| `_run()` | `MainWakes`, `FinishRead`, `FinishExec` |
| process death, Redis errors, the TTL | `Crash`, `Interrupt`, `SweepFault`, `Expire` |

`progress()` is the same fenced write as `checkpoint_put()` with another payload.

### GenerationTask

Each handler (a request, a queue job, the sweep) is a frame in `run`: its `pc` is the SQL
statement or call that comes next, the rest what it has read and still uses. A handler
that returns becomes `Idle`. Transactions are two steps, the snapshot read and the
commit. `Decide` is `reconcileGenerationTask` after its reads, `Resolution` is
`deriveEffectiveTaskResolution`, `Settle` is `persistDerivedTaskResolution`.

| Code | Actions |
|---|---|
| `create()` | `ReadQuota`, `Insert` (with the conflict on the quota), `Enqueue` |
| queue worker, `launchPipelineTask`, `bindUpstreamTaskId` | `BeginDeliver`, `MarkRunning`, `Launch`, `Bind` |
| `reconcileGenerationTask`, status and sweep | `BeginSweep`, `BeginRequest`, `ReadTask`, `ReadGame`, `Fetch` |
| cancellation, `persistTaskCancellation` | `Stop`, `CancelRead`, `CancelWrite` |
| `failPipelineTask`, `persistFailureState`, `markFailed`, the failure relay | `FailTask`, `FailGameRead`, `RefundRead`, `RefundWrite`, `MarkRead`, `MarkWrite`, `BeginRelay` |
| `completePipelineTask`, `persistGeneratedGameResult`, `markSucceeded` | `MayTask`, `MayGame`, `PublishRead`, `PublishBundle`, `PublishSwap`, `PublishRetry`, `SucceedRead`, `SucceedWrite` |
| `delete()` | as cancellation, then `Ban` |
| progress relays, the AI engine, BullMQ's retention, time | `Progress`, `UpFails`, `UpEnds`, `UpLost`, `Evict`, `Deadline` |

### LlmCall

Everything runs on one asyncio event loop, so a step is the code between two awaits.
A caller (`call`) is one `complete_with_truncation_retry`; `att` is its attempt on each
candidate route; `free` counts the permits of every semaphore built so far and `cur` is
the one new attempts take; `saved` are the checkpoints of its durable command.

| Code | Actions |
|---|---|
| `complete_with_truncation_retry()`, `complete()` | `Prepare`, `Launch`, `TakeResult`, `Wake` |
| the hedge: timer, first answer, cancelling and gathering the loser | `HedgeTimer`, `Gathered` |
| `_complete_with_route()`: semaphore, request and heartbeat, checkpoint, release | `Admit`, `Acquire`, `Answer`, `Settle` |
| cancellation by the executor or a `wait_for`, whether the lease is held or lost; a lost lease | `Cancel`, `LoseLease` |
| `_llm_call_semaphore()` when the limit changes | `Reconfigure` |

### PipelineV2

A candidate text is what is known of it (`code`): whether it passed the contract QA, how
its runtime QA went, what its review found. New text starts with nothing known, so a
property over `code` is about the very text that is returned. `rtask` is the review that
runs beside the browser, `deadline` the `wait_for` around the run.

| Code | Actions |
|---|---|
| planning, generation, static repair | `Prepare`, `Generate`, `Preflight` |
| `_run_contract_and_runtime_flow` | `Contract`, `RuntimeQA`, `ReviewEnds`, `Discard` |
| the review of the text and the quality gate | `Review`, `Gate` |
| the patch loop | `Patch`, `Assess` |
| retry or failure after an error, by its family | `Raised` |
| the run's deadline | `Deadline` |

### CreationSession

`row` is the session's row, `run` the requests on it, `game` the games it has started and
`sync` how far the report of each game's task has come.

| Code | Actions |
|---|---|
| `appendMessage()`, `skipCurrentQuestion()` | `Append`, `Skip`, then `Rewrite` |
| `generateFromSession()` | `Generate`, `Claim`, `Create`, `Finish`, `Rollback` |
| `abandonSession()` | `Abandon`, `AbandonWrite` |
| `syncCreationSessionByTaskId` of `game.service.ts`, called by whoever ends the task | `TaskEnds`, `FailedAgain`, `SyncRead`, `SyncWrite` |

### Iteration

As `GenerationTask`, on a game that exists: `bundle` says which task stored each version,
a task row has the version it will store and the status its game had (`baseStatus`), and
`fresh` (kept in a frame) says that the copy of the game it holds is still the row.

| Code | Actions |
|---|---|
| `iterate()` | `EditReadGame`, `Ensure`, `Recheck`, `ReadLatest`, `Claim` |
| `publish()` | `EditReadGame`, `Ensure`, `Recheck`, `Publish` |
| `delete()` | `EditReadGame`, cancellation, `Ban` |
| queue worker, launch | `MarkRunning`, `Launch`, `Bind` |
| `reconcileGenerationTask` | `ReadTask`, `ReadGame`, `Fetch` |
| cancellation | `Stop`, `Reset`, `CancelRead`, `CancelWrite` |
| `failIterationTask`, `markFailed` and the failure relay | `FailTask`, `FailGame`, `FailWrite`, `MarkRead`, `MarkWrite` |
| `completeIterationTask`, `persistGeneratedGameResult` | `MayTask`, `MayGame`, `PublishRead`, `PublishBundle`, `PublishSwap`, `PublishRetry`, `SucceedRead`, `SucceedWrite` |
| progress relays, the AI engine, process death | `Progress`, `UpEnds`, `UpLost`, `Crash` |

### Billing

One account. Rows are functions from ids; handlers are frames as above. Reading steps
also write what `markExpiredSubscriptions` writes first (`Fresh`). `persistFailureState`
and `persistTaskCancellation` read a grant (`RefundRead`) and give it back later, several
of them for one game at a time; `drift` records, for each counter, what those that came
too late have put it out by.

| Code | Actions |
|---|---|
| `createOrder()` | `OrderFind`, `OrderRenew`, `OrderInsert`, `OrderFail` |
| `getOrderStatus()`, `getSubscriptionStatus()` | `PollRead`, `PollExpire`, `GetSubscriptionStatus` |
| notifications of both providers, `activateOrder()` | `NotifyRead`, `Activate`, `NotifyAgain`, `NotifyOther` |
| `create()` against both quotas, `unlock()`, refunds | `TakeRead`, `TakeFree`, `TakeSub`, `TakeNone`, `TakeConflict`, `UnlockRead`, `UnlockWrite`, `UnlockConflict`, `RefundRead`, `RefundFree`, `RefundSub` |
| the two grant services | `GrantSub`, `GrantFree` |
| providers, time, rolled-back transactions | `Pay`, `OrderTime`, `SubTime`, `Abort` |

## 3. Assumptions about the environment

- *MySQL*. One Prisma statement is atomic, a conditional `update` (with `where` on more
  than the id) included. A transaction reads the snapshot of its first read and writes
  the rows as they are: two transactions may read the same row and write it one after
  the other. Transactions that cancel or create subscriptions serialise on the locks of
  the account's rows of `user_subscriptions`; where InnoDB resolves the conflict by a
  deadlock one of them is rolled back (`Abort`).
- *Redis*. One command and one MULTI/EXEC are atomic; a client that loses the
  connection may not learn whether EXEC happened (`Interrupt` after `ClaimExec`).
- *Clocks* of processes differ by at most `MaxSkew`.
- *Payment providers* repeat a notification until it is answered with success, may
  repeat it after that, and move a trade only as `Moves` says.
- *BullMQ* ignores an id it still knows, and forgets ended jobs at some time (`Evict`).
- *asyncio and Node*. Code between two awaits is one step. A cancellation is delivered at
  the await its target is in. A thread that runs the synchronous Anthropic client goes on
  after its attempt has timed out, without a permit; it changes nothing the model has.
- *Model providers* answer, fail or stay silent until the attempt's timeout. The second
  request an attempt sends in the other protocol, when the first is not understood, and
  the exclusion of a provider for a while are part of the outcome of `Answer`.
- *Stages*. What a prompt, a text, a reviewer or a browser does is the outcome of a step.
- `GenerationTask` has one task per game; the tasks that follow it are in `Iteration`,
  where a job may be delivered at any time and again, a handler that looks may find the
  deadline passed, and no game is in the status `review`, which nothing writes.
- `CreationSession`: a client may leave out the revision it has seen, so that this check
  refuses nothing; a task's end is reported once unless a slip is spent on a repetition;
  reading the metadata does not fail.

## 4. Runs

| Run | Question | Instance |
|---|---|---|
| `durable_recovery` | Do two processes that race for one command, and for the next life of its id, through expired leases, skew, a crash and late writes keep outcomes final, fenced and numbered, and implement `CommandLifecycle`? | 1 command, 2 processes, 1 fault, skew 1, TTL within the horizon |
| `durable_pool` | Is the concurrency respected by a process that counts its room once, claims several commands on it and replaces handles of lapsed ones? | 3 commands, 1 process with room for two, no fault |
| `durable_liveness` | Does every accepted command end, do executions that lost it stop, and does what a model has answered stay saved? | 1 command, 2 processes, 1 model call, 1 fault, fair |
| `generation_serial` | With handlers that take turns and one crash or one loss of the AI engine's record: are grants, outcomes and games in agreement, and does every task end? | 1 game, 1 handler at a time, 1 fault, fair |
| `generation_races` | The sweep beside one request or job, statement by statement: is no unit of quota lost, does no task end without its game, does no ended task come back, does every game come out of generation? | 1 game, 2 handlers, fair |
| `billing_account` | One subscription at a time, nothing overdrawn, usage equal to the games it opened but for the drift of late refunds, no payment without effect? | 1 Alipay order, 2 games, 1 administrator's request, 2 handlers, 1 fault, 3 subscriptions |
| `llm_calls` | Do permits return to the semaphore they came from, does a call leave nothing running, is a durable answer saved, does a lost command ask nothing more, does every call end? | 2 callers, 2 routes, limits 1 then 2, five mixes of arguments, fair |
| `pipeline_runs` | Is what a run returns itself evidenced, are patches never worse, is no review left behind, does every run end? | 5 kinds of create, 2 of iterate, a deadline that may fire or be swallowed, fair |
| `pipeline_iterate` | *violated*: is what an iteration returns checked? | 2 kinds of iterate |
| `session_requests` | One live game, generated from what was shown, no session stuck? | 2 requests, 2 games, 2 prompts, 4 revisions, 1 slip, 1 crash, fair |
| `iteration_overlap` | One active iteration, the version served stored, generation only while a task will end it? | 2 handlers, 2 iterations, 3 versions, 1 fault |
| `iteration_published` | *violated*: does a published game stay published while it is iterated? | 1 handler, 2 iterations, no fault |

What the properties mean is said in the comment above each of them. The hazards each one
is aimed at are in `PROJECT.json`, and so is, for every property of a passing run, a
change of one definition (a mutant) that a plausible bug would make and that breaks it.
Configurations that `PROJECT.json` does not list are run by hand,
`tlc -config X.cfg MCY`; section 6 says what they show.

### Bounds and why they are enough

- *Time*. `MaxClock` stands for "any later time": leases are cut off there, so the last
  tick is one in which everything is due. `durable_recovery` has room for a lease, its
  expiry, a second start past the deadline, and a record that expires and whose id is
  submitted again while executions of its first life go on (`LeaseS = 1`, `TimeoutS = 1`,
  `TtlS = 2`, `MaxClock = 3`). The code's lease is 90 s and its TTL a day. In the liveness
  run `TtlS` lies beyond the horizon: with the TTL inside it the poll that removes an
  expired id can remove one accepted in between, and that command is lost
  (`DurableTask_ttl.cfg`).
- *Room*. Three commands and room for two: a pass claims two commands on one count, the
  third has to wait, and with `LeaseS = 1`, `MaxClock = 2` a lapsed command is claimed again
  and replaces its handle. One process suffices: the handles of another are its own.
- *Attempts*. `MaxAttempts = 2` has a first, a last and a refused claim; the code's 3
  adds one more of the middle kind. In `GenerationTask` two tries are a failure that is
  tried again and one that is given up; the code has three.
- *Faults*. One crash or Redis error at any step; two processes and one fault already
  give a stale execution beside its successor, since leases run out without any fault.
- *Handlers*. Two that overlap give every pair of handlers; the violated properties need
  no more. `GenerationTask_quota.cfg` has three, two creations and the sweep: the last
  unit is not oversold (`QuotaCap`). `CreationSession` without faults holds with three.
- *Calls* bounds the requests there are in `GenerationTask` and `Iteration`. In
  `iteration_overlap` five are two iterations with their jobs and a relay, publication,
  cancellation or deletion beside them. A bundle stored twice by the same task
  (`PublishBundle` finds its own) needs seven and is not reached there.
- *Model calls*. A profile says how many retries of each kind a call may make and how many
  of them find a larger limit: one of each, since the counters are independent. Two
  routes are a hedge and its primary. The limit rises from 1 to 2 while a permit is out,
  so that two semaphores are in use.
- *Pipeline*. The retry limits are the code's. `MaxDeficit = 2` has a review that passes, a
  near miss (at most 1 below) and a failure, in each of the two dimensions.
- *Sessions*. Two games are a second generation after a failed one; four revisions let
  both be preceded by an edit.
- *Games, orders, subscriptions*. Two games are needed for a unit refunded for one and
  consumed by the other. One order is enough for everything one payment can meet; two
  orders that are both paid replace each other's subscription as a renewal does, and the
  administrator's request stands for that second source. `MaxSubs = 3` has
  room for the activation of the order, the same once more by a notification that
  overlapped, and the grant.
- *Symmetry*: processes of the same kind and games are interchangeable in the runs
  without liveness.
- `CHECK_DEADLOCK FALSE`: time and faults are bounded, and a system whose commands or
  tasks have all ended, with no time left, waits for nothing. `Billing` never stops,
  because a status request is always possible, and checks deadlock.

### Fairness

- `DurableTask`: weak fairness of the tick, of each process's polling loop and of the
  main coroutine of executions, which its event loop wakes up. None of the heartbeat, the
  runner, the model provider or the client: a command ends because leases and deadlines
  run out.
- `GenerationTask`: weak fairness of each handler that is under way (it awaits statements
  and calls with timeouts) and of the deadline; strong fairness of the sweep's visit to
  each active task, because `reconcileActiveTasksInBackground` takes the fifty tasks
  updated longest ago, one after the other, and each of those ends at its deadline at the
  latest. None of the AI engine, the queue, relays or requests.
- `LlmCall`: weak fairness of each caller and each attempt, which the event loop resumes and
  whose requests have timeouts. None of cancellations, lost leases and configuration.
- `PipelineV2`: weak fairness of the run's step: model calls and browser runs end.
- `CreationSession`: weak fairness of each request's next statement. None of requests,
  of tasks and their reports.
- `Iteration` and `Billing`: none, their properties are safety.

## 5. Proofs

`DurableTaskProofs`, for every number of commands, processes, model calls, ticks, faults
and every skew, lease and TTL:

| Theorem | Says |
|---|---|
| `TypeCorrect` | records, executions and updates keep their types; no record counts more than `MaxAttempts` starts |
| `FencedAlways` | the inductive invariant below |
| `OutcomesFinal` | a terminal record is never written again |
| `CheckpointsSurvive` | no write drops a saved model output |
| `LifecycleImplemented` | the executor implements `CommandLifecycle` |
| `RoomAlways` | no worker tracks more executions than its limits, for finitely many commands |
| `AttemptsAlwaysDistinct` | two executions of one life of a command never share an attempt, for a TTL longer than clocks are apart |

That an outcome is final does not follow from the record: an update in `txn` was computed
some time ago. `Fenced` adds what makes it true. `UpdatesLawful`: each update was computed
from an open record, keeps its checkpoints, and belongs to the record's owner unless it is
a claim; since `EXEC` needs the record to be that copy still, a terminal record has no
update that applies. `RecordsLawful`: a record nobody claimed has no owner and a record
that is gone left nothing. `TokensLawful`: a token is given out once, and the execution
that holds it carries the attempt the record counts, from which the number a finish
stores is the latest one. The proof that a step keeps `Fenced` first shows that most steps
only close executions and updates (`Quiet`) and treats reads, claims and the rest one by
one. `OutcomesFinal`, `CheckpointsSurvive` and the refinement look only at the effect of a
step on the records (`Effects`, `StepEffects`): an update is applied, a command is
submitted or canceled, or a record expires.

Records expire and their ids are submitted again in all of this. `AttemptsDistinct` tells the
lives of an id apart by the deadline every execution carries: `Lifetimes` bounds a record's deadline by the clocks that were read and
its expiry, so that a later life has a later deadline if `TtlS > MaxSkew`, and `Numbered`
says that no execution is ahead of what its record has counted. `RoomHeld` counts the
claims a poll still has to make together with the executions it tracks. That the pending
set and the records agree (`PendingIndexed`) is no theorem and no property of a run: the
code does not keep it (section 6).

`BillingProofs`, for every number of orders, games, handlers, requests and
subscriptions, every quota and any number of faults:

| Theorem | Says | Argument |
|---|---|---|
| `TypeCorrect` | rows and handlers keep their types, no counter goes below zero | inductive |
| `OneActiveAlways` | one live subscription at most | `SubSteps`: a step lets subscriptions end or go on, or begins one and ends all others |
| `WithinQuotaAlways` | nothing is overdrawn | `QuotaInv` adds that an unlock under way has read a number that leaves room; the conditional increment adds to that number or does nothing |
| `PaymentHonouredAlways` | a settled payment has had an effect | `PaymentInv` adds that a paid order, whose notifications are answered unseen, has a subscription, and that a number not yet used belongs to nobody; `OrdersSettle`: only an activation or the answer for a paid order settles one |
| `UsageMatchesAccessAlways` | for finitely many games: the units counted in the free quota and in the active subscription are the games that were given them, but for the drift of late refunds; in the free quota that drift only favours the account, and a replaced subscription never counts fewer than its games | `AccessInv`: what a handler relies on stays true until its write (`Relies`): a game it unlocks was given to no creation, and the grant a refund gives back is still there or the refund is late; one creation of a game is under way at a time (`Alone`) |

`LlmCallProofs`, for any number of callers and routes, any limits and any arguments:
`TypeCorrect`, `NothingLeftBehindAlways`, `ResultSavedAlways`, `PermitsReturnedAlways` and
`LostAsksNothingAlways`. Permits are counted: the permits of a semaphore and the
attempts that hold one make up its limit, and a step of one attempt moves one between the
two. The rest follows from an invariant of one caller, `Good`, which says for each place
`complete` can be in which of its attempts can be alive and what their outcomes are, so
that a step of another caller cannot touch it. That a lost command asks nothing needs no
assumption on when calls are cancelled: an attempt passes `assert_owned` before it waits for
a permit, and no step goes from there back to holding the lease. That a *canceled* call
sends nothing is false while its command holds the lease (section 6).

`PipelineV2Proofs`, for every set of requests and all limits: `TypeCorrect`,
`AcceptedIsEvidencedAlways`, `PatchNeverWorseAlways`, `NoOrphanReviewAlways`. The
invariant says what each await knows about the code it holds: `Shaped` and `Counted`
(types and the attempts used), `Checked` (what has passed by now), `Reviewed` and
`Unmended` (a text that has not been patched has no base to compare with), `Passed`
(the gate), `Attended` (who awaits the review). `RaiseEffect` reduces the ways a step
can fail to one: an error is raised, the code is dropped and either a retry or the end
follows.

`CreationSessionProofs`, for any number of requests, games, prompts, slips and crashes:
`TypeCorrect`, `OneLiveGameAlways`, `GeneratesShownAlways`. The argument (`IInv`): whoever
may still reopen the session (a generation before its last write, or a report that is due)
or has a live game in it is alone, and the session is closed as long as there is one.
Without slips this is inductive; with them only the prompt shown for past revisions
remains, which is why `OneLiveGame` speaks of runs without a slip.

`GenerationTaskProofs`, for any number of games, handlers that overlap on them, tries and
faults, and without an assumption on how handlers take turns: `TypeCorrect`,
`NoResurrectionAlways`, `QuotaCapAlways`, `NoUnitLostAlways` (for finitely many games) and
`EndedIsSettledAlways`. A game without a task is known to nobody but the one handler that
creates it (`IInv`), so the one statement that makes a task active finds none, and every
other one starts a queued task or ends it. A transaction of `create` adds to the count it
has read or conflicts. For `NoUnitLost`, `Accounted` adds that a refund about to be written
has seen the grant if it is still there: grants are given once, so a late refund may give a
unit back twice (`GenerationTask_refund.cfg`) but never fails a game and keeps its unit. For
`EndedIsSettled`, `Sane` says of each frame what stays true of its game whatever others do
(`Sound`): a bundle stays saved, and a game that has left generation never goes back; from
that follows how the rows agree (`RowLaw`), and that a failed task's game which is still in
generation is in the hands of the handler that was told of the failure, unless a process died.
Task and game may disagree otherwise, a canceled task with a draft for one
(`GenerationTask_outcome.cfg`).

`IterationProofs`, for any number of handlers, iterations, versions, calls and faults:
`TypeCorrect`, `OneActiveTaskAlways` and `RowsAgreeAlways`, whose first part is
`LiveVersionStored`. That a second iteration cannot become active rests on the conditional
write of the claim: while the copy a handler read is still the row (`fresh`), the active
tasks are at most the one it has found and waited for, and at the claim there are none.
That the version served is stored: every frame that is about to write a version to the game
names a bundle that was found or has been written. For the rest of `RowsAgree` three facts
are inductive together. `AllBorn`: nothing refers to a task before it exists. `Turns`: while
no two handlers have overlapped, what a handler has read of its task still holds, and an
active task shares its version with no bundle but its own. `Owed`: without a fault, a game
in generation is owed to some task, one that is active or one whose handler is on its way
to reset the game, and nobody is about to end that task trusting a copy of the game. This
last one holds for handlers that overlap too.

The proofs use only the `ASSUME` over the constants of the module they are about.

Every safety property of the passing runs is stated by a theorem, with two exceptions:
`QuotaMatchesGrants` and `OutcomesAgree` of `generation_serial` hold for handlers that take
turns, which the code does not enforce, and are model-checked for one handler at a time
only; `NoUnitLost` and `EndedIsSettled` are what remains of them for handlers that overlap.
Model-checked and not proved is also liveness (`EveryCommandEnds`, `StaleRunsStop`, `EveryTaskEnds`,
`EveryGameSettles`, `EveryCallEnds`, `RunEnds`, `SessionSettles`), which needs ENABLED and
is out of the prover's reach, as is what a recursive definition computes for every input:
induction over data and RECURSIVE operators have no backend. The modules use no recursion.

## 6. What the runs found

Disagreements between the code and what the repository says of it:

| Run | Where | What |
|---|---|---|
| `pipeline_iterate` | `pipeline_v2_runner.py:1147` | an iteration whose code fails the contract QA leaves its attempts and is returned as a success, without any runtime QA |
| `iteration_published` | `game.service.ts:3882`, called at 2285-2307 | an iteration completed from the engine's answer is not told the status its game had: a published game goes back to draft, at another version |

Behaviour of the code that a reader of the properties should know, each reproduced by
`tlc -config X.cfg MCY`:

| Configuration | Property | Where | What |
|---|---|---|---|
| `DurableTask_ttl` | `PendingIndexed` | `durable_task_executor.py:138` | a poll that finds a record gone removes the id from the pending set in a second command; the same id submitted in between is accepted and never claimed |
| `GenerationTask_stuck` | `EveryGameSettles` | `internal-generation.controller.ts:335` | a relayed failure marks the task first; if the process dies before the game is failed and refunded nobody does it later, since the sweep reads active tasks only |
| `GenerationTask_outcome` | `OutcomesAgree` | `game.service.ts:4502` | a failure checks the game before its transaction and fails it by id: a result published in between leaves a succeeded task with a failed game; a cancellation likewise leaves a canceled task with a draft |
| `GenerationTask_refund` | `QuotaMatchesGrants` | `game.service.ts:4533` | two failing handlers read the same grant and both refund it; `drift` in `Billing` records what that does to either kind of quota, and that a refund after an unlock closes the game again |
| `Billing_poll` | `OrderSaysPaid` | `billing.service.ts:311` | a poll cancels, by id, an order whose payment was activated after it read it |
| `LlmCall_budget` | `CanceledSendsNothing` | `llm_client.py:1820`, `durable_task_executor.py:109` | a call that is cancelled while its command holds the lease (by the `wait_for` of the run or of a review, by the executor's `close()`, or after a Redis error in its heartbeat) takes that for a provider's cancellation and sends its request again |
| `CreationSession_again` | `AtMostOneLive` | `creation-session.service.ts:279`, `game.service.ts:3488` | a failure that is reported again opens the session under a generation that has begun since |

Noted while modelling, without a run: a second cause of `PublishedStays`, a failure that
is reported late or twice (`game.service.ts:3937`); a session can be abandoned while it
generates and comes back when the generation rolls back, although
`DYNAMIC_CREATION_DIALOGUE_DESIGN.md:1110` excludes it, and it is completed as soon as its
task is queued (1283); a transport failure of the last attempt of a plan is granted a
retry that the plan has no room for (`TransportRetry` in `PipelineV2`,
`pipeline_v2_runner.py:827`); the singleton runner keeps `_last_fun_score` for all runs;
a hedged call fails over after a 403 although `llm_client.py:1444` stops there in an
unhedged one.

## 7. Not modelled

`PROJECT.json` has the reason for each part. In short: HTTP, storage, signatures, prompts
and the content of games (no ordering of their own), which is most of the AI engine's
code by lines: prompt assembly, text analysis and repair in `runtime_qa.py`,
`dialogue_engine.py`, `code_preflight.py`, `qa_pipeline.py` and `code_generator.py` are
outcomes of a step of `PipelineV2`. Further: CRUD services; best-effort caches; of
`game.service.ts` covers, visibility, forks and local execution outside production; plan
administration, and `users.is_pro`, which copies the subscription and decides nothing.

## 8. Plan

Done: `CommandLifecycle`, `DurableTask`, `Billing`, `LlmCall`, `PipelineV2`,
`CreationSession`, `Iteration` and `GenerationTask`, with a proof of the safety properties
their runs check (section 5 names the two that are not proved). Left, the most important first:

1. `EngineRun`: the endpoints of `generate.py` around a run. Progress posts of two
   executions of one command can overtake each other; a crash between the relay of a
   failure and the finish executes a failed task again; a Redis error while a response is
   stored turns it into a failure.
2. `AsyncTaskManager`: the path without Redis, where nothing is awaited between creating
   a task and its first step; what is left to check is a runner that swallows its
   cancellation.
3. `GenerationQueue`: delivery, the sweep's scheduler, maintenance (`task-drain.cjs`).
4. Smaller ones: `InteractiveRun`, `SmsCode`, `LikeToggle`; pure policies (candidate order
   of the LLM gateway, failure classification) as functions against a reference
   definition.

Runs of the modules to come will be one safety run and at most one liveness run each, on
two handlers; runs above whose question a larger one answers too will be merged into it.
