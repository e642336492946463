# TLA+ models of SEO GOD AI

SEO GOD AI is a TypeScript monorepo (`src/packages/*`, `src/apps/*`) that crawls
Shopify stores, analyses them, plans changes and executes them unattended. This
directory holds TLA+ models of the parts where the order of events, or a long
calculation over many records, decides whether the system is right, the TLC
configurations that check them on small instances, and theorems about them that
TLAPS checks for every instance.

## The system and its hard parts

| Component | State it keeps | What is hard | What makes it correct | Modules |
|---|---|---|---|---|
| **scheduler** | jobs, run records, a lock store with expiring leases | instances and overlapping ticks work from snapshots; leases expire; handlers outlive their timeout; whole records are written back | leases exclude, attempts are bounded, no job is stranded, run records are final, cron finds the next instant | `JobScheduler`, `LeasedMutex`, `CronSearch` |
| **execution-engine** | executions, steps, store locks, kill switch | kill switch or cancel during a run, a publish that lands after its timeout, rollback of half done work | one writer per store, a rollback restores what was written, only what was checked is written | `ExecutionEngine`, `ExecutionPreparation`, `ShopWrites` |
| its **queue and pool** | entries, claims, worker loops | cancel or failure of a claimed entry, two retry limits, stop while busy | an entry is in one worker's hands, is tried within its limits, and the pool drains | `ExecutionQueue` |
| **events**, **observability** | the outbox table, execution records | pollers that race for the same rows, a poller that dies, events out of order and twice | delivered means handled, statuses never go back | `OutboxEventBus`, `ObservedExecutions` |
| **ai-orchestrator** | workflow and step records, checkpoints; a priority queue with a bounded number of drains; a registry of agents, their memory | dependency order under failure, cancellation and recovery; a drain that ends while work arrives; agents that go while they work, answers that come after a timeout | steps run after what they depend on, once, and the run ends; nothing is stranded; agents propose what the plan decided | `WorkflowEngine`, `AgentScheduler`, `AgentTasks` |
| **crawler** | URL queue, visited set, sleeping workers, the job's row | workers that must wake each other, limits, writes that are rejected | a completed crawl has every reachable URL, once, and a crawl ends | `CrawlScheduler` |
| **google-integrations** | a credential, sync cursors | a refresh, a late failure, a day that is not over | no day is left with half its data | `GoogleSync` |
| **decision-engine** | decisions, plans, tasks, approvals | check, await, write back, by several callers, planning again | a change was approved, the rows tell what was done | `PlanAssembly`, `DecisionPlans` |
| **shopify** client and publisher | a shop's resources, captured states | requests that are applied and whose answer is lost, edits by others | a restore brings back what was there | `ShopWrites` |
| **enterprise**, **api** | organizations, members, accounts, sessions, subscriptions, webhooks, API keys, the audit log | hashes, checks and a billing provider that take a while; a key that is revoked while its request is handled | memberships can be reached, spent sessions stay spent, the outside agrees with the records, administration can be traced | `Organizations`, `Accounts`, `Sessions`, `Billing`, `ApiAccess`, composed in `TenantServices` |
| **plugin-sdk** | plugins in the order they were installed, event deliveries | plugins that come and go while an event is delivered | a subscriber that stays is served exactly once | `PluginRegistry` |
| **knowledge-graph** | snapshots with versions | two awaits between choosing a version and saving it, keys shared by snapshots | a snapshot can be loaded again, a diff shows the update and nothing else | `KnowledgeGraph`, `GraphSnapshots` |
| **reports** | schedules, KPI records | sources that change while they are read one after the other | a report agrees with itself, one per minute | `Reporting`, `ReportRuns` |
| **learning-engine**, **seo-engine**, **agents** | outcomes and feedback; none; invocations and memory | long calculations with bins, caps and overrides; results checked by a contract | evidence counts for what it says; a severe issue surfaces; results keep the contract | `LearningEngine`, `SeoAudit`, `AgentAnalysis`, `AgentRuns` |
| **ai-copilot** | conversations handed out by reference, the audit trail | chats on one conversation that interleave, are aborted or abandoned | each chat keeps its account, tenants stay apart | `Copilot` |
| **api realtime**, **web** | crawl jobs, an outbox in memory, a hub with a short history; the browser's session, route, inbox, chat | a health check that empties the outbox, streams that open late, answers that arrive after a logout | streams are whole, pushes are true, signed in means saved | `RealtimeApi`, `WebSession`, `WebUpdates` |
| everything else | – | requests, rendering, parsing | – | see *Not modelled* |

The components call each other through awaited method calls inside one Node
process and share state through repositories and the database; the scheduler's
handlers start crawls, analyses and executions, the execution engine and the
scheduler publish on the event bus, observability consumes it, and the API
exposes all of it. JavaScript runs to the next `await` without interruption, so a
step of every model is the code from one awaited call to the next.

## How the models are laid out

One module per component, with its constants and their assumptions, `…Init`, an
action per operation or awaited part of one, `…Next`, `…Spec`, a type invariant
and the properties at its end. Where one component is built on another the module
extends the other's and its steps contain the other's: `ObservedExecutions` is a
handler of `OutboxEventBus`, `Accounts` calls `Organizations`, `DecisionPlans`
executes what `PlanAssembly` assembles, `AgentRuns` records what `AgentAnalysis`
concludes, `GraphSnapshots` stores the graphs of `KnowledgeGraph`, `ReportRuns`
calculates with `Reporting`, `JobScheduler` implements `LeasedMutex`.
`TenantServices` composes the services of one process, a step of one leaving the
others as they are. Operators whose comment says *Mutant* are the plausible
mistakes each property is known to notice; no specification uses them.

`MCJobScheduler` and `MCExecutionEngine` give the two core modules their
instances. `MCWorkers` and `MCServices` hold the others: a variable `part`,
chosen at the start, says which component runs, and the rest keeps one initial
state. As the components named by `part` share no state in the code either, the
states of such a run are the sum of theirs and each behaviour is one of the
component's own specification.

## Where the development stands

All components of the plan are modelled. The safety invariants of both core
modules, of the queue, the outbox, the agent scheduler and the workflow engine,
of the decision engine's plans, the crawl, the sync, the execution records, the web
session, the cron search and the plugin registry, what an execution prepares,
writes and restores, and those of accounts, sessions, billing, webhooks, keys
and the audit log are proved for every instance. What would come next is time:
the spacing of calls by the AI rate limiter and daylight saving in the cron
search.

## The scheduler

`JobScheduler.tla` models `packages/scheduler/src/service.ts` over
`repository.ts` and `lock.ts`.

| Model | Code |
|---|---|
| `jobs`, `runs` | the two maps of `MemoryJobRepository`; a run is "unsaved" between its construction and `saveRun` |
| `lock` | the lock store's entries: owner and expiry |
| `pc`, `queue`, `att` | one call of `runDueJobs` or `runNow` in progress (a *flow*): where it awaits, the snapshots it has still to run, and the locals of `runAttempt` |
| `Owner` | which instance a flow runs on; several flows of one owner are overlapping ticks, which `start()` does not prevent |
| `client` | an `update`, `cancel` or `delete` between its read and its write |
| `orphans` | handlers that went on after `withTimeout` rejected their attempt |
| `clock`, `Tick` | `now()` |
| `BeginTick`, `RunNow` | `runDueJobs` up to its queue, `runNow` up to its check |
| `Acquire` … `Release` | `runAttempt`, one action per awaited call |
| `TryFault`, `CatchFault`, `LockFault`, `Crash` | a rejected repository or lock call in the try block, in the catch block, outside both; the death of an instance |
| `Schedule`, `Require`, `Update`, `Cancel`, `Delete` | the operations callers use |

A cron expression is the finite set of its fire times; the empty set is null. A
priority is a number, smaller first. Kinds, names, payloads, timezones, events
and metrics are left out: nothing the properties speak of depends on them. A
rejected call is one that had no effect.

### Properties

* `TypeOK`.
* `LeaseExclusion`: two attempts at one job never hold live leases together. The danger is a late holder that releases the lease of its successor.
* `MutexSpec`: the scheduler implements `LeasedMutex`, which knows neither clocks nor owners, under the mapping `inside`.
* `AttemptBudget`: the `attempts` counter of a one-shot job that is attempted never passes `maxRetries`, although it is written back from snapshots that may be stale. It is a statement about the counter, not about the attempts: two instances that both read 0 both write 1, and the job is attempted once more than `maxRetries + 1` times.
* `RunningMeansInFlight`: until a call is rejected or an instance crashes, a job stored as running has an attempt that will still store its outcome.
* `TerminalRunsImmutable`: until a call is rejected, a run's outcome is final.
* `OneShotWorkIsBounded`: on one instance with one tick at a time, a one-shot job succeeds at most once (`OneShotRunsOnce`) and is attempted at most `maxRetries + 1` times, and once more for each rejected call or crash, which can keep an attempt from being counted.
* `DueIsServed`, `OneShotSettles`: there, due jobs are served in spite of the queue limit, and one-shot jobs come out of every retry, unless a rejected call or a crash left one stored as running with nobody at work on it.
* `CancelHolds`: once nobody holds a snapshot older than the cancellation, no update and no tick brings a cancelled job back.

### Runs

| Run | Instance | Shows |
|---|---|---|
| `SchedulerInstances` | two instances, one job (one-shot with a timeout and one retry, or recurring), leases of 2 in 4 instants, one rejected call or crash | the safety properties above |
| `SchedulerLone` | one instance, two jobs, one-shot with a timeout and a retry or recurring with precedence, a queue limit of 1, 4 instants, one rejected call or crash, fairness | `OneShotWorkIsBounded` and the liveness properties |
| `SchedulerCallers` | one instance, a caller, three operations out of schedule, update, cancel, delete and runNow, one fault | `CancelHolds` |
| `ViolStaleSnapshot`, `ViolTimeoutOrphan`, `ViolCancelOverwritten` | two instances, or one and a caller | what the documentation says and the code does not do, below |

One job is enough for the safety properties: attempts at different jobs share
nothing but the run list and the order of a flow's queue, which `SchedulerLone`
exercises with two: with its queue limit of 1 the job of lower priority is left out
of every tick in which the other is due. Leases of two instants expire in the middle of an attempt, at
its end and not at all. Four instants hold a first attempt, a backoff and a retry,
and three occurrences of a recurring job. Runs, clock, callers' operations and
faults are the bounded quantities (`MaxClock`, `MaxOps`, `MaxFaults`). Deadlock is
not checked: when the clock is at its end and every job is finished, nothing is
left to do.

`FairSpec` assumes that time goes on, that a free instance goes on polling
(`setInterval` does not stop by itself) and that awaited calls return, handlers
included: a handler without a timeout that never returns holds its flow for ever.
Callers, timeouts and failures are not assumed to happen.

### Where code and documentation part

* `ViolStaleSnapshot`: due jobs are read before the lock is taken and not read again; a one-shot job that another instance has finished is run a second time.
* `ViolTimeoutOrphan`: a timed out handler is not stopped, and the job's next occurrence starts on another instance beside it.
* `ViolCancelOverwritten`: an attempt in flight writes its whole record back over a cancellation. The same write brings a deleted job back and undoes an update.

The models contain more of the kind, which need no run of their own: two ticks of
one instance both acquire a job's lock, since it lets its owner in again; the lease
of a handler that runs longer than `lockTtlMs` expires; a call rejected in
`finalizeSuccess` makes a finished run a failed one and repeats its work; a job
marked running by an instance that died stays running.

### Proofs

`JobSchedulerProofs.tla` proves, for every set of jobs, instances, flows and
callers, every TTL, limit, backoff, input and patch, and every bound:

| Theorem | Assumes | Strengthening |
|---|---|---|
| `TypeCorrect` | – | `TypeOK` is inductive |
| `LeasesExclude` | `OneCallEach`: an instance has one call in progress | `LiveOwnsEntry`: a live attempt owns the entry of its job, with its own expiry. Needed because exclusion itself says nothing of the store a third flow consults |
| `ImplementsMutex` | `OneCallEach` | exclusion in the next state gives the guard of `Enter`; every other step only takes flows out (`Leave`) |
| `BudgetHolds` | `TicksOnly`: callers use neither update nor runNow | `BudgetInv`: stored pending jobs, queued snapshots and attempts are all within the budget, so a stale write-back is too. A statement about the counter only |
| `NoStrandedJob` | `NoUpdates` | `RunningInv`: no caller carries a patch; only `MarkRunning` stores running, only `Finalize` and `Settle` end an attempt that owes an outcome |
| `RunsAreFinal` | – | `RunsInv`: attempts in flight have runs of their own, and those that still owe an outcome have a run without one |
| `CancelIsKept` | – | `IdsInv`: nobody holds a record (`Held`: stored, queued, attempted or called with) of an id that was not handed out, so no later `Schedule` can bring one back. Every record a step stores or queues was held before it; those held by nobody else are the stored one, which is cancelled and therefore not due |
| `OneShotWorkBounded` | `OneCall`: one call at a time on one instance; `TicksOnly` | `OneShotInv`: all records of a job are of one kind, a queue has one snapshot of a job and none of the one attempted, and what may still be run (stored pending, queued, attempted before its outcome) has not succeeded; an attempt that has is the only one. `CountInv`: what is stored pending, queued, or attempted and not settled carries a counter short of the attempts made (`Cardinality` of the job's runs) by no more than the rejected calls and crashes so far |

The assumptions are necessary: overlapping ticks, runNow, update and rejected calls
break the properties they are excluded from. `OneCall` in particular is what
`SchedulerLone` has, and `ViolStaleSnapshot` shows what a second call does. The named assumptions on the
constants (`SetsAssumption`, `BoundsAssumption`, `NullAssumption`) only give types.

Model-checked only: the liveness properties.

## The execution engine

`ExecutionEngine.tla` models `packages/execution-engine/src`: the executor, the
safety guard with the kill switch and the store lock, the rollback planner and
engine, the in-memory repository. It is the one component that writes to a shop.

| Model | Code |
|---|---|
| `execs` | the repository: executions with their steps. It hands out the objects it stores, so a change is seen by every holder at once |
| `lock`, `stopped` | `StoreLock`'s owners, `KillSwitch`'s stores and its global flag (`Everywhere`) |
| `written`, `late` | the shop: which payloads it holds; writes that `withTimeout` has given up on and that are still under way |
| `pc`, `on`, `seen`, `at`, `state`, `done` | a call of `execute` or `resume` in progress (a *flow*): where it awaits, its execution, the active executions it listed, the step it is at, the state it read for it, the steps it has executed |
| `Execute`, `Resume`, `Approve`, `Cancel`, `EmergencyStop`, `ResumeFromStop` | the operations callers use; the handler of the queue's worker is `Resume` |
| `Reject`, `StoreLocked`, `Admit`, `Started` | `run` up to its try: the guard, the lock, the first event |
| `BeginStep`, `Read`, `Publish`, `Respond`, `StepDone` | one pass of `runSteps` through `StepRunner` and `OperationPublisher` |
| `StepFails`, `RefusalUnreported`, `TimesOut`, `LateWrite` | a step that fails at each of its awaits, the write that outlives it |
| `RollbackStarts`, `Restore`, `RestoreFails`, `RolledBack` | `rollbackSteps`, one step at a time from the last |
| `Finish`, `Finalize`, `Abort`, `Release` | the end of `run`, its catch and its finally |

A resource holds `old` or `new`, each step has a resource of its own, and
requests are those that pass the checks which look at the request alone (mode,
batch size, rejected action types). `enforceStoreLock` and
`emergencyStopEnabled`, both true by default, are taken as true. Diffs, metrics,
events, errors and the topological order are left out; the awaits at which they
can fail are not. A rollback plan is one of four kinds: the empty plan the planner
derives for a caller's action, the null of a decision without one, one marked
unavailable, one with something to restore. `Provider` says whether the engine
was given a `resourceStateProvider`; without one every before-state stays null
and every restore fails. The façade `ExecutionService` passes none; the runs use
an engine that has one, since there a rollback can do something.

### Properties

* `TypeOK`.
* `StoreExclusion`: the steps of two runs in a real mode never alternate on a store, be they two executions that missed each other's admission or two calls for one.
* `LockHeldByRun`, `LocksAreReleased`: a lock belongs to a run in progress, and is given up in the end.
* `CancelledNeverWritten`: what was cancelled is not run or written by a run that was being admitted meanwhile, a resume, or a late write.
* `NotAllRejected`: two executions that start together cannot both be rejected for the other's sake; the list they read before the await is of shared objects, whose status is read after it. Excluded is a resume that joined another call for its execution (`joined`): the refused call sets REJECTED on the execution that is running, for which others were rejected already, so that all can be.
* `RolledBackMeansUndone`: after a rollback nothing counts as done, and what counts as restored under a plan with something to restore is not in the shop.
* `CompletedMeansWritten`: a completed execution has its steps in the shop, after any failed runs, rollbacks and resumes; after one run, all of them or none.

### Runs

| Run | Instance | States | Shows |
|---|---|---|---|
| `EngineStore` | two writers and a preview on one store, two flows, one resume; steps fail or time out; fairness | about 99,000 | the first six properties |
| `EngineFaults` | one execution of four steps, one of each plan and one to be approved, two resumes, one stop, every failure | about 82,000 | the last two |
| `ViolStopWrites`, `ViolRollbackWrites` | one execution | – | the divergences below |

Two executions on one store are the least that compete, a third that only
previews takes part in the conflict check and not in the lock. Two flows are
enough for a run to overlap an admission and for one execution to be resumed
while it runs; the proofs cover more. Executions on different stores share
nothing but the global stop. Four steps put a step of each kind before and after
the one that fails. Resumes and stops are the bounded quantities (`MaxResumes`,
`MaxStops`). A stop changes which runs are admitted and nothing else, so it is
left out of the run with contention. `EngineStore` leaves out the failures of the
repository and the sink: of these, the rejection of `execution.started` breaks
the two lock properties, for it is emitted between the acquisition and the `try`
whose `finally` releases. Deadlock is not checked: an engine nobody calls is done.

`FairSpec` assumes that the awaited calls of a run settle. A write always does,
by `withTimeout`; the provider, the repository and the sink are trusted to, since
nothing bounds them. Nobody is assumed to call, resume or approve anything.

### Where code and documentation part

* `ViolStopWrites`: "stopping globally freezes every write", but the kill switch is read when a run starts and never again; a run in progress writes all its remaining steps.
* `ViolRollbackWrites`: "reversible through a recorded rollback plan", but the plan of a caller's action is derived before any state is read and is empty; the rollback succeeds over nothing and the write stays.

Seen in the model and left without a run: "the store lock is released in a finally
block" does not hold when `execution.started` is rejected, as above; resuming a
cancelled execution ends COMPLETED with nothing written; a resume runs COMPLETED
steps a second time, with the new value as their before-state, which no plan
brings back; a refused second call sets REJECTED on an execution that is running.

### Proofs

`ExecutionEngineProofs.tla` proves, for every set of executions, stores, flows,
requests and faults, every configuration and bound:

| Theorem | Assumes | Strengthening |
|---|---|---|
| `TypeCorrect` | – | `BegunInv`: the step a run is at, the steps it has done and those that are, or may yet be, in the shop were begun. Needed because a record is only updated properly at a step it has |
| `CancelledStepsStayUnwritten` | – | `Grows`: an action changes a stored record so that what was begun stays begun and what was cancelled stays cancelled, and with `BegunInv` only begun steps are written |
| `StoresExclude` | – | `LockInv`: a run in a real mode holds the lock of its store. Exclusion alone says nothing of the lock a third flow consults |
| `LocksHeldByRuns` | the sink does not reject `execution.started` | `HeldInv`: the owner of a lock is stored, on that store, in a real mode and in a run; the mode keeps a preview from releasing what it does not own |
| `SomebodysTurn` | – | `TurnInv`: without a call that joined another, executions and runs are one to one and no execution in a run is REJECTED; so where a lock is held its owner answers for the others, and where it is free somebody is not REJECTED |
| `RollbackUndoes`, `CompletionWrites` | – | `OutcomeInv`: for an execution at rest, what its status tells of its steps and of the shop (`RecordInv`); for a run, what the point it is at tells of the steps before, at and after its own (`RunInv`), those before it being in the shop or cancelled |

Every action is first reduced to what it does to the records (`NextEvolves`), to
the flows (`OthersStay`) and to the locks (`QuietSteps`), so the invariants are
proved about these few cases. For the outcomes a step is reduced further, to what
it does to one execution and its one run: `StoresExclude` and `LockInv` give that a
real execution is in the hands of one run, and while it is run once a write in
flight is of a FAILED step. Most of `OutcomeInv` is about executions run once. Of those resumed
after a run less can be said: a resume runs completed steps again, and what they
are restored to is the new value.

Model-checked only: `LocksAreReleased` (liveness).

## Components whose workers share a queue

`Workers` (`MCWorkers`, about 67,000 states) runs one of five components under
weak fairness. Deadlock is not checked: a system nobody calls any more is done.

| Module | State and actions | Code |
|---|---|---|
| `ExecutionQueue` | `entry`, `cancelledInFlight`, and a *drain* for each call of `run` or `waitForIdle`; `Enqueue`, `CancelEntry`, `RequeueDead`, `Purge`, `Claim`, `WorkSucceeds`, `WorkFails`, `PumpEnds`, `StopPool` | `execution-engine/src/queue`, `workers` |
| `OutboxEventBus` | `outbox`, and a *poller* for each call of `processNext` with the rows it has left; the read, the conditional update, each handler, each write of an outcome; a rejected query, a poller that dies | `events/src/event-bus.ts` |
| `WorkflowEngine` | the shared execution record; per run a frame for each list of steps (its queue of ready steps a set, of which `Slice` takes the first `Width`) and an act for each step; start, recover, cancel, time out, checkpoint | `ai-orchestrator/src/workflow`, `orchestrator`, `execution` |
| `AgentScheduler` | the heap as a set, a slot for each drain, callers of `idle` | `ai-orchestrator/src/scheduler` |
| `CrawlScheduler` | the queue in the order it is popped, each worker's place, the job's row, page rows and counts | `crawler/src` |

* `ClaimsAreKept`: no entry is in two workers' hands, and none is tried more often than its own limit and the policy's allow, along any mixture of failures, cancellations, requeues and stops.
* `DoneWasHandled`: "at-least-once delivery". Pollers dispatch all rows they read, not only those they claimed, and write their outcomes over each other; still nothing counts as delivered that a subscriber has not handled.
* `StepsAreHonoured`: a step is under way only after what it depends on has completed; no step is left RUNNING when no run is in progress; unless runs overlap no agent's work is done twice, and COMPLETED means that the top level is.
* `NothingStranded`: no wake-up is lost between a drain that ends and an enqueue that starts none.
* `CompletedCrawlIsWhole`: a job is COMPLETED only after everything reachable was processed, each URL counted once and stored.
* `EverythingEnds`: entries of a running pool settle, events are delivered or given up, runs and crawls end. Excluded are entries cancelled while claimed, which do not settle in the code, and events whose poller died after its claim, which nobody polls again.

The instance: two entries, two drains with one loop each, a retry limit below the
entry's own and one counted operation; two events, the first with two handlers,
two pollers with batches of two, so that one of them
dispatches a row the other has claimed as well, two attempts, one fault; a step that both members of a parallel group
need, one retry, two overlapping runs, one fault; three items of two priorities
for two drains and a caller of `idle`; four URLs whose links go ahead, back and to
one page twice, one disallowed, three workers, so that two can sleep at once, a
queue and a page limit that are reached, one retry and one rejected write. Two of
everything that overlaps suffices for the hazards, since each is about a pair.

The fairness is that of `QueueFairness`, `BusFairness`, `WorkflowFairness` and
`CrawlFairness`: awaited calls, handlers and agents settle, delays end, and
`processNext` goes on being called (by the health checks of a deployment; in
`src` nobody else calls it). `AgentScheduler` needs none.

## Services

`Services` (`MCServices`, about 567,000 states, safety only) runs one of
twenty-five instances.

| Part | Module | State and actions | Code |
|---|---|---|---|
| `observed` | `ObservedExecutions` | the record of one execution, what each handler has looked up, over the outbox; two lifecycles, a second handler that fails, one poller | `observability/src` |
| `sync` | `GoogleSync` | `credential`, `syncState`, a call of `sync` by its awaits; days that pass, refresh, connect, disconnect; two calls, three days, one fault | `google-integrations/src` |
| `plans` | `DecisionPlans` | the rows of decision, plan versions, tasks and requests; two callers, three calls, two versions, one fault | `decision-engine/src` |
| `plugins` | `PluginRegistry` | records in order of insertion, the delivery of an event; two versions of two plugins that share an id or need each other | `plugin-sdk/src` |
| `shop` | `ShopWrites` | the shop's fields, the request in flight, captured states; plans whose steps write over each other, lost answers, one edit, a token that goes | `shopify/src`, `execution-engine/src/publisher`, `rollback` |
| `cron` | `CronSearch` | the candidate instant, a pass of the loop a step; a calendar of short months with a leap day | `scheduler/src/cron.ts` |
| `accounts` | `Accounts` | users, emails, calls that wait for a hash, over `Organizations`; two tenants, two organizations, so that an account of one may be invited to the other, one email, two calls | `apps/api/src/auth.ts`, `enterprise/src/orgs.ts` |
| `sessions` | `Sessions` | sessions, tokens, tenant status, the limiter's window; two calls, three instants | `auth.ts`, `guards.ts`, `rate-limit.ts`, `tenant.ts` |
| `subscriptions`, `webhooks` | `Billing` | a subscription and what the provider accepted; endpoints, dispatches and recorded attempts | `enterprise/src/billing.ts`, `webhooks.ts` |
| `preparation` | `ExecutionPreparation` | requests become ordered steps and batches, each through gate, checks, dry run, write, diff, undo; two executions of one store | `execution-engine/src/planner`, `validation`, `diff`, `approval`, `publisher` |
| `web` | `WebSession` | auth store, storage, calls under way, the router and its history | `apps/web/src` |
| `link`, `chat` | `WebUpdates` | the connection with its timer, the inbox with loads and marks, toasts; the chat's streams | `apps/web/src` |
| `agents` | `AgentRuns` | thirteen agents' rules, the contract, the safety guard, the run with its records and events, recommendations an application rejects | `agents/src` |
| `audit` | `SeoAudit` | pages in, ranked recommendations out, with rule overrides, caps, and the default and other weights of the score | `seo-engine/src` |
| `learning` | `LearningEngine` | outcomes, feedback, two ingestions at once, scores, signals, history | `learning-engine/src` |
| `graph` | `GraphSnapshots` | snapshots and two calls that build or update, in memory and with the database's keys; a store of four pages | `knowledge-graph/src` |
| `reports` | `ReportRuns` | a log of what happens, schedules, two calls reading source after source | `reports/src` |
| `copilot` | `Copilot` | conversation objects, chats as generators, the audit trail, counters; four kinds of request, the tools and sources the code has, two tenants, one deletion (`MaxDeletions`) | `ai-copilot/src` |
| `pushes` | `RealtimeApi` | job rows, the outbox in memory, two health checks, the hub with a history of one, one stream, one reset | `apps/api/src` |
| `keys` | `ApiAccess` | roles, keys, the principal of each request between its authentication and its handler; issue, revoke, expire, change a role; an owner and a member of another tenant, two requests, two keys (`MaxKeys`), three days | `apps/api/src`: `guards.ts`, `permissions.ts`, `controllers/admin.ts`; `enterprise/src/apikeys.ts` |
| `log` | `ApiAccess` | custom roles; audit entries, their purge and their pages; four entries (`MaxEntries`), three days, a window of one, pages of one and two | `enterprise/src/rbac.ts`, `audit.ts` |
| `tasks` | `AgentTasks` | the registry of agents, the workflow planned from a plan, a call of `execute` for one of its steps with its context; agents come and go, answers of six kinds, a step that times out while its answer is read | `ai-orchestrator/src`: `registry`, `planner`, `context`, `execution/agent-runner.ts`, `validation`, `safety` |
| `answers` | `AgentTasks` | two calls nobody planned, the memory entries of two instants | `ai-orchestrator/src`: `orchestrator`, `safety`, `memory` |

* `ProjectionConverges`: when `processNext` does not overlap itself and every event was delivered, in any order and number, the record ends at the execution's last status.
* `NoDayLost`: whatever fails, every day up to the cursor was fetched after it was over, of providers whose requests neither move the start of a window nor end one after the current day (`steered`; nothing checks a request's dates).
* `PlansAreHonoured`: the shop only gets changes of an approved version, never two that conflict; rows tell what was done; prerequisites run first.
* `EachSubscriberOnce`: who stays enabled while an event is dispatched handles it exactly once.
* `WritesAreSound`: a completed write was ordered, approved, captured and within what its writer can do; when everything published was restored, each field is as it was, the merchant's edits included. Of `AgentTasks`: a workflow has its plan's tasks once, batch after batch, none given to an agent that fell behind a healthy one; what is accepted of an agent proposes only what the plan decided, and what was refused is never remembered as its output; a context over its budget has lists whose items would fit by their estimates (the brackets and commas of a list are not in them, so the budget can be passed by as much).
* `NextAfterIsNext`: no instant that matches lies between `after` and what the search returns, and null means that there is none within the horizon.
* `TenantsAreServed`: memberships are found from accounts, each in an organization there is and the account lists (which does not make a change of role reach all of them, see below), spent sessions stay spent, a subscription is of a plan the provider took, and every endpoint subscribed throughout a dispatch has its attempts recorded. Of `ApiAccess`: every key descends from an owner or admin of its tenant, through keys that may administer it, whatever became of them since; a request by a key that is out of use came while the key was good; the audit log is short of nothing but what was past its window, and a page leaves out no newer entry than it shows.
* `SignedInMeansSaved`: the session in the store is the one in the storage, and a protected page is entered only with the permission, whatever answers are still to come.
* `ConversationsAgree`: a chat leaves its question, its results and one answer; what a stream was written of a channel is in order and complete; a push tells what the job's row says.
* `AgentsKeepContract`: results pass the validator, change nothing outside their input and ask for approval where findings are severe; what was announced is on record, and a rejected recommendation has no run unless an application rejected it.
* `SevereIssuesSurface`: a severe issue is in the report with its page, unless its rule is off or its category is full of what comes first; its score is no less than that of a high impact on the weakest evidence with the highest effort (71, a high priority, with the default weights).
* `EvidenceCounts`: a success never lowers a rule's score and any other outcome never raises it, in whichever confidence bin it falls.
* `SnapshotsAreSound`: a saved snapshot can be loaded, its edges join related nodes that are in it, and a comparison shows the update alone.
* `ReportsAgree`: what an execution counted in a report had changed is in that report too; one scheduled report a minute, unless calls overlap; what is compared with the period before shares no day with it and both are fetched whole.

Each exclusion named in a property ("unless …") is something the code does get
wrong; the lists below say how. Inputs are chosen to contain a case for every
branch of the calculations: duplicates, blanks, shared bounds, ties, an id that is
unknown, a resource that is read by none. The counts of calls, faults, operations,
edits and chats are the bounded quantities, each named in its module. Two calls of
a kind overlap in every way two calls can; a third adds no hazard that is not
one between two of them, except that `StreamsAreWhole` needs a published history that is longer than
what is kept, which one publication and one crawl give.

No fairness is assumed here: nothing these components promise is about an end.

### Proofs about the workers

| Theorem | Assumes | Strengthening |
|---|---|---|
| `ClaimsHold` (`QueueAndShopProofs`) | – | `QueueInv`: what a worker holds is claimed or forgotten (`Held`), and the calls of a waiting entry are its attempts while both limits allow another (`Counted`). Needed because a failed entry is judged by its own limit and by the policy's, and a dead one counts no attempt |
| `DeliveredMeansHandled` (`ServicesProofs`) | – | `DeliveryInv`: the handlers before the one a poller is at have succeeded for the row it dispatches (`HandledSoFar`), and a row is DONE only when all have; the table itself says nothing of a second poller's progress |
| `CrawlsAreWhole` (`ServicesProofs`) | – | `CrawlInv`: a URL in a worker's hand is counted nowhere and in no other's, those workers are the ones `activeWorkers` counts (`WorkersOK`), whatever was popped is at hand or settled, the links of a counted page are popped or queued (`UrlsOK`), and nothing is done or completed while anything is queued or at hand (`PhasesOK`) |
| `NoWakeUpIsLost` (`OrchestratorProofs`) | there may be a drain at all | `ServedInv`: a queue with something in it has a drain running |
| `DependenciesComeFirst`, `StepsHonoured` (`OrchestratorProofs`) | – | `StructInv` and `AloneInv`, below |

That a page's links are all known after they were added is an induction over the
list of links. It is done by hand for the recursive function `AddAll` defines:
such a function exists for every length, and every prefix keeps the queue in
order (`AllAdded`), as otherwise there were a least length for which it fails.

`ClaimsHold` needs that the best entry of a claimable set exists, a fact about
least elements of sets of numbers that is proved first from the well-foundedness
of `<`. `Oldest`, the batch a poller reads, is stated as the sequence in which what
stands before an entry is what is older, since what a sort computes for every set
is out of the provers' reach.

Of a workflow it is assumed what `validateDefinition` ensures before a run
(`DefinitionAssumption`): no step id occurs twice, and its walk over the lists
ends, said by a depth that grows from a list to the steps in it. `StructInv` ties
the calls together: what is done, in hand and queued of a list (`FrameOK`), that
whoever works is in the chunk of an open list and whoever holds a list waits for
it, that what counts as done was completed, and that who is recorded RUNNING is
being worked on. That the top level ends last, which a closed run rests on, is not
a fact about any one frame: a step in progress of least depth would be in a list
held by a step of less (`RootIsLast`). `DependenciesFirst` follows for runs that
overlap too.

That no work is done twice is harder. A failed list skips what remains, which
overwrites whatever record an earlier run left there, a COMPLETED one included; a
recovery would then run it again. It does not happen because every run of a list
goes through the same chunks: `Places` is the least set of positions of a list
that contains its start and with each position the next, and it is shown by
least-set arguments that positions are numbered, that chunks pass into what is
done, and so that of two chunks one is done before the other (`InOrder`). `AloneInv` then
says, while no two runs have overlapped, that each list is at a place, that a step
an earlier run touched is in the chunk of a place before which everything is
COMPLETED, and that behind a chunk not yet completed nothing was touched: the
steps a failure skips have no outcome to lose.

### Proofs about the services

`ServicesProofs.tla`, for every number of days, calls, events, handlers, routes,
sessions, cron expressions, instants, notifications, answers and plugins:

| Theorem | Assumes | Strengthening |
|---|---|---|
| `NoDayIsLost` | – | `SyncInv`, for resources whose runs do not overlap, whose requests leave the start of the window to the service and end it by the day: a run's cursor is still the saved one, its window begins there and ends by today, and what it fetched lies in days that were over. `CalendarInv`: days only pass |
| `RecordConverges` | `EndsOnce`: the last event of a lifecycle, and no other, ends the execution; `OnePoller`: calls of `processNext` do not overlap | `RecordInv`: the record and what was looked up are statuses the events told, and once the last event was handled both are the final one. Events late, twice or after a rejected write change nothing, as they rank lower. Rests on `DeliveryInv` of the outbox, of which every step here is one |
| `NextIsReturned` | – | `CronInv`: nothing between the instant asked for and the candidate matches (`Passed`); a leap over a month rests on months that last until the next first (`MonthLasts`), null on years that do not run back (`YearsPass`) |
| `SignedInStaysSaved` | – | `SavedInv` for the session; for the pages `MayShow`: whatever the router enters went through `Resolved` with the permissions of that moment |
| `LinkStaysHonest` | – | `LinkInv`: one attempt or timer while the status says so; what is on its way from the API shows no notification twice either (`InboxInv`). That taking one out leaves the rest apart rests on `Flattened`, below |
| `AnswersStayApart` | – | `ChatInv`: ids count the messages since the last reset (`ChatCounted`); until there is a reset only the answer to the last question is read, and the message a delta would go to has nothing of another (`ChatFollows`) |
| `SubscribersServed` | – | `RegistryInv`: of a steady subscriber either its id is listed once and it was not reached, or it was reached once and its id is listed no more (`HandledOnce`); who is steady has an id of its own among what is enabled now, so that `FindEnabled` finds nobody else (`DispatchOK`); and each plugin is in the map once |

`WebSessionAssumption` says of the constant `WebRoutes` what `router.ts` has: no
two routes of one path, and a sign-in page that anybody may see. Without the
latter the redirect to it would be a page not allowed. `CalendarAssumption` says
of the calendar that years do not run back, that a month begins with a date 1
and goes on until the next, and that it reaches past the horizon of whatever is
asked for; `ExpressionsAssumption` that values lie in the ranges `parseField`
allows. `OnePoller` is needed: overlapping pollers write an older status over a
newer one. `UpdatesAssumption` says that what ends an answer comes last in it, as the
API's chat returns after `done` and whatever it throws (`ai-copilot/src/service.ts:341`);
of a source that went on, a second question could mix with the first answer.
`PluginAssumption` says of bundles what `manifest.ts` checks, ids that
occur once in a plugin among it, and that there is an event type.

What a dispatch may reach is the subscriptions of all enabled plugins laid end to
end. `LaidOut` says that each place of the rows is at one place of the whole and
the other way round; `Flattened` shows it for any number of rows, by the least
number for which it fails. So an id of its own is listed exactly once
(`ListedOnce`).

### Proof about the decision engine

`DecisionProofs.tla`, for any recommendations, rules, resources, scores, caps,
versions and calls:

| Theorem | Assumes | Strengthening |
|---|---|---|
| `PlansHonoured` | – | `DecisionInv`. `TablesInv`: rows and calls hold all tasks of the plan or none, in an order in which nothing is done before what comes first (`Table`), and a loop left nothing behind it undone (`CallOK`). `ApprovedInv`: who executes does so after an approval, and the store has only tasks of the plan. `TruthInv`: unless entangled, a row tells what was done to its task or an execution or rollback in progress holds what it will tell |

It rests on what the planner's functions return for every input. The order of the
tasks respects each dependency (`OrderRespects`): `TopologicalOrder` is a
recursive function, shown to exist and to keep its promise at the least number for
which it would not. Dependencies join neighbours on a resource only, so that a
better task comes first is another argument of that kind: were one not placed
before a worse one, there would be a third between them, and a nearer pair of
which the same is true (`BetterComesFirst`). Of two tasks in conflict one is dropped
(`KeepHasNoConflict`), and of the tasks kept of one resource the one that all
others beat has fewer than the cap before it (`KeepIsCapped`). This argument needs that
`compareTasks` is a strict order (`BeatsOrders`), which is what
`PlanAssumption` gives: finitely many tasks, an id of its own for each.
`DecisionAssumption` says that the cap is a whole number.

### Proof about the learning engine

| Theorem | Assumes | Strengthening |
|---|---|---|
| `ScoresFollowEvidence` (`DecisionProofs`): `EvidenceCounts` | – | `OutcomesFit`: the outcomes an execution has and those about to be saved of it are no more than there are calls; a call that finds none starts the count again |

A filter for a rule selects all positions of the rule (`MatchingOfRule`), and what
is recorded is one position more (`OneMore`). A rate of successes never falls with
one more success and never rises with any other entry (`ShareOfOneMore`), rounded
or not: `RatioOrder` compares the fractions before they are divided. So each part
of the score moves one way only (`CalibrationMoves`, `EffectivenessMoves`,
`FeedbackMoves`). The hard one is the calibrated confidence: the first entry of a
bin replaces the rate of all bins, the first labelled one the confidence that was
stated, but one entry alone is a rate of all or nothing. `LearningAssumption` says
that impact, effort and confidence are percents, as the scorer and the calibrator clamp them.

### Proof about the SEO engine

| Theorem | Assumes | Strengthening |
|---|---|---|
| `SevereIssuesAlwaysSurface` (`DecisionProofs`): `SevereIssuesSurface` | – | `AuditIs`: the report is what the engine makes of the crawl and its configuration |

Here the work is in the calculation. Merging keeps the highest impact
(`HighestImpactStays`), so what a severe issue fired ends as HIGH, whatever an
override says; its score is then no less than the floor, because a product grows
with either factor (`ScoreIsInt`). That leaves the cap. Recommendations are totally
ordered, by score and then by rule, so each has a rank in its category
(`Rank`), the ranks of the first are all taken (`FirstAreAsMany`), and what is cut
off is cut off behind as many with no lower score. `AuditAssumption` says that
overrides name an impact there is, that weights are natural numbers (in percent; the
code checks neither, and with a negative weight the floor would be another), that
there is a cap, any number of a category, and that issues have rules of the registry.

### Proofs about what an execution writes

| Theorem | Assumes | Strengthening |
|---|---|---|
| `StepsPrepared` (`DecisionProofs`) | – | `PrepInv`: steps run in order, so nothing behind a pending step has begun (`RunInOrder`); what a settled step depends on stands before it and is settled (`DependenciesSettled`), which a check at the start of a step gives and undoing from the last keeps; a COMPLETED step passed the checks (`WritesAllowed`), a duplicate was saved (`FindingsHold`) |
| `RollbackRestores` (`QueueAndShopProofs`) | – | `RestoreInv`, below |

Batches are counted by ranks: within a batch the rank modulo the limit tells the
steps apart, so a batch has no more than the limit. `PreparationAssumption` asks
for a limit of at least one; without a limit the code makes one batch of a kind.

That a rollback restores what was there is not a fact about one step. Steps
write over each other, and what was read before a later one is what an earlier one
left. A field is *clean* (`Clean`) if no merchant edited it and no step that may
have set it failed or was restored without it. Of the clean fields `RestoreInv`
says that each holds what the last published step that writes it has set, the
initial value if there is none (`FieldsHold`), and that what was captured before a
step is what the steps before it made of the field (`CapturesHold`). While a
request is under way its own fields are excepted, because it may have been applied
and its answer lost. Restoring the last published step then leaves the field as the
steps before it did; that publishing goes forwards and restoring backwards is
`OrderOfSteps`. Of the plans it is assumed that they are sequences of steps, not
empty (`ShopAssumption`).

### Proofs about the tenants

`TenancyProofs.tla`, for any tenants, users, calls, requests, endpoints,
events, streams and conversations:

| Theorem | Assumes | Strengthening |
|---|---|---|
| `AccountsReachMembers` | – | `MembersInv`: whom an email finds has an account, ids are given in order, and each membership is of an organization there is and of an account that lists it. An invitation that waits for its hash puts its user in with the check of the organization made again, and nothing removes an account |
| `SpentSessionsEnd` | – | `SessionInv`: a session has both tokens or, once spent, none (`StoredSessions`); a refresh between its look-up and its end found a session, and a call counts as suspended only while its tenant is inactive (`SessionCallsOK`) |
| `OutsideAgreesWithRecords` | – | `SubscriptionsInv`: a cancellation in flight is of a subscription there is, since none is ever taken away. `HooksInv`: what a dispatch has yet to serve has nothing recorded, and the attempts at its first endpoint failed so far, one for each number |
| `TenantsServed` | – | all of these, `RequestsInv` and `LogInv`, for `TenantServices` |
| `PushesTrue` | – | `PushInv`: before a call has answered nothing is known of it, and it answers once (`PublishedOnce`); a health check pushes a row that it alone claimed (`ChecksHold`), and what was pushed was claimed once (`PushedOnce`); nothing that goes on writes the row of a job whose end was told (`JobsTold`) |
| `ChatsApart` | – | `CopilotInv`: a chat that goes on is on a conversation of its tenant that was not deleted before it, is shown what is in it and has executed what its role may (`ChatsHold`); each conversation's creation is told once, its deletion if it is not in the store (`StoreTold`); turns cover what answered, failed and goes on (`Counted`) |

`RequestsInv` says what a principal may do is what its role or its key gives, and
that the issuer of each key is an administrator or an earlier key that may
administer (`ChainOK`); it is about the key as it was, since a revoked key keeps
its scopes. `LogInv` says that the log is exactly what was recorded and not before
the tenant's last cutoff, and that no cutoff passes the retention window; that a
page leaves out nothing newer follows by counting what is shown before an entry
(`PagesAreNewest`). That recorded attempts are numbered compares a number with the
count of the attempts up to it; it is proved of an interval of places, as all
attempts at an endpoint are recorded at once (`RecordedInOrder`).

The theorem of the composition holds because each service's state is its own: a
step of one is a stutter of the others, so each invariant is proved with its
component alone and `TenantsServed` joins them.

The assumptions on the constants are what the code gives its inputs: ids are
numbers in the order they are given, a role list that has `owner`
(`MEMBER_ROLES`, `orgs.ts:19`), every user of a session in a tenant there is,
`NoAccount` and its like apart from values, whole numbers of days; and of the copilot that the
ids of conversations and chats are numbers (`CopilotAssumption`).

### Where code and documentation part

These are met in the models and excluded from, or named in, the properties:

* **queue**: `fail` puts back an entry that was cancelled while claimed; a cancelled claimed entry stays CLAIMED after its handler ends, and `waitForIdle` waits for it for ever.
* **events**: a poller that dies leaves rows PROCESSING, which nothing polls; one failing handler has the whole event handled again; overlapping pollers may write an older status to a record.
* **workflows**: `recoverWorkflow` does not ask whether a run is in progress; a rejected checkpoint fails a step that has COMPLETED.
* **crawler**: the depth a URL is popped with need not be the least; a rejected `failJob` leaves the row RUNNING; a page whose processing throws is counted nowhere.
* **google**: `windowFor` takes the dates of a request unchecked, so a `startDate` after the cursor skips days, and an `endDate` after the current day saves a cursor past days that are fetched before they are over and not again; a run that fails puts back the cursor it read, over one saved meanwhile; a refresh in flight brings back a credential that was disconnected; `sync` can reject although it is documented never to.
* **decisions**: two calls of `executePlan` both see APPROVED; planning again moves rows of executed tasks; a BLOCKED policy is not enforced; contradicting prerequisites make planning throw.
* **plugins**: subscriber ids are unique within a plugin only; disabling a plugin ignores those that need it.
* **shop**: a throttler lives for one request although it is meant to be shared; a retried file creation makes a second file; a field that was not captured is restored blank.
* **preparation**: a duplicate in `dependsOn` is reported as a cycle; the engine runs no check unless it is given some; a task that was only simulated counts as applied.
* **accounts, sessions**: "Updates a user's role across every org membership in the tenant" (`auth.ts:300`) fails once an organization the account lists was removed: `updateUserRole` throws there (`auth.ts:307-309`), the account and the memberships listed before it have the new role, those behind it the old one (`Reached`); two registrations of one email both succeed; two refreshes of one token both succeed; an access token refreshes; sessions of a suspended tenant go on.
* **keys, log**: a request goes on with the role and the key it came with, whatever is changed or revoked meanwhile; a key outlives the role of who issued it; issuing and revoking keys leaves no audit entry.
* **agents' tasks**: an agent that is taken out of the registry is still listened to if it was asked before; an answer that comes after its step timed out is remembered as an output although nobody has it; among entries of one instant the oldest counts as the latest.
* **billing, webhooks**: two subscriptions at once both pass; an update changes the URL before it rejects the events.
* **web**: login expects an answer the API does not send; an answer that arrives after logout signs in again; only the first connection is retried, and without backoff that doubles.
* **agents**: the reporting agent's result never passes its own validator; "every sensitive proposal is forced to require approval" (`safety-guard.ts:14-17`, and `action-policy.ts:21`), but the guard only prefixes the rationale of a sensitive action, and what asks for approval is a severe finding that affects a page; a recommendation can be rejected that was never made.
* **audit**: the weights of the score are taken as configured: with an effort that counts most, a severe issue has a medium priority, and no weight is checked.
* **learning**: two ingestions of one execution both save; a confidence on the bound of two bins is looked up in one and counted in the other.
* **graph**: node ids are the same in all snapshots and are the key of the table, so the database refuses a store's second snapshot.
* **reports**: a `previousPeriod` of the request is not checked against the period: it may overlap it, and as search and traffic are asked for from its first day (`sources.ts:170`), one that begins later cuts the report's own days off; the daily score of trend charts is the oldest of the day, that of KPIs the newest; two calls that run what is due run it twice.
* **copilot**: a chat that is refused, fails or is abandoned leaves its question in the conversation; saving at the end brings back a deleted conversation; an isolation violation throws another error than documented.
* **realtime**: a crawl's end overwrites its cancellation; a stream that asks for a channel twice is written everything twice; ids restart after a reset.

## What is model-checked only

* **Liveness** (`DueIsServed`, `OneShotSettles`, `LocksAreReleased`, `EverythingEnds`): the provers at hand do not treat ENABLED, which fairness is made of.
* **Calculations over sequences of any length**: `AgentsKeepContract`, `SnapshotsAreSound`, `ReportsAgree`. They fold over lists, and what a fold computes for every list needs an induction rule that the provers cannot apply.
* **Two parts of `WritesAreSound`**: that a saved diff rebuilds the state it leads to (`DiffsReconstruct`, recursive in the value) and that agents stay in their plan (`AgentsStayInPlan`, which selects from lists). Its parts `StepsArePrepared` and `RestoredMeansBefore` are proved above.
* **Of `ConversationsAgree`** what selects from lists: `StreamsAreWhole`, and of a chat `AnswersAccounted` and `SuggestionsAreSafe`. Its other parts are proved above, each of its own component: `LinkStaysDown`, `ShownOnce` and `AnswersUnmixed`, `PushesAreTrue`, `MetricsCount`, `ChatsStayApart` and `DeletedStayDeleted`.
* **The type invariants of `Workers` and `Services`**, which join several modules.

TLC evaluates them on the inputs above.

## Not modelled

Each component's note in `PROJECT.json` says what its model leaves out. As a whole:

* **Time that is measured**: the AI rate limiter's spacing of calls, the crawler's politeness delay, backoff lengths. Delays end some time after they began. The cron search runs with clocks that never change.
* **Text and layout**: prompts, HTML parsing and issue detection, titles and descriptions, CSV and PDF bytes, rendering of the web UI and the dashboard. A page is its links or its issues, a payload its fields.
* **Requests and answers**: OAuth, the Google and Shopify query builders, the requests to language models. Their answers are nondeterministic among those the callers tell apart.
* **Records kept for their own sake**: metrics, events nobody consumes, usage, most audit entries, alerts and trends of observability where they are computed. They change nothing else.
* **Code that nothing calls** but its tests: `BatchSaga`, the engine's priority scheduler and monitoring, `AgentService`'s façade.
* **Lookups on one record**: most of the API's routes, the stores of the web UI that mirror one request.
* **database, core, shared, config, logging, monitoring, audit, ai, safety, ui**: single statements, helpers, parsing of the environment, stubs.
