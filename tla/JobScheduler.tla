---------------------------- MODULE JobScheduler ----------------------------
(***************************************************************************)
(* AutonomousScheduler (packages/scheduler/src/service.ts) over a shared   *)
(* JobRepository and a shared DistributedLock.  Several instances poll the *)
(* repository, take the due jobs into a local queue as SNAPSHOTS, and run  *)
(* one lock-guarded attempt per snapshot, writing whole records back.      *)
(*                                                                         *)
(* A step is the code from one awaited repository, lock or handler call to *)
(* the next.  A "flow" is one call of runDueJobs or runNow in progress:    *)
(* start() never awaits the tick before it, so an instance may have        *)
(* several.  Times are natural numbers; a cron expression is the finite    *)
(* set of its fire times, the empty set standing for null.                 *)
(***************************************************************************)
EXTENDS Integers, Sequences, FiniteSets

CONSTANTS
    Jobs,        \* job ids, ordered as localeCompare orders them
    Instances,   \* scheduler instances
    Flows,       \* calls that can be in progress at a time
    Owner,       \* Owner[f]: the instance on which flow f runs
    Clients,     \* callers of update, cancel and delete
    LockTtl,     \* lockTtlMs
    QueueLimit,  \* queueLimit
    MaxBackoff,  \* MAX_BACKOFF_MS
    Inputs,      \* inputs offered to schedule
    Patches,     \* patches offered to update
    Operations,  \* the operations callers use: a subset of OperationNames
    MaxClock,    \* bound: the last instant of the model
    MaxOps,      \* bound: calls made by callers
    MaxFaults,   \* bound: rejected repository calls and instance crashes
    NoJob, NoOwner, Keep

OperationNames == {"schedule", "update", "cancel", "delete", "runNow"}
Statuses == {"pending", "running", "succeeded", "failed", "cancelled"}
Never == -1      \* nextRunAt: null

Cron == SUBSET Nat

JobRec == [id : Jobs, cron : Cron, priority : Nat, maxRetries : Nat,
           backoff : Nat, timed : BOOLEAN, enabled : BOOLEAN,
           status : Statuses, attempts : Nat, nextRunAt : Nat \cup {Never}]

InputRec == [cron : Cron, runsAt : Nat, priority : Nat, maxRetries : Nat,
             backoff : Nat, timed : BOOLEAN]

RunRec == [job : Jobs, attempt : Nat, owner : Instances,
           status : {"unsaved", "running", "succeeded", "failed"}]
AttRec == [job : JobRec \cup {NoJob}, run : Nat, lease : Nat,
           error : {"none", "retryable", "fatal"}, finishedAt : Nat, thrown : BOOLEAN]

\* Each field of a patch is a new value or Keep (undefined in UpdateJobInput).
PatchRec == [priority : Nat \cup {Keep}, maxRetries : Nat \cup {Keep},
             backoff : Nat \cup {Keep}, timed : BOOLEAN \cup {Keep},
             enabled : BOOLEAN \cup {Keep}, cron : Cron \cup {Keep},
             runsAt : Nat \cup {Never, Keep}]

ASSUME SetsAssumption ==
    /\ Jobs \subseteq Nat
    /\ Owner \in [Flows -> Instances]
    /\ Inputs \subseteq InputRec
    /\ Patches \subseteq PatchRec
    /\ Operations \subseteq OperationNames
ASSUME BoundsAssumption ==
    /\ LockTtl \in Nat /\ QueueLimit \in Nat /\ MaxBackoff \in Nat
    /\ MaxClock \in Nat /\ MaxOps \in Nat /\ MaxFaults \in Nat
ASSUME NullAssumption == NoJob \notin JobRec \cup Jobs /\ NoOwner \notin Instances

VARIABLES
    clock,    \* now()
    fresh,    \* ids randomUUID has not handed out yet
    jobs,     \* the repository: a job record, or NoJob
    runs,     \* every JobRun built so far, "unsaved" until saveRun
    lock,     \* the lock store: owner and expiry; owner NoOwner is no entry
    pc,       \* where each flow is
    queue,    \* the snapshots a flow has still to run
    att,      \* the attempt a flow is making
    orphans,  \* handlers still running after their timeout rejected the attempt
    client,   \* the update, cancel or delete a caller has in progress
    faults, ops

flowVars == <<pc, queue, att>>
store == <<jobs, runs, lock>>
vars == <<clock, fresh, jobs, runs, lock, pc, queue, att, orphans, client,
          faults, ops>>

NoLock == [owner |-> NoOwner, expiresAt |-> 0]
NoAttempt == [job |-> NoJob, run |-> 0, lease |-> 0, error |-> "none",
              finishedAt |-> 0, thrown |-> FALSE]
NoCall == [op |-> "none", job |-> NoJob, patch |-> Keep]

\* The program points of a flow: between two of them is one awaited call.
Points == {"idle", "next", "save", "mark", "exec", "fail", "finalize",
           "settle", "release"}
\* A flow holds an attempt from the acquisition of the lock to its release.
InAttempt == Points \ {"idle", "next"}

-----------------------------------------------------------------------------
(* Operators of the code. *)

\* CronExpression.nextAfter: the first fire time after t; empty for null.
NextFires(cron, t) ==
    {x \in cron : x > t /\ \A y \in cron : y > t => x <= y}

\* queueComparator and sortForQueue.
Before(a, b) ==
    \/ a.priority < b.priority
    \/ a.priority = b.priority /\ a.nextRunAt < b.nextRunAt
    \/ a.priority = b.priority /\ a.nextRunAt = b.nextRunAt /\ a.id < b.id

\* Mutant: the slice begins at 1.
FirstOfFromOne(S, n) == {x \in S : Cardinality({y \in S : Before(y, x)}) \in 1 .. n - 1}

\* The first n jobs of S in queue order: sort and slice(0, limit).
FirstOf(S, n) == {x \in S : Cardinality({y \in S : Before(y, x)}) < n}

\* PriorityQueue with queueComparator: what pop may take of the pushed jobs S,
\* the least of them. The heap is S; its shape shows nowhere.
Pop(S) == {x \in S : \A y \in S : ~Before(y, x)}

IsDue(job) ==
    /\ job # NoJob
    /\ job.enabled /\ job.status = "pending"
    /\ job.nextRunAt # Never /\ job.nextRunAt <= clock
DueJobs == {job \in {jobs[j] : j \in Jobs} : IsDue(job)}

\* The delay before the next attempt, doubled per attempt and capped.
Backoff(base, attempt) ==
    LET delay == base * 2 ^ (attempt - 1)
    IN  IF delay < MaxBackoff THEN delay ELSE MaxBackoff

\* Mutant: the attempt that just failed is not counted.
ShouldRetryOffByOne(job, error) == error = "retryable" /\ job.attempts <= job.maxRetries

ShouldRetry(job, error) ==
    error = "retryable" /\ job.attempts + 1 <= job.maxRetries

\* The record written while an attempt of the snapshot job is in flight.
Running(job) == [job EXCEPT !.status = "running", !.attempts = job.attempts + 1]

\* Mutant: a job without a next occurrence is not finished.
FinalizedForgetsFinish(job, at, outcome) ==
    {[Running(job) EXCEPT !.status = "pending", !.nextRunAt = t] :
        t \in NextFires(job.cron, at) \cup {job.nextRunAt}}

\* finalizeSuccess, finalizeFailure and finish: the records the attempt of the
\* snapshot job may leave behind; a recurring job keeps its schedule.
Finalized(job, at, outcome) ==
    LET next == NextFires(job.cron, at)
    IN  IF next # {}
        THEN {[Running(job) EXCEPT !.status = "pending", !.nextRunAt = t] : t \in next}
        ELSE {[Running(job) EXCEPT !.status = outcome, !.nextRunAt = Never]}

\* Mutant: a status of its own for jobs that wait for a retry.
RetriedUnknownStatus(job, at, delay) ==
    [job EXCEPT !.status = "retrying", !.nextRunAt = at + delay,
                !.attempts = job.attempts + 1]

\* Mutant: nextRunAt is cleared as it is for finished jobs.
RetriedUnscheduled(job, at, delay) ==
    [job EXCEPT !.status = "pending", !.nextRunAt = Never,
                !.attempts = job.attempts + 1]

\* The record written when a failed attempt is tried again after a backoff.
Retried(job, at, delay) ==
    [job EXCEPT !.status = "pending", !.nextRunAt = at + delay,
                !.attempts = job.attempts + 1]

\* Mutant: the status check is missing.
RependAlways(job) == [job EXCEPT !.status = "pending", !.enabled = TRUE]

\* update(): a schedule change makes a job pending again unless it is cancelled.
Repend(job) ==
    IF job.status = "cancelled" THEN job
    ELSE [job EXCEPT !.status = "pending", !.enabled = TRUE]

\* update(): the plain fields of a patch; then its new one-shot fire time.
Given(v, old) == IF v = Keep THEN old ELSE v
Settings(job, p) ==
    [job EXCEPT !.priority = Given(p.priority, job.priority),
                !.maxRetries = Given(p.maxRetries, job.maxRetries),
                !.backoff = Given(p.backoff, job.backoff),
                !.timed = Given(p.timed, job.timed),
                !.enabled = Given(p.enabled, job.enabled)]
Moved(job, p) ==
    IF p.runsAt = Keep THEN Settings(job, p)
    ELSE Repend([Settings(job, p) EXCEPT !.cron = {}, !.nextRunAt = p.runsAt])

\* update(): the records a patch may turn a job into; none when it throws because
\* its cron never fires.
Patched(job, p) ==
    LET moved == Moved(job, p)
        base == IF moved.nextRunAt = Never THEN clock ELSE moved.nextRunAt
    IN  IF p.cron = Keep THEN {moved}
        ELSE IF p.cron = {}
             THEN {[moved EXCEPT !.cron = {}, !.nextRunAt = Never]}
             ELSE {Repend([moved EXCEPT !.cron = p.cron, !.nextRunAt = t]) :
                      t \in NextFires(p.cron, base)}

\* Mutant: a lease counts as expired one instant early.
CanAcquireEarly(j, o) ==
    lock[j].owner \in {NoOwner, o} \/ lock[j].expiresAt <= clock + 1

\* MemoryDistributedLock.acquire refuses while another owner's lease is live.
CanAcquire(j, o) ==
    lock[j].owner \in {NoOwner, o} \/ lock[j].expiresAt <= clock

-----------------------------------------------------------------------------
Init ==
    /\ clock = 0 /\ faults = 0 /\ ops = 0
    /\ fresh = Jobs
    /\ jobs = [j \in Jobs |-> NoJob]
    /\ runs = <<>>
    /\ lock = [j \in Jobs |-> NoLock]
    /\ pc = [f \in Flows |-> "idle"]
    /\ queue = [f \in Flows |-> {}]
    /\ att = [f \in Flows |-> NoAttempt]
    /\ orphans = {}
    /\ client = [c \in Clients |-> NoCall]

Tick ==
    /\ clock < MaxClock
    /\ clock' = clock + 1
    /\ UNCHANGED <<fresh, store, flowVars, orphans, client, faults, ops>>

-----------------------------------------------------------------------------
(* A flow. *)

\* runDueJobs reads the due jobs; an empty answer ends the call unchanged.
BeginTick(f) ==
    /\ pc[f] = "idle"
    /\ FirstOf(DueJobs, QueueLimit) # {}
    /\ queue' = [queue EXCEPT ![f] = FirstOf(DueJobs, QueueLimit)]
    /\ pc' = [pc EXCEPT ![f] = "next"]
    /\ UNCHANGED <<clock, fresh, store, att, orphans, client, faults, ops>>

\* runNow takes any stored job that is not running, due or not.
RunNow(f, j) ==
    /\ "runNow" \in Operations /\ ops < MaxOps
    /\ pc[f] = "idle"
    /\ jobs[j] # NoJob /\ jobs[j].status # "running"
    /\ queue' = [queue EXCEPT ![f] = {jobs[j]}]
    /\ pc' = [pc EXCEPT ![f] = "next"]
    /\ ops' = ops + 1
    /\ UNCHANGED <<clock, fresh, store, att, orphans, client, faults>>

\* Where a flow goes once it is done with a snapshot, q being what is left.
Onward(q) == IF q = {} THEN "idle" ELSE "next"

\* pop, then lock.acquire: contended, the job is skipped; acquired, the run is
\* built and the attempt begins.
Acquire(f) ==
    /\ pc[f] = "next"
    /\ \E job \in Pop(queue[f]) :
         LET rest == queue[f] \ {job}
         IN  /\ queue' = [queue EXCEPT ![f] = rest]
             /\ \/ /\ ~CanAcquire(job.id, Owner[f])
                   /\ pc' = [pc EXCEPT ![f] = Onward(rest)]
                   /\ UNCHANGED <<lock, runs, att>>
                \/ /\ CanAcquire(job.id, Owner[f])
                   /\ lock' = [lock EXCEPT ![job.id] =
                                 [owner |-> Owner[f], expiresAt |-> clock + LockTtl]]
                   /\ runs' = Append(runs, [job |-> job.id, attempt |-> job.attempts + 1,
                                            owner |-> Owner[f], status |-> "unsaved"])
                   /\ att' = [att EXCEPT ![f] =
                                [NoAttempt EXCEPT !.job = job, !.run = Len(runs) + 1,
                                                  !.lease = clock + LockTtl]]
                   /\ pc' = [pc EXCEPT ![f] = "save"]
    /\ UNCHANGED <<clock, fresh, jobs, orphans, client, faults, ops>>

\* Mutant: the run is looked up by its job.
SetRunOfJob(f, status) ==
    runs' = [r \in DOMAIN runs |->
               IF runs[r].job = att[f].job.id THEN [runs[r] EXCEPT !.status = status]
               ELSE runs[r]]

\* saveRun and updateRun.
SetRun(f, status) == runs' = [runs EXCEPT ![att[f].run].status = status]

\* repository.update of a record: unconditional, whatever is stored.
Write(f, job) == jobs' = [jobs EXCEPT ![att[f].job.id] = job]

SaveRun(f) ==
    /\ pc[f] = "save"
    /\ SetRun(f, "running")
    /\ pc' = [pc EXCEPT ![f] = "mark"]
    /\ UNCHANGED <<clock, fresh, jobs, lock, queue, att, orphans, client, faults, ops>>

MarkRunning(f) ==
    /\ pc[f] = "mark"
    /\ Write(f, Running(att[f].job))
    /\ pc' = [pc EXCEPT ![f] = "exec"]
    /\ UNCHANGED <<clock, fresh, runs, lock, queue, att, orphans, client, faults, ops>>

\* The handler returns: the run is stored as succeeded.
HandlerSucceeds(f) ==
    /\ pc[f] = "exec"
    /\ SetRun(f, "succeeded")
    /\ att' = [att EXCEPT ![f].finishedAt = clock]
    /\ pc' = [pc EXCEPT ![f] = "finalize"]
    /\ UNCHANGED <<clock, fresh, jobs, lock, queue, orphans, client, faults, ops>>

\* The handler throws, or none is registered: MissingHandlerError, JobTimeoutError
\* and every AppError with retryable = false are "fatal".
HandlerFails(f, error) ==
    /\ pc[f] = "exec"
    /\ att' = [att EXCEPT ![f].error = error]
    /\ pc' = [pc EXCEPT ![f] = "fail"]
    /\ UNCHANGED <<clock, fresh, store, queue, orphans, client, faults, ops>>

\* withTimeout rejects the attempt and leaves the handler running.
HandlerTimesOut(f) ==
    /\ pc[f] = "exec" /\ att[f].job.timed
    /\ att' = [att EXCEPT ![f].error = "fatal"]
    /\ orphans' = orphans \cup {att[f].run}
    /\ pc' = [pc EXCEPT ![f] = "fail"]
    /\ UNCHANGED <<clock, fresh, store, queue, client, faults, ops>>

OrphanEnds(r) ==
    /\ r \in orphans
    /\ orphans' = orphans \ {r}
    /\ UNCHANGED <<clock, fresh, store, flowVars, client, faults, ops>>

\* The catch block: the run is stored as failed, whatever it was before.
FailRun(f) ==
    /\ pc[f] = "fail"
    /\ SetRun(f, "failed")
    /\ att' = [att EXCEPT ![f].finishedAt = clock]
    /\ pc' = [pc EXCEPT ![f] = "settle"]
    /\ UNCHANGED <<clock, fresh, jobs, lock, queue, orphans, client, faults, ops>>

Finalize(f) ==
    /\ pc[f] = "finalize"
    /\ \E job \in Finalized(att[f].job, att[f].finishedAt, "succeeded") : Write(f, job)
    /\ pc' = [pc EXCEPT ![f] = "release"]
    /\ UNCHANGED <<clock, fresh, runs, lock, queue, att, orphans, client, faults, ops>>

\* Mutant: a terminal failure is not stored.
SettleRetryOnly(f) ==
    /\ pc[f] = "settle"
    /\ LET a == att[f]
       IN  IF ShouldRetry(a.job, a.error)
           THEN \E delay \in 0..MaxBackoff :
                   /\ delay = Backoff(a.job.backoff, a.job.attempts + 1)
                   /\ Write(f, Retried(a.job, a.finishedAt, delay))
           ELSE UNCHANGED jobs
    /\ pc' = [pc EXCEPT ![f] = "release"]
    /\ UNCHANGED <<clock, fresh, runs, lock, queue, att, orphans, client, faults, ops>>

\* The rest of the catch block: another attempt later, or a terminal failure.
Settle(f) ==
    /\ pc[f] = "settle"
    /\ LET a == att[f]
       IN  \/ /\ ShouldRetry(a.job, a.error)
              /\ \E delay \in 0..MaxBackoff :
                   /\ delay = Backoff(a.job.backoff, a.job.attempts + 1)
                   /\ Write(f, Retried(a.job, a.finishedAt, delay))
           \/ /\ ~ShouldRetry(a.job, a.error)
              /\ \E job \in Finalized(a.job, a.finishedAt, "failed") : Write(f, job)
    /\ pc' = [pc EXCEPT ![f] = "release"]
    /\ UNCHANGED <<clock, fresh, runs, lock, queue, att, orphans, client, faults, ops>>

\* Mutant: release deletes whatever entry the key has.
ReleaseAnyOwner(f) ==
    /\ pc[f] = "release"
    /\ LET rest == IF att[f].thrown THEN {} ELSE queue[f]
       IN  /\ lock' = [lock EXCEPT ![att[f].job.id] = NoLock]
           /\ queue' = [queue EXCEPT ![f] = rest]
           /\ pc' = [pc EXCEPT ![f] = Onward(rest)]
    /\ att' = [att EXCEPT ![f] = NoAttempt]
    /\ UNCHANGED <<clock, fresh, jobs, runs, orphans, client, faults, ops>>

\* finally: lock.release deletes the entry only of its owner.  An error thrown by
\* the catch block leaves runDueJobs, and the rest of its queue is dropped.
Release(f) ==
    /\ pc[f] = "release"
    /\ LET j == att[f].job.id
           rest == IF att[f].thrown THEN {} ELSE queue[f]
       IN  /\ lock' = [lock EXCEPT ![j] = IF @.owner = Owner[f] THEN NoLock ELSE @]
           /\ queue' = [queue EXCEPT ![f] = rest]
           /\ pc' = [pc EXCEPT ![f] = Onward(rest)]
    /\ att' = [att EXCEPT ![f] = NoAttempt]
    /\ UNCHANGED <<clock, fresh, jobs, runs, orphans, client, faults, ops>>

-----------------------------------------------------------------------------
(* Failures. *)

\* A call inside the try block is rejected with a plain, retryable error.
TryFault(f) ==
    /\ faults < MaxFaults /\ faults' = faults + 1
    /\ pc[f] \in {"save", "mark", "exec", "finalize"}
    /\ att' = [att EXCEPT ![f].error = "retryable"]
    /\ pc' = [pc EXCEPT ![f] = "fail"]
    /\ UNCHANGED <<clock, fresh, store, queue, orphans, client, ops>>

\* A call inside the catch block is rejected: finally runs, the error goes on.
CatchFault(f) ==
    /\ faults < MaxFaults /\ faults' = faults + 1
    /\ pc[f] \in {"fail", "settle"}
    /\ att' = [att EXCEPT ![f].thrown = TRUE]
    /\ pc' = [pc EXCEPT ![f] = "release"]
    /\ UNCHANGED <<clock, fresh, store, queue, orphans, client, ops>>

\* acquire or release is rejected: the call ends at once, and with release the
\* entry stays until it expires.
LockFault(f) ==
    /\ faults < MaxFaults /\ faults' = faults + 1
    /\ pc[f] \in {"next", "release"}
    /\ att' = [att EXCEPT ![f] = NoAttempt]
    /\ queue' = [queue EXCEPT ![f] = {}]
    /\ pc' = [pc EXCEPT ![f] = "idle"]
    /\ UNCHANGED <<clock, fresh, store, orphans, client, ops>>

\* The process of instance i dies and restarts: its calls and handlers are gone,
\* what the shared stores hold stays.
Crash(i) ==
    /\ faults < MaxFaults /\ faults' = faults + 1
    /\ \E f \in Flows : Owner[f] = i /\ pc[f] # "idle"
    /\ pc' = [f \in Flows |-> IF Owner[f] = i THEN "idle" ELSE pc[f]]
    /\ queue' = [f \in Flows |-> IF Owner[f] = i THEN {} ELSE queue[f]]
    /\ att' = [f \in Flows |-> IF Owner[f] = i THEN NoAttempt ELSE att[f]]
    /\ orphans' = {r \in orphans : runs[r].owner # i}
    /\ UNCHANGED <<clock, fresh, store, client, ops>>

-----------------------------------------------------------------------------
(* Callers. *)

Call(op) == op \in Operations /\ ops < MaxOps /\ ops' = ops + 1

Schedule(j, in) ==
    /\ Call("schedule") /\ j \in fresh
    /\ \E t \in IF in.cron = {} THEN {in.runsAt} ELSE NextFires(in.cron, clock) :
         jobs' = [jobs EXCEPT ![j] =
                    [id |-> j, cron |-> in.cron, priority |-> in.priority,
                     maxRetries |-> in.maxRetries, backoff |-> in.backoff,
                     timed |-> in.timed, enabled |-> TRUE, status |-> "pending",
                     attempts |-> 0, nextRunAt |-> t]]
    /\ fresh' = fresh \ {j}
    /\ UNCHANGED <<clock, runs, lock, flowVars, orphans, client, faults>>

\* requireJob: the call goes on with what it read; cancel returns at once when
\* the job is cancelled.
Require(c, op, j, patch) ==
    /\ Call(op)
    /\ client[c].op = "none"
    /\ jobs[j] # NoJob
    /\ op = "cancel" => jobs[j].status # "cancelled"
    /\ client' = [client EXCEPT ![c] = [op |-> op, job |-> jobs[j], patch |-> patch]]
    /\ UNCHANGED <<clock, fresh, store, flowVars, orphans, faults>>

\* The rest of update: a patch that throws stores nothing.
Update(c) ==
    /\ client[c].op = "update"
    /\ LET seen == client[c].job
           new == Patched(seen, client[c].patch)
       IN  \/ new = {} /\ UNCHANGED jobs
           \/ \E job \in new : jobs' = [jobs EXCEPT ![seen.id] = job]
    /\ client' = [client EXCEPT ![c] = NoCall]
    /\ UNCHANGED <<clock, fresh, runs, lock, flowVars, orphans, faults, ops>>

Cancel(c) ==
    /\ client[c].op = "cancel"
    /\ LET seen == client[c].job
       IN  jobs' = [jobs EXCEPT ![seen.id] =
                      [seen EXCEPT !.status = "cancelled", !.enabled = FALSE,
                                   !.nextRunAt = Never]]
    /\ client' = [client EXCEPT ![c] = NoCall]
    /\ UNCHANGED <<clock, fresh, runs, lock, flowVars, orphans, faults, ops>>

Delete(c) ==
    /\ client[c].op = "delete"
    /\ jobs' = [jobs EXCEPT ![client[c].job.id] = NoJob]
    /\ client' = [client EXCEPT ![c] = NoCall]
    /\ UNCHANGED <<clock, fresh, runs, lock, flowVars, orphans, faults, ops>>

-----------------------------------------------------------------------------
\* What a flow does on its own once it is called; faults and timeouts apart.
Step(f) ==
    \/ Acquire(f) \/ SaveRun(f) \/ MarkRunning(f)
    \/ HandlerSucceeds(f)
    \/ \E error \in {"retryable", "fatal"} : HandlerFails(f, error)
    \/ FailRun(f) \/ Finalize(f) \/ Settle(f) \/ Release(f)

Fault(f) == TryFault(f) \/ CatchFault(f) \/ LockFault(f)

ClientStep(c) ==
    \/ \E j \in Jobs, patch \in Patches : Require(c, "update", j, patch)
    \/ \E j \in Jobs, op \in {"cancel", "delete"} : Require(c, op, j, Keep)
    \/ Update(c) \/ Cancel(c) \/ Delete(c)

Next ==
    \/ Tick
    \/ \E f \in Flows : BeginTick(f) \/ Step(f) \/ HandlerTimesOut(f) \/ Fault(f)
    \/ \E f \in Flows, j \in Jobs : RunNow(f, j)
    \/ \E r \in orphans : OrphanEnds(r)
    \/ \E i \in Instances : Crash(i)
    \/ \E j \in Jobs, in \in Inputs : Schedule(j, in)
    \/ \E c \in Clients : ClientStep(c)

Spec == Init /\ [][Next]_vars

\* setInterval goes on polling and time goes on; every awaited call of a flow
\* returns, the handler's included.  Callers and failures owe nothing.
Fairness ==
    /\ WF_vars(Tick)
    /\ \A f \in Flows : WF_vars(BeginTick(f)) /\ WF_vars(Step(f))

FairSpec == Spec /\ Fairness

-----------------------------------------------------------------------------
(* Properties. *)

Oneshot(job) == job # NoJob /\ job.cron = {}
InFlight(f) == pc[f] \in InAttempt
Live(f) == InFlight(f) /\ clock < att[f].lease
Handling(f) == pc[f] = "exec"

\* Every variable keeps its type; what an idle flow holds is blank.
TypeOK ==
    /\ clock \in Nat /\ faults \in Nat /\ ops \in Nat
    /\ fresh \subseteq Jobs
    /\ jobs \in [Jobs -> JobRec \cup {NoJob}]
    /\ runs \in Seq(RunRec)
    /\ lock \in [Jobs -> [owner : Instances \cup {NoOwner}, expiresAt : Nat]]
    /\ pc \in [Flows -> Points]
    /\ queue \in [Flows -> SUBSET JobRec]
    /\ att \in [Flows -> AttRec]
    /\ \A f \in Flows : InFlight(f) => att[f].job \in JobRec /\ att[f].run \in DOMAIN runs
    /\ orphans \subseteq Nat
    /\ client \in [Clients ->
                     {NoCall} \cup [op : {"update"}, job : JobRec, patch : PatchRec]
                       \cup [op : {"cancel", "delete"}, job : JobRec, patch : {Keep}]]

\* Two attempts at one job never hold live leases together: what the lock is for,
\* provided an instance has one call in progress (lock.ts acquire and release).
LeaseExclusion ==
    \A f, g \in Flows :
        f # g /\ Live(f) /\ Live(g) => att[f].job.id # att[g].job.id

\* The scheduler implements LeasedMutex: a flow is inside the key of its job from
\* the acquisition until it releases, crashes or its lease runs out.
inside == [f \in Flows |-> IF Live(f) THEN att[f].job.id ELSE NoJob]
Mutex == INSTANCE LeasedMutex WITH Workers <- Flows, Keys <- Jobs, NoKey <- NoJob
MutexSpec == Mutex!Spec

\* The counter of a one-shot job that is attempted never passes maxRetries, although it is written back from
\* snapshots that may be stale (shouldRetry, runAttempt): a stale write takes it back, never beyond.  How often a
\* job is attempted is another matter: two calls that both read attempts = 0 both write 1, and another attempt
\* follows.  runNow and update are outside this promise.
AttemptBudget ==
    \A f \in Flows :
        InFlight(f) /\ Oneshot(att[f].job) => att[f].job.attempts <= att[f].job.maxRetries

\* Until a call is rejected or an instance crashes, a job stored as running has an
\* attempt that will still write its outcome: otherwise no tick ever picks it up
\* again (nextDue selects pending jobs).
RunningMeansInFlight ==
    faults = 0 =>
        \A j \in Jobs :
            jobs[j] # NoJob /\ jobs[j].status = "running" =>
                \E f \in Flows : /\ pc[f] \in {"exec", "fail", "finalize", "settle"}
                                 /\ att[f].job.id = j

\* Until a call is rejected, a run that was stored as succeeded or failed is never
\* stored differently (a rejected finalizeSuccess does rewrite it: the catch block
\* stores the same run as failed).
TerminalRunsImmutable ==
    [][faults' = 0 =>
         \A r \in DOMAIN runs :
             runs[r].status \in {"succeeded", "failed"} => runs'[r] = runs[r]]_vars

\* A one-shot job succeeds at most once: its handler's work is not repeated.
OneShotRunsOnce ==
    \A j \in Jobs :
        Oneshot(jobs[j]) =>
            Cardinality({r \in DOMAIN runs : runs[r].job = j /\ runs[r].status = "succeeded"}) <= 1

\* The attempts at a job: every run that was built, whatever became of it.
AttemptsAt(j) == Cardinality({r \in DOMAIN runs : runs[r].job = j})

\* Where one call at a time does the work, a one-shot job succeeds at most once, and it is attempted at most
\* maxRetries + 1 times and once more for each rejected call or crash, which may keep an attempt from being
\* counted (runAttempt's writes, shouldRetry, nextDue).
OneShotWorkIsBounded ==
    /\ OneShotRunsOnce
    /\ \A j \in Jobs : Oneshot(jobs[j]) => AttemptsAt(j) <= jobs[j].maxRetries + 1 + faults

Cancelled(job) == job # NoJob /\ job.status = "cancelled"
HeldByFlow(j) ==
    \E f \in Flows :
        (\E job \in queue[f] : job.id = j) \/ (InFlight(f) /\ att[f].job.id = j)

\* A job that is due is picked up by a tick: it does not stay due for ever, although nextDue leaves out whatever
\* comes after the first QueueLimit due jobs, and calls are rejected.
DueIsServed == \A j \in Jobs : IsDue(jobs[j]) ~> ~IsDue(jobs[j])

\* A one-shot job reaches a terminal status through whatever failures, retries and backoffs, unless its next
\* attempt falls beyond the last modelled instant, or a rejected call or a crash left it stored as running with
\* nobody at work on it.
OneShotSettles ==
    \A j \in Jobs :
        Oneshot(jobs[j]) ~>
            (jobs[j] # NoJob =>
                \/ jobs[j].status \in {"succeeded", "failed"} \/ jobs[j].nextRunAt > MaxClock
                \/ faults > 0 /\ jobs[j].status = "running" /\ ~HeldByFlow(j))

StaleCaller(j) ==
    \E c \in Clients : /\ client[c].op # "none"
                       /\ client[c].job.id = j /\ ~Cancelled(client[c].job)

\* Once nobody works from a snapshot taken before the cancellation, a cancelled
\* job stays cancelled and no tick takes it, whatever updates re-enable or
\* reschedule it (update's status checks and nextDue's) and whatever crashes or is
\* rejected meanwhile.  Only runNow, which looks for running jobs alone, attempts it.
CancelHolds ==
    [][\A j \in Jobs :
         Cancelled(jobs[j]) /\ ~HeldByFlow(j) /\ ~StaleCaller(j) =>
            \/ jobs'[j] = NoJob
            \/ Cancelled(jobs'[j]) /\ ~HeldByFlow(j)'
            \/ \E f \in Flows : RunNow(f, j)]_vars

-----------------------------------------------------------------------------
(* What the documentation says, in configurations where the code does not do it. *)

\* lock.ts: "guarantee a job runs on exactly one scheduler instance at a time".
\* A handler runs in a flow at "exec" and, after a timeout, as an orphan.
OneInstanceAtATime ==
    /\ \A f, g \in Flows :
         Handling(f) /\ Handling(g) /\ att[f].job.id = att[g].job.id => Owner[f] = Owner[g]
    /\ \A f \in Flows, r \in orphans :
         Handling(f) /\ att[f].job.id = runs[r].job => Owner[f] = runs[r].owner

\* types.ts: "cancelled marks a job the operator stopped".
CancelledStaysCancelled ==
    [][\A j \in Jobs : Cancelled(jobs[j]) =>
                          jobs'[j] = NoJob \/ Cancelled(jobs'[j])]_vars
=============================================================================
