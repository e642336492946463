-------------------------- MODULE ExecutionEngine --------------------------
(***************************************************************************)
(* ExecutionEngine (packages/execution-engine/src): the only component     *)
(* that writes to a shop.  An execution is planned, admitted by the safety *)
(* guard, takes the lock of its store, runs its steps in order and, when a *)
(* step fails, restores the steps it had done in reverse order.            *)
(*                                                                         *)
(* The repository hands out the objects it stores, so a change of an       *)
(* execution is seen by everyone at once; only the LIST of the active      *)
(* executions is read before an await and used after it.  A flow is one    *)
(* call of execute or resume in progress; an action is the code from one   *)
(* await whose outcome matters to the next.                                *)
(*                                                                         *)
(* Every step is a mutation of a resource of its own, and requests are     *)
(* those the checks that look at nothing but the request (mode, batch      *)
(* size, rejected action types) let through.                               *)
(***************************************************************************)
EXTENDS Naturals, Sequences, FiniteSets

CONSTANTS
    Execs,           \* ids the planner can hand out
    Stores,
    Flows,           \* calls of execute and resume that can be in progress
    Requests,        \* Requests[e]: what execution e is asked to do
    RequireApproval, \* SafetyConfig.requireApproval
    AutoRollback,    \* SafetyConfig.autoRollbackOnFailure
    Provider,        \* is there a resourceStateProvider?
    Faults,          \* what may go wrong: a subset of FaultKinds
    MaxResumes,      \* bound: calls of resume
    MaxStops,        \* bound: calls of emergencyStop
    NoExec, NoOwner, Everywhere

FaultKinds == {"validation",  \* the provider or a validator refuses the step
               "write",       \* the write is refused
               "response",    \* the write lands, its response is lost
               "timeout",     \* the write is in flight when the time is up
               "saveDiff", "saveMetrics",
               "restore",     \* a restore is refused, or its response lost
               "started",     \* the sink rejects execution.started
               "sink"}        \* the sink rejects a later event

Statuses == {"PENDING", "QUEUED", "EXECUTING", "COMPLETED", "FAILED",
             "CANCELLED", "REJECTED", "ROLLED_BACK"}
StepStatuses == {"PENDING", "EXECUTING", "COMPLETED", "SIMULATED", "FAILED",
                 "CANCELLED", "ROLLED_BACK"}
\* The executions listActiveExecutions returns and detectConflicts refuses.
ActiveStatuses == {"PENDING", "QUEUED", "EXECUTING"}

\* How a task says it is undone: nothing (an action of a caller), the null of
\* a decision plan, or a decision's plan, available or not.
Rollbacks == {"derived", "null", "unavailable", "available"}
Plans == {"empty", "null", "unavailable", "steps"}
\* What a resource holds, as far as a step can tell; "none" is a state not read.
Values == {"old", "new"}

TaskRec == [approved : BOOLEAN, rollback : Rollbacks]
RequestRec == [store : Stores, real : BOOLEAN, queued : BOOLEAN,
               tasks : Seq(TaskRec)]
StepRec == [status : StepStatuses, approved : BOOLEAN, plan : Plans,
            before : Values \cup {"none"}, attempts : Nat]
ExecRec == [store : Stores, real : BOOLEAN, status : Statuses,
            steps : Seq(StepRec)]

ASSUME RequestsAssumption ==
    /\ Requests \in [Execs -> RequestRec]
    /\ \A e \in Execs : Requests[e].tasks # <<>>
ASSUME ConfigAssumption ==
    /\ RequireApproval \in BOOLEAN /\ AutoRollback \in BOOLEAN
    /\ Provider \in BOOLEAN /\ Faults \subseteq FaultKinds
    /\ MaxResumes \in Nat /\ MaxStops \in Nat
ASSUME NullAssumption ==
    NoExec \notin ExecRec /\ NoOwner \notin Execs /\ Everywhere \notin Stores

VARIABLES
    execs,    \* the repository: an execution, or NoExec
    lock,     \* StoreLock: the execution that owns a store, or NoOwner
    stopped,  \* KillSwitch: the stores stopped, and Everywhere
    written,  \* the shop: the <<execution, step>> whose payload it holds
    late,     \* writes still in flight after their step timed out
    pc,       \* where each flow is
    on,       \* the execution a flow runs
    seen,     \* the active executions a flow listed
    at,       \* the step a flow is at
    state,    \* the resource state it read for that step
    done,     \* the steps it has executed: executed in runSteps
    resumes, stops,
    joined    \* history: a resume began while another call ran its execution

vars == <<execs, lock, stopped, written, late, pc, on, seen, at, state, done,
          resumes, stops, joined>>
shop == <<written, late>>
locals == <<on, seen, at, state, done>>
bounds == <<resumes, stops, joined>>

Points == {"idle", "admit", "started", "next", "read", "publish", "respond",
           "diff", "undo", "restore", "finalize", "release"}
\* The points of run after acquire and before the finally.
InRun == Points \ {"idle", "admit"}

-----------------------------------------------------------------------------
(* Operators of the code. *)

\* RollbackPlanner.planFromDecision and planForStep, on a step just built,
\* whose before is null.
PlanOf(rollback) ==
    [derived |-> "empty", null |-> "null", unavailable |-> "unavailable",
     available |-> "steps"][rollback]

\* ExecutionPlanner.plan, buildStep, buildExecution.
Planned(q) ==
    [store |-> q.store, real |-> q.real, status |-> "PENDING",
     steps |-> [i \in DOMAIN q.tasks |->
                   [status |-> "PENDING", approved |-> q.tasks[i].approved,
                    plan |-> PlanOf(q.tasks[i].rollback), before |-> "none",
                    attempts |-> 0]]]

NeedsApproval(r) ==
    RequireApproval /\ \E i \in DOMAIN r.steps : ~r.steps[i].approved

Exists(e) == execs[e] # NoExec
IsActive(e) == Exists(e) /\ execs[e].status \in ActiveStatuses

\* Mutant: a conflict is an execution that was active when it was listed.
RefusedByList(e, list) ==
    LET r == execs[e]
    IN  \/ {r.store, Everywhere} \cap stopped # {}
        \/ lock[r.store] \notin {NoOwner, e}
        \/ list # {}
        \/ NeedsApproval(r)

\* SafetyGuard.assessExecution: a listed execution is a conflict if it is
\* STILL active.
Refused(e, list) ==
    LET r == execs[e]
    IN  \/ {r.store, Everywhere} \cap stopped # {}
        \/ lock[r.store] \notin {NoOwner, e}
        \/ \E x \in list : IsActive(x)
        \/ NeedsApproval(r)

\* validateRollbackCapability.
CanRestore(s) == s.plan \in {"empty", "steps"} /\ s.before # "none"

WithStep(r, i, s) == [r EXCEPT !.steps = [r.steps EXCEPT ![i] = s]]
WithStatus(r, i, status) ==
    WithStep(r, i, [r.steps[i] EXCEPT !.status = status])

\* Mutant: the steps that are left are skipped, a status no step is given.
SkipRest(r) ==
    [r EXCEPT !.steps = [i \in DOMAIN r.steps |->
        IF r.steps[i].status = "PENDING"
        THEN [r.steps[i] EXCEPT !.status = "SKIPPED"] ELSE r.steps[i]]]

\* runSteps and cancel: the steps that were not begun.
CancelRest(r) ==
    [r EXCEPT !.steps = [i \in DOMAIN r.steps |->
        IF r.steps[i].status = "PENDING"
        THEN [r.steps[i] EXCEPT !.status = "CANCELLED"] ELSE r.steps[i]]]

\* Mutant: a cancelled step is run like any other.
ToRunAll(r, i) == {j \in DOMAIN r.steps : j >= i}

\* Mutant: the loop starts one step late.
ToRunLate(r, i) == {j \in DOMAIN r.steps : j > i /\ r.steps[j].status # "CANCELLED"}

\* The steps from i on that runSteps does not skip.
ToRun(r, i) == {j \in DOMAIN r.steps : j >= i /\ r.steps[j].status # "CANCELLED"}

\* What the shop holds once <<e, i>> has the value v.
Shop(e, i, v) == IF v = "new" THEN written \cup {<<e, i>>} ELSE written \ {<<e, i>>}

Go(f, point) == pc' = [pc EXCEPT ![f] = point]
Save(e, r) == execs' = [execs EXCEPT ![e] = r]

\* The call returns or throws, and its locals are gone.
Leave(f) ==
    /\ Go(f, "idle")
    /\ on' = [on EXCEPT ![f] = NoOwner]
    /\ seen' = [seen EXCEPT ![f] = {}]
    /\ at' = [at EXCEPT ![f] = 0]
    /\ state' = [state EXCEPT ![f] = "none"]
    /\ done' = [done EXCEPT ![f] = <<>>]

-----------------------------------------------------------------------------
Init ==
    /\ execs = [e \in Execs |-> NoExec]
    /\ lock = [s \in Stores |-> NoOwner]
    /\ stopped = {} /\ written = {} /\ late = {}
    /\ pc = [f \in Flows |-> "idle"]
    /\ on = [f \in Flows |-> NoOwner]
    /\ seen = [f \in Flows |-> {}]
    /\ at = [f \in Flows |-> 0]
    /\ state = [f \in Flows |-> "none"]
    /\ done = [f \in Flows |-> <<>>]
    /\ resumes = 0 /\ stops = 0 /\ joined = FALSE

\* run up to its first await: the list of the other active executions.
BeginRun(f, e) ==
    /\ pc[f] = "idle"
    /\ Go(f, "admit")
    /\ on' = [on EXCEPT ![f] = e]
    /\ seen' = [seen EXCEPT ![f] =
           {x \in Execs \ {e} : IsActive(x) /\ execs[x].store = Requests[e].store}]
    /\ at' = [at EXCEPT ![f] = 1]
    /\ done' = [done EXCEPT ![f] = <<>>]
    /\ UNCHANGED state

\* execute: it waits for approvals, or is queued, or runs.
Execute(e, f) ==
    LET q == Requests[e]
        r == Planned(q)
    IN  /\ ~Exists(e)
        /\ \/ /\ NeedsApproval(r)
              /\ Save(e, r)
              /\ UNCHANGED <<pc, locals>>
           \/ /\ ~NeedsApproval(r) /\ q.queued
              /\ Save(e, [r EXCEPT !.status = "QUEUED"])
              /\ UNCHANGED <<pc, locals>>
           \/ /\ ~NeedsApproval(r) /\ ~q.queued
              /\ Save(e, r)
              /\ BeginRun(f, e)
        /\ UNCHANGED <<lock, stopped, shop, bounds>>

\* resume: an operator's call, or the handler of the execution worker.
Resume(e, f) ==
    /\ Exists(e)
    /\ resumes < MaxResumes
    /\ resumes' = resumes + 1
    /\ joined' = (joined \/ \E g \in Flows : on[g] = e)
    /\ BeginRun(f, e)
    /\ UNCHANGED <<execs, lock, stopped, shop, stops>>

Approve(e, i) ==
    /\ Exists(e)
    /\ i \in DOMAIN execs[e].steps
    /\ ~execs[e].steps[i].approved
    /\ Save(e, WithStep(execs[e], i, [execs[e].steps[i] EXCEPT !.approved = TRUE]))
    /\ UNCHANGED <<lock, stopped, shop, pc, locals, bounds>>

Cancel(e) ==
    /\ Exists(e)
    /\ execs[e].status \in {"PENDING", "QUEUED"}
    /\ Save(e, [CancelRest(execs[e]) EXCEPT !.status = "CANCELLED"])
    /\ UNCHANGED <<lock, stopped, shop, pc, locals, bounds>>

EmergencyStop(where) ==
    /\ stops < MaxStops
    /\ stops' = stops + 1
    /\ stopped' = stopped \cup {where}
    /\ UNCHANGED <<execs, lock, shop, pc, locals, resumes, joined>>

ResumeFromStop(where) ==
    /\ where \in stopped
    /\ stopped' = stopped \ {where}
    /\ UNCHANGED <<execs, lock, shop, pc, locals, bounds>>

-----------------------------------------------------------------------------
(* The steps of a flow f that runs an execution. *)

\* run: assertCanExecute, and for a real mode StoreLock.acquire, which also
\* refuses the execution that already owns the store.
Reject(f) ==
    /\ pc[f] = "admit"
    /\ Refused(on[f], seen[f])
    /\ Save(on[f], [execs[on[f]] EXCEPT !.status = "REJECTED"])
    /\ Leave(f)
    /\ UNCHANGED <<lock, stopped, shop, bounds>>

StoreLocked(f) ==
    LET r == execs[on[f]]
    IN  /\ pc[f] = "admit"
        /\ ~Refused(on[f], seen[f])
        /\ r.real /\ lock[r.store] # NoOwner
        /\ Leave(f)
        /\ UNCHANGED <<execs, lock, stopped, shop, bounds>>

\* Mutant: an execution may take again the lock it owns.
AdmitReentrant(f) ==
    LET e == on[f]
        r == execs[e]
    IN  /\ pc[f] = "admit"
        /\ ~Refused(e, seen[f])
        /\ r.real => lock[r.store] \in {NoOwner, e}
        /\ lock' = IF r.real THEN [lock EXCEPT ![r.store] = e] ELSE lock
        /\ Save(e, [r EXCEPT !.status = "EXECUTING"])
        /\ Go(f, "started")
        /\ seen' = [seen EXCEPT ![f] = {}]
        /\ UNCHANGED <<stopped, shop, on, at, state, done, bounds>>

Admit(f) ==
    LET e == on[f]
        r == execs[e]
    IN  /\ pc[f] = "admit"
        /\ ~Refused(e, seen[f])
        /\ r.real => lock[r.store] = NoOwner
        /\ lock' = IF r.real THEN [lock EXCEPT ![r.store] = e] ELSE lock
        /\ Save(e, [r EXCEPT !.status = "EXECUTING"])
        /\ Go(f, "started")
        /\ seen' = [seen EXCEPT ![f] = {}]
        /\ UNCHANGED <<stopped, shop, on, at, state, done, bounds>>

\* The emit of execution.started, which is not inside the try.
Started(f) ==
    /\ pc[f] = "started"
    /\ \/ Go(f, "next") /\ UNCHANGED locals
       \/ "started" \in Faults /\ Leave(f)
    /\ UNCHANGED <<execs, lock, stopped, shop, bounds>>

\* runSteps: the next step, EXECUTING, its attempt counted.
BeginStep(f) ==
    LET e == on[f]
        r == execs[e]
    IN  /\ pc[f] = "next"
        /\ \E i \in ToRun(r, at[f]) :
              /\ \A j \in ToRun(r, at[f]) : i <= j
              /\ at' = [at EXCEPT ![f] = i]
              /\ Save(e, WithStep(r, i, [r.steps[i] EXCEPT
                     !.status = "EXECUTING", !.attempts = @ + 1]))
        /\ Go(f, "read")
        /\ UNCHANGED <<lock, stopped, shop, on, seen, state, done, bounds>>

\* StepRunner.run: resourceStateProvider, then the validations pass.
Read(f) ==
    /\ pc[f] = "read"
    /\ state' = [state EXCEPT ![f] =
           IF ~Provider THEN "none"
           ELSE IF <<on[f], at[f]>> \in written THEN "new" ELSE "old"]
    /\ Go(f, "publish")
    /\ UNCHANGED <<execs, lock, stopped, shop, on, seen, at, done, bounds>>

\* OperationPublisher.publish: a real mode writes.
Publish(f) ==
    LET e == on[f]
    IN  /\ pc[f] = "publish"
        /\ written' = IF execs[e].real THEN Shop(e, at[f], "new") ELSE written
        /\ Go(f, "respond")
        /\ UNCHANGED <<execs, lock, stopped, late, locals, bounds>>

\* Mutant: the state before the write is read once the write is done.
RespondRereads(f) ==
    LET e == on[f]
        r == execs[e]
        s == r.steps[at[f]]
    IN  /\ pc[f] = "respond"
        /\ Save(e, WithStep(r, at[f], [s EXCEPT
               !.before = IF <<e, at[f]>> \in written THEN "new" ELSE "old",
               !.status = IF r.real THEN "COMPLETED" ELSE "SIMULATED"]))
        /\ Go(f, "diff")
        /\ UNCHANGED <<lock, stopped, shop, locals, bounds>>

\* StepRunner.run: what it records once publish has returned.
Respond(f) ==
    LET e == on[f]
        r == execs[e]
        s == r.steps[at[f]]
    IN  /\ pc[f] = "respond"
        /\ Save(e, WithStep(r, at[f], [s EXCEPT
               !.before = IF state[f] # "none" THEN state[f] ELSE @,
               !.status = IF r.real THEN "COMPLETED" ELSE "SIMULATED"]))
        /\ Go(f, "diff")
        /\ UNCHANGED <<lock, stopped, shop, locals, bounds>>

\* runSteps: saveDiff, executed.push.
StepDone(f) ==
    /\ pc[f] = "diff"
    /\ done' = [done EXCEPT ![f] = Append(@, at[f])]
    /\ at' = [at EXCEPT ![f] = @ + 1]
    /\ state' = [state EXCEPT ![f] = "none"]
    /\ Go(f, "next")
    /\ UNCHANGED <<execs, lock, stopped, shop, on, seen, bounds>>

\* runSteps, catch: roll back, or cancel the rest and fail.
FailStep(f) ==
    LET e == on[f]
        r == WithStatus(execs[e], at[f], "FAILED")
        undo == r.real /\ AutoRollback
    IN  /\ Save(e, IF undo THEN r ELSE [CancelRest(r) EXCEPT !.status = "FAILED"])
        /\ Go(f, IF undo THEN "undo" ELSE "finalize")
        /\ UNCHANGED <<lock, stopped, locals, bounds>>

StepFails(f) ==
    /\ \/ pc[f] = "read" /\ "validation" \in Faults
       \/ pc[f] = "publish" /\ "write" \in Faults
       \/ pc[f] = "respond" /\ "response" \in Faults
       \/ pc[f] = "diff" /\ "saveDiff" \in Faults
    /\ FailStep(f)
    /\ UNCHANGED shop

\* A write refused by the write budget, which the sink refuses to report: the
\* catch of runSteps throws before it rolls back or cancels anything.
RefusalUnreported(f) ==
    /\ pc[f] = "publish"
    /\ {"write", "sink"} \subseteq Faults
    /\ Save(on[f], [WithStatus(execs[on[f]], at[f], "FAILED") EXCEPT !.status = "FAILED"])
    /\ Go(f, "release")
    /\ UNCHANGED <<lock, stopped, shop, locals, bounds>>

\* withTimeout: the step fails, and its write goes on.
TimesOut(f) ==
    /\ pc[f] = "publish"
    /\ "timeout" \in Faults
    /\ late' = IF execs[on[f]].real THEN late \cup {<<on[f], at[f]>>} ELSE late
    /\ FailStep(f)
    /\ UNCHANGED written

\* A write that outlived its step reaches the shop, or never does.
LateWrite(w) ==
    /\ w \in late
    /\ late' = late \ {w}
    /\ written' \in {written, written \cup {w}}
    /\ UNCHANGED <<execs, lock, stopped, pc, locals, bounds>>

\* The emit of execution.rollback_started.
RollbackStarts(f) ==
    /\ pc[f] = "undo"
    /\ Go(f, "restore")
    /\ UNCHANGED <<execs, lock, stopped, shop, locals, bounds>>

\* The steps still to restore after the last.
RestLast(d) == SubSeq(d, 1, Len(d) - 1)

\* rollbackSteps: the last step that is left.  An empty plan restores nothing.
Restore(f) ==
    LET e == on[f]
        d == done[f]
        i == d[Len(d)]
        s == execs[e].steps[i]
    IN  /\ pc[f] = "restore"
        /\ d # <<>>
        /\ CanRestore(s)
        /\ written' = IF s.plan = "steps" THEN Shop(e, i, s.before) ELSE written
        /\ Save(e, WithStatus(execs[e], i, "ROLLED_BACK"))
        /\ done' = [done EXCEPT ![f] = RestLast(d)]
        /\ UNCHANGED <<lock, stopped, late, pc, on, seen, at, state, bounds>>

\* rollbackSteps: RollbackEngine reports FAILED; the sink may then reject
\* execution.rollback_failed, and the rollback ends there.
RestoreFails(f) ==
    LET e == on[f]
        d == done[f]
        i == d[Len(d)]
        s == execs[e].steps[i]
        r == WithStatus(execs[e], i, "FAILED")
    IN  /\ pc[f] = "restore"
        /\ d # <<>>
        /\ \/ ~CanRestore(s) /\ UNCHANGED written
           \/ /\ CanRestore(s) /\ s.plan = "steps" /\ "restore" \in Faults
              /\ written' \in {written, Shop(e, i, s.before)}
        /\ done' = [done EXCEPT ![f] = RestLast(d)]
        /\ \/ Save(e, r) /\ UNCHANGED pc
           \/ /\ "sink" \in Faults
              /\ Save(e, [r EXCEPT !.status = "FAILED"]) /\ Go(f, "release")
        /\ UNCHANGED <<lock, stopped, late, on, seen, at, state, bounds>>

\* runSteps: the rollback is over, whatever became of its steps.
RolledBack(f) ==
    /\ pc[f] = "restore"
    /\ done[f] = <<>>
    /\ Save(on[f], [CancelRest(execs[on[f]]) EXCEPT !.status = "ROLLED_BACK"])
    /\ Go(f, "finalize")
    /\ UNCHANGED <<lock, stopped, shop, locals, bounds>>

\* run: no step is left, and its status is decided.
Finish(f) ==
    LET r == execs[on[f]]
        failed == \E i \in DOMAIN r.steps : r.steps[i].status = "FAILED"
    IN  /\ pc[f] = "next"
        /\ ToRun(r, at[f]) = {}
        /\ Save(on[f], IF r.status \in {"ROLLED_BACK", "FAILED"} THEN r
                       ELSE [r EXCEPT !.status = IF failed THEN "FAILED" ELSE "COMPLETED"])
        /\ Go(f, "finalize")
        /\ UNCHANGED <<lock, stopped, shop, locals, bounds>>

\* run: finalize and the last event.
Finalize(f) ==
    /\ pc[f] = "finalize"
    /\ Go(f, "release")
    /\ UNCHANGED <<execs, lock, stopped, shop, locals, bounds>>

\* run, catch: what the repository or the sink rejects inside the try.
Abort(f) ==
    /\ \/ pc[f] = "undo" /\ "sink" \in Faults
       \/ pc[f] = "finalize" /\ Faults \cap {"sink", "saveMetrics"} # {}
    /\ Save(on[f], [execs[on[f]] EXCEPT !.status = "FAILED"])
    /\ Go(f, "release")
    /\ UNCHANGED <<lock, stopped, shop, locals, bounds>>

\* Mutant: the lock is released on success only, not in the finally.
ReleaseCompleted(f) ==
    LET e == on[f]
        r == execs[e]
    IN  /\ pc[f] = "release"
        /\ lock' = IF r.real /\ r.status = "COMPLETED"
                   THEN [lock EXCEPT ![r.store] = NoOwner] ELSE lock
        /\ Leave(f)
        /\ UNCHANGED <<execs, stopped, shop, bounds>>

\* run, finally: releaseIfOwner.
Release(f) ==
    LET e == on[f]
        r == execs[e]
    IN  /\ pc[f] = "release"
        /\ lock' = IF r.real /\ lock[r.store] = e
                   THEN [lock EXCEPT ![r.store] = NoOwner] ELSE lock
        /\ Leave(f)
        /\ UNCHANGED <<execs, stopped, shop, bounds>>

-----------------------------------------------------------------------------
Advance(f) ==
    \/ Reject(f) \/ StoreLocked(f) \/ Admit(f) \/ Started(f)
    \/ BeginStep(f) \/ Read(f) \/ Publish(f) \/ Respond(f) \/ StepDone(f)
    \/ StepFails(f) \/ RefusalUnreported(f) \/ TimesOut(f)
    \/ RollbackStarts(f) \/ Restore(f) \/ RestoreFails(f) \/ RolledBack(f)
    \/ Finish(f) \/ Finalize(f) \/ Abort(f) \/ Release(f)

Call ==
    \/ \E e \in Execs, f \in Flows : Execute(e, f) \/ Resume(e, f)
    \/ \E e \in Execs : Cancel(e) \/ \E i \in DOMAIN Requests[e].tasks : Approve(e, i)
    \/ \E where \in Stores \cup {Everywhere} :
           EmergencyStop(where) \/ ResumeFromStop(where)

Next ==
    \/ Call
    \/ \E f \in Flows : Advance(f)
    \/ \E w \in late : LateWrite(w)

Spec == Init /\ [][Next]_vars
\* The promises of a run settle: nothing bounds the provider, the repository or
\* the sink, but withTimeout bounds every write.  Nobody has to call anything.
FairSpec == Spec /\ \A f \in Flows : WF_vars(Advance(f))

-----------------------------------------------------------------------------
(* Properties. *)

TypeOK ==
    /\ execs \in [Execs -> ExecRec \cup {NoExec}]
    /\ lock \in [Stores -> Execs \cup {NoOwner}]
    /\ stopped \subseteq Stores \cup {Everywhere}
    /\ written \subseteq Execs \X Nat /\ late \subseteq Execs \X Nat
    /\ pc \in [Flows -> Points]
    /\ on \in [Flows -> Execs \cup {NoOwner}]
    /\ seen \in [Flows -> SUBSET Execs]
    /\ at \in [Flows -> Nat]
    /\ state \in [Flows -> Values \cup {"none"}]
    /\ done \in [Flows -> Seq(Nat)]
    /\ resumes \in 0..MaxResumes /\ stops \in 0..MaxStops /\ joined \in BOOLEAN

Running(f, e) == pc[f] \in InRun /\ on[f] = e
InFlight(e) == \E f \in Flows : Running(f, e)
\* No run of the execution but the first has begun a step.
RunOnce(r) == \A i \in DOMAIN r.steps : r.steps[i].attempts <= 1

\* The steps of two runs in a real mode never alternate on a store: not those
\* of two executions whose conflict check missed each other, nor those of two
\* calls of resume for one execution.
StoreExclusion ==
    \A f, g \in Flows :
        /\ f # g
        /\ pc[f] \in InRun /\ pc[g] \in InRun
        /\ execs[on[f]].real /\ execs[on[g]].real
        => execs[on[f]].store # execs[on[g]].store

\* A store is locked only while its owner runs: whatever fails on the way, the
\* finally of run is reached by the owner.  (The emit of execution.started is
\* outside the try; the runs that check this leave its failure out.)
LockHeldByRun ==
    \A s \in Stores : lock[s] # NoOwner =>
        execs[lock[s]].store = s /\ InFlight(lock[s])

\* An execution that was run once and is ROLLED_BACK left nothing half done: no
\* step of it still counts as COMPLETED or to be run, and a step that counts as
\* ROLLED_BACK under a plan with something to restore is not in the shop.
RolledBackMeansUndone ==
    \A e \in Execs :
        Exists(e) /\ ~InFlight(e) /\ execs[e].status = "ROLLED_BACK" /\ RunOnce(execs[e])
        => \A i \in DOMAIN execs[e].steps :
               LET s == execs[e].steps[i]
               IN  /\ s.status \in {"ROLLED_BACK", "FAILED", "CANCELLED"}
                   /\ s.status = "ROLLED_BACK" /\ s.plan = "steps" => <<e, i>> \notin written
                   /\ s.status = "CANCELLED" => <<e, i>> \notin written \cup late

\* An execution in a real mode that is COMPLETED has every step that was not
\* cancelled in the shop, however often it was resumed and whatever its earlier
\* runs left; and after a single run, all of its steps or none of them.
CompletedMeansWritten ==
    \A e \in Execs :
        Exists(e) /\ ~InFlight(e) /\ execs[e].status = "COMPLETED" /\ execs[e].real
        => LET r == execs[e]
               W == {i \in DOMAIN r.steps : <<e, i>> \in written}
           IN  /\ \A i \in DOMAIN r.steps :
                      \/ r.steps[i].status = "COMPLETED" /\ i \in W
                      \/ r.steps[i].status = "CANCELLED"
               /\ RunOnce(r) => W \in {{}, DOMAIN r.steps}

\* A step that was cancelled is never run nor written: not by a run that was
\* being admitted when its execution was cancelled, not by a resume that takes
\* no notice of the status, not by a write that is still in flight.
CancelledNeverWritten ==
    [][\A e \in Execs : Exists(e) =>
         \A i \in DOMAIN execs[e].steps :
             execs[e].steps[i].status = "CANCELLED" =>
                 /\ execs'[e].steps[i].status = "CANCELLED"
                 /\ <<e, i>> \notin written' \cup late']_vars

\* Executions of a store cannot all lose to each other.  With no stop called,
\* every step approved from the start and no call of resume that joined another
\* call for its execution, REJECTED is somebody else's turn: the conflict check
\* looks again at the executions it listed.  (A call that joins another rejects
\* the execution that runs, for which others were rejected already.)
NotAllRejected ==
    \A s \in Stores :
        LET X == {e \in Execs : Exists(e) /\ execs[e].store = s}
        IN  /\ X # {} /\ stops = 0 /\ ~joined /\ lock[s] = NoOwner
            /\ \A e \in X : ~NeedsApproval(Planned(Requests[e]))
            => \E e \in X : execs[e].status # "REJECTED"

\* A store is unlocked in the end, though a step of its owner fails or hangs.
LocksAreReleased ==
    \A s \in Stores, e \in Execs : lock[s] = e ~> lock[s] # e

\* kill-switch.ts: stopping globally freezes every write.
StopFreezesWrites ==
    [][\A w \in written' \ written :
           {execs[w[1]].store, Everywhere} \cap stopped = {}]_vars

\* execution-engine.md: every write is reversible through a recorded plan, and
\* a failed step rolls the execution back.
RollbackIsComplete ==
    \A e \in Execs :
        Exists(e) /\ ~InFlight(e) /\ execs[e].status = "ROLLED_BACK"
        => \A w \in written : w[1] # e
=============================================================================
