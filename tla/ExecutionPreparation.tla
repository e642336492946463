------------------------ MODULE ExecutionPreparation ------------------------
(***************************************************************************)
(* What happens to the steps of an execution on their way to the shop      *)
(* (packages/execution-engine/src): the planner orders the tasks and puts  *)
(* them into batches, the approval gate takes decisions, every step runs   *)
(* through the validation pipeline, and its outcome is recorded as a diff. *)
(* Locks, stops, timeouts and concurrent runs are in ExecutionEngine, what *)
(* the writes do to the shop is in ShopWrites; here one execution follows  *)
(* another in one store, each with the checks of defaultChecks but the     *)
(* schema, policy and conflict checks, which find nothing wrong here.  The *)
(* engine itself wires no check unless it is given some.                   *)
(***************************************************************************)
EXTENDS Integers, Sequences, FiniteSets, SequencesExt

CONSTANTS
    PrepRequests,      \* what an execution may be asked for
    ApprovalRequired,  \* config.requireApproval
    MaxBatchSize,
    Capability,        \* Capability[a]: what the writer needs for action a
    WriterCan,         \* the writer's capabilities
    Bodies,            \* Bodies[r]: states of resource r, functions from fields to objects or atoms [atom |-> x]
    UnreadBody,        \* no state
    Executions         \* bound: how many executions, an initial segment of Nat \ {0}

Real == {"STAGING", "PRODUCTION"}
Settled == {"COMPLETED", "SIMULATED"}
PrepTask == [id : STRING, action : STRING, type : STRING, resource : STRING, value : STRING,
             dependsOn : Seq(STRING), approved : BOOLEAN, rollback : {"derived", "null", "unavailable", "steps"}]

ASSUME PreparationAssumption ==
    /\ MaxBatchSize \in Nat \ {0} /\ ApprovalRequired \in BOOLEAN
    /\ \A r \in PrepRequests : r.tasks \in Seq(PrepTask) /\ r.mode \in Real \cup {"DRY_RUN", "SIMULATION"}

VARIABLES
    prepared,    \* the execution at hand: its number, request and phase
    prepSteps,   \* its steps, in the order they run
    repository,  \* the steps saved by the executions that are over, in the order first saved
    savedDiffs   \* the states its steps were found in and left, of which the diffs are saved

prepVars == <<prepared, prepSteps, repository, savedDiffs>>

StepStates == {"PENDING", "EXECUTING", "COMPLETED", "SIMULATED", "FAILED", "CANCELLED", "ROLLED_BACK"}
PrepStep == [task : PrepTask, dependsOn : Seq(Nat), approved : BOOLEAN, status : StepStates,
             captured : BOOLEAN, failed : SUBSET STRING]

PrepTypeOK ==
    /\ prepared.number \in Executions \cup {0} /\ prepared.request \in PrepRequests
    /\ prepared.phase \in {"waiting", "running", "undoing", "stopping", "over"}
    /\ prepSteps \in Seq(PrepStep) /\ repository \in Seq([task : PrepTask, status : StepStates])
    /\ \A d \in savedDiffs : \E resource \in DOMAIN Bodies : d \in Bodies[resource] \X Bodies[resource]

PrepInit ==
    /\ prepared = [number |-> 0, request |-> CHOOSE r \in PrepRequests : TRUE, phase |-> "over"]
    /\ prepSteps = <<>> /\ repository = <<>> /\ savedDiffs = {}

----------------------------------------------------------------------------
(* The planner *)

Indices(tasks) == [i \in DOMAIN tasks |-> i]

\* The task of an id, 0 if there is none; the last one if several have it.
TaskIndex(tasks, id) ==
    LET those == {i \in DOMAIN tasks : tasks[i].id = id} IN
    IF those = {} THEN 0 ELSE CHOOSE i \in those : \A j \in those : j <= i

Needs(tasks, i, j) == i # j /\ \E k \in DOMAIN tasks[i].dependsOn : TaskIndex(tasks, tasks[i].dependsOn[k]) = j

\* A dependency named twice counts twice, and is later taken off once: such
\* a plan is refused as cyclic.
Indegree(tasks, i) == Cardinality({k \in DOMAIN tasks[i].dependsOn :
                                     TaskIndex(tasks, tasks[i].dependsOn[k]) \notin {0, i}})

\* topoOrderTasks; shorter than the tasks if there is a cycle.
TopoOrder(tasks) ==
    LET start == [queue |-> SelectSeq(Indices(tasks), LAMBDA i : Indegree(tasks, i) = 0), result |-> <<>>,
                  left |-> [i \in DOMAIN tasks |-> Indegree(tasks, i)]]
        Turn(s) ==
            LET i == Head(s.queue)
                left == [j \in DOMAIN tasks |-> IF Needs(tasks, j, i) THEN s.left[j] - 1 ELSE s.left[j]]
            IN  [queue |-> Tail(s.queue) \o
                    SelectSeq(Indices(tasks), LAMBDA j : Needs(tasks, j, i) /\ left[j] = 0),
                 result |-> Append(s.result, i), left |-> left]
        Turns[n \in 0 .. Len(tasks)] ==
            IF n = 0 THEN start
            ELSE IF Turns[n - 1].queue = <<>> THEN Turns[n - 1] ELSE Turn(Turns[n - 1])
    IN  Turns[Len(tasks)].result

\* A step for each task, in their order.  Its dependencies and rollback plan are those of the first task of its
\* id, a dependency being the step planned last for that id; 0 stands for one that is not in the plan.
BuildSteps(tasks, order) ==
    LET StepOf(id) == LET those == {p \in DOMAIN tasks : tasks[order[p]].id = id} IN
                      IF those = {} THEN 0 ELSE CHOOSE p \in those : \A q \in those : q <= p
        First(id) == CHOOSE i \in DOMAIN tasks : tasks[i].id = id /\ \A j \in 1 .. i - 1 : tasks[j].id # id
    IN  [p \in DOMAIN tasks |->
            LET first == tasks[First(tasks[order[p]].id)] task == [tasks[order[p]] EXCEPT !.rollback = first.rollback]
                dependsOn == first.dependsOn IN
            [task |-> task, dependsOn |-> [k \in DOMAIN dependsOn |-> StepOf(dependsOn[k])],
             approved |-> task.approved, status |-> "PENDING", captured |-> FALSE, failed |-> {}]]

\* groupStepsIntoBatches: the n-th batch of each kind of step holds the n-th
\* MaxBatchSize of its steps.
SameKind(steps, p, q) == steps[p].task.type = steps[q].task.type /\ steps[p].task.action = steps[q].task.action
RankOf(steps, p) == Cardinality({q \in 1 .. p - 1 : SameKind(steps, q, p)})
BatchOf(steps, p) ==
    {q \in DOMAIN steps : /\ SameKind(steps, q, p)
                          /\ RankOf(steps, q) \div MaxBatchSize = RankOf(steps, p) \div MaxBatchSize}
Batches(steps) == {BatchOf(steps, p) : p \in DOMAIN steps}

RequiresApproval == ApprovalRequired
AwaitingApproval == {p \in DOMAIN prepSteps : RequiresApproval /\ ~prepSteps[p].approved}

\* execute: a plan with a cycle is refused, and nothing is saved.
PlanExecution(r) ==
    LET order == TopoOrder(r.tasks) IN
    /\ prepared.phase = "over" /\ prepared.number + 1 \in Executions
    /\ r.tasks # <<>> /\ Len(order) = Len(r.tasks)
    /\ prepared' = [number |-> prepared.number + 1, request |-> r, phase |-> "waiting"]
    /\ prepSteps' = BuildSteps(r.tasks, order)
    /\ savedDiffs' = {}
    /\ UNCHANGED repository

\* approve and reject of the gate: the last decision counts, at any time.
Decide(p, approved) ==
    /\ prepared.phase # "over" /\ prepSteps[p].status = "PENDING" /\ prepSteps[p].approved # approved
    /\ prepSteps' = [prepSteps EXCEPT ![p].approved = approved]
    /\ UNCHANGED <<prepared, repository, savedDiffs>>

\* assessExecution: the execution runs once nothing awaits approval.
StartRun ==
    /\ prepared.phase = "waiting" /\ AwaitingApproval = {}
    /\ prepared' = [prepared EXCEPT !.phase = "running"]
    /\ UNCHANGED <<prepSteps, repository, savedDiffs>>

----------------------------------------------------------------------------
(* The checks: each is the set of what it finds wrong *)

InRealMode == prepared.request.mode \in Real
Finds(check, wrong) == IF wrong THEN {check} ELSE {}

\* ApprovalValidator, DependencyValidator, StateValidator.
ApprovalCheck(p) == Finds("approval", RequiresApproval /\ ~prepSteps[p].approved)
DependencyCheck(p) == Finds("dependency", \E k \in DOMAIN prepSteps[p].dependsOn :
    LET d == prepSteps[p].dependsOn[k] IN d = 0 \/ prepSteps[d].status \notin Settled)
StateCheck(p, state) == Finds("state", /\ InRealMode /\ state = UnreadBody
    /\ prepSteps[p].task.type # "store" /\ prepSteps[p].task.action # "create_page")

\* IdempotencyValidator: only the first step saved for the action on the resource is looked at.
SameChange(t, u) == t.type = u.type /\ t.resource = u.resource /\ t.action = u.action
PriorSteps(t) == {i \in DOMAIN repository : SameChange(t, repository[i].task) /\ repository[i].status \in Settled}
IdempotencyCheck(p) ==
    LET t == prepSteps[p].task IN
    Finds("idempotency", \E i \in PriorSteps(t) :
        /\ \A j \in PriorSteps(t) : i <= j
        /\ repository[i].task.value = t.value)

\* RollbackValidator on the plan of planFromDecision and planForStep, before the state is known.
RollbackCheck(p) == Finds("rollback", InRealMode /\ prepSteps[p].task.rollback \in {"null", "unavailable"})

\* RateLimitValidator; whether there is budget is anyone's guess here.
RateLimitCheck(budget) == Finds("rate_limit", InRealMode /\ ~budget)
PermissionCheck(p) == Finds("permission", InRealMode /\ Capability[prepSteps[p].task.action] \notin WriterCan)

Failures(p, state, budget) ==
    ApprovalCheck(p) \cup DependencyCheck(p) \cup StateCheck(p, state) \cup IdempotencyCheck(p)
        \cup RollbackCheck(p) \cup RateLimitCheck(budget) \cup PermissionCheck(p)

----------------------------------------------------------------------------
(* A step runs *)

Pending == {p \in DOMAIN prepSteps : prepSteps[p].status = "PENDING"}
\* What a failure leads to: only what was really written is undone.
PhaseAfterFailure == [prepared EXCEPT !.phase = IF InRealMode THEN "undoing" ELSE "stopping"]
Turned(p) == \A q \in Pending : p <= q
SetStatus(p, status) == [prepSteps EXCEPT ![p].status = status]

\* assertStep: a step rejected while others ran fails before anything is read.
BeginStep(p) ==
    /\ prepared.phase = "running" /\ p \in Pending /\ Turned(p)
    /\ \A q \in DOMAIN prepSteps : prepSteps[q].status # "EXECUTING"
    /\ IF p \in AwaitingApproval
         THEN /\ prepSteps' = SetStatus(p, "FAILED")
              /\ prepared' = PhaseAfterFailure
         ELSE prepSteps' = SetStatus(p, "EXECUTING") /\ UNCHANGED prepared
    /\ UNCHANGED <<repository, savedDiffs>>

Executing(p) == prepared.phase = "running" /\ prepSteps[p].status = "EXECUTING"

\* Validation fails, or the publisher does.
FailStep(p, state, budget) ==
    /\ Executing(p)
    /\ prepSteps' = [prepSteps EXCEPT ![p].status = "FAILED", ![p].failed = Failures(p, state, budget)]
    /\ prepared' = PhaseAfterFailure
    /\ UNCHANGED <<repository, savedDiffs>>

\* The writer answers with the new state, a dry run with the expected one.
CompleteStep(p, state, budget, after) ==
    /\ Executing(p) /\ Failures(p, state, budget) = {}
    /\ prepSteps' = [prepSteps EXCEPT ![p].status = IF InRealMode THEN "COMPLETED" ELSE "SIMULATED",
                                      ![p].captured = state # UnreadBody]
    /\ savedDiffs' = IF state = UnreadBody THEN savedDiffs ELSE savedDiffs \cup {<<state, after>>}
    /\ UNCHANGED <<prepared, repository>>

Undoable == {p \in DOMAIN prepSteps : prepSteps[p].status \in Settled}

\* Mutant: the first step is undone first.
FirstToUndo == CHOOSE p \in Undoable : \A q \in Undoable : p <= q

\* rollbackSteps: in reverse order, each undone or not.
NextToUndo == CHOOSE p \in Undoable : \A q \in Undoable : q <= p
UndoStep(undone) ==
    /\ prepared.phase = "undoing" /\ Undoable # {}
    /\ prepSteps' = SetStatus(NextToUndo, IF undone THEN "ROLLED_BACK" ELSE "FAILED")
    /\ UNCHANGED <<prepared, repository, savedDiffs>>

\* finalize saves every step, over what is saved of it; the rest is cancelled.
EndRun ==
    /\ \/ prepared.phase = "running" /\ \A p \in DOMAIN prepSteps : prepSteps[p].status \in Settled
       \/ prepared.phase = "undoing" /\ Undoable = {}
       \/ prepared.phase = "stopping"
    /\ prepared' = [prepared EXCEPT !.phase = "over"]
    /\ prepSteps' = [p \in DOMAIN prepSteps |->
         IF p \in Pending THEN [prepSteps[p] EXCEPT !.status = "CANCELLED"] ELSE prepSteps[p]]
    /\ repository' = repository \o [p \in DOMAIN prepSteps |->
         [task |-> prepSteps[p].task, status |-> prepSteps'[p].status]]
    /\ UNCHANGED savedDiffs

PrepNext ==
    \/ \E r \in PrepRequests : PlanExecution(r)
    \/ StartRun \/ EndRun
    \/ \E undone \in BOOLEAN : UndoStep(undone)
    \/ \E p \in DOMAIN prepSteps :
         \/ BeginStep(p)
         \/ \E approved \in BOOLEAN : Decide(p, approved)
         \/ \E state \in Bodies[prepSteps[p].task.resource] \cup {UnreadBody}, budget \in BOOLEAN :
              \/ FailStep(p, state, budget)
              \/ \E after \in Bodies[prepSteps[p].task.resource] : CompleteStep(p, state, budget, after)

PrepSpec == PrepInit /\ [][PrepNext]_prepVars

----------------------------------------------------------------------------
(* The diff of two states *)

\* A field of a state, UnreadBody standing for undefined.
Field(body, f) == IF f \in DOMAIN body THEN body[f] ELSE UnreadBody
IsObject(v) == v # UnreadBody /\ "atom" \notin DOMAIN v

\* walk over one object: [path, kind, next] of each field that differs; two
\* objects are compared field by field, anything else as a whole.
Changes(path, prev, next) ==
    {[path |-> Append(path, f),
      kind |-> IF Field(next, f) = UnreadBody THEN "removed"
               ELSE IF Field(prev, f) = UnreadBody THEN "added" ELSE "changed",
      next |-> Field(next, f)] :
        f \in {g \in DOMAIN prev \cup DOMAIN next : Field(prev, g) # Field(next, g)}}
ComputeDiff(before, after) ==
    LET Nested(f) == f \in DOMAIN before /\ f \in DOMAIN after /\ IsObject(before[f]) /\ IsObject(after[f])
    IN  {c \in Changes(<<>>, before, after) : ~Nested(c.path[1])}
          \cup UNION {Changes(<<f>>, before[f], after[f]) : f \in {g \in DOMAIN before : Nested(g)}}

\* setPath and deletePath, at the top or one level below.
SetField(body, f, v) == [g \in DOMAIN body \cup {f} |-> IF g = f THEN v ELSE body[g]]
DropField(body, f) == [g \in DOMAIN body \ {f} |-> body[g]]
ApplyChange(body, c) ==
    LET Put(b, f) == IF c.kind = "removed" THEN DropField(b, f) ELSE SetField(b, f, c.next)
    IN  IF Len(c.path) = 1 THEN Put(body, c.path[1])
        ELSE SetField(body, c.path[1], Put(body[c.path[1]], c.path[2]))
ApplyDiff(before, changes) == FoldLeft(ApplyChange, before, SetToSeq(changes))

----------------------------------------------------------------------------
(* Properties *)

\* "Reconstructs the after state by applying changes onto the before state"
\* (diff-engine.ts:56), for every state a step was found in and left.
DiffsReconstruct == \A d \in savedDiffs : ApplyDiff(d[1], ComputeDiff(d[1], d[2])) = d[2]

\* What the planner, the gate and the checks promise of the steps together:
\* every step is in one batch, of its kind and no larger than allowed; a
\* step that is completed has its dependencies completed, also while an
\* execution is undone; a completed write is of a resource whose state was
\* captured, can be undone, and is within what the writer can do; and a step
\* found to be applied already has been.
StepsArePrepared ==
    /\ \A b \in Batches(prepSteps) : Cardinality(b) <= MaxBatchSize
    /\ \A p \in DOMAIN prepSteps :
        /\ Cardinality({b \in Batches(prepSteps) : p \in b}) = 1
        /\ prepSteps[p].status \in Settled =>
             \A k \in DOMAIN prepSteps[p].dependsOn : prepSteps[prepSteps[p].dependsOn[k]].status \in Settled
        /\ prepSteps[p].status = "COMPLETED" =>
             /\ prepSteps[p].captured \/ prepSteps[p].task.type = "store"
                    \/ prepSteps[p].task.action = "create_page"
             /\ prepSteps[p].task.rollback \notin {"null", "unavailable"}
             /\ Capability[prepSteps[p].task.action] \in WriterCan
        /\ "idempotency" \in prepSteps[p].failed =>
             \E i \in DOMAIN repository : /\ SameChange(repository[i].task, prepSteps[p].task)
                                          /\ repository[i].task.value = prepSteps[p].task.value
                                          /\ repository[i].status \in Settled

\* And the diffs say what was changed.
WritesArePrepared == StepsArePrepared /\ DiffsReconstruct
=============================================================================
