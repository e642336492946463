--------------------------- MODULE WorkflowEngine ---------------------------
(***************************************************************************)
(* The workflow engine of the AI orchestrator                              *)
(* (packages/ai-orchestrator/src/workflow, orchestrator, execution) and    *)
(* one workflow: a tree of agent, sequential, parallel and conditional     *)
(* steps.  startWorkflow runs it, recoverWorkflow runs it again from its   *)
(* checkpoint, which is the execution object itself: the repository is in  *)
(* memory.  A "list" is a call of runSteps: the root, or the body of a     *)
(* composite step, named by that step.  Agents are black boxes that        *)
(* succeed or fail, retryably or not.                                      *)
(***************************************************************************)
EXTENDS Integers, Sequences, FiniteSets, SequencesExt

CONSTANTS
    Steps,           \* step ids, composite ones included
    Root,            \* the name of the top level list
    Kind,            \* Kind[s]: "agent", "group" (sequential, parallel) or "conditional"
    Body,            \* Body[c]: the steps of a list, whenTrue of a conditional
    WhenFalse,       \* WhenFalse[s]: the other branch of a conditional
    DependsOn,       \* DependsOn[s]: siblings that must complete first
    Width,           \* Width[c]: how many steps of a list run at a time
    MaxTries,        \* MaxTries[s]: maxAttempts of an agent step
    Runs,            \* calls of startWorkflow and recoverWorkflow
    Starter,         \* the one of them that is startWorkflow
    MaxRunFaults     \* bound: rejected checkpoints, runs cancelled or timed out

StepStatuses == {"none", "RUNNING", "COMPLETED", "FAILED", "SKIPPED"}
WorkflowStatuses == {"PENDING", "RUNNING", "COMPLETED", "FAILED", "CANCELLED", "TIMED_OUT"}

Lists == Steps \cup {Root}

\* The lists of steps that stand under a name.
Bodies(c) == IF c = Root THEN {Body[Root]} ELSE {Body[c], WhenFalse[c]}

ASSUME WorkflowAssumption ==
    /\ Root \notin Steps /\ Starter \in Runs
    /\ Kind \in [Steps -> {"agent", "group", "conditional"}]
    /\ Body \in [Lists -> Seq(Steps)] /\ WhenFalse \in [Steps -> Seq(Steps)]
    /\ DependsOn \in [Steps -> SUBSET Steps]
    /\ Width \in [Lists -> Nat \ {0}]
    /\ MaxTries \in [Steps -> Nat \ {0}] /\ MaxRunFaults \in Nat

\* validateDefinition: no step id is there twice, and its walk over the steps ends.
ASSUME DefinitionAssumption ==
    /\ \A c, d \in Lists : \A l \in Bodies(c), m \in Bodies(d) :
         (\E s \in Steps : s \in ToSet(l) /\ s \in ToSet(m)) => c = d /\ l = m
    /\ \E depth \in [Lists -> 0..Cardinality(Steps)] :
         \A c \in Lists : \A l \in Bodies(c) : \A s \in ToSet(l) : depth[c] < depth[s]

VARIABLES
    \* the WorkflowExecution, shared by every run of it
    wfStatus,     \* its status
    stepStatus,   \* stepStatus[s]: the status of its record of step s, if any
    saved,        \* whether the repository has a checkpoint of it
    \* the calls of WorkflowEngine.run
    phase,        \* phase[r]: "idle", "running", "closing" or "over"
    abort,        \* abort[r]: "no", "cancel" or "timeout"
    frame,        \* frame[r][c]: the call of runSteps for list c
    act,          \* act[r][s]: the call of runStep for s
    tries,        \* tries[r][s]: attempts of the agent
    \* history
    successes,    \* successes[s]: how often s has completed
    overlapped,   \* two runs were in progress at a time
    runFaults

wfVars == <<wfStatus, stepStatus, saved, phase, abort, frame, act, tries,
            successes, overlapped, runFaults>>

FrameRec == [open : BOOLEAN, steps : Seq(Steps), queue : SUBSET Steps, chunk : SUBSET Steps,
             remaining : SUBSET Steps, done : SUBSET Steps]
Closed == [open |-> FALSE, steps |-> <<>>, queue |-> {}, chunk |-> {},
           remaining |-> {}, done |-> {}]
Opened(steps) == [Closed EXCEPT !.open = TRUE, !.steps = steps, !.remaining = ToSet(steps)]

Acts == {"idle", "waiting", "attempt", "inside", "saving", "ok", "failed"}

WorkflowTypeOK ==
    /\ wfStatus \in WorkflowStatuses /\ stepStatus \in [Steps -> StepStatuses]
    /\ saved \in BOOLEAN /\ overlapped \in BOOLEAN
    /\ phase \in [Runs -> {"idle", "running", "closing", "over"}]
    /\ abort \in [Runs -> {"no", "cancel", "timeout"}]
    /\ frame \in [Runs -> [Lists -> FrameRec]]
    /\ act \in [Runs -> [Steps -> Acts]] /\ tries \in [Runs -> [Steps -> Nat]]
    /\ successes \in [Steps -> Nat] /\ runFaults \in Nat

WorkflowInit ==
    /\ wfStatus = "PENDING" /\ stepStatus = [s \in Steps |-> "none"] /\ saved = FALSE
    /\ phase = [r \in Runs |-> "idle"] /\ abort = [r \in Runs |-> "no"]
    /\ frame = [r \in Runs |-> [c \in Lists |-> Closed]]
    /\ act = [r \in Runs |-> [s \in Steps |-> "idle"]]
    /\ tries = [r \in Runs |-> [s \in Steps |-> 0]]
    /\ successes = [s \in Steps |-> 0] /\ overlapped = FALSE /\ runFaults = 0

RunFault == runFaults < MaxRunFaults /\ runFaults' = runFaults + 1

InProgress(r) == phase[r] \in {"running", "closing"}

----------------------------------------------------------------------------
(* The orchestrator *)

\* WorkflowEngine.execute up to its first runSteps.
BeginRun(r) ==
    /\ phase[r] = "idle"
    /\ phase' = [phase EXCEPT ![r] = "running"] /\ wfStatus' = "RUNNING"
    /\ frame' = [frame EXCEPT ![r][Root] = Opened(Body[Root])]
    /\ overlapped' = (overlapped \/ \E other \in Runs : InProgress(other))
    /\ UNCHANGED <<stepStatus, saved, abort, act, tries, successes, runFaults>>

StartWorkflow == BeginRun(Starter)

\* It asks for a checkpoint and for nothing else: not whether a run is in progress.
RecoverWorkflow(r) == r # Starter /\ saved /\ BeginRun(r)

\* An attempt that is under way fails at the abort, other steps notice later.
AbortRun(r, reason) ==
    /\ abort[r] = "no" /\ RunFault
    /\ abort' = [abort EXCEPT ![r] = reason]
    /\ LET cut == {s \in Steps : act[r][s] = "attempt"} IN
         /\ act' = [act EXCEPT ![r] = [s \in Steps |-> IF s \in cut THEN "failed" ELSE @[s]]]
         /\ stepStatus' = [s \in Steps |-> IF s \in cut THEN "FAILED" ELSE stepStatus[s]]
    /\ UNCHANGED <<wfStatus, saved, phase, frame, tries, successes, overlapped>>

\* Only startWorkflow registers its controller; any run may have a time budget.
CancelWorkflow == phase[Starter] = "running" /\ AbortRun(Starter, "cancel")
TimeOut(r) == phase[r] = "running" /\ AbortRun(r, "timeout")

----------------------------------------------------------------------------
(* runSteps *)

Turn(r, c) == phase[r] = "running" /\ frame[r][c].open /\ frame[r][c].chunk = {}

\* Mutant: dependencies are not looked at.
ReadyAtOnce(r, c) == frame[r][c].remaining

Ready(r, c) == {s \in frame[r][c].remaining : DependsOn[s] \subseteq frame[r][c].done}

\* The slice of the ready steps that runs next: the first Width of them.
Slice(c, steps, ready) ==
    LET Before(s) == {t \in ready : \E i, j \in DOMAIN steps : i < j /\ steps[i] = t /\ steps[j] = s}
    IN  {s \in ready : Cardinality(Before(s)) < Width[c]}

\* A list has ended: the run, or the composite step, goes on.
EndList(r, c, ok) ==
    IF c = Root
      THEN /\ wfStatus' = CASE ok -> "COMPLETED"
                            [] ~ok /\ abort[r] = "timeout" -> "TIMED_OUT"
                            [] ~ok /\ abort[r] = "cancel" -> "CANCELLED"
                            [] OTHER -> "FAILED"
           /\ phase' = [phase EXCEPT ![r] = "closing"]
           /\ UNCHANGED <<act, successes>>
      ELSE /\ act' = [act EXCEPT ![r][c] = IF ok THEN "saving" ELSE "failed"]
           /\ successes' = IF ok THEN [successes EXCEPT ![c] = @ + 1] ELSE successes
           /\ UNCHANGED <<wfStatus, phase>>

\* That of a composite step whose list has ended.
OwnStatus(ok) == IF ok THEN "COMPLETED" ELSE "FAILED"

\* The loop ends: every step is done; or it throws: the run was aborted, or
\* no remaining step can start.
ListEnds(r, c) ==
    /\ Turn(r, c) /\ frame[r][c].queue = {}
    /\ LET done == frame[r][c].remaining = {} IN
         /\ done \/ abort[r] # "no" \/ Ready(r, c) = {}
         /\ EndList(r, c, done)
         /\ stepStatus' = [s \in Steps |-> IF s = c THEN OwnStatus(done) ELSE stepStatus[s]]
    /\ frame' = [frame EXCEPT ![r][c] = Closed]
    /\ UNCHANGED <<saved, abort, tries, overlapped, runFaults>>

\* runStep skips what is COMPLETED.
Begun(chunk) == {s \in chunk : stepStatus[s] # "COMPLETED"}

\* The next chunk of the ready steps.
StartChunk(r, c) ==
    /\ Turn(r, c)
    /\ \/ frame[r][c].queue # {}
       \/ frame[r][c].queue = {} /\ abort[r] = "no" /\ Ready(r, c) # {}
    /\ LET ready == IF frame[r][c].queue # {} THEN frame[r][c].queue ELSE Ready(r, c)
           chunk == Slice(c, frame[r][c].steps, ready)
           begun == Begun(chunk)
       IN /\ \E branch \in [begun -> BOOLEAN] :
               /\ \A s \in begun : branch[s] \/ Kind[s] = "conditional"
               /\ frame' = [frame EXCEPT ![r] = [l \in Lists |->
                    IF l = c THEN [@[c] EXCEPT !.chunk = chunk, !.queue = ready \ chunk]
                    ELSE IF l \in begun /\ Kind[l] # "agent"
                      THEN Opened(IF branch[l] THEN Body[l] ELSE WhenFalse[l])
                      ELSE @[l]]]
          /\ stepStatus' = [s \in Steps |-> IF s \in begun THEN "RUNNING" ELSE stepStatus[s]]
          /\ act' = [act EXCEPT ![r] = [s \in Steps |->
                       IF s \notin chunk THEN @[s]
                       ELSE IF s \notin begun THEN "ok"
                       ELSE IF Kind[s] = "agent" THEN "waiting" ELSE "inside"]]
          /\ tries' = [tries EXCEPT ![r] = [s \in Steps |-> IF s \in begun THEN 0 ELSE @[s]]]
    /\ UNCHANGED <<wfStatus, saved, phase, abort, successes, overlapped, runFaults>>

\* Every promise of the chunk is settled; after a failure what remains is skipped.
SettleChunk(r, c) ==
    LET f == frame[r][c]
        left == f.remaining \ f.chunk
        failed == {s \in f.chunk : act[r][s] = "failed"}
    IN /\ phase[r] = "running" /\ f.open /\ f.chunk # {}
       /\ \A s \in f.chunk : act[r][s] \in {"ok", "failed"}
       /\ IF failed = {}
            THEN /\ frame' = [frame EXCEPT ![r][c] =
                                [f EXCEPT !.chunk = {}, !.remaining = left, !.done = @ \cup f.chunk]]
                 /\ UNCHANGED <<wfStatus, phase, act, successes, stepStatus>>
            ELSE /\ frame' = [frame EXCEPT ![r][c] = Closed]
                 /\ stepStatus' = [s \in Steps |-> IF s = c THEN OwnStatus(FALSE)
                                                 ELSE IF s \in left THEN "SKIPPED" ELSE stepStatus[s]]
                 /\ EndList(r, c, FALSE)
       /\ UNCHANGED <<saved, abort, tries, overlapped, runFaults>>

----------------------------------------------------------------------------
(* runStep and executeAgentStep *)

Fail(r, s) == /\ act' = [act EXCEPT ![r][s] = "failed"]
              /\ stepStatus' = [stepStatus EXCEPT ![s] = "FAILED"]

BeginAttempt(r, s) ==
    /\ act[r][s] = "waiting"
    /\ IF abort[r] # "no" THEN Fail(r, s) /\ tries' = tries
       ELSE /\ act' = [act EXCEPT ![r][s] = "attempt"]
            /\ tries' = [tries EXCEPT ![r][s] = @ + 1]
            /\ UNCHANGED stepStatus
    /\ UNCHANGED <<wfStatus, saved, phase, abort, frame, successes, overlapped, runFaults>>

AgentSucceeds(r, s) ==
    /\ act[r][s] = "attempt"
    /\ act' = [act EXCEPT ![r][s] = "saving"]
    /\ stepStatus' = [stepStatus EXCEPT ![s] = "COMPLETED"]
    /\ successes' = [successes EXCEPT ![s] = @ + 1]
    /\ UNCHANGED <<wfStatus, saved, phase, abort, frame, tries, overlapped, runFaults>>

\* The agent, its validation or the safety gate fails, or the step times out.
AgentFails(r, s, retryable) ==
    /\ act[r][s] = "attempt"
    /\ IF retryable /\ tries[r][s] < MaxTries[s]
         THEN act' = [act EXCEPT ![r][s] = "waiting"] /\ UNCHANGED stepStatus
         ELSE Fail(r, s)
    /\ UNCHANGED <<wfStatus, saved, phase, abort, frame, tries, successes, overlapped, runFaults>>

\* A rejected checkpoint fails a step that stays COMPLETED.
Checkpoint(r, s) ==
    /\ act[r][s] = "saving"
    /\ \/ saved' = TRUE /\ act' = [act EXCEPT ![r][s] = "ok"] /\ UNCHANGED runFaults
       \/ /\ RunFault
          /\ act' = [act EXCEPT ![r][s] = "failed"] /\ UNCHANGED saved
    /\ UNCHANGED <<wfStatus, stepStatus, phase, abort, frame, tries, successes, overlapped>>

\* The finally block, which may reject as well; then the run is over.
EndRun(r) ==
    /\ phase[r] = "closing"
    /\ phase' = [phase EXCEPT ![r] = "over"]
    /\ \/ saved' = TRUE /\ UNCHANGED runFaults
       \/ /\ RunFault
          /\ UNCHANGED saved
    /\ act' = [act EXCEPT ![r] = [s \in Steps |-> "idle"]]
    /\ tries' = [tries EXCEPT ![r] = [s \in Steps |-> 0]]
    /\ UNCHANGED <<wfStatus, stepStatus, abort, frame, successes, overlapped>>

Progress(r) ==
    \/ \E c \in Lists : ListEnds(r, c) \/ StartChunk(r, c) \/ SettleChunk(r, c)
    \/ \E s \in Steps :
         \/ BeginAttempt(r, s) \/ AgentSucceeds(r, s) \/ Checkpoint(r, s)
         \/ \E retryable \in BOOLEAN : AgentFails(r, s, retryable)
    \/ EndRun(r)

WorkflowNext ==
    \/ StartWorkflow \/ CancelWorkflow
    \/ \E r \in Runs : RecoverWorkflow(r) \/ TimeOut(r) \/ Progress(r)

\* Awaited calls return; nobody has to start, cancel or recover anything.
WorkflowFairness == WF_wfVars(\E r \in Runs : Progress(r))

WorkflowSpec == WorkflowInit /\ [][WorkflowNext]_wfVars /\ WorkflowFairness

----------------------------------------------------------------------------
(* Properties *)

\* "a step starts once every id in its dependsOn has completed"
\* (workflow-engine.ts:253): whatever fails, is aborted or recovered, and also
\* when runs overlap, no step is under way whose dependencies never completed.
DependenciesFirst ==
    \A r \in Runs, s \in Steps :
        act[r][s] \in {"waiting", "attempt", "inside"} => \A d \in DependsOn[s] : successes[d] > 0

\* "Resumes a checkpointed workflow, skipping already-completed steps"
\* (orchestrator.ts:307): unless runs overlap, no agent's work is done twice,
\* however often the workflow fails, loses a checkpoint and is recovered.
CompletedOnce == overlapped \/ \A s \in Steps : Kind[s] = "agent" => successes[s] <= 1

\* When no run is in progress, no step is left RUNNING; and unless runs
\* overlapped, a COMPLETED workflow has completed every step of its top level.
EndedIsSettled ==
    (\A r \in Runs : ~InProgress(r)) =>
        /\ \A s \in Steps : stepStatus[s] # "RUNNING"
        /\ ~overlapped /\ wfStatus = "COMPLETED" => \A s \in ToSet(Body[Root]) : stepStatus[s] = "COMPLETED"

\* The runs in progress end: no list waits for ever for a chunk, a dependency
\* or a retry.
RunsEnd == (\E r \in Runs : InProgress(r)) ~> (\A r \in Runs : ~InProgress(r))

\* The three together: what a workflow promises of its steps, failed, recovered or run twice.
StepsAreHonoured == DependenciesFirst /\ CompletedOnce /\ EndedIsSettled
=============================================================================
