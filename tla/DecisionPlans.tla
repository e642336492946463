--------------------------- MODULE DecisionPlans ---------------------------
(***************************************************************************)
(* The plans of one decision: planning, approval, execution and rollback   *)
(* (packages/decision-engine/src: decision-engine-service, approval-engine *)
(* and decision-repository).  Calls run concurrently on shared rows; a     *)
(* step is the code from one awaited write or executor call to the next.   *)
(* Ids are deterministic: planning again gives the same tasks, whose rows  *)
(* move to the new version.                                                *)
(***************************************************************************)
EXTENDS PlanAssembly

CONSTANTS
    PlanSettings,      \* settings, flags, risk level and captured values of a decision
    PlanWorkers,       \* calls of the service that may run at once
    MaxPlanCalls,      \* bound: calls in all
    MaxVersion,        \* bound: versions of the plan
    MaxPlanFaults      \* bound: calls ended by a crash or a rejected write

ASSUME DecisionAssumption ==
    MaxVersion \in Nat /\ \A c \in PlanSettings : c.maxChangesPerResource \in Int

VARIABLES
    settings,      \* the decision's context, which never changes
    decision,      \* its row: status and planId (a version, 0 before)
    planStatus,    \* planStatus[v]: status of the row of version v, "none" before
    taskRow,       \* taskRow[t]: the plan that has the task (0 before), and its status
    request,       \* request[v]: status of the approval request, "none" before
    planCall,      \* planCall[w]: the call w is in, and what it holds
    changed,       \* the tasks whose change is on the store
    \* history
    planCalls,     \* calls so far
    approvedOnce,  \* versions that were approved
    entangled,     \* an execution or a rollback overlapped another call, or ended midway
    resetRows,     \* tasks whose executed row planning again set to PENDING
    undoFailed,    \* tasks whose rollback was recorded as FAILED
    planFaults

planVars == <<settings, decision, planStatus, taskRow, request, planCall, changed, planCalls,
              approvedOnce, entangled, resetRows, undoFailed, planFaults>>

Versions == 1 .. MaxVersion
TaskStatuses == {"PENDING", "IN_PROGRESS", "COMPLETED", "FAILED", "ROLLED_BACK"}
PlanStatuses == {"AWAITING_APPROVAL", "APPROVED", "REJECTED", "EXECUTING", "COMPLETED", "FAILED", "ROLLED_BACK"}
Held == [CreateTasks -> TaskStatuses \cup {"absent"}]
PlanCallStops == {"idle", "find", "save", "request", "decision", "tasks", "undo"}
NoPlanCall == [at |-> "idle", op |-> "none", version |-> 0, held |-> [t \in CreateTasks |-> "absent"],
               status |-> "none", decisionPlan |-> 0, next |-> 0, targets |-> {}]

PlansTypeOK ==
    /\ settings \in PlanSettings
    /\ decision.status \in PlanStatuses \cup {"PENDING"} /\ decision.plan \in 0 .. MaxVersion
    /\ planStatus \in [Versions -> PlanStatuses \cup {"none"}]
    /\ taskRow \in [CreateTasks -> [plan : 0 .. MaxVersion, status : TaskStatuses]]
    /\ request \in [Versions -> {"none", "PENDING", "APPROVED", "REJECTED"}]
    /\ \A w \in PlanWorkers :
          /\ planCall[w].at \in PlanCallStops
          /\ planCall[w].op \in {"none", "plan", "approve", "reject", "execute", "rollback"}
          /\ planCall[w].version \in 0 .. MaxVersion /\ planCall[w].held \in Held
          /\ planCall[w].status \in PlanStatuses \cup {"none"} /\ planCall[w].targets \subseteq CreateTasks
    /\ changed \subseteq CreateTasks /\ approvedOnce \subseteq Versions
    /\ entangled \in BOOLEAN /\ resetRows \subseteq CreateTasks /\ undoFailed \subseteq CreateTasks

PlansInit ==
    /\ settings \in PlanSettings
    /\ decision = [status |-> "PENDING", plan |-> 0]
    /\ planStatus = [v \in Versions |-> "none"]
    /\ taskRow = [t \in CreateTasks |-> [plan |-> 0, status |-> "PENDING"]]
    /\ request = [v \in Versions |-> "none"]
    /\ planCall = [w \in PlanWorkers |-> NoPlanCall]
    /\ changed = {} /\ planCalls = 0 /\ approvedOnce = {} /\ entangled = FALSE
    /\ resetRows = {} /\ undoFailed = {} /\ planFaults = 0

----------------------------------------------------------------------------
(* What calls share *)

(* assemble, for each of the caps there are *)
Assembled ==
    [max \in {c.maxChangesPerResource : c \in PlanSettings} |->
        [tasks |-> Keep(max), orderedTaskIds |-> TopologicalOrder(Keep(max)),
         dependencies |-> Dependencies(Keep(max))]]
Plan == Assembled[settings.maxChangesPerResource]

(* getPlan: the row with the tasks that belong to it now. *)
GetPlan(v) == [t \in CreateTasks |-> IF taskRow[t].plan = v THEN taskRow[t].status ELSE "absent"]

(* ApprovalEngine.review *)
ReviewedStatus ==
    LET policy == ResolveApprovalPolicy(settings.risk, RollbackAvailable(Plan.tasks, settings.captured),
                                        settings.review, settings.flags)
    IN  CASE policy = "AUTO_APPROVE" -> "APPROVED"
          [] policy = "DENY" -> "REJECTED"
          [] OTHER -> "AWAITING_APPROVAL"

RequestStatus(status) ==
    CASE status = "AWAITING_APPROVAL" -> "PENDING" [] OTHER -> status

RollbackOps == {"execute", "rollback"}
Overlaps(op) == \E w \in PlanWorkers : planCall[w].at # "idle" /\ {op, planCall[w].op} \cap RollbackOps # {}

Free(w) == planCall[w].at = "idle" /\ planCalls < MaxPlanCalls

(* A call starts: the reads before its first write. *)
BeginCall(w, call) ==
    /\ Free(w) /\ planCalls' = planCalls + 1
    /\ planCall' = [planCall EXCEPT ![w] = call]
    /\ entangled' = (entangled \/ Overlaps(call.op))
    /\ UNCHANGED <<settings, decision, planStatus, taskRow, request, changed, approvedOnce,
                   resetRows, undoFailed, planFaults>>

Holding(op, v, at, status) ==
    [NoPlanCall EXCEPT !.at = at, !.op = op, !.version = v, !.held = GetPlan(v), !.status = status,
                       !.decisionPlan = decision.plan]

----------------------------------------------------------------------------
(* The calls *)

(* planDecision: the next version, from the latest there is.  A cycle of     *)
(* dependencies makes it throw before it wrote anything.                     *)
PlanDecision(w) ==
    LET v == 1 + Cardinality({u \in Versions : planStatus[u] # "none"})
    IN  /\ Free(w) /\ v \in Versions /\ ~HasCycle(Plan.tasks)
        /\ BeginCall(w, [Holding("plan", v, "save", ReviewedStatus) EXCEPT
                             !.held = [t \in CreateTasks |-> IF t \in Plan.tasks THEN "PENDING" ELSE "absent"],
                             !.decisionPlan = v])

(* approvePlan, rejectPlan *)
DecidePlan(w, v) ==
    /\ planStatus[v] = "AWAITING_APPROVAL"
    /\ \/ BeginCall(w, Holding("approve", v, "find", "APPROVED"))
       \/ BeginCall(w, Holding("reject", v, "find", "REJECTED"))

(* Mutant: a plan that awaits approval is executed too. *)
ExecutePlanEarly(w, v) ==
    /\ planStatus[v] \in {"APPROVED", "AWAITING_APPROVAL"}
    /\ BeginCall(w, Holding("execute", v, "save", "EXECUTING"))

(* executePlan *)
ExecutePlan(w, v) ==
    /\ planStatus[v] = "APPROVED"
    /\ BeginCall(w, Holding("execute", v, "save", "EXECUTING"))

RollbackTargets(v) ==
    {t \in CreateTasks : taskRow[t].plan = v /\ taskRow[t].status \in {"COMPLETED", "FAILED", "IN_PROGRESS"}}

(* executeRollback, of one task or of the whole plan, whatever its status. *)
ExecuteRollback(w, v, only) ==
    /\ Free(w) /\ planStatus[v] # "none"
    /\ LET targets == IF only = {} THEN RollbackTargets(v) ELSE RollbackTargets(v) \cap only
       IN  /\ only # {} => targets # {}
           /\ BeginCall(w, [Holding("rollback", v, "undo", "ROLLED_BACK") EXCEPT !.targets = targets])

(* findApprovalRequest throws when the request is not saved yet. *)
FindRequest(w) ==
    /\ planCall[w].at = "find"
    /\ planCall' = [planCall EXCEPT ![w] = IF request[planCall[w].version] = "none"
                                           THEN NoPlanCall ELSE [@ EXCEPT !.at = "save"]]
    /\ UNCHANGED <<settings, decision, planStatus, taskRow, request, changed, planCalls, approvedOnce,
                   entangled, resetRows, undoFailed, planFaults>>

AfterSave(call) ==
    CASE call.op \in {"plan", "approve", "reject"} -> [call EXCEPT !.at = "request"]
      [] call.status = "EXECUTING" -> [call EXCEPT !.at = "tasks"]
      [] OTHER -> [call EXCEPT !.at = "decision"]

(* savePlan: one transaction writes the plan and the tasks the call holds, *)
(* which belong to its version from then on.                                *)
SavePlan(w) ==
    LET call == planCall[w]
        held == {t \in CreateTasks : call.held[t] # "absent"}
    IN  /\ call.at = "save"
        /\ planStatus' = [planStatus EXCEPT ![call.version] = call.status]
        /\ taskRow' = [t \in CreateTasks |-> IF t \in held THEN [plan |-> call.version, status |-> call.held[t]]
                                             ELSE taskRow[t]]
        /\ planCall' = [planCall EXCEPT ![w] = AfterSave(call)]
        /\ approvedOnce' = IF call.status = "APPROVED" THEN approvedOnce \cup {call.version} ELSE approvedOnce
        /\ resetRows' = IF call.op = "plan" THEN resetRows \cup {t \in held : taskRow[t].status # "PENDING"}
                        ELSE resetRows
        /\ UNCHANGED <<settings, decision, request, changed, planCalls, entangled, undoFailed, planFaults>>

SaveRequest(w) ==
    LET call == planCall[w]
    IN  /\ call.at = "request"
        /\ request' = [request EXCEPT ![call.version] = RequestStatus(call.status)]
        /\ planCall' = [planCall EXCEPT ![w].at = "decision"]
        /\ UNCHANGED <<settings, decision, planStatus, taskRow, changed, planCalls, approvedOnce,
                       entangled, resetRows, undoFailed, planFaults>>

(* saveDecision, and the call returns.  approve and reject read the decision *)
(* afresh; the others write the one they read.                               *)
SaveDecision(w) ==
    LET call == planCall[w]
    IN  /\ call.at = "decision"
        /\ decision' = [status |-> call.status,
                        plan |-> IF call.op \in {"approve", "reject"} THEN decision.plan ELSE call.decisionPlan]
        /\ planCall' = [planCall EXCEPT ![w] = NoPlanCall]
        /\ UNCHANGED <<settings, planStatus, taskRow, request, changed, planCalls, approvedOnce,
                       entangled, resetRows, undoFailed, planFaults>>

(* The next task the loop of executePlan has to execute, 0 after the last. *)
NextTask(call) ==
    LET left == {i \in DOMAIN Plan.orderedTaskIds :
                    i > call.next /\ call.held[Plan.orderedTaskIds[i]] \notin {"absent", "COMPLETED"}}
    IN  IF left = {} THEN 0 ELSE CHOOSE i \in left : \A j \in left : i <= j

(* executeTask and saveExecutionResult, whose column no step reads back. A   *)
(* task that fails, or throws, may have changed the store all the same, and  *)
(* ends the plan.  The statuses stay in memory until then.                   *)
ExecuteTask(w) ==
    LET call == planCall[w]
        i == NextTask(call)
        t == Plan.orderedTaskIds[i]
    IN  /\ call.at = "tasks" /\ i # 0
        /\ \/ /\ changed' = changed \cup {t}
              /\ planCall' = [planCall EXCEPT ![w].held[t] = "COMPLETED", ![w].next = i]
           \/ /\ changed' \in {changed, changed \cup {t}}
              /\ planCall' = [planCall EXCEPT ![w].held[t] = "FAILED", ![w].status = "FAILED", ![w].at = "save"]
        /\ UNCHANGED <<settings, decision, planStatus, taskRow, request, planCalls, approvedOnce,
                       entangled, resetRows, undoFailed, planFaults>>

AllExecuted(w) ==
    /\ planCall[w].at = "tasks" /\ NextTask(planCall[w]) = 0
    /\ planCall' = [planCall EXCEPT ![w].status = "COMPLETED", ![w].at = "save"]
    /\ UNCHANGED <<settings, decision, planStatus, taskRow, request, changed, planCalls, approvedOnce,
                   entangled, resetRows, undoFailed, planFaults>>

(* The loop of executeRollback, in the order of the rows, which have one     *)
(* creation time: any.  It throws at a task that has no rollback plan.       *)
RollbackTask(w) ==
    LET call == planCall[w]
    IN  /\ call.at = "undo"
        /\ \E t \in call.targets :
              \/ /\ RollbackFor(t, settings.captured) # "available"
                 /\ planCall' = [planCall EXCEPT ![w] = NoPlanCall]
                 /\ entangled' = (entangled \/ \E s \in CreateTasks : call.held[s] = "ROLLED_BACK")
                 /\ UNCHANGED <<changed, undoFailed>>
              \/ /\ RollbackFor(t, settings.captured) = "available"
                 /\ planCall' = [planCall EXCEPT ![w].targets = @ \ {t}, ![w].held[t] = "ROLLED_BACK"]
                 /\ \/ changed' = changed \ {t} /\ UNCHANGED undoFailed
                    \/ changed' \in {changed, changed \ {t}} /\ undoFailed' = undoFailed \cup {t}
                 /\ UNCHANGED entangled
        /\ UNCHANGED <<settings, decision, planStatus, taskRow, request, planCalls, approvedOnce,
                       resetRows, planFaults>>

AllRolledBack(w) ==
    /\ planCall[w].at = "undo" /\ planCall[w].targets = {}
    /\ planCall' = [planCall EXCEPT ![w].at = "save"]
    /\ UNCHANGED <<settings, decision, planStatus, taskRow, request, changed, planCalls, approvedOnce,
                   entangled, resetRows, undoFailed, planFaults>>

(* The process stops, or a write of the repository is rejected. *)
CallEndsMidway(w) ==
    /\ planCall[w].at # "idle" /\ planFaults < MaxPlanFaults
    /\ planFaults' = planFaults + 1
    /\ planCall' = [planCall EXCEPT ![w] = NoPlanCall]
    /\ entangled' = (entangled \/ planCall[w].op \in RollbackOps)
    /\ UNCHANGED <<settings, decision, planStatus, taskRow, request, changed, planCalls, approvedOnce,
                   resetRows, undoFailed>>

PlansNext ==
    \E w \in PlanWorkers :
        \/ PlanDecision(w)
        \/ \E v \in Versions : \/ DecidePlan(w, v) \/ ExecutePlan(w, v)
                               \/ \E only \in {{}} \cup {{t} : t \in CreateTasks} : ExecuteRollback(w, v, only)
        \/ FindRequest(w) \/ SavePlan(w) \/ SaveRequest(w) \/ SaveDecision(w)
        \/ ExecuteTask(w) \/ AllExecuted(w) \/ RollbackTask(w) \/ AllRolledBack(w)
        \/ CallEndsMidway(w)

PlansSpec == PlansInit /\ [][PlansNext]_planVars

----------------------------------------------------------------------------
(* Properties *)

(* Whatever approvals, rejections, executions and re-plans overlap, and      *)
(* wherever they are cut short, the store only ever gets changes of the      *)
(* decision after one of its versions was approved, and never both of two    *)
(* conflicting tasks or more than the store's cap on one resource.           *)
OnlyApprovedChanges ==
    /\ changed # {} => approvedOnce # {}
    /\ \A s, t \in changed : ~Conflict(s, t)
    /\ settings.maxChangesPerResource > 0 =>
          \A t \in changed : Cardinality({s \in changed : s[2] = t[2]}) <= settings.maxChangesPerResource

(* Once no call is in progress, the rows tell what was done to the store: a  *)
(* completed task's change is there, that of a task rolled back is not, and  *)
(* a task that was not run changed nothing, unless planning again set its    *)
(* row back.  It holds when executions and rollbacks ran alone and to their  *)
(* end; the hazards list what happens when they do not.                      *)
RowsTellTheTruth ==
    ~entangled /\ (\A w \in PlanWorkers : planCall[w].at = "idle") =>
        \A t \in CreateTasks :
            /\ taskRow[t].status = "COMPLETED" => t \in changed
            /\ taskRow[t].status = "ROLLED_BACK" => t \notin changed \/ t \in undoFailed
            /\ taskRow[t].status = "PENDING" => t \notin changed \/ t \in resetRows

(* Of two tasks on one resource, an execution runs the one whose rule is the *)
(* prerequisite of the other's first, and without one the better scored.     *)
PrerequisitesFirst ==
    \A w \in PlanWorkers : planCall[w].op = "execute" =>
        \A s, t \in CreateTasks :
            /\ planCall[w].held[s] = "PENDING" /\ planCall[w].held[t] \in {"COMPLETED", "FAILED"}
            => ~(SameResource(s, t) /\ (RuleOf(s) \in Prerequisites[RuleOf(t)] \/ Beats(s, t)))

(* The three together: what the approval of a plan promises of the store.    *)
PlansAreHonoured == OnlyApprovedChanges /\ RowsTellTheTruth /\ PrerequisitesFirst
=============================================================================
