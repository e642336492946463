---------------------------- MODULE PlanAssembly ----------------------------
(***************************************************************************)
(* How the decision engine turns recommendations into the tasks of a plan  *)
(* (packages/decision-engine/src: planner, conflict-detector,              *)
(* dependency-graph, execution-plan/rollback, policies).  These are pure   *)
(* functions of the recommendations; a task is the pair of a               *)
(* recommendation and one of the resources it affects.                     *)
(***************************************************************************)
EXTENDS Integers, FiniteSets, Sequences

CONSTANTS
    Recommendations,
    Rule, Score,         \* of a recommendation: its rule, its prioritized score
    AffectedUrls,        \* AffectedUrls[r]: the resources
    RuleAction,          \* ruleActionMap: the action of a rule
    Incompatible,        \* pairs of actions that cannot target one resource
    ExclusiveRules,      \* groups of rules, one of which may apply to a resource
    Prerequisites,       \* rulePrerequisites[rule]
    TaskId               \* the id of a task, a hash; only its order matters

(* createTasks: one task per recommendation and resource. *)
CreateTasks == {t \in Recommendations \X UNION {AffectedUrls[r] : r \in Recommendations} :
                   t[2] \in AffectedUrls[t[1]]}

ASSUME PlanAssumption ==
    /\ IsFiniteSet(CreateTasks)
    /\ TaskId \in [CreateTasks -> Nat]
    /\ \A s, t \in CreateTasks : TaskId[s] = TaskId[t] => s = t
    /\ Score \in [Recommendations -> Nat]

RuleOf(t) == Rule[t[1]]
ActionOf(t) == RuleAction[RuleOf(t)]
SameResource(s, t) == s # t /\ s[2] = t[2]

(* compareTasks: the higher score first, then the smaller id. *)
Beats(s, t) ==
    \/ Score[s[1]] > Score[t[1]]
    \/ Score[s[1]] = Score[t[1]] /\ TaskId[s] < TaskId[t]

----------------------------------------------------------------------------
(* The conflict detector *)

Duplicate(s, t) == RuleOf(s) = RuleOf(t)
IncompatibleActions(s, t) == {<<ActionOf(s), ActionOf(t)>>, <<ActionOf(t), ActionOf(s)>>} \cap Incompatible # {}
MutuallyExclusive(s, t) ==
    RuleOf(s) # RuleOf(t) /\ \E group \in ExclusiveRules : {RuleOf(s), RuleOf(t)} \subseteq group

Conflict(s, t) ==
    SameResource(s, t) /\ (Duplicate(s, t) \/ IncompatibleActions(s, t) \/ MutuallyExclusive(s, t))

(* detect: of every conflicting pair the loser is dropped, whatever becomes  *)
(* of the winner.  Payloads hold planning metadata only, so no two tasks     *)
(* overwrite one another, and a task is never staler than its decision.      *)
ExcludedTasks(T) == {t \in T : \E s \in T : Conflict(s, t) /\ Beats(s, t)}

----------------------------------------------------------------------------
(* The planner: assemble *)

Better(t, T) == {s \in T : SameResource(s, t) /\ Beats(s, t)}

(* capPerResource: the first max tasks of each resource; no cap when max is 0. *)
CapPerResource(T, max) == IF max <= 0 THEN T ELSE {t \in T : Cardinality(Better(t, T)) < max}

Keep(max) == CapPerResource(CreateTasks \ ExcludedTasks(CreateTasks), max)

(* buildDependencies: <<s, t>> says that s runs before t, because its rule is *)
(* a prerequisite of the rule of t or because it comes next before t on their *)
(* resource.                                                                 *)
Dependencies(T) ==
    {e \in T \X T :
        /\ SameResource(e[1], e[2])
        /\ \/ RuleOf(e[1]) \in Prerequisites[RuleOf(e[2])]
           \/ Beats(e[1], e[2]) /\ Better(e[2], T) \ Better(e[1], T) = {e[1]}}

(* The tasks whose prerequisites are all in the sequence. *)
ReadyAfter(T, order) ==
    LET done == {order[i] : i \in DOMAIN order}
    IN  {t \in T \ done : \A e \in Dependencies(T) : e[2] = t => e[1] \in done}

SmallestId(ready) == CHOOSE t \in ready : \A s \in ready : TaskId[t] <= TaskId[s]

(* topologicalOrder: repeatedly the ready task with the smallest id.  It      *)
(* stops short of the tasks on a cycle, in which case the code throws.       *)
TopologicalOrder(T) ==
    LET Longer(order) == IF ReadyAfter(T, order) = {} THEN order
                         ELSE Append(order, SmallestId(ReadyAfter(T, order)))
        ordered[n \in 0 .. Cardinality(T)] == IF n = 0 THEN <<>> ELSE Longer(ordered[n - 1])
    IN  ordered[Cardinality(T)]

HasCycle(T) == Len(TopologicalOrder(T)) < Cardinality(T)

----------------------------------------------------------------------------
(* Rollback plans and approval *)

FieldActions == {"update_title", "update_meta_description", "update_description", "update_meta",
                 "update_url", "update_alt_text", "update_canonical", "update_robots",
                 "update_collection", "update_product", "update_blog", "update_article"}
AddActions == {"add_structured_data", "add_image", "add_internal_links"}

IsMutatingAction(action) == action # "custom"

(* generate: "none" when the task has no rollback plan at all.  What a removal *)
(* took away is looked for in the payload, which never holds it.              *)
RollbackFor(t, captured) ==
    CASE ~IsMutatingAction(ActionOf(t)) -> "none"
      [] ActionOf(t) \in FieldActions -> IF t \in captured THEN "available" ELSE "unavailable"
      [] ActionOf(t) \in AddActions \cup {"create_page"} -> "available"
      [] OTHER -> "unavailable"

(* riskFactors.rollbackAvailable: every mutating task can be undone. *)
RollbackAvailable(T, captured) == \A t \in T : RollbackFor(t, captured) # "unavailable"

(* resolveApprovalPolicy: the first rule that fires. *)
ResolveApprovalPolicy(risk, undoable, review, flags) ==
    CASE risk = "HIGH" /\ ~undoable /\ "block_high_risk" \in flags -> "DENY"
      [] "deny_plans" \in flags -> "DENY"
      [] risk = "HIGH" /\ review -> "DENY"
      [] OTHER ->
            IF \/ "require_approval" \in flags \/ risk # "LOW" \/ review \/ "no_auto_approve" \in flags
            THEN "REQUIRE_APPROVAL" ELSE "AUTO_APPROVE"
=============================================================================
