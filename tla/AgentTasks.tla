------------------------------- MODULE AgentTasks -------------------------------
(***************************************************************************)
(* From a plan of the decision engine to the answers of language models    *)
(* (ai-orchestrator/src: registry, planner, context, execution/            *)
(* agent-runner.ts, validation, safety, memory).  Agents come and go while *)
(* their tasks are under way.  The order of the steps and their attempts   *)
(* are WorkflowEngine's matter: here any step can be asked for.  A value   *)
(* is its type and what schemas look at; prompts, costs, descriptions and  *)
(* events are left out.                                                    *)
(***************************************************************************)
EXTENDS Integers, Sequences, FiniteSets, SequencesExt

CONSTANTS
    Definitions,       \* [id, tasks, priority, health, provider]: agents that may be registered; ids are ordered
    Overwrites,        \* allowOverwrite
    Healths,           \* what updateHealth is told
    Configured,        \* the providers there is a configuration for
    AgentPlans,        \* [store, batches, tasks]: plans; a batch is [id, order, taskIds], tasks maps an id to its action
    Overrides,         \* what resolveAgent answers, or None: no such option
    BatchWidths,       \* batchConcurrency, or None
    Sources,           \* context sources: lengths of the kinds of section there is a source for; of a list, of its items
    TaskLength,        \* characters of a task's section
    HandSteps,         \* [store, task, agent, action, schema, allowed]: steps nobody planned
    Replies,           \* [blank, data]: the text of an answer, with the JSON in it or None
    TaskCalls,        \* calls of execute
    MaxTokens, MaxSectionTokens,
    None,
    LastInstant        \* bounds: one workflow is planned, the clock

ASSUME Configured \subseteq {"openai"} /\ {MaxTokens, MaxSectionTokens, TaskLength} \subseteq Nat \ {0}

VARIABLES
    registry,      \* registry[id]: the definition in the registry
    workflow,      \* the planned workflow: store, groups of steps, sources, and (history) the registry it was planned with; or None
    task,          \* task[c]: a call of execute: its step, what it was told, how far it is, what was answered, if planned
    memory,        \* the entries, in the order they were added
    instant

taskVars == <<registry, workflow, task, memory, instant>>

----------------------------------------------------------------------------
(* The registry *)

\* A definition that is registered replaces none, unless that is allowed; otherwise register throws.
RegisterDefinition(definition) ==
    /\ definition.id \in DOMAIN registry => Overwrites
    /\ registry' = [id \in DOMAIN registry \cup {definition.id} |->
                        IF id = definition.id THEN definition ELSE registry[id]]
    /\ UNCHANGED <<workflow, task, memory, instant>>

UnregisterDefinition(id) ==
    /\ id \in DOMAIN registry
    /\ registry' = [other \in DOMAIN registry \ {id} |-> registry[other]]
    /\ UNCHANGED <<workflow, task, memory, instant>>

UpdateHealth(id, health) ==
    /\ id \in DOMAIN registry
    /\ registry' = [registry EXCEPT ![id].health = health]
    /\ UNCHANGED <<workflow, task, memory, instant>>

Healthy(id) == registry[id].health = "ok"
\* Healthy ones first, then by priority, then by id.
Preferred(id, other) ==
    IF Healthy(id) # Healthy(other) THEN Healthy(id)
    ELSE \/ registry[id].priority < registry[other].priority
         \/ registry[id].priority = registry[other].priority /\ id < other

Supporting(action) == {id \in DOMAIN registry : action \in registry[id].tasks}
\* Throws when none supports it.
Resolve(action) == CHOOSE id \in Supporting(action) : \A other \in Supporting(action) \ {id} : Preferred(id, other)

----------------------------------------------------------------------------
(* Schemas: an object of leaves, which is what the planner makes *)

Leaf(type, enum, minLength) == [type |-> type, enum |-> enum, minLength |-> minLength]
DefaultTaskSchema(action) ==
    [required |-> {"action", "resourceId"},
     properties |-> [action |-> Leaf("string", {action}, 0), resourceId |-> Leaf("string", None, 1),
                     resourceRef |-> Leaf("string", None, 0), changes |-> Leaf("object", None, 0)],
     additional |-> FALSE]

\* A leaf of the wrong type is not looked at further; the only text that is too short is the empty one.
LeafMatches(value, leaf) ==
    /\ value.type = leaf.type
    /\ leaf.enum # None => value.value \in leaf.enum
    /\ (leaf.type = "string" /\ leaf.minLength > 0) => value.value # ""
MatchesSchema(data, schema) ==
    /\ data.type = "object"
    /\ schema.required \subseteq DOMAIN data.fields
    /\ \A key \in DOMAIN data.fields \cap DOMAIN schema.properties :
         LeafMatches(data.fields[key], schema.properties[key])
    /\ ~schema.additional => DOMAIN data.fields \subseteq DOMAIN schema.properties

----------------------------------------------------------------------------
(* The planner *)

AgentStep(plan, id, agent) ==
    [store |-> plan.store, task |-> id, agent |-> agent, action |-> plan.tasks[id],
     schema |-> DefaultTaskSchema(plan.tasks[id]), allowed |-> {plan.tasks[id]}]

\* The batches in their order, with the tasks of theirs that the plan has.
OrderedBatches(plan) == SortSeq(plan.batches, LAMBDA a, b : a.order < b.order)
TasksOfBatch(plan, batch) == SelectSeq(batch.taskIds, LAMBDA id : id \in DOMAIN plan.tasks)

AgentFor(plan, id, override) == IF override # None THEN override ELSE Resolve(plan.tasks[id])
Group(plan, batch, override, width) ==
    LET tasks == TasksOfBatch(plan, batch)
        concurrency == IF width # None THEN width ELSE Len(tasks)
    IN [batch |-> batch.id, maxConcurrency |-> IF concurrency < 1 THEN 1 ELSE concurrency,
        steps |-> [i \in DOMAIN tasks |-> AgentStep(plan, tasks[i], AgentFor(plan, tasks[i], override))]]
\* One parallel group for each batch that has a task.
ParallelGroups(plan, override, width) ==
    LET filled == SelectSeq(OrderedBatches(plan), LAMBDA batch : TasksOfBatch(plan, batch) # <<>>)
    IN [i \in DOMAIN filled |-> Group(plan, filled[i], override, width)]

PlanWorkflow(plan, override, width) ==
    /\ workflow = None
    /\ override = None => \A b \in DOMAIN plan.batches :
         \A id \in ToSet(TasksOfBatch(plan, plan.batches[b])) : Supporting(plan.tasks[id]) # {}
    /\ workflow' = [plan |-> plan, groups |-> ParallelGroups(plan, override, width), sources |-> None,
                    known |-> registry, override |-> override]
    /\ UNCHANGED <<registry, task, memory, instant>>

\* startWorkflow hands the sources over with the inputs (the rest of it is in WorkflowEngine).
GiveSources(sources) ==
    /\ workflow # None /\ workflow.sources = None
    /\ workflow' = [workflow EXCEPT !.sources = sources]
    /\ UNCHANGED <<registry, task, memory, instant>>

----------------------------------------------------------------------------
(* The context of a task *)

Total(sizes) == FoldLeft(LAMBDA sum, size : sum + size, 0, sizes)
\* estimateTokens: four characters a token; a list has its brackets and commas.
EstimateTokens(length) == (length + 3) \div 4
ListTokens(items) == EstimateTokens(2 + Total(items) + (IF items = <<>> THEN 0 ELSE Len(items) - 1))
Estimates(items) == Total([i \in DOMAIN items |-> EstimateTokens(items[i])])

\* The longest beginning of the list whose items, one by one, are within the budget.
TruncateList(items, budget) ==
    LET fitting == {n \in 0 .. Len(items) : Estimates(SubSeq(items, 1, n)) <= budget}
    IN SubSeq(items, 1, CHOOSE n \in fitting : \A m \in fitting : m <= n)

\* items is None for a section that is no list.
ObjectSection(kind, length) == [kind |-> kind, items |-> None, size |-> EstimateTokens(length), truncated |-> FALSE]
ListSection(kind, items) ==
    LET kept == TruncateList(items, MaxSectionTokens)
    IN [kind |-> kind, items |-> kept, size |-> ListTokens(kept), truncated |-> kept # items]

SectionSizes(sections) == [i \in DOMAIN sections |-> sections[i].size]
\* Section by section, as long as the whole is over the budget, each list is cut to what the others leave.
Cut(sections, s) ==
    LET total == Total(SectionSizes(sections))
        remaining == MaxTokens - (total - sections[s].size)
        kept == TruncateList(sections[s].items, remaining)
    IN IF total <= MaxTokens \/ sections[s].items = None THEN sections
       ELSE IF remaining <= 0
       THEN [sections EXCEPT ![s] = [@ EXCEPT !.items = <<>>, !.size = 0, !.truncated = TRUE]]
       ELSE IF kept = sections[s].items THEN sections
       ELSE [sections EXCEPT ![s] = [@ EXCEPT !.items = kept, !.size = ListTokens(kept), !.truncated = TRUE]]
ApplyGlobalBudget(sections) == FoldLeft(Cut, sections, [s \in DOMAIN sections |-> s])

SectionOrder == <<"knowledge-graph", "seo-issues", "recommendations", "historical-outcomes", "store-metadata",
                  "configuration", "task">>
\* Recommendations by their score; what there is no source for has no section.
BuildContext(sources) ==
    LET ranked == SortSeq(sources["recommendations"], LAMBDA a, b : a.score > b.score)
        given == SelectSeq(SectionOrder, LAMBDA kind : kind = "task" \/ kind \in DOMAIN sources)
        Section(kind) ==
            CASE kind = "task" -> ObjectSection(kind, TaskLength)
              [] kind = "recommendations" -> ListSection(kind, [r \in DOMAIN ranked |-> ranked[r].length])
              [] kind \in {"seo-issues", "historical-outcomes"} -> ListSection(kind, sources[kind])
              [] OTHER -> ObjectSection(kind, sources[kind])
    IN ApplyGlobalBudget([s \in DOMAIN given |-> Section(given[s])])

----------------------------------------------------------------------------
(* Memory *)

Remember(c, kind) ==
    memory' = Append(memory, [store |-> task[c].step.store, agent |-> task[c].step.agent, kind |-> kind,
                              call |-> c, at |-> instant])

\* Newest first; of one instant in the order they were added.
QueryMemory(store, kind, agent) ==
    LET matches == SelectSeq(memory, LAMBDA e : e.store = store /\ e.kind = kind /\ e.agent = agent)
        Newer(i, j) == matches[i].at > matches[j].at \/ (matches[i].at = matches[j].at /\ i < j)
        order == SetToSortSeq(DOMAIN matches, Newer)
    IN [i \in DOMAIN order |-> matches[order[i]]]
\* A limit of one.
LatestMemory(store, kind, agent) ==
    LET found == QueryMemory(store, kind, agent) IN IF found = <<>> THEN None ELSE found[1]

----------------------------------------------------------------------------
(* Running a task *)

PlannedSteps ==
    IF workflow = None THEN {} ELSE UNION {ToSet(workflow.groups[g].steps) : g \in DOMAIN workflow.groups}

\* execute looks the agent and its provider up, or throws; then the provider is asked, and the answer awaited.
Ask(c, step, context, planned) ==
    /\ task[c] = None
    /\ step.agent \in DOMAIN registry /\ registry[step.agent].provider \in Configured
    /\ task' = [task EXCEPT ![c] = [step |-> step, context |-> context, planned |-> planned,
                                    state |-> "asked", reply |-> None]]
    /\ UNCHANGED <<registry, workflow, memory, instant>>

\* buildTask, for a step of the workflow.
RunPlanned(c, step) ==
    /\ workflow.sources # None
    /\ Ask(c, step, BuildContext(workflow.sources), TRUE)
\* runAgentTask.
RunDirect(c, step) == Ask(c, step, <<>>, FALSE)

\* HTTP 429 and other errors, the provider's timeout, an abort; or a status that is fine, whose body is still to be read.
Responds(c, fine) ==
    /\ task[c] # None /\ task[c].state = "asked"
    /\ task' = [task EXCEPT ![c].state = IF fine THEN "reading" ELSE "failed"]
    /\ UNCHANGED <<registry, workflow, memory, instant>>

\* The step times out or is aborted while the body is read, which the provider's timeout does not cover; the
\* call goes on.
Abandon(c) ==
    /\ task[c] # None /\ task[c].state = "reading" /\ task[c].planned
    /\ task' = [task EXCEPT ![c].state = "abandoned"]
    /\ UNCHANGED <<registry, workflow, memory, instant>>

\* The body is no JSON, or there is no content in it.
Garbled(c) ==
    /\ task[c] # None /\ task[c].state \in {"reading", "abandoned"}
    /\ task' = [task EXCEPT ![c].state = "failed"]
    /\ UNCHANGED <<registry, workflow, memory, instant>>

\* There is JSON in the text, it is an object, and it matches the schema if there is one.
Validates(reply, schema) ==
    /\ reply.data # None /\ reply.data.type = "object"
    /\ schema # None => MatchesSchema(reply.data, schema)

SupportedActions ==
    {"update_title", "update_meta_description", "update_description", "update_body", "update_url", "update_meta",
     "add_structured_data", "fix_internal_links", "add_internal_links", "update_alt_text", "add_image",
     "update_robots", "update_canonical", "create_page", "update_collection", "update_product", "update_blog",
     "update_article"}
UnsafeActions == {"delete_page", "remove_redirect", "remove_internal_links", "remove_image", "remove_structured_data"}

\* Under either key, unless it is no text or empty.
ExtractActions(data) ==
    IF data.type # "object" THEN {}
    ELSE {data.fields[key].value : key \in {k \in {"action", "actionType"} \cap DOMAIN data.fields :
                                              data.fields[k].type = "string" /\ data.fields[k].value # ""}}
Authorized(action, allowed) ==
    /\ action \in SupportedActions
    /\ IF allowed = None THEN action \notin UnsafeActions ELSE action \in allowed
Evaluate(reply, step) ==
    /\ ~reply.blank /\ reply.data # None
    /\ step.schema # None => MatchesSchema(reply.data, step.schema)
    /\ \A action \in ExtractActions(reply.data) : Authorized(action, step.allowed)

\* An answer that is not valid is remembered as such, one that is not safe is not, and one that is both is the result.
Judge(c, reply) ==
    LET step == task[c].step
        valid == Validates(reply, step.schema)
        ok == valid /\ Evaluate(reply, step)
    IN /\ task[c].state \in {"reading", "abandoned"}
       /\ task' = [task EXCEPT ![c].reply = reply,
                               ![c].state = IF ok /\ task[c].state = "reading" THEN "done" ELSE "failed"]
       /\ IF ~valid THEN Remember(c, "validation")
          ELSE IF ok THEN Remember(c, "agent-output")
          ELSE UNCHANGED memory
       /\ UNCHANGED <<registry, workflow, instant>>

Later ==
    /\ instant < LastInstant /\ instant' = instant + 1
    /\ UNCHANGED <<registry, workflow, task, memory>>
----------------------------------------------------------------------------

TasksInit ==
    /\ registry = <<>> /\ workflow = None /\ memory = <<>> /\ instant = 0
    /\ task = [c \in TaskCalls |-> None]

RegistryChanges ==
    \/ \E definition \in Definitions : RegisterDefinition(definition)
    \/ \E id \in {definition.id : definition \in Definitions} :
         UnregisterDefinition(id) \/ \E health \in Healths : UpdateHealth(id, health)
Proceeds(c) ==
    \/ \E fine \in BOOLEAN : Responds(c, fine)
    \/ Abandon(c) \/ Garbled(c)
    \/ task[c] # None /\ \E reply \in Replies : Judge(c, reply)

\* One workflow and a call for one of its steps.
PlannedNext ==
    \/ RegistryChanges
    \/ \E plan \in AgentPlans, override \in Overrides, width \in BatchWidths : PlanWorkflow(plan, override, width)
    \/ \E sources \in Sources : GiveSources(sources)
    \/ \E c \in TaskCalls, step \in PlannedSteps : c = 1 /\ RunPlanned(c, step)
    \/ \E c \in TaskCalls : Proceeds(c)

\* Calls for steps nobody planned, and what is remembered of them.
DirectNext ==
    \/ RegistryChanges
    \/ \E c \in TaskCalls : Proceeds(c) \/ \E step \in HandSteps : RunDirect(c, step)
    \/ Later

----------------------------------------------------------------------------
(* Properties *)

TasksTypeOK ==
    /\ \A id \in DOMAIN registry : registry[id].id = id
    /\ \A c \in TaskCalls : task[c] # None => task[c].state \in {"asked", "reading", "abandoned", "failed", "done"}
    /\ \A e \in ToSet(memory) : e.kind \in {"validation", "agent-output"} /\ e.at \in 0 .. instant

\* What is over the budget cannot be helped: the lists that are left would fit by the estimates of their items.
ContextFits(sections) ==
    Total(SectionSizes(sections)) > MaxTokens =>
        \A s \in DOMAIN sections : sections[s].items \notin {None, <<>>} =>
            Estimates(sections[s].items) <= MaxTokens - (Total(SectionSizes(sections)) - sections[s].size)

\* A workflow has every task of its plan once, batch after batch, none with an agent that fell behind a healthy one;
\* a result of it proposes nothing but what the plan decided, by an agent that took such tasks when it was planned;
\* whatever is accepted is remembered, whatever was refused never as an output; what is remembered last comes
\* first; and an agent is told no more than the budget allows (workflow-planner.ts 78-137, agent-runner.ts 96-191).
AgentsStayInPlan ==
    /\ workflow # None =>
         LET steps == FlattenSeq([g \in DOMAIN workflow.groups |-> workflow.groups[g].steps])
             orders == [i \in DOMAIN steps |-> (CHOOSE b \in ToSet(workflow.plan.batches) :
                                                  steps[i].task \in ToSet(b.taskIds)).order]
             known == workflow.known
         IN /\ \A id \in DOMAIN workflow.plan.tasks : \E i \in DOMAIN steps : steps[i].task = id
            /\ IsInjective([i \in DOMAIN steps |-> steps[i].task])
            /\ \A i, j \in DOMAIN steps : i < j => orders[i] <= orders[j]
            /\ workflow.override = None => \A i \in DOMAIN steps :
                 /\ steps[i].action \in known[steps[i].agent].tasks
                 /\ known[steps[i].agent].health = "ok"
                      \/ \A id \in DOMAIN known : steps[i].action \in known[id].tasks => known[id].health # "ok"
    /\ \A c \in TaskCalls : task[c] # None =>
         LET step == task[c].step
             outputs == {e \in ToSet(memory) : e.call = c /\ e.kind = "agent-output"}
         IN /\ task[c].state = "done" => outputs # {}
            /\ outputs # {} =>
                 /\ ExtractActions(task[c].reply.data) \subseteq SupportedActions
                 /\ task[c].planned =>
                      ExtractActions(task[c].reply.data) = {workflow.plan.tasks[step.task]}
            /\ ContextFits(task[c].context)
    /\ \A e \in ToSet(memory) : LatestMemory(e.store, e.kind, e.agent).at >= e.at
=============================================================================
