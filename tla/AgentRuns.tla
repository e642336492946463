------------------------------ MODULE AgentRuns ------------------------------
(***************************************************************************)
(* Invocations of the specialist agents (packages/agents/src/service/      *)
(* agent-service.ts, registry/, memory/, repositories/): the checks around *)
(* an agent's analysis and what is kept of a run.  An analysis is one      *)
(* step; every save and every published event is awaited, so invocations   *)
(* interleave there.  The store may reject a save; a publication that      *)
(* fails is only logged.                                                   *)
(***************************************************************************)
EXTENDS AgentAnalysis

CONSTANTS
    AgentCalls,
    AgentsOfCall,     \* AgentsOfCall[c]: agents call c may invoke
    AgentInputs,      \* [entities, metrics, report, valid]; valid: it passes the input schema
    CustomResults,    \* results of the agent "custom", registered by an application
    Installable       \* bound: agents that are registered and unregistered while others run

VARIABLES
    registered,       \* AgentRegistry.agents
    agentCall,        \* agentCall[c]: [pc, agent, input, result]
    runs,             \* saved runs: [call, status]
    agentMemory,      \* saved entries and validation failures: <<call, kind>>
    agentEvents,      \* published events: <<call, type>>
    rejection         \* rejection[c]: an application's rejection of a recommendation of call c's task

agentVars == <<registered, agentCall, runs, agentMemory, agentEvents, rejection>>

KNOWN_RESOURCE_TYPES == {"product", "collection", "page", "blog", "article", "store"}
REJECTED_ACTION_TYPES == {"delete_page", "remove_redirect", "create_page"}

\* SENSITIVE_ACTION_TYPES only mark an action's rationale; types an agent supports are the ones it declares.
SupportedActionTypes(agent) ==
    CASE agent = "metadata" -> {"update_title", "update_meta_description", "update_meta"}
      [] agent = "technical-seo" -> {"update_canonical", "update_robots"}
      [] agent = "internal-linking" -> {"add_internal_links", "fix_internal_links"}
      [] agent = "schema" -> {"add_structured_data", "remove_structured_data"}
      [] agent = "image-seo" -> {"update_alt_text"}
      [] agent \in {"keyword", "product", "collections"} -> {"update_title"}
      [] agent = "blog" -> {"update_meta_description"}
      [] agent = "custom" -> {"update_title", "delete_page"}
      [] OTHER -> {}

EntityChecks(agent, entities, i) ==
    CASE agent = "metadata" -> MetadataChecks(entities, i)
      [] agent = "technical-seo" -> TechnicalSeoChecks(entities, i)
      [] agent = "content" -> ContentChecks(entities, i)
      [] agent = "keyword" -> KeywordChecks(entities, i)
      [] agent = "internal-linking" -> InternalLinkingChecks(entities, i)
      [] agent = "schema" -> SchemaChecks(entities, i)
      [] agent = "image-seo" -> ImageSeoChecks(entities, i)
      [] agent = "product" -> ProductChecks(entities, i)
      [] agent = "collections" -> CollectionChecks(entities, i)
      [] agent = "blog" -> BlogChecks(entities, i)
      [] agent = "page" -> PageChecks(entities, i)
      [] OTHER -> {}

Finding(rule, severity, approval, evidence, urls) ==
    [rule |-> rule, severity |-> severity, approval |-> approval, evidence |-> evidence, urls |-> urls]

\* Every finding about an entity cites it and affects it; invalid-structured-data and keyword-not-in-slug
\* ask for approval themselves.
EntityResult(agent, entities) ==
    LET checks(i) == EntityChecks(agent, entities, i)
        asks == {"invalid-structured-data", "keyword-not-in-slug"}
    IN [findings |-> UNION {{Finding(k.rule, k.severity, k.rule \in asks, {entities[i].id}, {entities[i].id})
                               : k \in checks(i)} : i \in DOMAIN entities},
        proposals |-> UNION {{[action |-> k.action, type |-> entities[i].type, target |-> entities[i].id]
                                : k \in {x \in checks(i) : x.action # "none"}} : i \in DOMAIN entities}]

\* Rates are in percent; a metric without a ctr has the one its clicks and impressions give.
MetricChecks(metric) ==
    LET has(field) == field \in DOMAIN metric
        lowRatio == has("clicks") /\ has("impressions")
                      /\ metric.impressions > 0 /\ metric.clicks * 100 < 2 * metric.impressions
    IN {rule \in {"low-ctr", "low-visibility", "poor-ranking"} :
          CASE rule = "low-ctr" -> IF has("ctr") THEN metric.ctr < 2 ELSE lowRatio
            [] rule = "low-visibility" -> has("impressions") /\ metric.impressions < 100
            [] rule = "poor-ranking" -> has("position") /\ metric.position > 10}

AnalyticsResult(metrics) ==
    [findings |-> UNION {{Finding(rule, "MEDIUM", FALSE, {m.url}, {m.url}) : rule \in MetricChecks(m)}
                           : m \in metrics},
     proposals |-> {}]

\* The counts by severity cite "", and so does an opportunity that affects no page.
ReportingResult(report) ==
    [findings |-> {Finding("summary", "INFO", FALSE, {""}, {})} \cup
        (IF report = {} THEN {}
         ELSE {Finding("top-opportunities", "INFO", FALSE,
                       {IF f.urls = {} THEN "" ELSE CHOOSE u \in f.urls : TRUE : f \in report}, {})}),
     proposals |-> {}]

\* analyze of the agent: of a custom one, any of the results an application may return.
Analyses(agent, input) ==
    CASE agent = "analytics" -> {AnalyticsResult(input.metrics)}
      [] agent = "reporting" -> {ReportingResult(input.report)}
      [] agent = "custom" -> CustomResults
      [] OTHER -> {EntityResult(agent, input.entities)}

\* OutputValidator.validate, of what can fail here: the evidence and the actions.
ValidationFailures(agent, result) ==
    {<<"schema", f.rule>> : f \in {g \in result.findings : "" \in g.evidence}}
      \cup {<<"hallucinated-action", p.action>> :
              p \in {q \in result.proposals : q.action \notin SupportedActionTypes(agent)}}
      \cup {<<"unsupported-operation", p.type>> :
              p \in {q \in result.proposals : q.type \notin KNOWN_RESOURCE_TYPES}}

TargetIds(input) == {input.entities[i].id : i \in DOMAIN input.entities}

\* Mutant: the guard that takes the agent's word for what it targets.
UnsafeByType(result, input) == \E p \in result.proposals : p.action \in REJECTED_ACTION_TYPES

\* DefaultSafetyGuard.assertSafeResult: whether it throws, and what it makes of the findings.
Unsafe(result, input) ==
    \E p \in result.proposals : p.action \in REJECTED_ACTION_TYPES \/ p.target \notin TargetIds(input)
Guarded(result) ==
    [result EXCEPT !.findings =
        {[f EXCEPT !.approval = @ \/ (f.urls # {} /\ f.severity \in {"HIGH", "CRITICAL"})] : f \in @}]

NoResult == [findings |-> {}, proposals |-> {}]
AgentPcs == {"idle", "rejectInput", "invoked", "saveRun", "history", "execution", "performance", "completed",
             "generated", "returned", "rejectOutput", "rejectFindings", "saveFailed", "failed", "threw"}
AgentIds == UNION {AgentsOfCall[c] : c \in AgentCalls}

AgentTypeOK ==
    /\ registered \subseteq AgentIds
    /\ \A c \in AgentCalls :
         /\ agentCall[c].pc \in AgentPcs /\ agentCall[c].agent \in AgentIds
         /\ agentCall[c].input \in AgentInputs
    /\ runs \subseteq AgentCalls \X {"SUCCESS", "FAILED"}
    /\ agentMemory \subseteq AgentCalls \X {"agent_history", "execution", "performance", "validation_failure"}
    /\ agentEvents \subseteq AgentCalls \X {"agent.invoked", "agent.completed", "agent.failed",
                                           "recommendation.generated", "recommendation.rejected"}
    /\ rejection \in [AgentCalls -> {"none", "recorded", "told"}]

AgentInit ==
    /\ registered = AgentIds \ {"custom"}
    /\ agentCall = [c \in AgentCalls |->
         [pc |-> "idle", agent |-> CHOOSE a \in AgentIds : TRUE, input |-> CHOOSE i \in AgentInputs : TRUE,
          result |-> NoResult]]
    /\ runs = {} /\ agentMemory = {} /\ agentEvents = {}
    /\ rejection = [c \in AgentCalls |-> "none"]

RegisterAgent(a) ==
    /\ a \notin registered
    /\ registered' = registered \cup {a}
    /\ UNCHANGED <<agentCall, runs, agentMemory, agentEvents, rejection>>

UnregisterAgent(a) ==
    /\ a \in registered
    /\ registered' = registered \ {a}
    /\ UNCHANGED <<agentCall, runs, agentMemory, agentEvents, rejection>>

AgentAt(c, pc, next) == agentCall[c].pc = pc /\ agentCall' = [agentCall EXCEPT ![c].pc = next]

\* The publication is awaited; when the bus rejects it the event is missing.
Emit(c, type) == agentEvents' \in {agentEvents, agentEvents \cup {<<c, type>>}}

Invoke(c, a, input) ==
    /\ agentCall[c].pc = "idle" /\ a \in registered
    /\ agentCall' = [agentCall EXCEPT ![c] =
         [pc |-> IF input.valid THEN "invoked" ELSE "rejectInput", agent |-> a, input |-> input,
          result |-> NoResult]]
    /\ IF input.valid THEN Emit(c, "agent.invoked") ELSE UNCHANGED agentEvents
    /\ UNCHANGED <<registered, runs, agentMemory, rejection>>

\* Analysis, validation and safety guard: nothing is awaited in between.
Analyze(c) ==
    /\ agentCall[c].pc = "invoked"
    /\ LET agent == agentCall[c].agent
           input == agentCall[c].input
       IN \E result \in Analyses(agent, input) :
            IF ValidationFailures(agent, result) # {} \/ Unsafe(result, input)
            THEN agentCall' = [agentCall EXCEPT ![c].pc = "rejectOutput", ![c].result = result]
            ELSE agentCall' = [agentCall EXCEPT ![c].pc = "saveRun", ![c].result = Guarded(result)]
    /\ UNCHANGED <<registered, runs, agentMemory, agentEvents, rejection>>

\* An agent of an application may throw; the ones of the package do not.
AnalysisThrows(c) ==
    /\ agentCall[c].agent = "custom" /\ AgentAt(c, "invoked", "saveFailed")
    /\ UNCHANGED <<registered, runs, agentMemory, agentEvents, rejection>>

SaveRun(c) ==
    /\ \/ AgentAt(c, "saveRun", "history") /\ runs' = runs \cup {<<c, "SUCCESS">>}
       \/ AgentAt(c, "saveFailed", "failed") /\ runs' = runs \cup {<<c, "FAILED">>}
    /\ UNCHANGED <<registered, agentMemory, agentEvents, rejection>>

SaveMemory(c) ==
    /\ \/ AgentAt(c, "history", "execution") /\ agentMemory' = agentMemory \cup {<<c, "agent_history">>}
       \/ AgentAt(c, "execution", "performance") /\ agentMemory' = agentMemory \cup {<<c, "execution">>}
       \/ AgentAt(c, "performance", "completed") /\ agentMemory' = agentMemory \cup {<<c, "performance">>}
       \/ AgentAt(c, "rejectInput", "failed") /\ agentMemory' = agentMemory \cup {<<c, "validation_failure">>}
       \/ AgentAt(c, "rejectOutput", "rejectFindings") /\ agentMemory' = agentMemory \cup {<<c, "validation_failure">>}
    /\ UNCHANGED <<registered, runs, agentEvents, rejection>>

\* One event for each finding, published one after the other: some, all or none of them may get through.
Announce(c) ==
    /\ \/ AgentAt(c, "completed", "generated") /\ Emit(c, "agent.completed")
       \/ /\ AgentAt(c, "generated", "returned")
          /\ IF agentCall[c].result.findings = {} THEN UNCHANGED agentEvents
             ELSE Emit(c, "recommendation.generated")
       \/ /\ AgentAt(c, "rejectFindings", "failed")
          /\ IF agentCall[c].result.findings = {} THEN UNCHANGED agentEvents
             ELSE Emit(c, "recommendation.rejected")
       \/ AgentAt(c, "failed", "threw") /\ Emit(c, "agent.failed")
    /\ UNCHANGED <<registered, runs, agentMemory, rejection>>

\* A save is rejected: invoke rejects at once and records nothing of it.
StoreRejects(c) ==
    /\ agentCall[c].pc \in {"saveRun", "saveFailed", "history", "execution", "performance",
                            "rejectInput", "rejectOutput"}
    /\ agentCall' = [agentCall EXCEPT ![c].pc = "threw"]
    /\ UNCHANGED <<registered, runs, agentMemory, agentEvents, rejection>>

\* An application rejects a recommendation of the task, whatever became of the invocation: nothing asks whether
\* there is such a recommendation.
RejectRecommendation(c) ==
    /\ agentCall[c].pc # "idle" /\ agentCall[c].agent \in registered /\ rejection[c] # "recorded"
    /\ agentMemory' = agentMemory \cup {<<c, "validation_failure">>}
    /\ rejection' = [rejection EXCEPT ![c] = "recorded"]
    /\ UNCHANGED <<registered, agentCall, runs, agentEvents>>

AnnounceRejection(c) ==
    /\ rejection[c] = "recorded" /\ rejection' = [rejection EXCEPT ![c] = "told"]
    /\ Emit(c, "recommendation.rejected")
    /\ UNCHANGED <<registered, agentCall, runs, agentMemory>>

AgentNext ==
    \/ \E a \in Installable : RegisterAgent(a) \/ UnregisterAgent(a)
    \/ \E c \in AgentCalls :
         \/ \E a \in AgentsOfCall[c], input \in AgentInputs : Invoke(c, a, input)
         \/ Analyze(c) \/ AnalysisThrows(c) \/ SaveRun(c) \/ SaveMemory(c) \/ Announce(c) \/ StoreRejects(c)
         \/ RejectRecommendation(c) \/ AnnounceRejection(c)

AgentSpec == AgentInit /\ [][AgentNext]_agentVars

-----------------------------------------------------------------------------
\* Every agent shipped with the package but the reporting agent, whose summary always cites "", returns a
\* result that passes the validator and the safety guard, whatever entities of the known types it is given.
AgentsConform ==
    \A c \in AgentCalls :
        /\ agentCall[c].pc \in {"rejectOutput", "rejectFindings"}
        /\ \A i \in DOMAIN agentCall[c].input.entities :
             agentCall[c].input.entities[i].type \in KNOWN_RESOURCE_TYPES
        => agentCall[c].agent \in {"custom", "reporting"}

\* No result that reaches a run destroys or publishes content, or changes a resource outside its input, and a
\* severe finding that affects a page asks for approval.  A sensitive action alone does not: safety-guard.ts:14-17
\* says that every sensitive proposal is forced to require approval, and the code only prefixes its rationale.
RunsAreSafe ==
    \A c \in AgentCalls : <<c, "SUCCESS">> \in runs =>
        /\ \A p \in agentCall[c].result.proposals :
             p.action \notin REJECTED_ACTION_TYPES /\ p.target \in TargetIds(agentCall[c].input)
        /\ \A f \in agentCall[c].result.findings :
             f.severity \in {"HIGH", "CRITICAL"} /\ f.urls # {} => f.approval

\* What was announced is on record: a completed run with its three entries of memory, a rejected recommendation
\* with the validation failure.  Only a rejection an application asked for meets a run, or a recommendation that
\* was generated.
AnnouncedIsRecorded ==
    \A c \in AgentCalls :
        /\ <<c, "agent.completed">> \in agentEvents =>
             <<c, "SUCCESS">> \in runs
             /\ {c} \X {"agent_history", "execution", "performance"} \subseteq agentMemory
        /\ <<c, "recommendation.rejected">> \in agentEvents =>
             /\ <<c, "validation_failure">> \in agentMemory
             /\ rejection[c] = "none" => /\ <<c, "recommendation.generated">> \notin agentEvents
                                        /\ \A status \in {"SUCCESS", "FAILED"} : <<c, status>> \notin runs

\* Agents keep their contract, runs are safe, and what is announced was recorded.
AgentsKeepContract == AgentsConform /\ RunsAreSafe /\ AnnouncedIsRecorded

=============================================================================
