----------------------------- MODULE MCWorkers -----------------------------
(***************************************************************************)
(* The components whose workers share a queue, each on a small instance.   *)
(* They do not touch each other's state, so part chooses which of them     *)
(* runs: the behaviours are those of each module's own specification, and  *)
(* in its initial state none of the others has a fair step to take.        *)
(***************************************************************************)
EXTENDS ExecutionQueue, OutboxEventBus, WorkflowEngine, AgentScheduler, CrawlScheduler

CONSTANTS gather, draft, both, check, home, list, item, post

VARIABLE part

vars == <<part, queueVars, busVars, wfVars, agentVars, crawlVars>>

\* The first entry waits for nothing and has the later priority.
MCQueueInput == <<[priority |-> 1, maxAttempts |-> 2, delayed |-> FALSE],
                  [priority |-> 0, maxAttempts |-> 3, delayed |-> TRUE]>>

\* gather, although it is listed second, then two steps side by side: an agent, and a condition over nothing.
MCKind == gather :> "agent" @@ draft :> "agent" @@ both :> "group" @@ check :> "conditional"
MCBody == Root :> <<both, gather>> @@ both :> <<draft, check>> @@ [s \in Steps |-> <<>>]
MCWhenFalse == [s \in Steps |-> <<>>]
MCDependsOn == both :> {gather} @@ [s \in Steps |-> {}]
MCWidth == both :> 2 @@ [s \in Steps \cup {Root} |-> 1]
MCMaxTries == gather :> 2 @@ [s \in Steps |-> 1]

\* The first event has two handlers.
MCSubscribers == <<2, 1>>

MCItemPriority == <<1, 0, 1>>

\* Links ahead, back, and to the same page twice.
MCSeedLists == {<<>>, <<home>>, <<list>>}
MCPageLinks == home :> <<list, item, post>> @@ list :> <<post>> @@ item :> <<home>> @@ post :> <<list>>
MCTypePriority == home :> 0 @@ list :> 1 @@ item :> 1 @@ post :> 2

Init ==
    /\ part \in {"queue", "bus", "workflow", "agents", "crawl"}
    /\ QueueInit /\ BusInit /\ WorkflowInit /\ AgentInit /\ CrawlInit

Next ==
    /\ UNCHANGED part
    /\ \/ part = "queue" /\ QueueNext /\ UNCHANGED <<busVars, wfVars, agentVars, crawlVars>>
       \/ part = "bus" /\ BusNext /\ UNCHANGED <<queueVars, wfVars, agentVars, crawlVars>>
       \/ part = "workflow" /\ WorkflowNext /\ UNCHANGED <<queueVars, busVars, agentVars, crawlVars>>
       \/ part = "agents" /\ AgentNext /\ UNCHANGED <<queueVars, busVars, wfVars, crawlVars>>
       \/ part = "crawl" /\ CrawlNext /\ UNCHANGED <<queueVars, busVars, wfVars, agentVars>>

Fairness == QueueFairness /\ BusFairness /\ WorkflowFairness /\ CrawlFairness

Spec == Init /\ [][Next]_vars /\ Fairness

\* Every variable of every component has its type.
WorkersTypeOK == QueueTypeOK /\ BusTypeOK /\ WorkflowTypeOK /\ AgentTypeOK /\ CrawlTypeOK

\* Whatever is begun comes to an end, in each of them: the entries of a running pool settle, pending events are
\* delivered or given up, the runs of a workflow and a crawl end.
EverythingEnds == EntriesSettle /\ EventsEnd /\ RunsEnd /\ CrawlEnds
=============================================================================
