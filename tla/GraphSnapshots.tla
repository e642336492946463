---------------------------- MODULE GraphSnapshots ----------------------------
(***************************************************************************)
(* The snapshots of one store's graph (packages/knowledge-graph/src:       *)
(* services/knowledge-graph-service.ts, persistence/).  A call builds a    *)
(* graph from an input, or changes one snapshot into another; each await   *)
(* of the snapshot store is a step.  A snapshot is known by its place in   *)
(* saved.                                                                  *)
(*                                                                         *)
(* The ids of nodes are the same in every graph of the store, and the      *)
(* tables of the database have them as their key: rowsById says that the   *)
(* snapshots are kept there, and not by another implementation of the      *)
(* store's interface, such as that of the tests.                           *)
(***************************************************************************)
EXTENDS KnowledgeGraph

CONSTANTS
    GraphCalls,      \* calls of buildGraph and updateGraph
    BuildInputs,     \* inputs of buildGraph
    GraphChanges,    \* inputs of updateGraph: [removeNodes, removeEdges, addNodes, addEdges]
    ImportedGraphs,  \* graphs exported elsewhere
    MaxImports,      \* bound: imports
    NoCall

ASSUME NoCall \notin BuildInputs /\ MaxImports \in Nat

VARIABLES
    rowsById,
    saved,           \* the snapshots, [version, previous, imported, change, graph], in the order of their creation
    gcall            \* gcall[c]: the call, [stage, version, previous, change, graph], or NoCall

graphVars == <<rowsById, saved, gcall>>

NoSnapshotYet == 0
SavedVersions == {saved[i].version : i \in DOMAIN saved}
Imports == {i \in DOMAIN saved : saved[i].imported}

\* The last of the newest: the database has one snapshot for a version.
Latest == IF saved = <<>> THEN NoSnapshotYet
          ELSE Max({i \in DOMAIN saved : saved[i].version = Max(SavedVersions)})
NextVersion == IF saved = <<>> THEN 1 ELSE Max(SavedVersions) + 1

\* One transaction writes the snapshot and its rows; every graph of the store has the store's node.
Accepts(version, graph) ==
    rowsById => /\ version \notin SavedVersions
                /\ \A i \in DOMAIN saved : DOMAIN saved[i].graph.nodes \cap DOMAIN graph.nodes = {}

Snapshot(version, previous, imported, change, graph) ==
    [version |-> version, previous |-> previous, imported |-> imported, change |-> change, graph |-> graph]
Create(version, previous, imported, change, graph) ==
    saved' = IF Accepts(version, graph)
             THEN Append(saved, Snapshot(version, previous, imported, change, graph))
             ELSE saved

\* The change that a build is: none.
NoChange == [removeNodes |-> {}, removeEdges |-> {}, addNodes |-> {}, addEdges |-> {}]
Call(stage, version, previous, change, graph) ==
    [stage |-> stage, version |-> version, previous |-> previous, change |-> change, graph |-> graph]
Over == Call("over", 0, NoSnapshotYet, NoChange, EmptyGraph)

GraphTypeOK ==
    /\ rowsById \in BOOLEAN
    /\ \A i \in DOMAIN saved : saved[i].version \in Nat /\ saved[i].previous \in 0 .. i - 1
    /\ \A c \in GraphCalls : gcall[c] # NoCall =>
           gcall[c].stage \in {"built", "updated", "versioned", "saving", "over"}

----------------------------------------------------------------------------
(* buildGraph *)

\* The graph is built, or the builder throws, before anything is awaited.
BuildGraph(c) ==
    /\ gcall[c] = NoCall
    /\ \E input \in BuildInputs :
         gcall' = [gcall EXCEPT ![c] =
             IF BuildThrows(input) THEN Over
             ELSE Call("built", 0, NoSnapshotYet, NoChange, BuildOf(input, Len(saved)))]
    /\ UNCHANGED <<rowsById, saved>>

ReadVersion(c) ==
    /\ gcall[c] # NoCall /\ gcall[c].stage = "built"
    /\ gcall' = [gcall EXCEPT ![c].stage = "versioned", ![c].version = NextVersion]
    /\ UNCHANGED <<rowsById, saved>>

ReadLatest(c) ==
    /\ gcall[c] # NoCall /\ gcall[c].stage = "versioned"
    /\ gcall' = [gcall EXCEPT ![c].stage = "saving", ![c].previous = Latest]
    /\ UNCHANGED <<rowsById, saved>>

\* A refused transaction rejects the call.
SaveSnapshot(c) ==
    /\ gcall[c] # NoCall /\ gcall[c].stage = "saving"
    /\ Create(gcall[c].version, gcall[c].previous, FALSE, gcall[c].change, gcall[c].graph)
    /\ gcall' = [gcall EXCEPT ![c] = Over]
    /\ UNCHANGED rowsById

----------------------------------------------------------------------------
(* updateGraph *)

Without(graph, change) ==
    LET nodesGone == FoldSet(LAMBDA id, g : IF id \in DOMAIN g.nodes THEN RemoveNode(g, id) ELSE g,
                             graph, change.removeNodes)
    IN FoldSet(LAMBDA e, g : RemoveEdge(g, e), nodesGone, change.removeEdges)
WithNodes(graph, change, now) == FoldSet(LAMBDA id, g : AddNode(g, id, now), Without(graph, change), change.addNodes)
Changed(graph, change, now) == FoldSet(LAMBDA e, g : AddEdge(g, e), WithNodes(graph, change, now), change.addEdges)
ChangeThrows(graph, change) == \E e \in change.addEdges : ~MayAdd(WithNodes(graph, change, 0), e)

\* Two snapshots that are still stored; reading them changes nothing.
CompareSnapshots(previous, current) == Diff(FromRecords(previous.graph), FromRecords(current.graph))

\* What the call reports: the edges of a removed node are removed too.
RemovedEdges(graph, change) ==
    {e \in graph.edges : e \in change.removeEdges \/ {e.from, e.to} \cap change.removeNodes # {}}

UpdateGraph(c) ==
    /\ gcall[c] = NoCall
    /\ \E i \in DOMAIN saved, change \in GraphChanges :
         LET graph == FromRecords(saved[i].graph)
         IN gcall' = [gcall EXCEPT ![c] =
                IF ChangeThrows(graph, change) THEN Over
                ELSE Call("updated", 0, i, change, Changed(graph, change, Len(saved)))]
    /\ UNCHANGED <<rowsById, saved>>

ReadUpdateVersion(c) ==
    /\ gcall[c] # NoCall /\ gcall[c].stage = "updated"
    /\ gcall' = [gcall EXCEPT ![c].stage = "saving", ![c].version = NextVersion]
    /\ UNCHANGED <<rowsById, saved>>

----------------------------------------------------------------------------
(* importGraph keeps the version of the record; what it names as the previous snapshot is elsewhere *)

ImportGraph ==
    /\ Cardinality(Imports) < MaxImports
    /\ \E graph \in ImportedGraphs, version \in 1 .. 2 : Create(version, NoSnapshotYet, TRUE, NoChange, graph)
    /\ UNCHANGED <<rowsById, gcall>>

----------------------------------------------------------------------------

GraphInit ==
    /\ rowsById \in BOOLEAN
    /\ saved = <<>>
    /\ gcall = [c \in GraphCalls |-> NoCall]

GraphNext ==
    \/ \E c \in GraphCalls : BuildGraph(c) \/ ReadVersion(c) \/ ReadLatest(c) \/ SaveSnapshot(c)
                               \/ UpdateGraph(c) \/ ReadUpdateVersion(c)
    \/ ImportGraph

----------------------------------------------------------------------------
(* Properties *)

\* What the ten queries say of one graph agrees: pages that share an entity or link to each other are of one topic,
\* no keyword is both a gap and a target of two pages, a keyword's advice is advice for a page that targets it,
\* co-occurrence goes both ways, a topic can be taken out and merged back, and a page whose chain is not broken is
\* found from the home page by pages that link to it (queries/queries.ts, graph/algorithms.ts, models/graph.ts 203-275).
Consistent(g) ==
    LET clusters == TopicClusters(g, 1)
        components == ConnectedComponents(g)
        broken == BrokenContentChains(g)
        opportunities == InternalLinkOpportunities(g)
        advice == RecommendationDependencies(g)
    IN /\ \A page \in Content(g) : \A r \in RelatedPages(g, page) :
             /\ r.reason = "mutual-link" => [page |-> page, reason |-> r.reason] \in RelatedPages(g, r.page)
             /\ (r.reason \in {"shares", "mutual-link"} /\ r.page \in Content(g)) =>
                    \E cluster \in clusters : {page, r.page} \subseteq cluster
       /\ \A keyword \in OfType(g, "keyword") :
             /\ keyword \in ContentGaps(g) <=> KeywordCompetition(g, keyword) = {}
             /\ keyword \in DuplicateTargets(g) => keyword \notin ContentGaps(g)
             /\ \A rec \in DOMAIN RecommendationsForKeyword(g, keyword) :
                    RecommendationsForKeyword(g, keyword)[rec] # {}
       /\ \A a, b \in DOMAIN advice : a \in advice[b].coOccurring <=> b \in advice[a].coOccurring
       /\ \A entity \in OfType(g, "entity") : \A other \in DOMAIN EntityRelationships(g, entity) :
             EntityRelationships(g, other)[entity] = EntityRelationships(g, entity)[other]
       /\ \A page \in Content(g) \ broken : LinksTo(g, page) # {} /\ page \notin DOMAIN opportunities
       /\ \A cluster \in clusters : \E component \in components : cluster \subseteq component
       /\ Hubs(g, 1) \subseteq Content(g)
       /\ \A cluster \in clusters :
             LET topic == Subgraph(g, cluster)
                 again == Diff(g, Merge(g, topic))
             IN /\ \A e \in topic.edges : MayAdd(topic, e)
                /\ again.changedNodes = cluster
                /\ again.addedNodes = {} /\ again.addedEdges = {} /\ again.removedEdges = {}

\* Every snapshot that is saved can be loaded again: its edges join two nodes that are in it and that may be related,
\* and the queries agree on it.  Comparing a snapshot with the one it was made from shows what the update removed and
\* nothing else.  In the database a store never gets a second snapshot (services/knowledge-graph-service.ts 73-216,
\* persistence/graph-snapshot-store.ts 78-124, utils/ids.ts).
SnapshotsAreSound ==
    [][saved' # saved =>
          LET s == saved'[Len(saved')]
              base == FromRecords(saved[s.previous].graph)
          IN /\ rowsById => saved = <<>>
             /\ \A e \in s.graph.edges : MayAdd(s.graph, e)
             /\ Consistent(s.graph)
             /\ (s.change # NoChange) =>
                    LET diff == CompareSnapshots(saved[s.previous], s)
                    IN /\ diff.removedEdges = RemovedEdges(base, s.change) \ s.change.addEdges
                       /\ diff.addedEdges = s.change.addEdges \ base.edges
                       /\ diff.removedNodes = (s.change.removeNodes \cap DOMAIN base.nodes) \ s.change.addNodes]_graphVars
=============================================================================
