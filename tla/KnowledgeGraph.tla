--------------------------- MODULE KnowledgeGraph ---------------------------
(***************************************************************************)
(* The graph of a store's pages, keywords and recommendations (packages/   *)
(* knowledge-graph/src: models/graph.ts, builders/, graph/, queries/).     *)
(* A node is identified by <<type, external id>>, an edge by [type, from,  *)
(* to]; a graph is [nodes, edges], where nodes[id] is [version, at]: how   *)
(* often the node was added, and when it was first.  Names, properties and *)
(* weights are left out, and with them estimateAuthorityFlow, the scoring  *)
(* and the order of what queries return.                                   *)
(***************************************************************************)
EXTENDS Integers, Sequences, FiniteSets, FiniteSetsExt

CONSTANTS
    NormalUrl,    \* NormalUrl[url]: without fragment and trailing slash
    Origin,       \* what originOf returns for every page
    HomeUrls,     \* the origin, with and without a slash
    NoNode

NormalizeUrl(url) == NormalUrl[url]
WebsiteNode == <<"website", Origin>>
EmptyGraph == [nodes |-> <<>>, edges |-> {}]
Edge(type, from, to) == [type |-> type, from |-> from, to |-> to]
TypeOf(id) == id[1]
OutEdges(g, id) == {e \in g.edges : e.from = id}
InEdges(g, id) == {e \in g.edges : e.to = id}
OfType(g, type) == {id \in DOMAIN g.nodes : TypeOf(id) = type}

----------------------------------------------------------------------------
(* Relationships *)

ContentKinds == {"product", "collection", "page", "article", "blog"}

AllowedSources(type) ==
    CASE type = "owns" -> {"store"}
      [] type = "contains" -> ContentKinds \cup {"store", "website"}
      [] type = "crawled" -> {"crawl"}
      [] type \in {"links_to", "references"} -> ContentKinds \cup {"website"}
      [] type = "targets" -> {"product", "page", "collection"}
      [] type = "belongs_to" -> {"keyword", "article", "page", "product"}
      [] type = "fixes" -> {"seo-recommendation"}
      [] type \in {"affects", "occurs_in"} -> {"seo-issue", "seo-recommendation"}
      [] type = "describes" -> {"schema"}
      [] type = "generated" -> {"agent-run"}
      [] type = "derived_from" -> {"seo-recommendation", "audit", "report"}
AllowedTargets(type) ==
    CASE type = "owns" -> ContentKinds \cup {"store", "website"}
      [] type = "contains" -> {"product", "article", "entity", "schema", "page", "blog"}
      [] type \in {"crawled", "affects"} -> ContentKinds \cup {"website"}
      [] type = "links_to" -> ContentKinds \cup {"website", "image", "video", "external-link"}
      [] type = "references" -> {"image", "video"}
      [] type = "targets" -> {"keyword"}
      [] type = "belongs_to" -> {"search-intent", "topic-cluster"}
      [] type = "fixes" -> {"seo-issue"}
      [] type = "describes" -> {"product", "entity", "collection", "article"}
      [] type = "generated" -> {"seo-recommendation"}
      [] type \in {"occurs_in", "derived_from"} -> {"crawl"}
AllowedPair(e) == TypeOf(e.from) \in AllowedSources(e.type) /\ TypeOf(e.to) \in AllowedTargets(e.type)

\* addEdge throws for any other edge.
MayAdd(g, e) == {e.from, e.to} \subseteq DOMAIN g.nodes /\ e.from # e.to /\ AllowedPair(e)

----------------------------------------------------------------------------
(* Nodes and edges; adding is idempotent but for the version *)

AddNode(g, id, now) ==
    LET known == id \in DOMAIN g.nodes
    IN [g EXCEPT !.nodes = [i \in DOMAIN g.nodes \cup {id} |->
           IF i # id THEN g.nodes[i]
           ELSE [version |-> IF known THEN g.nodes[i].version + 1 ELSE 1,
                 at |-> IF known THEN g.nodes[i].at ELSE now]]]

AddEdge(g, e) == [g EXCEPT !.edges = @ \cup {e}]

RemoveEdge(g, e) == [g EXCEPT !.edges = @ \ {e}]

\* Mutant: the edges that lead to the node stay.
RemoveNodeOnly(g, id) ==
    [nodes |-> [i \in DOMAIN g.nodes \ {id} |-> g.nodes[i]], edges |-> g.edges \ OutEdges(g, id)]

\* With the edges it has.
RemoveNode(g, id) ==
    [nodes |-> [i \in DOMAIN g.nodes \ {id} |-> g.nodes[i]],
     edges |-> g.edges \ (OutEdges(g, id) \cup InEdges(g, id))]

\* The records of a snapshot are added one by one: every version is 1 again.
FromRecords(g) == [g EXCEPT !.nodes = [id \in DOMAIN @ |-> [@[id] EXCEPT !.version = 1]]]

\* The nodes of the other graph are added to those of g, each again or with the time it has there.
Merge(g, other) ==
    [nodes |-> [id \in DOMAIN g.nodes \cup DOMAIN other.nodes |->
        IF id \notin DOMAIN other.nodes THEN g.nodes[id]
        ELSE IF id \in DOMAIN g.nodes THEN [g.nodes[id] EXCEPT !.version = @ + 1]
        ELSE [other.nodes[id] EXCEPT !.version = 1]],
     edges |-> g.edges \cup other.edges]

\* The nodes among ids and the edges between them.
Subgraph(g, ids) ==
    [nodes |-> [id \in ids \cap DOMAIN g.nodes |-> [g.nodes[id] EXCEPT !.version = 1]],
     edges |-> {e \in g.edges : {e.from, e.to} \subseteq ids}]

----------------------------------------------------------------------------
(***************************************************************************)
(* The builder.  Its input is [store, crawl, pages, keywords, entities,    *)
(* videos, recommendations, agentRuns]: pages is a sequence of [url, type, *)
(* extracted, links, external, images, schemas], where links are internal  *)
(* ones, and schemas tells of each block whether it is valid and whether   *)
(* it describes a product.                                                 *)
(***************************************************************************)
NodeTypeOf(pageType) ==
    IF pageType \in {"product", "collection", "blog", "article"} THEN pageType ELSE "page"

Extracted(input) == {i \in DOMAIN input.pages : input.pages[i].extracted}
PageId(page) == <<NodeTypeOf(page.type), NormalizeUrl(page.url)>>

\* The node of a url: of the last page that has it.
PageNode(input, url) ==
    LET same == {i \in Extracted(input) : NormalizeUrl(input.pages[i].url) = NormalizeUrl(url)}
    IN IF same = {} THEN NoNode ELSE PageId(input.pages[Max(same)])

StoreNode(input) == <<"store", input.store>>
CrawlNode(input) == <<"crawl", input.crawl>>
Issue(rec, url) == <<"seo-issue", <<rec.rule, NormalizeUrl(url)>>>>
Recommended(rec) == <<"seo-recommendation", rec.id>>
ValidSchemas(page) == {k \in DOMAIN page.schemas : page.schemas[k].valid}
SchemaNode(page, k) == <<"schema", <<NormalizeUrl(page.url), k>>>>
AffectedPages(input, rec) == {url \in rec.urls : PageNode(input, url) # NoNode}

\* <<node, why it is added>>; a node that is looked up first is added once.  Names of entities are no urls.
Additions(input) ==
    {<<StoreNode(input), 0>>, <<CrawlNode(input), 0>>}
      \cup (IF input.pages = <<>> THEN {} ELSE {<<WebsiteNode, 0>>})
      \cup {<<PageId(input.pages[i]), i>> : i \in Extracted(input)}
      \cup UNION {LET page == input.pages[i]
                  IN {<<<<"external-link", href>>, 0>> : href \in page.external}
                       \cup {<<<<"image", src>>, 0>> : src \in page.images}
                       \cup {<<SchemaNode(page, k), i>> : k \in ValidSchemas(page)} : i \in Extracted(input)}
      \cup {<<<<"video", video.url>>, video>> : video \in input.videos}
      \cup {<<<<"keyword", keyword.text>>, keyword>> : keyword \in input.keywords}
      \cup {<<<<"search-intent", keyword.intent>>, 0>> : keyword \in {k \in input.keywords : k.intent # ""}}
      \cup {<<<<entity.type, entity.name>>, entity>> : entity \in input.entities}
      \cup {<<Recommended(rec), rec>> : rec \in input.recommendations}
      \cup UNION {{<<Issue(rec, url), <<rec, url>>>> : url \in AffectedPages(input, rec)} : rec \in input.recommendations}
      \cup {<<<<"agent-run", run.id>>, run>> : run \in input.agentRuns}

LinkEdges(input, page) ==
    LET from == PageNode(input, page.url)
        targets == {PageNode(input, href) : href \in page.links} \ {NoNode, from}
    IN {Edge("links_to", from, to) : to \in targets \cup {<<"external-link", href>> : href \in page.external}}
         \cup {Edge("contains", from, to) :
                   to \in {t \in targets : TypeOf(from) = "collection" /\ TypeOf(t) = "product"}}
         \cup {Edge("references", from, <<"image", src>>) : src \in page.images}
         \cup {Edge("contains", from, SchemaNode(page, k)) : k \in ValidSchemas(page)}
         \cup {Edge("describes", SchemaNode(page, k), from) :
                   k \in {j \in ValidSchemas(page) : page.type = "product" /\ page.schemas[j].product}}

MentionEdges(input) ==
    LET Pages(urls) == {PageNode(input, url) : url \in urls} \ {NoNode}
    IN UNION {{Edge("references", p, <<"video", v.url>>) : p \in Pages({v.page})} : v \in input.videos}
         \cup {Edge("belongs_to", <<"keyword", k.text>>, <<"search-intent", k.intent>>) :
                   k \in {w \in input.keywords : w.intent # ""}}
         \cup UNION {{Edge("targets", p, <<"keyword", k.text>>) : p \in Pages(k.targets)} : k \in input.keywords}
         \cup UNION {{Edge("contains", p, <<entity.type, entity.name>>) : p \in Pages(entity.pages)} :
                         entity \in input.entities}

AdviceEdges(input, rec) ==
    {Edge("derived_from", Recommended(rec), CrawlNode(input))}
      \cup UNION {{Edge("affects", Recommended(rec), PageNode(input, url)),
                   Edge("fixes", Recommended(rec), Issue(rec, url)),
                   Edge("affects", Issue(rec, url), PageNode(input, url)),
                   Edge("occurs_in", Issue(rec, url), CrawlNode(input))} : url \in AffectedPages(input, rec)}

EdgesOf(input) ==
    (IF input.pages = <<>> THEN {} ELSE {Edge("owns", StoreNode(input), WebsiteNode)})
      \cup UNION {{Edge("owns", StoreNode(input), PageId(input.pages[i])),
                   Edge("crawled", CrawlNode(input), PageId(input.pages[i]))}
                      \cup LinkEdges(input, input.pages[i]) : i \in Extracted(input)}
      \cup MentionEdges(input)
      \cup UNION {AdviceEdges(input, rec) : rec \in input.recommendations}
      \cup UNION {{Edge("generated", <<"agent-run", run.id>>, Recommended(rec)) :
                       rec \in {r \in input.recommendations : r.id \in run.recommendations}} : run \in input.agentRuns}

BuildOf(input, now) ==
    LET added == Additions(input)
    IN [nodes |-> [id \in {a[1] : a \in added} |->
                      [version |-> Cardinality({a \in added : a[1] = id}), at |-> now]],
        edges |-> EdgesOf(input)]

\* A single edge of the wrong kind and the build throws.
BuildThrows(input) == \E e \in EdgesOf(input) : ~MayAdd(BuildOf(input, 0), e)

----------------------------------------------------------------------------
(* Differences *)

Diff(previous, current) ==
    LET old == DOMAIN previous.nodes
        new == DOMAIN current.nodes
    IN [addedNodes |-> new \ old, removedNodes |-> old \ new,
        changedNodes |-> {id \in new \cap old : previous.nodes[id] # current.nodes[id]},
        addedEdges |-> current.edges \ previous.edges, removedEdges |-> previous.edges \ current.edges]

----------------------------------------------------------------------------
(* Algorithms *)

Content(g) == {id \in DOMAIN g.nodes : TypeOf(id) \in ContentKinds}
LinksFrom(g, id) == {e.to : e \in {o \in OutEdges(g, id) : o.type = "links_to"}}
LinksTo(g, id) == {e.from : e \in {i \in InEdges(g, id) : i.type = "links_to"}}

\* Union-find: two groups become one.
UnionOf(groups, pair) ==
    LET joined == {group \in groups : group \cap pair # {}}
    IN (groups \ joined) \cup {UNION joined}
Groups(ids, pairs) == FoldSet(LAMBDA pair, groups : UnionOf(groups, pair), {{id} : id \in ids}, pairs)

ConnectedComponents(g) == Groups(DOMAIN g.nodes, {{e.from, e.to} : e \in g.edges})

OrphanPages(g) == {id \in Content(g) : LinksTo(g, id) = {}}

\* The pages at each depth from the root, breadth first.
InternalLinkDepth(g, root) ==
    LET within[n \in Nat] ==
            IF n = 0 THEN [id \in {root} \cap DOMAIN g.nodes |-> 0]
            ELSE LET near == within[n - 1]
                     next == UNION {LinksFrom(g, id) : id \in {i \in DOMAIN near : near[i] = n - 1}}
                 IN [id \in DOMAIN near \cup next |-> IF id \in DOMAIN near THEN near[id] ELSE n]
    IN within[Cardinality(DOMAIN g.nodes)]

Hubs(g, minOutLinks) == {id \in Content(g) : Cardinality(LinksFrom(g, id) \cap Content(g)) >= minOutLinks}

EntitiesOf(g, id) == {e.to : e \in {o \in OutEdges(g, id) : o.type = "contains" /\ TypeOf(o.to) = "entity"}}
Mutual(g, a, b) == b \in LinksFrom(g, a) /\ a \in LinksFrom(g, b)

TopicClusters(g, minSharedEntities) ==
    LET pairs == {pair \in kSubset(2, Content(g)) : \E a, b \in pair :
                      /\ a # b
                      /\ \/ Cardinality(EntitiesOf(g, a) \cap EntitiesOf(g, b)) >= minSharedEntities
                         \/ Mutual(g, a, b)}
    IN {group \in Groups(Content(g), pairs) : Cardinality(group) >= 2}

Targeting(g, keyword) == {e.from : e \in {i \in InEdges(g, keyword) : i.type = "targets"}}
DuplicateTargets(g) == {keyword \in OfType(g, "keyword") : Cardinality(Targeting(g, keyword)) >= 2}

Fixes(g, rec) == {e.to : e \in {o \in OutEdges(g, rec) : o.type = "fixes"}}
CoOccurring(g, rec) ==
    {other \in OfType(g, "seo-recommendation") \ {rec} : Fixes(g, other) \cap Fixes(g, rec) # {}}
RecommendationDependencies(g) ==
    [rec \in OfType(g, "seo-recommendation") |->
        [fixes |-> Fixes(g, rec), coOccurring |-> CoOccurring(g, rec),
         affects |-> {e.to : e \in {o \in OutEdges(g, rec) : o.type = "affects"}}]]

----------------------------------------------------------------------------
(* Queries *)

\* [page, reason]: why another node is related to a page.
RelatedPages(g, page) ==
    {r \in [page : DOMAIN g.nodes \ {page}, reason : {"shares", "mutual-link", "shared-collection"}] :
        CASE r.reason = "shares" -> \E entity \in EntitiesOf(g, page) : Edge("contains", r.page, entity) \in g.edges
          [] r.reason = "mutual-link" -> Mutual(g, page, r.page)
          [] OTHER -> \E collection \in OfType(g, "collection") :
                         {Edge("contains", collection, page), Edge("contains", collection, r.page)} \subseteq g.edges}

KeywordCompetition(g, keyword) == Targeting(g, keyword)

\* For every orphan, the pages that could link to it.
InternalLinkOpportunities(g) ==
    [orphan \in OrphanPages(g) |-> {id \in Content(g) \ {orphan} : orphan \notin LinksFrom(g, id)}]

RecommendationsForPage(g, page) ==
    {e.from : e \in {i \in InEdges(g, page) : i.type = "affects" /\ TypeOf(i.from) = "seo-recommendation"}}
RecommendationsForKeyword(g, keyword) ==
    LET found == UNION {RecommendationsForPage(g, page) : page \in Targeting(g, keyword)}
    IN [rec \in found |-> {page \in Targeting(g, keyword) : rec \in RecommendationsForPage(g, page)}]

\* Entities on a common page, and the pages they share.
EntityRelationships(g, entity) ==
    LET pages == {e.from : e \in {i \in InEdges(g, entity) : i.type = "contains"}}
        others == UNION {EntitiesOf(g, page) : page \in pages} \ {entity}
    IN [other \in others |-> {page \in pages : other \in EntitiesOf(g, page)}]

\* Pages the home page does not lead to; the home page itself when nothing links to it.
BrokenContentChains(g) ==
    LET homes == {id \in Content(g) : id[2] \in HomeUrls}
        root == IF homes # {} THEN CHOOSE home \in homes : TRUE ELSE WebsiteNode
    IN (Content(g) \ DOMAIN InternalLinkDepth(g, root)) \cup OrphanPages(g)

ContentGaps(g) == {keyword \in OfType(g, "keyword") : Targeting(g, keyword) = {}}
=============================================================================
