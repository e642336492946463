---------------------------- MODULE AgentAnalysis ----------------------------
(***************************************************************************)
(* What the thirteen specialist agents make of their input (packages/      *)
(* agents/src/<agent>/<agent>-agent.ts), the contract their results are    *)
(* checked against (validation/, base/agent-schemas.ts) and the safety     *)
(* policy (safety/).  An entity is [id, type, data]; data maps the fields  *)
(* it has to values, and a blank text is one it does not have.  A text is  *)
(* its length, so equal texts are texts of equal length; a body is its     *)
(* number of words; findings with "" as evidence cite no page.             *)
(***************************************************************************)
EXTENDS Integers, Sequences, FiniteSets

Has(e, field) == field \in DOMAIN e.data
DataOf(e, field, default) == IF Has(e, field) THEN e.data[field] ELSE default
UrlOf(e) == DataOf(e, "url", e.id)

\* One check of an agent: the rule it reports and the type of the action it proposes, or "none".
Check(holds, rule, severity, action) ==
    IF holds THEN {[rule |-> rule, severity |-> severity, action |-> action]} ELSE {}

\* An earlier entity has the same field.
Repeats(entities, i, field) ==
    Has(entities[i], field) /\ \E j \in 1 .. i - 1 : DataOf(entities[j], field, 0) = entities[i].data[field]

MetadataChecks(entities, i) ==
    LET e == entities[i]
        title == IF Has(e, "title") THEN "title" ELSE "metaTitle"
        draft == IF Has(e, "title") THEN "update_title" ELSE "none"
        resolved(x) == DataOf(x, "title", DataOf(x, "metaTitle", 0))
    IN Check(~Has(e, "metaTitle"), "missing-meta-title", "MEDIUM", draft)
       \cup Check(DataOf(e, "metaTitle", 0) > 60, "meta-title-too-long", "MEDIUM", "update_title")
       \cup Check(DataOf(e, "metaTitle", 10) < 10, "meta-title-too-short", "MEDIUM", draft)
       \cup Check(~Has(e, "metaDescription"), "missing-meta-description", "MEDIUM",
                  IF Has(e, "body") THEN "update_meta_description" ELSE "none")
       \cup Check(DataOf(e, "metaDescription", 0) > 160, "meta-description-too-long", "MEDIUM",
                  "update_meta_description")
       \cup Check(Has(e, title) /\ \E j \in 1 .. i - 1 : resolved(entities[j]) = resolved(e),
                  "duplicate-title", "MEDIUM", "none")

TechnicalSeoChecks(entities, i) ==
    LET e == entities[i]
        targets == {j \in DOMAIN entities : Has(e, "redirectTo") /\ UrlOf(entities[j]) = e.data.redirectTo}
        first == CHOOSE j \in targets : \A k \in targets : j <= k
    IN Check(~Has(e, "canonical"), "missing-canonical", "MEDIUM", "update_canonical")
       \cup Check(DataOf(e, "canonical", UrlOf(e)) # UrlOf(e), "conflicting-canonical", "HIGH", "update_canonical")
       \cup Check(DataOf(e, "sitemapIncluded", TRUE) /\ DataOf(e, "noindex", FALSE),
                  "robots-blocked", "HIGH", "update_robots")
       \cup Check(IF targets = {} THEN FALSE ELSE Has(entities[first], "redirectTo"),
                  "redirect-chain", "MEDIUM", "none")
       \cup Check(DataOf(e, "statusCode", 0) >= 400, "broken-page", "MEDIUM", "none")

\* fingerprint keeps the first forty characters: bodies of equal length stand for bodies that begin alike.
ContentChecks(entities, i) ==
    LET e == entities[i]
    IN Check(DataOf(e, "wordCount", DataOf(e, "body", 0)) < 300, "thin-content", "MEDIUM", "none")
       \cup Check(DataOf(e, "h1s", 0) = 0 /\ Has(e, "body"), "missing-h1", "LOW", "none")
       \cup Check(DataOf(e, "h1s", 0) > 1, "multiple-h1", "LOW", "none")
       \cup Check(Repeats(entities, i, "body"), "duplicate-content", "MEDIUM", "none")

\* keywordIn: which of the title, the body and the url mention the focus keyword.
KeywordChecks(entities, i) ==
    LET e == entities[i]
        title == Has(e, "metaTitle") \/ Has(e, "title")
        unmentioned(part) == Has(e, "keywordIn") /\ part \notin e.data.keywordIn
    IN Check(~Has(e, "keywordIn"), "missing-focus-keyword", "MEDIUM", "none")
       \cup Check(title /\ unmentioned("title"), "keyword-not-in-title", "MEDIUM", "update_title")
       \cup Check(Has(e, "body") /\ unmentioned("body"), "keyword-not-in-body", "MEDIUM", "none")
       \cup Check(unmentioned("url"), "keyword-not-in-slug", "MEDIUM", "none")

InternalLinkingChecks(entities, i) ==
    LET e == entities[i]
        orphan == DataOf(e, "orphan", FALSE)
        in == DataOf(e, "inLinks", 0)
    IN Check(DataOf(e, "brokenLinks", 0) > 0, "broken-link", "HIGH", "none")
       \cup Check(orphan, "orphan-page", "LOW", "add_internal_links")
       \cup Check(~orphan /\ in = 0, "no-inbound-links", "LOW", "none")
       \cup Check(~orphan /\ in = 1, "insufficient-inbound-links", "LOW", "none")
       \cup Check(DataOf(e, "outLinks", 0) = 0 /\ in > 0, "no-outbound-links", "LOW", "none")

\* structuredData: the types of the blocks, "" for one without a type.
SchemaChecks(entities, i) ==
    LET e == entities[i]
        entries == DataOf(e, "structuredData", {})
        expected == CASE e.type = "product" -> "Product"
                      [] e.type = "collection" -> "CollectionPage"
                      [] e.type = "blog" -> "Blog"
                      [] e.type = "article" -> "Article"
                      [] e.type = "store" -> "Organization"
                      [] OTHER -> "WebPage"
    IN Check(entries = {}, "missing-structured-data", "MEDIUM", "add_structured_data")
       \cup Check("" \in entries, "invalid-structured-data", "MEDIUM", "remove_structured_data")
       \cup Check(entries # {} /\ expected \notin entries, "missing-key-type", "MEDIUM", "add_structured_data")

\* images: for each its alt text ("" none, or "image"), whether its file has a name, and its size.
ImageSeoChecks(entities, i) ==
    LET e == entities[i]
        draft(image) == IF image.named \/ Has(e, "title") THEN "update_alt_text" ELSE "none"
    IN UNION {Check(image.alt = "", "missing-alt-text", "LOW", draft(image))
                \cup Check(image.alt = "image", "generic-alt-text", "LOW", draft(image))
                \cup Check(image.sizeKb > 200, "large-image", "LOW", "none")
                  : image \in DataOf(e, "images", {})}

ProductChecks(entities, i) ==
    LET e == entities[i]
        products == SelectSeq(SubSeq(entities, 1, i), LAMBDA x : x.type = "product")
        words == DataOf(e, "wordCount", DataOf(e, "body", 0))
    IN IF e.type # "product" THEN {} ELSE
       Check(~Has(e, "body"), "missing-description", "HIGH", "none")
       \cup Check(Has(e, "body") /\ words < 100, "thin-description", "MEDIUM", "none")
       \cup Check(DataOf(e, "images", {}) = {}, "missing-images", "MEDIUM", "none")
       \cup Check(~Has(e, "metaTitle") /\ Has(e, "title"), "missing-title", "MEDIUM", "update_title")
       \cup Check(Repeats(products, Len(products), "title"), "duplicate-title", "MEDIUM", "none")

CollectionChecks(entities, i) ==
    LET e == entities[i]
        words == DataOf(e, "wordCount", DataOf(e, "body", 0))
    IN IF e.type # "collection" THEN {} ELSE
       Check(~Has(e, "body"), "missing-description", "MEDIUM", "none")
       \cup Check(Has(e, "body") /\ words < 100, "thin-description", "MEDIUM", "none")
       \cup Check(DataOf(e, "productsCount", 0) = 0, "empty-collection", "MEDIUM", "none")
       \cup Check(~Has(e, "metaTitle") /\ Has(e, "title"), "missing-title", "MEDIUM", "update_title")

BlogChecks(entities, i) ==
    LET e == entities[i]
        words == DataOf(e, "wordCount", DataOf(e, "body", 0))
    IN IF e.type = "blog"
       THEN Check(\A j \in DOMAIN entities : entities[j].type # "article", "no-articles", "MEDIUM", "none")
       ELSE IF e.type # "article" THEN {} ELSE
       Check(words < 300, "thin-article", "MEDIUM", "none")
       \cup Check(~Has(e, "excerpt") /\ Has(e, "body"), "missing-excerpt", "MEDIUM", "update_meta_description")
       \cup Check(~Has(e, "title"), "missing-title", "HIGH", "none")

PageChecks(entities, i) ==
    LET e == entities[i]
        isPage(j) == entities[j].type = "page"
        isHomepage(j) == UrlOf(entities[j]) = "home"
    IN IF e.type # "page" THEN {} ELSE
       Check(DataOf(e, "statusCode", 0) >= 400, "broken-page", "HIGH", "none")
       \cup Check(DataOf(e, "wordCount", DataOf(e, "body", 0)) < 300, "thin-content", "MEDIUM", "none")
       \cup Check(~Has(e, "title"), "missing-title", "MEDIUM", "none")
       \cup Check(/\ \A j \in 1 .. i - 1 : ~isPage(j)
                  /\ \A j \in DOMAIN entities : isPage(j) => ~isHomepage(j),
                  "missing-homepage", "MEDIUM", "none")
=============================================================================
