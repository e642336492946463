------------------------------ MODULE SeoAudit ------------------------------
(***************************************************************************)
(* The recommendations the SEO engine derives from a crawl (packages/      *)
(* seo-engine/src: engine.ts, analyzers/, rules.ts, scoring.ts).  A page   *)
(* is [url, type, issues, slow, blocks, invalid]: its issues, each with    *)
(* its rule, its severity and whether it carries a value; the performance  *)
(* rules whose threshold it exceeds; how many blocks of structured data it *)
(* has, and how many of them are invalid (-1 blocks: no extraction).       *)
(* Confidences and weights are in percent.                                 *)
(***************************************************************************)
EXTENDS Integers, Sequences, FiniteSets

CONSTANTS
    Crawls,          \* the sets of pages the engine may be given
    AuditConfigs,    \* [off, impact, effort, minPages, cap, weights]: rules disabled, overrides, threshold, cap, scoring
    NoRecommendations

VARIABLES crawl, auditConfig, audit

auditVars == <<crawl, auditConfig, audit>>

\* The rules in the order of their names, and what the registry says of each.
AuditRules == <<"broken-link", "conflicting-canonical", "duplicate-meta-description", "duplicate-title",
    "invalid-structured-data", "large-html", "meta-description-too-long", "meta-description-too-short",
    "missing-alt-text", "missing-canonical", "missing-h1", "missing-lang", "missing-meta-description",
    "missing-structured-data", "missing-title", "multiple-h1", "redirect-chain", "robots-blocked",
    "slow-ttfb", "thin-content", "title-too-long", "title-too-short", "too-many-scripts", "unknown-rule">>

Performance == {"slow-ttfb", "large-html", "too-many-scripts"}
StructuredData == {"missing-structured-data", "invalid-structured-data"}

CategoryOf(rule) ==
    CASE rule \in {"missing-canonical", "conflicting-canonical", "robots-blocked"} -> "indexing"
      [] rule = "missing-lang" -> "internationalization"
      [] rule \in {"redirect-chain", "broken-link"} -> "links"
      [] rule \in Performance -> "performance"
      [] rule \in StructuredData -> "structured-data"
      [] rule = "unknown-rule" -> "technical"
      [] OTHER -> "content"
RuleImpact(rule) ==
    CASE rule \in {"missing-title", "duplicate-title", "conflicting-canonical", "robots-blocked", "broken-link"} -> "HIGH"
      [] rule \in {"title-too-short", "meta-description-too-short", "multiple-h1", "missing-alt-text",
                   "missing-lang", "too-many-scripts"} -> "LOW"
      [] OTHER -> "MEDIUM"
RuleEffort(rule) ==
    CASE rule \in {"thin-content", "slow-ttfb"} -> "HIGH"
      [] rule \in {"duplicate-title", "duplicate-meta-description", "missing-alt-text", "robots-blocked",
                   "redirect-chain", "broken-link", "large-html", "too-many-scripts", "unknown-rule"}
                  \cup StructuredData -> "MEDIUM"
      [] OTHER -> "LOW"
Objective == {"title-too-long", "title-too-short", "meta-description-too-long", "meta-description-too-short",
              "multiple-h1", "thin-content", "redirect-chain", "broken-link"} \cup Performance \cup StructuredData
MattersForMoney(rule) ==
    CategoryOf(rule) \in {"content", "performance", "structured-data"} /\ rule # "missing-alt-text"

Level(x) == CASE x = "LOW" -> 0 [] x = "MEDIUM" -> 1 [] OTHER -> 2
MaxLevel(x, y) == IF Level(x) >= Level(y) THEN x ELSE y
SeverityImpact(severity) == IF severity = "CRITICAL" THEN "HIGH" ELSE severity
BumpImpact(impact) == IF impact = "LOW" THEN "MEDIUM" ELSE "HIGH"

Clamp(x, low, high) == IF x < low THEN low ELSE IF x > high THEN high ELSE x
ComputeConfidence(objective, pageCount, hasValues) ==
    Clamp((IF objective THEN 85 ELSE 70) + (IF pageCount >= 3 THEN 10 ELSE 0) - (IF hasValues THEN 0 ELSE 15), 50, 95)
ComputeScore(impact, confidence, effort, weights) ==
    LET impactScore == CASE impact = "HIGH" -> 100 [] impact = "MEDIUM" -> 60 [] OTHER -> 30
        effortScore == CASE effort = "HIGH" -> 30 [] effort = "MEDIUM" -> 60 [] OTHER -> 100
    IN Clamp((weights.impact * impactScore + weights.confidence * confidence + weights.effort * effortScore + 50) \div 100,
             0, 100)
PriorityFromScore(score) ==
    IF score >= 80 THEN "CRITICAL" ELSE IF score >= 60 THEN "HIGH" ELSE IF score >= 40 THEN "MEDIUM" ELSE "LOW"

Candidate(rule, urls, impact, effort, confidence) ==
    [rule |-> rule, urls |-> urls, impact |-> impact, effort |-> effort, confidence |-> confidence]
ToRecommendation(c, weights) ==
    LET score == ComputeScore(c.impact, c.confidence, c.effort, weights)
    IN [rule |-> c.rule, category |-> CategoryOf(c.rule), urls |-> c.urls, score |-> score,
        priority |-> PriorityFromScore(score)]

\* Mutant: an override replaces the severity that was observed.
IssueImpactOverridden(rule, severities, override, money) ==
    IF MattersForMoney(rule) /\ money THEN BumpImpact(override) ELSE override

\* analyzeIssues: one candidate for each rule that is not disabled, whatever pages it fired on.
IssueImpact(rule, severities, override, money) ==
    LET observed == IF \E s \in severities : SeverityImpact(s) = "HIGH" THEN "HIGH"
                    ELSE IF "MEDIUM" \in severities THEN "MEDIUM" ELSE "LOW"
        impact == MaxLevel(observed, override)
    IN IF MattersForMoney(rule) /\ money THEN BumpImpact(impact) ELSE impact

ImpactOf(config, rule) == IF rule \in DOMAIN config.impact THEN config.impact[rule] ELSE RuleImpact(rule)
EffortOf(config, rule) == IF rule \in DOMAIN config.effort THEN config.effort[rule] ELSE RuleEffort(rule)

FromIssues(pages, config) ==
    LET firedOn(rule) == {p \in pages : \E i \in p.issues : i.rule = rule}
        fired(rule) == UNION {{i \in p.issues : i.rule = rule} : p \in pages}
        rules == {i.rule : i \in UNION {p.issues : p \in pages}} \ config.off
    IN {LET affected == firedOn(rule)
            money == \E p \in affected : p.type \in {"product", "collection", "homepage"}
        IN Candidate(rule, {p.url : p \in affected},
             IssueImpact(rule, {i.severity : i \in fired(rule)}, ImpactOf(config, rule), money),
             EffortOf(config, rule),
             ComputeConfidence(rule \in Objective, Cardinality(affected), \A i \in fired(rule) : i.value))
          : rule \in rules}

\* analyzePerformance and analyzeStructuredData do not look at the configuration of a rule.
Measured(rule, pages) ==
    IF pages = {} THEN {}
    ELSE {Candidate(rule, {p.url : p \in pages}, RuleImpact(rule), RuleEffort(rule),
                    ComputeConfidence(TRUE, Cardinality(pages), TRUE))}

FromPerformance(pages) ==
    UNION {Measured(rule, {p \in pages : rule \in p.slow}) : rule \in Performance}

FromStructuredData(pages, config) ==
    LET missing == {p \in pages : p.blocks = 0 /\ p.type \in {"product", "collection", "article", "homepage"}}
    IN Measured("invalid-structured-data", {p \in pages : p.invalid > 0})
         \cup (IF Cardinality(missing) >= config.minPages
               THEN Measured("missing-structured-data", missing) ELSE {})

\* mergeByRule: an issue of the crawler may have the rule of a measurement.
MergeByRule(candidates) ==
    LET of(rule) == {c \in candidates : c.rule = rule}
        impact(rule) == (CHOOSE c \in of(rule) : \A d \in of(rule) : Level(d.impact) <= Level(c.impact)).impact
        effort(rule) == (CHOOSE c \in of(rule) : \A d \in of(rule) : Level(d.effort) >= Level(c.effort)).effort
        confidence(rule) == CHOOSE x \in {c.confidence : c \in of(rule)} : \A d \in of(rule) : d.confidence <= x
    IN {Candidate(rule, UNION {c.urls : c \in of(rule)}, impact(rule), effort(rule), confidence(rule))
          : rule \in {c.rule : c \in candidates}}

RuleIndex(rule) == CHOOSE i \in DOMAIN AuditRules : AuditRules[i] = rule

\* compareRecommendations; a rule has one recommendation, so the affected URLs never decide.
Precedes(r, s) ==
    \/ r.score > s.score
    \/ r.score = s.score /\ RuleIndex(r.rule) < RuleIndex(s.rule)

ApplyCategoryCap(recommendations, cap) ==
    {r \in recommendations :
        Cardinality({s \in recommendations : s.category = r.category /\ Precedes(s, r)}) < cap}

AnalyzeCrawl(pages, config) ==
    LET candidates == FromIssues(pages, config) \cup FromPerformance(pages) \cup FromStructuredData(pages, config)
    IN ApplyCategoryCap({ToRecommendation(c, config.weights) : c \in MergeByRule(candidates)}, config.cap)

Impacts == {"LOW", "MEDIUM", "HIGH"}

Weights == [impact : Nat, confidence : Nat, effort : Nat]

\* What an override may say of a rule and a weight of the score (config.ts checks neither), and of which rules the
\* crawler's issues are.
ASSUME AuditAssumption ==
    /\ \A config \in AuditConfigs :
         /\ config.cap \in Nat /\ config.weights \in Weights
         /\ \A rule \in DOMAIN config.impact : config.impact[rule] \in Impacts
    /\ \A pages \in Crawls : \A p \in pages : \A i \in p.issues : \E k \in DOMAIN AuditRules : AuditRules[k] = i.rule

AuditTypeOK ==
    /\ crawl \in Crawls /\ auditConfig \in AuditConfigs
    /\ audit = NoRecommendations \/ \A r \in audit : r.score \in 0 .. 100

AuditInit == crawl \in Crawls /\ auditConfig \in AuditConfigs /\ audit = NoRecommendations

Audit ==
    /\ audit = NoRecommendations
    /\ audit' = AnalyzeCrawl(crawl, auditConfig)
    /\ UNCHANGED <<crawl, auditConfig>>

AuditNext == Audit
AuditSpec == AuditInit /\ [][AuditNext]_auditVars

-----------------------------------------------------------------------------
\* The score of a high impact on the weakest evidence and with the highest effort.
SevereFloor(config) == ComputeScore("HIGH", 50, "HIGH", config.weights)

\* A severe issue of a page is never lost: unless its rule is disabled, it is in the report with its page and a
\* score that no high impact falls below, or its category is full of recommendations with such a score.  With the
\* default weights that is 71, a high priority; with others the floor may lie lower, and so may the priority.
SevereIssuesSurface ==
    LET floor == SevereFloor(auditConfig)
        Ranks(r) == r.score >= floor /\ (floor >= 60 => r.priority \in {"HIGH", "CRITICAL"})
    IN audit # NoRecommendations =>
        \A p \in crawl, i \in UNION {q.issues : q \in crawl} :
            i \in p.issues /\ i.severity \in {"HIGH", "CRITICAL"} /\ i.rule \notin auditConfig.off =>
                \/ \E r \in audit : r.rule = i.rule /\ p.url \in r.urls /\ Ranks(r)
                \/ Cardinality({r \in audit : r.category = CategoryOf(i.rule) /\ Ranks(r)}) = auditConfig.cap
=============================================================================
