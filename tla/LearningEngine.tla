--------------------------- MODULE LearningEngine ---------------------------
(***************************************************************************)
(* What the platform learns (packages/learning-engine/src): outcomes and   *)
(* feedback kept by a store, and what is derived from them: scores of      *)
(* recommendations, signals, and the history given to the decision engine. *)
(* Confidences, impacts and efforts are in percent, rates in parts of      *)
(* Whole, Unlabelled is a confidence nobody stated.  Entries are in the    *)
(* order of their timestamps, and a position stands for one; the impacts   *)
(* and durations of outcomes are left out.                                 *)
(***************************************************************************)
EXTENDS Integers, Sequences, FiniteSets

CONSTANTS
    Ingests,           \* concurrent calls of ingestOutcome
    ExecutionRecords,  \* [execution, store, rule, status, confidence]: what was executed
    FeedbackInputs,    \* [store, rule, rating]
    ScoreInputs,       \* [rule, confidence, impact, effort, pages, maxPages]
    LearningFilters,   \* [store, rule, since, limit]; Whatever is a field left out
    Histories,         \* what the decision engine may know from an earlier cycle
    Whatever, NoRule, Unlabelled, NoOutcome,
    MinSamples,
    Whole,             \* what rates are parts of: each count a rate is of divides it, so that none is rounded
    MaxOutcomes, MaxFeedback, MaxLearningOps       \* bounds

\* What a recommendation is scored by is clamped first (scoring.ts:56, calibration.ts:36); no rule is the field that
\* a filter leaves out.
ASSUME LearningAssumption ==
    /\ Whole \in Nat /\ MaxOutcomes \in Nat /\ MaxFeedback \in Nat /\ IsFiniteSet(Ingests)
    /\ \A input \in ScoreInputs : /\ {input.confidence, input.impact, input.effort} \subseteq 0 .. 100
                                  /\ input.pages \in Int /\ input.maxPages \in Int /\ input.rule # Whatever
    /\ \A r \in ExecutionRecords : r = [execution |-> r.execution, store |-> r.store, rule |-> r.rule,
                                        status |-> r.status, confidence |-> r.confidence]

VARIABLES
    outcomes,          \* the store's, oldest first
    feedback,
    signals,
    ingest,            \* ingest[c]: the record call c found no outcome of, to be saved next
    known,             \* the history the decision engine was last given
    learningOps        \* how many signals, histories and resets were asked for

learnVars == <<outcomes, feedback, signals, ingest, known, learningOps>>

----------------------------------------------------------------------------
(* Adapters and the store *)

Status(status) ==
    CASE status = "COMPLETED" -> "SUCCESS"
      [] status = "FAILED" -> "FAILURE"
      [] status = "CANCELLED" -> "SKIPPED"
      [] status = "ROLLED_BACK" -> "ROLLED_BACK"
      [] OTHER -> NoOutcome
FromExecutionRecord(r) == [r EXCEPT !.status = Status(r.status), !.confidence = Unlabelled]

OutcomeStatuses == {"SUCCESS", "FAILURE", "SKIPPED", "ROLLED_BACK"}
OutcomeRec == {[r EXCEPT !.status = s] : r \in ExecutionRecords, s \in OutcomeStatuses}
HistoryRec == [attempts : Nat, successes : Nat]

\* The positions of the entries a filter selects: the newest ones, as many as its limit.
Matching(entries, filter) ==
    LET hits == {i \in DOMAIN entries : /\ filter.store \in {Whatever, entries[i].store}
                                        /\ filter.rule \in {Whatever, entries[i].rule}
                                        /\ i >= filter.since}
    IN {i \in hits : Cardinality({j \in hits : j > i}) < filter.limit}
OfRule(rule) == [store |-> Whatever, rule |-> rule, since |-> 0, limit |-> MaxOutcomes + MaxFeedback]
OfStore(store) == [store |-> store, rule |-> Whatever, since |-> 0, limit |-> MaxOutcomes + MaxFeedback]

Succeeded(all, positions) == {i \in positions : all[i].status = "SUCCESS"}
Rated(all, positions, rating) == {i \in positions : all[i].rating = rating}

----------------------------------------------------------------------------
(* Scores *)

Rate(part, total) == (part * Whole) \div total

\* Mutant: small samples are pulled to 0 instead of the default rate.
SmoothedToZero(attempts, successes) == Rate(successes, attempts + 2)
SmoothedRate(attempts, successes) == Rate(successes + 1, attempts + 2)

\* The lower bounds of the bins; the last one includes its upper bound.
BinOf(confidence) == IF confidence = 100 THEN 3 ELSE confidence \div 25
\* An input is looked up in the first bin whose bounds, both included, it is within.
TargetBin(confidence) == IF confidence = 0 THEN 0 ELSE (confidence - 1) \div 25

Calibrate(all, positions, confidence) ==
    LET labelled == {i \in positions : all[i].confidence # Unlabelled}
        entries == {i \in labelled : BinOf(all[i].confidence) = TargetBin(confidence)}
    IN CASE entries # {} -> Rate(Cardinality(Succeeded(all, entries)), Cardinality(entries))
         [] entries = {} /\ labelled # {} -> Rate(Cardinality(Succeeded(all, labelled)), Cardinality(labelled))
         [] OTHER -> Rate(confidence, 100)

\* Net feedback from -1 to 1, moved to 0 to 1.
FeedbackScore(all, positions) ==
    IF positions = {} THEN Rate(1, 2)
    ELSE LET total == Cardinality(positions)
             net == Cardinality(Rated(all, positions, 1)) - Cardinality(Rated(all, positions, -1))
         IN Rate(total + net, 2 * total)

Effectiveness(all, positions) ==
    IF positions = {} THEN Rate(1, 2)
    ELSE SmoothedRate(Cardinality(positions), Cardinality(Succeeded(all, positions)))

ReachFactor(count, reference) == IF count <= 0 \/ reference <= 0 THEN 0 ELSE Rate(count, reference + count)

\* The weighted sum, in parts of 10 * Whole, and the score it is rounded to.
Raw(all, ratings, input) ==
    LET history == Matching(all, OfRule(input.rule))
    IN 3 * Rate(input.impact, 100) + 2 * Calibrate(all, history, input.confidence)
         + 2 * Effectiveness(all, history) + ReachFactor(input.pages, input.maxPages) + Rate(input.effort, 100)
         + FeedbackScore(ratings, Matching(ratings, OfRule(input.rule)))
LearnedScore(all, ratings, input) == (10 * Raw(all, ratings, input) + Whole \div 2) \div Whole

----------------------------------------------------------------------------
(* Analysis, history and signals *)

RuleName(entry, default) == IF entry.rule = NoRule THEN default ELSE entry.rule
ByRule(all, positions, default) ==
    [rule \in {RuleName(all[i], default) : i \in positions} |->
        {i \in positions : RuleName(all[i], default) = rule}]

AnalyzeOutcomes(all, filter) ==
    LET groups == ByRule(all, Matching(all, filter), "unknown")
    IN [rule \in DOMAIN groups |->
           [attempts |-> Cardinality(groups[rule]), successes |-> Cardinality(Succeeded(all, groups[rule]))]]

\* What the decision engine already knows is added to what is analysed.
ProcessHistory(existing, performances) ==
    [rule \in DOMAIN existing \cup DOMAIN performances |->
        CASE rule \notin DOMAIN existing -> performances[rule]
          [] rule \notin DOMAIN performances -> existing[rule]
          [] OTHER -> [attempts |-> existing[rule].attempts + performances[rule].attempts,
                       successes |-> existing[rule].successes + performances[rule].successes]]

\* At least a fifth of the whole reward, either way.
KindOf(reward) ==
    CASE 5 * reward >= Whole -> "positive" [] 5 * reward <= -Whole -> "negative" [] OTHER -> "neutral"
Signal(rule, source, reward, samples, enough) ==
    [rule |-> rule, source |-> source, kind |-> KindOf(reward),
     confidence |-> IF samples >= enough THEN Whole ELSE Rate(samples, enough)]
OutcomeSignals(all, positions) ==
    LET groups == ByRule(all, positions, "unknown")
        Reward(g) == Rate(2 * Cardinality(Succeeded(all, g)) - Cardinality(g), Cardinality(g))
    IN {Signal(rule, "outcome", Reward(groups[rule]), Cardinality(groups[rule]), MinSamples) : rule \in DOMAIN groups}
FeedbackSignals(all, positions) ==
    LET groups == ByRule(all, positions, "feedback")
        Reward(g) == Rate(Cardinality(Rated(all, g, 1)) - Cardinality(Rated(all, g, -1)), Cardinality(g))
    IN {Signal(rule, "feedback", Reward(groups[rule]), Cardinality(groups[rule]), 5) : rule \in DOMAIN groups}

----------------------------------------------------------------------------
(* The service *)

LearningInit ==
    /\ outcomes = <<>> /\ feedback = <<>> /\ signals = <<>> /\ known = <<>>
    /\ ingest = [c \in Ingests |-> NoOutcome]
    /\ learningOps = 0

RecordFeedback(f) ==
    /\ Len(feedback) < MaxFeedback
    /\ f.rating \in {-1, 0, 1}
    /\ feedback' = Append(feedback, f)
    /\ UNCHANGED <<outcomes, signals, ingest, known, learningOps>>

\* ingestOutcome of what the adapter makes of r and the confidence its caller stated, up to the answer of
\* findOutcome; an outcome that is there is a conflict.
FindOutcome(c, r) ==
    /\ ingest[c] = NoOutcome
    /\ Status(r.status) # NoOutcome
    /\ \A i \in DOMAIN outcomes : outcomes[i].execution # r.execution
    /\ ingest' = [ingest EXCEPT ![c] = [FromExecutionRecord(r) EXCEPT !.confidence = r.confidence]]
    /\ UNCHANGED <<outcomes, feedback, signals, known, learningOps>>

\* The rest of ingestOutcome: every record has an id of its own, so the store accepts it.
SaveOutcome(c) ==
    /\ ingest[c] # NoOutcome
    /\ Len(outcomes) < MaxOutcomes
    /\ outcomes' = Append(outcomes, ingest[c])
    /\ ingest' = [ingest EXCEPT ![c] = NoOutcome]
    /\ UNCHANGED <<feedback, signals, known, learningOps>>

GenerateSignals(store) ==
    /\ learningOps < MaxLearningOps
    /\ signals' = signals \o <<OutcomeSignals(outcomes, Matching(outcomes, OfStore(store)))
                                  \cup FeedbackSignals(feedback, Matching(feedback, OfStore(store)))>>
    /\ learningOps' = learningOps + 1
    /\ UNCHANGED <<outcomes, feedback, ingest, known>>

GetHistoricalOutcomes(filter, existing) ==
    /\ learningOps < MaxLearningOps
    /\ known' = ProcessHistory(existing, AnalyzeOutcomes(outcomes, filter))
    /\ learningOps' = learningOps + 1
    /\ UNCHANGED <<outcomes, feedback, signals, ingest>>

Reset ==
    /\ learningOps < MaxLearningOps
    /\ outcomes' = <<>> /\ feedback' = <<>> /\ signals' = <<>>
    /\ learningOps' = learningOps + 1
    /\ UNCHANGED <<ingest, known>>

LearningNext ==
    \/ \E f \in FeedbackInputs : RecordFeedback(f)
    \/ \E c \in Ingests : SaveOutcome(c) \/ \E r \in ExecutionRecords : FindOutcome(c, r)
    \/ \E filter \in LearningFilters : GenerateSignals(filter.store)
                                       \/ \E existing \in Histories : GetHistoricalOutcomes(filter, existing)
    \/ Reset

LearningSpec == LearningInit /\ [][LearningNext]_learnVars

LearningTypeOK ==
    /\ Len(outcomes) <= MaxOutcomes /\ Len(feedback) <= MaxFeedback
    /\ outcomes \in Seq(OutcomeRec) /\ ingest \in [Ingests -> OutcomeRec \cup {NoOutcome}]
    /\ feedback \in Seq(FeedbackInputs)
    /\ \A input \in ScoreInputs : LearnedScore(outcomes, feedback, input) \in 0 .. 100
    /\ \A rule \in DOMAIN known : known[rule] \in HistoryRec /\ known[rule].successes <= known[rule].attempts

----------------------------------------------------------------------------
(***************************************************************************)
(* Evidence counts for what it says: whatever confidence a recommendation  *)
(* states, saving a success of its rule never lowers its score and saving  *)
(* any other outcome never raises it, wherever the outcome's own           *)
(* confidence falls; praise never lowers it and a complaint never raises   *)
(* it; the score of another rule stays.  And an execution has no more      *)
(* outcomes than calls that looked for one at the same time.               *)
(***************************************************************************)
Evidence ==
    outcomes' # outcomes \/ feedback' # feedback => \A input \in ScoreInputs :
        LET before == Raw(outcomes, feedback, input)
            later == Raw(outcomes', feedback', input)
        IN /\ outcomes' # outcomes /\ outcomes' # <<>> =>
                  LET o == outcomes'[Len(outcomes')]
                  IN /\ o.status = "SUCCESS" \/ o.rule # input.rule => before <= later
                     /\ o.status # "SUCCESS" \/ o.rule # input.rule => later <= before
                     /\ Cardinality({i \in DOMAIN outcomes' : outcomes'[i].execution = o.execution})
                            <= Cardinality(Ingests)
           /\ feedback' # feedback /\ feedback' # <<>> =>
                  LET f == feedback'[Len(feedback')]
                  IN /\ f.rating = 1 \/ f.rule # input.rule => before <= later
                     /\ f.rating = -1 \/ f.rule # input.rule => later <= before
EvidenceCounts == [][Evidence]_learnVars
=============================================================================
