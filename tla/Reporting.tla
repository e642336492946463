------------------------------ MODULE Reporting ------------------------------
(***************************************************************************)
(* What a report is made of (packages/reports/src: aggregation.ts, kpis.ts,*)
(* templates.ts, utils.ts, csv.ts, pdf-renderer.ts).  Days are numbers, a  *)
(* period is [first, last]; every row has a day, and at tells the order of *)
(* rows within the log.  Percentages, averages and scores are in           *)
(* hundredths.  data holds sequences as the sources list them: executions  *)
(* [id, day, at, status, operation], snapshots [day, at, score], alerts    *)
(* [day, at, severity, type], changes [day, at, kind, execution], search   *)
(* [day, clicks, impressions, position], traffic [day, sessions]; the rate *)
(* the learning engine found, or NoValue; and how many plans and           *)
(* recommendations the decisions have.                                     *)
(***************************************************************************)
EXTENDS Integers, Sequences, FiniteSets, SequencesExt

CONSTANTS NoValue,
          PageHeight, PageMargin   \* of the PDF

InPeriod(row, period) == row.day \in period.first .. period.last
Within(rows, period) == SelectSeq(rows, LAMBDA row : InPeriod(row, period))
DaysIn(period) == period.last - period.first + 1

\* The last days of those that end with one, or an explicit range.
PeriodFor(options, today) ==
    LET last == IF options.last = NoValue THEN today ELSE options.last
    IN [first |-> IF options.first # NoValue THEN options.first
                  ELSE last - ((IF options.days < 1 THEN 1 ELSE options.days) - 1),
        last |-> last]

PreviousPeriod(period) == [first |-> period.first - DaysIn(period), last |-> period.first - 1]

SumBy(rows, Value(_)) == FoldLeft(LAMBDA sum, row : sum + Value(row), 0, rows)
Count(rows, Test(_)) == Len(SelectSeq(rows, Test))
Hundredths(part, whole) == IF whole = 0 THEN NoValue ELSE (2 * 100 * part + whole) \div (2 * whole)

----------------------------------------------------------------------------
(* Summaries *)

\* The two last scores of the period.
SeoSummary(snapshots, period) ==
    LET sorted == SortSeq(Within(snapshots, period), LAMBDA a, b : a.at < b.at)
        n == Len(sorted)
        latest == IF n = 0 THEN NoValue ELSE sorted[n].score
        previous == IF n < 2 THEN NoValue ELSE sorted[n - 1].score
    IN [latest |-> latest, previous |-> previous, snapshots |-> n,
        delta |-> IF NoValue \in {latest, previous} THEN NoValue ELSE latest - previous]

Terminal == {"COMPLETED", "FAILED", "CANCELLED", "ROLLED_BACK"}

\* No rate when nothing completed, though the KPI says 0.
ExecutionSummary(executions, changes, period) ==
    LET rows == Within(executions, period)
        byStatus == [s \in Terminal |-> Count(rows, LAMBDA r : r.status = s)]
        terminal == Count(rows, LAMBDA r : r.status \in Terminal)
    IN [total |-> Len(rows), byStatus |-> byStatus,
        successRate |-> IF byStatus["COMPLETED"] = 0 THEN NoValue
                        ELSE Hundredths(100 * byStatus["COMPLETED"], terminal),
        applied |-> Count(Within(changes, period), LAMBDA c : c.kind = "apply"),
        reverted |-> Count(Within(changes, period), LAMBDA c : c.kind = "revert")]

\* Of each operation; an execution that has not ended is an attempt.
RulePerformance(executions) ==
    LET counted == SelectSeq(executions, LAMBDA r : r.status # "CANCELLED")
    IN [rule \in {counted[i].operation : i \in DOMAIN counted} |->
           LET rows == SelectSeq(counted, LAMBDA r : r.operation = rule)
           IN [attempts |-> Len(rows)]
                @@ [s \in Terminal \ {"CANCELLED"} |-> Count(rows, LAMBDA r : r.status = s)]]

AggregateAlerts(alerts, period) ==
    LET items == Within(alerts, period)
    IN [total |-> Len(items), items |-> items,
        bySeverity |-> [s \in {"critical", "warning", "info"} |-> Count(items, LAMBDA a : a.severity = s)],
        byType |-> [t \in {items[i].type : i \in DOMAIN items} |-> Count(items, LAMBDA a : a.type = t)]]

----------------------------------------------------------------------------
(* Trends: a series has a value for each day with a row *)

DaysOf(rows) == {rows[i].day : i \in DOMAIN rows}
RowsOfDay(rows, day) == SelectSeq(rows, LAMBDA row : row.day = day)

DailySums(points, period) ==
    LET within == Within(points, period)
    IN [day \in DaysOf(within) |-> SumBy(RowsOfDay(within, day), LAMBDA p : p.value)]

\* Of the row that is listed last; the store lists the newest first.
LastPerDay(snapshots, period) ==
    LET within == Within(snapshots, period) IN [day \in DaysOf(within) |-> Last(RowsOfDay(within, day)).score]

WeightedPerDay(points, period) ==
    LET within == Within(points, period)
    IN [day \in DaysOf(within) |->
           LET weight == SumBy(RowsOfDay(within, day), LAMBDA p : p.weight)
           IN IF weight = 0 THEN 0
              ELSE Hundredths(SumBy(RowsOfDay(within, day), LAMBDA p : p.value), weight)]

SeriesKeys == <<"seo_score", "clicks", "impressions", "ctr", "position", "sessions", "executions", "alerts">>

\* A series without points is left out.
TrendSeries(data, period) ==
    LET Daily(rows, Value(_)) ==
            DailySums([i \in DOMAIN rows |-> [day |-> rows[i].day, value |-> Value(rows[i])]], period)
        Weighted(Value(_)) ==
            WeightedPerDay([i \in DOMAIN data.search |->
                               [day |-> data.search[i].day, value |-> Value(data.search[i]),
                                weight |-> data.search[i].impressions]], period)
        ended == SelectSeq(data.executions, LAMBDA r : r.status \in {"COMPLETED", "FAILED"})
        points == [key \in ToSet(SeriesKeys) |->
            CASE key = "seo_score" -> LastPerDay(data.snapshots, period)
              [] key = "clicks" -> Daily(data.search, LAMBDA r : r.clicks)
              [] key = "impressions" -> Daily(data.search, LAMBDA r : r.impressions)
              [] key = "ctr" -> Weighted(LAMBDA r : r.clicks)
              [] key = "position" -> Weighted(LAMBDA r : r.position * r.impressions)
              [] key = "sessions" -> Daily(data.traffic, LAMBDA r : r.sessions)
              [] key = "executions" -> Daily(ended, LAMBDA r : 1)
              [] key = "alerts" -> Daily(data.alerts, LAMBDA r : 1)]
    IN [key \in {k \in ToSet(SeriesKeys) : DOMAIN points[k] # {}} |-> points[key]]

----------------------------------------------------------------------------
(* KPIs *)

KpiKeys == <<"seo_score", "clicks", "impressions", "ctr", "position", "sessions", "success_rate", "rollback_rate",
             "alerts", "learning_success_rate">>
HigherIsBetter(key) == key \notin {"position", "rollback_rate", "alerts"}

KpiValue(key, data, period) ==
    LET search == Within(data.search, period)
        executions == Within(data.executions, period)
        terminal == Count(executions, LAMBDA r : r.status \in Terminal)
        impressions == SumBy(search, LAMBDA r : r.impressions)
        Ended(status) == Hundredths(100 * Count(executions, LAMBDA r : r.status = status), terminal)
    IN CASE key = "seo_score" -> SeoSummary(data.snapshots, period).latest
         [] key = "clicks" -> SumBy(search, LAMBDA r : r.clicks)
         [] key = "impressions" -> impressions
         [] key = "ctr" -> Hundredths(100 * SumBy(search, LAMBDA r : r.clicks), impressions)
         [] key = "position" -> Hundredths(SumBy(search, LAMBDA r : r.position * r.impressions), impressions)
         [] key = "sessions" -> SumBy(Within(data.traffic, period), LAMBDA r : r.sessions)
         [] key = "success_rate" -> Ended("COMPLETED")
         [] key = "rollback_rate" -> Ended("ROLLED_BACK")
         [] key = "alerts" -> Len(Within(data.alerts, period))
         [] key = "learning_success_rate" -> data.learned

HasDataFor(key, data, period) ==
    LET Some(rows) == Within(rows, period) # <<>>
    IN CASE key = "seo_score" -> Some(data.snapshots)
         [] key \in {"clicks", "impressions", "ctr", "position"} -> Some(data.search)
         [] key = "sessions" -> Some(data.traffic)
         [] key \in {"success_rate", "rollback_rate"} -> Some(data.executions)
         [] key = "alerts" -> Some(data.alerts)
         [] key = "learning_success_rate" -> data.learned # NoValue

PreviousValue(key, data, previous) ==
    IF previous = NoValue THEN NoValue
    ELSE IF ~HasDataFor(key, data, previous) THEN NoValue ELSE KpiValue(key, data, previous)

KpiStatus(key, change) ==
    CASE change = NoValue -> "no-data"
      [] change = 0 -> "neutral"
      [] OTHER -> IF (change > 0) = HigherIsBetter(key) THEN "improved" ELSE "declined"

\* All of them, or those asked for; unknown keys are dropped.
AggregateKpis(data, period, previous, keys) ==
    LET chosen == IF keys = <<>> THEN KpiKeys ELSE SelectSeq(keys, LAMBDA k : k \in ToSet(KpiKeys))
    IN [i \in DOMAIN chosen |->
           LET value == KpiValue(chosen[i], data, period)
               before == PreviousValue(chosen[i], data, previous)
               change == IF NoValue \in {value, before} THEN NoValue ELSE value - before
           IN [key |-> chosen[i], value |-> value, before |-> before, change |-> change,
               status |-> KpiStatus(chosen[i], change)]]

----------------------------------------------------------------------------
(* Sections: how many metrics, rows, lines and points each has *)

Section(kind, metrics, rows, body, points) ==
    [kind |-> kind, metrics |-> metrics, rows |-> rows, body |-> body, points |-> points]
AtMost(n, limit) == IF n > limit THEN limit ELSE n

SummarySection == Section("summary", 6, 0, 3, 0)
\* Users and page views are as sessions, and are left out above.
KpiSection == Section("kpis", Len(KpiKeys) + 2, 0, 1, 0)
SeoSection == Section("seo", 5, 0, 0, 0)
AlertsSection(alerts) == Section("alerts", 4, 0, 1 + AtMost(alerts.total, 10), 0)
ExecutionSection(data) ==
    IF data.plans > 0 THEN Section("execution", 10, data.plans, 1, 0)
    ELSE Section("execution", 10, Cardinality(DOMAIN RulePerformance(Within(data.executions, data.period))), 0, 0)
LearningSection(data) == Section("learning", 6, AtMost(data.rules, 10), AtMost(data.rules, 5), 0)
OpportunitiesSection(data) ==
    LET n == AtMost(data.recommendations, 5) IN Section("opportunities", 0, n, IF n = 0 THEN 1 ELSE n, 0)

\* In the order of SeriesKeys.
TrendsSections(trends, selected) ==
    LET chosen == SelectSeq(SeriesKeys, LAMBDA key : key \in selected \cap DOMAIN trends)
    IN IF chosen = <<>> THEN <<Section("trends", 0, 0, 1, 0)>>
       ELSE [i \in DOMAIN chosen |-> Section("trends", 0, 0, 0, Cardinality(DOMAIN trends[chosen[i]]))]

BuildSections(kind, data, trends, alerts) ==
    CASE kind = "executive-dashboard" ->
           <<SummarySection, KpiSection, AlertsSection(alerts), ExecutionSection(data), LearningSection(data)>>
             \o TrendsSections(trends, {"seo_score", "clicks", "impressions", "position"})
             \o <<OpportunitiesSection(data)>>
      [] kind = "seo" -> <<SummarySection, SeoSection>>
             \o TrendsSections(trends, {"seo_score", "clicks", "impressions", "ctr", "position"})
      [] kind = "kpi" -> <<SummarySection, KpiSection, LearningSection(data)>>
      [] kind = "trends" -> <<SummarySection>> \o TrendsSections(trends, ToSet(SeriesKeys))
      [] kind = "alerts" -> <<SummarySection, AlertsSection(alerts), ExecutionSection(data)>>

----------------------------------------------------------------------------
(* Renderings *)

\* The CSV shows one of the parts of a section.
CsvPart(section) ==
    CASE section.points > 0 -> "points"
      [] section.points = 0 /\ section.rows > 0 -> "rows"
      [] section.points = 0 /\ section.rows = 0 /\ section.metrics > 0 -> "metrics"
      [] OTHER -> "body"

\* n items of the PDF, the space each needs, and how far the next one is.
Items(n, space, advance) == [n |-> n, space |-> space, advance |-> advance]
Lines(n, height) == Items(n, height, height)

ItemsOf(section) ==
    SelectSeq(<<Lines(1, 16), Lines(section.metrics, 12), Items(AtMost(section.points, 1), 128, 116),
                Lines(IF section.rows = 0 THEN 0 ELSE section.rows + 1, 14), Lines(section.body, 12)>>,
              LAMBDA items : items.n > 0)
PdfItems(sections) ==
    <<Lines(1, 24), Lines(2, 13), Items(1, 6, 8)>> \o FlattenSeq([i \in DOMAIN sections |-> ItemsOf(sections[i])])

\* Where the last of some items is drawn that begin at [page, y]: on a new page when the rest of one is too short.
PageBottom == PageHeight - PageMargin
PlaceLast(at, items) ==
    LET here == IF at.y > PageBottom THEN 0 ELSE (PageBottom - at.y) \div items.space
        later == items.n - here - 1
        perPage == (PageBottom - PageMargin) \div items.space
    IN IF later < 0 THEN [page |-> at.page, y |-> at.y + (items.n - 1) * items.advance]
       ELSE [page |-> at.page + 1 + later \div perPage, y |-> PageMargin + (later % perPage) * items.advance]

PdfLayout(sections) ==
    LET items == PdfItems(sections)
        place[i \in 0 .. Len(items)] ==
            IF i = 0 THEN [page |-> 1, y |-> PageMargin, space |-> 0, next |-> PageMargin]
            ELSE LET before == place[i - 1]
                     last == PlaceLast([page |-> before.page, y |-> before.next], items[i])
                 IN last @@ [space |-> items[i].space, next |-> last.y + items[i].advance]
    IN place
=============================================================================
