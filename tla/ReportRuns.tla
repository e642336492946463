----------------------------- MODULE ReportRuns -----------------------------
(***************************************************************************)
(* Reports while what they are about goes on (packages/reports/src:        *)
(* engine.ts, sources.ts, scheduler.ts, service.ts, and KpiTracker of      *)
(* kpis.ts).  The store's history is a log of entries; each await of a     *)
(* source is a step that reads the log as far as it has come.  Callers     *)
(* generate reports, or run the scheduled ones that are due.               *)
(***************************************************************************)
EXTENDS Reporting

CONSTANTS
    ReportCallers,
    ReportHistories,        \* [log, definitions, late, calls]: a log of [kind, row], the definitions there are and
                      \* those that may be added, and the calls there may be (bound)
    ReportRequests,   \* [kind, period, compare, previous, keys, track]: period as given to PeriodFor, previous a period or NoValue
    External,         \* what the other sources answer: [learned, rules, plans, recommendations, search, traffic]
    MinutesPerHour,
    LastReportTime,      \* bound: the clock
    Idle

ASSUME LastReportTime \in Nat

VARIABLES
    history,          \* the one of ReportHistories that happens
    happened,         \* how many of its entries are in the store
    clock,            \* minutes since the beginning of day 1
    schedule,         \* the definitions of the scheduler, [id, kind, minutes, hours, enabled, lastRun]
    reporting,        \* reporting[c]: the call, [request, due, now, read], or Idle
    finished,         \* the report the last step finished, or Idle
    tracked,          \* the KPI records: [at, kpis]
    calls,            \* calls so far
    reportRuns,       \* which definition was run for which minute, in that order: [id, minute]
    overlapped        \* whether two calls ran scheduled reports at once

reportVars == <<history, happened, clock, schedule, reporting, finished, tracked, calls, reportRuns, overlapped>>

Day(t) == t \div (2 * MinutesPerHour) + 1
Today == Day(clock)

\* Executions are updated in place; the newest entry is listed first.
ListOf(kind, upto) ==
    LET entries == {i \in 1 .. upto : history.log[i].kind = kind}
        current == {i \in entries : ~\E j \in entries : j > i /\ kind = "executions" /\ history.log[j].row.id = history.log[i].row.id}
    IN LET sorted == SetToSortSeq(current, LAMBDA i, j : i > j)
       IN [k \in DOMAIN sorted |-> history.log[sorted[k]].row @@ [at |-> sorted[k]]]

\* Mutant: the changes are read first.
ChangesFirst == <<"changes", "snapshots", "alerts", "executions">>
ReadOrder == <<"executions", "snapshots", "alerts", "changes">>

\* Search and traffic are asked for from the previous period's first day to the period's last.
SourceData(read, period, previous) ==
    LET fetched == [first |-> IF previous = NoValue THEN period.first ELSE previous.first, last |-> period.last]
    IN [search |-> Within(External.search, fetched), traffic |-> Within(External.traffic, fetched)]
       @@ External @@ [kind \in ToSet(ReadOrder) |->
                    ListOf(kind, read[CHOOSE i \in DOMAIN ReadOrder : ReadOrder[i] = kind])] @@ [period |-> period]

\* A previous period of the request counts before compare, whatever its days are.
ReportOf(request, read) ==
    LET period == request.period
        previous == IF request.previous # NoValue THEN request.previous
                    ELSE IF request.compare THEN PreviousPeriod(period) ELSE NoValue
        data == SourceData(read, period, previous)
        trends == TrendSeries(data, period)
        alerts == AggregateAlerts(data.alerts, period)
    IN [kind |-> request.kind, data |-> data, period |-> period, previous |-> previous, trends |-> trends,
        alerts |-> alerts, kpis |-> AggregateKpis(data, period, previous, request.keys),
        sections |-> BuildSections(request.kind, data, trends, alerts)]

Scheduled(definition) == definition @@ [lastRun |-> NoValue]
ReportCall(request, due) == [request |-> request, due |-> due, now |-> clock, read |-> <<>>]
KpiRecord(kpis) == [at |-> clock, kpis |-> kpis]

ReportTypeOK ==
    /\ happened \in 0 .. Len(history.log) /\ clock \in 0 .. LastReportTime
    /\ \A c \in ReportCallers : reporting[c] # Idle =>
           Len(reporting[c].read) <= Len(ReadOrder) /\ \A i \in DOMAIN reporting[c].read : reporting[c].read[i] <= happened
    /\ \A i, j \in DOMAIN schedule : schedule[i].id = schedule[j].id => i = j

----------------------------------------------------------------------------
(* The store, the clock *)

\* Bound: nothing happens after the last report.
MoreReports == calls < history.calls \/ \E c \in ReportCallers : reporting[c] # Idle

Happen ==
    /\ MoreReports /\ happened < Len(history.log) /\ happened' = happened + 1
    /\ finished' = Idle /\ UNCHANGED <<history, clock, schedule, reporting, tracked, calls, reportRuns, overlapped>>

Tick ==
    /\ MoreReports /\ clock < LastReportTime /\ clock' = clock + 1
    /\ finished' = Idle /\ UNCHANGED <<history, happened, schedule, reporting, tracked, calls, reportRuns, overlapped>>

----------------------------------------------------------------------------
(* The scheduler *)

\* A definition of an id there is already is refused.  Bound: what has run, or is to, is not added again.
AddDefinition ==
    /\ MoreReports
    /\ \E d \in history.late :
         /\ \A i \in DOMAIN schedule : schedule[i].id # d.id
         /\ \A i \in DOMAIN reportRuns : reportRuns[i].id # d.id
         /\ \A c \in ReportCallers : reporting[c] # Idle =>
                \A i \in DOMAIN reporting[c].due : reporting[c].due[i].id # d.id
         /\ schedule' = Append(schedule, Scheduled(d))
    /\ finished' = Idle /\ UNCHANGED <<history, happened, clock, reporting, tracked, calls, reportRuns, overlapped>>

RemoveDefinition ==
    /\ MoreReports
    /\ \E i \in DOMAIN schedule : schedule' = RemoveAt(schedule, i)
    /\ finished' = Idle /\ UNCHANGED <<history, happened, clock, reporting, tracked, calls, reportRuns, overlapped>>

\* Day, month and weekday of the expression are ignored.
IsDue(d, now) ==
    /\ d.enabled
    /\ now % MinutesPerHour \in d.minutes /\ now \div MinutesPerHour % 2 \in d.hours
    /\ d.lastRun # now

RunScheduled(c) ==
    /\ reporting[c] = Idle /\ calls < history.calls
    /\ LET due == SelectSeq(schedule, LAMBDA d : IsDue(d, clock))
       IN reporting' = [reporting EXCEPT ![c] =
              IF due = <<>> THEN Idle
              ELSE ReportCall(Idle, [i \in DOMAIN due |-> due[i]])]
    /\ overlapped' = (overlapped \/ \E other \in ReportCallers : reporting[other] # Idle /\ reporting[other].due # <<>>)
    /\ calls' = calls + 1
    /\ finished' = Idle /\ UNCHANGED <<history, happened, clock, schedule, tracked, reportRuns>>

\* The thirty days that end with the run's, uncompared and untracked.
RequestOf(call) ==
    IF call.due = <<>> THEN call.request
    ELSE [kind |-> Head(call.due).kind, compare |-> FALSE, previous |-> NoValue, keys |-> <<>>, track |-> FALSE,
          period |-> PeriodFor([first |-> NoValue, last |-> Day(call.now), days |-> 30], Day(call.now))]

\* A removed definition still gets its lastRun, but nobody has it any more.
Bump(id, now) ==
    [i \in DOMAIN schedule |-> IF schedule[i].id = id THEN [schedule[i] EXCEPT !.lastRun = now] ELSE schedule[i]]

----------------------------------------------------------------------------
(* Generating a report *)

\* An empty period is refused.
Generate(c) ==
    /\ reporting[c] = Idle /\ calls < history.calls
    /\ \E request \in ReportRequests :
         LET period == PeriodFor(request.period, Today)
         IN reporting' = [reporting EXCEPT ![c] =
                IF DaysIn(period) < 1 THEN Idle
                ELSE ReportCall([request EXCEPT !.period = period], <<>>)]
    /\ calls' = calls + 1
    /\ finished' = Idle /\ UNCHANGED <<history, happened, clock, schedule, tracked, reportRuns, overlapped>>

ReadSource(c) ==
    /\ reporting[c] # Idle /\ Len(reporting[c].read) < Len(ReadOrder)
    /\ reporting' = [reporting EXCEPT ![c].read = Append(@, happened)]
    /\ finished' = Idle /\ UNCHANGED <<history, happened, clock, schedule, tracked, calls, reportRuns, overlapped>>

\* The handler of the service delivers what it generated; then comes the next definition that is due.
FinishReport(c) ==
    /\ reporting[c] # Idle /\ Len(reporting[c].read) = Len(ReadOrder)
    /\ LET call == reporting[c]
           request == RequestOf(call)
           report == ReportOf(request, call.read)
           scheduled == call.due # <<>>
       IN /\ finished' = report
          /\ tracked' = IF request.track THEN Append(tracked, KpiRecord(report.kpis)) ELSE tracked
          /\ schedule' = IF scheduled THEN Bump(Head(call.due).id, call.now) ELSE schedule
          /\ reportRuns' = IF scheduled THEN Append(reportRuns, [id |-> Head(call.due).id, minute |-> call.now]) ELSE reportRuns
          /\ reporting' = [reporting EXCEPT ![c] =
                 IF scheduled /\ Len(call.due) > 1 THEN [call EXCEPT !.due = Tail(@), !.read = <<>>] ELSE Idle]
    /\ UNCHANGED <<history, happened, clock, calls, overlapped>>

\* A source or the delivery rejects: the definitions after it are not run by this call.
FailReport(c) ==
    /\ reporting[c] # Idle /\ reporting[c].read # <<>>
    /\ reporting' = [reporting EXCEPT ![c] = Idle]
    /\ finished' = Idle /\ UNCHANGED <<history, happened, clock, schedule, tracked, calls, reportRuns, overlapped>>

----------------------------------------------------------------------------

\* The newest record; of two at one time the earlier.
LatestKpis == IF tracked = <<>> THEN NoValue
              ELSE tracked[CHOOSE i \in DOMAIN tracked : \A j \in DOMAIN tracked :
                              \/ tracked[j].at < tracked[i].at
                              \/ tracked[j].at = tracked[i].at /\ i <= j]

ReportsInit ==
    /\ history \in ReportHistories
    /\ schedule = [i \in DOMAIN history.definitions |-> Scheduled(history.definitions[i])]
    /\ happened = 0 /\ clock = 0 /\ calls = 0
    /\ reporting = [c \in ReportCallers |-> Idle]
    /\ finished = Idle
    /\ tracked = <<>> /\ reportRuns = <<>> /\ overlapped = FALSE

ReportsNext ==
    \/ Happen \/ Tick \/ AddDefinition \/ RemoveDefinition
    \/ \E c \in ReportCallers : RunScheduled(c) \/ Generate(c) \/ ReadSource(c) \/ FinishReport(c) \/ FailReport(c)

----------------------------------------------------------------------------
(* Properties *)

\* The parts of one report say the same: each count of the KPIs is the sum of the daily values, the alerts by
\* severity and by type add up, rates stay within a whole.  What is compared with the period before is of two periods
\* without a common day, both fetched whole; a previous period the caller names may overlap the period, and cut it.
Agrees(report) ==
    LET Sum(key) == IF key \in DOMAIN report.trends THEN FoldFunction(+, 0, report.trends[key]) ELSE 0
        Kpi(key) == KpiValue(key, report.data, report.period)
        summary == ExecutionSummary(report.data.executions, report.data.changes, report.period)
        layout == PdfLayout(report.sections)
        past == IF report.previous = NoValue THEN {} ELSE report.previous.first .. report.previous.last
        Derived == report.previous \in {NoValue, PreviousPeriod(report.period)}
    IN /\ \A key \in {"clicks", "impressions", "sessions", "alerts"} : Kpi(key) = Sum(key)
       /\ report.alerts.total = Kpi("alerts")
       /\ \A counts \in {report.alerts.bySeverity, report.alerts.byType} :
             FoldFunction(+, 0, counts) = report.alerts.total
       /\ FoldFunction(+, 0, summary.byStatus) <= summary.total
       /\ NoValue \notin {Kpi("success_rate"), Kpi("rollback_rate")} => Kpi("success_rate") + Kpi("rollback_rate") <= 10001
       /\ summary.successRate # NoValue => summary.successRate = Kpi("success_rate")
       /\ Derived =>
             /\ past \cap (report.period.first .. report.period.last) = {}
             /\ \A span \in {report.period, report.previous} \ {NoValue}, rows \in {"search", "traffic"} :
                   Within(report.data[rows], span) = Within(External[rows], span)
       /\ \A i \in DOMAIN report.kpis :
             LET kpi == report.kpis[i]
             IN /\ kpi.before # NoValue => \/ kpi.key = "learning_success_rate"
                                           \/ \E rows \in {report.data[k] : k \in ToSet(ReadOrder) \cup {"search", "traffic"}} :
                                                 DaysOf(rows) \cap past # {}
                /\ (kpi.status = "no-data") = (NoValue \in {kpi.value, kpi.before})
       /\ \A i \in DOMAIN layout :
             /\ layout[i].y + layout[i].space <= PageHeight - PageMargin
             /\ i > 0 => \/ layout[i].page = layout[i - 1].page /\ layout[i].y >= layout[i - 1].next
                         \/ layout[i].page > layout[i - 1].page /\ layout[i].y >= PageMargin

\* A report agrees with itself although its sources change while it is made: whatever an execution it counts had
\* changed when it ended is in the report as well, as executions are read before changes (sources.ts 136-206).
\* Unless two calls overlap, a scheduled report is made once for a minute (scheduler.ts 62-66: "has not already run
\* in the same minute").
ReportsAgree ==
    /\ finished # Idle =>
          /\ Agrees(finished)
          /\ \A i \in DOMAIN finished.data.executions :
                LET e == finished.data.executions[i]
                IN e.status \in {"COMPLETED", "ROLLED_BACK"} =>
                     \A k \in 1 .. e.at : (history.log[k].kind = "changes" /\ history.log[k].row.execution = e.id) =>
                         \E j \in DOMAIN finished.data.changes : finished.data.changes[j].at = k
    /\ ~overlapped => \A i, j \in DOMAIN reportRuns : reportRuns[i] = reportRuns[j] => i = j
    /\ LatestKpis # NoValue => \A i \in DOMAIN tracked : tracked[i].at <= LatestKpis.at
=============================================================================
