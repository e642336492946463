----------------------------- MODULE CronSearch -----------------------------
(***************************************************************************)
(* Cron expressions (packages/scheduler/src/cron.ts): what a parsed one    *)
(* holds, and the search of nextAfter for its next fire time, one pass of  *)
(* the loop a step.  Days are numbered, Calendar has the date of each, and *)
(* clocks never change.  A field is a sequence of elements, the first to   *)
(* the last value in steps; a wildcard is the element of all values.       *)
(* Expressions parseCron rejects are left out.                             *)
(***************************************************************************)
EXTENDS Integers, Sequences, SequencesExt

CONSTANTS
    Expressions,    \* [second, minute, hour, dom, month, dow]; second is <<>> when it has five fields
    Calendar,       \* Calendar[d]: [year, month, date] of day d
    LastHour, LastMinute, LastSecond, WeekDays,    \* 23, 59, 59 and 7
    SearchYears,    \* CRON_MAX_SEARCH_YEARS
    Afters,         \* what nextAfter is asked for
    NoDate          \* null

Instants == [day : DOMAIN Calendar, hour : 0 .. LastHour, minute : 0 .. LastMinute, second : 0 .. LastSecond]

ASSUME CalendarAssumption ==
    /\ {LastHour, LastMinute, LastSecond, SearchYears} \subseteq Nat /\ WeekDays \in Nat \ {0}
    /\ Calendar \in Seq([year : Nat, month : Nat, date : Nat]) /\ Afters \subseteq Instants
    /\ \A d \in DOMAIN Calendar : d > 1 =>
          /\ Calendar[d - 1].year <= Calendar[d].year
          /\ Calendar[d].date # 1 => Calendar[d].month = Calendar[d - 1].month
    /\ \A t \in Afters : \E d \in DOMAIN Calendar : Calendar[d].year > Calendar[t.day].year + SearchYears
    /\ NoDate \notin Instants

VARIABLES
    cron,         \* the CronExpression
    after,
    candidate,
    fireTime      \* what the search returned; empty before

cronVars == <<cron, after, candidate, fireTime>>

----------------------------------------------------------------------------
(* Parsing *)

Values(field) ==
    UNION {{v \in element.first .. element.last : (v - element.first) % element.step = 0} :
              element \in ToSet(field)}

IsWildcard(field) == \E element \in ToSet(field) : element.wildcard

ParseCron(e) ==
    [seconds |-> Values(e.second), minutes |-> Values(e.minute), hours |-> Values(e.hour),
     daysOfMonth |-> Values(e.dom), months |-> Values(e.month),
     daysOfWeek |-> {v % WeekDays : v \in Values(e.dow)},
     domWildcard |-> IsWildcard(e.dom), dowWildcard |-> IsWildcard(e.dow)]

\* parseField rejects a value that is out of range.
ASSUME ExpressionsAssumption ==
    \A e \in Expressions :
        /\ Values(e.second) \subseteq 0 .. LastSecond
        /\ Values(e.minute) \subseteq 0 .. LastMinute /\ Values(e.hour) \subseteq 0 .. LastHour

----------------------------------------------------------------------------
(* The search *)

Instant(d, h, m, s) == [day |-> d, hour |-> h, minute |-> m, second |-> s]
Earlier(s, t) ==
    \/ s.day < t.day
    \/ s.day = t.day /\ \/ s.hour < t.hour
                        \/ s.hour = t.hour /\ \/ s.minute < t.minute
                                              \/ s.minute = t.minute /\ s.second < t.second

NextMinute(t) ==
    IF t.minute < LastMinute THEN Instant(t.day, t.hour, t.minute + 1, 0)
    ELSE IF t.hour < LastHour THEN Instant(t.day, t.hour + 1, 0, 0)
    ELSE Instant(t.day + 1, 0, 0, 0)
NextSecond(t) == IF t.second < LastSecond THEN [t EXCEPT !.second = @ + 1] ELSE NextMinute(t)

CronInit ==
    /\ cron \in {ParseCron(e) : e \in Expressions} /\ after \in Afters
    /\ candidate = IF cron.seconds = {} THEN NextMinute(after) ELSE NextSecond(after)
    /\ fireTime = {}

Date == Calendar[candidate.day]
InHorizon(d) == Calendar[d].year <= Calendar[after.day].year + SearchYears
MonthMatches(d) == Calendar[d].month \in cron.months

MatchesDomDow(d) ==
    LET dom == Calendar[d].date \in cron.daysOfMonth
        dow == d % WeekDays \in cron.daysOfWeek
    IN  CASE cron.domWildcard /\ cron.dowWildcard -> TRUE
          [] ~cron.domWildcard /\ ~cron.dowWildcard -> dom \/ dow
          [] OTHER -> IF cron.domWildcard THEN dow ELSE dom

\* firstMatch, as the set of that value; empty when there is none.
FirstMatch(values, from) ==
    {v \in values : v >= from /\ \A w \in values : w >= from => v <= w}

SearchOn(t) == candidate' = t /\ UNCHANGED <<cron, after, fireTime>>
Return(times) == fireTime' = times /\ UNCHANGED <<cron, after, candidate>>
Searching == fireTime = {}

GiveUp == Searching /\ ~InHorizon(candidate.day) /\ Return({NoDate})

SkipMonth ==
    /\ Searching /\ InHorizon(candidate.day) /\ ~MonthMatches(candidate.day)
    /\ \E d \in DOMAIN Calendar :
          /\ d > candidate.day /\ Calendar[d].date = 1
          /\ \A e \in candidate.day + 1 .. d - 1 : Calendar[e].date # 1
          /\ SearchOn(Instant(d, 0, 0, 0))

OnMonth == Searching /\ InHorizon(candidate.day) /\ MonthMatches(candidate.day)

SkipDay ==
    /\ OnMonth /\ ~MatchesDomDow(candidate.day)
    /\ SearchOn(Instant(candidate.day + 1, 0, 0, 0))

OnDay == OnMonth /\ MatchesDomDow(candidate.day)

\* Mutant: the minutes are not set back.
SkipHourOnly ==
    /\ OnDay /\ candidate.hour \notin cron.hours
    /\ LET hours == FirstMatch(cron.hours, candidate.hour + 1)
       IN  \/ hours = {} /\ SearchOn(Instant(candidate.day + 1, 0, 0, 0))
           \/ \E h \in hours : SearchOn([candidate EXCEPT !.hour = h])

SkipHour ==
    /\ OnDay /\ candidate.hour \notin cron.hours
    /\ LET hours == FirstMatch(cron.hours, candidate.hour + 1)
       IN  \/ hours = {} /\ SearchOn(Instant(candidate.day + 1, 0, 0, 0))
           \/ \E h \in hours : SearchOn(Instant(candidate.day, h, 0, 0))

OnHour == OnDay /\ candidate.hour \in cron.hours

\* new Date carries the hour after the last one over to the next day.
SkipMinute ==
    /\ OnHour /\ candidate.minute \notin cron.minutes
    /\ LET minutes == FirstMatch(cron.minutes, candidate.minute + 1)
       IN  \/ minutes = {} /\ SearchOn(NextMinute([candidate EXCEPT !.minute = LastMinute]))
           \/ \E m \in minutes : SearchOn(Instant(candidate.day, candidate.hour, m, 0))

Find ==
    /\ OnHour /\ candidate.minute \in cron.minutes
    /\ LET seconds == FirstMatch(cron.seconds, candidate.second)
       IN  \/ cron.seconds = {} /\ Return({[candidate EXCEPT !.second = 0]})
           \/ cron.seconds # {} /\ seconds = {} /\ SearchOn(NextMinute(candidate))
           \/ seconds # {} /\ Return({[candidate EXCEPT !.second = s] : s \in seconds})

CronNext == GiveUp \/ SkipMonth \/ SkipDay \/ SkipHour \/ SkipMinute \/ Find

CronSpec == CronInit /\ [][CronNext]_cronVars

----------------------------------------------------------------------------
(* Properties *)

CronTypeOK ==
    /\ after \in Afters /\ candidate \in Instants
    /\ fireTime \subseteq Instants \cup {NoDate}

\* What the head of the file says an expression matches: "when both are
\* restricted the date matches if either matches; when only one is restricted
\* that one is authoritative" (cron.ts:9).
Fires(t) ==
    LET dom == Calendar[t.day].date \in cron.daysOfMonth
        dow == t.day % WeekDays \in cron.daysOfWeek
    IN  /\ t.hour \in cron.hours /\ t.minute \in cron.minutes
        /\ MonthMatches(t.day) /\ InHorizon(t.day)
        /\ t.second \in (IF cron.seconds = {} THEN {0} ELSE cron.seconds)
        /\ cron.domWildcard \/ dom \/ (~cron.dowWildcard /\ dow)
        /\ cron.dowWildcard \/ dow \/ (~cron.domWildcard /\ dom)

\* "Returns the next fire time strictly after `after`, or `null` when no
\* occurrence exists within the search horizon" (cron.ts:165): the leaps over
\* months, days, hours and minutes overtake no instant that matches.
NextAfterIsNext ==
    \A u \in fireTime :
        /\ u # NoDate => Fires(u) /\ Earlier(after, u)
        /\ \A t \in Instants : Earlier(after, t) /\ Fires(t) => u # NoDate /\ ~Earlier(t, u)
=============================================================================
