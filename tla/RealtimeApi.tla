----------------------------- MODULE RealtimeApi -----------------------------
(***************************************************************************)
(* From a crawl to those who watch it (apps/api/src: the crawl jobs and    *)
(* the outbox of FakeDb, cancelCrawl and reset of platform.ts, realtime.ts,*)
(* controllers/crawls.ts; crawler/src/orchestrator.ts).  A crawl writes    *)
(* its job's row and puts an event in the outbox; only a health check      *)
(* takes events out, one at a time; the hub pushes them to the streams     *)
(* that are open and keeps the newest of each channel for those to come.   *)
(* Nothing is stored but in memory, and each await is a step.              *)
(***************************************************************************)
EXTENDS Integers, Sequences, FiniteSets, SequencesExt

CONSTANTS
    CrawlCalls,        \* requests that crawl
    HealthChecks,      \* requests of /health or /ready
    PushStreams,       \* requests of /realtime/events
    StreamChannels,    \* the lists of channels a stream may ask for
    PublishChannels,   \* channels others publish on
    HistoryLimit,
    MaxPublished,      \* bound: events others publish
    MaxPlatformResets          \* bound: resets of the platform

ASSUME HistoryLimit \in Nat /\ MaxPublished \in Nat /\ MaxPlatformResets \in Nat

Wildcard == "*"
Channels == PublishChannels \cup {"crawls"}
JobEnded == {"COMPLETED", "FAILED", "CANCELLED"}

VARIABLES
    jobs,         \* jobs[i]: the status of the row of job i
    jobOf,        \* jobOf[c]: [at, job, type] of the crawl of request c; Away before, Answered after it
    events,       \* events[i]: the outbox row evt-i, [job, type, status]
    check,        \* check[h]: [at, id, row]: the row that a health check read, and its id; or Away
    pushes,       \* pushes[ch]: all that was published on a channel
    stream,       \* stream[s]: [open, channels, got], where got is the <<channel, n>> it was written
    resets,
    disturbed     \* whether a reset came while a crawl or a health check was under way

realtimeVars == <<jobs, jobOf, events, check, pushes, stream, resets, disturbed>>

Away == [at |-> "no"]
Answered == [at |-> "over"]

RealtimeTypeOK ==
    /\ \A i \in DOMAIN jobs : jobs[i] \in {"PENDING", "RUNNING"} \cup JobEnded
    /\ \A i \in DOMAIN events : events[i].status \in {"PENDING", "PROCESSING", "DONE"}
    /\ \A c \in CrawlCalls : jobOf[c] \in {Away, Answered} \/ (jobOf[c].at \in {"created", "crawling", "publish", "failing"} /\ jobOf[c].job >= 1)
    /\ \A h \in HealthChecks : check[h] # Away => check[h].at \in {"claim", "push", "mark"} /\ check[h].id >= 1
    /\ DOMAIN pushes = Channels
    /\ resets \in 0 .. MaxPlatformResets

RealtimeInit ==
    /\ jobs = <<>> /\ events = <<>>
    /\ jobOf = [c \in CrawlCalls |-> Away] /\ check = [h \in HealthChecks |-> Away]
    /\ pushes = [ch \in Channels |-> <<>>]
    /\ stream = [s \in PushStreams |-> [open |-> FALSE, channels |-> <<>>, got |-> <<>>]]
    /\ resets = 0 /\ disturbed = FALSE

----------------------------------------------------------------------------
(* Crawls *)

StartCrawl(c) ==
    /\ jobOf[c].at = "no"
    /\ jobs' = Append(jobs, "PENDING")
    /\ jobOf' = [jobOf EXCEPT ![c] = [at |-> "created", job |-> Len(jobs) + 1, type |-> "none"]]
    /\ UNCHANGED <<events, check, pushes, stream, resets, disturbed>>

\* A row that is gone makes the write fail.
Write(c, status, next, otherwise) ==
    LET job == jobOf[c].job
        there == job \in DOMAIN jobs
    IN /\ jobs' = IF there THEN [jobs EXCEPT ![job] = status] ELSE jobs
       /\ jobOf' = [jobOf EXCEPT ![c] = IF there THEN next ELSE otherwise]
       /\ UNCHANGED <<events, check, pushes, stream, resets, disturbed>>

MarkJobRunning(c) ==
    /\ jobOf[c].at = "created"
    /\ Write(c, "RUNNING", [jobOf[c] EXCEPT !.at = "crawling"], [jobOf[c] EXCEPT !.at = "failing"])

\* Whatever the row says by then, CANCELLED too.
CompleteCrawl(c) ==
    /\ jobOf[c].at = "crawling"
    /\ Write(c, "COMPLETED", [jobOf[c] EXCEPT !.at = "publish", !.type = "crawl.completed"], [jobOf[c] EXCEPT !.at = "failing"])

\* Before it is marked, when no seed is valid, or later.
CrawlThrows(c) ==
    /\ jobOf[c].at \in {"created", "crawling"}
    /\ jobOf' = [jobOf EXCEPT ![c].at = "failing"]
    /\ UNCHANGED <<jobs, events, check, pushes, stream, resets, disturbed>>

\* Without a row the request fails and nothing is published.
FailCrawl(c) ==
    /\ jobOf[c].at = "failing"
    /\ Write(c, "FAILED", [jobOf[c] EXCEPT !.at = "publish", !.type = "crawl.failed"], Answered)

PublishCrawl(c) ==
    /\ jobOf[c].at = "publish"
    /\ events' = Append(events, [job |-> jobOf[c].job, by |-> c, type |-> jobOf[c].type, status |-> "PENDING"])
    /\ jobOf' = [jobOf EXCEPT ![c] = Answered]
    /\ UNCHANGED <<jobs, check, pushes, stream, resets, disturbed>>

\* The crawl goes on.
CancelCrawl(i) ==
    /\ i \in DOMAIN jobs /\ jobs[i] \notin JobEnded
    /\ jobs' = [jobs EXCEPT ![i] = "CANCELLED"]
    /\ UNCHANGED <<jobOf, events, check, pushes, stream, resets, disturbed>>

----------------------------------------------------------------------------
(* The hub *)

\* A stream that asks for the channel and for all of them is written the event twice.
Copies(channels, ch) ==
    (IF ch \in ToSet(channels) THEN 1 ELSE 0) + (IF ch # Wildcard /\ Wildcard \in ToSet(channels) THEN 1 ELSE 0)

PublishOn(ch, event) ==
    /\ pushes' = [pushes EXCEPT ![ch] = Append(@, event)]
    /\ stream' = [s \in PushStreams |->
           IF ~stream[s].open THEN stream[s]
           ELSE [stream[s] EXCEPT !.got = @ \o [k \in 1 .. Copies(stream[s].channels, ch) |-> <<ch, Len(pushes[ch]) + 1>>]]]

\* Anyone who may read the dashboard.
PublishByRequest(ch) ==
    /\ Cardinality(UNION {{<<other, i>> : i \in {k \in DOMAIN pushes[other] : pushes[other][k].type = "request"}} :
                             other \in Channels}) < MaxPublished
    /\ PublishOn(ch, [job |-> 0, by |-> 0, type |-> "request"])
    /\ UNCHANGED <<jobs, jobOf, events, check, resets, disturbed>>

\* The newest events, oldest first.
Recent(ch) ==
    LET skipped == IF Len(pushes[ch]) < HistoryLimit THEN 0 ELSE Len(pushes[ch]) - HistoryLimit
    IN [n \in 1 .. Len(pushes[ch]) - skipped |-> <<ch, skipped + n>>]

\* What is kept of each channel asked for, then what comes.
OpenStream(s, channels) ==
    /\ ~stream[s].open /\ stream[s].channels = <<>>
    /\ stream' = [stream EXCEPT ![s] =
           [open |-> TRUE, channels |-> channels,
            got |-> FlattenSeq([k \in DOMAIN channels |-> IF channels[k] \in Channels THEN Recent(channels[k]) ELSE <<>>])]]
    /\ UNCHANGED <<jobs, jobOf, events, check, pushes, resets, disturbed>>

CloseStream(s) ==
    /\ stream[s].open
    /\ stream' = [stream EXCEPT ![s].open = FALSE]
    /\ UNCHANGED <<jobs, jobOf, events, check, pushes, resets, disturbed>>

----------------------------------------------------------------------------
(* Health checks take events out of the outbox *)

Undispatched == {i \in DOMAIN events : events[i].status = "PENDING"}

FindEvent(h) ==
    /\ check[h] = Away /\ Undispatched # {}
    /\ LET first == CHOOSE i \in Undispatched : \A j \in Undispatched : i <= j
       IN check' = [check EXCEPT ![h] = [at |-> "claim", id |-> first, row |-> events[first]]]
    /\ UNCHANGED <<jobs, jobOf, events, pushes, stream, resets, disturbed>>

\* By its id.
ClaimEvent(h) ==
    /\ check[h].at = "claim"
    /\ IF check[h].id \in Undispatched
       THEN /\ events' = [events EXCEPT ![check[h].id].status = "PROCESSING"]
            /\ check' = [check EXCEPT ![h].at = "push"]
       ELSE check' = [check EXCEPT ![h] = Away] /\ UNCHANGED events
    /\ UNCHANGED <<jobs, jobOf, pushes, stream, resets, disturbed>>

\* What was read is pushed.
PushEvent(h) ==
    /\ check[h].at = "push"
    /\ PublishOn("crawls", check[h].row)
    /\ check' = [check EXCEPT ![h].at = "mark"]
    /\ UNCHANGED <<jobs, jobOf, events, resets, disturbed>>

\* A row that is gone makes the health check fail, and nothing else.
MarkPushed(h) ==
    /\ check[h].at = "mark"
    /\ events' = IF check[h].id \in DOMAIN events THEN [events EXCEPT ![check[h].id].status = "DONE"] ELSE events
    /\ check' = [check EXCEPT ![h] = Away]
    /\ UNCHANGED <<jobs, jobOf, pushes, stream, resets, disturbed>>

\* Ids begin again; the hub, its streams, and what is under way are left alone.
ResetPlatform ==
    /\ resets < MaxPlatformResets /\ resets' = resets + 1
    /\ jobs' = <<>> /\ events' = <<>>
    /\ disturbed' = (disturbed \/ (\E c \in CrawlCalls : jobOf[c] \notin {Away, Answered}) \/ \E h \in HealthChecks : check[h] # Away)
    /\ UNCHANGED <<jobOf, check, pushes, stream>>

RealtimeNext ==
    \/ \E c \in CrawlCalls : StartCrawl(c) \/ MarkJobRunning(c) \/ CompleteCrawl(c) \/ CrawlThrows(c) \/ FailCrawl(c) \/ PublishCrawl(c)
    \/ \E i \in DOMAIN jobs : CancelCrawl(i)
    \/ \E ch \in PublishChannels : PublishByRequest(ch)
    \/ \E s \in PushStreams : CloseStream(s) \/ \E channels \in StreamChannels : OpenStream(s, channels)
    \/ \E h \in HealthChecks : FindEvent(h) \/ ClaimEvent(h) \/ PushEvent(h) \/ MarkPushed(h)
    \/ ResetPlatform

RealtimeSpec == RealtimeInit /\ [][RealtimeNext]_realtimeVars

----------------------------------------------------------------------------
(* Properties *)

\* What a stream was written of a channel it asks for once is a part of what was published there, each event once and
\* in its order, without a gap between what was kept and what came (realtime.ts 64-91, 157-165); while it is open,
\* nothing is missing at the end.
StreamsAreWhole ==
    \A s \in PushStreams :
        LET st == stream[s]
        IN \A ch \in ToSet(st.channels) \ {Wildcard} :
             (Wildcard \notin ToSet(st.channels) /\ Cardinality({k \in DOMAIN st.channels : st.channels[k] = ch}) = 1) =>
                LET mine == SelectSeq(st.got, LAMBDA e : e[1] = ch)
                IN /\ \A k \in 1 .. Len(mine) - 1 : mine[k + 1][2] = mine[k][2] + 1
                   /\ st.open /\ pushes[ch] # <<>> =>
                        /\ mine # <<>> /\ Last(mine)[2] = Len(pushes[ch])
                        /\ Len(mine) >= HistoryLimit \/ mine[1][2] = 1

\* A push tells what the job's row says, although it was cancelled meanwhile, and it comes once, however health checks
\* overlap; unless the platform was reset in the middle.
PushesAreTrue ==
    ~disturbed =>
        /\ \A i, j \in DOMAIN pushes["crawls"] :
              LET p == pushes["crawls"][i] q == pushes["crawls"][j] IN p.by = q.by /\ p.by # 0 => i = j
        /\ resets = 0 =>
             /\ \A i \in DOMAIN pushes["crawls"] :
                  LET p == pushes["crawls"][i]
                  IN /\ p.type = "crawl.completed" => jobs[p.job] = "COMPLETED"
                     /\ p.type = "crawl.failed" => jobs[p.job] = "FAILED"
             /\ \A i \in DOMAIN events : events[i].status = "DONE" =>
                  \E k \in DOMAIN pushes["crawls"] : pushes["crawls"][k].by = events[i].by
=============================================================================
