--------------------------- MODULE CrawlScheduler ---------------------------
(***************************************************************************)
(* One crawl (packages/crawler/src): the orchestrator that owns the        *)
(* CrawlJob, the scheduler's pool of workers over the URL queue, the       *)
(* requests of the fetcher and the writes of the crawl store.  A URL is    *)
(* normalised already.  Every write may be rejected, a bounded number of   *)
(* times; a worker that finds nothing sleeps until another one is done.    *)
(***************************************************************************)
EXTENDS Integers, Sequences, FiniteSets, SequencesExt

CONSTANTS
    Urls,            \* URLs of the store
    SeedLists,       \* SeedLists: what crawl may be called with
    PageLinks,       \* PageLinks[u]: the crawlable links of the page at u, in order
    TypePriority,    \* TypePriority[u]: pageTypePriority of its page type
    Disallowed,      \* URLs robots.txt disallows
    Crawlers,        \* workers, as many as the concurrency
    MaxPages,        \* visitedLimit of the queue
    QueueMaxSize,
    MaxDepth,
    MaxRetries,      \* retries of a request
    MaxStoreFaults   \* bound: rejected writes

ASSUME CrawlAssumption ==
    /\ IsFiniteSet(Urls) /\ IsFiniteSet(Crawlers) /\ Crawlers # {}
    /\ SeedLists \subseteq Seq(Urls) /\ Disallowed \subseteq Urls
    /\ PageLinks \in [Urls -> Seq(Urls)] /\ TypePriority \in [Urls -> 0..8]
    /\ {MaxPages, QueueMaxSize, MaxDepth, MaxRetries, MaxStoreFaults} \subseteq Nat

VARIABLES
    crawlPhase,   \* where CrawlOrchestrator.crawl is
    crawlJob,     \* the status of the CrawlJob row
    crawlEvent,   \* the event it published
    urlQueue,     \* the queued records, in the order they are popped
    urlsVisited,  \* urlsVisited[u]: the depth u was popped with, -1 before
    crawler,      \* crawler[w]: where worker w is, with which record
    activeWorkers,
    crawlDone,    \* state.done
    pageRows,     \* URLs with a Page row
    tally,        \* URLs counted as crawled, failed or blocked
    \* history
    errored,      \* URLs whose processing threw
    refused,      \* the queue refused a new URL
    storeFaults

crawlVars == <<crawlPhase, crawlJob, crawlEvent, urlQueue, urlsVisited, crawler, activeWorkers,
               crawlDone, pageRows, tally, errored, refused, storeFaults>>

UrlRecord == [url : Urls, depth : Nat, priority : Nat]
NotQueued == -1

\* "loop" before queue.next(), "asleep" in waitForWake, then the awaits of processPage.
WorkerStops == {"loop", "asleep", "robots", "fetch", "upsert", "detail", "end"}
Resting == [at |-> "loop", record |-> <<>>, outcome |-> "none", requests |-> 0]

CrawlTypeOK ==
    /\ crawlPhase \in {"idle", "marking", "working", "completing", "failing", "over"}
    /\ crawlJob \in {"none", "PENDING", "RUNNING", "COMPLETED", "FAILED"}
    /\ crawlEvent \in {"none", "crawl.completed", "crawl.failed"}
    /\ urlQueue \in Seq(UrlRecord) /\ urlsVisited \in [Urls -> Nat \cup {NotQueued}]
    /\ crawler \in [Crawlers -> [at : WorkerStops, record : UrlRecord \cup {<<>>},
                      outcome : {"none", "page", "failed", "blocked"}, requests : Nat]]
    /\ activeWorkers \in Nat /\ crawlDone \in BOOLEAN /\ pageRows \subseteq Urls
    /\ tally \in [{"page", "failed", "blocked"} -> SUBSET Urls]
    /\ errored \subseteq Urls /\ refused \in BOOLEAN /\ storeFaults \in Nat

CrawlInit ==
    /\ crawlPhase = "idle" /\ crawlJob = "none" /\ crawlEvent = "none"
    /\ urlQueue = <<>> /\ urlsVisited = [u \in Urls |-> NotQueued]
    /\ crawler = [w \in Crawlers |-> Resting]
    /\ activeWorkers = 0 /\ crawlDone = FALSE /\ pageRows = {}
    /\ tally = [k \in {"page", "failed", "blocked"} |-> {}]
    /\ errored = {} /\ refused = FALSE /\ storeFaults = 0

StoreFault == storeFaults < MaxStoreFaults /\ storeFaults' = storeFaults + 1
StoreFine == UNCHANGED storeFaults

----------------------------------------------------------------------------
(* The URL queue: by priority, then in the order of insertion. *)

Visited == {u \in Urls : urlsVisited[u] # NotQueued}
Queued(queue) == {queue[i].url : i \in DOMAIN queue}

\* After those of its priority and less.
InsertByPriority(queue, record) ==
    LET before == {i \in DOMAIN queue : queue[i].priority <= record.priority}
    IN  InsertAt(queue, Cardinality(before) + 1, record)

Known(queue, u) == u \in Queued(queue) \cup Visited
Full(queue) == Cardinality(Visited) + Len(queue) >= MaxPages \/ Len(queue) >= QueueMaxSize

AddUrl(queue, u, depth, seed) ==
    IF Known(queue, u) \/ Full(queue) THEN queue
    ELSE InsertByPriority(queue, [url |-> u, depth |-> depth,
             priority |-> IF seed THEN 0 ELSE depth * 10 + TypePriority[u]])

AddAll(queue, urls, depth, seed) ==
    LET Added[n \in 0 .. Len(urls)] ==
          IF n = 0 THEN queue ELSE AddUrl(Added[n - 1], urls[n], depth, seed)
    IN  Added[Len(urls)]

Refuses(queue, urls) == \E u \in ToSet(urls) : ~Known(queue, u)

----------------------------------------------------------------------------
(* The orchestrator *)

\* createJob, and scheduler.run up to markRunning; it throws without a seed.
StartCrawl ==
    /\ crawlPhase = "idle"
    /\ \E seeds \in SeedLists :
         /\ urlQueue' = AddAll(<<>>, seeds, 0, TRUE)
         /\ refused' = Refuses(urlQueue', seeds)
         /\ crawlPhase' = IF seeds = <<>> THEN "failing" ELSE "marking"
    /\ crawlJob' = "PENDING"
    /\ UNCHANGED <<crawlEvent, urlsVisited, crawler, activeWorkers, crawlDone, pageRows, tally,
                   errored, storeFaults>>

MarkRunning ==
    /\ crawlPhase = "marking"
    /\ \/ crawlPhase' = "working" /\ crawlJob' = "RUNNING" /\ StoreFine
       \/ crawlPhase' = "failing" /\ UNCHANGED crawlJob /\ StoreFault
    /\ UNCHANGED <<crawlEvent, urlQueue, urlsVisited, crawler, activeWorkers, crawlDone, pageRows,
                   tally, errored, refused>>

\* Every worker has returned; finalize writes the issues found across pages.
Finalize ==
    /\ crawlPhase = "working" /\ \A w \in Crawlers : crawler[w].at = "end"
    /\ \/ crawlPhase' = "completing" /\ StoreFine
       \/ crawlPhase' = "failing" /\ StoreFault
    /\ UNCHANGED <<crawlJob, crawlEvent, urlQueue, urlsVisited, crawler, activeWorkers, crawlDone,
                   pageRows, tally, errored, refused>>

\* Publishing is best effort; a job whose completeJob is rejected is failed.
CompleteJob ==
    /\ crawlPhase = "completing"
    /\ \/ /\ crawlJob' = "COMPLETED" /\ crawlPhase' = "over" /\ StoreFine
          /\ crawlEvent' \in {"none", "crawl.completed"}
       \/ crawlPhase' = "failing" /\ UNCHANGED <<crawlJob, crawlEvent>> /\ StoreFault
    /\ UNCHANGED <<urlQueue, urlsVisited, crawler, activeWorkers, crawlDone, pageRows, tally,
                   errored, refused>>

\* A rejected failJob rejects crawl itself: the row keeps its status.
FailJob ==
    /\ crawlPhase = "failing" /\ crawlPhase' = "over"
    /\ \/ /\ crawlJob' = "FAILED" /\ StoreFine
          /\ crawlEvent' \in {"none", "crawl.failed"}
       \/ UNCHANGED <<crawlJob, crawlEvent>> /\ StoreFault
    /\ UNCHANGED <<urlQueue, urlsVisited, crawler, activeWorkers, crawlDone, pageRows, tally,
                   errored, refused>>

----------------------------------------------------------------------------
(* The workers *)

Woken(workers) == [w \in Crawlers |->
    IF workers[w].at = "asleep" THEN [workers[w] EXCEPT !.at = "loop"] ELSE workers[w]]

\* One turn of the loop of worker, up to its next await.
TakeUrl(w) ==
    /\ crawlPhase = "working" /\ crawler[w].at = "loop" /\ ~crawlDone /\ urlQueue # <<>>
    /\ LET record == Head(urlQueue) IN
         /\ urlsVisited' = [urlsVisited EXCEPT ![record.url] = record.depth]
         /\ crawler' = [crawler EXCEPT ![w] = [Resting EXCEPT !.at = "robots", !.record = record]]
    /\ urlQueue' = Tail(urlQueue) /\ activeWorkers' = activeWorkers + 1
    /\ UNCHANGED <<crawlPhase, crawlJob, crawlEvent, crawlDone, pageRows, tally, errored, refused,
                   storeFaults>>

\* Mutant: a worker that sleeps does not count as active.
SleepInactive(w) ==
    /\ crawlPhase = "working" /\ crawler[w].at = "loop" /\ ~crawlDone
    /\ urlQueue = <<>> /\ activeWorkers > 0
    /\ crawler' = [crawler EXCEPT ![w].at = "asleep"] /\ activeWorkers' = activeWorkers - 1
    /\ UNCHANGED <<crawlPhase, crawlJob, crawlEvent, urlQueue, urlsVisited,
                   crawlDone, pageRows, tally, errored, refused, storeFaults>>

Sleep(w) ==
    /\ crawlPhase = "working" /\ crawler[w].at = "loop" /\ ~crawlDone
    /\ urlQueue = <<>> /\ activeWorkers > 0
    /\ crawler' = [crawler EXCEPT ![w].at = "asleep"]
    /\ UNCHANGED <<crawlPhase, crawlJob, crawlEvent, urlQueue, urlsVisited, activeWorkers,
                   crawlDone, pageRows, tally, errored, refused, storeFaults>>

\* Mutant: who is still at work is not looked at.
QueueIsEmpty == urlQueue = <<>>

NothingLeft == activeWorkers = 0 /\ urlQueue = <<>>

Leave(w) ==
    /\ crawlPhase = "working" /\ crawler[w].at = "loop"
    /\ crawlDone \/ NothingLeft
    /\ crawlDone' = TRUE
    /\ crawler' = [IF crawlDone THEN crawler ELSE Woken(crawler) EXCEPT ![w].at = "end"]
    /\ UNCHANGED <<crawlPhase, crawlJob, crawlEvent, urlQueue, urlsVisited, activeWorkers,
                   pageRows, tally, errored, refused, storeFaults>>

\* The finally block of the loop.
PageOver(w) ==
    /\ activeWorkers' = activeWorkers - 1
    /\ crawler' = Woken([crawler EXCEPT ![w] = Resting])

\* Mutant: the worker whose page threw still counts as active.
ThrewUncounted(w) ==
    /\ StoreFault /\ crawler' = Woken([crawler EXCEPT ![w] = Resting])
    /\ errored' = errored \cup {crawler[w].record.url}
    /\ UNCHANGED <<activeWorkers, pageRows, tally, urlQueue, refused>>

Threw(w) ==
    /\ StoreFault /\ PageOver(w)
    /\ errored' = errored \cup {crawler[w].record.url}
    /\ UNCHANGED <<pageRows, tally, urlQueue, refused>>

\* robots.txt, which never rejects, and the wait of the rate limiter.
CheckRobots(w) ==
    /\ crawler[w].at = "robots"
    /\ crawler' = [crawler EXCEPT ![w] =
         IF @.record.url \in Disallowed THEN [@ EXCEPT !.at = "upsert", !.outcome = "blocked"]
         ELSE [@ EXCEPT !.at = "fetch"]]
    /\ UNCHANGED <<crawlPhase, crawlJob, crawlEvent, urlQueue, urlsVisited, activeWorkers,
                   crawlDone, pageRows, tally, errored, refused, storeFaults>>

\* One turn of the loop of Fetcher.fetch: a page, an error status, or an answer
\* that uses up an attempt: a redirect, a retryable status, no answer at all.
Request(w) ==
    /\ crawler[w].at = "fetch"
    /\ \/ \E outcome \in {"page", "failed"} :
            crawler' = [crawler EXCEPT ![w].at = "upsert", ![w].outcome = outcome]
       \/ /\ crawler[w].requests < MaxRetries
          /\ crawler' = [crawler EXCEPT ![w].requests = @ + 1]
    /\ UNCHANGED <<crawlPhase, crawlJob, crawlEvent, urlQueue, urlsVisited, activeWorkers,
                   crawlDone, pageRows, tally, errored, refused, storeFaults>>

Count(w) == tally' = [tally EXCEPT ![crawler[w].outcome] = @ \cup {crawler[w].record.url}]

\* upsertPage; nothing more is written of a page that could not be fetched.
UpsertPage(w) ==
    /\ crawler[w].at = "upsert"
    /\ \/ /\ pageRows' = pageRows \cup {crawler[w].record.url} /\ StoreFine
          /\ IF crawler[w].outcome = "failed" THEN PageOver(w) /\ Count(w)
             ELSE /\ crawler' = [crawler EXCEPT ![w].at = "detail"]
                  /\ UNCHANGED <<activeWorkers, tally>>
          /\ UNCHANGED <<errored, urlQueue, refused>>
       \/ Threw(w)
    /\ UNCHANGED <<crawlPhase, crawlJob, crawlEvent, urlsVisited, crawlDone>>

\* saveLinks, saveStructuredData and saveIssues; then the page is counted and
\* its links are queued, down to the depth limit.
SaveDetail(w) ==
    LET record == crawler[w].record
        links == IF crawler[w].outcome = "page" /\ record.depth < MaxDepth
                   THEN PageLinks[record.url] ELSE <<>>
    IN /\ crawler[w].at = "detail"
       /\ \/ /\ StoreFine /\ PageOver(w) /\ Count(w)
             /\ urlQueue' = AddAll(urlQueue, links, record.depth + 1, FALSE)
             /\ refused' = (refused \/ Refuses(urlQueue', links))
             /\ UNCHANGED <<pageRows, errored>>
          \/ Threw(w)
       /\ UNCHANGED <<crawlPhase, crawlJob, crawlEvent, urlsVisited, crawlDone>>

CrawlerStep(w) ==
    \/ TakeUrl(w) \/ Sleep(w) \/ Leave(w)
    \/ CheckRobots(w) \/ Request(w) \/ UpsertPage(w) \/ SaveDetail(w)

CrawlNext ==
    \/ StartCrawl \/ MarkRunning \/ Finalize \/ CompleteJob \/ FailJob
    \/ \E w \in Crawlers : CrawlerStep(w)

\* Awaited calls settle and a woken worker runs; crawl itself need not be called.
CrawlFairness ==
    WF_crawlVars(MarkRunning \/ Finalize \/ CompleteJob \/ FailJob \/ \E w \in Crawlers : CrawlerStep(w))

CrawlSpec == CrawlInit /\ [][CrawlNext]_crawlVars /\ CrawlFairness

----------------------------------------------------------------------------
(* Properties *)

\* "a bounded worker pool with graceful drain" (scheduler.ts:66): a job is
\* COMPLETED only after everything reachable was processed.  Each URL popped is
\* counted once, with a Page row, unless a write of it was rejected; and each
\* link of a page that was crawled above the depth limit was popped as well,
\* unless the queue was at its limit.
CompletedCrawlIsWhole ==
    crawlJob = "COMPLETED" =>
        /\ Visited = tally["page"] \cup tally["failed"] \cup tally["blocked"] \cup errored
        /\ \A j, k \in DOMAIN tally : j # k => tally[j] \cap tally[k] = {}
        /\ Visited \ errored \subseteq pageRows
        /\ refused \/ \A u \in tally["page"] :
                        urlsVisited[u] < MaxDepth => ToSet(PageLinks[u]) \subseteq Visited

\* A crawl ends, whatever its workers find and whoever sleeps meanwhile.
CrawlEnds == (crawlPhase = "marking") ~> (crawlPhase = "over")
=============================================================================
