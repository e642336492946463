--------------------------- MODULE ExecutionQueue ---------------------------
(***************************************************************************)
(* The execution queue (packages/execution-engine/src/queue): the          *)
(* in-memory store of entries and the pool of worker loops that drains it. *)
(* A "drain" is one call of WorkerPool.run or waitForIdle in progress: it  *)
(* pumps the loops one after the other, each claiming at most one entry.   *)
(* A step is the code between two awaits that last: the worker function    *)
(* and the sleeps.  Time is abstract: a delay ends some time after it      *)
(* began.                                                                  *)
(***************************************************************************)
EXTENDS Integers, FiniteSets

CONSTANTS
    Entries,       \* entry ids, in the order in which they are enqueued
    QueueInput,    \* QueueInput[e]: the priority, limit and delay e is enqueued with
    Priorities,    \* priorities offered to requeueDead
    Drains,        \* calls of run and waitForIdle that can be in progress
    Concurrency,   \* the number of worker loops
    PolicyMax,     \* maxAttempts of the retry policy
    MaxQueueOps,   \* bound: calls of cancel, requeueDead, purge and stop
    NoEntry

Settled == {"SUCCEEDED", "CANCELLED", "DEAD"}
EntryStatuses == Settled \cup {"QUEUED", "CLAIMED"}

EntryRec == [status : EntryStatuses, priority : Nat, maxAttempts : Nat,
             attempts : Nat, delayed : BOOLEAN]
DrainRec == [kind : {"none", "background", "waiter"},
             pc : {"check", "pump", "work", "backoff", "sleep"},
             loop : Nat, on : Entries \cup {NoEntry}, worked : BOOLEAN]

ASSUME QueueAssumption ==
    /\ Entries \subseteq Nat
    /\ QueueInput \in [Entries -> [priority : Nat, maxAttempts : Nat, delayed : BOOLEAN]]
    /\ Priorities \subseteq Nat
    /\ NoEntry \notin Entries \cup EntryRec
    /\ {Concurrency, PolicyMax, MaxQueueOps} \subseteq Nat

VARIABLES
    entry,              \* the store's entries: a record, or NoEntry
    enqueued,           \* ids used so far; the store forgets what it purges
    cancelledInFlight,  \* the entries cancelled while they were claimed
    poolRunning,
    drain,              \* drain[d]: the call d
    calls,              \* history: worker calls for an entry since it was last put at zero attempts
    queueOps            \* bounded count

queueVars == <<entry, enqueued, cancelledInFlight, poolRunning, drain, calls, queueOps>>

Idle == [kind |-> "none", pc |-> "check", loop |-> 1, on |-> NoEntry, worked |-> FALSE]

QueueTypeOK ==
    /\ entry \in [Entries -> EntryRec \cup {NoEntry}]
    /\ enqueued \subseteq Entries /\ cancelledInFlight \subseteq Entries
    /\ poolRunning \in BOOLEAN
    /\ drain \in [Drains -> DrainRec]
    /\ calls \in [Entries -> Nat] /\ queueOps \in Nat

QueueInit ==
    /\ entry = [e \in Entries |-> NoEntry]
    /\ enqueued = {} /\ cancelledInFlight = {}
    /\ poolRunning = FALSE
    /\ drain = [d \in Drains |-> Idle]
    /\ calls = [e \in Entries |-> 0] /\ queueOps = 0

Has(e) == entry[e] # NoEntry
WithStatus(statuses) == {e \in Entries : Has(e) /\ entry[e].status \in statuses}
ActiveWork == WithStatus({"QUEUED", "CLAIMED"})

----------------------------------------------------------------------------
(* The store's operations *)

Enqueue(e) ==
    /\ e \notin enqueued /\ \A other \in Entries \ enqueued : e <= other
    /\ enqueued' = enqueued \cup {e}
    /\ entry' = [entry EXCEPT ![e] =
                   [status |-> "QUEUED", priority |-> QueueInput[e].priority,
                    maxAttempts |-> QueueInput[e].maxAttempts, attempts |-> 0,
                    delayed |-> QueueInput[e].delayed]]
    /\ UNCHANGED <<cancelledInFlight, poolRunning, drain, calls, queueOps>>

CountedOp == queueOps < MaxQueueOps /\ queueOps' = queueOps + 1

\* cancelAll is this for every active entry, one after the other.
CancelEntry(e) ==
    /\ e \in ActiveWork /\ CountedOp
    /\ IF entry[e].status = "CLAIMED"
         THEN cancelledInFlight' = cancelledInFlight \cup {e} /\ entry' = entry
         ELSE /\ entry' = [entry EXCEPT ![e].status = "CANCELLED"]
              /\ cancelledInFlight' = cancelledInFlight \ {e}
    /\ UNCHANGED <<enqueued, poolRunning, drain, calls>>

RequeueDead(e, priority) ==
    /\ e \in WithStatus({"DEAD"}) /\ CountedOp
    /\ entry' = [entry EXCEPT ![e] = [@ EXCEPT !.status = "QUEUED", !.attempts = 0,
                                               !.priority = priority, !.delayed = FALSE]]
    /\ calls' = [calls EXCEPT ![e] = 0]
    /\ UNCHANGED <<enqueued, cancelledInFlight, poolRunning, drain>>

Purge ==
    /\ CountedOp
    /\ entry' = [e \in Entries |-> NoEntry] /\ cancelledInFlight' = {}
    /\ UNCHANGED <<enqueued, poolRunning, drain, calls>>

\* A delay or a backoff is over.
BecomeAvailable(e) ==
    /\ Has(e) /\ entry[e].delayed
    /\ entry' = [entry EXCEPT ![e].delayed = FALSE]
    /\ UNCHANGED <<enqueued, cancelledInFlight, poolRunning, drain, calls, queueOps>>

Claimable == {e \in WithStatus({"QUEUED"}) : ~entry[e].delayed}

\* By priority, then by age.
Best == CHOOSE e \in Claimable : \A other \in Claimable :
            \/ entry[e].priority < entry[other].priority
            \/ entry[e].priority = entry[other].priority /\ e <= other

CompleteEntry(e) ==
    /\ entry' = IF Has(e) /\ entry[e].status # "CANCELLED"
                  THEN [entry EXCEPT ![e].status = "SUCCEEDED"] ELSE entry
    /\ cancelledInFlight' = cancelledInFlight \ {e}

FailEntry(e) ==
    /\ entry' = IF ~Has(e) THEN entry
                ELSE IF entry[e].attempts + 1 >= entry[e].maxAttempts
                THEN [entry EXCEPT ![e].status = "DEAD", ![e].attempts = @ + 1]
                ELSE [entry EXCEPT ![e] = [@ EXCEPT !.status = "QUEUED", !.delayed = TRUE,
                                                    !.attempts = entry[e].attempts + 1]]
    /\ UNCHANGED cancelledInFlight

DeadEntry(e) ==
    /\ entry' = IF Has(e) THEN [entry EXCEPT ![e].status = "DEAD"] ELSE entry
    /\ cancelledInFlight' = cancelledInFlight \ {e}

----------------------------------------------------------------------------
(* The pool *)

StartPool(d) ==
    /\ ~poolRunning /\ drain[d].kind = "none"
    /\ poolRunning' = TRUE
    /\ drain' = [drain EXCEPT ![d] = [Idle EXCEPT !.kind = "background"]]
    /\ UNCHANGED <<entry, enqueued, cancelledInFlight, calls, queueOps>>

StopPool ==
    /\ poolRunning /\ CountedOp
    /\ poolRunning' = FALSE
    /\ UNCHANGED <<entry, enqueued, cancelledInFlight, drain, calls>>

WaitForIdle(d) ==
    /\ poolRunning /\ drain[d].kind = "none"
    /\ drain' = [drain EXCEPT ![d] = [Idle EXCEPT !.kind = "waiter"]]
    /\ UNCHANGED <<entry, enqueued, cancelledInFlight, poolRunning, calls, queueOps>>

\* The loops' condition: the pool runs, or there is active work.
GoesOn(d) == IF drain[d].kind = "background" THEN poolRunning ELSE ActiveWork # {}

CheckLoop(d) ==
    /\ drain[d].kind # "none" /\ drain[d].pc = "check"
    /\ drain' = [drain EXCEPT ![d] = IF GoesOn(d) THEN [@ EXCEPT !.pc = "pump"] ELSE Idle]
    /\ UNCHANGED <<entry, enqueued, cancelledInFlight, poolRunning, calls, queueOps>>

\* Mutant: claim hands the entry out without marking it.
ClaimUnmarked(d) ==
    /\ drain[d].pc = "pump" /\ drain[d].loop <= Concurrency
    /\ poolRunning /\ Claimable # {}
    /\ calls' = [calls EXCEPT ![Best] = @ + 1]
    /\ drain' = [drain EXCEPT ![d] = [@ EXCEPT !.pc = "work", !.on = Best]]
    /\ UNCHANGED <<entry, enqueued, cancelledInFlight, poolRunning, queueOps>>

Claim(d) ==
    /\ drain[d].pc = "pump" /\ drain[d].loop <= Concurrency
    /\ poolRunning /\ Claimable # {}
    /\ entry' = [entry EXCEPT ![Best].status = "CLAIMED"]
    /\ calls' = [calls EXCEPT ![Best] = @ + 1]
    /\ drain' = [drain EXCEPT ![d] = [@ EXCEPT !.pc = "work", !.on = Best]]
    /\ UNCHANGED <<enqueued, cancelledInFlight, poolRunning, queueOps>>

\* The remaining loops find nothing to claim, or have been stopped.
PumpEnds(d) ==
    /\ drain[d].pc = "pump"
    /\ drain[d].loop > Concurrency \/ ~poolRunning \/ Claimable = {}
    /\ drain' = [drain EXCEPT ![d] =
                   [Idle EXCEPT !.kind = drain[d].kind,
                                !.pc = IF drain[d].kind = "waiter" /\ drain[d].worked
                                         THEN "check" ELSE "sleep"]]
    /\ UNCHANGED <<entry, enqueued, cancelledInFlight, poolRunning, calls, queueOps>>

NextLoop(d) == [drain EXCEPT ![d] = [kind |-> drain[d].kind, pc |-> "pump",
                                     loop |-> drain[d].loop + 1, on |-> NoEntry, worked |-> TRUE]]

\* handleSuccess: cancel does nothing more to an entry that is still claimed.
WorkSucceeds(d) ==
    /\ drain[d].pc = "work"
    /\ LET e == drain[d].on IN
         IF e \in cancelledInFlight THEN UNCHANGED <<entry, cancelledInFlight>>
                                    ELSE CompleteEntry(e)
    /\ drain' = NextLoop(d)
    /\ UNCHANGED <<enqueued, poolRunning, calls, queueOps>>

Exhausted(n) == n >= PolicyMax

\* The attempts of the entry the loop holds: after a purge, which leaves it in
\* the loop's hands, any number.
HeldAttempts(e) == IF Has(e) THEN {entry[e].attempts} ELSE 0..PolicyMax

WorkFails(d) ==
    /\ drain[d].pc = "work"
    /\ LET e == drain[d].on IN
         \E attempts \in HeldAttempts(e) :
            IF Exhausted(attempts + 1)
              THEN DeadEntry(e) /\ drain' = NextLoop(d)
              ELSE FailEntry(e) /\ drain' = [drain EXCEPT ![d].pc = "backoff"]
    /\ UNCHANGED <<enqueued, poolRunning, calls, queueOps>>

WakeUp(d) ==
    /\ \/ drain[d].pc = "backoff" /\ drain' = NextLoop(d)
       \/ drain[d].pc = "sleep" /\ drain' = [drain EXCEPT ![d].pc = "check"]
    /\ UNCHANGED <<entry, enqueued, cancelledInFlight, poolRunning, calls, queueOps>>

Drain(d) == CheckLoop(d) \/ Claim(d) \/ PumpEnds(d) \/ WorkSucceeds(d) \/ WorkFails(d) \/ WakeUp(d)

QueueNext ==
    \/ \E e \in Entries : Enqueue(e) \/ CancelEntry(e) \/ BecomeAvailable(e)
    \/ \E e \in Entries, priority \in Priorities : RequeueDead(e, priority)
    \/ Purge \/ StopPool
    \/ \E d \in Drains : StartPool(d) \/ WaitForIdle(d) \/ Drain(d)

\* Time goes on, worker calls return.  Nobody has to call anything.
QueueFairness ==
    /\ WF_queueVars(\E e \in Entries : BecomeAvailable(e))
    /\ \A d \in Drains : WF_queueVars(Drain(d))

QueueSpec == QueueInit /\ [][QueueNext]_queueVars /\ QueueFairness

----------------------------------------------------------------------------
(* Properties *)

\* At most one drain works on an entry at a time, although a pool that is
\* stopped and started again, or waited for, is pumped by several: the claim
\* of queue-store.ts, and no other path that puts an entry back while it is
\* in a worker's hands.
OneWorkerEach ==
    \A d1, d2 \in Drains :
        drain[d1].pc = "work" /\ drain[d2].pc = "work" /\ drain[d1].on = drain[d2].on => d1 = d2

\* Between two requeues an entry is worked on no more often than the smaller
\* of its own limit and the retry policy's allows, whatever path its failures
\* take (dead does not count an attempt, fail does).
AttemptsWithinLimits ==
    \A e \in WithStatus(EntryStatuses) :
        /\ calls[e] <= PolicyMax \/ calls[e] <= 1
        /\ calls[e] <= entry[e].maxAttempts \/ calls[e] <= 1

\* A running pool works off its entries, delayed and failing ones included,
\* but for those cancelled while they were claimed: hasActiveWork, and so
\* waitForIdle, waits for all of them.
EntriesSettle ==
    ActiveWork # {} ~> (ActiveWork \subseteq cancelledInFlight \/ ~poolRunning)

\* The two together: what the claims of queue-store.ts promise whoever pumps the pool.
ClaimsAreKept == OneWorkerEach /\ AttemptsWithinLimits
=============================================================================
