--------------------------- MODULE OutboxEventBus ---------------------------
(***************************************************************************)
(* The transactional outbox (packages/events/src/event-bus.ts): publish    *)
(* stores a row, processNext reads the due rows, claims them with one      *)
(* conditional update, and runs every handler of each.  Calls of           *)
(* processNext overlap: the API calls it, and so does its health check.    *)
(* A step is the code from one awaited database or handler call to the     *)
(* next.  Time is abstract: a backoff ends some time after it began.       *)
(***************************************************************************)
EXTENDS Integers, Sequences, FiniteSets, SequencesExt, FiniteSetsExt

CONSTANTS
    Events,        \* event ids, in the order of createdAt
    Pollers,       \* calls of processNext that can be in progress
    Subscribers,   \* Subscribers[e]: the number of handlers of e's type
    BatchSize,     \* batchSize
    MaxAttempts,   \* maxAttempts
    MaxBusFaults   \* bound: rejected database calls and crashes

EventStatuses == {"none", "PENDING", "PROCESSING", "DONE", "FAILED"}
Ended == {"DONE", "FAILED"}

EventRec == [status : EventStatuses, attempts : Nat, delayed : BOOLEAN]
RowRec == [id : Events, attempts : Nat]
PollerRec == [pc : {"idle", "claim", "handle", "fail"}, batch : Seq(RowRec), handler : Nat]

ASSUME BusAssumption ==
    /\ Events \subseteq Nat
    /\ Subscribers \in [Events -> Nat]
    /\ {BatchSize, MaxAttempts, MaxBusFaults} \subseteq Nat

VARIABLES
    outbox,       \* the table: outbox[e], "none" before publish
    poller,       \* poller[p]: the rows it read and has still to dispatch
    handled,      \* history: the <<event, handler>> pairs that succeeded
    interrupted,  \* history: a call of processNext was cut off after its claim
    busFaults

busVars == <<outbox, poller, handled, interrupted, busFaults>>

NotPolling == [pc |-> "idle", batch |-> <<>>, handler |-> 1]

BusTypeOK ==
    /\ outbox \in [Events -> EventRec]
    /\ poller \in [Pollers -> PollerRec]
    /\ interrupted \in BOOLEAN
    /\ handled \subseteq Events \X Nat
    /\ busFaults \in 0..MaxBusFaults

BusInit ==
    /\ outbox = [e \in Events |-> [status |-> "none", attempts |-> 0, delayed |-> FALSE]]
    /\ poller = [p \in Pollers |-> NotPolling]
    /\ handled = {} /\ interrupted = FALSE /\ busFaults = 0

Row(p) == Head(poller[p].batch)
HasStatus(e, status) == outbox[e].status = status

\* PublishMany is this for each of its events.
PublishEvent(e) ==
    /\ HasStatus(e, "none") /\ \A earlier \in Events : earlier < e => ~HasStatus(earlier, "none")
    /\ outbox' = [outbox EXCEPT ![e].status = "PENDING"]
    /\ UNCHANGED <<poller, handled, interrupted, busFaults>>

BecomesDue(e) ==
    /\ outbox[e].delayed
    /\ outbox' = [outbox EXCEPT ![e].delayed = FALSE]
    /\ UNCHANGED <<poller, handled, interrupted, busFaults>>

Due == {e \in Events : HasStatus(e, "PENDING") /\ ~outbox[e].delayed}

\* The oldest of es in their order, at most a batch of them: the one sequence in which
\* the events before an entry are those of es that are older.
Oldest(es) ==
    LET n == IF Cardinality(es) < BatchSize THEN Cardinality(es) ELSE BatchSize
    IN  {first \in [1..n -> es] :
            \A i \in 1..n : \A e \in es : e < first[i] <=> \E j \in 1..(i - 1) : first[j] = e}

FindDue(p) ==
    /\ poller[p].pc = "idle" /\ Due # {}
    /\ \E first \in Oldest(Due) :
         poller' = [poller EXCEPT ![p] =
                      [pc |-> "claim", handler |-> 1,
                       batch |-> [i \in DOMAIN first |->
                                    [id |-> first[i], attempts |-> outbox[first[i]].attempts]]]]
    /\ UNCHANGED <<outbox, handled, interrupted, busFaults>>

\* The update counts the rows it changed; all the rows read are dispatched.
ClaimRows(p) ==
    /\ poller[p].pc = "claim"
    /\ LET claimed == {e \in Events : /\ HasStatus(e, "PENDING")
                                      /\ \E i \in DOMAIN poller[p].batch : poller[p].batch[i].id = e}
       IN /\ outbox' = [e \in Events |-> IF e \in claimed
                                           THEN [outbox[e] EXCEPT !.status = "PROCESSING"]
                                           ELSE outbox[e]]
          /\ poller' = [poller EXCEPT ![p] = IF claimed = {} THEN NotPolling
                                                             ELSE [@ EXCEPT !.pc = "handle"]]
    /\ UNCHANGED <<handled, interrupted, busFaults>>

HandlerSucceeds(p) ==
    /\ poller[p].pc = "handle" /\ poller[p].handler <= Subscribers[Row(p).id]
    /\ handled' = handled \cup {<<Row(p).id, poller[p].handler>>}
    /\ poller' = [poller EXCEPT ![p].handler = @ + 1]
    /\ UNCHANGED <<outbox, interrupted, busFaults>>

\* Mutant: an error of a handler is swallowed and the next one runs.
HandlerFailsQuietly(p) ==
    /\ poller[p].pc = "handle" /\ poller[p].handler <= Subscribers[Row(p).id]
    /\ poller' = [poller EXCEPT ![p].handler = @ + 1]
    /\ UNCHANGED <<outbox, handled, interrupted, busFaults>>

HandlerFails(p) ==
    /\ poller[p].pc = "handle" /\ poller[p].handler <= Subscribers[Row(p).id]
    /\ poller' = [poller EXCEPT ![p].pc = "fail"]
    /\ UNCHANGED <<outbox, handled, interrupted, busFaults>>

NextRow(p) == [poller EXCEPT ![p] =
                 IF Len(@.batch) = 1 THEN NotPolling
                 ELSE [pc |-> "handle", batch |-> Tail(@.batch), handler |-> 1]]

MarkDone(p) ==
    /\ poller[p].pc = "handle" /\ poller[p].handler > Subscribers[Row(p).id]
    /\ outbox' = [outbox EXCEPT ![Row(p).id].status = "DONE"]
    /\ poller' = NextRow(p)
    /\ UNCHANGED <<handled, interrupted, busFaults>>

AfterFailure(row, old) ==
    IF row.attempts + 1 >= MaxAttempts
      THEN [old EXCEPT !.status = "FAILED", !.attempts = row.attempts + 1]
      ELSE [status |-> "PENDING", attempts |-> row.attempts + 1, delayed |-> TRUE]

MarkFailed(p) ==
    /\ poller[p].pc = "fail"
    /\ outbox' = [outbox EXCEPT ![Row(p).id] = AfterFailure(Row(p), @)]
    /\ poller' = NextRow(p)
    /\ UNCHANGED <<handled, interrupted, busFaults>>

\* markDone is inside the try block: when it is rejected, the event counts as
\* failed.  A claim that is rejected ends the call, and so does markFailed,
\* which leaves the rest of the batch as it is.
DatabaseFault(p) ==
    /\ busFaults < MaxBusFaults /\ busFaults' = busFaults + 1
    /\ \/ /\ poller[p].pc = "handle" /\ poller[p].handler > Subscribers[Row(p).id]
          /\ poller' = [poller EXCEPT ![p].pc = "fail"] /\ interrupted' = interrupted
       \/ /\ poller[p].pc \in {"claim", "fail"}
          /\ poller' = [poller EXCEPT ![p] = NotPolling]
          /\ interrupted' = (interrupted \/ poller[p].pc = "fail")
    /\ UNCHANGED <<outbox, handled>>

\* The process dies: its calls are gone, the table stays.
BusCrash ==
    /\ busFaults < MaxBusFaults /\ busFaults' = busFaults + 1
    /\ poller' = [p \in Pollers |-> NotPolling]
    /\ interrupted' = (interrupted \/ \E p \in Pollers : poller[p].pc \in {"handle", "fail"})
    /\ UNCHANGED <<outbox, handled>>

Dispatch(p) == ClaimRows(p) \/ HandlerSucceeds(p) \/ HandlerFails(p) \/ MarkDone(p) \/ MarkFailed(p)

BusNext ==
    \/ \E e \in Events : PublishEvent(e) \/ BecomesDue(e)
    \/ \E p \in Pollers : FindDue(p) \/ Dispatch(p) \/ DatabaseFault(p)
    \/ BusCrash

\* Time goes on, awaited calls return, and somebody goes on calling processNext.
BusFairness ==
    /\ WF_busVars(\E e \in Events : BecomesDue(e))
    /\ WF_busVars(\E p \in Pollers : FindDue(p) \/ Dispatch(p))

BusSpec == BusInit /\ [][BusNext]_busVars /\ BusFairness

----------------------------------------------------------------------------
(* Properties *)

\* "at-least-once delivery" (event-bus.ts:34): an event that counts as
\* delivered has been handled by every subscriber, also when two pollers work
\* on it with different outcomes and write their results over each other.
DoneWasHandled ==
    \A e \in Events : HasStatus(e, "DONE") => \A h \in 1..Subscribers[e] : <<e, h>> \in handled

\* Pending events are delivered or given up, whatever the order in which
\* overlapping pollers write their results, and although a late failure opens
\* a delivered event again; unless a call is cut off after its claim.
EventsEnd ==
    (\E e \in Events : HasStatus(e, "PENDING"))
        ~> ((\A e \in Events : outbox[e].status \in Ended \cup {"none"}) \/ interrupted)
=============================================================================
