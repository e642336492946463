------------------------- MODULE ObservedExecutions -------------------------
(***************************************************************************)
(* The projection of execution events that the observability service       *)
(* (packages/observability/src) builds, as a handler of OutboxEventBus.    *)
(* The outbox holds the events of one execution; the first subscriber is   *)
(* EventBusConsumer, whose handler is ObservabilityService.handle: find    *)
(* the record, then write it.  A backoff reorders events, a failing later  *)
(* subscriber has an event handled again.  Only event types that publish   *)
(* accepts can come this way.                                              *)
(***************************************************************************)
EXTENDS OutboxEventBus

CONSTANTS
    Lifecycles,    \* sequences of event types an execution may emit
    NotRead        \* no find in progress

ExecutionStatuses == {"QUEUED", "EXECUTING", "COMPLETED", "FAILED", "CANCELLED", "ROLLED_BACK"}
RecordStatuses == ExecutionStatuses \cup {"none"}

STATUS_RANK == [s \in ExecutionStatuses |->
                  CASE s = "QUEUED" -> 0
                    [] s = "EXECUTING" -> 1
                    [] s \in {"COMPLETED", "FAILED", "CANCELLED"} -> 2
                    [] s = "ROLLED_BACK" -> 3]

\* The status applyEvent moves to for a type.
StatusOf == [type \in {"execution.queued", "execution.started", "execution.completed",
                       "execution.failed", "execution.cancelled"} |->
               CASE type = "execution.queued" -> "QUEUED"
                 [] type = "execution.started" -> "EXECUTING"
                 [] type = "execution.completed" -> "COMPLETED"
                 [] type = "execution.failed" -> "FAILED"
                 [] type = "execution.cancelled" -> "CANCELLED"]

ASSUME ProjectionAssumption ==
    /\ Lifecycles \subseteq Seq(DOMAIN StatusOf)
    /\ \A l \in Lifecycles : DOMAIN l \subseteq Events
    /\ (\A e \in Events : Subscribers[e] > 0) /\ NotRead \notin RecordStatuses

VARIABLES
    lifecycle,   \* the types of the execution's events
    record,      \* the status of the stored ExecutionRecord
    lookup,      \* lookup[p]: what the handler running in p has read
    reported     \* whether recordReport has been called

obsVars == <<busVars, lifecycle, record, lookup, reported>>

ObsTypeOK ==
    /\ lifecycle \in Lifecycles /\ record \in RecordStatuses
    /\ lookup \in [Pollers -> RecordStatuses \cup {NotRead}]
    /\ reported \in BOOLEAN

ObsInit ==
    /\ BusInit
    /\ lifecycle \in Lifecycles
    /\ record = "none" /\ lookup = [p \in Pollers |-> NotRead] /\ reported = FALSE

Emitted == DOMAIN lifecycle
FinalStatus == StatusOf[lifecycle[Len(lifecycle)]]
Observes(p) == poller[p].pc = "handle" /\ poller[p].handler = 1

\* appendEvent, and the first lookup of applyEvent.
FindExecution(p) ==
    /\ Observes(p) /\ lookup[p] = NotRead
    /\ lookup' = [lookup EXCEPT ![p] = record]
    /\ UNCHANGED <<busVars, lifecycle, record, reported>>

\* Mutant: what is stored once is kept.
NextStatusKept(was, type) == IF was # "none" THEN record ELSE StatusOf[type]

\* applyQueued and transition: what is stored after the lookup read this.
NextStatus(was, type) ==
    IF was # "none" /\ STATUS_RANK[StatusOf[type]] <= STATUS_RANK[was] THEN record
                                                                       ELSE StatusOf[type]

HandleExecutionEvent(p) ==
    /\ Observes(p) /\ lookup[p] # NotRead
    /\ HandlerSucceeds(p)
    /\ record' = NextStatus(lookup[p], lifecycle[Row(p).id])
    /\ lookup' = [lookup EXCEPT ![p] = NotRead]
    /\ UNCHANGED <<lifecycle, reported>>

\* The store or the alert service rejects, before or after the write.
HandleFails(p) ==
    /\ Observes(p)
    /\ HandlerFails(p)
    /\ \/ record' = record
       \/ lookup[p] # NotRead /\ record' = NextStatus(lookup[p], lifecycle[Row(p).id])
    /\ lookup' = [lookup EXCEPT ![p] = NotRead]
    /\ UNCHANGED <<lifecycle, reported>>

\* A caller hands over the report of the finished execution.
RecordReport ==
    /\ ~reported /\ \A e \in Emitted : ~HasStatus(e, "none")
    /\ reported' = TRUE /\ record' = FinalStatus
    /\ UNCHANGED <<busVars, lifecycle, lookup>>

\* The steps of the bus that are not the observer's; a crash ends its call.
BusStep ==
    /\ \/ \E e \in Emitted : PublishEvent(e) \/ BecomesDue(e)
       \/ \E p \in Pollers :
            \/ FindDue(p) \/ ClaimRows(p) \/ MarkDone(p) \/ MarkFailed(p) \/ DatabaseFault(p)
            \/ ~Observes(p) /\ (HandlerSucceeds(p) \/ HandlerFails(p))
    /\ UNCHANGED <<lifecycle, record, lookup, reported>>

ObsCrash == BusCrash /\ lookup' = [p \in Pollers |-> NotRead]
                     /\ UNCHANGED <<lifecycle, record, reported>>

ObsNext ==
    \/ BusStep \/ ObsCrash \/ RecordReport
    \/ \E p \in Pollers : FindExecution(p) \/ HandleExecutionEvent(p) \/ HandleFails(p)

ObsSpec == ObsInit /\ [][ObsNext]_obsVars

----------------------------------------------------------------------------
(* Properties *)

\* "Never regresses: terminal states are sticky ... duplicate deliveries are
\* no-ops" (observability-service.ts:346): when calls of processNext do not
\* overlap and every event was delivered, in whatever order and however often,
\* the record has the status the execution ended with, also if the report was
\* stored between a handler's lookup and its write.
ProjectionConverges ==
    (Cardinality(Pollers) = 1 /\ \A e \in Emitted : HasStatus(e, "DONE")) => record = FinalStatus
=============================================================================
