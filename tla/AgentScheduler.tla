--------------------------- MODULE AgentScheduler ---------------------------
(***************************************************************************)
(* The priority scheduler of the AI orchestrator                           *)
(* (packages/ai-orchestrator/src/scheduler/scheduler.ts).  enqueue inserts *)
(* an item and calls drain, which returns at once when maxConcurrency      *)
(* drains are running; a drain takes items until the queue is empty, and   *)
(* the last one wakes the callers of idle.  A step is the code from one    *)
(* await to the next: the rate limiter's wait, and the work itself.        *)
(***************************************************************************)
EXTENDS Integers, FiniteSets

CONSTANTS
    Items,           \* work items, numbered in the order of their sequence
    ItemPriority,    \* ItemPriority[i]
    DrainSlots,      \* 1..maxConcurrency: the drains that may run
    IdleCallers,     \* callers of idle
    NoItem

ASSUME AgentSchedulerAssumption ==
    /\ Items \subseteq Nat /\ ItemPriority \in [Items -> Int] /\ NoItem \notin Items

VARIABLES
    sequence,     \* items enqueued so far
    itemQueue,    \* the heap, as the set of what it holds
    slot,         \* slot[d]: where drain d awaits, and its item
    aborted,      \* items whose signal is aborted
    settled,      \* items whose promise is settled
    idleCaller    \* idleCaller[c]: "no", "waiting" or "woken"

agentVars == <<sequence, itemQueue, slot, aborted, settled, idleCaller>>

SlotRec == [pc : {"off", "acquire", "work"}, item : Items \cup {NoItem}]
Off == [pc |-> "off", item |-> NoItem]
Acquiring == [pc |-> "acquire", item |-> NoItem]

AgentTypeOK ==
    /\ sequence \subseteq Items /\ itemQueue \subseteq Items
    /\ slot \in [DrainSlots -> SlotRec]
    /\ aborted \subseteq Items /\ settled \subseteq Items
    /\ idleCaller \in [IdleCallers -> {"no", "waiting", "woken"}]

AgentInit ==
    /\ sequence = {} /\ itemQueue = {}
    /\ slot = [d \in DrainSlots |-> Off]
    /\ aborted = {} /\ settled = {}
    /\ idleCaller = [c \in IdleCallers |-> "no"]

Before(a, b) == ItemPriority[a] < ItemPriority[b] \/ (ItemPriority[a] = ItemPriority[b] /\ a < b)
First == CHOOSE i \in itemQueue : \A j \in itemQueue \ {i} : Before(i, j)
RunningDrains == {d \in DrainSlots : slot[d].pc # "off"}

\* enqueue: insert, and drain up to its first await.
EnqueueItem(i) ==
    /\ i \notin sequence /\ \A j \in Items \ sequence : i <= j
    /\ sequence' = sequence \cup {i} /\ itemQueue' = itemQueue \cup {i}
    /\ IF RunningDrains = DrainSlots THEN slot' = slot
       ELSE \E d \in DrainSlots \ RunningDrains : slot' = [slot EXCEPT ![d] = Acquiring]
    /\ UNCHANGED <<aborted, settled, idleCaller>>

AbortItem(i) ==
    /\ i \in sequence \ aborted
    /\ aborted' = aborted \cup {i}
    /\ UNCHANGED <<sequence, itemQueue, slot, settled, idleCaller>>

\* Mutant: a drain works on one item.
ContinueOnce(d, queue) ==
    /\ slot' = [slot EXCEPT ![d] = Off]
    /\ idleCaller' = [c \in IdleCallers |->
         IF RunningDrains = {d} /\ idleCaller[c] = "waiting" THEN "woken" ELSE idleCaller[c]]

\* The loop's condition and what follows it, for a drain that has left the
\* queue as given.
Continue(d, queue) ==
    IF queue # {}
      THEN slot' = [slot EXCEPT ![d] = Acquiring] /\ idleCaller' = idleCaller
      ELSE /\ slot' = [slot EXCEPT ![d] = Off]
           /\ idleCaller' = [c \in IdleCallers |->
                IF RunningDrains = {d} /\ idleCaller[c] = "waiting" THEN "woken" ELSE idleCaller[c]]

\* acquire returns: pop, which may find nothing, and the signal.
Pop(d) ==
    /\ slot[d].pc = "acquire"
    /\ \/ /\ itemQueue = {}
          /\ Continue(d, {}) /\ UNCHANGED <<itemQueue, settled>>
       \/ /\ itemQueue # {} /\ First \notin aborted
          /\ itemQueue' = itemQueue \ {First}
          /\ slot' = [slot EXCEPT ![d] = [pc |-> "work", item |-> First]]
          /\ UNCHANGED <<settled, idleCaller>>
       \/ /\ itemQueue # {} /\ First \in aborted
          /\ itemQueue' = itemQueue \ {First} /\ settled' = settled \cup {First}
          /\ Continue(d, itemQueue \ {First})
    /\ UNCHANGED <<sequence, aborted>>

\* The work resolves or rejects.
WorkEnds(d) ==
    /\ slot[d].pc = "work"
    /\ settled' = settled \cup {slot[d].item}
    /\ Continue(d, itemQueue)
    /\ UNCHANGED <<sequence, itemQueue, aborted>>

CallIdle(c) ==
    /\ idleCaller[c] = "no"
    /\ idleCaller' = [idleCaller EXCEPT ![c] = IF itemQueue = {} /\ RunningDrains = {}
                                                 THEN "woken" ELSE "waiting"]
    /\ UNCHANGED <<sequence, itemQueue, slot, aborted, settled>>

AgentNext ==
    \/ \E i \in Items : EnqueueItem(i) \/ AbortItem(i)
    \/ \E d \in DrainSlots : Pop(d) \/ WorkEnds(d)
    \/ \E c \in IdleCallers : CallIdle(c)

AgentSpec == AgentInit /\ [][AgentNext]_agentVars

----------------------------------------------------------------------------
(* Properties *)

\* No wake-up is lost between a drain that ends and an enqueue that starts
\* none: an item is settled, in a drain's hands, or queued while a drain runs;
\* and who waits in idle has a drain left that will wake it.
NothingStranded ==
    /\ \A i \in sequence :
         \/ i \in settled
         \/ \E d \in DrainSlots : slot[d].pc = "work" /\ slot[d].item = i
         \/ i \in itemQueue /\ RunningDrains # {}
    /\ (\E c \in IdleCallers : idleCaller[c] = "waiting") => RunningDrains # {}
=============================================================================
