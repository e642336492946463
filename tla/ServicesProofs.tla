---------------------------- MODULE ServicesProofs ----------------------------
(***************************************************************************)
(* Proofs about services that work on stored state or search it: the       *)
(* outbox delivers, the incremental syncs of google-integrations lose no   *)
(* day, the projection of observability ends with what the outbox told it, *)
(* the web UI shows as signed in who is so in the storage and neither      *)
(* mixes nor repeats what reaches it, the search for the next fire time of *)
(* a cron expression overlooks none, a crawl is completed only when        *)
(* everything it reached is processed, and an event reaches each plugin    *)
(* that stays subscribed to it once.                                       *)
(***************************************************************************)
EXTENDS GoogleSync, ObservedExecutions, WebSession, WebUpdates, CronSearch, CrawlScheduler,
        PluginRegistry, FiniteSetTheorems, SequenceTheorems, WellFoundedInduction, TLAPS

-----------------------------------------------------------------------------
(* Delivery by the outbox *)

\* As much of the types as the argument needs: not what a batch holds.
Shapes ==
    /\ DOMAIN outbox = Events /\ DOMAIN poller = Pollers
    /\ \A e \in Events :
         outbox[e] = [status |-> outbox[e].status, attempts |-> outbox[e].attempts, delayed |-> outbox[e].delayed]
    /\ \A p \in Pollers :
         /\ poller[p] = [pc |-> poller[p].pc, batch |-> poller[p].batch, handler |-> poller[p].handler]
         /\ poller[p].handler \in Nat

\* The strengthening: every handler before the one a poller is at has succeeded
\* with its event, in this pass or an earlier one, and a pass begins with the
\* first.  DoneWasHandled itself says nothing of an event that is about to be
\* marked.
HandledSoFar ==
    \A p \in Pollers :
        /\ poller[p].pc = "claim" => poller[p].handler = 1
        /\ poller[p].pc = "handle" =>
             \A h \in Nat : 1 <= h /\ h < poller[p].handler => <<Row(p).id, h>> \in handled

DeliveryInv == Shapes /\ HandledSoFar /\ DoneWasHandled

\* A poller's next record is well formed, and says no more of handlers than is so.
Sound(call, succeeded) ==
    /\ call = [pc |-> call.pc, batch |-> call.batch, handler |-> call.handler]
    /\ call.handler \in Nat
    /\ call.pc = "claim" => call.handler = 1
    /\ call.pc = "handle" =>
         \A h \in Nat : 1 <= h /\ h < call.handler => <<Head(call.batch).id, h>> \in succeeded

\* A step that moves one poller, forgets no success and marks no event as done
\* whose handlers have not all succeeded.
LEMMA OnePollerMoves ==
    ASSUME DeliveryInv, NEW p \in Pollers, NEW call, poller' = [poller EXCEPT ![p] = call], Sound(call, handled'),
           handled \subseteq handled', Shapes', DoneWasHandled'
    PROVE  DeliveryInv'
  <1>1. poller'[p] = call /\ \A q \in Pollers \ {p} : poller'[q] = poller[q]
    BY DEF DeliveryInv, Shapes
  <1>2. HandledSoFar'
    BY <1>1 DEF DeliveryInv, HandledSoFar, Row, Sound
  <1>. QED  BY <1>2 DEF DeliveryInv

\* The next row begins at its first handler.
LEMMA NextRowIsSound ==
    ASSUME DeliveryInv, NEW p \in Pollers
    PROVE  \E call : NextRow(p) = [poller EXCEPT ![p] = call] /\ Sound(call, handled)
  <1>. DEFINE call == IF Len(poller[p].batch) = 1 THEN NotPolling
                      ELSE [pc |-> "handle", batch |-> Tail(poller[p].batch), handler |-> 1]
  <1>1. NextRow(p) = [poller EXCEPT ![p] = call]
    BY DEF NextRow, DeliveryInv, Shapes
  <1>2. Sound(call, handled)
    <2>1. CASE Len(poller[p].batch) = 1
      BY <2>1 DEF Sound, NotPolling
    <2>2. CASE Len(poller[p].batch) # 1
      BY <2>2 DEF Sound
    <2>. QED  BY <2>1, <2>2
  <1>. QED  BY <1>1, <1>2

\* Whatever a step does to the table, an event counts as delivered only when
\* its handlers have succeeded.
LEMMA StaysHandled ==
    ASSUME DeliveryInv, handled \subseteq handled',
           \A e \in Events : outbox'[e].status = "DONE" =>
               outbox[e].status = "DONE" \/ \A h \in 1..Subscribers[e] : <<e, h>> \in handled
    PROVE  DoneWasHandled'
  BY DEF DeliveryInv, DoneWasHandled, HasStatus

LEMMA StepDelivers ==
    ASSUME DeliveryInv, [BusNext]_busVars
    PROVE  DeliveryInv'
  <1>1. CASE UNCHANGED busVars
    BY <1>1 DEF busVars, DeliveryInv, Shapes, HandledSoFar, DoneWasHandled, Row, HasStatus
  <1>2. ASSUME NEW e \in Events, PublishEvent(e) \/ BecomesDue(e) PROVE DeliveryInv'
    <2>1. /\ Shapes' /\ poller' = poller /\ handled' = handled
          /\ \A x \in Events : outbox'[x].status \in {outbox[x].status, "PENDING"}
      BY <1>2 DEF PublishEvent, BecomesDue, DeliveryInv, Shapes
    <2>2. HandledSoFar'
      BY <2>1 DEF DeliveryInv, HandledSoFar, Row
    <2>. QED  BY <2>1, <2>2, StaysHandled DEF DeliveryInv
  <1>3. ASSUME NEW p \in Pollers, FindDue(p) PROVE DeliveryInv'
    <2>1. PICK rows : /\ poller' = [poller EXCEPT ![p] = [pc |-> "claim", handler |-> 1, batch |-> rows]]
                      /\ UNCHANGED <<outbox, handled>>
      BY <1>3 DEF FindDue
    <2>. DEFINE call == [pc |-> "claim", handler |-> 1, batch |-> rows]
    <2>2. Sound(call, handled')
      BY DEF Sound
    <2>3. Shapes'
      BY <2>1 DEF DeliveryInv, Shapes
    <2>4. poller' = [poller EXCEPT ![p] = call]
      BY <2>1
    <2>. HIDE DEF call
    <2>. QED  BY <2>1, <2>2, <2>3, <2>4, StaysHandled, OnePollerMoves
  <1>4. ASSUME NEW p \in Pollers, ClaimRows(p) PROVE DeliveryInv'
    <2>1. PICK claimed \in SUBSET Events :
            /\ outbox' = [e \in Events |-> IF e \in claimed THEN [outbox[e] EXCEPT !.status = "PROCESSING"]
                                                            ELSE outbox[e]]
            /\ poller' = [poller EXCEPT ![p] = IF claimed = {} THEN NotPolling ELSE [@ EXCEPT !.pc = "handle"]]
      BY <1>4 DEF ClaimRows
    <2>. DEFINE call == IF claimed = {} THEN NotPolling ELSE [poller[p] EXCEPT !.pc = "handle"]
    <2>2. poller' = [poller EXCEPT ![p] = call] /\ handled' = handled
      BY <1>4, <2>1 DEF ClaimRows, DeliveryInv, Shapes
    <2>3. Sound(call, handled')
      BY <1>4 DEF ClaimRows, DeliveryInv, Shapes, HandledSoFar, Sound, NotPolling
    <2>4. Shapes' /\ \A e \in Events : outbox'[e].status \in {outbox[e].status, "PROCESSING"}
      BY <2>1, <2>2, <2>3 DEF DeliveryInv, Shapes, Sound
    <2>. HIDE DEF call
    <2>. QED  BY <2>2, <2>3, <2>4, StaysHandled, OnePollerMoves
  <1>5. ASSUME NEW p \in Pollers, HandlerSucceeds(p) PROVE DeliveryInv'
    <2>. DEFINE call == [poller[p] EXCEPT !.handler = @ + 1]
    <2>1. /\ poller' = [poller EXCEPT ![p] = call] /\ outbox' = outbox
          /\ handled' = handled \cup {<<Row(p).id, poller[p].handler>>}
      BY <1>5 DEF HandlerSucceeds, DeliveryInv, Shapes
    <2>2. Sound(call, handled')
      BY <1>5, <2>1 DEF HandlerSucceeds, DeliveryInv, Shapes, HandledSoFar, Sound, Row
    <2>3. Shapes'
      BY <2>1, <2>2 DEF DeliveryInv, Shapes, Sound
    <2>. HIDE DEF call
    <2>. QED  BY <2>1, <2>2, <2>3, StaysHandled, OnePollerMoves
  <1>6. ASSUME NEW p \in Pollers, HandlerFails(p) PROVE DeliveryInv'
    <2>. DEFINE call == [poller[p] EXCEPT !.pc = "fail"]
    <2>1. poller' = [poller EXCEPT ![p] = call] /\ UNCHANGED <<outbox, handled>>
      BY <1>6 DEF HandlerFails, DeliveryInv, Shapes
    <2>2. Sound(call, handled')
      BY DEF DeliveryInv, Shapes, Sound
    <2>3. Shapes'
      BY <2>1, <2>2 DEF DeliveryInv, Shapes, Sound
    <2>. HIDE DEF call
    <2>. QED  BY <2>1, <2>2, <2>3, StaysHandled, OnePollerMoves
  <1>7. ASSUME NEW p \in Pollers, MarkDone(p) \/ MarkFailed(p) PROVE DeliveryInv'
    <2>1. poller' = NextRow(p) /\ handled' = handled
      BY <1>7 DEF MarkDone, MarkFailed
    <2>2. PICK call : poller' = [poller EXCEPT ![p] = call] /\ Sound(call, handled')
      BY <2>1, NextRowIsSound DEF Sound
    <2>3. Shapes'
      <3>1. CASE MarkDone(p)
        BY <2>2, <3>1 DEF MarkDone, DeliveryInv, Shapes, Sound
      <3>2. CASE MarkFailed(p)
        <4>. DEFINE left == AfterFailure(Row(p), outbox[Row(p).id])
        <4>1. outbox' = [outbox EXCEPT ![Row(p).id] = left]
          BY <3>2 DEF MarkFailed
        <4>2. Row(p).id \in Events =>
                left = [status |-> left.status, attempts |-> left.attempts, delayed |-> left.delayed]
          BY DEF AfterFailure, DeliveryInv, Shapes
        <4>. HIDE DEF left
        <4>. QED  BY <2>2, <4>1, <4>2 DEF DeliveryInv, Shapes, Sound
      <3>. QED  BY <1>7, <3>1, <3>2
    <2>4. ASSUME NEW e \in Events, outbox'[e].status = "DONE"
          PROVE  outbox[e].status = "DONE" \/ \A h \in 1..Subscribers[e] : <<e, h>> \in handled
      <3>1. CASE MarkDone(p) /\ e = Row(p).id
        <4>1. Subscribers[e] \in Nat /\ poller[p].handler \in Nat /\ poller[p].handler > Subscribers[e]
          BY <3>1, BusAssumption DEF MarkDone, DeliveryInv, Shapes
        <4>2. \A h \in Nat : 1 <= h /\ h < poller[p].handler => <<e, h>> \in handled
          BY <3>1 DEF MarkDone, DeliveryInv, HandledSoFar
        <4>. QED  BY <4>1, <4>2
      <3>2. CASE MarkDone(p) /\ e # Row(p).id
        BY <2>4, <3>2 DEF MarkDone, DeliveryInv, Shapes
      <3>3. CASE MarkFailed(p)
        BY <2>4, <3>3 DEF MarkFailed, AfterFailure, DeliveryInv, Shapes
      <3>. QED  BY <1>7, <3>1, <3>2, <3>3
    <2>. QED  BY <2>1, <2>2, <2>3, <2>4, StaysHandled, OnePollerMoves
  <1>8. ASSUME NEW p \in Pollers, DatabaseFault(p) PROVE DeliveryInv'
    <2>. DEFINE failed == [poller[p] EXCEPT !.pc = "fail"]
    <2>1. PICK call \in {failed, NotPolling} : poller' = [poller EXCEPT ![p] = call]
      BY <1>8 DEF DatabaseFault, DeliveryInv, Shapes
    <2>2. UNCHANGED <<outbox, handled>>
      BY <1>8 DEF DatabaseFault
    <2>3. Sound(call, handled')
      BY DEF DeliveryInv, Shapes, Sound, NotPolling
    <2>4. Shapes'
      BY <2>1, <2>2, <2>3 DEF DeliveryInv, Shapes, Sound
    <2>. QED  BY <2>1, <2>2, <2>3, <2>4, StaysHandled, OnePollerMoves
  <1>9. CASE BusCrash
    BY <1>9 DEF BusCrash, DeliveryInv, Shapes, HandledSoFar, DoneWasHandled, HasStatus, NotPolling
  <1>. QED  BY <1>1, <1>2, <1>3, <1>4, <1>5, <1>6, <1>7, <1>8, <1>9 DEF BusNext, Dispatch

\* "At-least-once delivery" (event-bus.ts:34): an event that counts as delivered
\* was handled by every subscriber, however pollers overlap, write over each
\* other's outcomes, are rejected by the database or die.
THEOREM DeliveredMeansHandled == BusSpec => []DoneWasHandled
  <1>1. BusInit => DeliveryInv
    BY DEF BusInit, DeliveryInv, Shapes, HandledSoFar, DoneWasHandled, HasStatus, NotPolling
  <1>2. DeliveryInv /\ [BusNext]_busVars => DeliveryInv'
    BY StepDelivers
  <1>3. DeliveryInv => DoneWasHandled
    BY DEF DeliveryInv
  <1>. QED  BY <1>1, <1>2, <1>3, PTL DEF BusSpec

-----------------------------------------------------------------------------
(* Incremental syncs *)

\* The calendar never runs back, and a call that has its window ends it on a day there is.
CalendarInv ==
    /\ SyncTypeOK
    /\ FirstDay <= today
    /\ \A i \in Syncs : sync[i].at \in {"fetch", "save"} => sync[i].end \in Days

Plain(p) == p \in DatedProviders /\ ~steered[p] /\ ~overlapping[p]

\* The days from the first window up to the cursor are final, and a cursor is
\* there exactly when a first window was saved.
CursorInv(p) ==
    /\ syncState[p].cursor = NoCursor <=> origin[p] = 0
    /\ \A d \in Days : origin[p] <= d /\ d < syncState[p].cursor => fetchedOn[p][d] > d

\* A run works from the cursor that is still the saved one; its window begins at
\* the cursor and ends by today, and once fetched the days before its end are final.
RunInv(i) ==
    LET p == sync[i].provider IN
    /\ sync[i].previous = syncState[p].cursor
    /\ sync[i].at \in {"fetch", "save"} =>
           /\ sync[i].start > 0 /\ sync[i].end <= today
           /\ sync[i].previous # NoCursor => sync[i].start = sync[i].previous
    /\ sync[i].at = "save" =>
           \A d \in Days : sync[i].start <= d /\ d < sync[i].end => fetchedOn[p][d] > d

SyncInv ==
    \A p \in SyncProviders : Plain(p) =>
        /\ CursorInv(p)
        /\ \A i \in Syncs : InRun(i) /\ sync[i].provider = p =>
              /\ RunInv(i)
              /\ \A j \in Syncs : InRun(j) /\ sync[j].provider = p => i = j

\* A run that may start without a cursor starts on a day there is.
LEMMA FirstStartType ==
    ASSUME CalendarInv, NEW i \in Syncs
    PROVE  FirstStart(i) \in Nat /\ FirstStart(i) > 0
<1>1. sync[i].previous \in Days \cup {NoCursor} /\ today \in Nat /\ FirstDay \in Nat
    BY SyncAssumption DEF CalendarInv, SyncTypeOK, SyncCall
<1>2. FirstDay - FirstRunWindow \in Nat \ {0} /\ FirstRunWindow \in Nat
    BY SyncAssumption
<1>3. today - FirstRunWindow \in Nat /\ today - FirstRunWindow > 0
    BY <1>1, <1>2 DEF CalendarInv
<1>4. CASE sync[i].previous = NoCursor
    BY <1>3, <1>4 DEF FirstStart
<1>5. CASE sync[i].previous # NoCursor
    <2>1. sync[i].previous \in Nat \ {0}
        BY <1>1, <1>5, SyncAssumption
    <2> QED
        BY <1>5, <2>1 DEF FirstStart
<1> QED
    BY <1>4, <1>5

\* What a call holds.
LEMMA CallType ==
    ASSUME CalendarInv, NEW i \in Syncs
    PROVE  /\ sync[i] \in SyncCall
           /\ sync[i].provider \in SyncProviders
           /\ sync[i].previous \in Days \cup {NoCursor}
           /\ sync[i].start \in Nat /\ sync[i].end \in Days \cup {0}
           /\ sync[i].attempts \in Nat
           /\ today \in Nat /\ Days \subseteq Nat
    BY SyncAssumption DEF CalendarInv, SyncTypeOK, SyncCall

Holds(x, y) ==
    /\ x.provider = y.provider /\ x.previous = y.previous
    /\ x.start = y.start /\ x.end = y.end

\* A call that only goes on keeps what it holds, and the others are where they were.
LEMMA GoesOn ==
    ASSUME CalendarInv, NEW i \in Syncs, NEW stop \in SyncStops, Goes(i, stop)
    PROVE  /\ sync' \in [Syncs -> SyncCall]
           /\ \A j \in Syncs : j # i => sync'[j] = sync[j]
           /\ sync'[i].at = stop /\ Holds(sync'[i], sync[i])
<1> DEFINE x == [sync[i] EXCEPT !.at = stop]
<1>1. x \in SyncCall /\ x.at = stop /\ Holds(x, sync[i])
    BY CallType DEF SyncCall, Holds
<1>2. sync' = [sync EXCEPT ![i] = x]
    BY DEF CalendarInv, SyncTypeOK, Goes
<1> HIDE DEF x
<1>3. sync' \in [Syncs -> SyncCall] /\ sync'[i] = x /\ \A j \in Syncs : j # i => sync'[j] = sync[j]
    BY <1>1, <1>2 DEF CalendarInv, SyncTypeOK
<1> QED
    BY <1>1, <1>3

LEMMA RequestIsOver ==
    ASSUME CalendarInv, NEW i \in Syncs, NEW stop \in SyncStops, RequestEnds(i, stop)
    PROVE  /\ sync' \in [Syncs -> SyncCall]
           /\ \A j \in Syncs : j # i => sync'[j] = sync[j]
           /\ sync'[i].at = stop /\ Holds(sync'[i], sync[i])
<1> DEFINE x == [sync[i] EXCEPT !.at = stop, !.attempts = 0]
<1>1. x \in SyncCall /\ x.at = stop /\ Holds(x, sync[i])
    BY CallType DEF SyncCall, Holds
<1>2. sync' = [sync EXCEPT ![i] = x]
    BY DEF CalendarInv, SyncTypeOK, RequestEnds
<1> HIDE DEF x
<1>3. sync' \in [Syncs -> SyncCall] /\ sync'[i] = x /\ \A j \in Syncs : j # i => sync'[j] = sync[j]
    BY <1>1, <1>2 DEF CalendarInv, SyncTypeOK
<1> QED
    BY <1>1, <1>3

\* So does one that reads the cursor, takes its window or tries again.
LEMMA HoldsMore ==
    ASSUME CalendarInv, NEW i \in Syncs, NEW x \in SyncCall, sync' = [sync EXCEPT ![i] = x]
    PROVE  /\ sync' \in [Syncs -> SyncCall]
           /\ \A j \in Syncs : j # i => sync'[j] = sync[j]
           /\ sync'[i] = x
    BY DEF CalendarInv, SyncTypeOK

LEMMA Reads ==
    ASSUME CalendarInv, NEW i \in Syncs, NEW c \in Days \cup {NoCursor},
           sync' = [sync EXCEPT ![i].at = "window", ![i].previous = c]
    PROVE  /\ sync' \in [Syncs -> SyncCall]
           /\ \A j \in Syncs : j # i => sync'[j] = sync[j]
           /\ sync'[i].at = "window" /\ sync'[i].previous = c
           /\ sync'[i].provider = sync[i].provider
<1> DEFINE x == [sync[i] EXCEPT !.at = "window", !.previous = c]
<1>1. x \in SyncCall /\ x.at = "window" /\ x.previous = c /\ x.provider = sync[i].provider
    BY CallType DEF SyncCall, SyncStops
<1>2. sync' = [sync EXCEPT ![i] = x]
    BY DEF CalendarInv, SyncTypeOK
<1> HIDE DEF x
<1> QED
    BY <1>1, <1>2, HoldsMore

WindowIs(i, start, end) == sync' = [sync EXCEPT ![i].at = "fetch", ![i].end = end, ![i].start = start]

LEMMA TakesWindow ==
    ASSUME CalendarInv, NEW i \in Syncs, NEW start \in Nat, NEW end \in Days, WindowIs(i, start, end)
    PROVE  /\ sync' \in [Syncs -> SyncCall]
           /\ \A j \in Syncs : j # i => sync'[j] = sync[j]
           /\ sync'[i].at = "fetch" /\ sync'[i].end = end /\ sync'[i].start = start
           /\ sync'[i].provider = sync[i].provider /\ sync'[i].previous = sync[i].previous
<1> DEFINE x == [sync[i] EXCEPT !.at = "fetch", !.end = end, !.start = start]
<1>1. /\ x \in SyncCall /\ x.at = "fetch" /\ x.end = end /\ x.start = start
      /\ x.provider = sync[i].provider /\ x.previous = sync[i].previous
    BY CallType DEF SyncCall, SyncStops
<1>2. sync' = [sync EXCEPT ![i] = x]
    BY DEF WindowIs, CalendarInv, SyncTypeOK
<1> HIDE DEF x
<1> QED
    BY <1>1, <1>2, HoldsMore

LEMMA RetryCall ==
    ASSUME CalendarInv, NEW i \in Syncs
    PROVE  LET x == [sync[i] EXCEPT !.attempts = @ + 1]
           IN  x \in SyncCall /\ x.at = sync[i].at /\ Holds(x, sync[i])
    BY CallType DEF SyncCall, Holds

\* The step of a call: what it may hold next, and what every provider but its own keeps.
LEMMA CallMoves ==
    ASSUME CalendarInv, NEW i \in Syncs, SyncStep(i)
    PROVE  /\ sync' \in [Syncs -> SyncCall]
           /\ \A j \in Syncs : j # i => sync'[j] = sync[j]
           /\ sync'[i].provider = sync[i].provider
           /\ sync'[i].at \in {"fetch", "save"} => sync'[i].end \in Days
           /\ today' = today
<1>1. CASE SyncBegins(i)
    <2>1. Goes(i, IF sync[i].provider \in AuthProviders THEN "token" ELSE "read") /\ Calm
        BY <1>1 DEF SyncBegins
    <2> QED
        BY <2>1, GoesOn DEF Holds, Calm, SyncStops
<1>2. CASE TakeToken(i)
    <2>1. (\E stop \in {"over", "read", "refresh"} : Goes(i, stop)) /\ Calm
        BY <1>2 DEF TakeToken, CalendarInv, SyncTypeOK
    <2> QED
        BY <2>1, GoesOn DEF Holds, Calm, SyncStops
<1>3. CASE RefreshToken(i)
    <2>1. (\E stop \in {"over", "read"} : Goes(i, stop)) /\ Calm
        BY <1>3 DEF RefreshToken
    <2> QED
        BY <2>1, GoesOn DEF Holds, Calm, SyncStops
<1>4. CASE ReadCursor(i)
    <2> DEFINE p == sync[i].provider
    <2>1. CASE Goes(i, "over")
        BY <1>4, <2>1, GoesOn DEF Holds, ReadCursor, SyncStops
    <2>2. CASE sync' = [sync EXCEPT ![i].at = "window", ![i].previous = syncState[p].cursor]
        <3>1. syncState[p].cursor \in Days \cup {NoCursor}
            BY CallType DEF CalendarInv, SyncTypeOK
        <3> QED
            BY <1>4, <2>2, <3>1, Reads DEF ReadCursor
    <2> QED
        BY <1>4, <2>1, <2>2 DEF ReadCursor
<1>5. CASE ChooseWindow(i)
    <2>1. today \in Days /\ StartDates \subseteq Nat /\ FirstStart(i) \in Nat
        BY FirstStartType, CallType, SyncAssumption DEF CalendarInv, SyncTypeOK
    <2>2. today' = today
        BY <1>5 DEF ChooseWindow
    <2>3. CASE \E start \in StartDates \cup {FirstStart(i)}, end \in Days : WindowIs(i, start, end)
        <3>1. PICK start \in Nat, end \in Days : WindowIs(i, start, end)
            BY <2>1, <2>3
        <3> QED
            BY <2>2, <3>1, TakesWindow
    <2>4. CASE sync' = [sync EXCEPT ![i].at = "fetch", ![i].end = today]
        <3> DEFINE x == [sync[i] EXCEPT !.at = "fetch", !.end = today]
        <3>1. x \in SyncCall /\ x.end = today /\ x.provider = sync[i].provider
            BY <2>1, CallType DEF SyncCall, SyncStops
        <3>2. sync' = [sync EXCEPT ![i] = x]
            BY <2>4 DEF CalendarInv, SyncTypeOK
        <3> HIDE DEF x
        <3>3. /\ sync' \in [Syncs -> SyncCall] /\ sync'[i] = x
              /\ \A j \in Syncs : j # i => sync'[j] = sync[j]
            BY <3>1, <3>2, HoldsMore
        <3> QED
            BY <2>1, <2>2, <3>1, <3>3
    <2> QED
        BY <1>5, <2>3, <2>4, Zenon DEF ChooseWindow, WindowIs
<1>6. CASE Fetch(i)
    <2>1. CASE RequestEnds(i, "save")
        BY <1>6, <2>1, RequestIsOver DEF Holds, Fetch, GivesUp, At, CalendarInv, SyncStops
    <2>2. CASE RequestEnds(i, "fail")
        BY <1>6, <2>2, RequestIsOver DEF Holds, Fetch, GivesUp, SyncStops
    <2>3. CASE sync' = [sync EXCEPT ![i].attempts = @ + 1]
        <3>1. sync' = [sync EXCEPT ![i] = [sync[i] EXCEPT !.attempts = @ + 1]]
            BY <2>3 DEF CalendarInv, SyncTypeOK
        <3> QED
            BY <1>6, <3>1, RetryCall, HoldsMore DEF Holds, Fetch, GivesUp, At, CalendarInv
    <2> QED
        BY <1>6, <2>1, <2>2, <2>3 DEF Fetch, GivesUp
<1>7. CASE SaveCursor(i)
    BY <1>7, GoesOn DEF Holds, SaveCursor, SyncStops
<1>8. CASE SaveFailure(i)
    BY <1>8, GoesOn DEF Holds, SaveFailure, Calm, SyncStops
<1> QED
    BY <1>1, <1>2, <1>3, <1>4, <1>5, <1>6, <1>7, <1>8 DEF SyncStep


\* The rows: what a call stores has its type, and only its own provider's changes.
LEMMA CallStores ==
    ASSUME CalendarInv, NEW i \in Syncs, SyncStep(i)
    PROVE  /\ credential' \in {"none", "fresh", "expired"} /\ syncFaults' \in Nat
           /\ syncState' \in [SyncProviders -> [cursor : Days \cup {NoCursor},
                                                status : {"none", "SYNCED", "FAILED"}]]
           /\ fetchedOn' \in [SyncProviders -> [Days -> Days \cup {0}]]
           /\ origin' \in [SyncProviders -> Nat]
           /\ steered' \in [SyncProviders -> BOOLEAN] /\ overlapping' \in [SyncProviders -> BOOLEAN]
           /\ \A p \in SyncProviders : p # sync[i].provider =>
                 /\ syncState'[p] = syncState[p] /\ origin'[p] = origin[p]
                 /\ fetchedOn'[p] = fetchedOn[p]
                 /\ steered'[p] = steered[p] /\ overlapping'[p] = overlapping[p]
<1> DEFINE own == sync[i].provider
<1>1. own \in SyncProviders /\ sync[i].end \in Days \cup {0}
      /\ sync[i].previous \in Days \cup {NoCursor} /\ sync[i].start \in Nat
    BY CallType
<1>2. CASE SyncBegins(i) \/ TakeToken(i)
    BY <1>2 DEF SyncBegins, TakeToken, Calm, CalendarInv, SyncTypeOK
<1>3. CASE RefreshToken(i)
    BY <1>3 DEF RefreshToken, Calm, CalendarInv, SyncTypeOK
<1>4. CASE ReadCursor(i)
    <2>1. syncFaults' \in Nat
        BY <1>4 DEF ReadCursor, CalendarInv, SyncTypeOK
    <2>2. overlapping' = overlapping \/ \E b \in BOOLEAN : overlapping' = [overlapping EXCEPT ![own] = b]
        BY <1>4, Zenon DEF ReadCursor
    <2>3. /\ overlapping' \in [SyncProviders -> BOOLEAN]
          /\ \A p \in SyncProviders : p # own => overlapping'[p] = overlapping[p]
        BY <1>1, <2>2 DEF CalendarInv, SyncTypeOK
    <2> QED
        BY <1>4, <2>1, <2>3 DEF ReadCursor, CalendarInv, SyncTypeOK
<1>5. CASE ChooseWindow(i)
    <2>1. steered' = steered \/ \E b \in BOOLEAN : steered' = [steered EXCEPT ![own] = b]
        BY <1>5, Zenon DEF ChooseWindow
    <2> QED
        BY <1>1, <1>5, <2>1 DEF ChooseWindow, CalendarInv, SyncTypeOK
<1>6. CASE Fetch(i)
    <2>1. today \in Days
        BY DEF CalendarInv, SyncTypeOK
    <2> DEFINE window == IF own \in DatedProviders THEN sync[i].start .. sync[i].end ELSE {}
               row == [d \in Days |-> IF d \in window THEN today ELSE fetchedOn[own][d]]
    <2>2. fetchedOn' = fetchedOn \/ fetchedOn' = [fetchedOn EXCEPT ![own] = row]
        BY <1>6 DEF Fetch, GivesUp
    <2>3. row \in [Days -> Days \cup {0}]
        BY <1>1, <2>1 DEF CalendarInv, SyncTypeOK
    <2> HIDE DEF row
    <2>4. /\ fetchedOn' \in [SyncProviders -> [Days -> Days \cup {0}]]
          /\ \A p \in SyncProviders : p # own => fetchedOn'[p] = fetchedOn[p]
        BY <1>1, <2>2, <2>3 DEF CalendarInv, SyncTypeOK
    <2> QED
        BY <1>6, <2>4 DEF Fetch, GivesUp, CalendarInv, SyncTypeOK
<1>7. CASE SaveCursor(i)
    <2>1. \/ UNCHANGED <<syncState, origin>>
          \/ /\ syncState' = [syncState EXCEPT ![own] = [cursor |-> sync[i].end, status |-> "SYNCED"]]
             /\ \E first \in Nat : origin' = [origin EXCEPT ![own] = first]
        BY <1>1, <1>7 DEF SaveCursor, CalendarInv, SyncTypeOK
    <2>2. [cursor |-> sync[i].end, status |-> "SYNCED"]
              \in [cursor : Days \cup {NoCursor}, status : {"none", "SYNCED", "FAILED"}]
        BY <1>1 DEF NoCursor
    <2>3. syncFaults' \in Nat
        BY <1>7 DEF SaveCursor, CalendarInv, SyncTypeOK
    <2>4. /\ syncState' \in [SyncProviders -> [cursor : Days \cup {NoCursor},
                                                status : {"none", "SYNCED", "FAILED"}]]
          /\ \A p \in SyncProviders : p # own => syncState'[p] = syncState[p]
        BY <1>1, <2>1, <2>2 DEF CalendarInv, SyncTypeOK
    <2>5. /\ origin' \in [SyncProviders -> Nat]
          /\ \A p \in SyncProviders : p # own => origin'[p] = origin[p]
        BY <1>1, <2>1 DEF CalendarInv, SyncTypeOK
    <2> QED
        BY <1>7, <2>3, <2>4, <2>5 DEF SaveCursor, CalendarInv, SyncTypeOK
<1>8. CASE SaveFailure(i)
    <2>1. \/ UNCHANGED syncState
          \/ syncState' = [syncState EXCEPT ![own] = [cursor |-> sync[i].previous, status |-> "FAILED"]]
        BY <1>8 DEF SaveFailure
    <2>2. syncFaults' \in Nat
        BY <1>8 DEF SaveFailure, CalendarInv, SyncTypeOK
    <2> QED
        BY <1>1, <1>8, <2>1, <2>2 DEF SaveFailure, Calm, CalendarInv, SyncTypeOK
<1> QED
    BY <1>2, <1>3, <1>4, <1>5, <1>6, <1>7, <1>8 DEF SyncStep

LEMMA StepCalendar ==
    ASSUME CalendarInv, [SyncNext]_syncVars
    PROVE  CalendarInv'
<1>1. CASE UNCHANGED syncVars
    BY <1>1 DEF syncVars, CalendarInv, SyncTypeOK
<1>2. CASE MidnightPasses
    <2>1. \A i \in Syncs : sync[i].end \in Days => sync[i].end \in Nat
        BY CallType
    <2> QED
        BY <1>2, <2>1, SyncAssumption DEF MidnightPasses, CalendarInv, SyncTypeOK
<1>3. CASE CredentialChanges
    BY <1>3 DEF CredentialChanges, CalendarInv, SyncTypeOK
<1>4. ASSUME NEW i \in Syncs, SyncStep(i)
      PROVE  CalendarInv'
    BY <1>4, CallMoves, CallStores DEF CalendarInv, SyncTypeOK
<1> QED
    BY <1>1, <1>2, <1>3, <1>4 DEF SyncNext

LEMMA CalendarHolds == SyncSpec => []CalendarInv
<1>1. SyncInit => CalendarInv
    <2>1. \A p \in SyncProviders : [at |-> "idle", provider |-> p, previous |-> NoCursor, start |-> 0,
                                    end |-> 0, attempts |-> 0] \in SyncCall
        BY DEF SyncCall, SyncStops
    <2>2. SyncInit => sync \in [Syncs -> SyncCall] /\ \A i \in Syncs : sync[i].at = "idle"
        BY <2>1 DEF SyncInit
    <2>3. SyncInit => \A i \in Syncs : sync[i].at \notin {"fetch", "save"}
        BY <2>2
    <2>4. SyncInit => /\ FirstDay \in Days /\ FirstDay <= today /\ today \in Days
                      /\ credential \in {"none", "fresh", "expired"} /\ syncFaults \in Nat
        <3>1. FirstDay \in Days /\ FirstDay \in Nat
            BY SyncAssumption
        <3>2. SyncInit => today = FirstDay /\ credential = "none" /\ syncFaults = 0
            BY DEF SyncInit
        <3> QED
            BY <3>1, <3>2
    <2>5. SyncInit => /\ syncState \in [SyncProviders -> [cursor : Days \cup {NoCursor},
                                                          status : {"none", "SYNCED", "FAILED"}]]
                      /\ fetchedOn \in [SyncProviders -> [Days -> Days \cup {0}]]
                      /\ origin \in [SyncProviders -> Nat]
                      /\ steered \in [SyncProviders -> BOOLEAN] /\ overlapping \in [SyncProviders -> BOOLEAN]
        BY DEF SyncInit, NoCursor
    <2> QED
        BY <2>2, <2>3, <2>4, <2>5 DEF CalendarInv, SyncTypeOK
<1>2. CalendarInv /\ [SyncNext]_syncVars => CalendarInv'
    BY StepCalendar
<1> QED
    BY <1>1, <1>2, PTL DEF SyncSpec

\* In a step of a call, only its own provider's runs and rows change.
LEMMA StepSync ==
    ASSUME CalendarInv, SyncInv, [SyncNext]_syncVars, NEW p \in SyncProviders, Plain(p)'
    PROVE  /\ CursorInv(p)'
           /\ \A i \in Syncs : InRun(i)' /\ sync'[i].provider = p =>
                 /\ RunInv(i)'
                 /\ \A j \in Syncs : InRun(j)' /\ sync'[j].provider = p => i = j
<1> DEFINE Good == /\ CursorInv(p)'
                   /\ \A i \in Syncs : InRun(i)' /\ sync'[i].provider = p =>
                         /\ RunInv(i)'
                         /\ \A j \in Syncs : InRun(j)' /\ sync'[j].provider = p => i = j
<1>1. ASSUME Plain(p), UNCHANGED <<syncState, sync, fetchedOn, origin>>, today' \in {today, today + 1}
      PROVE  Good
    <2>1. \A i \in Syncs : sync[i].end \in Nat \/ sync[i].at \notin {"fetch", "save"}
        BY SyncAssumption DEF CalendarInv
    <2>2. today \in Nat
        BY SyncAssumption DEF CalendarInv, SyncTypeOK
    <2>3. ASSUME NEW i \in Syncs, InRun(i)', sync'[i].provider = p
          PROVE  /\ RunInv(i)'
                 /\ \A j \in Syncs : InRun(j)' /\ sync'[j].provider = p => i = j
        <3>1. sync[i].end <= today => sync[i].end <= today' \/ sync[i].at \notin {"fetch", "save"}
            BY <1>1, <2>1, <2>2
        <3>2. RunInv(i) /\ \A j \in Syncs : InRun(j) /\ sync[j].provider = p => i = j
            BY <1>1, <2>3 DEF SyncInv, InRun
        <3> QED
            BY <1>1, <3>1, <3>2 DEF RunInv, InRun
    <2> QED
        BY <1>1, <2>3 DEF SyncInv, CursorInv
<1>2. CASE UNCHANGED syncVars
    BY <1>1, <1>2 DEF syncVars, Plain
<1>3. CASE MidnightPasses \/ CredentialChanges
    BY <1>1, <1>3 DEF MidnightPasses, CredentialChanges, Plain
<1>4. ASSUME NEW i \in Syncs, SyncStep(i), sync[i].provider # p
      PROVE  Good
    <2>1. Plain(p) /\ syncState'[p] = syncState[p] /\ origin'[p] = origin[p] /\ fetchedOn'[p] = fetchedOn[p]
        BY <1>4, CallStores DEF Plain
    <2>2. today' = today /\ \A j \in Syncs : sync'[j].provider = p => sync'[j] = sync[j]
        BY <1>4, CallMoves
    <2> QED
        BY <2>1, <2>2 DEF SyncInv, CursorInv, RunInv, InRun
<1>5. ASSUME NEW i \in Syncs, SyncStep(i), sync[i].provider = p
      PROVE  Good
    <2> DEFINE stop == sync'[i].at
    <2>1. /\ \A j \in Syncs : j # i => sync'[j] = sync[j]
          /\ sync'[i].provider = p /\ today' = today
        BY <1>5, CallMoves
    <2>2. \* The others, when the call is in its run and was there already.
          ASSUME Plain(p), InRun(i)
          PROVE  \A j \in Syncs : InRun(j)' /\ sync'[j].provider = p => j = i
        BY <1>5, <2>1, <2>2 DEF SyncInv, InRun
    <2>3. ASSUME Plain(p), UNCHANGED <<syncState, fetchedOn, origin>>, ~InRun(i)'
          PROVE  Good
        BY <2>1, <2>3 DEF SyncInv, CursorInv, RunInv, InRun
    <2>4. CASE SyncBegins(i)
        <3>1. \E s \in {"token", "read"} : Goes(i, s)
            BY <2>4 DEF SyncBegins
        <3> QED
            BY <2>3, <2>4, <3>1, GoesOn DEF SyncBegins, Calm, Plain, InRun, SyncStops
    <2>5. CASE TakeToken(i)
        <3>1. \E s \in {"over", "read", "refresh"} : Goes(i, s)
            BY <2>5 DEF TakeToken, CalendarInv, SyncTypeOK
        <3> QED
            BY <2>3, <2>5, <3>1, GoesOn DEF TakeToken, Calm, Plain, InRun, SyncStops
    <2>6. CASE RefreshToken(i)
        <3>1. \E s \in {"over", "read"} : Goes(i, s)
            BY <2>6 DEF RefreshToken
        <3> QED
            BY <2>3, <2>6, <3>1, GoesOn DEF RefreshToken, Calm, Plain, InRun, SyncStops
    <2>7. CASE ReadCursor(i)
        <3>1. CASE Goes(i, "over") /\ UNCHANGED overlapping
            BY <2>3, <2>7, <3>1, GoesOn DEF ReadCursor, Plain, InRun, SyncStops
        <3>2. CASE /\ sync' = [sync EXCEPT ![i].at = "window", ![i].previous = syncState[p].cursor]
                   /\ overlapping' = [overlapping EXCEPT ![p] =
                         @ \/ \E j \in Syncs : InRun(j) /\ sync[j].provider = p]
            <4>1. overlapping'[p] = (overlapping[p] \/ \E j \in Syncs : InRun(j) /\ sync[j].provider = p)
                BY <3>2, Zenon DEF CalendarInv, SyncTypeOK
            <4>2. Plain(p) /\ ~\E j \in Syncs : InRun(j) /\ sync[j].provider = p
                BY <2>7, <4>1, Zenon DEF Plain, ReadCursor
            <4>3. syncState[p].cursor \in Days \cup {NoCursor}
                BY DEF CalendarInv, SyncTypeOK
            <4>5. sync'[i].at = "window" /\ sync'[i].previous = syncState[p].cursor
                BY <3>2, <4>3, Reads
            <4>6. UNCHANGED <<syncState, fetchedOn, origin>>
                BY <2>7 DEF ReadCursor
            <4>7. CursorInv(p)'
                BY <4>2, <4>6 DEF SyncInv, CursorInv
            <4>8. RunInv(i)'
                BY <2>1, <4>5, <4>6 DEF RunInv
            <4>9. \A j \in Syncs : InRun(j)' /\ sync'[j].provider = p => j = i
                BY <2>1, <4>2 DEF InRun
            <4> QED
                BY <4>7, <4>8, <4>9
        <3> QED
            BY <1>5, <2>7, <3>1, <3>2 DEF ReadCursor
    <2>8. CASE ChooseWindow(i)
        <3>1. InRun(i) /\ p \in DatedProviders
            BY <2>8 DEF ChooseWindow, At, InRun, Plain
        <3>2. PICK start \in StartDates \cup {FirstStart(i)}, end \in Days :
                 /\ WindowIs(i, start, end)
                 /\ steered' = [steered EXCEPT ![p] = @ \/ start # FirstStart(i) \/ end > today]
            BY <1>5, <2>8, <3>1, Zenon DEF ChooseWindow, WindowIs
        <3>3. Plain(p) /\ start = FirstStart(i) /\ ~(end > today)
            <4>1. steered'[p] = (steered[p] \/ start # FirstStart(i) \/ end > today)
                BY <3>2, Zenon DEF CalendarInv, SyncTypeOK
            <4> QED
                BY <2>8, <4>1, Zenon DEF Plain, ChooseWindow
        <3>5. end <= today
            BY <3>3, CallType, SyncAssumption
        <3>4. FirstStart(i) \in Nat /\ FirstStart(i) > 0
            BY FirstStartType
        <3>6. /\ sync'[i].at = "fetch" /\ sync'[i].start = FirstStart(i) /\ sync'[i].end = end
              /\ sync'[i].previous = sync[i].previous
            <4>1. start \in Nat
                BY <3>3, <3>4
            <4> QED
                BY <3>2, <3>3, <4>1, TakesWindow
        <3>7. UNCHANGED <<syncState, fetchedOn, origin>>
            BY <2>8 DEF ChooseWindow
        <3>8. CursorInv(p)'
            BY <3>3, <3>7 DEF SyncInv, CursorInv
        <3>9. RunInv(i)'
            BY <1>5, <2>1, <3>1, <3>3, <3>4, <3>5, <3>6, <3>7 DEF SyncInv, RunInv, FirstStart
        <3> QED
            BY <2>2, <3>1, <3>3, <3>8, <3>9
    <2>9. CASE Fetch(i)
        <3>1. Plain(p) /\ InRun(i) /\ UNCHANGED <<syncState, origin>>
            BY <2>9 DEF Fetch, GivesUp, At, InRun, Plain
        <3>2. CursorInv(p) /\ RunInv(i)
            BY <1>5, <3>1 DEF SyncInv
        <3>3. CASE UNCHANGED fetchedOn /\ RequestEnds(i, "fail")
            BY <1>5, <2>1, <2>2, <3>1, <3>2, <3>3, RequestIsOver DEF CursorInv, RunInv, Holds, SyncStops
        <3>4. CASE UNCHANGED fetchedOn /\ sync' = [sync EXCEPT ![i].attempts = @ + 1]
            <4>1. sync' = [sync EXCEPT ![i] = [sync[i] EXCEPT !.attempts = @ + 1]]
                BY <3>4 DEF CalendarInv, SyncTypeOK
            <4>2. sync'[i].at = "fetch" /\ Holds(sync'[i], sync[i])
                BY <2>9, <4>1, RetryCall, HoldsMore DEF Fetch, GivesUp, At
            <4> QED
                BY <1>5, <2>1, <2>2, <2>9, <3>1, <3>2, <3>4, <4>2
                   DEF CursorInv, RunInv, Holds, Fetch, GivesUp, At
        <3>5. CASE /\ RequestEnds(i, "save")
                   /\ fetchedOn' = [fetchedOn EXCEPT ![p] =
                         [d \in Days |-> IF d \in sync[i].start .. sync[i].end THEN today ELSE @[d]]]
            <4>1. \A d \in Days : fetchedOn'[p][d] =
                        IF d \in sync[i].start .. sync[i].end THEN today ELSE fetchedOn[p][d]
                BY <3>5 DEF CalendarInv, SyncTypeOK
            <4>2. sync'[i].at = "save" /\ Holds(sync'[i], sync[i])
                BY <3>5, RequestIsOver DEF SyncStops
            <4>3. /\ sync[i].end \in Nat /\ sync[i].end <= today /\ today \in Nat
                  /\ sync[i].start \in Nat /\ Days \subseteq Nat
                BY <1>5, <2>9, <3>2, CallType DEF RunInv, CalendarInv, Fetch, GivesUp, At
            <4>4. ASSUME NEW d \in Days, sync[i].start <= d, d < sync[i].end
                  PROVE  fetchedOn'[p][d] > d
                BY <4>1, <4>3, <4>4
            <4>5. ASSUME NEW d \in Days, origin[p] <= d, d < syncState[p].cursor
                  PROVE  fetchedOn'[p][d] > d
                <5>1. sync[i].start = syncState[p].cursor /\ syncState[p].cursor \in Nat
                    BY <1>5, <2>9, <3>2, <4>3, <4>5 DEF RunInv, NoCursor, Fetch, GivesUp, At, CalendarInv, SyncTypeOK
                <5>2. fetchedOn'[p][d] = fetchedOn[p][d]
                    BY <4>1, <4>3, <4>5, <5>1
                <5> QED
                    BY <3>2, <4>5, <5>2 DEF CursorInv
            <4>6. CursorInv(p)'
                BY <3>1, <3>2, <4>5 DEF CursorInv
            <4>7. RunInv(i)'
                BY <1>5, <2>1, <2>9, <3>1, <3>2, <4>2, <4>4 DEF RunInv, Holds, Fetch, GivesUp, At
            <4> QED
                BY <2>2, <3>1, <4>6, <4>7
        <3> QED
            BY <1>5, <2>9, <3>3, <3>4, <3>5 DEF Fetch, GivesUp, Plain
    <2>10. CASE SaveCursor(i)
        <3>1. Plain(p) /\ InRun(i) /\ UNCHANGED fetchedOn
            BY <2>10 DEF SaveCursor, At, InRun, Plain
        <3>2. CursorInv(p) /\ RunInv(i)
            BY <1>5, <3>1 DEF SyncInv
        <3>3. CASE UNCHANGED <<syncState, origin>> /\ Goes(i, "fail")
            BY <1>5, <2>1, <2>2, <3>1, <3>2, <3>3, GoesOn DEF CursorInv, RunInv, Holds, SyncStops
        <3>4. CASE /\ syncState' = [syncState EXCEPT ![p] = [cursor |-> sync[i].end, status |-> "SYNCED"]]
                   /\ origin' = [origin EXCEPT ![p] = IF @ = 0 THEN sync[i].start ELSE @]
                   /\ Goes(i, "over")
            <4>1. /\ syncState'[p].cursor = sync[i].end
                  /\ origin'[p] = IF origin[p] = 0 THEN sync[i].start ELSE origin[p]
                BY <3>4 DEF CalendarInv, SyncTypeOK
            <4>2. ~InRun(i)'
                BY <3>4, GoesOn DEF InRun, SyncStops
            <4>3. /\ sync[i].end \in Nat \ {0} /\ sync[i].start \in Nat \ {0}
                  /\ origin[p] \in Nat /\ syncState[p].cursor \in Nat /\ Days \subseteq Nat
                  /\ At(i, "save")
                <5>1. At(i, "save") /\ sync[i].at = "save"
                    BY <2>10 DEF SaveCursor, At
                <5>2. /\ sync[i].start \in Nat /\ Days \subseteq Nat \ {0}
                      /\ sync[i].previous \in Days \cup {NoCursor}
                    BY CallType, SyncAssumption
                <5>3. sync[i].end \in Days /\ sync[i].start > 0
                    BY <3>2, <5>1 DEF RunInv, CalendarInv
                <5>4. origin[p] \in Nat /\ syncState[p].cursor \in Days \cup {NoCursor}
                    <6>1. /\ origin \in [SyncProviders -> Nat]
                          /\ syncState \in [SyncProviders -> [cursor : Days \cup {NoCursor},
                                                              status : {"none", "SYNCED", "FAILED"}]]
                        BY DEF CalendarInv, SyncTypeOK
                    <6>2. syncState[p] \in [cursor : Days \cup {NoCursor}, status : {"none", "SYNCED", "FAILED"}]
                        BY <6>1
                    <6> QED
                        BY <6>1, <6>2
                <5>5. NoCursor \in Nat
                    BY DEF NoCursor
                <5>6. sync[i].end \in Nat \ {0} /\ Days \subseteq Nat
                    BY <5>2, <5>3
                <5>7. sync[i].start \in Nat \ {0}
                    BY <5>2, <5>3
                <5>8. syncState[p].cursor \in Nat
                    BY <5>4, <5>5, <5>6
                <5> QED
                    BY <5>1, <5>4, <5>6, <5>7, <5>8
            <4>4. ASSUME NEW d \in Days, origin'[p] <= d, d < sync[i].end
                  PROVE  fetchedOn[p][d] > d
                <5>1. CASE sync[i].start <= d
                    BY <1>5, <3>2, <4>3, <4>4, <5>1 DEF RunInv, At
                <5>2. CASE ~(sync[i].start <= d)
                    <6>1. origin[p] # 0 /\ origin'[p] = origin[p]
                        BY <4>1, <4>3, <4>4, <5>2
                    <6>2. sync[i].start = syncState[p].cursor
                        BY <1>5, <3>2, <4>3, <6>1 DEF CursorInv, RunInv, At
                    <6> QED
                        BY <3>2, <4>3, <4>4, <5>2, <6>1, <6>2 DEF CursorInv
                <5> QED
                    BY <5>1, <5>2
            <4>5. CursorInv(p)'
                BY <3>1, <4>1, <4>3, <4>4 DEF CursorInv, NoCursor
            <4>6. \A j \in Syncs : InRun(j)' /\ sync'[j].provider = p => FALSE
                BY <2>2, <3>1, <4>2
            <4> QED
                BY <4>5, <4>6
        <3> QED
            BY <1>5, <2>10, <3>3, <3>4 DEF SaveCursor
    <2>11. CASE SaveFailure(i)
        <3>1. Plain(p) /\ InRun(i) /\ UNCHANGED <<fetchedOn, origin>> /\ Goes(i, "over")
            BY <2>11 DEF SaveFailure, Calm, At, InRun, Plain
        <3>2. CursorInv(p) /\ RunInv(i)
            BY <1>5, <3>1 DEF SyncInv
        <3>3. syncState'[p].cursor = syncState[p].cursor
            BY <1>5, <2>11, <3>2 DEF SaveFailure, RunInv, CalendarInv, SyncTypeOK
        <3>4. ~InRun(i)'
            BY <3>1, GoesOn DEF InRun, SyncStops
        <3>5. CursorInv(p)'
            BY <3>1, <3>2, <3>3 DEF CursorInv
        <3> QED
            BY <2>2, <3>1, <3>4, <3>5
    <2> QED
        BY <1>5, <2>4, <2>5, <2>6, <2>7, <2>8, <2>9, <2>10, <2>11 DEF SyncStep
<1> QED
    BY <1>2, <1>3, <1>4, <1>5 DEF SyncNext

\* However often syncs fail, are retried or cut short, and whenever midnight
\* passes, a resource whose runs do not overlap and whose requests leave the
\* start of the window to the service and end it by the day has every day from its first window to its cursor fetched
\* after the day was over: for every number of days, calls and providers.
THEOREM NoDayIsLost == SyncSpec => []NoDayLost
<1>1. SyncInit => SyncInv
    BY DEF SyncInit, SyncInv, CursorInv, RunInv, InRun, NoCursor
<1>2. CalendarInv /\ SyncInv /\ [SyncNext]_syncVars => SyncInv'
    BY StepSync DEF SyncInv
<1>3. CalendarInv /\ SyncInv => NoDayLost
    BY SyncAssumption DEF SyncInv, CursorInv, Plain, NoDayLost
<1> QED
    BY <1>1, <1>2, <1>3, CalendarHolds, PTL DEF SyncSpec

-----------------------------------------------------------------------------
(* The projection of execution events *)

\* One event ends an execution, and it is the last that the outbox gets of it: its
\* status has a higher rank than those before it.
EndsOnce ==
    \A l \in Lifecycles :
        /\ l # <<>>
        /\ \A i \in DOMAIN l : i < Len(l) => STATUS_RANK[StatusOf[l[i]]] < STATUS_RANK[StatusOf[l[Len(l)]]]
\* Calls of processNext do not overlap.
OnePoller == \A p, q \in Pollers : p = q

LastEvent == Len(lifecycle)
Told == {StatusOf[lifecycle[e]] : e \in Emitted}

EmittedRow == [id : Emitted, attempts : Nat]

\* A poller works on events of this execution.
RowsInv ==
    /\ lifecycle \in Lifecycles
    /\ \A e \in Events : outbox[e].attempts \in Nat
                         /\ (outbox[e].status # "none" => e \in Emitted)
    /\ \A p \in Pollers :
          /\ poller[p].batch \in Seq(EmittedRow)
          /\ poller[p].pc \in {"handle", "fail"} => poller[p].batch # <<>>

\* What is stored or was read is a status the events tell, and once the last event
\* was handled it is the final one; a lookup that read the final status still holds.
RecordInv ==
    /\ record \in Told \cup {"none"}
    /\ <<LastEvent, 1>> \in handled => record = FinalStatus
    /\ \A p \in Pollers : lookup[p] # NotRead =>
          /\ lookup[p] \in Told \cup {"none"}
          /\ <<LastEvent, 1>> \in handled => lookup[p] = FinalStatus
          /\ lookup[p] = FinalStatus => record = FinalStatus
    /\ DOMAIN lookup = Pollers

ObsInv == DeliveryInv /\ RowsInv /\ RecordInv

\* What the events of a lifecycle tell.
LEMMA WhatIsTold ==
    ASSUME EndsOnce, lifecycle \in Lifecycles
    PROVE  /\ LastEvent \in Emitted /\ Emitted = 1 .. LastEvent /\ LastEvent \in Nat \ {0}
           /\ Emitted \subseteq Events
           /\ \A e \in Emitted : lifecycle[e] \in DOMAIN StatusOf /\ StatusOf[lifecycle[e]] \in Told
           /\ FinalStatus \in Told /\ Told \subseteq ExecutionStatuses
           /\ \A s \in Told : STATUS_RANK[s] \in Nat
           /\ \A s \in Told : s = FinalStatus \/ STATUS_RANK[s] < STATUS_RANK[FinalStatus]
<1>1. /\ lifecycle \in Seq(DOMAIN StatusOf) /\ DOMAIN lifecycle \subseteq Events /\ lifecycle # <<>>
      /\ \A i \in DOMAIN lifecycle : i < Len(lifecycle) =>
             STATUS_RANK[StatusOf[lifecycle[i]]] < STATUS_RANK[StatusOf[lifecycle[Len(lifecycle)]]]
    BY ProjectionAssumption DEF EndsOnce
<1>2. LastEvent \in Emitted /\ Emitted = 1 .. LastEvent /\ LastEvent \in Nat \ {0}
    BY <1>1 DEF LastEvent, Emitted
<1>3. \A e \in Emitted : lifecycle[e] \in DOMAIN StatusOf /\ StatusOf[lifecycle[e]] \in Told
    BY <1>1 DEF Emitted, Told
<1>4. \A type \in DOMAIN StatusOf : StatusOf[type] \in ExecutionStatuses
    BY DEF StatusOf, ExecutionStatuses
<1>5. \A s \in ExecutionStatuses : STATUS_RANK[s] \in Nat
    BY DEF STATUS_RANK, ExecutionStatuses
<1>6. Told \subseteq ExecutionStatuses
    BY <1>3, <1>4 DEF Told
<1>7. ASSUME NEW s \in Told
      PROVE  s = FinalStatus \/ STATUS_RANK[s] < STATUS_RANK[FinalStatus]
    <2>1. PICK e \in Emitted : s = StatusOf[lifecycle[e]]
        BY DEF Told
    <2>2. CASE e = LastEvent
        BY <2>1, <2>2 DEF FinalStatus, LastEvent
    <2>3. CASE e # LastEvent
        <3>1. e < LastEvent
            BY <1>2, <2>1, <2>3
        <3> QED
            BY <1>1, <2>1, <3>1 DEF FinalStatus, LastEvent, Emitted
    <2> QED
        BY <2>2, <2>3
<1>8. FinalStatus \in Told
    BY <1>2, <1>3 DEF FinalStatus, LastEvent
<1> QED
    BY <1>1, <1>2, <1>3, <1>5, <1>6, <1>7, <1>8 DEF Emitted

\* The observed outbox is the outbox: every step is one of its steps or none.
LEMMA ObservedIsBus ==
    ASSUME RowsInv, EndsOnce, [ObsNext]_obsVars
    PROVE  [BusNext]_busVars
<1>1. CASE UNCHANGED obsVars
    BY <1>1 DEF obsVars
<1>2. CASE BusStep
    <2>1. \A e \in Emitted : e \in Events
        BY WhatIsTold DEF RowsInv
    <2> QED
        BY <1>2, <2>1 DEF BusStep, BusNext, Dispatch
<1>3. CASE ObsCrash \/ RecordReport
    BY <1>3 DEF ObsCrash, RecordReport, BusNext
<1>4. ASSUME NEW p \in Pollers, FindExecution(p) \/ HandleExecutionEvent(p) \/ HandleFails(p)
      PROVE  [BusNext]_busVars
    BY <1>4 DEF FindExecution, HandleExecutionEvent, HandleFails, BusNext, Dispatch
<1> QED
    BY <1>1, <1>2, <1>3, <1>4 DEF ObsNext

\* A poller's next record holds events of the execution only.
Rows(call) ==
    /\ call.batch \in Seq(EmittedRow)
    /\ call.pc \in {"handle", "fail"} => call.batch # <<>>

LEMMA RowsMove ==
    ASSUME DeliveryInv, RowsInv, UNCHANGED lifecycle,
           NEW p \in Pollers, NEW call, poller' = [poller EXCEPT ![p] = call], Rows(call),
           \A e \in Events : outbox'[e].attempts \in Nat
                             /\ (outbox'[e].status # "none" => outbox[e].status # "none" \/ e \in Emitted)
    PROVE  RowsInv'
<1>1. poller'[p] = call /\ \A q \in Pollers \ {p} : poller'[q] = poller[q]
    BY DEF DeliveryInv, Shapes
<1>2. Emitted' = Emitted /\ EmittedRow' = EmittedRow
    BY DEF Emitted, EmittedRow
<1> QED
    BY <1>1, <1>2 DEF RowsInv, Rows

LEMMA RowEmitted ==
    ASSUME RowsInv, NEW p \in Pollers, poller[p].pc \in {"handle", "fail"}
    PROVE  /\ poller[p].batch # <<>> /\ poller[p].batch \in Seq(EmittedRow)
           /\ Row(p).id \in Emitted /\ Row(p).attempts \in Nat
<1>1. poller[p].batch # <<>> /\ poller[p].batch \in Seq(EmittedRow)
    BY DEF RowsInv
<1>2. Row(p) \in EmittedRow
    BY <1>1 DEF Row
<1> QED
    BY <1>1, <1>2 DEF EmittedRow

LEMMA StepRows ==
    ASSUME DeliveryInv, RowsInv, EndsOnce, [ObsNext]_obsVars
    PROVE  RowsInv'
<1>1. lifecycle' = lifecycle /\ Emitted' = Emitted /\ EmittedRow' = EmittedRow
    BY DEF ObsNext, obsVars, BusStep, ObsCrash, RecordReport, FindExecution, HandleExecutionEvent,
           HandleFails, Emitted, EmittedRow
<1>2. CASE UNCHANGED <<outbox, poller>>
    BY <1>1, <1>2 DEF RowsInv
<1>3. ASSUME NEW p \in Pollers, poller[p].pc \in {"handle", "fail"}
      PROVE  /\ poller[p].batch # <<>> /\ poller[p].batch \in Seq(EmittedRow)
             /\ Row(p).id \in Emitted /\ Row(p).attempts \in Nat
    BY <1>3, RowEmitted
<1>4. ASSUME NEW e \in Emitted, PublishEvent(e) \/ BecomesDue(e)
      PROVE  RowsInv'
    BY <1>1, <1>4 DEF PublishEvent, BecomesDue, RowsInv, DeliveryInv, Shapes
<1>5. ASSUME NEW p \in Pollers, FindDue(p)
      PROVE  RowsInv'
    <2>1. PICK first \in Oldest(Due) :
              poller' = [poller EXCEPT ![p] =
                           [pc |-> "claim", handler |-> 1,
                            batch |-> [i \in DOMAIN first |->
                                         [id |-> first[i], attempts |-> outbox[first[i]].attempts]]]]
        BY <1>5 DEF FindDue
    <2> DEFINE batch == [i \in DOMAIN first |-> [id |-> first[i], attempts |-> outbox[first[i]].attempts]]
               call == [pc |-> "claim", handler |-> 1, batch |-> batch]
    <2>2. Due \subseteq Emitted /\ Due \subseteq Events
        BY DEF Due, RowsInv, HasStatus
    <2>3. Cardinality(Due) \in Nat
        <3>1. IsFiniteSet(1 .. LastEvent)
            BY WhatIsTold, FS_Interval DEF RowsInv
        <3> QED
            BY <2>2, <3>1, WhatIsTold, FS_Subset, FS_CardinalityType DEF RowsInv
    <2>4. PICK n \in Nat : first \in [1 .. n -> Due]
        BY <2>1, <2>3, BusAssumption DEF Oldest
    <2>5. \A i \in 1 .. n : [id |-> first[i], attempts |-> outbox[first[i]].attempts] \in EmittedRow
        BY <2>2, <2>4 DEF EmittedRow, RowsInv
    <2>6. batch \in Seq(EmittedRow)
        BY <2>4, <2>5
    <2> HIDE DEF batch
    <2>7. Rows(call)
        BY <2>6 DEF Rows
    <2>8. poller' = [poller EXCEPT ![p] = call]
        BY <2>1 DEF batch
    <2>9. UNCHANGED outbox
        BY <1>5 DEF FindDue
    <2> HIDE DEF call
    <2> QED
        BY <1>1, <2>7, <2>8, <2>9, RowsMove DEF RowsInv
<1>6. ASSUME NEW p \in Pollers, ClaimRows(p)
      PROVE  RowsInv'
    <2>1. PICK claimed \in SUBSET Events :
            /\ claimed = {e \in Events : /\ HasStatus(e, "PENDING")
                                         /\ \E i \in DOMAIN poller[p].batch : poller[p].batch[i].id = e}
            /\ outbox' = [e \in Events |-> IF e \in claimed THEN [outbox[e] EXCEPT !.status = "PROCESSING"]
                                                            ELSE outbox[e]]
            /\ poller' = [poller EXCEPT ![p] = IF claimed = {} THEN NotPolling ELSE [@ EXCEPT !.pc = "handle"]]
        BY <1>6 DEF ClaimRows
    <2> DEFINE call == IF claimed = {} THEN NotPolling ELSE [poller[p] EXCEPT !.pc = "handle"]
    <2>2. poller' = [poller EXCEPT ![p] = call]
        BY <2>1 DEF DeliveryInv, Shapes
    <2>3. claimed # {} => poller[p].batch # <<>>
        BY <2>1
    <2>4. Rows(call)
        <3>1. CASE claimed = {}
            BY <3>1 DEF Rows, NotPolling
        <3>2. CASE claimed # {}
            BY <2>3, <3>2 DEF Rows, RowsInv, DeliveryInv, Shapes
        <3> QED
            BY <3>1, <3>2
    <2>5. \A e \in Events : outbox'[e].attempts \in Nat /\
              (outbox'[e].status # "none" => outbox[e].status # "none" \/ e \in Emitted)
        BY <2>1 DEF RowsInv, DeliveryInv, Shapes, HasStatus
    <2> HIDE DEF call
    <2> QED
        BY <1>1, <2>2, <2>4, <2>5, RowsMove
<1>7. ASSUME NEW p \in Pollers, HandlerSucceeds(p) \/ HandlerFails(p)
      PROVE  RowsInv'
    <2>1. PICK call : /\ poller' = [poller EXCEPT ![p] = call] /\ call.batch = poller[p].batch
                      /\ call.pc \in {"handle", "fail"}
        <3>1. CASE HandlerSucceeds(p)
            <4> DEFINE call == [poller[p] EXCEPT !.handler = @ + 1]
            <4>1. poller' = [poller EXCEPT ![p] = call] /\ call.batch = poller[p].batch /\ call.pc = "handle"
                BY <3>1 DEF HandlerSucceeds, DeliveryInv, Shapes
            <4> QED
                BY <4>1
        <3>2. CASE HandlerFails(p)
            <4> DEFINE call == [poller[p] EXCEPT !.pc = "fail"]
            <4>1. poller' = [poller EXCEPT ![p] = call] /\ call.batch = poller[p].batch /\ call.pc = "fail"
                BY <3>2 DEF HandlerFails, DeliveryInv, Shapes
            <4> QED
                BY <4>1
        <3> QED
            BY <1>7, <3>1, <3>2
    <2>2. poller[p].pc = "handle" /\ UNCHANGED outbox
        BY <1>7 DEF HandlerSucceeds, HandlerFails
    <2> QED
        BY <1>1, <1>3, <2>1, <2>2, RowsMove DEF Rows, RowsInv
<1>8. ASSUME NEW p \in Pollers, MarkDone(p) \/ MarkFailed(p)
      PROVE  RowsInv'
    <2>1. poller[p].pc \in {"handle", "fail"} /\ poller' = NextRow(p)
        BY <1>8 DEF MarkDone, MarkFailed
    <2> DEFINE call == IF Len(poller[p].batch) = 1 THEN NotPolling
                       ELSE [pc |-> "handle", batch |-> Tail(poller[p].batch), handler |-> 1]
    <2>2. poller' = [poller EXCEPT ![p] = call]
        BY <2>1 DEF NextRow, DeliveryInv, Shapes
    <2>3. Rows(call)
        <3>1. CASE Len(poller[p].batch) = 1
            BY <3>1 DEF Rows, NotPolling
        <3>2. CASE Len(poller[p].batch) # 1
            <4>1. Tail(poller[p].batch) \in Seq(EmittedRow) /\ Tail(poller[p].batch) # <<>>
                <5> DEFINE rows == poller[p].batch
                <5>1. rows \in Seq(EmittedRow) /\ rows # <<>> /\ Len(rows) # 1
                    BY <1>3, <2>1, <3>2
                <5> HIDE DEF rows
                <5>2. Len(rows) \in Nat \ {0}
                    BY <5>1, EmptySeq, Zenon
                <5>3. Tail(rows) \in Seq(EmittedRow) /\ Len(Tail(rows)) = Len(rows) - 1
                    BY <5>1, HeadTailProperties, Zenon
                <5>4. Len(<<>>) = 0
                    BY EmptySeq, Zenon
                <5>5. Len(rows) - 1 # 0
                    BY <5>1, <5>2
                <5>6. Tail(rows) # <<>>
                    BY <5>3, <5>4, <5>5, Zenon
                <5> QED
                    BY <5>3, <5>6 DEF rows
            <4> QED
                BY <3>2, <4>1 DEF Rows
        <3> QED
            BY <3>1, <3>2
    <2>4. \A e \in Events : outbox'[e].attempts \in Nat /\
              (outbox'[e].status # "none" => outbox[e].status # "none" \/ e \in Emitted)
        <3>1. Row(p).id \in Emitted /\ Row(p).attempts + 1 \in Nat
            BY <1>3, <2>1
        <3>2. CASE MarkDone(p)
            BY <3>1, <3>2 DEF MarkDone, RowsInv, DeliveryInv, Shapes
        <3>3. CASE MarkFailed(p)
            BY <3>1, <3>3 DEF MarkFailed, AfterFailure, RowsInv, DeliveryInv, Shapes
        <3> QED
            BY <1>8, <3>2, <3>3
    <2> HIDE DEF call
    <2> QED
        BY <1>1, <2>2, <2>3, <2>4, RowsMove
<1>9. ASSUME NEW p \in Pollers, DatabaseFault(p)
      PROVE  RowsInv'
    <2> DEFINE failed == [poller[p] EXCEPT !.pc = "fail"]
    <2>1. \/ poller' = [poller EXCEPT ![p] = NotPolling]
          \/ poller' = [poller EXCEPT ![p].pc = "fail"] /\ poller[p].pc = "handle"
        BY <1>9 DEF DatabaseFault
    <2>2. UNCHANGED outbox
        BY <1>9 DEF DatabaseFault
    <2>3. CASE poller' = [poller EXCEPT ![p] = NotPolling]
        <3>1. Rows(NotPolling)
            BY DEF Rows, NotPolling
        <3> QED
            BY <1>1, <2>2, <2>3, <3>1, RowsMove DEF RowsInv
    <2>4. CASE poller' = [poller EXCEPT ![p].pc = "fail"] /\ poller[p].pc = "handle"
        <3>1. /\ poller' = [poller EXCEPT ![p] = failed]
              /\ failed.batch = poller[p].batch
            BY <2>4 DEF DeliveryInv, Shapes
        <3>2. Rows(failed)
            BY <1>3, <2>4, <3>1 DEF Rows
        <3> HIDE DEF failed
        <3> QED
            BY <1>1, <2>2, <3>1, <3>2, RowsMove DEF RowsInv
    <2> QED
        BY <2>1, <2>3, <2>4
<1>10. CASE BusCrash
    <2>1. outbox' = outbox /\ \A p \in Pollers : poller'[p].batch = <<>> /\ poller'[p].pc = "idle"
        BY <1>10 DEF BusCrash, NotPolling
    <2>2. <<>> \in Seq(EmittedRow)
        OBVIOUS
    <2> QED
        BY <1>1, <2>1, <2>2 DEF RowsInv
<1>11. CASE BusStep
    BY <1>4, <1>5, <1>6, <1>7, <1>8, <1>9, <1>11 DEF BusStep
<1> QED
    BY <1>2, <1>7, <1>10, <1>11 DEF ObsNext, obsVars, busVars, ObsCrash, RecordReport,
       FindExecution, HandleExecutionEvent, HandleFails

\* Whatever a lookup read, a handler leaves a status that was told; when it handles the
\* last event, or after that one, it leaves the final status.
LEMMA NextStatusSound ==
    ASSUME EndsOnce, RowsInv, RecordInv,
           NEW p \in Pollers, lookup[p] # NotRead, NEW e \in Emitted
    PROVE  LET next == NextStatus(lookup[p], lifecycle[e])
           IN  /\ next \in Told \cup {"none"}
               /\ e = LastEvent \/ <<LastEvent, 1>> \in handled => next = FinalStatus
<1> DEFINE told == StatusOf[lifecycle[e]]
           next == NextStatus(lookup[p], lifecycle[e])
<1>1. /\ told \in Told /\ FinalStatus \in Told /\ Told \subseteq ExecutionStatuses
      /\ \A s \in Told : STATUS_RANK[s] \in Nat
      /\ \A s \in Told : s = FinalStatus \/ STATUS_RANK[s] < STATUS_RANK[FinalStatus]
    BY WhatIsTold DEF RowsInv
<1>2. next = record \/ next = told
    BY DEF NextStatus
<1>3. ASSUME e = LastEvent
      PROVE  next = FinalStatus
    <2>1. told = FinalStatus
        BY <1>3 DEF FinalStatus, LastEvent
    <2>2. CASE lookup[p] # "none" /\ STATUS_RANK[told] <= STATUS_RANK[lookup[p]]
        <3>1. lookup[p] \in Told
            BY <2>2 DEF RecordInv
        <3>2. lookup[p] = FinalStatus
            BY <1>1, <2>1, <2>2, <3>1
        <3> QED
            BY <2>2, <3>2 DEF RecordInv, NextStatus
    <2>3. CASE ~(lookup[p] # "none" /\ STATUS_RANK[told] <= STATUS_RANK[lookup[p]])
        BY <2>1, <2>3 DEF NextStatus
    <2> QED
        BY <2>2, <2>3
<1>4. ASSUME <<LastEvent, 1>> \in handled
      PROVE  next = FinalStatus
    <2>1. lookup[p] = FinalStatus /\ record = FinalStatus
        BY <1>4 DEF RecordInv
    <2>2. STATUS_RANK[told] <= STATUS_RANK[FinalStatus]
        <3> HIDE DEF told
        <3>1. STATUS_RANK[told] \in Nat /\ STATUS_RANK[FinalStatus] \in Nat
            BY <1>1
        <3> QED
            BY <1>1, <3>1
    <2> QED
        <3>1. FinalStatus # "none"
            BY <1>1 DEF ExecutionStatuses
        <3> QED
            BY <2>1, <2>2, <3>1 DEF NextStatus
<1>5. next \in Told \cup {"none"}
    BY <1>1, <1>2 DEF RecordInv
<1> QED
    BY <1>3, <1>4, <1>5

LEMMA StepRecord ==
    ASSUME EndsOnce, OnePoller, DeliveryInv, RowsInv, RecordInv, [ObsNext]_obsVars
    PROVE  RecordInv'
<1>1. /\ LastEvent' = LastEvent /\ Told' = Told /\ FinalStatus' = FinalStatus
      /\ lifecycle' = lifecycle
    BY DEF ObsNext, obsVars, BusStep, ObsCrash, RecordReport, FindExecution, HandleExecutionEvent,
           HandleFails, Emitted, LastEvent, Told, FinalStatus
<1>2. FinalStatus \in Told /\ FinalStatus # NotRead /\ "none" # NotRead
    BY WhatIsTold, ProjectionAssumption DEF RowsInv, RecordStatuses
<1>3. ASSUME UNCHANGED <<record, lookup>>, <<LastEvent, 1>> \in handled' => <<LastEvent, 1>> \in handled
      PROVE  RecordInv'
    BY <1>1, <1>3 DEF RecordInv
<1>4. CASE UNCHANGED obsVars
    BY <1>3, <1>4 DEF obsVars, busVars
<1>5. CASE BusStep
    <2>1. UNCHANGED <<record, lookup>>
        BY <1>5 DEF BusStep
    <2>2. <<LastEvent, 1>> \in handled' => <<LastEvent, 1>> \in handled
        <3>1. ASSUME NEW q \in Pollers, ~Observes(q), HandlerSucceeds(q)
              PROVE  <<LastEvent, 1>> \in handled' => <<LastEvent, 1>> \in handled
            <4>1. poller[q].handler # 1 /\ handled' = handled \cup {<<Row(q).id, poller[q].handler>>}
                BY <3>1 DEF Observes, HandlerSucceeds
            <4> QED
                BY <4>1
        <3>2. UNCHANGED handled \/ \E q \in Pollers : ~Observes(q) /\ HandlerSucceeds(q)
            BY <1>5 DEF BusStep, PublishEvent, BecomesDue, FindDue, ClaimRows, MarkDone, MarkFailed,
                        DatabaseFault, HandlerFails
        <3> QED
            BY <3>1, <3>2
    <2> QED
        BY <1>3, <2>1, <2>2
<1>6. CASE ObsCrash
    BY <1>1, <1>6 DEF ObsCrash, BusCrash, RecordInv
<1>7. CASE RecordReport
    BY <1>1, <1>2, <1>7 DEF RecordReport, RecordInv, busVars
<1>8. ASSUME NEW p \in Pollers, FindExecution(p)
      PROVE  RecordInv'
    <2>1. lookup' = [lookup EXCEPT ![p] = record] /\ UNCHANGED <<record, handled>>
        BY <1>8 DEF FindExecution, busVars
    <2>2. lookup'[p] = record /\ DOMAIN lookup' = Pollers
        BY <2>1 DEF RecordInv
    <2>3. \A q \in Pollers : q = p
        BY DEF OnePoller
    <2> QED
        BY <1>1, <2>1, <2>2, <2>3 DEF RecordInv
<1>9. ASSUME NEW p \in Pollers, HandleExecutionEvent(p)
      PROVE  RecordInv'
    <2>1. /\ lookup[p] # NotRead /\ poller[p].pc = "handle" /\ poller[p].handler = 1
          /\ handled' = handled \cup {<<Row(p).id, 1>>}
          /\ record' = NextStatus(lookup[p], lifecycle[Row(p).id])
          /\ lookup' = [lookup EXCEPT ![p] = NotRead]
        BY <1>9 DEF HandleExecutionEvent, Observes, HandlerSucceeds
    <2>2. Row(p).id \in Emitted
        BY <2>1, RowEmitted
    <2>3. /\ record' \in Told \cup {"none"}
          /\ Row(p).id = LastEvent \/ <<LastEvent, 1>> \in handled => record' = FinalStatus
        BY <2>1, <2>2, NextStatusSound
    <2>4. \A q \in Pollers : lookup'[q] = NotRead
        BY <2>1 DEF RecordInv, OnePoller
    <2>5. DOMAIN lookup' = Pollers
        BY <2>1 DEF RecordInv
    <2> QED
        BY <1>1, <2>1, <2>3, <2>4, <2>5 DEF RecordInv
<1>10. ASSUME NEW p \in Pollers, HandleFails(p)
      PROVE  RecordInv'
    <2>1. /\ poller[p].pc = "handle" /\ handled' = handled
          /\ \/ record' = record
             \/ lookup[p] # NotRead /\ record' = NextStatus(lookup[p], lifecycle[Row(p).id])
          /\ lookup' = [lookup EXCEPT ![p] = NotRead]
        BY <1>10 DEF HandleFails, HandlerFails, Observes
    <2>2. Row(p).id \in Emitted
        BY <2>1, RowEmitted
    <2>3. /\ record' \in Told \cup {"none"}
          /\ <<LastEvent, 1>> \in handled => record' = FinalStatus
        BY <2>1, <2>2, NextStatusSound DEF RecordInv
    <2>4. \A q \in Pollers : lookup'[q] = NotRead
        BY <2>1 DEF RecordInv, OnePoller
    <2>5. DOMAIN lookup' = Pollers
        BY <2>1 DEF RecordInv
    <2> QED
        BY <1>1, <2>1, <2>3, <2>4, <2>5 DEF RecordInv
<1> QED
    BY <1>4, <1>5, <1>6, <1>7, <1>8, <1>9, <1>10 DEF ObsNext

\* Whichever events come late, twice or after a rejected write, and whenever the report
\* is handed over, the stored record ends with the status the execution ended with: for
\* every execution that ends once, when calls of processNext do not overlap.
THEOREM RecordConverges == ASSUME EndsOnce, OnePoller PROVE ObsSpec => []ProjectionConverges
<1>1. ObsInit => ObsInv
    <2>1. BusInit => DeliveryInv
        BY DEF BusInit, DeliveryInv, Shapes, HandledSoFar, DoneWasHandled, HasStatus, NotPolling
    <2>2. <<>> \in Seq(EmittedRow)
        OBVIOUS
    <2>3. ObsInit => RowsInv
        <3> SUFFICES ASSUME ObsInit PROVE RowsInv
            OBVIOUS
        <3>1. /\ lifecycle \in Lifecycles
              /\ \A e \in Events : outbox[e].status = "none" /\ outbox[e].attempts = 0
              /\ \A p \in Pollers : poller[p].batch = <<>> /\ poller[p].pc = "idle"
            BY DEF ObsInit, BusInit, NotPolling
        <3>2. \A e \in Events : outbox[e].attempts \in Nat /\ (outbox[e].status # "none" => e \in Emitted)
            BY <3>1
        <3>3. \A p \in Pollers : poller[p].batch \in Seq(EmittedRow)
            BY <2>2, <3>1
        <3>4. \A p \in Pollers : poller[p].pc \in {"handle", "fail"} => poller[p].batch # <<>>
            BY <3>1
        <3> QED
            BY <3>1, <3>2, <3>3, <3>4 DEF RowsInv
    <2>4. ObsInit => RecordInv
        BY DEF ObsInit, BusInit, RecordInv
    <2> QED
        BY <2>1, <2>3, <2>4 DEF ObsInit, ObsInv
<1>2. ObsInv /\ [ObsNext]_obsVars => ObsInv'
    BY ObservedIsBus, StepDelivers, StepRows, StepRecord DEF ObsInv
<1>3. ObsInv => ProjectionConverges
    <2> SUFFICES ASSUME ObsInv, \A e \in Emitted : HasStatus(e, "DONE")
                 PROVE  record = FinalStatus
        BY DEF ProjectionConverges
    <2>1. LastEvent \in Emitted /\ LastEvent \in Events
        BY WhatIsTold DEF ObsInv, RowsInv
    <2>2. 1 \in 1 .. Subscribers[LastEvent]
        BY <2>1, ProjectionAssumption, BusAssumption
    <2>3. <<LastEvent, 1>> \in handled
        BY <2>1, <2>2 DEF ObsInv, DeliveryInv, DoneWasHandled
    <2> QED
        BY <2>3 DEF ObsInv, RecordInv
<1> QED
    BY <1>1, <1>2, <1>3, PTL DEF ObsSpec

-----------------------------------------------------------------------------
(* The web session *)

\* What the store says of a signed-in session is what is saved.
SavedInv == authState.status = "authenticated" => storage = authState.session

\* A path that may be shown to whoever auth says is signed in.
MayShow(auth, path) ==
    \A i \in DOMAIN WebRoutes :
        WebRoutes[i].path = path /\ WebRoutes[i].permission # Public =>
            auth.status = "authenticated" /\ WebRoutes[i].permission \in PermissionsOf(auth)

LEMMA LeastIndex ==
    ASSUME NEW T \in SUBSET Nat, T # {}
    PROVE  \E least \in T : \A other \in T : least <= other
<1>1. \A x, y \in Nat : <<x, y>> \in OpToRel(<, Nat) <=> x < y
    BY DEF OpToRel
<1>2. PICK Less : IsWellFoundedOn(Less, Nat) /\ \A x, y \in Nat : <<x, y>> \in Less <=> x < y
    BY <1>1, NatLessThanWellFounded, Zenon
<1>3. \A R, S, U : IsWellFoundedOn(R, S) /\ U \subseteq S /\ U # {} =>
                       \E x \in U : \A y \in U : ~ (<<y, x>> \in R)
    BY WFMin, Zenon
<1>4. PICK x \in T : \A y \in T : ~ (<<y, x>> \in Less)
    <2>1. IsWellFoundedOn(Less, Nat) /\ T \subseteq Nat /\ T # {}
        BY <1>2
    <2> QED
        BY <1>3, <2>1, Zenon
<1>5. ASSUME NEW y \in T
      PROVE  x <= y
    <2>1. x \in Nat /\ y \in Nat /\ ~ (y < x)
        BY <1>2, <1>4
    <2> QED
        BY <2>1
<1> QED
    BY <1>5

\* The first of a set of routes is one of them.
LEMMA FirstIsOne ==
    ASSUME NEW S \in SUBSET DOMAIN WebRoutes, S # {}
    PROVE  \E i \in S : FirstOf(S) = WebRoutes[i]
<1>1. S \in SUBSET Nat
    BY WebSessionAssumption
<1>2. \E i \in S : \A j \in S : i <= j
    BY <1>1, LeastIndex
<1> QED
    BY <1>2 DEF FirstOf

\* The landing page is one that the permissions let see, or the sign-in page.
LEMMA LandingMayShow ==
    ASSUME NEW auth, auth.status = "authenticated"
    PROVE  MayShow(auth, LandingPath(PermissionsOf(auth)))
<1> DEFINE seen == VisibleRoutes(PermissionsOf(auth))
           landing == {i \in seen : WebRoutes[i].isLanding}
<1>1. CASE seen = {}
    BY <1>1, WebSessionAssumption DEF MayShow, LandingPath
<1>2. CASE seen # {}
    <2> DEFINE from == IF landing # {} THEN landing ELSE seen
    <2>1. from # {} /\ from \subseteq seen /\ seen \subseteq DOMAIN WebRoutes
        BY <1>2 DEF VisibleRoutes
    <2>2. LandingPath(PermissionsOf(auth)) = FirstOf(from).path
        BY <1>2 DEF LandingPath
    <2>3. PICK i \in from : FirstOf(from) = WebRoutes[i]
        BY <2>1, FirstIsOne
    <2>4. i \in DOMAIN WebRoutes /\ WebRoutes[i].permission \in PermissionsOf(auth)
        BY <2>1, <2>3 DEF VisibleRoutes
    <2>5. \A j \in DOMAIN WebRoutes : WebRoutes[j].path = WebRoutes[i].path => j = i
        BY <2>4, WebSessionAssumption
    <2> QED
        BY <2>2, <2>3, <2>4, <2>5 DEF MayShow
<1> QED
    BY <1>1, <1>2

\* Whatever path is asked for, what the guards let through may be shown.
LEMMA ResolvedMayShow ==
    ASSUME NEW auth, NEW path
    PROVE  MayShow(auth, Resolved(auth, path))
<1> DEFINE route == FirstOf(RoutesOf(path))
           permissions == PermissionsOf(auth)
<1>1. MayShow(auth, LoginPath)
    BY WebSessionAssumption DEF MayShow
<1>2. CASE RoutesOf(path) = {}
    BY <1>2 DEF RoutesOf, Resolved, MayShow
<1>3. CASE RoutesOf(path) # {}
    <2>1. PICK i \in RoutesOf(path) : route = WebRoutes[i]
        BY <1>3, FirstIsOne DEF RoutesOf
    <2>2. i \in DOMAIN WebRoutes /\ WebRoutes[i].path = path
        BY <2>1 DEF RoutesOf
    <2>3. \A j \in DOMAIN WebRoutes : WebRoutes[j].path = path => j = i
        BY <2>2, WebSessionAssumption
    <2>4. CASE auth.status = "authenticated" /\ (route.permission = Public \/ route.permission \notin permissions)
        BY <1>3, <2>4, LandingMayShow DEF Resolved
    <2>5. CASE auth.status # "authenticated" /\ route.permission # Public
        BY <1>1, <1>3, <2>5 DEF Resolved
    <2>6. CASE auth.status # "authenticated" /\ route.permission = Public
        BY <1>3, <2>1, <2>3, <2>6 DEF Resolved, MayShow
    <2>7. CASE auth.status = "authenticated" /\ route.permission # Public /\ route.permission \in permissions
        BY <1>3, <2>1, <2>3, <2>7 DEF Resolved, MayShow
    <2> QED
        BY <2>4, <2>5, <2>6, <2>7
<1> QED
    BY <1>2, <1>3

\* A page is entered only by someone who may see it then.
Entered == router'.path # router.path => MayShow(authState', router'.path)

LEMMA NavigatedIsEntered ==
    ASSUME NEW auth, NEW path, authState' = auth, router' = Navigated(auth, path)
    PROVE  Entered
<1>1. CASE Resolved(auth, path) = router.path
    BY <1>1 DEF Navigated, Entered
<1>2. CASE Resolved(auth, path) # router.path
    <2>1. router'.path = Resolved(auth, path)
        BY <1>2 DEF Navigated
    <2> QED
        BY <2>1, ResolvedMayShow DEF Entered
<1> QED
    BY <1>1, <1>2

LEMMA StepWeb ==
    ASSUME SavedInv, [WebNext]_webVars
    PROVE  SavedInv' /\ Entered
<1> USE DEF Anonymous, SignedIn, Authenticating
<1>1. CASE UNCHANGED webVars
    BY <1>1 DEF webVars, SavedInv, Entered
<1>2. CASE Back
    <2>1. router'.path = Resolved(authState, Last(router.history)) /\ UNCHANGED <<authState, storage>>
        BY <1>2 DEF Back
    <2> QED
        BY <2>1, ResolvedMayShow DEF SavedInv, Entered
<1>3. ASSUME NEW path \in WebPaths, Navigate(path)
      PROVE  SavedInv' /\ Entered
    BY <1>3, NavigatedIsEntered DEF Navigate, SavedInv
<1>4. ASSUME NEW s \in WebSessions, SetSession(s) \/ Expire(s)
      PROVE  SavedInv' /\ Entered
    BY <1>4 DEF SetSession, Expire, SavedInv, Entered
<1>5. ASSUME NEW c \in WebCalls
      PROVE  /\ BeginLogin(c) \/ FailCall(c) \/ BeginRefresh(c) \/ BeginLogout(c) => SavedInv' /\ Entered
             /\ Restore(c) \/ FailRestore(c) => SavedInv' /\ Entered
    BY <1>5 DEF BeginLogin, FailCall, BeginRefresh, BeginLogout, Restore, FailRestore, SavedInv, Entered
<1>6. ASSUME NEW c \in WebCalls, EndLogout(c)
      PROVE  SavedInv' /\ Entered
    <2>1. SavedInv'
        BY <1>6 DEF EndLogout, SavedInv
    <2> QED
        BY <1>6, <2>1, NavigatedIsEntered DEF EndLogout
<1>7. ASSUME NEW c \in WebCalls, NEW s \in WebSessions, EndRefresh(c, s)
      PROVE  SavedInv' /\ Entered
    BY <1>7 DEF EndRefresh, SavedInv, Entered
<1>8. ASSUME NEW c \in WebCalls, NEW s \in WebSessions, NEW path, EndLogin(c, s, path)
      PROVE  SavedInv' /\ Entered
    <2>1. SavedInv'
        BY <1>8 DEF EndLogin, SavedInv
    <2> QED
        BY <1>8, <2>1, NavigatedIsEntered DEF EndLogin
<1> QED
    BY <1>1, <1>2, <1>3, <1>4, <1>5, <1>6, <1>7, <1>8 DEF WebNext

\* Whoever is shown as signed in is so after a reload, and a protected page is entered by someone who may see it
\* then, by a link, after signing in, as the landing page or going back (apps/web/src/nav/router.ts:33-34): for
\* every list of routes without two of one path, every grant of permissions and any number of calls under way.
THEOREM SignedInStaysSaved == WebSpec => SignedInMeansSaved
<1>1. WebInit => SavedInv
    BY DEF WebInit, Anonymous, SavedInv
<1>2. SavedInv /\ [WebNext]_webVars => SavedInv'
    BY StepWeb
<1>3. SavedInv /\ SavedInv' /\ [WebNext]_webVars =>
          [/\ authState'.status = "authenticated" => storage' = authState'.session
           /\ router'.path # router.path =>
                \A i \in DOMAIN WebRoutes :
                    WebRoutes[i].path = router'.path /\ WebRoutes[i].permission # Public =>
                        /\ authState'.status = "authenticated"
                        /\ WebRoutes[i].permission \in PermissionsOf(authState')]_webVars
    BY StepWeb DEF SavedInv, Entered, MayShow
<1> QED
    BY <1>1, <1>2, <1>3, PTL DEF WebSpec, SignedInMeansSaved

-----------------------------------------------------------------------------
(* The least of a set of numbers *)

LEMMA LeastNumber ==
    ASSUME NEW T \in SUBSET Nat, T # {}
    PROVE  \E least \in T : \A other \in T : least <= other
<1>1. \A x, y \in Nat : <<x, y>> \in OpToRel(<, Nat) <=> x < y
    BY DEF OpToRel
<1>2. PICK Less : IsWellFoundedOn(Less, Nat) /\ \A x, y \in Nat : <<x, y>> \in Less <=> x < y
    BY <1>1, NatLessThanWellFounded, Zenon
<1>3. \A R, S, U : IsWellFoundedOn(R, S) /\ U \subseteq S /\ U # {} =>
                       \E x \in U : \A y \in U : ~ (<<y, x>> \in R)
    BY WFMin, Zenon
<1>4. PICK x \in T : \A y \in T : ~ (<<y, x>> \in Less)
    <2>1. IsWellFoundedOn(Less, Nat) /\ T \subseteq Nat /\ T # {}
        BY <1>2
    <2> QED
        BY <1>3, <2>1, Zenon
<1>5. ASSUME NEW y \in T
      PROVE  x <= y
    <2>1. x \in Nat /\ y \in Nat /\ ~ (y < x)
        BY <1>2, <1>4
    <2> QED
        BY <2>1
<1> QED
    BY <1>5

-----------------------------------------------------------------------------
(* The cron search *)

\* What the search has passed over does not match, and where the expression
\* has no seconds the candidate is a full minute.
Passed == \A t \in Instants : Earlier(after, t) /\ Earlier(t, candidate) => ~Fires(t)

CronInv ==
    /\ after \in Afters /\ after \in Instants /\ candidate \in Instants
    /\ cron.seconds \subseteq 0 .. LastSecond /\ cron.minutes \subseteq 0 .. LastMinute
    /\ cron.hours \subseteq 0 .. LastHour
    /\ Earlier(after, candidate) /\ (cron.seconds = {} => candidate.second = 0)
    /\ fireTime = {} => Passed
    /\ NextAfterIsNext

LEMMA CalendarBounds == LastHour \in Nat /\ LastMinute \in Nat /\ LastSecond \in Nat /\ SearchYears \in Nat
    BY CalendarAssumption

LEMMA CalendarFacts ==
    /\ LastHour \in Nat /\ LastMinute \in Nat /\ LastSecond \in Nat /\ SearchYears \in Nat
    /\ Len(Calendar) \in Nat /\ DOMAIN Calendar = 1 .. Len(Calendar)
    /\ \A k \in DOMAIN Calendar : Calendar[k].year \in Nat
    /\ \A k \in DOMAIN Calendar : k > 1 =>
          /\ k - 1 \in DOMAIN Calendar /\ Calendar[k - 1].year <= Calendar[k].year
          /\ Calendar[k].date # 1 => Calendar[k].month = Calendar[k - 1].month
<1>1. LastHour \in Nat /\ LastMinute \in Nat /\ LastSecond \in Nat /\ SearchYears \in Nat
    BY CalendarBounds
<1>2. Calendar \in Seq([year : Nat, month : Nat, date : Nat])
    BY CalendarAssumption
<1>3. Len(Calendar) \in Nat /\ DOMAIN Calendar = 1 .. Len(Calendar)
    BY <1>2
<1>4. \A k \in DOMAIN Calendar : Calendar[k] \in [year : Nat, month : Nat, date : Nat]
    BY <1>2, <1>3, ElementOfSeq
<1>5. \A k \in DOMAIN Calendar : k > 1 => k - 1 \in DOMAIN Calendar
    BY <1>3
<1> QED
    BY <1>1, <1>3, <1>4, <1>5, CalendarAssumption

LEMMA YearsPass ==
    ASSUME NEW d \in DOMAIN Calendar, NEW e \in DOMAIN Calendar, d <= e
    PROVE  Calendar[d].year <= Calendar[e].year
<1> DEFINE earlier == {k \in DOMAIN Calendar : d <= k /\ Calendar[k].year < Calendar[d].year}
<1>1. /\ DOMAIN Calendar \subseteq Nat \ {0} /\ \A k \in DOMAIN Calendar : Calendar[k].year \in Nat
      /\ \A k \in DOMAIN Calendar : k > 1 => k - 1 \in DOMAIN Calendar /\ Calendar[k - 1].year <= Calendar[k].year
    BY CalendarFacts
<1>2. SUFFICES ASSUME earlier # {}
               PROVE  FALSE
    BY <1>1
<1>3. earlier \in SUBSET Nat
    BY <1>1
<1> HIDE DEF earlier
<1>4. PICK k \in earlier : \A other \in earlier : k <= other
    BY <1>2, <1>3, LeastNumber
<1>5. k \in DOMAIN Calendar /\ d < k /\ Calendar[k].year < Calendar[d].year
    BY <1>1, <1>4 DEF earlier
<1>6. k - 1 \in earlier
    BY <1>1, <1>5 DEF earlier
<1> QED
    BY <1>1, <1>4, <1>5, <1>6

LEMMA MonthLasts ==
    ASSUME NEW d \in DOMAIN Calendar, NEW e \in DOMAIN Calendar, d <= e,
           \A k \in d + 1 .. e : Calendar[k].date # 1
    PROVE  Calendar[e].month = Calendar[d].month
<1> DEFINE others == {k \in d .. e : Calendar[k].month # Calendar[d].month}
<1>1. /\ DOMAIN Calendar \subseteq Nat \ {0} /\ d .. e \subseteq DOMAIN Calendar
      /\ \A k \in DOMAIN Calendar :
            k > 1 /\ Calendar[k].date # 1 => Calendar[k].month = Calendar[k - 1].month
    BY CalendarFacts
<1>2. SUFFICES ASSUME others # {}
               PROVE  FALSE
    BY <1>1
<1>3. others \in SUBSET Nat
    BY <1>1
<1> HIDE DEF others
<1>4. PICK k \in others : \A other \in others : k <= other
    BY <1>2, <1>3, LeastNumber
<1>5. k \in d + 1 .. e /\ k \in DOMAIN Calendar /\ Calendar[k].month # Calendar[d].month
    BY <1>1, <1>4 DEF others
<1>6. Calendar[k].month = Calendar[k - 1].month
    BY <1>1, <1>5
<1>7. k - 1 \in others
    BY <1>1, <1>5, <1>6 DEF others
<1> QED
    BY <1>1, <1>4, <1>5, <1>7

LEMMA InstantFacts ==
    ASSUME NEW t \in Instants
    PROVE  /\ t.day \in DOMAIN Calendar /\ t.hour \in 0 .. LastHour
           /\ t.minute \in 0 .. LastMinute /\ t.second \in 0 .. LastSecond
           /\ t.day \in Nat /\ t.hour \in Nat /\ t.minute \in Nat /\ t.second \in Nat
<1>1. /\ t.day \in DOMAIN Calendar /\ t.hour \in 0 .. LastHour
      /\ t.minute \in 0 .. LastMinute /\ t.second \in 0 .. LastSecond
    BY DEF Instants
<1> QED
    BY <1>1, CalendarFacts

LEMMA EarlierPasses ==
    ASSUME NEW t \in Instants, NEW u \in Instants, NEW v \in Instants, Earlier(t, u), Earlier(u, v)
    PROVE  Earlier(t, v)
    BY InstantFacts DEF Earlier

LEMMA FirstFound ==
    ASSUME NEW values \in SUBSET Nat, NEW from \in Nat
    PROVE  /\ FirstMatch(values, from) = {} => \A v \in values : v < from
           /\ \A v \in FirstMatch(values, from) :
                 v \in values /\ from <= v /\ \A w \in values : ~(from <= w /\ w < v)
<1>1. ASSUME NEW v \in values, from <= v
      PROVE  FirstMatch(values, from) # {}
    <2> DEFINE later == {w \in values : w >= from}
    <2>1. later \in SUBSET Nat /\ later # {}
        BY <1>1
    <2> HIDE DEF later
    <2>2. PICK least \in later : \A other \in later : least <= other
        BY <2>1, LeastNumber
    <2>3. least \in FirstMatch(values, from)
        BY <2>2 DEF later, FirstMatch
    <2> QED
        BY <2>3
<1>2. ASSUME NEW v \in FirstMatch(values, from)
      PROVE  v \in values /\ from <= v /\ \A w \in values : ~(from <= w /\ w < v)
    BY DEF FirstMatch
<1> QED
    BY <1>1, <1>2

\* Within the horizon there is a next day.
LEMMA NextDayThere ==
    ASSUME CronInv, InHorizon(candidate.day)
    PROVE  candidate.day + 1 \in DOMAIN Calendar
<1>1. PICK d \in DOMAIN Calendar : Calendar[d].year > Calendar[after.day].year + SearchYears
    BY CalendarAssumption DEF CronInv
<1>2. candidate.day \in DOMAIN Calendar /\ after.day \in DOMAIN Calendar
    BY DEF CronInv, Instants
<1>3. Calendar[candidate.day].year \in Nat /\ Calendar[d].year \in Nat /\ Calendar[after.day].year \in Nat
    BY <1>2, CalendarFacts
<1>4. ~(d <= candidate.day)
    <2>1. ASSUME d <= candidate.day
          PROVE  Calendar[d].year <= Calendar[candidate.day].year
        BY <1>2, <2>1, YearsPass
    <2> QED
        BY <1>1, <1>3, <2>1, CalendarBounds DEF InHorizon
<1> QED
    BY <1>2, <1>4, CalendarFacts

\* A leap over instants of which none matches.
LEMMA SearchedOn ==
    ASSUME CronInv, Searching, NEW next \in Instants, SearchOn(next), Earlier(candidate, next),
           cron.seconds = {} => next.second = 0,
           \A t \in Instants : ~Earlier(t, candidate) /\ Earlier(t, next) => ~Fires(t)
    PROVE  CronInv'
<1>1. candidate' = next /\ UNCHANGED <<cron, after, fireTime>> /\ fireTime = {}
    BY DEF SearchOn, Searching
<1>2. \A t \in Instants : Fires(t)' <=> Fires(t)
    BY <1>1 DEF Fires, MonthMatches, InHorizon
<1>3. Passed'
    <2>1. ASSUME NEW t \in Instants, Earlier(after, t), Earlier(t, next)
          PROVE  ~Fires(t)
        BY <1>1, <2>1 DEF Passed, CronInv
    <2> QED
        BY <1>1, <1>2, <2>1 DEF Passed
<1>4. Earlier(after, next)
    <2>1. Earlier(after, candidate) /\ after \in Instants /\ candidate \in Instants
        BY DEF CronInv
    <2> QED
        BY <2>1, EarlierPasses
<1>5. NextAfterIsNext'
    BY <1>1 DEF NextAfterIsNext
<1> QED
    BY <1>1, <1>3, <1>4, <1>5 DEF CronInv

\* Between an instant and the next minute there is only what is left of its minute.
LEMMA NextMinuteFollows ==
    ASSUME NEW c \in Instants, c.day + 1 \in DOMAIN Calendar
    PROVE  /\ NextMinute(c) \in Instants /\ NextMinute(c).second = 0 /\ Earlier(c, NextMinute(c))
           /\ \A t \in Instants : ~Earlier(t, c) /\ Earlier(t, NextMinute(c)) =>
                 t.day = c.day /\ t.hour = c.hour /\ t.minute = c.minute /\ t.second >= c.second
<1>1. /\ c.day \in DOMAIN Calendar /\ c.hour \in 0 .. LastHour /\ c.minute \in 0 .. LastMinute
      /\ c.second \in 0 .. LastSecond /\ c.day \in Nat
    BY InstantFacts
<1>2. 0 \in 0 .. LastHour /\ 0 \in 0 .. LastMinute /\ 0 \in 0 .. LastSecond
    BY CalendarBounds
<1>3. PICK next : next = NextMinute(c)
    OBVIOUS
<1>4. next \in Instants /\ next.second = 0
    BY <1>1, <1>2, <1>3, CalendarBounds DEF NextMinute, Instant, Instants
<1>5. \/ c.minute < LastMinute /\ next.day = c.day /\ next.hour = c.hour /\ next.minute = c.minute + 1
      \/ c.minute = LastMinute /\ c.hour < LastHour /\ next.day = c.day /\ next.hour = c.hour + 1 /\ next.minute = 0
      \/ c.minute = LastMinute /\ c.hour = LastHour /\ next.day = c.day + 1 /\ next.hour = 0 /\ next.minute = 0
    BY <1>1, <1>3, CalendarBounds DEF NextMinute, Instant
<1>6. Earlier(c, next)
    BY <1>1, <1>5 DEF Earlier
<1>7. ASSUME NEW t \in Instants, ~Earlier(t, c), Earlier(t, next)
      PROVE  t.day = c.day /\ t.hour = c.hour /\ t.minute = c.minute /\ t.second >= c.second
    <2>1. /\ t.hour \in 0 .. LastHour /\ t.minute \in 0 .. LastMinute /\ t.second \in 0 .. LastSecond
          /\ t.day \in Nat
        BY InstantFacts
    <2>2. next.second = 0 /\ t.second >= 0
        BY <1>4, <2>1
    <2>3. /\ t.day \in Int /\ t.hour \in Int /\ t.minute \in Int /\ t.second \in Int
          /\ c.day \in Int /\ c.hour \in Int /\ c.minute \in Int /\ c.second \in Int
          /\ t.hour <= LastHour /\ t.minute <= LastMinute /\ 0 <= t.hour /\ 0 <= t.minute
          /\ LastHour \in Int /\ LastMinute \in Int
        <3>1. LastHour \in Int /\ LastMinute \in Int /\ LastSecond \in Int
            BY CalendarBounds
        <3> QED
            BY <1>1, <2>1, <3>1
    <2>4. /\ c.day <= t.day /\ (t.day = c.day => c.hour <= t.hour)
          /\ t.day = c.day /\ t.hour = c.hour => c.minute <= t.minute
          /\ t.day = c.day /\ t.hour = c.hour /\ t.minute = c.minute => c.second <= t.second
        BY <1>7, <2>3 DEF Earlier
    <2>5. next.day \in Int /\ next.hour \in Int /\ next.minute \in Int
        BY <1>5, <2>3
    <2>6. /\ t.day <= next.day /\ (t.day = next.day => t.hour <= next.hour)
          /\ t.day = next.day /\ t.hour = next.hour => t.minute < next.minute
        BY <1>7, <2>2, <2>3, <2>5 DEF Earlier
    <2>7. CASE c.minute < LastMinute /\ next.day = c.day /\ next.hour = c.hour /\ next.minute = c.minute + 1
        BY <2>7, <2>3, <2>4, <2>6
    <2>8. CASE c.minute = LastMinute /\ c.hour < LastHour /\ next.day = c.day /\ next.hour = c.hour + 1
               /\ next.minute = 0
        BY <2>8, <2>3, <2>4, <2>6
    <2>9. CASE c.minute = LastMinute /\ c.hour = LastHour /\ next.day = c.day + 1 /\ next.hour = 0 /\ next.minute = 0
        BY <2>9, <2>3, <2>4, <2>6
    <2> QED
        BY <1>5, <2>7, <2>8, <2>9
<1> QED
    BY <1>3, <1>4, <1>6, <1>7

\* Between an instant and the next second there is nothing.
LEMMA NextSecondFollows ==
    ASSUME NEW c \in Instants, c.day + 1 \in DOMAIN Calendar
    PROVE  /\ NextSecond(c) \in Instants /\ Earlier(c, NextSecond(c))
           /\ \A t \in Instants : Earlier(c, t) => ~Earlier(t, NextSecond(c))
<1>1. /\ c.day \in DOMAIN Calendar /\ c.hour \in 0 .. LastHour /\ c.minute \in 0 .. LastMinute
      /\ c.second \in 0 .. LastSecond /\ c.day \in Nat
    BY InstantFacts
<1>2. CASE c.second < LastSecond
    <2>1. PICK next : next = [c EXCEPT !.second = @ + 1]
        OBVIOUS
    <2>2. next \in Instants /\ next.day = c.day /\ next.hour = c.hour /\ next.minute = c.minute
          /\ next.second = c.second + 1
        BY <1>1, <1>2, <2>1, CalendarBounds DEF Instants
    <2>3. ASSUME NEW t \in Instants, Earlier(c, t)
          PROVE  ~Earlier(t, next)
        BY <1>1, <2>2, <2>3, InstantFacts DEF Earlier
    <2>4. Earlier(c, next)
        BY <1>1, <2>2 DEF Earlier
    <2> QED
        BY <1>2, <2>1, <2>2, <2>3, <2>4 DEF NextSecond
<1>3. CASE c.second = LastSecond
    <2>1. NextSecond(c) = NextMinute(c)
        BY <1>1, <1>3, CalendarBounds DEF NextSecond
    <2>2. ASSUME NEW t \in Instants, Earlier(c, t), Earlier(t, NextMinute(c))
          PROVE  FALSE
        <3>1. t.second \in 0 .. LastSecond /\ t.day \in Nat /\ t.hour \in Nat /\ t.minute \in Nat
              /\ c.hour \in Nat /\ c.minute \in Nat
            BY InstantFacts
        <3>2. ~Earlier(t, c)
            BY <1>1, <2>2, <3>1 DEF Earlier
        <3>3. t.day = c.day /\ t.hour = c.hour /\ t.minute = c.minute
            BY <2>2, <3>2, NextMinuteFollows
        <3> QED
            BY <1>1, <1>3, <2>2, <3>1, <3>3, CalendarBounds DEF Earlier
    <2> QED
        BY <2>1, <2>2, NextMinuteFollows
<1> QED
    BY <1>1, <1>2, <1>3, CalendarBounds

LEMMA DateRule ==
    ASSUME NEW d
    PROVE  MatchesDomDow(d) <=>
              LET dom == Calendar[d].date \in cron.daysOfMonth
                  dow == d % WeekDays \in cron.daysOfWeek
              IN  /\ cron.domWildcard \/ dom \/ (~cron.dowWildcard /\ dow)
                  /\ cron.dowWildcard \/ dow \/ (~cron.domWildcard /\ dom)
<1> DEFINE dom == Calendar[d].date \in cron.daysOfMonth
           dow == d % WeekDays \in cron.daysOfWeek
<1> HIDE DEF dom, dow
<1>1. CASE cron.domWildcard /\ cron.dowWildcard
    BY <1>1 DEF MatchesDomDow, dom, dow
<1>2. CASE ~cron.domWildcard /\ ~cron.dowWildcard
    BY <1>2 DEF MatchesDomDow, dom, dow
<1>3. CASE cron.domWildcard /\ ~cron.dowWildcard
    BY <1>3 DEF MatchesDomDow, dom, dow
<1>4. CASE ~cron.domWildcard /\ cron.dowWildcard
    BY <1>4 DEF MatchesDomDow, dom, dow
<1> QED
    BY <1>1, <1>2, <1>3, <1>4

\* When it fires, part by part.
LEMMA FiresParts ==
    ASSUME NEW t
    PROVE  Fires(t) <=> /\ MonthMatches(t.day) /\ InHorizon(t.day) /\ MatchesDomDow(t.day)
                        /\ t.hour \in cron.hours /\ t.minute \in cron.minutes
                        /\ t.second \in (IF cron.seconds = {} THEN {0} ELSE cron.seconds)
    BY DateRule DEF Fires

\* On to the start of a later day, if nothing before it matches from the candidate on.
LEMMA DaysSkipped ==
    ASSUME CronInv, Searching, NEW d \in DOMAIN Calendar, d > candidate.day,
           \A e \in DOMAIN Calendar : candidate.day < e /\ e < d => ~MonthMatches(e),
           \A t \in Instants : t.day = candidate.day /\ ~Earlier(t, candidate) => ~Fires(t),
           SearchOn(Instant(d, 0, 0, 0))
    PROVE  CronInv'
<1> DEFINE next == Instant(d, 0, 0, 0)
<1>1. 0 \in 0 .. LastHour /\ 0 \in 0 .. LastMinute /\ 0 \in 0 .. LastSecond
    BY CalendarBounds
<1>2. next \in Instants /\ next.day = d /\ next.hour = 0 /\ next.minute = 0 /\ next.second = 0
    BY <1>1 DEF Instant, Instants
<1> HIDE DEF next
<1>3. Earlier(candidate, next)
    BY <1>2 DEF Earlier
<1>4. ASSUME NEW t \in Instants, ~Earlier(t, candidate), Earlier(t, next)
      PROVE  ~Fires(t)
    <2>1. /\ t.day \in DOMAIN Calendar /\ t.day \in Nat /\ t.hour \in Nat /\ t.minute \in Nat /\ t.second \in Nat
          /\ candidate.day \in Nat /\ d \in Nat
        BY InstantFacts, CalendarFacts DEF CronInv
    <2>2. candidate.day <= t.day /\ t.day < d
        BY <1>2, <1>4, <2>1 DEF Earlier
    <2> QED
        BY <1>4, <2>1, <2>2, FiresParts
<1> QED
    BY <1>2, <1>3, <1>4, SearchedOn DEF next

LEMMA MonthSkipped ==
    ASSUME CronInv, SkipMonth
    PROVE  CronInv'
<1>1. PICK d \in DOMAIN Calendar :
          /\ d > candidate.day /\ \A e \in candidate.day + 1 .. d - 1 : Calendar[e].date # 1
          /\ SearchOn(Instant(d, 0, 0, 0))
    BY DEF SkipMonth
<1>2. Searching /\ ~MonthMatches(candidate.day) /\ candidate.day \in DOMAIN Calendar
    BY DEF SkipMonth, CronInv, Instants
<1>3. ASSUME NEW e \in DOMAIN Calendar, candidate.day <= e, e < d
      PROVE  ~MonthMatches(e)
    <2>1. \A k \in candidate.day + 1 .. e : Calendar[k].date # 1
        BY <1>1, <1>2, <1>3, CalendarFacts
    <2>2. Calendar[e].month = Calendar[candidate.day].month
        BY <1>2, <1>3, <2>1, MonthLasts
    <2> QED
        BY <1>2, <2>2 DEF MonthMatches
<1>4. \A t \in Instants : t.day = candidate.day => ~Fires(t)
    BY <1>2, FiresParts
<1>5. \A e \in DOMAIN Calendar : candidate.day < e /\ e < d => ~MonthMatches(e)
    BY <1>2, <1>3, CalendarFacts
<1> QED
    BY <1>1, <1>2, <1>4, <1>5, DaysSkipped

LEMMA NextDaySearched ==
    ASSUME CronInv, Searching, InHorizon(candidate.day), SearchOn(Instant(candidate.day + 1, 0, 0, 0)),
           \A t \in Instants : t.day = candidate.day /\ ~Earlier(t, candidate) => ~Fires(t)
    PROVE  CronInv'
<1>1. candidate.day + 1 \in DOMAIN Calendar /\ candidate.day \in DOMAIN Calendar
    BY NextDayThere DEF CronInv, Instants
<1>2. \A e \in DOMAIN Calendar : ~(candidate.day < e /\ e < candidate.day + 1)
    BY <1>1, CalendarFacts
<1>3. candidate.day + 1 > candidate.day
    BY <1>1, CalendarFacts
<1> QED
    BY <1>1, <1>2, <1>3, DaysSkipped

LEMMA DaySkipped ==
    ASSUME CronInv, SkipDay
    PROVE  CronInv'
<1>1. \A t : t.day = candidate.day => ~Fires(t)
    BY FiresParts DEF SkipDay
<1> QED
    BY <1>1, NextDaySearched DEF SkipDay, OnMonth

LEMMA HourSkipped ==
    ASSUME CronInv, SkipHour
    PROVE  CronInv'
<1> DEFINE hours == FirstMatch(cron.hours, candidate.hour + 1)
<1>1. /\ Searching /\ InHorizon(candidate.day) /\ candidate.hour \notin cron.hours
      /\ \/ hours = {} /\ SearchOn(Instant(candidate.day + 1, 0, 0, 0))
         \/ \E h \in hours : SearchOn(Instant(candidate.day, h, 0, 0))
    BY DEF SkipHour, OnDay, OnMonth
<1>2. candidate \in Instants /\ candidate.hour \in Nat /\ candidate.day \in DOMAIN Calendar /\ candidate.day \in Nat
    BY InstantFacts DEF CronInv
<1>3. cron.hours \subseteq 0 .. LastHour /\ cron.hours \in SUBSET Nat
    BY CalendarBounds DEF CronInv
<1>4. /\ hours = {} => \A v \in cron.hours : v < candidate.hour + 1
      /\ \A v \in hours : v \in cron.hours /\ candidate.hour + 1 <= v
                          /\ \A w \in cron.hours : ~(candidate.hour + 1 <= w /\ w < v)
    <2>1. candidate.hour + 1 \in Nat
        BY <1>2
    <2> QED
        BY <1>3, <2>1, FirstFound
<1> HIDE DEF hours
<1>5. ASSUME NEW t \in Instants, t.day = candidate.day, ~Earlier(t, candidate)
      PROVE  t.hour >= candidate.hour /\ t.hour \in Nat
    BY <1>2, <1>5, InstantFacts DEF Earlier
<1>6. CASE hours = {} /\ SearchOn(Instant(candidate.day + 1, 0, 0, 0))
    <2>1. ASSUME NEW t \in Instants, t.day = candidate.day, ~Earlier(t, candidate)
          PROVE  ~Fires(t)
        <3>1. t.hour \notin cron.hours
            BY <1>1, <1>2, <1>4, <1>5, <1>6, <2>1
        <3> QED
            BY <3>1, FiresParts
    <2> QED
        BY <1>1, <1>6, <2>1, NextDaySearched
<1>7. ASSUME NEW h \in hours, SearchOn(Instant(candidate.day, h, 0, 0))
      PROVE  CronInv'
    <2> DEFINE next == Instant(candidate.day, h, 0, 0)
    <2>1. h \in cron.hours /\ h \in Nat /\ candidate.hour < h
        BY <1>2, <1>3, <1>4
    <2>2. /\ next \in Instants /\ next.day = candidate.day /\ next.hour = h
          /\ next.minute = 0 /\ next.second = 0
        BY <1>2, <1>3, <2>1, CalendarBounds DEF Instant, Instants
    <2> HIDE DEF next
    <2>3. Earlier(candidate, next)
        BY <2>1, <2>2 DEF Earlier
    <2>4. ASSUME NEW t \in Instants, ~Earlier(t, candidate), Earlier(t, next)
          PROVE  ~Fires(t)
        <3>1. t.day = candidate.day /\ t.hour \in Nat /\ candidate.hour <= t.hour /\ t.hour < h
            BY <1>2, <2>1, <2>2, <2>4, InstantFacts DEF Earlier
        <3>2. t.hour \notin cron.hours
            BY <1>1, <1>2, <1>4, <2>1, <3>1
        <3> QED
            BY <3>2, FiresParts
    <2> QED
        BY <1>1, <1>7, <2>2, <2>3, <2>4, SearchedOn DEF next
<1> QED
    BY <1>1, <1>6, <1>7

LEMMA MinuteSkipped ==
    ASSUME CronInv, SkipMinute
    PROVE  CronInv'
<1> DEFINE minutes == FirstMatch(cron.minutes, candidate.minute + 1)
           last == [candidate EXCEPT !.minute = LastMinute]
<1>1. /\ Searching /\ InHorizon(candidate.day) /\ candidate.minute \notin cron.minutes
      /\ \/ minutes = {} /\ SearchOn(NextMinute(last))
         \/ \E m \in minutes : SearchOn(Instant(candidate.day, candidate.hour, m, 0))
    BY DEF SkipMinute, OnHour, OnDay, OnMonth
<1>2. /\ candidate \in Instants /\ candidate.minute \in 0 .. LastMinute /\ candidate.hour \in 0 .. LastHour
      /\ candidate.day \in DOMAIN Calendar /\ candidate.day \in Nat
    BY InstantFacts DEF CronInv
<1>3. cron.minutes \subseteq 0 .. LastMinute /\ cron.minutes \in SUBSET Nat
    BY CalendarBounds DEF CronInv
<1>4. /\ minutes = {} => \A v \in cron.minutes : v < candidate.minute + 1
      /\ \A v \in minutes : v \in cron.minutes /\ candidate.minute + 1 <= v
                            /\ \A w \in cron.minutes : ~(candidate.minute + 1 <= w /\ w < v)
    <2>1. candidate.minute + 1 \in Nat
        BY <1>2, CalendarBounds
    <2> QED
        BY <1>3, <2>1, FirstFound
<1> HIDE DEF minutes
<1>5. CASE minutes = {} /\ SearchOn(NextMinute(last))
    <2>1. last \in Instants /\ last.day = candidate.day /\ last.hour = candidate.hour /\ last.minute = LastMinute
          /\ last.second = candidate.second
        BY <1>2, CalendarBounds DEF Instants
    <2> HIDE DEF last
    <2>2. candidate.day + 1 \in DOMAIN Calendar
        BY <1>1, NextDayThere
    <2>3. /\ NextMinute(last) \in Instants /\ NextMinute(last).second = 0 /\ Earlier(last, NextMinute(last))
          /\ \A t \in Instants : ~Earlier(t, last) /\ Earlier(t, NextMinute(last)) =>
                t.day = last.day /\ t.hour = last.hour /\ t.minute = last.minute /\ t.second >= last.second
        BY <2>1, <2>2, NextMinuteFollows
    <2>4. Earlier(candidate, NextMinute(last))
        <3>1. last = candidate \/ Earlier(candidate, last)
            <4>1. CASE candidate.minute = LastMinute
                BY <4>1, <1>2 DEF Instants, last
            <4>2. CASE candidate.minute < LastMinute
                BY <4>2, <2>1 DEF Earlier
            <4> QED
                BY <4>1, <4>2, <1>2, CalendarBounds
        <3> QED
            BY <1>2, <2>1, <2>3, <3>1, EarlierPasses
    <2>5. ASSUME NEW t \in Instants, ~Earlier(t, candidate), Earlier(t, NextMinute(last))
          PROVE  ~Fires(t)
        <3>1. /\ t.minute \in 0 .. LastMinute /\ t.day \in Nat /\ t.hour \in Nat /\ t.second \in Nat
              /\ candidate.second \in Nat
            BY InstantFacts, <1>2
        <3>2. t.day = candidate.day /\ t.hour = candidate.hour /\ candidate.minute <= t.minute
            <4>1. CASE Earlier(t, last)
                BY <1>2, <2>1, <2>5, <3>1, <4>1, CalendarBounds DEF Earlier
            <4>2. CASE ~Earlier(t, last)
                BY <1>2, <2>1, <2>3, <2>5, <4>2, CalendarBounds
            <4> QED
                BY <4>1, <4>2
        <3>3. t.minute \notin cron.minutes
            BY <1>1, <1>2, <1>4, <1>5, <3>1, <3>2
        <3> QED
            BY <3>3, FiresParts
    <2> QED
        BY <1>1, <1>5, <2>3, <2>4, <2>5, SearchedOn
<1>6. ASSUME NEW m \in minutes, SearchOn(Instant(candidate.day, candidate.hour, m, 0))
      PROVE  CronInv'
    <2> DEFINE next == Instant(candidate.day, candidate.hour, m, 0)
    <2>1. m \in cron.minutes /\ m \in Nat /\ candidate.minute < m
        BY <1>2, <1>3, <1>4
    <2>2. /\ next \in Instants /\ next.day = candidate.day /\ next.hour = candidate.hour
          /\ next.minute = m /\ next.second = 0
        BY <1>2, <1>3, <2>1, CalendarBounds DEF Instant, Instants
    <2> HIDE DEF next
    <2>3. Earlier(candidate, next)
        BY <2>1, <2>2 DEF Earlier
    <2>4. ASSUME NEW t \in Instants, ~Earlier(t, candidate), Earlier(t, next)
          PROVE  ~Fires(t)
        <3>1. t.minute \in Nat /\ candidate.minute <= t.minute /\ t.minute < m
            BY <1>2, <2>1, <2>2, <2>4, InstantFacts DEF Earlier
        <3>2. t.minute \notin cron.minutes
            BY <1>1, <1>2, <1>4, <2>1, <3>1
        <3> QED
            BY <3>2, FiresParts
    <2> QED
        BY <1>1, <1>6, <2>2, <2>3, <2>4, SearchedOn DEF next
<1> QED
    BY <1>1, <1>5, <1>6

\* What is returned is the first instant at or after the candidate that matches.
LEMMA Returned ==
    ASSUME CronInv, Searching, NEW times \in SUBSET (Instants \cup {NoDate}), Return(times),
           \A u \in times :
               IF u = NoDate THEN \A t \in Instants : ~Earlier(t, candidate) => ~Fires(t)
               ELSE /\ ~Earlier(u, candidate) /\ Fires(u)
                    /\ \A t \in Instants : ~Earlier(t, candidate) /\ Earlier(t, u) => ~Fires(t)
    PROVE  CronInv'
<1>1. fireTime' = times /\ UNCHANGED <<cron, after, candidate>> /\ fireTime = {}
    BY DEF Return, Searching
<1>2. \A t : Fires(t)' <=> Fires(t)
    BY <1>1 DEF Fires, MonthMatches, InHorizon
<1>3. Passed
    BY <1>1 DEF CronInv
<1>4. ASSUME NEW u \in times
      PROVE  /\ u # NoDate => Fires(u) /\ Earlier(after, u)
             /\ \A t \in Instants : Earlier(after, t) /\ Fires(t) => u # NoDate /\ ~Earlier(t, u)
    <2>1. ASSUME u # NoDate
          PROVE  Earlier(after, u)
        <3>1. u \in Instants /\ after \in Instants /\ candidate \in Instants /\ Earlier(after, candidate)
              /\ ~Earlier(u, candidate)
            BY <2>1 DEF CronInv
        <3> QED
            BY <3>1, InstantFacts DEF Earlier
    <2>2. ASSUME NEW t \in Instants, Earlier(after, t), Fires(t)
          PROVE  u # NoDate /\ ~Earlier(t, u)
        <3>1. ~Earlier(t, candidate)
            BY <1>3, <2>2 DEF Passed
        <3> QED
            BY <2>2, <3>1
    <2> QED
        BY <2>1, <2>2
<1>5. NextAfterIsNext'
    BY <1>1, <1>2, <1>4 DEF NextAfterIsNext
<1>6. Passed'
    BY <1>1, <1>2, <1>3 DEF Passed
<1> QED
    BY <1>1, <1>5, <1>6 DEF CronInv

LEMMA GivenUp ==
    ASSUME CronInv, GiveUp
    PROVE  CronInv'
<1>1. Searching /\ ~InHorizon(candidate.day) /\ Return({NoDate})
    BY DEF GiveUp
<1>2. ASSUME NEW t \in Instants, ~Earlier(t, candidate)
      PROVE  ~Fires(t)
    <2>1. /\ t.day \in DOMAIN Calendar /\ candidate.day \in DOMAIN Calendar /\ after.day \in DOMAIN Calendar
          /\ t.day \in Nat /\ candidate.day \in Nat
        BY InstantFacts DEF CronInv
    <2>2. candidate.day <= t.day
        BY <1>2, <2>1 DEF Earlier
    <2>3. Calendar[candidate.day].year <= Calendar[t.day].year
        BY <2>1, <2>2, YearsPass
    <2>4. Calendar[candidate.day].year \in Nat /\ Calendar[t.day].year \in Nat /\ Calendar[after.day].year \in Nat
        BY <2>1, CalendarFacts
    <2>5. ~InHorizon(t.day)
        BY <1>1, <2>3, <2>4, CalendarBounds DEF InHorizon
    <2> QED
        BY <2>5, FiresParts
<1> QED
    BY <1>1, <1>2, Returned

LEMMA Found ==
    ASSUME CronInv, Find
    PROVE  CronInv'
<1> DEFINE seconds == FirstMatch(cron.seconds, candidate.second)
<1>1. /\ Searching /\ InHorizon(candidate.day) /\ MonthMatches(candidate.day) /\ MatchesDomDow(candidate.day)
      /\ candidate.hour \in cron.hours /\ candidate.minute \in cron.minutes
      /\ \/ cron.seconds = {} /\ Return({[candidate EXCEPT !.second = 0]})
         \/ cron.seconds # {} /\ seconds = {} /\ SearchOn(NextMinute(candidate))
         \/ seconds # {} /\ Return({[candidate EXCEPT !.second = s] : s \in seconds})
    BY DEF Find, OnHour, OnDay, OnMonth
<1>2. /\ candidate \in Instants /\ candidate.second \in Nat /\ candidate.minute \in Nat /\ candidate.hour \in Nat
      /\ candidate.day \in Nat
    BY InstantFacts DEF CronInv
<1>3. cron.seconds \subseteq 0 .. LastSecond /\ cron.seconds \in SUBSET Nat
    BY CalendarBounds DEF CronInv
<1>4. /\ seconds = {} => \A v \in cron.seconds : v < candidate.second
      /\ \A v \in seconds : v \in cron.seconds /\ candidate.second <= v
                            /\ \A w \in cron.seconds : ~(candidate.second <= w /\ w < v)
    BY <1>2, <1>3, FirstFound
<1> HIDE DEF seconds
<1>5. ASSUME NEW s \in 0 .. LastSecond, candidate.second <= s,
             s \in (IF cron.seconds = {} THEN {0} ELSE cron.seconds),
             \A w \in (IF cron.seconds = {} THEN {0} ELSE cron.seconds) : ~(candidate.second <= w /\ w < s),
             NEW u, u = [candidate EXCEPT !.second = s]
      PROVE  /\ u \in Instants /\ ~Earlier(u, candidate) /\ Fires(u)
             /\ \A t \in Instants : ~Earlier(t, candidate) /\ Earlier(t, u) => ~Fires(t)
    <2>1. /\ u \in Instants /\ u.day = candidate.day /\ u.hour = candidate.hour /\ u.minute = candidate.minute
          /\ u.second = s /\ s \in Nat
        BY <1>2, <1>5, CalendarBounds DEF Instants
    <2>2. ~Earlier(u, candidate)
        BY <1>2, <1>5, <2>1 DEF Earlier
    <2>3. Fires(u)
        BY <1>1, <1>5, <2>1, FiresParts
    <2>4. ASSUME NEW t \in Instants, ~Earlier(t, candidate), Earlier(t, u)
          PROVE  ~Fires(t)
        <3>1. t.second \in Nat /\ candidate.second <= t.second /\ t.second < s
            BY <1>2, <2>1, <2>4, InstantFacts DEF Earlier
        <3>2. t.second \notin (IF cron.seconds = {} THEN {0} ELSE cron.seconds)
            BY <1>5, <3>1
        <3> QED
            BY <3>2, FiresParts
    <2> QED
        BY <2>1, <2>2, <2>3, <2>4
<1>6. NoDate \notin Instants
    BY CalendarAssumption
<1>7. CASE cron.seconds = {} /\ Return({[candidate EXCEPT !.second = 0]})
    <2> DEFINE u == [candidate EXCEPT !.second = 0]
    <2>1. candidate.second = 0 /\ 0 \in 0 .. LastSecond
        BY <1>7, CalendarBounds DEF CronInv
    <2>2. /\ u \in Instants /\ ~Earlier(u, candidate) /\ Fires(u)
          /\ \A t \in Instants : ~Earlier(t, candidate) /\ Earlier(t, u) => ~Fires(t)
        BY <1>5, <1>7, <2>1
    <2> HIDE DEF u
    <2>3. {u} \in SUBSET (Instants \cup {NoDate}) /\ Return({u})
        BY <1>7, <2>2 DEF u
    <2> QED
        BY <1>1, <1>6, <2>2, <2>3, Returned
<1>8. CASE cron.seconds # {} /\ seconds = {} /\ SearchOn(NextMinute(candidate))
    <2>1. candidate.day + 1 \in DOMAIN Calendar
        BY <1>1, NextDayThere
    <2>2. /\ NextMinute(candidate) \in Instants /\ Earlier(candidate, NextMinute(candidate))
          /\ NextMinute(candidate).second = 0
          /\ \A t \in Instants : ~Earlier(t, candidate) /\ Earlier(t, NextMinute(candidate)) =>
                t.second >= candidate.second
        BY <1>2, <2>1, NextMinuteFollows
    <2>3. ASSUME NEW t \in Instants, ~Earlier(t, candidate), Earlier(t, NextMinute(candidate))
          PROVE  ~Fires(t)
        <3>1. t.second >= candidate.second /\ t.second \in Nat
            BY <2>2, <2>3, InstantFacts
        <3>2. t.second \notin cron.seconds
            BY <1>2, <1>4, <1>8, <3>1
        <3> QED
            BY <1>8, <3>2, FiresParts
    <2> QED
        BY <1>1, <1>8, <2>2, <2>3, SearchedOn
<1>9. CASE seconds # {} /\ Return({[candidate EXCEPT !.second = s] : s \in seconds})
    <2> DEFINE times == {[candidate EXCEPT !.second = s] : s \in seconds}
    <2>1. ASSUME NEW u \in times
          PROVE  /\ u \in Instants /\ ~Earlier(u, candidate) /\ Fires(u)
                 /\ \A t \in Instants : ~Earlier(t, candidate) /\ Earlier(t, u) => ~Fires(t)
        <3>1. PICK s \in seconds : u = [candidate EXCEPT !.second = s]
            OBVIOUS
        <3>2. s \in cron.seconds /\ s \in 0 .. LastSecond /\ candidate.second <= s
              /\ \A w \in cron.seconds : ~(candidate.second <= w /\ w < s)
            BY <1>3, <1>4
        <3>3. cron.seconds = (IF cron.seconds = {} THEN {0} ELSE cron.seconds)
            BY <3>2
        <3> QED
            BY <1>5, <3>1, <3>2, <3>3
    <2>2. Return(times)
        BY <1>9
    <2> HIDE DEF times
    <2>3. times \in SUBSET (Instants \cup {NoDate})
        BY <2>1
    <2>4. \A u \in times : u # NoDate
        BY <1>6, <2>1
    <2> QED
        BY <1>1, <2>1, <2>2, <2>3, <2>4, Returned
<1> QED
    BY <1>1, <1>7, <1>8, <1>9

LEMMA CronStart ==
    ASSUME CronInit
    PROVE  CronInv
<1>1. PICK e \in Expressions : cron = ParseCron(e)
    BY DEF CronInit
<1>2. /\ cron.seconds \subseteq 0 .. LastSecond /\ cron.minutes \subseteq 0 .. LastMinute
      /\ cron.hours \subseteq 0 .. LastHour
    BY <1>1, ExpressionsAssumption DEF ParseCron
<1>3. after \in Afters /\ after \in Instants /\ fireTime = {}
    BY CalendarAssumption DEF CronInit
<1>4. after.day + 1 \in DOMAIN Calendar
    <2>1. PICK d \in DOMAIN Calendar : Calendar[d].year > Calendar[after.day].year + SearchYears
        BY <1>3, CalendarAssumption
    <2>2. after.day \in DOMAIN Calendar /\ Calendar[after.day].year \in Nat /\ Calendar[d].year \in Nat
        BY <1>3, InstantFacts, CalendarFacts
    <2>3. ASSUME d <= after.day
          PROVE  FALSE
        <3>1. Calendar[d].year <= Calendar[after.day].year
            BY <2>2, <2>3, YearsPass
        <3> QED
            BY <2>1, <2>2, <3>1, CalendarBounds
    <2> QED
        BY <2>2, <2>3, CalendarFacts
<1>5. /\ candidate \in Instants /\ Earlier(after, candidate) /\ (cron.seconds = {} => candidate.second = 0)
      /\ \A t \in Instants : Earlier(after, t) /\ Earlier(t, candidate) => ~Fires(t)
    <2>1. CASE cron.seconds = {}
        <3>1. candidate = NextMinute(after)
            BY <2>1 DEF CronInit
        <3>2. ASSUME NEW t \in Instants, Earlier(after, t), Earlier(t, candidate)
              PROVE  ~Fires(t)
            <4>1. /\ t.day \in Nat /\ t.hour \in Nat /\ t.minute \in Nat /\ t.second \in Nat
                  /\ after.day \in Nat /\ after.hour \in Nat /\ after.minute \in Nat /\ after.second \in Nat
                BY <1>3, InstantFacts
            <4>2. ~Earlier(t, after)
                BY <3>2, <4>1 DEF Earlier
            <4>3. t.day = after.day /\ t.hour = after.hour /\ t.minute = after.minute
                BY <1>3, <1>4, <3>1, <3>2, <4>2, NextMinuteFollows
            <4>4. t.second # 0
                BY <3>2, <4>1, <4>3 DEF Earlier
            <4> QED
                BY <2>1, <4>4, FiresParts
        <3> QED
            BY <1>3, <1>4, <3>1, <3>2, NextMinuteFollows
    <2>2. CASE cron.seconds # {}
        BY <1>3, <1>4, <2>2, NextSecondFollows DEF CronInit
    <2> QED
        BY <2>1, <2>2
<1> QED
    BY <1>2, <1>3, <1>5 DEF CronInv, Passed, NextAfterIsNext

\* "Returns the next fire time strictly after `after`, or `null` when no
\* occurrence exists within the search horizon" (cron.ts:165), whatever the
\* expression, the instant and the calendar.
THEOREM NextIsReturned == CronSpec => []NextAfterIsNext
<1>1. CronInit => CronInv
    BY CronStart
<1>2. CronInv /\ [CronNext]_cronVars => CronInv'
    <2>1. ASSUME CronInv, UNCHANGED cronVars
          PROVE  CronInv'
        BY <2>1 DEF cronVars, CronInv, Passed, NextAfterIsNext, Fires, MonthMatches, InHorizon
    <2> QED
        BY <2>1, GivenUp, MonthSkipped, DaySkipped, HourSkipped, MinuteSkipped, Found DEF CronNext
<1>3. CronInv => NextAfterIsNext
    BY DEF CronInv
<1> QED
    BY <1>1, <1>2, <1>3, PTL DEF CronSpec

-----------------------------------------------------------------------------
(* The URL queue of a crawl *)

\* A queue of URLs that are not known yet, each once.
QueueOK(queue) ==
    /\ queue \in Seq(UrlRecord) /\ Queued(queue) \cap Visited = {}
    /\ \A i, j \in DOMAIN queue : queue[i].url = queue[j].url => i = j

\* A URL comes in between, the others stay in their order.
LEMMA Inserted ==
    ASSUME NEW queue \in Seq(UrlRecord), NEW entry \in UrlRecord
    PROVE  \E place \in 1 .. Len(queue) + 1 : \E longer \in Seq(UrlRecord) :
              /\ longer = InsertByPriority(queue, entry)
              /\ Len(longer) = Len(queue) + 1
              /\ \A i \in 1 .. Len(queue) + 1 :
                    longer[i] = IF i < place THEN queue[i] ELSE IF i = place THEN entry ELSE queue[i - 1]
<1> DEFINE before == {i \in DOMAIN queue : queue[i].priority <= entry.priority}
           place == Cardinality(before) + 1
<1>1. Len(queue) \in Nat /\ DOMAIN queue = 1 .. Len(queue)
    OBVIOUS
<1>2. Cardinality(before) \in Nat /\ Cardinality(before) <= Len(queue)
    <2>1. IsFiniteSet(1 .. Len(queue)) /\ Cardinality(1 .. Len(queue)) = Len(queue)
        BY <1>1, FS_Interval
    <2>2. before \subseteq 1 .. Len(queue)
        BY <1>1
    <2> HIDE DEF before
    <2> QED
        BY <2>1, <2>2, FS_Subset, FS_CardinalityType
<1> HIDE DEF before
<1>3. place \in 1 .. Len(queue) + 1
    BY <1>1, <1>2
<1>4. InsertByPriority(queue, entry) = SubSeq(queue, 1, place - 1) \o <<entry>> \o SubSeq(queue, place, Len(queue))
    BY DEF InsertByPriority, InsertAt, before
<1> HIDE DEF place
<1>5. PICK front, back : front = SubSeq(queue, 1, place - 1) /\ back = SubSeq(queue, place, Len(queue))
    OBVIOUS
<1>6. /\ front \in Seq(UrlRecord) /\ Len(front) = place - 1 /\ \A i \in 1 .. place - 1 : front[i] = queue[i]
    BY <1>1, <1>3, <1>5
<1>7. /\ back \in Seq(UrlRecord) /\ Len(back) = Len(queue) - place + 1
      /\ \A i \in 1 .. Len(queue) - place + 1 : back[i] = queue[place + i - 1]
    <2>1. place \in Int /\ Len(queue) \in Int /\ place <= Len(queue) + 1
        BY <1>1, <1>3
    <2>2. \A i \in place .. Len(queue) : queue[i] \in UrlRecord
        BY <1>1, <1>3
    <2>3. /\ back \in Seq(UrlRecord) /\ Len(back) = IF place <= Len(queue) THEN Len(queue) - place + 1 ELSE 0
          /\ \A i \in 1 .. Len(queue) - place + 1 : back[i] = queue[place + i - 1]
        BY <1>5, <2>1, <2>2, SubSeqProperties
    <2> QED
        BY <2>1, <2>3
<1>8. PICK middle : middle = front \o <<entry>>
    OBVIOUS
<1>9. /\ middle \in Seq(UrlRecord) /\ Len(middle) = place
      /\ \A i \in 1 .. place : middle[i] = IF i < place THEN queue[i] ELSE entry
    <2>1. <<entry>> \in Seq(UrlRecord) /\ Len(<<entry>>) = 1 /\ <<entry>>[1] = entry
        OBVIOUS
    <2>2. /\ middle \in Seq(UrlRecord) /\ Len(middle) = Len(front) + 1
          /\ \A i \in 1 .. Len(front) + 1 : middle[i] = IF i <= Len(front) THEN front[i] ELSE <<entry>>[i - Len(front)]
        BY <1>6, <1>8, <2>1, ConcatProperties
    <2>3. place \in Int
        BY <1>1, <1>3
    <2>4. ASSUME NEW i \in 1 .. place
          PROVE  middle[i] = IF i < place THEN queue[i] ELSE entry
        <3>1. CASE i < place
            BY <1>6, <2>2, <2>3, <3>1
        <3>2. CASE i = place
            <4>1. middle[i] = <<entry>>[i - Len(front)] /\ i - Len(front) = 1
                BY <1>6, <2>2, <2>3, <3>2
            <4> QED
                BY <4>1, <2>1, <3>2
        <3> QED
            BY <2>3, <3>1, <3>2
    <2>5. middle \in Seq(UrlRecord) /\ Len(middle) = place
        <3>1. Len(front) + 1 = place
            BY <1>6, <2>3
        <3> QED
            BY <2>2, <3>1
    <2> QED
        BY <2>4, <2>5
<1>10. PICK longer : longer = middle \o back
    OBVIOUS
<1>11. /\ longer \in Seq(UrlRecord) /\ Len(longer) = Len(middle) + Len(back)
       /\ \A i \in 1 .. Len(middle) + Len(back) :
             longer[i] = IF i <= Len(middle) THEN middle[i] ELSE back[i - Len(middle)]
    BY <1>7, <1>9, <1>10, ConcatProperties
<1>12. place \in Int /\ Len(queue) \in Int /\ place >= 1 /\ place <= Len(queue) + 1
    BY <1>1, <1>3
<1>13. Len(longer) = Len(queue) + 1 /\ Len(middle) + Len(back) = Len(queue) + 1
    BY <1>7, <1>9, <1>11, <1>12
<1>14. ASSUME NEW i \in 1 .. Len(queue) + 1
       PROVE  longer[i] = IF i < place THEN queue[i] ELSE IF i = place THEN entry ELSE queue[i - 1]
    <2>1. CASE i <= place
        BY <1>9, <1>11, <1>12, <1>13, <2>1
    <2>2. CASE i > place
        <3>1. i - place \in 1 .. Len(queue) - place + 1 /\ place + (i - place) - 1 = i - 1
            BY <1>12, <2>2
        <3>2. longer[i] = back[i - place]
            BY <1>9, <1>11, <1>12, <1>13, <2>2
        <3>3. back[i - place] = queue[place + (i - place) - 1]
            BY <1>7, <3>1
        <3> QED
            BY <1>12, <2>2, <3>1, <3>2, <3>3
    <2> QED
        BY <1>12, <2>1, <2>2
<1> QED
    BY <1>3, <1>4, <1>5, <1>8, <1>10, <1>11, <1>13, <1>14

\* A URL that is known, or comes to a full queue, changes nothing.
LEMMA UrlAdded ==
    ASSUME NEW queue, QueueOK(queue), NEW u \in Urls, NEW depth \in Nat,
           NEW seed \in BOOLEAN
    PROVE  /\ QueueOK(AddUrl(queue, u, depth, seed))
           /\ Queued(queue) \subseteq Queued(AddUrl(queue, u, depth, seed))
<1>1. CASE Known(queue, u) \/ Full(queue)
    BY <1>1 DEF AddUrl
<1>2. CASE ~ (Known(queue, u) \/ Full(queue))
    <2>1. PICK entry : entry = [url |-> u, depth |-> depth,
                                   priority |-> IF seed THEN 0 ELSE depth * 10 + TypePriority[u]]
        OBVIOUS
    <2>2. entry \in UrlRecord /\ entry.url = u
        <3>1. TypePriority[u] \in Nat
            BY CrawlAssumption
        <3>2. (IF seed THEN 0 ELSE depth * 10 + TypePriority[u]) \in Nat
            BY <3>1
        <3> QED
            BY <2>1, <3>2 DEF UrlRecord
    <2>3. AddUrl(queue, u, depth, seed) = InsertByPriority(queue, entry)
        BY <1>2, <2>1 DEF AddUrl
    <2>4. queue \in Seq(UrlRecord) /\ Len(queue) \in Nat /\ DOMAIN queue = 1 .. Len(queue)
        BY DEF QueueOK
    <2>5. PICK place \in 1 .. Len(queue) + 1, longer \in Seq(UrlRecord) :
              /\ longer = InsertByPriority(queue, entry)
              /\ Len(longer) = Len(queue) + 1
              /\ \A i \in 1 .. Len(queue) + 1 :
                    longer[i] = IF i < place THEN queue[i] ELSE IF i = place THEN entry ELSE queue[i - 1]
        BY <2>2, <2>4, Inserted
    <2>6. DOMAIN longer = 1 .. Len(queue) + 1
        BY <2>5
    <2>7. u \notin Queued(queue) /\ u \notin Visited
        BY <1>2 DEF Known
    <2>8. ASSUME NEW i \in DOMAIN queue
          PROVE  queue[i].url \in Queued(longer)
        <3>1. CASE i < place
            <4>1. i \in DOMAIN longer /\ longer[i] = queue[i]
                BY <2>4, <2>5, <2>6, <3>1
            <4> QED
                BY <4>1 DEF Queued
        <3>2. CASE ~ (i < place)
            <4>1. i + 1 \in DOMAIN longer /\ longer[i + 1] = queue[i]
                BY <2>4, <2>5, <2>6, <3>2
            <4> QED
                BY <4>1 DEF Queued
        <3> QED
            BY <3>1, <3>2
    <2>9. ASSUME NEW i \in DOMAIN longer
          PROVE  \/ i = place /\ longer[i].url = u
                 \/ i < place /\ i \in DOMAIN queue /\ longer[i].url = queue[i].url
                 \/ i > place /\ i - 1 \in DOMAIN queue /\ longer[i].url = queue[i - 1].url
        BY <2>2, <2>4, <2>5, <2>6
    <2>10. \A i \in DOMAIN queue : queue[i].url \in Queued(queue)
        BY DEF Queued
    <2>11. Queued(longer) \cap Visited = {}
        <3>1. \A i \in DOMAIN longer : longer[i].url \in Queued(queue) \cup {u}
            BY <2>9, <2>10
        <3>2. Queued(queue) \cap Visited = {}
            BY DEF QueueOK
        <3> QED
            BY <2>7, <3>1, <3>2 DEF Queued
    <2>12. ASSUME NEW i \in DOMAIN longer, NEW j \in DOMAIN longer, longer[i].url = longer[j].url
           PROVE  i = j
        <3>1. \A k, l \in DOMAIN queue : queue[k].url = queue[l].url => k = l
            BY DEF QueueOK
        <3>2. i \in Int /\ j \in Int /\ place \in Int
            BY <2>4, <2>6
        <3>3. \A k \in DOMAIN queue : queue[k].url # u
            BY <2>7, <2>10
        <3>4. PICK names : names = [k \in DOMAIN longer |-> longer[k].url]
            OBVIOUS
        <3>5. PICK older : older = [k \in DOMAIN queue |-> queue[k].url]
            OBVIOUS
        <3>6. \A k \in DOMAIN longer :
                 \/ k = place /\ names[k] = u
                 \/ k < place /\ k \in DOMAIN queue /\ names[k] = older[k]
                 \/ k > place /\ k - 1 \in DOMAIN queue /\ names[k] = older[k - 1]
            BY <2>9, <3>4, <3>5
        <3>7. \A k, l \in DOMAIN queue : older[k] = older[l] => k = l
            BY <3>1, <3>5
        <3>8. \A k \in DOMAIN queue : older[k] # u
            BY <3>3, <3>5
        <3>9. names[i] = names[j]
            BY <2>12, <3>4
        <3> QED
            BY <3>2, <3>6, <3>7, <3>8, <3>9
    <2>13. Queued(queue) \subseteq Queued(longer)
        BY <2>8 DEF Queued
    <2> QED
        BY <2>3, <2>5, <2>11, <2>12, <2>13 DEF QueueOK
<1> QED
    BY <1>1, <1>2

LEMMA AllAdded ==
    ASSUME NEW queue, QueueOK(queue), NEW urls \in Seq(Urls), NEW depth \in Nat,
           NEW seed \in BOOLEAN
    PROVE  /\ QueueOK(AddAll(queue, urls, depth, seed))
           /\ Queued(queue) \subseteq Queued(AddAll(queue, urls, depth, seed))
<1> DEFINE After(f, n) == IF n = 0 THEN queue ELSE AddUrl(f[n - 1], urls[n], depth, seed)
           Builds(f, m) == f = [n \in 0 .. m |-> After(f, n)]
           Keeps(longer) == QueueOK(longer) /\ Queued(queue) \subseteq Queued(longer)
<1>1. Len(urls) \in Nat /\ \A n \in 1 .. Len(urls) : urls[n] \in Urls
    BY ElementOfSeq
<1>2. ASSUME NEW m \in 0 .. Len(urls)
      PROVE  \E f : Builds(f, m)
    <2> DEFINE T == {n \in 0 .. Len(urls) : ~ \E f : Builds(f, n)}
    <2>1. T \in SUBSET Nat
        BY <1>1
    <2>2. ASSUME T # {}
          PROVE  FALSE
        <3>1. PICK least \in T : \A other \in T : least <= other
            BY <2>1, <2>2, LeastNumber
        <3>2. least \in 0 .. Len(urls) /\ ~ \E f : Builds(f, least)
            BY <3>1
        <3>3. CASE least = 0
            <4>1. Builds([n \in 0 .. 0 |-> queue], 0)
                OBVIOUS
            <4> QED
                BY <3>2, <3>3, <4>1
        <3>4. CASE least # 0
            <4>1. least - 1 \in 0 .. Len(urls) /\ ~ (least <= least - 1)
                BY <1>1, <3>2, <3>4
            <4>2. PICK f : Builds(f, least - 1)
                BY <3>1, <4>1
            <4>3. PICK g : g = [n \in 0 .. least |->
                                   IF n < least THEN f[n] ELSE AddUrl(f[least - 1], urls[least], depth, seed)]
                OBVIOUS
            <4>4. ASSUME NEW n \in 0 .. least
                  PROVE  g[n] = After(g, n)
                <5>1. CASE n = 0
                    BY <3>2, <3>4, <4>2, <4>3, <5>1
                <5>2. CASE n # 0
                    <6>1. n - 1 \in 0 .. least /\ n - 1 < least /\ n - 1 \in 0 .. least - 1
                        BY <3>2, <5>2
                    <6>2. g[n - 1] = f[n - 1]
                        BY <4>3, <6>1
                    <6>3. CASE n = least
                        <7>1. g[n] = AddUrl(f[least - 1], urls[least], depth, seed)
                            BY <3>2, <4>3, <6>3
                        <7> QED
                            BY <5>2, <6>2, <6>3, <7>1
                    <6>4. CASE n # least
                        <7>1. n \in 0 .. least - 1 /\ n < least
                            BY <3>2, <6>4
                        <7>2. g[n] = f[n]
                            BY <4>3, <7>1
                        <7>3. f[n] = After(f, n)
                            BY <4>2, <7>1
                        <7> QED
                            BY <5>2, <6>2, <7>2, <7>3
                    <6> QED
                        BY <6>3, <6>4
                <5> QED
                    BY <5>1, <5>2
            <4>5. Builds(g, least)
                <5> HIDE DEF After
                <5>1. g = [n \in 0 .. least |-> g[n]]
                    BY <4>3
                <5> QED
                    BY <4>4, <5>1
            <4> QED
                BY <3>2, <4>5
        <3> QED
            BY <3>3, <3>4
    <2> QED
        BY <2>2
<1>3. \E f : Builds(f, Len(urls))
    <2>1. Len(urls) \in 0 .. Len(urls)
        BY <1>1
    <2> HIDE DEF Builds
    <2> QED
        BY <1>2, <2>1
<1>4. PICK F : F = CHOOSE g : Builds(g, Len(urls))
    OBVIOUS
<1>5. Builds(F, Len(urls))
    <2> HIDE DEF Builds
    <2> QED
        BY <1>3, <1>4, Zenon
<1>6. AddAll(queue, urls, depth, seed) = F[Len(urls)]
    BY <1>4, Zenon DEF AddAll
<1>7. ASSUME NEW n \in 0 .. Len(urls)
      PROVE  F[n] = After(F, n)
    BY <1>5
<1>8. Keeps(F[Len(urls)])
    <2> DEFINE T == {n \in 0 .. Len(urls) : ~ Keeps(F[n])}
    <2>1. T \in SUBSET Nat
        BY <1>1
    <2>2. ASSUME T # {}
          PROVE  FALSE
        <3>1. PICK least \in T : \A other \in T : least <= other
            BY <2>1, <2>2, LeastNumber
        <3>2. least \in 0 .. Len(urls) /\ ~ Keeps(F[least])
            BY <3>1
        <3>3. CASE least = 0
            <4>1. F[least] = queue
                BY <1>7, <3>2, <3>3
            <4> QED
                BY <3>2, <4>1
        <3>4. CASE least # 0
            <4>1. least - 1 \in 0 .. Len(urls) /\ ~ (least <= least - 1) /\ least \in 1 .. Len(urls)
                BY <1>1, <3>2, <3>4
            <4>2. Keeps(F[least - 1])
                BY <3>1, <4>1
            <4>3. F[least] = AddUrl(F[least - 1], urls[least], depth, seed)
                BY <1>7, <3>2, <3>4
            <4>4. PICK shorter : shorter = F[least - 1]
                OBVIOUS
            <4>5. urls[least] \in Urls
                BY <1>1, <4>1
            <4>6. QueueOK(AddUrl(shorter, urls[least], depth, seed))
                  /\ Queued(shorter) \subseteq Queued(AddUrl(shorter, urls[least], depth, seed))
                BY <4>2, <4>4, <4>5, UrlAdded
            <4> QED
                BY <3>2, <4>2, <4>3, <4>4, <4>6
        <3> QED
            BY <3>3, <3>4
    <2> QED
        BY <1>1, <2>2
<1> QED
    BY <1>6, <1>8

-----------------------------------------------------------------------------
(* The workers of a crawl *)

Stages == {"robots", "fetch", "upsert", "detail"}
Calls == [at : WorkerStops, record : UrlRecord \cup {<<>>},
          outcome : {"none", "page", "failed", "blocked"}, requests : Nat]
Busy == {w \in Crawlers : crawler[w].at \in Stages}
InHand == {crawler[w].record.url : w \in Busy}
Counted == tally["page"] \cup tally["failed"] \cup tally["blocked"]

\* A page at hand is counted nowhere yet and belongs to one worker; those are
\* the workers that activeWorkers counts.
WorkersOK ==
    /\ \A w \in Busy :
         /\ crawler[w].record \in UrlRecord
         /\ crawler[w].record.url \notin Counted \cup errored
         /\ urlsVisited[crawler[w].record.url] = crawler[w].record.depth
    /\ \A v, w \in Busy : crawler[v].record.url = crawler[w].record.url => v = w
    /\ \A w \in Crawlers :
         /\ crawler[w].at = "upsert" => crawler[w].outcome # "none"
         /\ crawler[w].at = "detail" =>
              crawler[w].outcome \in {"page", "blocked"} /\ crawler[w].record.url \in pageRows
         /\ crawler[w].at = "end" => crawlDone
    /\ activeWorkers = Cardinality(Busy)

Followed(known) ==
    \A u \in tally["page"] : urlsVisited[u] < MaxDepth => ToSet(PageLinks[u]) \subseteq known

\* Whatever was popped is at hand or settled, and the links of a page that was
\* counted are known: popped already or queued.
UrlsOK ==
    /\ Visited = InHand \cup Counted \cup errored
    /\ \A j, k \in DOMAIN tally : j # k => tally[j] \cap tally[k] = {}
    /\ Counted \subseteq pageRows
    /\ refused \/ Followed(Visited \cup Queued(urlQueue))

\* state.done is set with nothing queued and nobody at work, and no job is
\* completed before.
PhasesOK ==
    /\ crawlDone => urlQueue = <<>> /\ Busy = {}
    /\ crawlPhase = "completing" \/ crawlJob = "COMPLETED" => crawlDone
    /\ crawlPhase = "idle" => Busy = {} /\ tally["page"] = {} /\ ~crawlDone

CrawlInv == CrawlTypeOK /\ QueueOK(urlQueue) /\ WorkersOK /\ UrlsOK /\ PhasesOK

LEMMA BusyIsFinite ==
    /\ IsFiniteSet(Busy) /\ Cardinality(Busy) \in Nat
    /\ Cardinality(Busy) = 0 => Busy = {}
<1>1. IsFiniteSet(Busy)
    <2>1. Busy \subseteq Crawlers
        BY DEF Busy
    <2> QED
        BY <2>1, CrawlAssumption, FS_Subset
<1> QED
    BY <1>1, FS_CardinalityType, FS_EmptySet

LEMMA CrawlBegins == CrawlInit => CrawlInv
<1> SUFFICES ASSUME CrawlInit
             PROVE  CrawlInv
    OBVIOUS
<1>1. CrawlTypeOK
    <2>1. Resting \in [at : WorkerStops, record : UrlRecord \cup {<<>>},
                       outcome : {"none", "page", "failed", "blocked"}, requests : Nat]
        BY DEF Resting, WorkerStops
    <2>2. crawler \in [Crawlers -> [at : WorkerStops, record : UrlRecord \cup {<<>>},
                                    outcome : {"none", "page", "failed", "blocked"}, requests : Nat]]
        BY <2>1 DEF CrawlInit
    <2>3. urlQueue \in Seq(UrlRecord) /\ tally \in [{"page", "failed", "blocked"} -> SUBSET Urls]
        BY DEF CrawlInit
    <2> QED
        BY <2>2, <2>3 DEF CrawlInit, CrawlTypeOK
<1>2. Busy = {} /\ Visited = {} /\ Counted = {} /\ errored = {} /\ InHand = {}
    BY DEF CrawlInit, Busy, Stages, Resting, Visited, Counted, InHand
<1>3. QueueOK(urlQueue)
    BY <1>2 DEF CrawlInit, QueueOK
<1>4. WorkersOK
    <2>1. activeWorkers = Cardinality(Busy)
        BY <1>2, FS_EmptySet DEF CrawlInit
    <2> QED
        BY <1>2, <2>1 DEF CrawlInit, WorkersOK, Resting
<1>5. UrlsOK
    BY <1>2 DEF CrawlInit, UrlsOK, Followed
<1>6. PhasesOK
    BY <1>2 DEF CrawlInit, PhasesOK
<1> QED
    BY <1>1, <1>3, <1>4, <1>5, <1>6 DEF CrawlInv

\* A worker goes on with its page.
LEMMA PageGoesOn ==
    ASSUME CrawlInv, NEW w \in Busy, NEW next \in Calls, crawler' = [crawler EXCEPT ![w] = next],
           next.at \in Stages, next.record = crawler[w].record,
           next.at = "upsert" => next.outcome # "none",
           next.at = "detail" => next.outcome \in {"page", "blocked"} /\ next.record.url \in pageRows',
           pageRows \subseteq pageRows', pageRows' \subseteq Urls, storeFaults' \in Nat,
           UNCHANGED <<crawlPhase, crawlJob, crawlEvent, urlQueue, urlsVisited, activeWorkers,
                       crawlDone, tally, errored, refused>>
    PROVE  CrawlInv'
<1>1. w \in Crawlers /\ crawler[w].at \in Stages
    BY DEF Busy
<1>2. CrawlTypeOK /\ WorkersOK /\ UrlsOK /\ PhasesOK /\ QueueOK(urlQueue)
    BY DEF CrawlInv
<1>3. crawler \in [Crawlers -> Calls]
    BY <1>2 DEF CrawlTypeOK, Calls
<1>4. /\ crawler' \in [Crawlers -> Calls]
      /\ \A v \in Crawlers : crawler'[v] = IF v = w THEN next ELSE crawler[v]
    BY <1>1, <1>3
<1>5. Busy' = Busy
    BY <1>1, <1>4 DEF Busy
<1>6. \A v \in Busy : crawler'[v].record = crawler[v].record
    BY <1>4 DEF Busy
<1>7. InHand' = InHand
    BY <1>5, <1>6 DEF InHand
<1>8. Counted' = Counted /\ Visited' = Visited /\ Queued(urlQueue)' = Queued(urlQueue)
    BY DEF Counted, Visited, Queued
<1>9. CrawlTypeOK'
    BY <1>2, <1>4 DEF CrawlTypeOK, Calls
<1>10. QueueOK(urlQueue)'
    BY <1>2, <1>8 DEF QueueOK
<1>11. WorkersOK'
    <2>1. \A v \in Busy' :
             /\ crawler'[v].record \in UrlRecord
             /\ crawler'[v].record.url \notin Counted' \cup errored'
             /\ urlsVisited'[crawler'[v].record.url] = crawler'[v].record.depth
        BY <1>2, <1>5, <1>6, <1>8 DEF WorkersOK
    <2>2. \A u, v \in Busy' : crawler'[u].record.url = crawler'[v].record.url => u = v
        BY <1>2, <1>5, <1>6 DEF WorkersOK
    <2>3. activeWorkers' = Cardinality(Busy')
        BY <1>2, <1>5 DEF WorkersOK
    <2>4. ASSUME NEW v \in Crawlers
          PROVE  /\ crawler'[v].at = "upsert" => crawler'[v].outcome # "none"
                 /\ crawler'[v].at = "detail" =>
                      crawler'[v].outcome \in {"page", "blocked"} /\ crawler'[v].record.url \in pageRows'
                 /\ crawler'[v].at = "end" => crawlDone'
        <3>1. CASE v = w
            BY <1>4, <3>1 DEF Stages
        <3>2. CASE v # w
            BY <1>2, <1>4, <3>2 DEF WorkersOK
        <3> QED
            BY <3>1, <3>2
    <2> QED
        BY <2>1, <2>2, <2>3, <2>4 DEF WorkersOK
<1>12. UrlsOK'
    BY <1>2, <1>7, <1>8 DEF UrlsOK, Followed
<1>13. PhasesOK'
    BY <1>2, <1>5 DEF PhasesOK
<1> QED
    BY <1>9, <1>10, <1>11, <1>12, <1>13 DEF CrawlInv

\* The finally block: the worker is free, and the others that are busy stay so.
LEMMA PageIsOver ==
    ASSUME CrawlInv, NEW w \in Busy, PageOver(w)
    PROVE  /\ crawler' \in [Crawlers -> Calls] /\ Busy' = Busy \ {w}
           /\ \A v \in Busy' : crawler'[v] = crawler[v]
           /\ \A v \in Crawlers : v \notin Busy' => crawler'[v].at \in {"loop", "asleep", "end"}
           /\ \A v \in Crawlers : crawler'[v].at = "end" => crawler[v].at = "end"
           /\ InHand' = InHand \ {crawler[w].record.url}
           /\ activeWorkers' = Cardinality(Busy') /\ activeWorkers' \in Nat
<1>1. w \in Crawlers /\ crawler[w].at \in Stages
    BY DEF Busy
<1>2. CrawlTypeOK /\ WorkersOK
    BY DEF CrawlInv
<1>3. crawler \in [Crawlers -> Calls]
    BY <1>2 DEF CrawlTypeOK, Calls
<1>4. Resting \in Calls /\ Resting.at = "loop"
    BY DEF Resting, Calls, WorkerStops
<1>5. PICK rested : rested = [crawler EXCEPT ![w] = Resting]
    OBVIOUS
<1>6. rested \in [Crawlers -> Calls] /\ \A v \in Crawlers : rested[v] = IF v = w THEN Resting ELSE crawler[v]
    BY <1>1, <1>3, <1>4, <1>5
<1>7. crawler' = Woken(rested)
    BY <1>5 DEF PageOver
<1>8. ASSUME NEW v \in Crawlers
      PROVE  /\ crawler'[v] \in Calls
             /\ crawler'[v] = IF rested[v].at = "asleep" THEN crawler'[v] ELSE rested[v]
             /\ rested[v].at = "asleep" => crawler'[v].at = "loop"
    <2>1. crawler'[v] = IF rested[v].at = "asleep" THEN [rested[v] EXCEPT !.at = "loop"] ELSE rested[v]
        BY <1>7 DEF Woken
    <2>2. rested[v] \in Calls
        BY <1>6
    <2>3. [rested[v] EXCEPT !.at = "loop"] \in Calls /\ [rested[v] EXCEPT !.at = "loop"].at = "loop"
        BY <2>2 DEF Calls, WorkerStops
    <2> QED
        BY <2>1, <2>2, <2>3
<1>9. crawler' \in [Crawlers -> Calls]
    <2>1. crawler' = [v \in Crawlers |-> crawler'[v]]
        BY <1>7 DEF Woken
    <2> QED
        BY <1>8, <2>1
<1>10. \A v \in Busy : v # w => crawler'[v] = crawler[v]
    BY <1>6, <1>8 DEF Busy, Stages
<1>11. \A v \in Crawlers : v \notin Busy \/ v = w => crawler'[v].at \in {"loop", "end"}
    <2>1. \A v \in Crawlers : v \notin Busy => crawler[v].at \in {"loop", "asleep", "end"}
        BY <1>3 DEF Busy, Stages, Calls, WorkerStops
    <2> QED
        BY <1>4, <1>6, <1>8, <2>1
<1>12. Busy' = Busy \ {w}
    BY <1>10, <1>11 DEF Busy, Stages
<1>13. \A v \in Crawlers : crawler'[v].at = "end" => crawler[v].at = "end"
    BY <1>4, <1>6, <1>8
<1>14. InHand' = InHand \ {crawler[w].record.url}
    <2>1. \A u, v \in Busy : crawler[u].record.url = crawler[v].record.url => u = v
        BY <1>2 DEF WorkersOK
    <2> QED
        BY <1>10, <1>12, <2>1 DEF InHand
<1>15. activeWorkers' = Cardinality(Busy') /\ activeWorkers' \in Nat
    <2>1. activeWorkers = Cardinality(Busy) /\ activeWorkers' = activeWorkers - 1
        BY <1>2 DEF WorkersOK, PageOver
    <2>2. Cardinality(Busy \ {w}) = Cardinality(Busy) - 1 /\ IsFiniteSet(Busy \ {w})
        BY BusyIsFinite, FS_RemoveElement
    <2> QED
        BY <1>12, <2>1, <2>2, FS_CardinalityType
<1> QED
    BY <1>9, <1>10, <1>11, <1>12, <1>13, <1>14, <1>15

\* The page of a busy worker is over: it threw, or it is counted, and then its
\* links are known or one was refused.
LEMMA PageSettles ==
    ASSUME CrawlInv, NEW w \in Busy, PageOver(w), storeFaults' \in Nat, refused' \in BOOLEAN,
           refused => refused', UNCHANGED <<crawlPhase, crawlJob, crawlEvent, urlsVisited, crawlDone>>,
           \/ /\ errored' = errored \cup {crawler[w].record.url}
              /\ UNCHANGED <<pageRows, tally, urlQueue>>
           \/ /\ Count(w) /\ UNCHANGED errored /\ crawler[w].outcome # "none"
              /\ pageRows \subseteq pageRows' /\ pageRows' \subseteq Urls
              /\ crawler[w].record.url \in pageRows'
              /\ QueueOK(urlQueue') /\ Queued(urlQueue) \subseteq Queued(urlQueue')
              /\ \/ refused' \/ crawler[w].outcome # "page" \/ ~ (crawler[w].record.depth < MaxDepth)
                 \/ ToSet(PageLinks[crawler[w].record.url]) \subseteq Visited \cup Queued(urlQueue')
    PROVE  CrawlInv'
<1>1. CrawlTypeOK /\ WorkersOK /\ UrlsOK /\ PhasesOK /\ QueueOK(urlQueue)
    BY DEF CrawlInv
<1>2. PICK url : url = crawler[w].record.url
    OBVIOUS
<1>3. /\ url \in Urls /\ url \notin Counted \cup errored /\ url \in InHand
      /\ urlsVisited[url] = crawler[w].record.depth
    BY <1>1, <1>2 DEF WorkersOK, UrlRecord, InHand
<1>4. Busy # {} /\ ~ crawlDone /\ crawlPhase # "idle" /\ crawlPhase # "completing" /\ crawlJob # "COMPLETED"
    BY <1>1 DEF PhasesOK
<1>5. /\ crawler' \in [Crawlers -> Calls] /\ Busy' = Busy \ {w}
      /\ \A v \in Busy' : crawler'[v] = crawler[v]
      /\ \A v \in Crawlers : v \notin Busy' => crawler'[v].at \in {"loop", "asleep", "end"}
      /\ \A v \in Crawlers : crawler'[v].at = "end" => crawler[v].at = "end"
      /\ InHand' = InHand \ {url}
      /\ activeWorkers' = Cardinality(Busy') /\ activeWorkers' \in Nat
    BY <1>2, PageIsOver
<1>6. Visited' = Visited
    BY DEF Visited
<1>7. PICK outcome \in {"none", "page", "failed", "blocked"} : outcome = crawler[w].outcome
    BY <1>1 DEF CrawlTypeOK, Busy
<1>8. tally \in [{"page", "failed", "blocked"} -> SUBSET Urls] /\ DOMAIN tally = {"page", "failed", "blocked"}
    BY <1>1 DEF CrawlTypeOK
<1>9. \/ errored' = errored \cup {url} /\ tally' = tally /\ pageRows' = pageRows
      \/ /\ errored' = errored /\ outcome # "none" /\ url \in pageRows'
         /\ tally' \in [{"page", "failed", "blocked"} -> SUBSET Urls]
         /\ \A k \in {"page", "failed", "blocked"} :
               tally'[k] = IF k = outcome THEN tally[k] \cup {url} ELSE tally[k]
    <2>1. CASE errored' = errored \cup {url} /\ UNCHANGED <<pageRows, tally>>
        BY <2>1
    <2>2. CASE Count(w) /\ UNCHANGED errored /\ outcome # "none" /\ url \in pageRows'
        <3>1. tally' = [tally EXCEPT ![outcome] = @ \cup {url}]
            BY <1>2, <1>7, <2>2 DEF Count
        <3>2. outcome \in {"page", "failed", "blocked"}
            BY <1>7, <2>2
        <3>3. \A k \in {"page", "failed", "blocked"} :
                tally'[k] = IF k = outcome THEN tally[k] \cup {url} ELSE tally[k]
            BY <1>8, <3>1, <3>2
        <3>4. tally' \in [{"page", "failed", "blocked"} -> SUBSET Urls]
            BY <1>3, <1>8, <3>1, <3>2
        <3> QED
            BY <2>2, <3>3, <3>4
    <2> QED
        BY <1>2, <1>7, <2>1, <2>2
<1>10. /\ tally' \in [{"page", "failed", "blocked"} -> SUBSET Urls]
       /\ Counted' \cup errored' = Counted \cup errored \cup {url}
       /\ \A j, k \in DOMAIN tally' : j # k => tally'[j] \cap tally'[k] = {}
    <2>1. \A j, k \in DOMAIN tally : j # k => tally[j] \cap tally[k] = {}
        BY <1>1 DEF UrlsOK
    <2>2. CASE errored' = errored \cup {url} /\ tally' = tally
        BY <1>8, <2>1, <2>2 DEF Counted
    <2>3. CASE /\ errored' = errored /\ outcome # "none"
               /\ tally' \in [{"page", "failed", "blocked"} -> SUBSET Urls]
               /\ \A k \in {"page", "failed", "blocked"} :
                     tally'[k] = IF k = outcome THEN tally[k] \cup {url} ELSE tally[k]
        <3>1. DOMAIN tally' = {"page", "failed", "blocked"}
            BY <2>3
        <3>2. Counted' = Counted \cup {url}
            BY <1>7, <2>3 DEF Counted
        <3>3. \A k \in {"page", "failed", "blocked"} : url \notin tally[k]
            BY <1>3 DEF Counted
        <3>4. \A j, k \in {"page", "failed", "blocked"} : j # k => tally'[j] \cap tally'[k] = {}
            BY <1>8, <2>1, <2>3, <3>3
        <3> QED
            BY <2>3, <3>1, <3>2, <3>4
    <2> QED
        BY <1>9, <2>2, <2>3
<1>11. Counted' \subseteq pageRows'
    <2>1. Counted \subseteq pageRows /\ pageRows \subseteq pageRows'
        BY <1>1 DEF UrlsOK
    <2> QED
        BY <1>8, <1>9, <2>1 DEF Counted
<1>12. CrawlTypeOK'
    <2>1. errored' \subseteq Urls
        BY <1>1, <1>2, <1>3 DEF CrawlTypeOK
    <2>2. pageRows' \subseteq Urls
        BY <1>1 DEF CrawlTypeOK
    <2>3. urlQueue' \in Seq(UrlRecord)
        BY <1>1 DEF QueueOK
    <2> QED
        BY <1>1, <1>5, <1>10, <2>1, <2>2, <2>3 DEF CrawlTypeOK, Calls
<1>13. QueueOK(urlQueue)'
    BY <1>1, <1>6 DEF QueueOK
<1>14. WorkersOK'
    <2>1. ASSUME NEW v \in Busy'
          PROVE  /\ crawler'[v].record \in UrlRecord
                 /\ crawler'[v].record.url \notin Counted' \cup errored'
                 /\ urlsVisited'[crawler'[v].record.url] = crawler'[v].record.depth
        <3>1. v \in Busy /\ v # w /\ crawler'[v] = crawler[v]
            BY <1>5
        <3>2. crawler[v].record.url # url
            BY <1>1, <1>2, <3>1 DEF WorkersOK
        <3> QED
            BY <1>1, <1>10, <3>1, <3>2 DEF WorkersOK
    <2>2. \A u, v \in Busy' : crawler'[u].record.url = crawler'[v].record.url => u = v
        BY <1>1, <1>5 DEF WorkersOK
    <2>3. ASSUME NEW v \in Crawlers
          PROVE  /\ crawler'[v].at = "upsert" => crawler'[v].outcome # "none"
                 /\ crawler'[v].at = "detail" =>
                      crawler'[v].outcome \in {"page", "blocked"} /\ crawler'[v].record.url \in pageRows'
                 /\ crawler'[v].at = "end" => crawlDone'
        <3>1. pageRows \subseteq pageRows'
            OBVIOUS
        <3>2. CASE v \in Busy'
            BY <1>1, <1>5, <3>1, <3>2 DEF WorkersOK
        <3>3. CASE v \notin Busy'
            BY <1>1, <1>5, <3>3 DEF WorkersOK
        <3> QED
            BY <3>2, <3>3
    <2>4. activeWorkers' = Cardinality(Busy')
        BY <1>5
    <2> QED
        BY <2>1, <2>2, <2>3, <2>4 DEF WorkersOK
<1>15. Followed(Visited \cup Queued(urlQueue))' \/ refused'
    <2>1. ASSUME ~ refused', NEW u \in tally'["page"], urlsVisited'[u] < MaxDepth
          PROVE  ToSet(PageLinks[u]) \subseteq Visited' \cup Queued(urlQueue')
        <3>1. Queued(urlQueue) \subseteq Queued(urlQueue') /\ ~ refused
            BY <2>1
        <3>2. CASE u \in tally["page"]
            <4>1. ToSet(PageLinks[u]) \subseteq Visited \cup Queued(urlQueue)
                BY <1>1, <2>1, <3>1, <3>2 DEF UrlsOK, Followed
            <4> QED
                BY <1>6, <3>1, <4>1
        <3>3. CASE u \notin tally["page"]
            <4>1. u = url /\ outcome = "page" /\ tally' # tally
                BY <1>9, <2>1, <3>3
            <4>2. crawler[w].record.depth < MaxDepth
                BY <1>3, <2>1, <4>1
            <4>3. ToSet(PageLinks[crawler[w].record.url]) \subseteq Visited \cup Queued(urlQueue')
                BY <1>7, <2>1, <4>1, <4>2
            <4> QED
                BY <1>2, <1>6, <4>1, <4>3
        <3> QED
            BY <3>2, <3>3
    <2> QED
        BY <2>1 DEF Followed, Queued
<1>16. UrlsOK'
    <2>1. Visited = InHand \cup Counted \cup errored
        BY <1>1 DEF UrlsOK
    <2>2. Visited' = InHand' \cup Counted' \cup errored'
        BY <1>3, <1>5, <1>6, <1>10, <2>1
    <2> QED
        BY <1>10, <1>11, <1>15, <2>2 DEF UrlsOK
<1>17. PhasesOK'
    BY <1>4 DEF PhasesOK
<1> QED
    BY <1>12, <1>13, <1>14, <1>16, <1>17 DEF CrawlInv

\* Workers that sleep, wake up or leave have no page.
LEMMA NobodyAtWork ==
    ASSUME CrawlInv, crawler' \in [Crawlers -> Calls], crawlDone' \in BOOLEAN, crawlDone => crawlDone',
           \A v \in Crawlers :
               \/ crawler'[v] = crawler[v]
               \/ crawler[v].at \notin Stages /\ crawler'[v].at \in {"loop", "asleep", "end"},
           \A v \in Crawlers : crawler'[v].at = "end" => crawler[v].at = "end" \/ crawlDone',
           crawlDone' => crawlDone \/ (urlQueue = <<>> /\ activeWorkers = 0 /\ crawlPhase # "idle"),
           UNCHANGED <<crawlPhase, crawlJob, crawlEvent, urlQueue, urlsVisited, activeWorkers,
                       pageRows, tally, errored, refused, storeFaults>>
    PROVE  CrawlInv'
<1>1. CrawlTypeOK /\ WorkersOK /\ UrlsOK /\ PhasesOK /\ QueueOK(urlQueue)
    BY DEF CrawlInv
<1>2. crawler \in [Crawlers -> Calls]
    BY <1>1 DEF CrawlTypeOK, Calls
<1>3. Busy' = Busy
    BY DEF Busy, Stages
<1>4. \A v \in Busy : crawler'[v] = crawler[v]
    BY DEF Busy
<1>5. InHand' = InHand
    BY <1>3, <1>4 DEF InHand
<1>6. Counted' = Counted /\ Visited' = Visited /\ Queued(urlQueue)' = Queued(urlQueue)
    BY DEF Counted, Visited, Queued
<1>7. CrawlTypeOK'
    BY <1>1 DEF CrawlTypeOK, Calls
<1>8. QueueOK(urlQueue)'
    BY <1>1, <1>6 DEF QueueOK
<1>9. WorkersOK'
    <2>1. \A v \in Busy' :
             /\ crawler'[v].record \in UrlRecord
             /\ crawler'[v].record.url \notin Counted' \cup errored'
             /\ urlsVisited'[crawler'[v].record.url] = crawler'[v].record.depth
        BY <1>1, <1>3, <1>4, <1>6 DEF WorkersOK
    <2>2. \A u, v \in Busy' : crawler'[u].record.url = crawler'[v].record.url => u = v
        BY <1>1, <1>3, <1>4 DEF WorkersOK
    <2>3. activeWorkers' = Cardinality(Busy')
        BY <1>1, <1>3 DEF WorkersOK
    <2>4. ASSUME NEW v \in Crawlers
          PROVE  /\ crawler'[v].at = "upsert" => crawler'[v].outcome # "none"
                 /\ crawler'[v].at = "detail" =>
                      crawler'[v].outcome \in {"page", "blocked"} /\ crawler'[v].record.url \in pageRows'
        BY <1>1 DEF WorkersOK
    <2>5. ASSUME NEW v \in Crawlers, crawler'[v].at = "end"
          PROVE  crawlDone'
        <3>1. crawler[v].at = "end" => crawlDone
            BY <1>1 DEF WorkersOK
        <3> QED
            BY <2>5, <3>1
    <2> QED
        BY <2>1, <2>2, <2>3, <2>4, <2>5 DEF WorkersOK
<1>10. UrlsOK'
    BY <1>1, <1>5, <1>6 DEF UrlsOK, Followed
<1>11. PhasesOK'
    <2>1. activeWorkers = 0 => Busy = {}
        BY <1>1, BusyIsFinite DEF WorkersOK
    <2>2. crawlDone' => urlQueue' = <<>> /\ Busy' = {}
        BY <1>1, <1>3, <2>1 DEF PhasesOK
    <2>3. crawlPhase' = "completing" \/ crawlJob' = "COMPLETED" => crawlDone'
        BY <1>1 DEF PhasesOK
    <2>4. crawlPhase' = "idle" => Busy' = {} /\ tally'["page"] = {} /\ ~crawlDone'
        BY <1>1, <1>3 DEF PhasesOK
    <2> QED
        BY <2>2, <2>3, <2>4 DEF PhasesOK
<1> QED
    BY <1>7, <1>8, <1>9, <1>10, <1>11 DEF CrawlInv

\* The orchestrator's steps leave the workers alone.
LEMMA CrawlAdvances ==
    ASSUME CrawlInv, CrawlTypeOK',
           \/ UNCHANGED <<urlQueue, refused>>
           \/ crawlPhase = "idle" /\ crawlPhase' # "idle" /\ QueueOK(urlQueue'),
           crawlPhase' = "completing" \/ crawlJob' = "COMPLETED" =>
               \/ crawlPhase = "completing" \/ crawlJob = "COMPLETED"
               \/ \A w \in Crawlers : crawler[w].at = "end",
           crawlPhase' # "idle",
           UNCHANGED <<urlsVisited, crawler, activeWorkers, crawlDone, pageRows, tally, errored>>
    PROVE  CrawlInv'
<1>1. CrawlTypeOK /\ WorkersOK /\ UrlsOK /\ PhasesOK /\ QueueOK(urlQueue)
    BY DEF CrawlInv
<1>2. /\ Busy' = Busy /\ InHand' = InHand /\ Counted' = Counted /\ Visited' = Visited
    BY DEF Busy, InHand, Counted, Visited
<1>3. QueueOK(urlQueue)'
    BY <1>1, <1>2 DEF QueueOK
<1>4. WorkersOK'
    BY <1>1, <1>2 DEF WorkersOK
<1>5. refused' \/ Followed(Visited \cup Queued(urlQueue))'
    <2>1. CASE UNCHANGED <<urlQueue, refused>>
        BY <1>1, <1>2, <2>1 DEF UrlsOK, Followed, Queued
    <2>2. CASE crawlPhase = "idle"
        BY <1>1, <2>2 DEF PhasesOK, Followed
    <2> QED
        BY <2>1, <2>2
<1>6. UrlsOK'
    BY <1>1, <1>2, <1>5 DEF UrlsOK
<1>7. PhasesOK'
    <2>1. (\A w \in Crawlers : crawler[w].at = "end") => crawlDone
        BY <1>1, CrawlAssumption DEF WorkersOK
    <2>2. crawlDone => crawlPhase # "idle" /\ urlQueue' = <<>> /\ Busy' = {}
        BY <1>1, <1>2 DEF PhasesOK
    <2>3. crawlPhase' = "completing" \/ crawlJob' = "COMPLETED" => crawlDone'
        BY <1>1, <2>1 DEF PhasesOK
    <2> QED
        BY <2>2, <2>3 DEF PhasesOK
<1> QED
    BY <1>3, <1>4, <1>6, <1>7 DEF CrawlInv

LEMMA CrawlRests == CrawlInv /\ UNCHANGED crawlVars => CrawlInv'
<1> SUFFICES ASSUME CrawlInv, UNCHANGED crawlVars
             PROVE  CrawlInv'
    OBVIOUS
<1>1. CrawlTypeOK /\ WorkersOK /\ UrlsOK /\ PhasesOK /\ QueueOK(urlQueue)
    BY DEF CrawlInv
<1>2. /\ crawlPhase' = crawlPhase /\ crawlJob' = crawlJob /\ crawlEvent' = crawlEvent /\ urlQueue' = urlQueue
      /\ urlsVisited' = urlsVisited /\ crawler' = crawler /\ activeWorkers' = activeWorkers
      /\ crawlDone' = crawlDone /\ pageRows' = pageRows /\ tally' = tally /\ errored' = errored
      /\ refused' = refused /\ storeFaults' = storeFaults
    BY DEF crawlVars
<1>3. /\ Busy' = Busy /\ InHand' = InHand /\ Counted' = Counted /\ Visited' = Visited
      /\ Queued(urlQueue)' = Queued(urlQueue)
    BY <1>2 DEF Busy, InHand, Counted, Visited, Queued
<1>4. CrawlTypeOK'
    BY <1>1, <1>2 DEF CrawlTypeOK
<1>5. QueueOK(urlQueue)'
    BY <1>1, <1>2, <1>3 DEF QueueOK
<1>6. WorkersOK'
    BY <1>1, <1>2, <1>3 DEF WorkersOK
<1>7. UrlsOK'
    BY <1>1, <1>2, <1>3 DEF UrlsOK, Followed
<1>8. PhasesOK'
    BY <1>1, <1>2, <1>3 DEF PhasesOK
<1> QED
    BY <1>4, <1>5, <1>6, <1>7, <1>8 DEF CrawlInv

\* A URL that is popped was not visited and is in nobody else's hand.
LEMMA UrlIsTaken ==
    ASSUME CrawlInv, NEW w \in Crawlers, TakeUrl(w)
    PROVE  CrawlInv'
<1>1. CrawlTypeOK /\ WorkersOK /\ UrlsOK /\ PhasesOK /\ QueueOK(urlQueue)
    BY DEF CrawlInv
<1>2. crawler \in [Crawlers -> Calls] /\ urlsVisited \in [Urls -> Nat \cup {NotQueued}]
    BY <1>1 DEF CrawlTypeOK, Calls
<1>3. urlQueue \in Seq(UrlRecord) /\ urlQueue # <<>>
    BY <1>1 DEF TakeUrl, QueueOK
<1>4. PICK entry \in UrlRecord : entry = Head(urlQueue)
    BY <1>3, HeadTailProperties
<1>5. entry.url \in Urls /\ entry.depth \in Nat
    BY DEF UrlRecord
<1>6. PICK next : next = [at |-> "robots", record |-> entry, outcome |-> "none", requests |-> 0]
    OBVIOUS
<1>7. next \in Calls /\ next.at = "robots" /\ next.record = entry
    BY <1>6 DEF Calls, WorkerStops
<1>8. /\ crawler' = [crawler EXCEPT ![w] = next]
      /\ urlsVisited' = [urlsVisited EXCEPT ![entry.url] = entry.depth]
      /\ urlQueue' = Tail(urlQueue) /\ activeWorkers' = activeWorkers + 1
    <2>1. PICK call : call = [Resting EXCEPT !.at = "robots", !.record = entry]
        OBVIOUS
    <2>2. call = next
        <3>1. [Resting EXCEPT !.at = "robots"] = [at |-> "robots", record |-> <<>>, outcome |-> "none", requests |-> 0]
            BY DEF Resting
        <3>2. PICK begun : begun = [at |-> "robots", record |-> <<>>, outcome |-> "none", requests |-> 0]
            OBVIOUS
        <3>3. call = [begun EXCEPT !.record = entry]
            BY <2>1, <3>1, <3>2
        <3> QED
            BY <1>6, <3>2, <3>3
    <2>3. crawler' = [crawler EXCEPT ![w] = call]
        BY <1>4, <2>1, Zenon DEF TakeUrl
    <2> QED
        BY <1>4, <2>2, <2>3 DEF TakeUrl
<1>9. /\ crawler' \in [Crawlers -> Calls]
      /\ \A v \in Crawlers : crawler'[v] = IF v = w THEN next ELSE crawler[v]
    BY <1>2, <1>7, <1>8
<1>10. /\ urlsVisited' \in [Urls -> Nat \cup {NotQueued}]
       /\ \A u \in Urls : urlsVisited'[u] = IF u = entry.url THEN entry.depth ELSE urlsVisited[u]
    BY <1>2, <1>5, <1>8
<1>11. Visited' = Visited \cup {entry.url}
    BY <1>5, <1>10 DEF Visited, NotQueued
<1>12. /\ DOMAIN urlQueue = 1 .. Len(urlQueue) /\ Len(urlQueue) \in Nat /\ Len(urlQueue) >= 1
       /\ urlQueue[1] = entry
       /\ Tail(urlQueue) \in Seq(UrlRecord) /\ DOMAIN Tail(urlQueue) = 1 .. Len(urlQueue) - 1
       /\ \A i \in 1 .. Len(urlQueue) - 1 : Tail(urlQueue)[i] = urlQueue[i + 1]
    <2>1. Len(urlQueue) \in Nat /\ DOMAIN urlQueue = 1 .. Len(urlQueue) /\ Len(urlQueue) >= 1 /\ urlQueue[1] = entry
        BY <1>3, <1>4
    <2>2. Tail(urlQueue) \in Seq(UrlRecord) /\ Len(Tail(urlQueue)) = Len(urlQueue) - 1
        BY <1>3, HeadTailProperties
    <2>3. \A i \in 1 .. Len(Tail(urlQueue)) : Tail(urlQueue)[i] = urlQueue[i + 1]
        BY <1>3, HeadTailProperties
    <2>4. DOMAIN Tail(urlQueue) = 1 .. Len(Tail(urlQueue))
        BY <2>2
    <2> QED
        BY <2>1, <2>2, <2>3, <2>4
<1>13. Queued(urlQueue) \cap Visited = {} /\ \A i, j \in DOMAIN urlQueue : urlQueue[i].url = urlQueue[j].url => i = j
    BY <1>1 DEF QueueOK
<1>14. entry.url \in Queued(urlQueue) /\ entry.url \notin Visited
    <2>1. 1 \in DOMAIN urlQueue
        BY <1>12
    <2> QED
        BY <1>12, <1>13, <2>1 DEF Queued
<1>15. Queued(Tail(urlQueue)) = Queued(urlQueue) \ {entry.url}
    <2>1. ASSUME NEW i \in 1 .. Len(urlQueue) - 1
          PROVE  Tail(urlQueue)[i].url \in Queued(urlQueue) \ {entry.url}
        <3>1. i + 1 \in DOMAIN urlQueue /\ 1 \in DOMAIN urlQueue /\ i + 1 # 1
            BY <1>12
        <3>2. urlQueue[i + 1].url # entry.url
            BY <1>12, <1>13, <3>1
        <3> QED
            BY <1>12, <3>1, <3>2 DEF Queued
    <2>2. ASSUME NEW i \in 1 .. Len(urlQueue), urlQueue[i].url # entry.url
          PROVE  urlQueue[i].url \in Queued(Tail(urlQueue))
        <3>1. i # 1
            BY <1>12, <2>2
        <3>2. i - 1 \in 1 .. Len(urlQueue) - 1 /\ (i - 1) + 1 = i
            BY <1>12, <3>1
        <3>3. i - 1 \in DOMAIN Tail(urlQueue) /\ Tail(urlQueue)[i - 1] = urlQueue[i]
            BY <1>12, <3>2
        <3> QED
            BY <3>3 DEF Queued
    <2> QED
        BY <1>12, <2>1, <2>2 DEF Queued
<1>16. QueueOK(urlQueue)'
    <2>1. ASSUME NEW i \in DOMAIN Tail(urlQueue), NEW j \in DOMAIN Tail(urlQueue),
                 Tail(urlQueue)[i].url = Tail(urlQueue)[j].url
          PROVE  i = j
        <3>1. i + 1 \in DOMAIN urlQueue /\ j + 1 \in DOMAIN urlQueue /\ i \in Int /\ j \in Int
            BY <1>12
        <3>2. urlQueue[i + 1].url = urlQueue[j + 1].url
            BY <1>12, <2>1
        <3>3. i + 1 = j + 1
            BY <1>13, <3>1, <3>2
        <3> QED
            BY <3>1, <3>3
    <2>2. Queued(Tail(urlQueue)) \cap Visited' = {}
        BY <1>11, <1>13, <1>15
    <2> QED
        BY <1>8, <1>12, <2>1, <2>2 DEF QueueOK, Queued
<1>17. w \notin Busy /\ crawler[w].at = "loop" /\ ~ crawlDone /\ crawlPhase = "working"
    BY DEF TakeUrl, Busy, Stages
<1>18. Busy' = Busy \cup {w}
    BY <1>7, <1>9 DEF Busy, Stages
<1>19. \A v \in Busy : crawler'[v] = crawler[v] /\ v # w
    BY <1>9, <1>17 DEF Busy
<1>20. InHand' = InHand \cup {entry.url}
    BY <1>7, <1>9, <1>18, <1>19 DEF InHand
<1>21. Counted' = Counted /\ errored' = errored
    BY DEF Counted, TakeUrl
<1>22. CrawlTypeOK'
    <2>1. activeWorkers' \in Nat
        BY <1>1, <1>8 DEF CrawlTypeOK
    <2>2. urlQueue' \in Seq(UrlRecord)
        BY <1>8, <1>12
    <2> QED
        BY <1>1, <1>9, <1>10, <2>1, <2>2 DEF CrawlTypeOK, Calls, TakeUrl
<1>23. WorkersOK'
    <2>1. \A v \in Busy : crawler[v].record.url \in Visited
        BY <1>1 DEF UrlsOK, InHand
    <2>2. ASSUME NEW v \in Busy'
          PROVE  /\ crawler'[v].record \in UrlRecord
                 /\ crawler'[v].record.url \notin Counted' \cup errored'
                 /\ urlsVisited'[crawler'[v].record.url] = crawler'[v].record.depth
        <3>1. CASE v = w
            BY <1>1, <1>5, <1>7, <1>9, <1>10, <1>14, <1>21, <3>1 DEF UrlsOK
        <3>2. CASE v \in Busy
            <4>1. crawler'[v] = crawler[v] /\ crawler[v].record.url # entry.url /\ crawler[v].record.url \in Urls
                BY <1>14, <1>19, <2>1, <3>2 DEF Visited
            <4> QED
                BY <1>1, <1>10, <1>21, <3>2, <4>1 DEF WorkersOK
        <3> QED
            BY <1>18, <3>1, <3>2
    <2>3. ASSUME NEW u \in Busy', NEW v \in Busy', crawler'[u].record.url = crawler'[v].record.url
          PROVE  u = v
        <3>1. crawler'[w].record.url = entry.url
            BY <1>7, <1>9
        <3>2. \A x \in Busy : crawler'[x].record.url \in Visited
            BY <1>19, <2>1
        <3>3. CASE u \in Busy /\ v \in Busy
            BY <1>1, <1>19, <2>3, <3>3 DEF WorkersOK
        <3>4. CASE u = w \/ v = w
            BY <1>14, <1>18, <2>3, <3>1, <3>2, <3>4
        <3> QED
            BY <1>18, <3>3, <3>4
    <2>4. activeWorkers' = Cardinality(Busy')
        <3>1. Cardinality(Busy \cup {w}) = Cardinality(Busy) + 1
            BY <1>17, BusyIsFinite, FS_AddElement
        <3> QED
            BY <1>1, <1>8, <1>18, <3>1 DEF WorkersOK
    <2>5. ASSUME NEW v \in Crawlers
          PROVE  /\ crawler'[v].at = "upsert" => crawler'[v].outcome # "none"
                 /\ crawler'[v].at = "detail" =>
                      crawler'[v].outcome \in {"page", "blocked"} /\ crawler'[v].record.url \in pageRows'
                 /\ crawler'[v].at = "end" => crawlDone'
        <3>1. pageRows' = pageRows /\ crawlDone' = crawlDone
            BY DEF TakeUrl
        <3>2. CASE v = w
            BY <1>7, <1>9, <3>2
        <3>3. CASE v # w
            BY <1>1, <1>9, <3>1, <3>3 DEF WorkersOK
        <3> QED
            BY <3>2, <3>3
    <2> QED
        BY <2>2, <2>3, <2>4, <2>5 DEF WorkersOK
<1>24. UrlsOK'
    <2>1. tally' = tally /\ pageRows' = pageRows /\ refused' = refused
        BY DEF TakeUrl
    <2>2. Visited' = InHand' \cup Counted' \cup errored'
        BY <1>1, <1>11, <1>20, <1>21 DEF UrlsOK
    <2>3. Visited' \cup Queued(Tail(urlQueue)) = Visited \cup Queued(urlQueue)
        BY <1>11, <1>14, <1>15
    <2>4. Queued(urlQueue)' = Queued(Tail(urlQueue))
        BY <1>8 DEF Queued
    <2>5. refused' \/ Followed(Visited \cup Queued(urlQueue))'
        <3>1. ASSUME ~ refused, NEW u \in tally["page"], urlsVisited'[u] < MaxDepth
              PROVE  ToSet(PageLinks[u]) \subseteq Visited' \cup Queued(urlQueue)'
            <4>1. u \in Visited /\ u \in Urls /\ u # entry.url
                BY <1>1, <1>14 DEF UrlsOK, Counted, Visited
            <4>2. urlsVisited[u] < MaxDepth
                BY <1>10, <3>1, <4>1
            <4> QED
                BY <1>1, <2>3, <2>4, <3>1, <4>2 DEF UrlsOK, Followed
        <3> QED
            BY <2>1, <3>1 DEF Followed
    <2> QED
        BY <1>1, <1>21, <2>1, <2>2, <2>5 DEF UrlsOK
<1>25. PhasesOK'
    BY <1>1, <1>17 DEF PhasesOK, TakeUrl
<1> QED
    BY <1>16, <1>22, <1>23, <1>24, <1>25 DEF CrawlInv

LEMMA PageAdvances ==
    ASSUME CrawlInv, NEW w \in Crawlers, CheckRobots(w) \/ Request(w) \/ UpsertPage(w) \/ SaveDetail(w)
    PROVE  CrawlInv'
<1>1. CrawlTypeOK /\ WorkersOK /\ UrlsOK /\ PhasesOK /\ QueueOK(urlQueue)
    BY DEF CrawlInv
<1>2. crawler \in [Crawlers -> Calls]
    BY <1>1 DEF CrawlTypeOK, Calls
<1>3. w \in Busy
    BY DEF CheckRobots, Request, UpsertPage, SaveDetail, Busy, Stages
<1>4. PICK call \in Calls : call = crawler[w]
    BY <1>2
<1>5. call.record \in UrlRecord /\ call.record.url \in Urls /\ call.record.depth \in Nat
    BY <1>1, <1>3, <1>4 DEF WorkersOK, UrlRecord
<1>6. /\ pageRows \subseteq Urls /\ storeFaults \in Nat /\ (StoreFault \/ StoreFine => storeFaults' \in Nat)
    BY <1>1 DEF CrawlTypeOK, StoreFault, StoreFine
<1>7. refused \in BOOLEAN
    BY <1>1 DEF CrawlTypeOK
<1>8. CASE CheckRobots(w)
    <2>1. PICK next : next = IF call.record.url \in Disallowed THEN [call EXCEPT !.at = "upsert", !.outcome = "blocked"]
                             ELSE [call EXCEPT !.at = "fetch"]
        OBVIOUS
    <2>2. crawler' = [crawler EXCEPT ![w] = next]
        BY <1>4, <1>8, <2>1 DEF CheckRobots
    <2>3. /\ next \in Calls /\ next.at \in {"upsert", "fetch"} /\ next.record = call.record
          /\ next.at = "upsert" => next.outcome # "none"
        BY <2>1 DEF Calls, WorkerStops
    <2> QED
        BY <1>3, <1>4, <1>6, <1>8, <2>2, <2>3, PageGoesOn DEF CheckRobots, Stages
<1>9. CASE Request(w)
    <2>1. PICK next : /\ \/ \E outcome \in {"page", "failed"} : next = [call EXCEPT !.at = "upsert", !.outcome = outcome]
                         \/ next = [call EXCEPT !.requests = @ + 1]
                      /\ crawler' = [crawler EXCEPT ![w] = next]
        <3>1. CASE \E outcome \in {"page", "failed"} :
                     crawler' = [crawler EXCEPT ![w].at = "upsert", ![w].outcome = outcome]
            <4>1. PICK outcome \in {"page", "failed"} :
                     crawler' = [crawler EXCEPT ![w].at = "upsert", ![w].outcome = outcome]
                BY <3>1
            <4>2. crawler' = [crawler EXCEPT ![w] = [call EXCEPT !.at = "upsert", !.outcome = outcome]]
                BY <1>2, <1>4, <4>1
            <4> QED
                BY <4>2
        <3>2. CASE crawler' = [crawler EXCEPT ![w].requests = @ + 1]
            <4>1. crawler' = [crawler EXCEPT ![w] = [call EXCEPT !.requests = @ + 1]]
                BY <1>2, <1>4, <3>2
            <4> QED
                BY <4>1
        <3> QED
            BY <1>9, <3>1, <3>2 DEF Request
    <2>2. /\ next \in Calls /\ next.at \in {"upsert", "fetch"} /\ next.record = call.record
          /\ next.at = "upsert" => next.outcome # "none"
        <3>1. call.at = "fetch"
            BY <1>4, <1>9 DEF Request
        <3>2. CASE \E outcome \in {"page", "failed"} : next = [call EXCEPT !.at = "upsert", !.outcome = outcome]
            BY <3>2 DEF Calls, WorkerStops
        <3>3. CASE next = [call EXCEPT !.requests = @ + 1]
            BY <3>1, <3>3 DEF Calls, WorkerStops
        <3> QED
            BY <2>1, <3>2, <3>3
    <2> QED
        BY <1>3, <1>4, <1>6, <1>9, <2>1, <2>2, PageGoesOn DEF Request, Stages
<1>10. CASE UpsertPage(w)
    <2>1. /\ UNCHANGED <<crawlPhase, crawlJob, crawlEvent, urlsVisited, crawlDone>> /\ storeFaults' \in Nat
          /\ call.at = "upsert" /\ call.outcome # "none"
        BY <1>1, <1>4, <1>6, <1>10 DEF UpsertPage, Threw, WorkersOK
    <2>2. CASE Threw(w)
        <3>1. PageOver(w) /\ errored' = errored \cup {crawler[w].record.url}
              /\ UNCHANGED <<pageRows, tally, urlQueue>> /\ refused' = refused
            BY <2>2 DEF Threw
        <3> QED
            BY <1>3, <1>7, <2>1, <3>1, PageSettles
    <2>3. CASE /\ pageRows' = pageRows \cup {call.record.url} /\ UNCHANGED <<errored, urlQueue>> /\ refused' = refused
               /\ call.outcome = "failed" /\ PageOver(w) /\ Count(w)
        <3>1. pageRows \subseteq pageRows' /\ pageRows' \subseteq Urls /\ crawler[w].record.url \in pageRows'
            BY <1>4, <1>5, <1>6, <2>3
        <3>2. QueueOK(urlQueue') /\ Queued(urlQueue) \subseteq Queued(urlQueue')
            BY <1>1, <2>3
        <3>3. crawler[w].outcome = "failed"
            BY <1>4, <2>3
        <3> QED
            BY <1>3, <1>7, <2>1, <2>3, <3>1, <3>2, <3>3, PageSettles
    <2>4. CASE /\ pageRows' = pageRows \cup {call.record.url} /\ UNCHANGED <<errored, urlQueue>> /\ refused' = refused
               /\ call.outcome # "failed" /\ crawler' = [crawler EXCEPT ![w].at = "detail"]
               /\ UNCHANGED <<activeWorkers, tally>>
        <3>1. PICK next : next = [call EXCEPT !.at = "detail"]
            OBVIOUS
        <3>2. crawler' = [crawler EXCEPT ![w] = next]
            BY <1>2, <1>4, <2>4, <3>1
        <3>3. /\ next \in Calls /\ next.at = "detail" /\ next.record = call.record
              /\ next.outcome \in {"page", "blocked"} /\ next.record.url \in pageRows'
            BY <2>1, <2>4, <3>1 DEF Calls, WorkerStops
        <3>4. pageRows \subseteq pageRows' /\ pageRows' \subseteq Urls
            BY <1>5, <1>6, <2>4
        <3> QED
            BY <1>3, <1>4, <2>1, <2>4, <3>2, <3>3, <3>4, PageGoesOn DEF Stages
    <2> QED
        BY <1>4, <1>10, <2>2, <2>3, <2>4 DEF UpsertPage
<1>11. CASE SaveDetail(w)
    <2>1. PICK links : links = IF call.outcome = "page" /\ call.record.depth < MaxDepth
                                 THEN PageLinks[call.record.url] ELSE <<>>
        OBVIOUS
    <2>2. links \in Seq(Urls)
        BY <1>5, <2>1, CrawlAssumption
    <2>3. /\ UNCHANGED <<crawlPhase, crawlJob, crawlEvent, urlsVisited, crawlDone>> /\ storeFaults' \in Nat
          /\ call.at = "detail" /\ call.outcome \in {"page", "blocked"} /\ call.record.url \in pageRows
        BY <1>1, <1>4, <1>6, <1>11 DEF SaveDetail, Threw, WorkersOK
    <2>4. CASE Threw(w)
        <3>1. PageOver(w) /\ errored' = errored \cup {crawler[w].record.url}
              /\ UNCHANGED <<pageRows, tally, urlQueue>> /\ refused' = refused
            BY <2>4 DEF Threw
        <3> QED
            BY <1>3, <1>7, <2>3, <3>1, PageSettles
    <2>5. CASE /\ PageOver(w) /\ Count(w) /\ UNCHANGED <<pageRows, errored>>
               /\ urlQueue' = AddAll(urlQueue, links, call.record.depth + 1, FALSE)
               /\ refused' = (refused \/ Refuses(urlQueue', links))
        <3>1. call.record.depth + 1 \in Nat
            BY <1>5
        <3>2. QueueOK(urlQueue') /\ Queued(urlQueue) \subseteq Queued(urlQueue')
            BY <1>1, <2>2, <2>5, <3>1, AllAdded
        <3>3. pageRows \subseteq pageRows' /\ pageRows' \subseteq Urls /\ crawler[w].record.url \in pageRows'
            BY <1>4, <1>6, <2>3, <2>5
        <3>4. ~ refused' /\ crawler[w].outcome = "page" /\ crawler[w].record.depth < MaxDepth =>
                 ToSet(PageLinks[crawler[w].record.url]) \subseteq Visited \cup Queued(urlQueue')
            <4>1. ~ refused' => \A u \in ToSet(links) : Known(urlQueue', u)
                BY <2>5 DEF Refuses
            <4>2. ~ refused' => ToSet(links) \subseteq Visited \cup Queued(urlQueue')
                BY <4>1 DEF Known
            <4> QED
                BY <1>4, <2>1, <4>2
        <3>5. (refused => refused') /\ refused' \in BOOLEAN /\ crawler[w].outcome # "none"
            BY <1>4, <1>7, <2>3, <2>5
        <3> QED
            BY <1>3, <2>3, <2>5, <3>2, <3>3, <3>4, <3>5, PageSettles
    <2> QED
        BY <1>4, <1>11, <2>1, <2>4, <2>5 DEF SaveDetail
<1> QED
    BY <1>8, <1>9, <1>10, <1>11

LEMMA CrawlSteps == CrawlInv /\ [CrawlNext]_crawlVars => CrawlInv'
<1> SUFFICES ASSUME CrawlInv, [CrawlNext]_crawlVars
             PROVE  CrawlInv'
    OBVIOUS
<1>1. CrawlTypeOK /\ WorkersOK /\ UrlsOK /\ PhasesOK /\ QueueOK(urlQueue)
    BY DEF CrawlInv
<1>2. crawler \in [Crawlers -> Calls]
    BY <1>1 DEF CrawlTypeOK, Calls
<1>3. storeFaults \in Nat /\ (StoreFault \/ StoreFine => storeFaults' \in Nat)
    BY <1>1 DEF CrawlTypeOK, StoreFault, StoreFine
<1>4. CASE StartCrawl
    <2>1. PICK seeds \in SeedLists : urlQueue' = AddAll(<<>>, seeds, 0, TRUE) /\ refused' = Refuses(urlQueue', seeds)
        BY <1>4 DEF StartCrawl
    <2>2. seeds \in Seq(Urls)
        BY CrawlAssumption
    <2>3. QueueOK(<<>>)
        BY DEF QueueOK, Queued
    <2>4. QueueOK(urlQueue')
        BY <2>1, <2>2, <2>3, AllAdded
    <2>5. CrawlTypeOK'
        <3>1. refused' \in BOOLEAN
            BY <2>1 DEF Refuses
        <3>2. urlQueue' \in Seq(UrlRecord)
            BY <2>4 DEF QueueOK
        <3> QED
            BY <1>1, <1>4, <3>1, <3>2 DEF StartCrawl, CrawlTypeOK
    <2>6. crawlPhase = "idle" /\ crawlPhase' \in {"failing", "marking"} /\ crawlJob' = "PENDING"
        BY <1>4 DEF StartCrawl
    <2> QED
        BY <1>4, <2>4, <2>5, <2>6, CrawlAdvances DEF StartCrawl
<1>5. CASE MarkRunning
    <2>1. CrawlTypeOK'
        BY <1>1, <1>3, <1>5 DEF MarkRunning, CrawlTypeOK
    <2> QED
        BY <1>5, <2>1, CrawlAdvances DEF MarkRunning
<1>6. CASE Finalize
    <2>1. CrawlTypeOK'
        BY <1>1, <1>3, <1>6 DEF Finalize, CrawlTypeOK
    <2> QED
        BY <1>6, <2>1, CrawlAdvances DEF Finalize
<1>7. CASE CompleteJob
    <2>1. CrawlTypeOK'
        BY <1>1, <1>3, <1>7 DEF CompleteJob, CrawlTypeOK
    <2> QED
        BY <1>7, <2>1, CrawlAdvances DEF CompleteJob
<1>8. CASE FailJob
    <2>1. CrawlTypeOK'
        BY <1>1, <1>3, <1>8 DEF FailJob, CrawlTypeOK
    <2> QED
        BY <1>8, <2>1, CrawlAdvances DEF FailJob
<1>9. ASSUME NEW w \in Crawlers, TakeUrl(w)
      PROVE  CrawlInv'
    BY <1>9, UrlIsTaken
<1>10. ASSUME NEW w \in Crawlers, Sleep(w)
       PROVE  CrawlInv'
    <2>1. crawler' = [crawler EXCEPT ![w].at = "asleep"] /\ crawler[w].at = "loop"
        BY <1>10 DEF Sleep
    <2>2. /\ crawler' \in [Crawlers -> Calls]
          /\ \A v \in Crawlers : v # w => crawler'[v] = crawler[v]
          /\ crawler'[w].at = "asleep"
        BY <1>2, <2>1 DEF Calls, WorkerStops
    <2>3. \A v \in Crawlers :
               \/ crawler'[v] = crawler[v]
               \/ crawler[v].at \notin Stages /\ crawler'[v].at \in {"loop", "asleep", "end"}
        BY <2>1, <2>2 DEF Stages
    <2>4. \A v \in Crawlers : crawler'[v].at = "end" => crawler[v].at = "end" \/ crawlDone'
        BY <2>2
    <2>5. crawlDone' = crawlDone /\ crawlDone \in BOOLEAN
        BY <1>1, <1>10 DEF Sleep, CrawlTypeOK
    <2> QED
        BY <1>10, <2>2, <2>3, <2>4, <2>5, NobodyAtWork DEF Sleep
<1>11. ASSUME NEW w \in Crawlers, Leave(w)
       PROVE  CrawlInv'
    <2>1. PICK woken : woken = IF crawlDone THEN crawler ELSE Woken(crawler)
        OBVIOUS
    <2>2. /\ woken \in [Crawlers -> Calls]
          /\ \A v \in Crawlers : woken[v] = crawler[v] \/ (crawler[v].at = "asleep" /\ woken[v].at = "loop")
        <3>1. CASE crawlDone
            BY <1>2, <2>1, <3>1
        <3>2. CASE ~ crawlDone
            <4>1. woken = [v \in Crawlers |->
                             IF crawler[v].at = "asleep" THEN [crawler[v] EXCEPT !.at = "loop"] ELSE crawler[v]]
                BY <2>1, <3>2 DEF Woken
            <4>2. \A v \in Crawlers : [crawler[v] EXCEPT !.at = "loop"] \in Calls
                                     /\ [crawler[v] EXCEPT !.at = "loop"].at = "loop"
                BY <1>2 DEF Calls, WorkerStops
            <4> QED
                BY <1>2, <4>1, <4>2
        <3> QED
            BY <3>1, <3>2
    <2>3. crawler[w].at = "loop" /\ crawlDone' = TRUE
        BY <1>11 DEF Leave
    <2>4. crawler' = [woken EXCEPT ![w].at = "end"]
        BY <1>11, <2>1 DEF Leave
    <2>5. /\ crawler' \in [Crawlers -> Calls]
          /\ \A v \in Crawlers : v # w => crawler'[v] = woken[v]
          /\ crawler'[w].at = "end"
        BY <2>2, <2>4 DEF Calls, WorkerStops
    <2>6. \A v \in Crawlers :
               \/ crawler'[v] = crawler[v]
               \/ crawler[v].at \notin Stages /\ crawler'[v].at \in {"loop", "asleep", "end"}
        BY <2>2, <2>3, <2>5 DEF Stages
    <2>7. crawlDone' => crawlDone \/ (urlQueue = <<>> /\ activeWorkers = 0 /\ crawlPhase # "idle")
        BY <1>11 DEF Leave, NothingLeft
    <2> QED
        BY <1>11, <2>3, <2>5, <2>6, <2>7, NobodyAtWork DEF Leave
<1>12. ASSUME NEW w \in Crawlers, CheckRobots(w) \/ Request(w) \/ UpsertPage(w) \/ SaveDetail(w)
       PROVE  CrawlInv'
    BY <1>12, PageAdvances
<1>13. CASE UNCHANGED crawlVars
    BY <1>13, CrawlRests
<1> QED
    BY <1>4, <1>5, <1>6, <1>7, <1>8, <1>9, <1>10, <1>11, <1>12, <1>13 DEF CrawlNext, CrawlerStep

\* A job is COMPLETED only after everything reachable was processed: each URL
\* popped is counted once, with a Page row, unless a write of it was rejected,
\* and the links of a counted page above the depth limit were popped as well,
\* unless the queue was at its limit.
THEOREM CrawlsAreWhole == CrawlSpec => []CompletedCrawlIsWhole
<1>1. CrawlInv => CompletedCrawlIsWhole
    <2> SUFFICES ASSUME CrawlInv, crawlJob = "COMPLETED"
                 PROVE  /\ Visited = Counted \cup errored
                        /\ \A j, k \in DOMAIN tally : j # k => tally[j] \cap tally[k] = {}
                        /\ Visited \ errored \subseteq pageRows
                        /\ refused \/ \A u \in tally["page"] :
                                        urlsVisited[u] < MaxDepth => ToSet(PageLinks[u]) \subseteq Visited
        BY DEF CompletedCrawlIsWhole, Counted
    <2>1. urlQueue = <<>> /\ Busy = {}
        BY DEF CrawlInv, PhasesOK
    <2>2. Queued(urlQueue) = {} /\ InHand = {}
        BY <2>1 DEF Queued, InHand
    <2>3. UrlsOK
        BY DEF CrawlInv
    <2>4. Visited = Counted \cup errored
        BY <2>2, <2>3 DEF UrlsOK
    <2>5. refused \/ Followed(Visited)
        BY <2>2, <2>3 DEF UrlsOK
    <2> QED
        BY <2>3, <2>4, <2>5 DEF UrlsOK, Followed
<1> QED
    BY <1>1, CrawlBegins, CrawlSteps, PTL DEF CrawlSpec

-----------------------------------------------------------------------------
(* Sequences laid end to end *)

\* Each place of the first rows of seqs is at one place of flat, and each
\* place of flat stands for one of them.
StandsFor(flat, seqs, rows, row, col) ==
    /\ \A k \in DOMAIN flat : /\ row[k] \in 1 .. rows /\ col[k] \in DOMAIN seqs[row[k]]
                              /\ flat[k] = seqs[row[k]][col[k]]
    /\ \A k, l \in DOMAIN flat : row[k] = row[l] /\ col[k] = col[l] => k = l
    /\ \A i \in 1 .. rows : \A j \in DOMAIN seqs[i] : \E k \in DOMAIN flat : row[k] = i /\ col[k] = j

LaidOut(flat, seqs, rows) ==
    \E row, col \in [DOMAIN flat -> Nat] : StandsFor(flat, seqs, rows, row, col)

LEMMA LaidOutFirst ==
    ASSUME NEW S, NEW seqs \in Seq(Seq(S)), Len(seqs) >= 1
    PROVE  seqs[1] \in Seq(S) /\ LaidOut(seqs[1], seqs, 1)
<1>1. seqs[1] \in Seq(S)
    OBVIOUS
<1>2. PICK first : first = seqs[1]
    OBVIOUS
<1>3. PICK row \in [DOMAIN first -> Nat] : row = [k \in DOMAIN first |-> 1]
    OBVIOUS
<1>4. PICK col : col = [k \in DOMAIN first |-> k]
    OBVIOUS
<1>9. col \in [DOMAIN first -> Nat]
    <2>1. DOMAIN first = 1 .. Len(first) /\ Len(first) \in Nat
        BY <1>1, <1>2
    <2> QED
        BY <1>4, <2>1
<1>5. \A k \in DOMAIN first : /\ row[k] \in 1 .. 1 /\ col[k] \in DOMAIN seqs[row[k]]
                              /\ first[k] = seqs[row[k]][col[k]]
    BY <1>2, <1>3, <1>4
<1>6. \A k, l \in DOMAIN first : row[k] = row[l] /\ col[k] = col[l] => k = l
    BY <1>4
<1>7. \A i \in 1 .. 1 : \A j \in DOMAIN seqs[i] : \E k \in DOMAIN first : row[k] = i /\ col[k] = j
    BY <1>2, <1>3, <1>4
<1>8. LaidOut(first, seqs, 1)
    <2>1. StandsFor(first, seqs, 1, row, col)
        BY <1>5, <1>6, <1>7 DEF StandsFor
    <2> QED
        BY <1>9, <2>1 DEF LaidOut
<1> QED
    BY <1>1, <1>2, <1>8

LEMMA LaidOutNext ==
    ASSUME NEW S, NEW seqs \in Seq(Seq(S)), NEW n \in 1 .. Len(seqs), n # 1,
           NEW before \in Seq(S), LaidOut(before, seqs, n - 1)
    PROVE  before \o seqs[n] \in Seq(S) /\ LaidOut(before \o seqs[n], seqs, n)
<1>1. n \in Int /\ n - 1 \in Int /\ n > 1
    OBVIOUS
<1>2. PICK last \in Seq(S) : last = seqs[n]
    OBVIOUS
<1>3. PICK flat : flat = before \o last
    OBVIOUS
<1>4. PICK m \in Nat : m = Len(before)
    OBVIOUS
<1>5. PICK r \in Nat : r = Len(last)
    OBVIOUS
<1>6. DOMAIN before = 1 .. m /\ DOMAIN last = 1 .. r
    BY <1>4, <1>5
<1>7. /\ flat \in Seq(S) /\ Len(flat) = m + r
      /\ \A k \in 1 .. m + r : flat[k] = IF k <= m THEN before[k] ELSE last[k - m]
    BY <1>3, <1>4, <1>5, ConcatProperties
<1>8. DOMAIN flat = 1 .. m + r
    BY <1>7
<1>9. PICK row \in [DOMAIN before -> Nat], col \in [DOMAIN before -> Nat] : StandsFor(before, seqs, n - 1, row, col)
    BY DEF LaidOut
<1>20. ASSUME NEW k \in DOMAIN before
       PROVE  /\ row[k] \in 1 .. n - 1 /\ col[k] \in DOMAIN seqs[row[k]]
              /\ before[k] = seqs[row[k]][col[k]]
    BY <1>9 DEF StandsFor
<1>21. \A k, l \in DOMAIN before : row[k] = row[l] /\ col[k] = col[l] => k = l
    BY <1>9 DEF StandsFor
<1>22. \A i \in 1 .. n - 1 : \A j \in DOMAIN seqs[i] : \E k \in DOMAIN before : row[k] = i /\ col[k] = j
    BY <1>9 DEF StandsFor
<1>10. PICK down : down = [k \in 1 .. m + r |-> IF k <= m THEN row[k] ELSE n]
    OBVIOUS
<1>11. PICK across : across = [k \in 1 .. m + r |-> IF k <= m THEN col[k] ELSE k - m]
    OBVIOUS
<1>23. down \in [1 .. m + r -> Nat] /\ across \in [1 .. m + r -> Nat]
    <2>1. ASSUME NEW k \in 1 .. m + r
          PROVE  (IF k <= m THEN row[k] ELSE n) \in Nat /\ (IF k <= m THEN col[k] ELSE k - m) \in Nat
        <3>1. CASE k <= m
            <4>1. k \in DOMAIN before
                BY <1>6, <3>1
            <4> QED
                BY <3>1, <4>1
        <3>2. CASE ~ (k <= m)
            BY <1>1, <3>2
        <3> QED
            BY <3>1, <3>2
    <2> QED
        BY <1>10, <1>11, <2>1
<1>12. ASSUME NEW k \in 1 .. m + r
       PROVE  \/ k <= m /\ k \in 1 .. m /\ down[k] = row[k] /\ across[k] = col[k] /\ flat[k] = before[k]
              \/ k > m /\ k - m \in 1 .. r /\ down[k] = n /\ across[k] = k - m /\ flat[k] = last[k - m]
    BY <1>7, <1>10, <1>11
<1>13. ASSUME NEW k \in 1 .. m + r
       PROVE  down[k] \in 1 .. n /\ across[k] \in DOMAIN seqs[down[k]] /\ flat[k] = seqs[down[k]][across[k]]
    <2>1. CASE k <= m
        <3>1. k \in DOMAIN before /\ down[k] = row[k] /\ across[k] = col[k] /\ flat[k] = before[k]
            BY <1>6, <1>12, <2>1
        <3>2. /\ row[k] \in 1 .. n - 1 /\ col[k] \in DOMAIN seqs[row[k]]
              /\ before[k] = seqs[row[k]][col[k]]
            BY <1>20, <3>1
        <3>3. row[k] \in 1 .. n
            BY <1>1, <3>2
        <3> QED
            BY <3>1, <3>2, <3>3
    <2>2. CASE ~ (k <= m)
        <3>1. k - m \in DOMAIN last /\ down[k] = n /\ across[k] = k - m /\ flat[k] = last[k - m]
            BY <1>6, <1>12, <2>2
        <3>2. n \in 1 .. n
            BY <1>1
        <3> QED
            BY <1>2, <3>1, <3>2
    <2> QED
        BY <2>1, <2>2
<1>14. ASSUME NEW k \in 1 .. m + r, NEW l \in 1 .. m + r, down[k] = down[l], across[k] = across[l]
       PROVE  k = l
    <2>1. CASE k <= m
        <3>1. k \in DOMAIN before /\ down[k] = row[k] /\ across[k] = col[k]
            BY <1>6, <1>12, <2>1
        <3>4. row[k] \in 1 .. n - 1
            BY <1>20, <3>1
        <3>2. down[l] # n
            BY <1>1, <1>14, <3>1, <3>4
        <3>3. l \in DOMAIN before /\ down[l] = row[l] /\ across[l] = col[l]
            BY <1>6, <1>12, <3>2
        <3> QED
            BY <1>14, <1>21, <3>1, <3>3
    <2>2. CASE ~ (k <= m)
        <3>1. down[k] = n /\ across[k] = k - m
            BY <1>12, <2>2
        <3>2. ~ (l <= m)
            <4>1. SUFFICES ASSUME l <= m
                           PROVE  FALSE
                OBVIOUS
            <4>2. l \in DOMAIN before /\ down[l] = row[l]
                BY <1>6, <1>12, <4>1
            <4>3. row[l] \in 1 .. n - 1
                BY <1>20, <4>2
            <4>4. row[l] = n
                BY <1>14, <3>1, <4>2
            <4> QED
                BY <1>1, <4>3, <4>4
        <3>3. across[l] = l - m
            BY <1>12, <3>2
        <3>4. k - m = l - m
            BY <1>14, <3>1, <3>3
        <3> QED
            BY <3>4
    <2> QED
        BY <2>1, <2>2
<1>15. ASSUME NEW i \in 1 .. n, NEW j \in DOMAIN seqs[i]
       PROVE  \E k \in 1 .. m + r : down[k] = i /\ across[k] = j
    <2>1. CASE i = n
        <3>1. j \in 1 .. r
            BY <1>2, <1>6, <2>1
        <3>2. j + m \in 1 .. m + r /\ ~ (j + m <= m) /\ (j + m) - m = j
            BY <3>1
        <3>3. down[j + m] = n /\ across[j + m] = j
            BY <1>12, <3>2
        <3> QED
            BY <2>1, <3>2, <3>3
    <2>2. CASE i # n
        <3>1. i \in 1 .. n - 1
            BY <1>1, <2>2
        <3>2. PICK k \in DOMAIN before : row[k] = i /\ col[k] = j
            BY <1>22, <3>1
        <3>3. k \in 1 .. m + r /\ k <= m
            BY <1>6
        <3>4. down[k] = row[k] /\ across[k] = col[k]
            BY <1>12, <3>3
        <3> QED
            BY <3>2, <3>3, <3>4
    <2> QED
        BY <2>1, <2>2
<1>16. LaidOut(flat, seqs, n)
    <2>1. StandsFor(flat, seqs, n, down, across)
        <3>1. \A k \in DOMAIN flat : /\ down[k] \in 1 .. n /\ across[k] \in DOMAIN seqs[down[k]]
                                    /\ flat[k] = seqs[down[k]][across[k]]
            BY <1>8, <1>13
        <3>2. \A k, l \in DOMAIN flat : down[k] = down[l] /\ across[k] = across[l] => k = l
            BY <1>8, <1>14
        <3>3. ASSUME NEW i \in 1 .. n, NEW j \in DOMAIN seqs[i]
              PROVE  \E k \in DOMAIN flat : down[k] = i /\ across[k] = j
            <4>1. PICK k \in 1 .. m + r : down[k] = i /\ across[k] = j
                BY <1>15
            <4>2. k \in DOMAIN flat
                BY <1>8
            <4> QED
                BY <4>1, <4>2
        <3> QED
            BY <3>1, <3>2, <3>3 DEF StandsFor
    <2> QED
        BY <1>8, <1>23, <2>1 DEF LaidOut
<1> QED
    BY <1>2, <1>3, <1>7, <1>16

LEMMA Flattened ==
    ASSUME NEW S, NEW seqs \in Seq(Seq(S))
    PROVE  FlattenSeq(seqs) \in Seq(S) /\ LaidOut(FlattenSeq(seqs), seqs, Len(seqs))
<1>1. Len(seqs) \in Nat
    OBVIOUS
<1>2. CASE Len(seqs) = 0
    <2>1. FlattenSeq(seqs) = <<>> /\ seqs = <<>>
        BY <1>2 DEF FlattenSeq
    <2>2. LaidOut(<<>>, seqs, 0)
        <3>1. StandsFor(<<>>, seqs, 0, <<>>, <<>>) /\ <<>> \in [DOMAIN <<>> -> Nat]
            BY DEF StandsFor
        <3> QED
            BY <3>1 DEF LaidOut
    <2> QED
        BY <1>2, <2>1, <2>2
<1>3. CASE Len(seqs) # 0
    <2> DEFINE Upto(f, n) == IF n = 1 THEN seqs[n] ELSE f[n - 1] \o seqs[n]
               Builds(f, m) == f = [n \in 1 .. m |-> Upto(f, n)]
    <2>1. ASSUME NEW m \in 1 .. Len(seqs)
          PROVE  \E f : Builds(f, m)
        <3> DEFINE T == {n \in 1 .. Len(seqs) : ~ \E f : Builds(f, n)}
        <3>1. T \in SUBSET Nat
            <4> HIDE DEF Builds
            <4> QED
                BY <1>1
        <3>2. ASSUME T # {}
              PROVE  FALSE
            <4>1. PICK least \in T : \A other \in T : least <= other
                BY <3>1, <3>2, LeastNumber
            <4>2. least \in 1 .. Len(seqs) /\ ~ \E f : Builds(f, least)
                BY <4>1
            <4>3. CASE least = 1
                <5>1. Builds([n \in 1 .. 1 |-> seqs[n]], 1)
                    OBVIOUS
                <5> QED
                    BY <4>2, <4>3, <5>1
            <4>4. CASE least # 1
                <5>1. least - 1 \in 1 .. Len(seqs) /\ ~ (least <= least - 1)
                    BY <1>1, <4>2, <4>4
                <5>2. PICK f : Builds(f, least - 1)
                    BY <4>1, <5>1
                <5>3. PICK g : g = [n \in 1 .. least |-> IF n < least THEN f[n] ELSE f[least - 1] \o seqs[least]]
                    OBVIOUS
                <5>4. ASSUME NEW n \in 1 .. least
                      PROVE  g[n] = Upto(g, n)
                    <6>1. CASE n = 1
                        <7>1. n < least /\ n \in 1 .. least - 1
                            BY <4>2, <4>4, <6>1
                        <7>2. g[n] = f[n] /\ f[n] = seqs[n]
                            BY <5>2, <5>3, <6>1, <7>1
                        <7> QED
                            BY <6>1, <7>2
                    <6>2. CASE n # 1
                        <7>1. n - 1 \in 1 .. least /\ n - 1 < least
                            BY <4>2, <6>2
                        <7>2. g[n - 1] = f[n - 1]
                            BY <5>3, <7>1
                        <7>3. CASE n = least
                            <8>1. ~ (n < least) /\ n \in 1 .. least
                                BY <4>2, <7>3
                            <8>2. g[n] = f[least - 1] \o seqs[least]
                                BY <5>3, <8>1
                            <8> QED
                                BY <6>2, <7>2, <7>3, <8>2
                        <7>4. CASE n # least
                            <8>1. n \in 1 .. least - 1 /\ n < least
                                BY <4>2, <7>4
                            <8>2. g[n] = f[n]
                                BY <5>3, <8>1
                            <8>3. f[n] = Upto(f, n)
                                BY <5>2, <8>1
                            <8> QED
                                BY <6>2, <7>2, <8>2, <8>3
                        <7> QED
                            BY <7>3, <7>4
                    <6> QED
                        BY <6>1, <6>2
                <5>5. Builds(g, least)
                    <6> HIDE DEF Upto
                    <6>1. g = [n \in 1 .. least |-> g[n]]
                        BY <5>3
                    <6> QED
                        BY <5>4, <6>1
                <5> QED
                    BY <4>2, <5>5
            <4> QED
                BY <4>3, <4>4
        <3> QED
            BY <3>2
    <2>2. \E f : Builds(f, Len(seqs))
        <3>1. Len(seqs) \in 1 .. Len(seqs)
            BY <1>1, <1>3
        <3> HIDE DEF Builds
        <3> QED
            BY <2>1, <3>1
    <2>3. PICK F : F = CHOOSE g : g = [n \in 1 .. Len(seqs) |-> IF n = 1 THEN seqs[n] ELSE g[n - 1] \o seqs[n]]
        OBVIOUS
    <2>4. F = [n \in 1 .. Len(seqs) |-> IF n = 1 THEN seqs[n] ELSE F[n - 1] \o seqs[n]]
        BY <2>2, <2>3, Zenon
    <2>5. FlattenSeq(seqs) = F[Len(seqs)]
        BY <1>3, <2>3, Zenon DEF FlattenSeq
    <2>6. ASSUME NEW n \in 1 .. Len(seqs)
          PROVE  F[n] = IF n = 1 THEN seqs[n] ELSE F[n - 1] \o seqs[n]
        BY <2>4
    <2> DEFINE Fits(n) == F[n] \in Seq(S) /\ LaidOut(F[n], seqs, n)
               T == {n \in 1 .. Len(seqs) : ~ Fits(n)}
    <2>7. T \in SUBSET Nat
        BY <1>1
    <2>8. ASSUME T # {}
          PROVE  FALSE
        <3>1. PICK least \in T : \A other \in T : least <= other
            BY <2>7, <2>8, LeastNumber
        <3>2. least \in 1 .. Len(seqs) /\ ~ Fits(least)
            BY <3>1
        <3>3. CASE least = 1
            <4>1. F[least] = seqs[1]
                BY <2>6, <3>2, <3>3
            <4>2. seqs[1] \in Seq(S) /\ LaidOut(seqs[1], seqs, 1)
                BY <1>1, <3>2, <3>3, LaidOutFirst
            <4> QED
                BY <3>2, <3>3, <4>1, <4>2
        <3>4. CASE least # 1
            <4>1. least - 1 \in 1 .. Len(seqs) /\ ~ (least <= least - 1)
                BY <1>1, <3>2, <3>4
            <4>2. Fits(least - 1)
                BY <3>1, <4>1
            <4>3. PICK before : before = F[least - 1]
                OBVIOUS
            <4>4. F[least] = before \o seqs[least]
                BY <2>6, <3>2, <3>4, <4>3
            <4>5. before \o seqs[least] \in Seq(S) /\ LaidOut(before \o seqs[least], seqs, least)
                BY <3>2, <3>4, <4>2, <4>3, LaidOutNext
            <4> QED
                BY <3>2, <4>4, <4>5
        <3> QED
            BY <3>3, <3>4
    <2>9. Fits(Len(seqs))
        <3>1. Len(seqs) \in 1 .. Len(seqs)
            BY <1>1, <1>3
        <3> QED
            BY <2>8, <3>1
    <2> QED
        BY <2>5, <2>9
<1> QED
    BY <1>2, <1>3

-----------------------------------------------------------------------------
(* The delivery of events to plugins *)

\* What is still to be handled holds the subscriber's id once and it was not
\* reached, or it was reached once and its id is gone.
HandledOnce(ids, reached, target) ==
    \/ /\ \E k \in DOMAIN ids : {l \in DOMAIN ids : ids[l] = target[2]} = {k}
       /\ \A k \in DOMAIN reached : reached[k] # target
    \/ /\ \A k \in DOMAIN ids : ids[k] # target[2]
       /\ \E k \in DOMAIN reached : {l \in DOMAIN reached : reached[l] = target} = {k}

\* Who is remembered as steady is enabled under an id of its own.
DispatchOK(call) ==
    /\ call.pc = "unpublished" => call.reached = <<>>
    /\ call.pc \in {"loop", "handling"} => call.steady \subseteq Distinct(records, call.type)
    /\ call.pc = "ended" => call.ids = <<>>
    /\ call.pc # "unpublished" => \A target \in call.steady : HandledOnce(call.ids, call.reached, target)

RegistryInv == PluginTypeOK /\ \A e \in PluginEvents : DispatchOK(delivery[e])

\* A plugin is in the map once, so no enabled subscriber is listed twice.
Unique(recs) == \A i, j \in DOMAIN recs : recs[i].bundle.plugin = recs[j].bundle.plugin => i = j

LEMMA BundleShape ==
    ASSUME NEW b \in Bundles
    PROVE  /\ b.plugin \in Plugins /\ b.subscribers \in Seq(SubscriberRec)
           /\ \A i, j \in DOMAIN b.subscribers : b.subscribers[i].id = b.subscribers[j].id => i = j
BY PluginAssumption

LEMMA EntriesApart ==
    ASSUME NEW recs \in Seq(RecordRec), Unique(recs)
    PROVE  /\ EnabledEntries(recs) \in Seq(Plugins \X SubscriberRec)
           /\ \A k, l \in DOMAIN EnabledEntries(recs) :
                 EnabledEntries(recs)[k] = EnabledEntries(recs)[l] => k = l
<1>1. ASSUME NEW i \in DOMAIN recs
      PROVE  recs[i].bundle \in Bundles
    <2>1. recs[i] \in RecordRec
        OBVIOUS
    <2> QED
        BY <2>1 DEF RecordRec
<1>2. PICK rows : rows = [i \in DOMAIN recs |->
                            IF recs[i].state # "enabled" THEN <<>>
                            ELSE [j \in DOMAIN recs[i].bundle.subscribers |->
                                    <<recs[i].bundle.plugin, recs[i].bundle.subscribers[j]>>]]
    OBVIOUS
<1>3. ASSUME NEW i \in DOMAIN recs
      PROVE  /\ rows[i] \in Seq(Plugins \X SubscriberRec)
             /\ \A j \in DOMAIN rows[i] : /\ j \in DOMAIN recs[i].bundle.subscribers
                                          /\ rows[i][j] = <<recs[i].bundle.plugin, recs[i].bundle.subscribers[j]>>
    <2>1. PICK p, subs : p = recs[i].bundle.plugin /\ subs = recs[i].bundle.subscribers
        OBVIOUS
    <2>2. p \in Plugins /\ subs \in Seq(SubscriberRec)
        BY <1>1, <2>1, BundleShape
    <2>3. rows[i] = IF recs[i].state # "enabled" THEN <<>> ELSE [j \in DOMAIN subs |-> <<p, subs[j]>>]
        BY <1>2, <2>1
    <2>4. [j \in DOMAIN subs |-> <<p, subs[j]>>] \in Seq(Plugins \X SubscriberRec)
        <3>1. DOMAIN subs = 1 .. Len(subs) /\ Len(subs) \in Nat /\ \A j \in 1 .. Len(subs) : subs[j] \in SubscriberRec
            BY <2>2
        <3>2. PICK pairs : pairs = [j \in DOMAIN subs |-> <<p, subs[j]>>]
            OBVIOUS
        <3>3. pairs \in [1 .. Len(subs) -> Plugins \X SubscriberRec]
            BY <2>2, <3>1, <3>2
        <3> QED
            BY <3>1, <3>2, <3>3, SeqDef
    <2>5. CASE recs[i].state # "enabled"
        BY <2>3, <2>5
    <2>6. CASE recs[i].state = "enabled"
        BY <2>1, <2>3, <2>4, <2>6
    <2> QED
        BY <2>5, <2>6
<1>4. rows \in Seq(Seq(Plugins \X SubscriberRec)) /\ Len(rows) = Len(recs) /\ DOMAIN rows = DOMAIN recs
    <2>1. DOMAIN recs = 1 .. Len(recs) /\ Len(recs) \in Nat
        OBVIOUS
    <2>2. rows \in [1 .. Len(recs) -> Seq(Plugins \X SubscriberRec)]
        BY <1>2, <1>3, <2>1
    <2> QED
        BY <2>1, <2>2, SeqDef
<1>5. EnabledEntries(recs) = FlattenSeq(rows)
    BY <1>2 DEF EnabledEntries
<1>6. PICK flat : flat = EnabledEntries(recs)
    OBVIOUS
<1>7. flat \in Seq(Plugins \X SubscriberRec) /\ LaidOut(flat, rows, Len(rows))
    BY <1>4, <1>5, <1>6, Flattened
<1>8. PICK row \in [DOMAIN flat -> Nat], col \in [DOMAIN flat -> Nat] : StandsFor(flat, rows, Len(rows), row, col)
    BY <1>7 DEF LaidOut
<1>9. ASSUME NEW k \in DOMAIN flat
      PROVE  /\ row[k] \in DOMAIN recs /\ col[k] \in DOMAIN recs[row[k]].bundle.subscribers
             /\ flat[k] = <<recs[row[k]].bundle.plugin, recs[row[k]].bundle.subscribers[col[k]]>>
    <2>1. row[k] \in 1 .. Len(rows) /\ col[k] \in DOMAIN rows[row[k]] /\ flat[k] = rows[row[k]][col[k]]
        BY <1>8 DEF StandsFor
    <2>2. row[k] \in DOMAIN recs
        BY <1>4, <2>1
    <2> QED
        BY <1>3, <2>1, <2>2
<1>10. ASSUME NEW k \in DOMAIN flat, NEW l \in DOMAIN flat, flat[k] = flat[l]
       PROVE  k = l
    <2>1. recs[row[k]].bundle.plugin = recs[row[l]].bundle.plugin
        BY <1>9, <1>10
    <2>2. row[k] = row[l]
        BY <1>9, <2>1 DEF Unique
    <2>3. PICK b \in Bundles : b = recs[row[k]].bundle
        BY <1>1, <1>9
    <2>4. b.subscribers[col[k]] = b.subscribers[col[l]] /\ col[k] \in DOMAIN b.subscribers /\ col[l] \in DOMAIN b.subscribers
        BY <1>9, <1>10, <2>2, <2>3
    <2>5. col[k] = col[l]
        BY <2>4, BundleShape
    <2> QED
        BY <1>8, <2>2, <2>5 DEF StandsFor
<1> QED
    BY <1>6, <1>7, <1>10

\* A subscriber whose id nobody else has is in the list of ids once.
LEMMA ListedOnce ==
    ASSUME NEW type, records \in Seq(RecordRec), Unique(records)
    PROVE  /\ SubscribersForType(type) \in Seq(SubscriberIds)
           /\ \A target \in Distinct(records, type) :
                 \E k \in DOMAIN SubscribersForType(type) :
                    {l \in DOMAIN SubscribersForType(type) : SubscribersForType(type)[l] = target[2]} = {k}
<1>1. PICK entries : entries = EnabledEntries(records)
    OBVIOUS
<1>2. /\ entries \in Seq(Plugins \X SubscriberRec)
      /\ \A k, l \in DOMAIN entries : entries[k] = entries[l] => k = l
    BY <1>1, EntriesApart
<1>3. DOMAIN entries = 1 .. Len(entries) /\ Len(entries) \in Nat
    BY <1>2
<1>4. ASSUME NEW i \in DOMAIN entries
      PROVE  entries[i] \in Plugins \X SubscriberRec /\ entries[i][2] \in SubscriberRec /\ entries[i][2].id \in SubscriberIds
    <2>1. entries[i] \in Plugins \X SubscriberRec
        BY <1>2
    <2>2. entries[i][2] \in SubscriberRec
        BY <2>1
    <2> QED
        BY <2>1, <2>2 DEF SubscriberRec
<1>5. PICK rows : rows = [i \in DOMAIN entries |->
                            IF type \in entries[i][2].types THEN <<entries[i][2].id>> ELSE <<>>]
    OBVIOUS
<1>6. rows \in Seq(Seq(SubscriberIds)) /\ Len(rows) = Len(entries)
    <2>1. ASSUME NEW i \in DOMAIN entries
          PROVE  rows[i] \in Seq(SubscriberIds)
        <3>1. <<entries[i][2].id>> \in Seq(SubscriberIds)
            BY <1>4
        <3> QED
            BY <1>5, <3>1
    <2>2. rows \in [1 .. Len(entries) -> Seq(SubscriberIds)]
        BY <1>3, <1>5, <2>1
    <2> QED
        BY <1>3, <2>2, SeqDef
<1>7. PICK ids : ids = SubscribersForType(type)
    OBVIOUS
<1>8. ids = FlattenSeq(rows)
    BY <1>1, <1>5, <1>7 DEF SubscribersForType
<1>9. ids \in Seq(SubscriberIds) /\ LaidOut(ids, rows, Len(rows))
    BY <1>6, <1>8, Flattened
<1>10. PICK row \in [DOMAIN ids -> Nat], col \in [DOMAIN ids -> Nat] : StandsFor(ids, rows, Len(rows), row, col)
    BY <1>9 DEF LaidOut
<1>11. ASSUME NEW k \in DOMAIN ids
       PROVE  row[k] \in DOMAIN entries /\ col[k] = 1 /\ ids[k] = entries[row[k]][2].id
    <2>1. row[k] \in 1 .. Len(rows) /\ col[k] \in DOMAIN rows[row[k]] /\ ids[k] = rows[row[k]][col[k]]
        BY <1>10 DEF StandsFor
    <2>2. row[k] \in DOMAIN entries
        BY <1>3, <1>6, <2>1
    <2>3. PICK i \in DOMAIN entries : i = row[k]
        BY <2>2
    <2>4. rows[i] = IF type \in entries[i][2].types THEN <<entries[i][2].id>> ELSE <<>>
        BY <1>5
    <2>5. CASE type \in entries[i][2].types
        <3>1. rows[i] = <<entries[i][2].id>>
            BY <2>4, <2>5
        <3>2. col[k] = 1
            BY <2>1, <2>3, <3>1
        <3> QED
            BY <2>1, <2>2, <2>3, <3>1, <3>2
    <2>6. CASE type \notin entries[i][2].types
        BY <2>1, <2>3, <2>4, <2>6
    <2> QED
        BY <2>5, <2>6
<1>12. ASSUME NEW target \in Distinct(records, type)
       PROVE  \E k \in DOMAIN ids : {l \in DOMAIN ids : ids[l] = target[2]} = {k}
    <2>1. PICK y \in ToSet(entries) : /\ target = <<y[1], y[2].id>> /\ type \in y[2].types
                                     /\ \A z \in ToSet(entries) : z[2].id = y[2].id => z = y
        BY <1>1 DEF Distinct
    <2>2. PICK i \in DOMAIN entries : entries[i] = y
        BY DEF ToSet
    <2>3. i \in 1 .. Len(rows) /\ 1 \in DOMAIN rows[i]
        <3>1. rows[i] = <<entries[i][2].id>>
            BY <1>5, <2>1, <2>2
        <3> QED
            BY <1>3, <1>6, <3>1
    <2>4. PICK k \in DOMAIN ids : row[k] = i /\ col[k] = 1
        BY <1>10, <2>3 DEF StandsFor
    <2>5. ids[k] = target[2]
        BY <1>11, <2>1, <2>2, <2>4
    <2>6. ASSUME NEW l \in DOMAIN ids, ids[l] = target[2]
          PROVE  l = k
        <3>1. row[l] \in DOMAIN entries /\ col[l] = 1 /\ entries[row[l]][2].id = y[2].id
            BY <1>11, <2>1, <2>6
        <3>2. entries[row[l]] = y
            BY <2>1, <3>1 DEF ToSet
        <3>3. row[l] = i
            BY <1>2, <2>2, <3>1, <3>2
        <3> QED
            BY <1>10, <2>4, <3>1, <3>3 DEF StandsFor
    <2> QED
        BY <2>5, <2>6
<1> QED
    BY <1>7, <1>9, <1>12

LEMMA FoundUnderId ==
    ASSUME NEW id, records \in Seq(RecordRec), Unique(records), UnderId(id) # {}
    PROVE  /\ FindEnabled(id) \in ToSet(EnabledEntries(records))
           /\ FindEnabled(id) \in Plugins \X SubscriberRec
           /\ FindEnabled(id)[2].id = id
<1>1. PICK entries : entries = EnabledEntries(records)
    OBVIOUS
<1>2. entries \in Seq(Plugins \X SubscriberRec)
    BY <1>1, EntriesApart
<1>3. UnderId(id) = {i \in DOMAIN entries : entries[i][2].id = id}
    BY <1>1 DEF UnderId
<1>4. UnderId(id) \in SUBSET Nat
    BY <1>2, <1>3
<1>5. \E i \in UnderId(id) : \A j \in UnderId(id) : i <= j
    BY <1>4, LeastNumber
<1>6. Min(UnderId(id)) \in UnderId(id)
    BY <1>5, Zenon DEF Min
<1>7. PICK i \in DOMAIN entries : i = Min(UnderId(id)) /\ entries[i][2].id = id
    BY <1>3, <1>6
<1>8. FindEnabled(id) = entries[i]
    BY <1>1, <1>7 DEF FindEnabled
<1> QED
    BY <1>1, <1>2, <1>7, <1>8 DEF ToSet

\* Whatever becomes of the map, who is steady is enabled in it.
LEMMA MapChanges ==
    ASSUME RegistryInv, NEW recs \in Seq(RecordRec), Unique(recs), SetRecords(recs)
    PROVE  RegistryInv'
<1>1. records' = recs /\ wired' = wired
    BY DEF SetRecords
<1>2. delivery \in [PluginEvents -> DeliveryRec] /\ wired \subseteq EventTypes
    BY DEF RegistryInv, PluginTypeOK
<1>3. ASSUME NEW e \in PluginEvents
      PROVE  delivery'[e] \in DeliveryRec /\ DispatchOK(delivery[e])'
    <2>1. PICK call \in DeliveryRec : call = delivery[e]
        BY <1>2
    <2>2. DispatchOK(call)
        BY <2>1 DEF RegistryInv
    <2>3. PICK next : next = delivery'[e]
        OBVIOUS
    <2>4. CASE call.pc \in {"loop", "handling"}
        <3>1. next = [call EXCEPT !.steady = call.steady \cap Distinct(recs, call.type)]
            BY <2>1, <2>3, <2>4 DEF SetRecords
        <3>2. /\ next \in DeliveryRec /\ next.pc = call.pc /\ next.type = call.type /\ next.ids = call.ids
              /\ next.reached = call.reached /\ next.steady = call.steady \cap Distinct(recs, call.type)
            BY <3>1 DEF DeliveryRec
        <3>3. DispatchOK(next)'
            BY <1>1, <2>2, <2>4, <3>2 DEF DispatchOK, Distinct
        <3> QED
            BY <2>3, <3>2, <3>3 DEF DispatchOK, Distinct
    <2>5. CASE call.pc \notin {"loop", "handling"}
        <3>1. next = call
            BY <2>1, <2>3, <2>5 DEF SetRecords
        <3>2. DispatchOK(next)'
            BY <2>2, <2>5, <3>1 DEF DispatchOK
        <3> QED
            BY <2>3, <3>1, <3>2 DEF DispatchOK, Distinct
    <2> QED
        BY <2>4, <2>5
<1>4. delivery' \in [PluginEvents -> DeliveryRec]
    <2>1. delivery' = [e \in PluginEvents |-> delivery'[e]]
        BY DEF SetRecords
    <2> QED
        BY <1>3, <2>1
<1>5. PluginTypeOK'
    BY <1>1, <1>2, <1>4 DEF PluginTypeOK, Unique
<1> QED
    BY <1>3, <1>5 DEF RegistryInv

LEMMA RecordsChange ==
    ASSUME RegistryInv, NEW b \in Bundles, NEW p \in Plugins,
           Install(b) \/ UpdatePlugin(b) \/ EnablePlugin(p) \/ DisablePlugin(p) \/ Uninstall(p) \/ DisposeRegistry
    PROVE  RegistryInv'
<1>1. records \in Seq(RecordRec) /\ Unique(records)
    BY DEF RegistryInv, PluginTypeOK, Unique
<1>2. DOMAIN records = 1 .. Len(records) /\ Len(records) \in Nat
    BY <1>1
<1>3. \A i \in DOMAIN records : records[i] \in RecordRec
    BY <1>1
<1>4. CASE Install(b)
    <2>1. PICK new : new = [bundle |-> b, state |-> "installed"]
        OBVIOUS
    <2>2. new \in RecordRec /\ new.bundle = b
        BY <2>1 DEF RecordRec
    <2>3. PICK recs : recs = Append(records, new)
        OBVIOUS
    <2>4. /\ recs \in Seq(RecordRec) /\ DOMAIN recs = 1 .. Len(records) + 1
          /\ \A i \in 1 .. Len(records) + 1 : recs[i] = IF i \in DOMAIN records THEN records[i] ELSE new
        BY <1>1, <1>2, <2>2, <2>3
    <2>5. \A i \in DOMAIN records : records[i].bundle.plugin # b.plugin
        BY <1>4 DEF Install, Installed, IndexOf
    <2>6. Unique(recs)
        <3>1. SUFFICES ASSUME NEW i \in DOMAIN recs, NEW j \in DOMAIN recs,
                              recs[i].bundle.plugin = recs[j].bundle.plugin
                       PROVE  i = j
            BY DEF Unique
        <3>2. CASE i \in DOMAIN records /\ j \in DOMAIN records
            BY <1>1, <2>4, <3>1, <3>2 DEF Unique
        <3>3. CASE i \notin DOMAIN records /\ j \notin DOMAIN records
            BY <1>2, <2>4, <3>3
        <3>4. CASE i \in DOMAIN records /\ j \notin DOMAIN records
            BY <2>2, <2>4, <2>5, <3>1, <3>4
        <3>5. CASE i \notin DOMAIN records /\ j \in DOMAIN records
            BY <2>2, <2>4, <2>5, <3>1, <3>5
        <3> QED
            BY <3>2, <3>3, <3>4, <3>5
    <2>7. SetRecords(recs)
        BY <1>4, <2>1, <2>3 DEF Install
    <2> QED
        BY <2>4, <2>6, <2>7, MapChanges
<1>5. CASE UpdatePlugin(b)
    <2>1. PICK i \in IndexOf(b.plugin) : SetRecords([records EXCEPT ![i].bundle = b])
        BY <1>5 DEF UpdatePlugin
    <2>2. i \in DOMAIN records /\ records[i].bundle.plugin = b.plugin
        BY DEF IndexOf
    <2>3. PICK new \in RecordRec : new = [records[i] EXCEPT !.bundle = b]
        BY <1>3, <2>2 DEF RecordRec
    <2>4. new.bundle = b
        BY <1>3, <2>2, <2>3 DEF RecordRec
    <2>5. PICK recs : recs = [records EXCEPT ![i].bundle = b]
        OBVIOUS
    <2>6. recs = [records EXCEPT ![i] = new]
        BY <1>1, <2>2, <2>3, <2>5
    <2>7. recs \in Seq(RecordRec) /\ DOMAIN recs = DOMAIN records
          /\ \A j \in DOMAIN records : recs[j] = IF j = i THEN new ELSE records[j]
        BY <1>1, <1>2, <2>2, <2>6, ExceptSeq
    <2>8. Unique(recs)
        BY <1>1, <2>2, <2>4, <2>7 DEF Unique
    <2> QED
        BY <2>1, <2>5, <2>7, <2>8, MapChanges
<1>6. CASE EnablePlugin(p) \/ DisablePlugin(p)
    <2>1. PICK i \in IndexOf(p), state \in {"enabled", "disabled"} : SetRecords([records EXCEPT ![i].state = state])
        BY <1>6 DEF EnablePlugin, DisablePlugin
    <2>2. i \in DOMAIN records
        BY DEF IndexOf
    <2>3. PICK new \in RecordRec : new = [records[i] EXCEPT !.state = state]
        BY <1>3, <2>2 DEF RecordRec
    <2>4. new.bundle = records[i].bundle
        BY <1>3, <2>2, <2>3 DEF RecordRec
    <2>5. PICK recs : recs = [records EXCEPT ![i].state = state]
        OBVIOUS
    <2>6. recs = [records EXCEPT ![i] = new]
        BY <1>1, <2>2, <2>3, <2>5
    <2>7. recs \in Seq(RecordRec) /\ DOMAIN recs = DOMAIN records
          /\ \A j \in DOMAIN records : recs[j] = IF j = i THEN new ELSE records[j]
        BY <1>1, <1>2, <2>2, <2>6, ExceptSeq
    <2>8. Unique(recs)
        BY <1>1, <2>2, <2>4, <2>7 DEF Unique
    <2> QED
        BY <2>1, <2>5, <2>7, <2>8, MapChanges
<1>7. CASE Uninstall(p)
    <2>1. PICK i \in IndexOf(p) : SetRecords(RemoveAt(records, i))
        BY <1>7 DEF Uninstall
    <2>2. i \in 1 .. Len(records) /\ i \in Int
        BY <1>2 DEF IndexOf
    <2>3. PICK front, back : front = SubSeq(records, 1, i - 1) /\ back = SubSeq(records, i + 1, Len(records))
        OBVIOUS
    <2>4. /\ front \in Seq(RecordRec) /\ Len(front) = i - 1
          /\ \A k \in 1 .. i - 1 : front[k] = records[k]
        <3>1. \A k \in 1 .. i - 1 : records[k] \in RecordRec
            BY <1>2, <1>3, <2>2
        <3>2. /\ front \in Seq(RecordRec) /\ Len(front) = IF 1 <= i - 1 THEN (i - 1) - 1 + 1 ELSE 0
              /\ \A k \in 1 .. (i - 1) - 1 + 1 : front[k] = records[1 + k - 1]
            BY <2>2, <2>3, <3>1, SubSeqProperties
        <3> QED
            BY <2>2, <3>2
    <2>5. /\ back \in Seq(RecordRec) /\ Len(back) = Len(records) - i
          /\ \A k \in 1 .. Len(records) - i : back[k] = records[i + k]
        <3>1. \A k \in i + 1 .. Len(records) : records[k] \in RecordRec
            BY <1>2, <1>3, <2>2
        <3>2. /\ back \in Seq(RecordRec) /\ Len(back) = IF i + 1 <= Len(records) THEN Len(records) - (i + 1) + 1 ELSE 0
              /\ \A k \in 1 .. Len(records) - (i + 1) + 1 : back[k] = records[i + 1 + k - 1]
            BY <1>2, <2>2, <2>3, <3>1, SubSeqProperties
        <3>3. Len(records) - (i + 1) + 1 = Len(records) - i
            BY <1>2, <2>2
        <3>4. Len(back) = Len(records) - i
            <4>1. CASE i + 1 <= Len(records)
                BY <3>2, <3>3, <4>1
            <4>2. CASE ~ (i + 1 <= Len(records))
                <5>1. Len(back) = 0
                    BY <3>2, <4>2
                <5>2. Len(records) = i
                    <6>1. Len(records) \in Int /\ i \in Int /\ i <= Len(records)
                        BY <1>2, <2>2
                    <6>2. Len(records) < i + 1
                        BY <4>2, <6>1
                    <6> QED
                        BY <6>1, <6>2
                <5> QED
                    BY <2>2, <5>1, <5>2
            <4> QED
                BY <4>1, <4>2
        <3>5. ASSUME NEW k \in 1 .. Len(records) - i
              PROVE  back[k] = records[i + k]
            <4>1. i + 1 + k - 1 = i + k /\ k \in 1 .. Len(records) - (i + 1) + 1
                BY <1>2, <2>2, <3>3
            <4> QED
                BY <3>2, <4>1
        <3> QED
            BY <3>2, <3>4, <3>5
    <2>6. PICK recs : recs = front \o back
        OBVIOUS
    <2>7. /\ recs \in Seq(RecordRec) /\ Len(recs) = Len(front) + Len(back)
          /\ \A k \in 1 .. Len(front) + Len(back) : recs[k] = IF k <= Len(front) THEN front[k] ELSE back[k - Len(front)]
        BY <2>4, <2>5, <2>6, ConcatProperties
    <2>8. DOMAIN recs = 1 .. Len(records) - 1
        BY <1>2, <2>2, <2>4, <2>5, <2>7
    <2>9. ASSUME NEW k \in DOMAIN recs
          PROVE  IF k < i THEN k \in DOMAIN records /\ recs[k] = records[k]
                 ELSE k + 1 \in DOMAIN records /\ recs[k] = records[k + 1]
        <3>1. CASE k < i
            BY <1>2, <2>2, <2>4, <2>5, <2>7, <2>8, <3>1
        <3>2. CASE ~ (k < i)
            <4>1. k - (i - 1) \in 1 .. Len(records) - i /\ i + (k - (i - 1)) = k + 1
                BY <1>2, <2>2, <2>8, <3>2
            <4>2. recs[k] = back[k - (i - 1)]
                <5>1. k \in 1 .. Len(front) + Len(back) /\ ~ (k <= Len(front)) /\ k - Len(front) = k - (i - 1)
                    BY <1>2, <2>2, <2>4, <2>5, <2>8, <3>2
                <5> QED
                    BY <2>7, <5>1
            <4>3. back[k - (i - 1)] = records[i + (k - (i - 1))]
                BY <2>5, <4>1
            <4> QED
                BY <1>2, <2>8, <3>2, <4>1, <4>2, <4>3
        <3> QED
            BY <3>1, <3>2
    <2>10. Unique(recs)
        <3>1. SUFFICES ASSUME NEW k \in DOMAIN recs, NEW l \in DOMAIN recs,
                              recs[k].bundle.plugin = recs[l].bundle.plugin
                       PROVE  k = l
            BY DEF Unique
        <3>2. k \in Int /\ l \in Int
            BY <2>8
        <3>3. PICK x \in DOMAIN records : recs[k] = records[x] /\ x = IF k < i THEN k ELSE k + 1
            BY <2>9
        <3>4. PICK y \in DOMAIN records : recs[l] = records[y] /\ y = IF l < i THEN l ELSE l + 1
            BY <2>9
        <3>5. x = y
            BY <1>1, <3>1, <3>3, <3>4 DEF Unique
        <3> QED
            BY <2>2, <3>2, <3>3, <3>4, <3>5
    <2>11. SetRecords(recs)
        BY <2>1, <2>3, <2>6 DEF RemoveAt
    <2> QED
        BY <2>7, <2>10, <2>11, MapChanges
<1>8. CASE DisposeRegistry
    <2>1. <<>> \in Seq(RecordRec) /\ Unique(<<>>)
        BY DEF Unique
    <2> QED
        BY <1>8, <2>1, MapChanges DEF DisposeRegistry
<1> QED
    BY <1>4, <1>5, <1>6, <1>7, <1>8

\* The event at hand goes on, the others and the map stay as they are.
LEMMA EventGoesOn ==
    ASSUME RegistryInv, NEW e \in PluginEvents, NEW next \in DeliveryRec, DispatchOK(next),
           delivery' = [delivery EXCEPT ![e] = next], UNCHANGED <<records, wired>>
    PROVE  RegistryInv'
<1>1. PluginTypeOK /\ delivery \in [PluginEvents -> DeliveryRec]
    BY DEF RegistryInv, PluginTypeOK
<1>2. /\ delivery' \in [PluginEvents -> DeliveryRec]
      /\ \A f \in PluginEvents : delivery'[f] = IF f = e THEN next ELSE delivery[f]
    BY <1>1
<1>3. records' = records /\ wired' = wired
    OBVIOUS
<1>4. PluginTypeOK'
    BY <1>1, <1>2, <1>3 DEF PluginTypeOK
<1>5. ASSUME NEW f \in PluginEvents
      PROVE  DispatchOK(delivery[f])'
    <2>1. PICK call : call = delivery'[f]
        OBVIOUS
    <2>2. DispatchOK(call)
        BY <1>2, <2>1 DEF RegistryInv
    <2>3. DispatchOK(call)'
        BY <1>3, <2>2 DEF DispatchOK, Distinct, HandledOnce
    <2> QED
        BY <1>3, <2>1, <2>3 DEF DispatchOK, Distinct
<1> QED
    BY <1>4, <1>5 DEF RegistryInv

\* The id at the head is taken off the list.
LEMMA IdGoes ==
    ASSUME NEW n \in Nat, NEW ids, NEW rest, DOMAIN ids = 1 .. n + 1, DOMAIN rest = 1 .. n,
           \A k \in 1 .. n : rest[k] = ids[k + 1], NEW reached, NEW target, ids[1] # target[2],
           HandledOnce(ids, reached, target)
    PROVE  HandledOnce(rest, reached, target)
<1>1. CASE /\ \E k \in DOMAIN ids : {l \in DOMAIN ids : ids[l] = target[2]} = {k}
           /\ \A k \in DOMAIN reached : reached[k] # target
    <2>1. PICK k \in DOMAIN ids : {l \in DOMAIN ids : ids[l] = target[2]} = {k}
        BY <1>1
    <2>2. ids[k] = target[2] /\ k # 1
        BY <2>1
    <2>3. k - 1 \in 1 .. n /\ (k - 1) + 1 = k
        BY <2>2
    <2>4. rest[k - 1] = target[2]
        BY <2>2, <2>3
    <2>5. ASSUME NEW l \in DOMAIN rest, rest[l] = target[2]
          PROVE  l = k - 1
        <3>1. l + 1 \in DOMAIN ids /\ ids[l + 1] = target[2]
            BY <2>5
        <3>2. l + 1 = k
            BY <2>1, <3>1
        <3> QED
            BY <3>2
    <2>6. {l \in DOMAIN rest : rest[l] = target[2]} = {k - 1}
        BY <2>3, <2>4, <2>5
    <2> QED
        BY <1>1, <2>3, <2>6 DEF HandledOnce
<1>2. CASE /\ \A k \in DOMAIN ids : ids[k] # target[2]
           /\ \E k \in DOMAIN reached : {l \in DOMAIN reached : reached[l] = target} = {k}
    <2>1. ASSUME NEW l \in DOMAIN rest
          PROVE  rest[l] # target[2]
        <3>1. l + 1 \in DOMAIN ids /\ rest[l] = ids[l + 1]
            OBVIOUS
        <3> QED
            BY <1>2, <3>1
    <2> QED
        BY <1>2, <2>1 DEF HandledOnce
<1> QED
    BY <1>1, <1>2 DEF HandledOnce

LEMMA OtherReached ==
    ASSUME NEW m \in Nat, NEW reached, NEW more, DOMAIN more = 1 .. m + 1, DOMAIN reached = 1 .. m,
           \A k \in 1 .. m : more[k] = reached[k], NEW target, more[m + 1] # target,
           NEW ids, HandledOnce(ids, reached, target)
    PROVE  HandledOnce(ids, more, target)
<1>1. \A k \in 1 .. m + 1 : more[k] = target <=> k \in 1 .. m /\ reached[k] = target
    <2>1. \A k \in 1 .. m + 1 : k = m + 1 \/ k \in 1 .. m
        OBVIOUS
    <2>2. m + 1 \notin 1 .. m
        OBVIOUS
    <2> QED
        BY <2>1, <2>2
<1>2. {l \in DOMAIN more : more[l] = target} = {l \in DOMAIN reached : reached[l] = target}
    <2>1. \A k \in 1 .. m : k \in 1 .. m + 1
        OBVIOUS
    <2> QED
        BY <1>1, <2>1
<1>3. CASE \A k \in DOMAIN reached : reached[k] # target
    <2>1. \A k \in DOMAIN more : more[k] # target
        BY <1>1, <1>3
    <2>2. ~ \E k \in DOMAIN reached : {l \in DOMAIN reached : reached[l] = target} = {k}
        BY <1>3
    <2> QED
        BY <2>1, <2>2 DEF HandledOnce
<1>4. CASE /\ \A k \in DOMAIN ids : ids[k] # target[2]
           /\ \E k \in DOMAIN reached : {l \in DOMAIN reached : reached[l] = target} = {k}
    <2>1. PICK k \in DOMAIN reached : {l \in DOMAIN reached : reached[l] = target} = {k}
        BY <1>4
    <2>2. k \in DOMAIN more
        OBVIOUS
    <2> QED
        BY <1>2, <1>4, <2>1, <2>2 DEF HandledOnce
<1> QED
    BY <1>3, <1>4 DEF HandledOnce

\* The subscriber whose id is at the head is reached, and its id is gone.
LEMMA IdIsReached ==
    ASSUME NEW n \in Nat, NEW ids, NEW rest, DOMAIN ids = 1 .. n + 1, DOMAIN rest = 1 .. n,
           \A k \in 1 .. n : rest[k] = ids[k + 1], NEW target, ids[1] = target[2],
           NEW m \in Nat, NEW reached, NEW more, DOMAIN more = 1 .. m + 1, DOMAIN reached = 1 .. m,
           \A k \in 1 .. m : more[k] = reached[k], more[m + 1] = target,
           HandledOnce(ids, reached, target)
    PROVE  HandledOnce(rest, more, target)
<1>1. 1 \in DOMAIN ids
    OBVIOUS
<1>2. PICK k \in DOMAIN ids : {l \in DOMAIN ids : ids[l] = target[2]} = {k}
    BY <1>1 DEF HandledOnce
<1>3. k = 1
    BY <1>1, <1>2
<1>4. \A l \in DOMAIN reached : reached[l] # target
    BY <1>1 DEF HandledOnce
<1>5. ASSUME NEW l \in DOMAIN rest
      PROVE  rest[l] # target[2]
    <2>1. l + 1 \in DOMAIN ids /\ l + 1 # 1 /\ rest[l] = ids[l + 1]
        OBVIOUS
    <2> QED
        BY <1>2, <1>3, <2>1
<1>6. m + 1 \in DOMAIN more
    OBVIOUS
<1>7. ASSUME NEW l \in DOMAIN more, more[l] = target
      PROVE  l = m + 1
    <2>1. l \in 1 .. m \/ l = m + 1
        OBVIOUS
    <2> QED
        BY <1>4, <1>7, <2>1
<1>8. {l \in DOMAIN more : more[l] = target} = {m + 1}
    BY <1>6, <1>7
<1> QED
    BY <1>5, <1>6, <1>8 DEF HandledOnce

LEMMA EventIsHandled ==
    ASSUME RegistryInv, NEW e \in PluginEvents, HandleEvent(e)
    PROVE  RegistryInv'
<1>1. records \in Seq(RecordRec) /\ Unique(records) /\ delivery \in [PluginEvents -> DeliveryRec]
    BY DEF RegistryInv, PluginTypeOK, Unique
<1>2. PICK call \in DeliveryRec : call = delivery[e]
    BY <1>1
<1>3. DispatchOK(call) /\ call.pc = "loop" /\ call.ids # <<>>
    BY <1>2 DEF RegistryInv, HandleEvent
<1>4. PICK ids \in Seq(SubscriberIds), reached \in Seq(Target) : ids = call.ids /\ reached = call.reached
    BY DEF DeliveryRec
<1>5. PICK id \in SubscriberIds, rest \in Seq(SubscriberIds) : id = Head(ids) /\ rest = Tail(ids)
    BY <1>3, <1>4, HeadTailProperties
<1>6. PICK n \in Nat : n = Len(rest)
    OBVIOUS
<1>7. /\ DOMAIN ids = 1 .. n + 1 /\ DOMAIN rest = 1 .. n /\ ids[1] = id
      /\ \A k \in 1 .. n : rest[k] = ids[k + 1]
    <2>1. Len(ids) \in Nat /\ DOMAIN ids = 1 .. Len(ids) /\ Len(ids) >= 1 /\ ids[1] = id
        BY <1>3, <1>4, <1>5
    <2>2. Len(rest) = Len(ids) - 1 /\ \A k \in 1 .. Len(rest) : rest[k] = ids[k + 1]
        BY <1>3, <1>4, <1>5, HeadTailProperties
    <2>3. DOMAIN rest = 1 .. Len(rest)
        OBVIOUS
    <2> QED
        BY <1>6, <2>1, <2>2, <2>3
<1>8. \A target \in call.steady : target \in Distinct(records, call.type) /\ HandledOnce(ids, reached, target)
    BY <1>3, <1>4 DEF DispatchOK
<1>11. Head(delivery[e].ids) = id /\ Tail(delivery[e].ids) = rest
    BY <1>2, <1>4, <1>5
<1>9. CASE UnderId(id) = {}
    <2>1. PICK next : next = [call EXCEPT !.ids = rest]
        OBVIOUS
    <2>2. delivery' = [delivery EXCEPT ![e] = next]
        <3>1. PICK step : step = [delivery[e] EXCEPT !.ids = Tail(delivery[e].ids)]
            OBVIOUS
        <3>2. delivery' = [delivery EXCEPT ![e] = step]
            BY <1>9, <1>11, <3>1 DEF HandleEvent
        <3>3. step = next
            BY <1>2, <1>11, <2>1, <3>1
        <3> QED
            BY <3>2, <3>3
    <2>3. /\ next \in DeliveryRec /\ next.pc = "loop" /\ next.type = call.type /\ next.ids = rest
          /\ next.reached = reached /\ next.steady = call.steady
        BY <1>3, <1>4, <2>1 DEF DeliveryRec
    <2>4. ASSUME NEW target \in call.steady
          PROVE  HandledOnce(rest, reached, target)
        <3>1. target[2] # id
            <4>1. PICK y \in ToSet(EnabledEntries(records)) : target = <<y[1], y[2].id>>
                BY <1>8 DEF Distinct
            <4>2. PICK i \in DOMAIN EnabledEntries(records) : EnabledEntries(records)[i] = y
                BY DEF ToSet
            <4> QED
                BY <1>9, <4>1, <4>2 DEF UnderId
        <3> QED
            BY <1>7, <1>8, <3>1, IdGoes
    <2>5. DispatchOK(next)
        BY <1>3, <2>3, <2>4 DEF DispatchOK
    <2> QED
        BY <2>2, <2>3, <2>5, EventGoesOn DEF HandleEvent
<1>10. CASE UnderId(id) # {}
    <2>1. PICK found : found = FindEnabled(id)
        OBVIOUS
    <2>2. found \in ToSet(EnabledEntries(records)) /\ found \in Plugins \X SubscriberRec /\ found[2].id = id
        BY <1>1, <1>10, <2>1, FoundUnderId
    <2>3. PICK hit : hit = <<found[1], id>>
        OBVIOUS
    <2>4. hit \in Target
        BY <2>2, <2>3 DEF Target
    <2>5. PICK more : more = Append(reached, hit)
        OBVIOUS
    <2>6. PICK m \in Nat : m = Len(reached)
        OBVIOUS
    <2>7. /\ more \in Seq(Target) /\ DOMAIN more = 1 .. m + 1 /\ DOMAIN reached = 1 .. m
          /\ more[m + 1] = hit /\ \A k \in 1 .. m : more[k] = reached[k]
        BY <2>4, <2>5, <2>6
    <2>8. PICK next : next = [call EXCEPT !.ids = rest, !.pc = "handling", !.reached = more]
        OBVIOUS
    <2>9. delivery' = [delivery EXCEPT ![e] = next]
        <3>1. PICK step : step = [delivery[e] EXCEPT !.ids = Tail(delivery[e].ids), !.pc = "handling",
                                    !.reached = Append(delivery[e].reached, <<found[1], found[2].id>>)]
            OBVIOUS
        <3>2. delivery' = [delivery EXCEPT ![e] = step]
            BY <1>10, <1>11, <2>1, <3>1 DEF HandleEvent
        <3>3. <<found[1], found[2].id>> = hit /\ delivery[e].reached = reached
            BY <1>2, <1>4, <2>2, <2>3
        <3>4. step = next
            BY <1>2, <1>11, <2>5, <2>8, <3>1, <3>3
        <3> QED
            BY <3>2, <3>4
    <2>10. /\ next \in DeliveryRec /\ next.pc = "handling" /\ next.type = call.type /\ next.ids = rest
           /\ next.reached = more /\ next.steady = call.steady
        BY <2>7, <2>8 DEF DeliveryRec
    <2>11. ASSUME NEW target \in call.steady
           PROVE  HandledOnce(rest, more, target)
        <3>1. PICK y \in ToSet(EnabledEntries(records)) :
                /\ target = <<y[1], y[2].id>>
                /\ \A z \in ToSet(EnabledEntries(records)) : z[2].id = y[2].id => z = y
            BY <1>8 DEF Distinct
        <3>2. target[2] = y[2].id /\ target[1] = y[1]
            BY <3>1
        <3>3. CASE target[2] = id
            <4>1. found = y
                BY <2>2, <3>1, <3>2, <3>3
            <4>2. hit = target
                BY <2>3, <3>1, <3>2, <3>3, <4>1
            <4> QED
                BY <1>7, <1>8, <2>7, <3>3, <4>2, IdIsReached
        <3>4. CASE target[2] # id
            <4>1. hit # target
                BY <2>3, <3>1, <3>4
            <4>2. HandledOnce(rest, reached, target)
                BY <1>7, <1>8, <3>4, IdGoes
            <4> QED
                BY <2>7, <4>1, <4>2, OtherReached
        <3> QED
            BY <3>3, <3>4
    <2>12. DispatchOK(next)
        BY <1>3, <2>10, <2>11 DEF DispatchOK
    <2> QED
        BY <2>9, <2>10, <2>12, EventGoesOn DEF HandleEvent
<1> QED
    BY <1>9, <1>10

LEMMA RegistrySteps == RegistryInv /\ [PluginNext]_pluginVars => RegistryInv'
<1> SUFFICES ASSUME RegistryInv, [PluginNext]_pluginVars
             PROVE  RegistryInv'
    OBVIOUS
<1>1. records \in Seq(RecordRec) /\ Unique(records) /\ delivery \in [PluginEvents -> DeliveryRec]
      /\ wired \subseteq EventTypes
    BY DEF RegistryInv, PluginTypeOK, Unique
<1>2. CASE BridgeSync
    <2>1. ASSUME NEW x \in ToSet(EnabledEntries(records))
          PROVE  x[2].types \subseteq EventTypes
        <3>1. EnabledEntries(records) \in Seq(Plugins \X SubscriberRec)
            BY <1>1, EntriesApart
        <3>2. x \in Plugins \X SubscriberRec
            BY <3>1 DEF ToSet
        <3>3. x[2] \in SubscriberRec
            BY <3>2
        <3> QED
            BY <3>3 DEF SubscriberRec
    <2>2. wired' \subseteq EventTypes
        BY <1>1, <1>2, <2>1 DEF BridgeSync
    <2>3. records' = records /\ delivery' = delivery
        BY <1>2 DEF BridgeSync
    <2>4. PluginTypeOK'
        BY <2>2, <2>3 DEF RegistryInv, PluginTypeOK
    <2> QED
        BY <2>3, <2>4 DEF RegistryInv, DispatchOK, Distinct
<1>3. ASSUME NEW e \in PluginEvents, NEW type \in EventTypes, PublishToPlugins(e, type)
      PROVE  RegistryInv'
    <2>1. PICK call \in DeliveryRec : call = delivery[e]
        BY <1>1
    <2>2. DispatchOK(call) /\ call.pc = "unpublished"
        BY <1>3, <2>1 DEF RegistryInv, PublishToPlugins
    <2>3. PICK ids : ids = SubscribersForType(type)
        OBVIOUS
    <2>4. PICK steady : steady = Distinct(records, type)
        OBVIOUS
    <2>5. PICK next : next = [call EXCEPT !.pc = "loop", !.type = type, !.ids = ids, !.steady = steady]
        OBVIOUS
    <2>6. delivery' = [delivery EXCEPT ![e] = next]
        BY <1>3, <2>1, <2>3, <2>4, <2>5 DEF PublishToPlugins
    <2>7. ids \in Seq(SubscriberIds) /\ \A target \in steady : \E k \in DOMAIN ids :
                                            {l \in DOMAIN ids : ids[l] = target[2]} = {k}
        BY <1>1, <2>3, <2>4, ListedOnce
    <2>8. steady \subseteq Target
        <3>1. EnabledEntries(records) \in Seq(Plugins \X SubscriberRec)
            BY <1>1, EntriesApart
        <3>2. ASSUME NEW x \in ToSet(EnabledEntries(records))
              PROVE  <<x[1], x[2].id>> \in Target
            <4>1. x \in Plugins \X SubscriberRec
                BY <3>1 DEF ToSet
            <4>2. x[1] \in Plugins /\ x[2] \in SubscriberRec
                BY <4>1
            <4> QED
                BY <4>2 DEF SubscriberRec, Target
        <3> QED
            BY <2>4, <3>2 DEF Distinct
    <2>9. /\ next \in DeliveryRec /\ next.pc = "loop" /\ next.type = type /\ next.ids = ids
          /\ next.reached = call.reached /\ next.steady = steady
        BY <2>5, <2>7, <2>8 DEF DeliveryRec
    <2>10. call.reached = <<>>
        BY <2>2 DEF DispatchOK
    <2>11. \A target \in steady : HandledOnce(ids, <<>>, target)
        BY <2>7 DEF HandledOnce
    <2>12. DispatchOK(next)
        BY <2>4, <2>9, <2>10, <2>11 DEF DispatchOK
    <2> QED
        BY <1>3, <2>6, <2>9, <2>12, EventGoesOn DEF PublishToPlugins
<1>4. ASSUME NEW e \in PluginEvents, HandlerReturns(e) \/ DispatchEnds(e)
      PROVE  RegistryInv'
    <2>1. PICK call \in DeliveryRec : call = delivery[e]
        BY <1>1
    <2>2. DispatchOK(call)
        BY <2>1 DEF RegistryInv
    <2>3. PICK pc \in {"loop", "ended"} :
              /\ delivery' = [delivery EXCEPT ![e].pc = pc] /\ call.pc \in {"loop", "handling"}
              /\ pc = "ended" => call.ids = <<>>
        BY <1>4, <2>1 DEF HandlerReturns, DispatchEnds
    <2>4. PICK next : next = [call EXCEPT !.pc = pc]
        OBVIOUS
    <2>5. delivery' = [delivery EXCEPT ![e] = next]
        BY <1>1, <2>1, <2>3, <2>4
    <2>6. /\ next \in DeliveryRec /\ next.pc = pc /\ next.type = call.type /\ next.ids = call.ids
          /\ next.reached = call.reached /\ next.steady = call.steady
        BY <2>4 DEF DeliveryRec
    <2>7. DispatchOK(next)
        BY <2>2, <2>3, <2>6 DEF DispatchOK
    <2> QED
        BY <1>4, <2>5, <2>6, <2>7, EventGoesOn DEF HandlerReturns, DispatchEnds
<1>5. CASE UNCHANGED pluginVars
    BY <1>5 DEF RegistryInv, PluginTypeOK, DispatchOK, Distinct, pluginVars
<1>6. ASSUME NEW b \in Bundles, Install(b) \/ UpdatePlugin(b)
      PROVE  RegistryInv'
    <2>1. b.plugin \in Plugins
        BY BundleShape
    <2> QED
        BY <1>6, <2>1, RecordsChange
<1>7. ASSUME NEW p \in Plugins, EnablePlugin(p) \/ DisablePlugin(p) \/ Uninstall(p)
      PROVE  RegistryInv'
    <2>1. PICK i \in DOMAIN records : TRUE
        BY <1>7 DEF EnablePlugin, DisablePlugin, Uninstall, Installed, IndexOf
    <2>2. records[i] \in RecordRec
        BY <1>1
    <2>3. records[i].bundle \in Bundles
        BY <2>2 DEF RecordRec
    <2> QED
        BY <1>7, <2>3, RecordsChange
<1>8. CASE DisposeRegistry
    <2>1. PICK i \in DOMAIN records : TRUE
        <3>1. records # <<>>
            BY <1>8 DEF DisposeRegistry
        <3>2. Len(records) # 0 /\ Len(records) \in Nat /\ DOMAIN records = 1 .. Len(records)
            BY <1>1, <3>1, EmptySeq
        <3>3. 1 \in DOMAIN records
            BY <3>2
        <3> QED
            BY <3>3
    <2>2. records[i] \in RecordRec
        BY <1>1
    <2>3. records[i].bundle \in Bundles /\ records[i].bundle.plugin \in Plugins
        BY <2>2, BundleShape DEF RecordRec
    <2> QED
        BY <1>8, <2>3, RecordsChange
<1> QED
    BY <1>2, <1>3, <1>4, <1>5, <1>6, <1>7, <1>8, EventIsHandled DEF PluginNext

\* "Delivers an event to every enabled subscriber of its type": who stays enabled
\* while the event is dispatched, under an id that no other enabled subscriber
\* has, handles it exactly once.
THEOREM SubscribersServed == PluginSpec => []EachSubscriberOnce
<1>1. PluginInit => RegistryInv
    <2> SUFFICES ASSUME PluginInit
                 PROVE  RegistryInv
        OBVIOUS
    <2>1. PICK type \in EventTypes : type = CHOOSE t \in EventTypes : TRUE
        BY PluginAssumption
    <2>2. PICK first : first = [pc |-> "unpublished", type |-> type, ids |-> <<>>, reached |-> <<>>, steady |-> {}]
        OBVIOUS
    <2>3. first \in DeliveryRec /\ first.pc = "unpublished" /\ first.reached = <<>>
        BY <2>2 DEF DeliveryRec
    <2>4. delivery = [e \in PluginEvents |-> first]
        BY <2>1, <2>2 DEF PluginInit
    <2>5. DispatchOK(first)
        BY <2>3 DEF DispatchOK
    <2>6. records \in Seq(RecordRec) /\ DOMAIN records = {} /\ wired \subseteq EventTypes
        BY DEF PluginInit
    <2>7. delivery \in [PluginEvents -> DeliveryRec] /\ \A e \in PluginEvents : delivery[e] = first
        BY <2>3, <2>4
    <2>8. PluginTypeOK
        BY <2>6, <2>7 DEF PluginTypeOK
    <2>9. \A e \in PluginEvents : DispatchOK(delivery[e])
        BY <2>5, <2>7
    <2> QED
        BY <2>8, <2>9 DEF RegistryInv
<1>2. RegistryInv => EachSubscriberOnce
    <2> SUFFICES ASSUME RegistryInv, NEW e \in PluginEvents, delivery[e].pc = "ended",
                        NEW target \in delivery[e].steady
                 PROVE  Cardinality({i \in DOMAIN delivery[e].reached : delivery[e].reached[i] = target}) = 1
        BY DEF EachSubscriberOnce
    <2>1. PICK call : call = delivery[e]
        OBVIOUS
    <2>2. call.ids = <<>> /\ HandledOnce(call.ids, call.reached, target)
        BY <2>1 DEF RegistryInv, DispatchOK
    <2>3. PICK k \in DOMAIN call.reached : {i \in DOMAIN call.reached : call.reached[i] = target} = {k}
        BY <2>2 DEF HandledOnce
    <2> QED
        BY <2>1, <2>3, FS_Singleton
<1> QED
    BY <1>1, <1>2, RegistrySteps, PTL DEF PluginSpec

-----------------------------------------------------------------------------
(* What reaches the open web UI *)

\* A list of notifications that shows none twice.
NotesApart(items) ==
    /\ items \in Seq(Note)
    /\ \A i, j \in DOMAIN items : items[i].id = items[j].id => i = j

LEMMA NoteTakenOut ==
    ASSUME NEW items, NotesApart(items), NEW id
    PROVE  /\ NotesApart(WithoutNote(items, id))
           /\ \A k \in DOMAIN WithoutNote(items, id) : WithoutNote(items, id)[k].id # id
<1>1. items \in Seq(Note) /\ DOMAIN items = 1 .. Len(items) /\ Len(items) \in Nat
    BY DEF NotesApart
<1>2. PICK seqs : seqs = [i \in DOMAIN items |-> IF items[i].id = id THEN <<>> ELSE <<items[i]>>]
    OBVIOUS
<1>3. ASSUME NEW i \in 1 .. Len(items)
      PROVE  /\ seqs[i] \in Seq(Note)
             /\ \A c \in DOMAIN seqs[i] : c = 1 /\ seqs[i][c] = items[i] /\ items[i].id # id
    <2>1. items[i] \in Note
        BY <1>1
    <2>2. CASE items[i].id = id
        <3>1. seqs[i] = <<>>
            BY <1>1, <1>2, <2>2
        <3> QED
            BY <3>1
    <2>3. CASE items[i].id # id
        <3>1. seqs[i] = <<items[i]>>
            BY <1>1, <1>2, <2>3
        <3> QED
            BY <2>1, <2>3, <3>1
    <2> QED
        BY <2>2, <2>3
<1>4. seqs \in Seq(Seq(Note)) /\ Len(seqs) = Len(items)
    <2>1. seqs \in [1 .. Len(items) -> Seq(Note)]
        BY <1>1, <1>2, <1>3
    <2> QED
        BY <1>1, <2>1, SeqDef
<1>5. PICK flat : flat = WithoutNote(items, id)
    OBVIOUS
<1>6. flat \in Seq(Note) /\ LaidOut(flat, seqs, Len(seqs))
    BY <1>2, <1>4, <1>5, Flattened DEF WithoutNote
<1>7. PICK row \in [DOMAIN flat -> Nat], col \in [DOMAIN flat -> Nat] : StandsFor(flat, seqs, Len(seqs), row, col)
    BY <1>6 DEF LaidOut
<1>8. ASSUME NEW k \in DOMAIN flat
      PROVE  row[k] \in 1 .. Len(items) /\ col[k] = 1 /\ flat[k] = items[row[k]] /\ flat[k].id # id
    <2>1. row[k] \in 1 .. Len(items) /\ col[k] \in DOMAIN seqs[row[k]] /\ flat[k] = seqs[row[k]][col[k]]
        BY <1>4, <1>7 DEF StandsFor
    <2> QED
        BY <1>3, <2>1
<1>9. ASSUME NEW k \in DOMAIN flat, NEW l \in DOMAIN flat, flat[k].id = flat[l].id
      PROVE  k = l
    <2>1. row[k] = row[l] /\ col[k] = col[l]
        BY <1>1, <1>8, <1>9 DEF NotesApart
    <2> QED
        BY <1>7, <2>1 DEF StandsFor
<1> QED
    BY <1>5, <1>6, <1>8, <1>9 DEF NotesApart

LEMMA NotePutInFront ==
    ASSUME NEW items, NotesApart(items), NEW n \in Note, \A i \in DOMAIN items : items[i].id # n.id
    PROVE  NotesApart(<<n>> \o items)
<1>1. items \in Seq(Note) /\ DOMAIN items = 1 .. Len(items) /\ Len(items) \in Nat /\ <<n>> \in Seq(Note) /\ Len(<<n>>) = 1
    BY DEF NotesApart
<1>2. PICK longer : longer = <<n>> \o items
    OBVIOUS
<1>3. /\ longer \in Seq(Note) /\ Len(longer) = Len(items) + 1
      /\ longer[1] = n /\ \A k \in 1 .. Len(items) + 1 : k # 1 => longer[k] = items[k - 1]
    BY <1>1, <1>2, ConcatProperties
<1>4. DOMAIN longer = 1 .. Len(items) + 1
    BY <1>1, <1>3
<1>5. ASSUME NEW i \in DOMAIN longer, NEW j \in DOMAIN longer, longer[i].id = longer[j].id
      PROVE  i = j
    <2>1. ASSUME NEW k \in DOMAIN longer, k # 1
          PROVE  longer[k].id # longer[1].id
        <3>1. k - 1 \in DOMAIN items /\ longer[k] = items[k - 1]
            BY <1>1, <1>3, <1>4, <2>1
        <3> QED
            BY <1>3, <3>1
    <2>3. 1 \in DOMAIN longer
        BY <1>1, <1>4
    <2>2. CASE i # 1 /\ j # 1
        <3>1. i - 1 \in DOMAIN items /\ j - 1 \in DOMAIN items
            BY <1>1, <1>4, <2>2
        <3>2. items[i - 1].id = items[j - 1].id
            BY <1>3, <1>4, <1>5, <2>2
        <3>3. i - 1 = j - 1
            BY <3>1, <3>2 DEF NotesApart
        <3> QED
            BY <1>1, <1>4, <3>3
    <2> QED
        BY <1>5, <2>1, <2>2, <2>3
<1> QED
    BY <1>2, <1>3, <1>5 DEF NotesApart

LEMMA NotesMarked ==
    ASSUME NEW items, NotesApart(items), NEW ids
    PROVE  NotesApart(MarkNotes(items, ids))
<1>1. items \in Seq(Note) /\ DOMAIN items = 1 .. Len(items) /\ Len(items) \in Nat
    BY DEF NotesApart
<1>2. PICK marked : marked = MarkNotes(items, ids)
    OBVIOUS
<1>3. DOMAIN marked = DOMAIN items
    BY <1>2 DEF MarkNotes
<1>4. ASSUME NEW i \in 1 .. Len(items)
      PROVE  marked[i] \in Note /\ marked[i].id = items[i].id
    <2>1. items[i] \in Note
        BY <1>1
    <2>2. marked[i] = IF items[i].id \in ids THEN [items[i] EXCEPT !.read = TRUE] ELSE items[i]
        BY <1>1, <1>2 DEF MarkNotes
    <2> QED
        BY <2>1, <2>2 DEF Note
<1>5. marked \in Seq(Note)
    <2>1. marked = [i \in 1 .. Len(items) |-> marked[i]]
        BY <1>1, <1>2, <1>3 DEF MarkNotes
    <2>2. marked \in [1 .. Len(items) -> Note]
        BY <1>4, <2>1
    <2> QED
        BY <1>1, <2>2, SeqDef
<1> QED
    BY <1>1, <1>2, <1>3, <1>4, <1>5 DEF NotesApart

LinkShape ==
    link \in [status : {"disconnected", "connecting", "connected"}, attempt : Nat,
              disposed : BOOLEAN, timer : BOOLEAN, asking : Nat]

ToastShape == toasts \in [shown : SUBSET ToastIds, timers : SUBSET ToastIds, last : ToastIds \cup {0}]

\* A list that is on its way shows no notification twice either.
InboxInv ==
    /\ NotesApart(server) /\ NotesApart(inbox)
    /\ inboxCalls \in [InboxCalls -> InboxCall]
    /\ \A c \in InboxCalls : NotesApart(inboxCalls[c].items)

LinkInv == LinkShape /\ LinkStaysDown /\ ToastShape /\ toasts.shown \subseteq toasts.timers /\ InboxInv

LEMMA LinkBegins == LinkInit => LinkInv
<1> SUFFICES ASSUME LinkInit
             PROVE  LinkInv
    OBVIOUS
<1>1. LinkShape /\ LinkStaysDown /\ ToastShape /\ toasts.shown \subseteq toasts.timers
    BY DEF LinkInit, LinkShape, LinkStaysDown, ToastShape
<1>2. NotesApart(<<>>)
    BY DEF NotesApart
<1>3. InboxInv
    <2>1. IdleCall \in InboxCall /\ IdleCall.items = <<>>
        BY DEF IdleCall, InboxCall
    <2> QED
        BY <1>2, <2>1 DEF LinkInit, InboxInv
<1> QED
    BY <1>1, <1>3 DEF LinkInv

\* A call to the API goes on with another record.
LEMMA InboxCallMoves ==
    ASSUME InboxInv, NEW c \in InboxCalls, NEW call \in InboxCall, NotesApart(call.items),
           inboxCalls' = [inboxCalls EXCEPT ![c] = call], NotesApart(server)', NotesApart(inbox)'
    PROVE  InboxInv'
<1>1. inboxCalls' \in [InboxCalls -> InboxCall]
    BY DEF InboxInv
<1>2. ASSUME NEW d \in InboxCalls
      PROVE  NotesApart(inboxCalls'[d].items)
    BY DEF InboxInv
<1> QED
    BY <1>1, <1>2 DEF InboxInv, NotesApart

LEMMA LinkSteps == LinkInv /\ [LinkNext]_linkVars => LinkInv'
<1> SUFFICES ASSUME LinkInv, [LinkNext]_linkVars
             PROVE  LinkInv'
    OBVIOUS
<1>1. link \in [status : {"disconnected", "connecting", "connected"}, attempt : Nat,
                disposed : BOOLEAN, timer : BOOLEAN, asking : Nat]
    BY DEF LinkInv, LinkShape
<1>2. ASSUME UNCHANGED <<server, inbox, inboxCalls>>
      PROVE  InboxInv'
    BY <1>2 DEF LinkInv, InboxInv, NotesApart
<1>3. ASSUME UNCHANGED toasts
      PROVE  ToastShape' /\ toasts'.shown \subseteq toasts'.timers
    BY <1>3 DEF LinkInv, ToastShape
<1>4. ASSUME UNCHANGED link
      PROVE  LinkShape' /\ LinkStaysDown'
    BY <1>4 DEF LinkInv, LinkShape, LinkStaysDown
<1>5. ASSUME LinkShape', LinkStaysDown', UNCHANGED <<server, inbox, inboxCalls, toasts>>
      PROVE  LinkInv'
    BY <1>2, <1>3, <1>5 DEF LinkInv
<1>6. ASSUME InboxInv', UNCHANGED <<link, toasts>>
      PROVE  LinkInv'
    BY <1>3, <1>4, <1>6 DEF LinkInv
<1>7. CASE ConnectRealtime \/ Connected \/ ConnectFails \/ ReconnectTimer \/ Disconnect
    <2>1. UNCHANGED <<server, inbox, inboxCalls, toasts>>
        BY <1>7 DEF ConnectRealtime, Connected, ConnectFails, ReconnectTimer, Disconnect
    <2>2. PICK now : now = link
        OBVIOUS
    <2>3. PICK status, attempt, disposed, timer, asking :
              now = [status |-> status, attempt |-> attempt, disposed |-> disposed, timer |-> timer, asking |-> asking]
        BY <1>1, <2>2
    <2>4. /\ status \in {"disconnected", "connecting", "connected"} /\ attempt \in Nat
          /\ disposed \in BOOLEAN /\ timer \in BOOLEAN /\ asking \in Nat
        BY <1>1, <2>2, <2>3
    <2>5. /\ disposed => status = "disconnected" /\ ~timer
          /\ ~disposed => asking + (IF timer THEN 1 ELSE 0) = IF status = "connecting" THEN 1 ELSE 0
        BY <2>2, <2>3 DEF LinkInv, LinkStaysDown
    <2>8. now.status = status /\ now.attempt = attempt /\ now.disposed = disposed /\ now.timer = timer /\ now.asking = asking
        BY <2>3
    <2> DEFINE Rec(s, a, d, t, k) == [status |-> s, attempt |-> a, disposed |-> d, timer |-> t, asking |-> k]
    <2>6. ASSUME NEW s \in {"disconnected", "connecting", "connected"}, NEW a \in Nat,
                 NEW d \in BOOLEAN, NEW t \in BOOLEAN, NEW k \in Nat, link' = Rec(s, a, d, t, k),
                 d => s = "disconnected" /\ ~t,
                 ~d => k + (IF t THEN 1 ELSE 0) = IF s = "connecting" THEN 1 ELSE 0
          PROVE  LinkShape' /\ LinkStaysDown'
        BY <2>6 DEF LinkShape, LinkStaysDown
    <2>7. LinkShape' /\ LinkStaysDown'
        <3>1. CASE ConnectRealtime
            <4>1. CASE disposed \/ status # "disconnected"
                <5>1. link' = now
                    BY <2>2, <2>8, <3>1, <4>1 DEF ConnectRealtime, AttemptConnect
                <5> QED
                    BY <2>3, <2>4, <2>5, <2>6, <5>1
            <4>2. CASE ~disposed /\ status = "disconnected"
                <5>3. link' = [now EXCEPT !.status = "connecting", !.asking = @ + 1]
                    BY <2>2, <2>8, <3>1, <4>2 DEF ConnectRealtime, AttemptConnect
                <5>1. link' = Rec("connecting", attempt, disposed, timer, asking + 1)
                    BY <2>3, <5>3
                <5>2. ~timer /\ asking = 0
                    BY <2>4, <2>5, <4>2
                <5> QED
                    BY <2>4, <2>6, <4>2, <5>1, <5>2
            <4> QED
                BY <2>4, <4>1, <4>2
        <3>2. CASE Connected
            <4>1. asking > 0 /\ asking - 1 \in Nat
                BY <2>2, <2>3, <2>4, <3>2 DEF Connected
            <4>2. CASE disposed
                <5>2. link' = [now EXCEPT !.asking = @ - 1]
                    BY <2>2, <2>8, <3>2, <4>2 DEF Connected
                <5>1. link' = Rec(status, attempt, disposed, timer, asking - 1)
                    BY <2>3, <5>2
                <5> QED
                    BY <2>4, <2>5, <2>6, <4>1, <4>2, <5>1
            <4>3. CASE ~disposed
                <5>3. link' = [now EXCEPT !.asking = @ - 1, !.attempt = 0, !.status = "connected"]
                    BY <2>2, <2>8, <3>2, <4>3 DEF Connected
                <5>1. link' = Rec("connected", 0, disposed, timer, asking - 1)
                    BY <2>3, <5>3
                <5>2. ~timer /\ asking = 1
                    BY <2>4, <2>5, <4>1, <4>3
                <5> QED
                    BY <2>4, <2>6, <4>1, <4>3, <5>1, <5>2
            <4> QED
                BY <4>2, <4>3
        <3>3. CASE ConnectFails
            <4>1. asking > 0 /\ asking - 1 \in Nat
                BY <2>2, <2>3, <2>4, <3>3 DEF ConnectFails
            <4>2. CASE disposed
                <5>2. link' = [now EXCEPT !.asking = @ - 1]
                    BY <2>2, <2>8, <3>3, <4>2 DEF ConnectFails
                <5>1. link' = Rec(status, attempt, disposed, timer, asking - 1)
                    BY <2>3, <5>2
                <5> QED
                    BY <2>4, <2>5, <2>6, <4>1, <4>2, <5>1
            <4>3. CASE ~disposed
                <5>1. ~timer /\ asking = 1 /\ status = "connecting"
                    BY <2>4, <2>5, <4>1, <4>3
                <5>2. CASE attempt + 1 > MaxReconnects
                    <6>2. link' = [now EXCEPT !.asking = @ - 1, !.attempt = @ + 1, !.status = "disconnected"]
                        BY <2>2, <2>8, <3>3, <4>3, <5>2 DEF ConnectFails
                    <6>1. link' = Rec("disconnected", attempt + 1, disposed, timer, asking - 1)
                        BY <2>3, <6>2
                    <6> QED
                        BY <2>4, <2>6, <4>1, <4>3, <5>1, <6>1
                <5>3. CASE ~ (attempt + 1 > MaxReconnects)
                    <6>2. link' = [now EXCEPT !.asking = @ - 1, !.attempt = @ + 1, !.timer = TRUE]
                        BY <2>2, <2>8, <3>3, <4>3, <5>3 DEF ConnectFails
                    <6>1. link' = Rec(status, attempt + 1, disposed, TRUE, asking - 1)
                        BY <2>3, <6>2
                    <6>3. (asking - 1) + (IF TRUE THEN 1 ELSE 0) = IF status = "connecting" THEN 1 ELSE 0
                        BY <5>1
                    <6>4. attempt + 1 \in Nat
                        BY <2>4
                    <6> QED
                        BY <2>4, <2>6, <4>1, <4>3, <6>1, <6>3, <6>4
                <5> QED
                    BY <5>2, <5>3
            <4> QED
                BY <4>2, <4>3
        <3>4. CASE ReconnectTimer
            <4>1. timer /\ ~disposed
                BY <2>2, <2>3, <2>5, <3>4 DEF ReconnectTimer
            <4>4. PICK rung : rung = [now EXCEPT !.timer = FALSE]
                OBVIOUS
            <4>5. rung = Rec(status, attempt, disposed, FALSE, asking)
                BY <2>3, <4>4
            <4>6. link' = [rung EXCEPT !.status = "connecting", !.asking = @ + 1]
                BY <2>2, <3>4, <4>1, <4>4, <4>5 DEF ReconnectTimer, AttemptConnect
            <4>2. link' = Rec("connecting", attempt, disposed, FALSE, asking + 1)
                BY <4>5, <4>6
            <4>3. asking = 0
                BY <2>4, <2>5, <4>1
            <4> QED
                <5>1. (asking + 1) + (IF FALSE THEN 1 ELSE 0) = IF "connecting" = "connecting" THEN 1 ELSE 0
                    BY <4>3
                <5>2. asking + 1 \in Nat
                    BY <2>4
                <5> QED
                    BY <2>4, <2>6, <4>1, <4>2, <5>1, <5>2
        <3>5. CASE Disconnect
            <4>2. link' = [now EXCEPT !.disposed = TRUE, !.timer = FALSE, !.status = "disconnected"]
                BY <2>2, <3>5 DEF Disconnect
            <4>1. link' = Rec("disconnected", attempt, TRUE, FALSE, asking)
                BY <2>3, <4>2
            <4> QED
                BY <2>4, <2>6, <4>1
        <3> QED
            BY <1>7, <3>1, <3>2, <3>3, <3>4, <3>5
    <2> QED
        BY <1>5, <2>1, <2>7
<1>8. ASSUME PushAlert \/ \E id \in ToastIds, byTimer \in BOOLEAN : DismissToast(id, byTimer)
      PROVE  LinkInv'
    <2>1. UNCHANGED <<link, server, inbox, inboxCalls>>
        BY <1>8 DEF PushAlert, DismissToast
    <2>2. ToastShape' /\ toasts'.shown \subseteq toasts'.timers
        <3>1. toasts \in [shown : SUBSET ToastIds, timers : SUBSET ToastIds, last : ToastIds \cup {0}]
            BY DEF LinkInv, ToastShape
        <3>2. CASE PushAlert
            BY <3>1, <3>2 DEF PushAlert, LinkInv, ToastShape
        <3>3. ASSUME NEW id \in ToastIds, NEW byTimer \in BOOLEAN, DismissToast(id, byTimer)
              PROVE  ToastShape' /\ toasts'.shown \subseteq toasts'.timers
            BY <3>1, <3>3 DEF DismissToast, LinkInv, ToastShape
        <3> QED
            BY <1>8, <3>2, <3>3
    <2> QED
        BY <1>2, <1>4, <2>1, <2>2 DEF LinkInv
<1>9. ASSUME NEW id \in Notes, NewNote(id) \/ PushNote(id) \/ RemoveNote(id)
      PROVE  LinkInv'
    <2>1. NotesApart(server) /\ NotesApart(inbox)
        BY DEF LinkInv, InboxInv
    <2>2. PICK n : n \in Note /\ n = [id |-> id, read |-> FALSE] /\ n.id = id
        <3>1. PICK n : n = [id |-> id, read |-> FALSE]
            OBVIOUS
        <3>2. n \in Note /\ n.id = id
            BY <3>1 DEF Note
        <3> QED
            BY <3>1, <3>2
    <2>3. UNCHANGED <<link, toasts, inboxCalls>>
        BY <1>9 DEF NewNote, PushNote, RemoveNote
    <2>4. NotesApart(server') /\ NotesApart(inbox')
        <3>1. CASE NewNote(id)
            <4>1. NotesApart(<<n>> \o server)
                BY <2>1, <2>2, <3>1, NotePutInFront DEF NewNote
            <4> QED
                BY <2>1, <2>2, <3>1, <4>1 DEF NewNote
        <3>2. CASE PushNote(id)
            <4>1. PICK rest : rest = WithoutNote(inbox, id)
                OBVIOUS
            <4>2. NotesApart(rest) /\ \A k \in DOMAIN rest : rest[k].id # n.id
                BY <2>1, <2>2, <4>1, NoteTakenOut
            <4>3. NotesApart(<<n>> \o rest)
                BY <2>2, <4>2, NotePutInFront
            <4>4. inbox' = <<n>> \o rest /\ server' = server
                BY <2>2, <3>2, <4>1 DEF PushNote, Added
            <4> QED
                BY <2>1, <4>3, <4>4
        <3>3. CASE RemoveNote(id)
            <4>1. NotesApart(WithoutNote(inbox, id))
                BY <2>1, NoteTakenOut
            <4> QED
                BY <2>1, <3>3, <4>1 DEF RemoveNote
        <3> QED
            BY <1>9, <3>1, <3>2, <3>3
    <2>5. InboxInv'
        BY <2>3, <2>4 DEF LinkInv, InboxInv, NotesApart
    <2> QED
        BY <1>6, <2>3, <2>5
<1>10. ASSUME NEW c \in InboxCalls, NEW ids \in SUBSET Notes, NEW reached \in BOOLEAN,
              Load(c) \/ ServerLists(c) \/ Loaded(c) \/ MarkRead(c, ids) \/ Marked(c, reached)
       PROVE  LinkInv'
    <2>1. NotesApart(server) /\ NotesApart(inbox) /\ NotesApart(inboxCalls[c].items) /\ inboxCalls[c] \in InboxCall
        BY DEF LinkInv, InboxInv
    <2>2. PICK call : /\ call \in InboxCall /\ NotesApart(call.items)
                      /\ inboxCalls' = [inboxCalls EXCEPT ![c] = call]
        <3>1. NotesApart(<<>>)
            BY DEF NotesApart
        <3>2. IdleCall \in InboxCall /\ IdleCall.items = <<>>
            BY DEF IdleCall, InboxCall
        <3>3. CASE Load(c) \/ MarkRead(c, ids)
            <4>1. PICK kind \in {"load", "mark"}, told \in SUBSET Notes : SetInboxCall(c, kind, <<>>, told)
                BY <3>3 DEF Load, MarkRead
            <4>2. PICK next : next = [kind |-> kind, items |-> <<>>, ids |-> told]
                OBVIOUS
            <4>3. next \in InboxCall /\ next.items = <<>>
                BY <4>2 DEF InboxCall
            <4> QED
                BY <3>1, <4>1, <4>2, <4>3 DEF SetInboxCall
        <3>4. CASE ServerLists(c)
            <4>1. PICK next : next = [kind |-> "answered", items |-> server, ids |-> {}]
                OBVIOUS
            <4>2. server \in Seq(Note)
                BY <2>1 DEF NotesApart
            <4>3. next \in InboxCall /\ next.items = server
                BY <4>1, <4>2 DEF InboxCall
            <4> QED
                BY <2>1, <3>4, <4>1, <4>3 DEF ServerLists, SetInboxCall
        <3>5. CASE Loaded(c) \/ Marked(c, reached)
            BY <3>1, <3>2, <3>5 DEF Loaded, Marked
        <3> QED
            BY <1>10, <3>3, <3>4, <3>5
    <2>3. NotesApart(server') /\ NotesApart(inbox')
        <3>1. CASE MarkRead(c, ids)
            BY <2>1, <3>1, NotesMarked DEF MarkRead
        <3>2. CASE Marked(c, reached)
            BY <2>1, <3>2, NotesMarked DEF Marked
        <3>3. CASE Load(c) \/ ServerLists(c) \/ Loaded(c)
            BY <2>1, <3>3 DEF Load, ServerLists, Loaded
        <3> QED
            BY <1>10, <3>1, <3>2, <3>3
    <2>4. InboxInv'
        <3>1. InboxInv
            BY DEF LinkInv
        <3>2. NotesApart(server)' /\ NotesApart(inbox)'
            BY <2>3 DEF NotesApart
        <3> QED
            BY <2>2, <3>1, <3>2, InboxCallMoves
    <2>5. UNCHANGED <<link, toasts>>
        BY <1>10 DEF Load, ServerLists, Loaded, MarkRead, Marked
    <2> QED
        BY <1>6, <2>4, <2>5
<1>11. CASE UNCHANGED linkVars
    BY <1>2, <1>3, <1>4, <1>11 DEF linkVars, LinkInv
<1> QED
    BY <1>7, <1>8, <1>9, <1>10, <1>11 DEF LinkNext

\* Whatever the connection, pushes, loads and dismissals do and in whichever
\* order, once the UI has let go of the client it stays down, and no
\* notification is shown twice.
THEOREM LinkStaysHonest == LinkSpec => [](LinkStaysDown /\ ShownOnce)
<1>1. LinkInv => LinkStaysDown /\ ShownOnce
    BY DEF LinkInv, InboxInv, NotesApart, ShownOnce
<1> QED
    BY <1>1, LinkBegins, LinkSteps, PTL DEF LinkSpec

-----------------------------------------------------------------------------
(* The chat with the copilot *)

ChatRecord == [messages : Seq(ChatMessage), isStreaming : BOOLEAN, counter : Nat, last : Nat,
               open : [Streams -> Nat], resets : Nat]

\* Ids count the messages from the last reset.
ChatCounted(state) ==
    /\ state \in ChatRecord /\ state.counter = Len(state.messages)
    /\ \A i \in DOMAIN state.messages : state.messages[i].id = i

\* Unless it was reset, a chat reads the answer to its last message only, and
\* says that it does; nothing of another answer is in the message a delta goes to.
ChatFollows ==
    /\ \A s \in Streams : chat.open[s] <= Len(StreamEvents[s])
    /\ chat.resets = 0 =>
         /\ \A i \in DOMAIN chat.messages : \E s \in Nat : chat.messages[i].from \subseteq {s}
         /\ \A s \in Streams : chat.open[s] > 0 =>
              /\ chat.isStreaming /\ s = chat.last /\ Len(chat.messages) > 0
              /\ chat.messages[Len(chat.messages)].from \subseteq {s}

ChatInv == ChatCounted(chat) /\ ChatFollows

\* A message is put at the end; what was there stays.
LEMMA MessageAdded ==
    ASSUME NEW state, ChatCounted(state), NEW kind \in {"user", "answer", "tool", "error"}, NEW from \in SUBSET Streams
    PROVE  LET next == AddMessage(state, kind, from) IN
           /\ ChatCounted(next)
           /\ next.isStreaming = state.isStreaming /\ next.open = state.open
           /\ next.last = state.last /\ next.resets = state.resets
           /\ Len(next.messages) = Len(state.messages) + 1
           /\ next.messages[Len(state.messages) + 1].from = from
           /\ \A i \in DOMAIN state.messages : next.messages[i] = state.messages[i]
<1>1. /\ state \in ChatRecord /\ state.messages \in Seq(ChatMessage) /\ state.counter \in Nat
      /\ state.counter = Len(state.messages) /\ DOMAIN state.messages = 1 .. Len(state.messages)
    BY DEF ChatCounted, ChatRecord
<1>2. PICK m : m = [id |-> state.counter + 1, kind |-> kind, from |-> from]
    OBVIOUS
<1>3. m \in ChatMessage /\ m.id = state.counter + 1 /\ m.from = from
    BY <1>1, <1>2 DEF ChatMessage
<1>4. PICK longer : longer = Append(state.messages, m)
    OBVIOUS
<1>5. /\ longer \in Seq(ChatMessage) /\ Len(longer) = Len(state.messages) + 1
      /\ longer[Len(state.messages) + 1] = m
      /\ \A i \in 1 .. Len(state.messages) : longer[i] = state.messages[i]
    BY <1>1, <1>3, <1>4, AppendProperties
<1>6. PICK next : next = AddMessage(state, kind, from)
    OBVIOUS
<1>7. PICK counted : counted = [state EXCEPT !.counter = @ + 1]
    OBVIOUS
<1>8. /\ counted \in ChatRecord /\ counted.counter = state.counter + 1
      /\ counted.messages = state.messages /\ counted.isStreaming = state.isStreaming
      /\ counted.open = state.open /\ counted.last = state.last /\ counted.resets = state.resets
    BY <1>1, <1>7 DEF ChatRecord
<1>9. next = [counted EXCEPT !.messages = longer]
    BY <1>1, <1>2, <1>4, <1>6, <1>7 DEF AddMessage, ChatRecord
<1>10. /\ next \in ChatRecord /\ next.counter = state.counter + 1
       /\ next.messages = longer /\ next.isStreaming = state.isStreaming
       /\ next.open = state.open /\ next.last = state.last /\ next.resets = state.resets
    BY <1>5, <1>8, <1>9 DEF ChatRecord
<1>11. ASSUME NEW i \in DOMAIN longer
       PROVE  longer[i].id = i
    <2>1. i \in 1 .. Len(state.messages) + 1
        BY <1>5
    <2>2. CASE i = Len(state.messages) + 1
        BY <1>1, <1>3, <1>5, <2>2
    <2>3. CASE i # Len(state.messages) + 1
        <3>1. i \in DOMAIN state.messages
            BY <1>1, <2>1, <2>3
        <3> QED
            BY <1>1, <1>5, <3>1 DEF ChatCounted
    <2> QED
        BY <2>2, <2>3
<1>12. ChatCounted(next)
    BY <1>1, <1>5, <1>10, <1>11 DEF ChatCounted
<1> QED
    BY <1>1, <1>3, <1>5, <1>6, <1>10, <1>12

\* What an event of answer s does to a chat.  Every message of the next state is
\* an old one, or has nothing of any answer, or is the last one with s put in.
EventApplied(state, next, event, s) ==
    /\ ChatCounted(next)
    /\ next.open = state.open /\ next.last = state.last /\ next.resets = state.resets
    /\ event \in {"start", "delta", "tool"} /\ state.isStreaming => next.isStreaming
    /\ Len(next.messages) >= Len(state.messages)
    /\ \A i \in DOMAIN next.messages :
          \/ next.messages[i].from = {}
          \/ /\ i \in DOMAIN state.messages
             /\ \/ next.messages[i].from = state.messages[i].from
                \/ i = Len(state.messages) /\ next.messages[i].from = state.messages[i].from \cup {s}

LEMMA StreamingSet ==
    ASSUME NEW state, ChatCounted(state), NEW on \in BOOLEAN
    PROVE  LET next == [state EXCEPT !.isStreaming = on] IN
           /\ ChatCounted(next) /\ next.messages = state.messages /\ next.isStreaming = on
           /\ next.open = state.open /\ next.last = state.last /\ next.resets = state.resets
    BY DEF ChatCounted, ChatRecord

LEMMA EventIsApplied ==
    ASSUME NEW state, ChatCounted(state), NEW s \in Streams,
           NEW event \in {"start", "delta", "tool", "done", "error", "throw"}
    PROVE  EventApplied(state, AppliedEvent(state, event, s), event, s)
<1>1. /\ state \in ChatRecord /\ state.messages \in Seq(ChatMessage) /\ Len(state.messages) \in Nat
      /\ DOMAIN state.messages = 1 .. Len(state.messages)
    BY DEF ChatCounted, ChatRecord
<1>2. PICK next : next = AppliedEvent(state, event, s)
    OBVIOUS
<1>3. ASSUME NEW kind \in {"user", "answer", "tool", "error"}, NEW added, added = AddMessage(state, kind, {})
      PROVE  /\ ChatCounted(added) /\ added.isStreaming = state.isStreaming /\ added.open = state.open
             /\ added.last = state.last /\ added.resets = state.resets
             /\ Len(added.messages) >= Len(state.messages)
             /\ \A i \in DOMAIN added.messages :
                   \/ added.messages[i].from = {}
                   \/ i \in DOMAIN state.messages /\ added.messages[i].from = state.messages[i].from
    <2>1. /\ ChatCounted(added) /\ added.isStreaming = state.isStreaming /\ added.open = state.open
          /\ added.last = state.last /\ added.resets = state.resets
          /\ Len(added.messages) = Len(state.messages) + 1
          /\ added.messages[Len(state.messages) + 1].from = {}
          /\ \A i \in DOMAIN state.messages : added.messages[i] = state.messages[i]
        BY <1>3, MessageAdded
    <2>2. DOMAIN added.messages = 1 .. Len(state.messages) + 1
        BY <1>1, <2>1 DEF ChatCounted, ChatRecord
    <2>3. ASSUME NEW i \in DOMAIN added.messages
          PROVE  \/ added.messages[i].from = {}
                 \/ i \in DOMAIN state.messages /\ added.messages[i].from = state.messages[i].from
        <3>1. i = Len(state.messages) + 1 \/ i \in DOMAIN state.messages
            BY <1>1, <2>2
        <3> QED
            BY <2>1, <3>1
    <2> QED
        BY <1>1, <2>1, <2>3
<1>4. CASE event = "start"
    <2>1. PICK added : added = AddMessage(state, "answer", {})
        OBVIOUS
    <2>2. next = [added EXCEPT !.isStreaming = TRUE]
        BY <1>2, <1>4, <2>1 DEF AppliedEvent
    <2>3. ChatCounted(added)
        BY <1>3, <2>1
    <2>4. /\ ChatCounted(next) /\ next.messages = added.messages /\ next.isStreaming = TRUE
          /\ next.open = added.open /\ next.last = added.last /\ next.resets = added.resets
        BY <2>2, <2>3, StreamingSet
    <2> QED
        BY <1>2, <1>3, <2>1, <2>4 DEF EventApplied
<1>5. CASE event = "delta"
    <2>1. PICK n : n = Len(state.messages)
        OBVIOUS
    <2>2. CASE n = 0 \/ state.messages[n].kind # "answer"
        <3>1. next = state
            BY <1>2, <1>5, <2>1, <2>2 DEF AppliedEvent
        <3> QED
            BY <1>1, <1>2, <3>1 DEF EventApplied
    <2>3. CASE ~ (n = 0 \/ state.messages[n].kind # "answer")
        <3>1. next = [state EXCEPT !.messages[n].from = @ \cup {s}]
            BY <1>2, <1>5, <2>1, <2>3 DEF AppliedEvent
        <3>2. n \in DOMAIN state.messages /\ n \in Nat
            BY <1>1, <2>1, <2>3
        <3>3. PICK old : old = state.messages[n]
            OBVIOUS
        <3>4. old \in ChatMessage
            BY <1>1, <3>2, <3>3
        <3>5. PICK m : m = [old EXCEPT !.from = @ \cup {s}]
            OBVIOUS
        <3>6. m \in ChatMessage /\ m.id = old.id /\ m.from = old.from \cup {s}
            BY <3>4, <3>5 DEF ChatMessage
        <3>7. PICK ms : ms = [state.messages EXCEPT ![n] = m]
            OBVIOUS
        <3>8. /\ ms \in Seq(ChatMessage) /\ Len(ms) = n /\ DOMAIN ms = DOMAIN state.messages
              /\ ms[n] = m /\ \A i \in DOMAIN state.messages : i # n => ms[i] = state.messages[i]
            BY <1>1, <2>1, <3>2, <3>6, <3>7
        <3>9. next = [state EXCEPT !.messages = ms]
            BY <1>1, <3>1, <3>3, <3>5, <3>7 DEF ChatRecord
        <3>10. /\ next \in ChatRecord /\ next.messages = ms /\ next.counter = state.counter
               /\ next.isStreaming = state.isStreaming /\ next.open = state.open
               /\ next.last = state.last /\ next.resets = state.resets
            BY <1>1, <3>8, <3>9 DEF ChatRecord
        <3>11. ASSUME NEW i \in DOMAIN ms
               PROVE  /\ ms[i].id = i
                      /\ \/ ms[i].from = state.messages[i].from
                         \/ i = n /\ ms[i].from = state.messages[i].from \cup {s}
            <4>1. state.messages[i].id = i
                BY <3>8 DEF ChatCounted
            <4>2. CASE i = n
                BY <3>3, <3>6, <3>8, <4>1, <4>2
            <4>3. CASE i # n
                <5>1. i \in DOMAIN state.messages
                    BY <3>8
                <5>2. ms[i] = state.messages[i]
                    BY <3>8, <4>3, <5>1
                <5> QED
                    BY <4>1, <5>2
            <4> QED
                BY <4>2, <4>3
        <3>12. ChatCounted(next)
            BY <2>1, <3>8, <3>10, <3>11 DEF ChatCounted
        <3> QED
            BY <1>1, <1>2, <2>1, <3>8, <3>10, <3>11, <3>12 DEF EventApplied
    <2> QED
        BY <2>2, <2>3
<1>6. CASE event = "tool"
    <2>1. next = AddMessage(state, "tool", {})
        BY <1>2, <1>6 DEF AppliedEvent
    <2> QED
        BY <1>2, <1>3, <2>1 DEF EventApplied
<1>7. CASE event = "done"
    <2>1. next = [state EXCEPT !.isStreaming = FALSE]
        BY <1>2, <1>7 DEF AppliedEvent
    <2>2. /\ ChatCounted(next) /\ next.messages = state.messages
          /\ next.open = state.open /\ next.last = state.last /\ next.resets = state.resets
        BY <2>1, StreamingSet
    <2> QED
        BY <1>1, <1>2, <1>7, <2>2 DEF EventApplied
<1>8. CASE event \in {"error", "throw"}
    <2>1. PICK added : added = AddMessage(state, "error", {})
        OBVIOUS
    <2>2. next = [added EXCEPT !.isStreaming = FALSE]
        BY <1>2, <1>8, <2>1 DEF AppliedEvent
    <2>3. ChatCounted(added)
        BY <1>3, <2>1
    <2>4. /\ ChatCounted(next) /\ next.messages = added.messages
          /\ next.open = added.open /\ next.last = added.last /\ next.resets = added.resets
        BY <2>2, <2>3, StreamingSet
    <2> QED
        BY <1>2, <1>3, <1>8, <2>1, <2>4 DEF EventApplied
<1> QED
    BY <1>4, <1>5, <1>6, <1>7, <1>8

LEMMA ChatBegins == ChatInit => ChatInv
<1> SUFFICES ASSUME ChatInit
             PROVE  ChatInv
    OBVIOUS
<1>1. chat \in ChatRecord /\ chat.counter = 0 /\ chat.messages = <<>>
    BY DEF ChatInit, ChatRecord
<1>2. \A s \in Streams : chat.open[s] = 0 /\ Len(StreamEvents[s]) \in Nat
    BY UpdatesAssumption DEF ChatInit
<1> QED
    BY <1>1, <1>2 DEF ChatInv, ChatCounted, ChatFollows

LEMMA ChatSteps == ChatInv /\ [ChatNext]_chat => ChatInv'
<1> SUFFICES ASSUME ChatInv, [ChatNext]_chat
             PROVE  ChatInv'
    OBVIOUS
<1>1. PICK now : now = chat
    OBVIOUS
<1>2. /\ now \in ChatRecord /\ ChatCounted(now) /\ now.messages \in Seq(ChatMessage) /\ Len(now.messages) \in Nat
      /\ DOMAIN now.messages = 1 .. Len(now.messages) /\ now.open \in [Streams -> Nat] /\ now.last \in Nat
      /\ now.resets \in Nat
    BY <1>1 DEF ChatInv, ChatCounted, ChatRecord
<1>3. /\ \A s \in Streams : now.open[s] <= Len(StreamEvents[s])
      /\ now.resets = 0 =>
           /\ \A i \in DOMAIN now.messages : \E s \in Nat : now.messages[i].from \subseteq {s}
           /\ \A s \in Streams : now.open[s] > 0 =>
                /\ now.isStreaming /\ s = now.last /\ Len(now.messages) > 0
                /\ now.messages[Len(now.messages)].from \subseteq {s}
    BY <1>1 DEF ChatInv, ChatFollows
<1>4. \A s \in Streams : s \in Nat /\ StreamEvents[s] \in Seq({"start", "delta", "tool", "done", "error", "throw"})
                         /\ Len(StreamEvents[s]) \in Nat
    BY UpdatesAssumption
<1>5. CASE Send
    <2>1. ~now.isStreaming /\ now.last + 1 \in Streams
        BY <1>1, <1>5 DEF Send
    <2>2. PICK s \in Streams : s = now.last + 1
        BY <2>1
    <2>3. PICK first \in {0, 1} : first = IF StreamEvents[s] = <<>> THEN 0 ELSE 1
        OBVIOUS
    <2>4. first <= Len(StreamEvents[s])
        <3>1. CASE StreamEvents[s] = <<>>
            BY <1>4, <2>3, <3>1
        <3>2. CASE StreamEvents[s] # <<>>
            <4>1. Len(StreamEvents[s]) # 0
                BY <1>4, <3>2, EmptySeq
            <4> QED
                BY <1>4, <2>3, <3>2, <4>1
        <3> QED
            BY <3>1, <3>2
    <2>5. PICK added : added = AddMessage(now, "user", {})
        OBVIOUS
    <2>6. /\ ChatCounted(added) /\ added.open = now.open /\ added.resets = now.resets
          /\ Len(added.messages) = Len(now.messages) + 1
          /\ added.messages[Len(now.messages) + 1].from = {}
          /\ \A i \in DOMAIN now.messages : added.messages[i] = now.messages[i]
        BY <1>2, <2>5, MessageAdded
    <2>7. added \in ChatRecord /\ added.messages \in Seq(ChatMessage)
        BY <2>6 DEF ChatCounted, ChatRecord
    <2>8. PICK opened : opened = [now.open EXCEPT ![s] = first]
        OBVIOUS
    <2>9. opened \in [Streams -> Nat] /\ opened[s] = first /\ \A t \in Streams : t # s => opened[t] = now.open[t]
        BY <1>2, <2>8
    <2>10. PICK a : a = [added EXCEPT !.isStreaming = TRUE]
        OBVIOUS
    <2>11. PICK b : b = [a EXCEPT !.last = s]
        OBVIOUS
    <2>12. chat' = [b EXCEPT !.open = opened]
        <3>1. chat' = [added EXCEPT !.isStreaming = TRUE, !.last = s, !.open[s] = first]
            BY <1>1, <1>5, <2>2, <2>3, <2>5 DEF Send
        <3>2. b.open = now.open
            BY <2>6, <2>7, <2>10, <2>11 DEF ChatRecord
        <3> QED
            BY <2>7, <2>8, <2>10, <2>11, <3>1, <3>2 DEF ChatRecord
    <2>13. /\ a \in ChatRecord /\ a.isStreaming = TRUE /\ a.messages = added.messages /\ a.counter = added.counter
           /\ a.resets = added.resets
        BY <2>7, <2>10 DEF ChatRecord
    <2>14. /\ b \in ChatRecord /\ b.isStreaming = TRUE /\ b.messages = added.messages /\ b.counter = added.counter
           /\ b.resets = added.resets /\ b.last = s
        BY <1>4, <2>11, <2>13 DEF ChatRecord
    <2>15. /\ chat' \in ChatRecord /\ chat'.isStreaming = TRUE /\ chat'.messages = added.messages
           /\ chat'.counter = added.counter /\ chat'.resets = now.resets /\ chat'.last = s /\ chat'.open = opened
        BY <2>6, <2>9, <2>12, <2>14 DEF ChatRecord
    <2>16. ChatCounted(chat')
        BY <2>6, <2>15 DEF ChatCounted
    <2>17. \A t \in Streams : opened[t] <= Len(StreamEvents[t])
        BY <1>3, <2>4, <2>9
    <2>18. ASSUME now.resets = 0
           PROVE  /\ \A i \in DOMAIN added.messages : \E t \in Nat : added.messages[i].from \subseteq {t}
                  /\ \A t \in Streams : opened[t] > 0 =>
                       t = s /\ Len(added.messages) > 0 /\ added.messages[Len(added.messages)].from \subseteq {t}
        <3>1. DOMAIN added.messages = 1 .. Len(now.messages) + 1
            BY <2>6, <2>7
        <3>2. ASSUME NEW i \in DOMAIN added.messages
              PROVE  \E t \in Nat : added.messages[i].from \subseteq {t}
            <4>1. i = Len(now.messages) + 1 \/ i \in DOMAIN now.messages
                BY <1>2, <3>1
            <4> QED
                BY <1>3, <2>6, <2>18, <4>1
        <3>3. ASSUME NEW t \in Streams, opened[t] > 0
              PROVE  t = s
            BY <1>3, <2>1, <2>9, <2>18, <3>3
        <3>4. Len(added.messages) > 0 /\ added.messages[Len(added.messages)].from = {}
            BY <1>2, <2>6
        <3> QED
            BY <3>2, <3>3, <3>4
    <2>19. ChatFollows'
        BY <2>15, <2>17, <2>18 DEF ChatFollows
    <2> QED
        BY <2>16, <2>19 DEF ChatInv, ChatCounted
<1>6. CASE ResetChat
    <2>1. chat' = [now EXCEPT !.messages = <<>>, !.isStreaming = FALSE, !.counter = 0, !.resets = @ + 1]
        BY <1>1, <1>6 DEF ResetChat
    <2>5. PICK a : a = [now EXCEPT !.messages = <<>>]
        OBVIOUS
    <2>6. PICK b : b = [a EXCEPT !.isStreaming = FALSE]
        OBVIOUS
    <2>7. PICK c : c = [b EXCEPT !.counter = 0]
        OBVIOUS
    <2>8. a \in ChatRecord /\ a.messages = <<>> /\ a.resets = now.resets /\ a.open = now.open
        <3>1. <<>> \in Seq(ChatMessage)
            OBVIOUS
        <3> HIDE DEF ChatMessage
        <3> QED
            BY <1>2, <2>5, <3>1 DEF ChatRecord
    <2>9. b \in ChatRecord /\ b.messages = <<>> /\ b.resets = now.resets /\ b.open = now.open
        BY <2>6, <2>8 DEF ChatRecord
    <2>10. /\ c \in ChatRecord /\ c.messages = <<>> /\ c.resets = now.resets /\ c.open = now.open /\ c.counter = 0
        BY <2>7, <2>9 DEF ChatRecord
    <2>11. chat' = [c EXCEPT !.resets = @ + 1]
        BY <1>2, <2>1, <2>5, <2>6, <2>7 DEF ChatRecord
    <2>2. chat' \in ChatRecord /\ chat'.messages = <<>> /\ chat'.counter = 0 /\ chat'.resets = now.resets + 1
          /\ chat'.open = now.open
        <3>1. now.resets + 1 \in Nat
            BY <1>2
        <3>2. chat' = [c EXCEPT !.resets = now.resets + 1]
            BY <2>10, <2>11
        <3> QED
            BY <2>10, <3>1, <3>2 DEF ChatRecord
    <2>3. ChatCounted(chat')
        BY <2>2 DEF ChatCounted
    <2>4. chat'.resets # 0
        BY <1>2, <2>2
    <2> QED
        BY <1>3, <2>2, <2>3, <2>4 DEF ChatInv, ChatCounted, ChatFollows
<1>7. ASSUME NEW s \in Streams, ConsumeEvent(s)
      PROVE  ChatInv'
    <2>1. PICK k : k = now.open[s]
        OBVIOUS
    <2>2. k \in Nat /\ k > 0 /\ k <= Len(StreamEvents[s])
        BY <1>1, <1>2, <1>3, <1>7, <2>1 DEF ConsumeEvent
    <2>3. PICK event : event = StreamEvents[s][k]
        OBVIOUS
    <2>4. event \in {"start", "delta", "tool", "done", "error", "throw"}
        BY <1>4, <2>2, <2>3
    <2>5. PICK next : next = AppliedEvent(now, event, s)
        OBVIOUS
    <2>6. EventApplied(now, next, event, s)
        BY <1>2, <2>4, <2>5, EventIsApplied
    <2>7. next \in ChatRecord /\ next.open = now.open /\ next.last = now.last /\ next.resets = now.resets
        BY <2>6 DEF EventApplied, ChatCounted
    <2>8. PICK upcoming : upcoming = IF k = Len(StreamEvents[s]) THEN 0 ELSE k + 1
        OBVIOUS
    <2>9. PICK opened : opened = [now.open EXCEPT ![s] = upcoming]
        OBVIOUS
    <2>10. /\ upcoming \in Nat /\ upcoming <= Len(StreamEvents[s])
           /\ upcoming > 0 => k \in 1 .. Len(StreamEvents[s]) - 1
        BY <1>4, <2>2, <2>8
    <2>11. opened \in [Streams -> Nat] /\ opened[s] = upcoming /\ \A t \in Streams : t # s => opened[t] = now.open[t]
        BY <1>2, <2>9, <2>10
    <2>12. chat' = [next EXCEPT !.open = opened]
        BY <1>1, <1>7, <2>1, <2>3, <2>5, <2>7, <2>8, <2>9 DEF ConsumeEvent, ChatRecord
    <2>13. /\ chat' \in ChatRecord /\ chat'.messages = next.messages /\ chat'.counter = next.counter
           /\ chat'.isStreaming = next.isStreaming /\ chat'.last = now.last /\ chat'.resets = now.resets
           /\ chat'.open = opened
        BY <2>7, <2>11, <2>12 DEF ChatRecord
    <2>14. ChatCounted(chat')
        BY <2>6, <2>13 DEF EventApplied, ChatCounted
    <2>15. \A t \in Streams : opened[t] <= Len(StreamEvents[t])
        BY <1>3, <2>10, <2>11
    <2>16. ASSUME now.resets = 0
           PROVE  /\ \A i \in DOMAIN next.messages : \E t \in Nat : next.messages[i].from \subseteq {t}
                  /\ \A t \in Streams : opened[t] > 0 =>
                       /\ next.isStreaming /\ t = now.last /\ Len(next.messages) > 0
                       /\ next.messages[Len(next.messages)].from \subseteq {t}
        <3>1. /\ now.isStreaming /\ s = now.last /\ Len(now.messages) > 0
              /\ now.messages[Len(now.messages)].from \subseteq {s}
            BY <1>3, <2>1, <2>2, <2>16
        <3>2. ASSUME NEW i \in DOMAIN next.messages
              PROVE  /\ \E t \in Nat : next.messages[i].from \subseteq {t}
                     /\ i >= Len(now.messages) => next.messages[i].from \subseteq {s}
            <4>1. \/ next.messages[i].from = {}
                  \/ /\ i \in DOMAIN now.messages
                     /\ \/ next.messages[i].from = now.messages[i].from
                        \/ i = Len(now.messages) /\ next.messages[i].from = now.messages[i].from \cup {s}
                BY <2>6 DEF EventApplied
            <4>2. CASE next.messages[i].from = {}
                BY <4>2
            <4>3. CASE i \in DOMAIN now.messages /\ i # Len(now.messages)
                <5>1. ~ (i >= Len(now.messages))
                    BY <1>2, <4>3
                <5>2. \E t \in Nat : now.messages[i].from \subseteq {t}
                    BY <1>3, <2>16, <4>3
                <5> QED
                    BY <4>1, <4>3, <5>1, <5>2
            <4>4. CASE i = Len(now.messages)
                <5>1. next.messages[i].from \subseteq {s}
                    BY <3>1, <4>1, <4>4
                <5> QED
                    BY <1>4, <5>1
            <4> QED
                BY <4>1, <4>2, <4>3, <4>4
        <3>3. ASSUME NEW t \in Streams, opened[t] > 0
              PROVE  t = s /\ next.isStreaming
            <4>1. t = s
                BY <1>3, <2>11, <2>16, <3>1, <3>3
            <4>2. k \in 1 .. Len(StreamEvents[s]) - 1
                BY <2>10, <2>11, <3>3, <4>1
            <4>3. event \in {"start", "delta", "tool"}
                BY <2>3, <4>2, UpdatesAssumption
            <4> QED
                BY <2>6, <3>1, <4>1, <4>3 DEF EventApplied
        <3>4. /\ Len(next.messages) \in Nat /\ Len(next.messages) >= Len(now.messages)
              /\ DOMAIN next.messages = 1 .. Len(next.messages)
            BY <2>6, <2>7 DEF EventApplied, ChatRecord
        <3>5. Len(next.messages) > 0 /\ Len(next.messages) \in DOMAIN next.messages
            BY <1>2, <3>1, <3>4
        <3>6. next.messages[Len(next.messages)].from \subseteq {s}
            BY <3>2, <3>4, <3>5
        <3> QED
            BY <3>1, <3>2, <3>3, <3>5, <3>6
    <2>17. ChatFollows'
        BY <2>13, <2>15, <2>16 DEF ChatFollows
    <2> QED
        BY <2>14, <2>17 DEF ChatInv, ChatCounted
<1>8. CASE UNCHANGED chat
    BY <1>8 DEF ChatInv, ChatCounted, ChatFollows
<1> QED
    BY <1>5, <1>6, <1>7, <1>8 DEF ChatNext

\* However the events of answers come, what a chat that was not reset shows of
\* an answer is of one answer; and no two messages have one id, not even after
\* a reset, when an answer under way still writes to it.
THEOREM AnswersStayApart == ChatSpec => []AnswersUnmixed
<1>1. ChatInv => AnswersUnmixed
    <2> SUFFICES ASSUME ChatInv
                 PROVE  AnswersUnmixed
        OBVIOUS
    <2>1. ASSUME chat.resets = 0, NEW i \in DOMAIN chat.messages
          PROVE  Cardinality(chat.messages[i].from) <= 1
        <3>1. PICK s \in Nat : chat.messages[i].from \subseteq {s}
            BY <2>1 DEF ChatInv, ChatFollows
        <3>2. chat.messages[i].from = {} \/ chat.messages[i].from = {s}
            BY <3>1
        <3>3. Cardinality({}) = 0 /\ Cardinality({s}) = 1
            BY FS_EmptySet, FS_Singleton
        <3> QED
            BY <3>2, <3>3
    <2>2. \A i, j \in DOMAIN chat.messages : chat.messages[i].id = chat.messages[j].id => i = j
        BY DEF ChatInv, ChatCounted
    <2> QED
        BY <2>1, <2>2 DEF AnswersUnmixed
<1> QED
    BY <1>1, ChatBegins, ChatSteps, PTL DEF ChatSpec
=============================================================================
