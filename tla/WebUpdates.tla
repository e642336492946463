----------------------------- MODULE WebUpdates -----------------------------
(***************************************************************************)
(* What reaches the web UI while it is open (apps/web/src): the real-time  *)
(* connection, the notifications it pushes and the ones that are loaded,   *)
(* toasts, and the answers of the copilot.  What a page looks like is not  *)
(* modelled.                                                               *)
(***************************************************************************)
EXTENDS Integers, Sequences, FiniteSets, SequencesExt

CONSTANTS
    MaxReconnects,   \* maxReconnectAttempts
    Notes,           \* ids of notifications: an initial segment of Nat \ {0}
    InboxCalls,      \* loads and marks that may be under way
    ToastIds,        \* bound: an initial segment of Nat \ {0}
    Streams,         \* answers of the copilot: an initial segment of Nat \ {0}
    StreamEvents,    \* StreamEvents[s]: the events of answer s, "throw" for an error of the source
    MaxResets        \* bound: resets of the chat

\* What ends an answer comes last: the service's chat throws, or yields done and returns (service.ts:341).
ASSUME UpdatesAssumption ==
    /\ MaxReconnects \in Nat /\ MaxResets \in Nat /\ Streams \subseteq Nat \ {0}
    /\ \A s \in Streams :
          /\ StreamEvents[s] \in Seq({"start", "delta", "tool", "done", "error", "throw"})
          /\ \A k \in 1 .. Len(StreamEvents[s]) - 1 : StreamEvents[s][k] \in {"start", "delta", "tool"}

VARIABLES
    link,      \* the real-time client: status, attempt, disposed, timer, asking
    channels,  \* the channels that have a handler
    server,    \* the API's notifications, the last one first
    inbox,     \* the notifications shown, likewise
    inboxCalls,
    toasts,    \* shown, pending timers, and the last id given
    chat       \* the chat store: messages, isStreaming, counter, last stream, streams not read to their end, resets

linkVars == <<link, channels, server, inbox, inboxCalls, toasts>>

Note == [id : Notes, read : BOOLEAN]
ChatMessage == [id : Nat, kind : {"user", "answer", "tool", "error"}, from : SUBSET Streams]
InboxCall == [kind : {"idle", "load", "answered", "mark"}, items : Seq(Note), ids : SUBSET Notes]

UpdatesTypeOK ==
    /\ link \in [status : {"disconnected", "connecting", "connected"}, attempt : 0 .. MaxReconnects + 2,
                 disposed : BOOLEAN, timer : BOOLEAN, asking : 0 .. 1]
    /\ channels \subseteq {"notifications", "alerts"}
    /\ server \in Seq(Note) /\ inbox \in Seq(Note) /\ inboxCalls \in [InboxCalls -> InboxCall]
    /\ toasts \in [shown : SUBSET ToastIds, timers : SUBSET ToastIds, last : ToastIds \cup {0}]
    /\ chat.messages \in Seq(ChatMessage) /\ chat.isStreaming \in BOOLEAN /\ chat.open \in [Streams -> Nat]

IdleCall == [kind |-> "idle", items |-> <<>>, ids |-> {}]

LinkInit ==
    /\ link = [status |-> "disconnected", attempt |-> 0, disposed |-> FALSE, timer |-> FALSE, asking |-> 0]
    /\ channels = {} /\ server = <<>> /\ inbox = <<>>
    /\ inboxCalls = [c \in InboxCalls |-> IdleCall]
    /\ toasts = [shown |-> {}, timers |-> {}, last |-> 0]

----------------------------------------------------------------------------
(* The real-time client *)

\* attemptConnect, from connect or from its timer.
AttemptConnect(l) == IF l.disposed THEN l ELSE [l EXCEPT !.status = "connecting", !.asking = @ + 1]

\* connectRealtime: the handlers first, then connect, unless it is already on its way.
ConnectRealtime ==
    /\ channels' = {"notifications", "alerts"}
    /\ link' = IF link.status = "disconnected" THEN AttemptConnect(link) ELSE link
    /\ UNCHANGED <<server, inbox, inboxCalls, toasts>>

Connected ==
    /\ link.asking > 0
    /\ link' = IF link.disposed THEN [link EXCEPT !.asking = @ - 1]
               ELSE [link EXCEPT !.asking = @ - 1, !.attempt = 0, !.status = "connected"]
    /\ UNCHANGED <<channels, server, inbox, inboxCalls, toasts>>

\* An attempt fails: one more after a while, or none.  The count goes on
\* after that; a failure beyond the first that is too many changes nothing.
ConnectFails ==
    /\ link.asking > 0 /\ link.attempt <= MaxReconnects + 1
    /\ link' = IF link.disposed THEN [link EXCEPT !.asking = @ - 1]
               ELSE IF link.attempt + 1 > MaxReconnects
               THEN [link EXCEPT !.asking = @ - 1, !.attempt = @ + 1, !.status = "disconnected"]
               ELSE [link EXCEPT !.asking = @ - 1, !.attempt = @ + 1, !.timer = TRUE]
    /\ UNCHANGED <<channels, server, inbox, inboxCalls, toasts>>

ReconnectTimer ==
    /\ link.timer /\ link' = AttemptConnect([link EXCEPT !.timer = FALSE])
    /\ UNCHANGED <<channels, server, inbox, inboxCalls, toasts>>

\* What connectRealtime returns: the handlers go, and the client for good.
Disconnect ==
    /\ channels' = {} /\ link' = [link EXCEPT !.disposed = TRUE, !.timer = FALSE, !.status = "disconnected"]
    /\ UNCHANGED <<server, inbox, inboxCalls, toasts>>

----------------------------------------------------------------------------
(* Notifications and toasts *)

WithoutNote(items, id) == FlattenSeq([i \in DOMAIN items |-> IF items[i].id = id THEN <<>> ELSE <<items[i]>>])
MarkNotes(items, ids) == [i \in DOMAIN items |-> IF items[i].id \in ids THEN [items[i] EXCEPT !.read = TRUE] ELSE items[i]]

\* add: in front, once.
Added(items, n) == <<n>> \o WithoutNote(items, n.id)

\* Something new on the server, pushed if the client is connected and listens.
NewNote(id) ==
    /\ \A i \in DOMAIN server : server[i].id # id
    /\ server' = <<[id |-> id, read |-> FALSE]>> \o server
    /\ UNCHANGED <<link, channels, inboxCalls, toasts, inbox>>

\* A push may come late or twice.
PushNote(id) ==
    /\ link.status = "connected" /\ "notifications" \in channels
    /\ \E i \in DOMAIN server : server[i].id = id
    /\ inbox' = Added(inbox, [id |-> id, read |-> FALSE])
    /\ UNCHANGED <<link, channels, server, inboxCalls, toasts>>

\* An alert is a toast, which a timer takes away.
PushAlert ==
    /\ link.status = "connected" /\ "alerts" \in channels /\ toasts.last + 1 \in ToastIds
    /\ toasts' = [shown |-> toasts.shown \cup {toasts.last + 1}, timers |-> toasts.timers \cup {toasts.last + 1},
                  last |-> toasts.last + 1]
    /\ UNCHANGED <<link, channels, server, inbox, inboxCalls>>

DismissToast(id, byTimer) ==
    /\ id \in IF byTimer THEN toasts.timers ELSE toasts.shown
    /\ toasts' = [toasts EXCEPT !.shown = @ \ {id}, !.timers = IF byTimer THEN @ \ {id} ELSE @]
    /\ UNCHANGED <<link, channels, server, inbox, inboxCalls>>

SetInboxCall(c, kind, items, ids) == inboxCalls' = [inboxCalls EXCEPT ![c] = [kind |-> kind, items |-> items, ids |-> ids]]

Load(c) ==
    /\ inboxCalls[c].kind = "idle" /\ SetInboxCall(c, "load", <<>>, {})
    /\ UNCHANGED <<link, channels, server, inbox, toasts>>

ServerLists(c) ==
    /\ inboxCalls[c].kind = "load" /\ SetInboxCall(c, "answered", server, {})
    /\ UNCHANGED <<link, channels, server, inbox, toasts>>

\* The list replaces what was pushed or marked meanwhile.
Loaded(c) ==
    /\ inboxCalls[c].kind = "answered" /\ inbox' = inboxCalls[c].items /\ inboxCalls' = [inboxCalls EXCEPT ![c] = IdleCall]
    /\ UNCHANGED <<link, channels, server, toasts>>

\* markRead of one or markAllRead: shown at once, then sent; the server may miss it.
MarkRead(c, ids) ==
    /\ inboxCalls[c].kind = "idle"
    /\ ids = Notes \/ \E i \in DOMAIN inbox : ids = {inbox[i].id}
    /\ inbox' = MarkNotes(inbox, ids) /\ SetInboxCall(c, "mark", <<>>, ids)
    /\ UNCHANGED <<link, channels, server, toasts>>

Marked(c, reached) ==
    /\ inboxCalls[c].kind = "mark" /\ inboxCalls' = [inboxCalls EXCEPT ![c] = IdleCall]
    /\ server' = IF reached THEN MarkNotes(server, inboxCalls[c].ids) ELSE server
    /\ UNCHANGED <<link, channels, inbox, toasts>>

RemoveNote(id) ==
    /\ \E i \in DOMAIN inbox : inbox[i].id = id
    /\ inbox' = WithoutNote(inbox, id)
    /\ UNCHANGED <<link, channels, server, inboxCalls, toasts>>

LinkNext ==
    \/ ConnectRealtime \/ Connected \/ ConnectFails \/ ReconnectTimer \/ Disconnect \/ PushAlert
    \/ \E id \in Notes : NewNote(id) \/ PushNote(id) \/ RemoveNote(id)
    \/ \E id \in ToastIds, byTimer \in BOOLEAN : DismissToast(id, byTimer)
    \/ \E c \in InboxCalls :
         \/ Load(c) \/ ServerLists(c) \/ Loaded(c)
         \/ \E ids \in SUBSET Notes : MarkRead(c, ids)
         \/ \E reached \in BOOLEAN : Marked(c, reached)

----------------------------------------------------------------------------
(* The chat: open[s] is how much of answer s is read, 0 if it is not under way *)

ChatInit == chat = [messages |-> <<>>, isStreaming |-> FALSE, counter |-> 0, last |-> 0,
                    open |-> [s \in Streams |-> 0], resets |-> 0]

AddMessage(state, kind, from) ==
    [state EXCEPT !.counter = @ + 1,
                  !.messages = Append(@, [id |-> state.counter + 1, kind |-> kind, from |-> from])]

\* applyStreamEvent; a delta goes to the answer that was begun last, if nothing came after it.
AppliedEvent(state, event, s) ==
    CASE event = "start" -> [AddMessage(state, "answer", {}) EXCEPT !.isStreaming = TRUE]
      [] event = "delta" ->
           LET n == Len(state.messages) IN
           IF n = 0 \/ state.messages[n].kind # "answer" THEN state
           ELSE [state EXCEPT !.messages[n].from = @ \cup {s}]
      [] event = "tool" -> AddMessage(state, "tool", {})
      [] event = "done" -> [state EXCEPT !.isStreaming = FALSE]
      [] OTHER -> [AddMessage(state, "error", {}) EXCEPT !.isStreaming = FALSE]

\* send: not while an answer is being streamed.  One without events, as of the app's source when it is given none,
\* leaves the chat streaming.
Send ==
    /\ ~chat.isStreaming /\ chat.last + 1 \in Streams
    /\ chat' = [AddMessage(chat, "user", {}) EXCEPT !.isStreaming = TRUE, !.last = chat.last + 1,
                                                    !.open[chat.last + 1] = IF StreamEvents[chat.last + 1] = <<>> THEN 0 ELSE 1]

\* The next event of an answer, until its source ends or throws.
ConsumeEvent(s) ==
    /\ chat.open[s] > 0
    /\ chat' = [AppliedEvent(chat, StreamEvents[s][chat.open[s]], s) EXCEPT
                  !.open[s] = IF @ = Len(StreamEvents[s]) THEN 0 ELSE @ + 1]

\* reset does not stop an answer that is under way.
ResetChat ==
    /\ chat.resets < MaxResets
    /\ chat' = [chat EXCEPT !.messages = <<>>, !.isStreaming = FALSE, !.counter = 0, !.resets = @ + 1]

ChatNext == Send \/ ResetChat \/ \E s \in Streams : ConsumeEvent(s)

LinkSpec == LinkInit /\ [][LinkNext]_linkVars
ChatSpec == ChatInit /\ [][ChatNext]_chat

----------------------------------------------------------------------------
(* Properties *)

\* Whatever is under way when the UI lets go of the real-time client, it stays
\* disconnected and starts nothing again; before that there is one attempt or
\* one timer at most, and one only while the status says so.
LinkStaysDown ==
    /\ link.disposed => link.status = "disconnected" /\ ~link.timer
    /\ ~link.disposed => link.asking + (IF link.timer THEN 1 ELSE 0) = IF link.status = "connecting" THEN 1 ELSE 0

\* Pushes that come twice, late or during a load never show a notification
\* twice; and no toast is left without the timer that takes it away.
ShownOnce ==
    /\ \A i, j \in DOMAIN inbox : inbox[i].id = inbox[j].id => i = j
    /\ toasts.shown \subseteq toasts.timers

\* Unless the chat was reset meanwhile, an answer is made of what was streamed
\* for one message; and the ids of the messages are never given twice.
AnswersUnmixed ==
    /\ chat.resets = 0 => \A i \in DOMAIN chat.messages : Cardinality(chat.messages[i].from) <= 1
    /\ \A i, j \in DOMAIN chat.messages : chat.messages[i].id = chat.messages[j].id => i = j

\* The three together.
UpdatesConsistent == LinkStaysDown /\ ShownOnce /\ AnswersUnmixed
=============================================================================
