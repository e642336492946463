------------------------------- MODULE Copilot -------------------------------
(***************************************************************************)
(* The conversations of the copilot (packages/ai-copilot/src: service.ts,  *)
(* memory.ts, tools.ts, prompts.ts, permissions.ts, sources.ts).  The      *)
(* store in memory hands out the conversation itself, so what a chat adds  *)
(* is there at once, saved or not.  A chat is a generator that stops at    *)
(* each event until its consumer asks for the next; between the answers of *)
(* the model and of the tools other chats, on the same conversation too,   *)
(* go on.                                                                  *)
(***************************************************************************)
EXTENDS Integers, Sequences, FiniteSets, SequencesExt

CONSTANTS
    ChatRequests,      \* [tenant, conversation, role, words, history, turns]
    ChatTenants,
    Conversations,     \* ids that are given out
    NewConversation,   \* the conversation of a request that starts one
    NoChat,
    Grants,            \* Grants[role]: its permissions; the authorizer that is wired
    WiredSources,      \* the sources of the tools that are wired
    Answers,           \* what the model may stream in a turn: its tool calls, [id, tool, limit, which]
    AdviceOn,          \* sequences of recommendations, [score, priority, effort, impact]
    Observed,          \* what observability has: [snapshots, alerts], [at, score] each and the severities
    MaxChats,          \* bound: chats
    MaxDeletions       \* bound: conversations deleted

ASSUME CopilotAssumption ==
    /\ MaxChats \in Nat /\ MaxDeletions \in Nat
    /\ Conversations \subseteq Nat /\ Conversations # {} /\ NewConversation \notin Conversations
    /\ ChatRequests \subseteq [tenant : ChatTenants, conversation : Conversations \cup {NewConversation}, role : DOMAIN Grants,
                               words : SUBSET STRING, history : Int, turns : Int]

ChatIds == 1 .. MaxChats

VARIABLES
    recommendations,   \* what the recommendation source lists
    talk,              \* talk[i]: the conversation object i, [tenant, messages]
    kept,              \* the ids in the store
    chats,             \* chats[n]: the n-th chat while it goes on, or NoChat
    replies,           \* the answers given: [chat, conversation, executed, prompt]
    trail,             \* trail[n]: the audit entries of chat n, and trail[0]: those of no chat
    counters,          \* the metrics that count
    lastChat,          \* chats so far
    lost               \* ids deleted while no chat was under way

copilotVars == <<recommendations, talk, kept, chats, replies, trail, counters, lastChat, lost>>

\* by is 0 for the system message.
Message(role, by, tool, ok, output) == [role |-> role, by |-> by, tool |-> tool, ok |-> ok, output |-> output]
Plain(role, by) == Message(role, by, "none", TRUE, <<>>)
\* Of a conversation, or of a tool that was called in it.
Entry(action, tenant, conversation, tool) ==
    [action |-> action, tenant |-> tenant, conversation |-> conversation, tool |-> tool]
Record(n, entries) == trail' = [trail EXCEPT ![n] = @ \o entries]

CounterNames == {"sessions", "messages", "turns", "toolCalls", "toolErrors", "permissionDenied", "modelErrors"}
Bumped(names) == [name \in CounterNames |-> counters[name] + IF name \in names THEN 1 ELSE 0]
CountUp(names) == counters' = Bumped(names)

Say(i, message) == talk' = [talk EXCEPT ![i].messages = Append(@, message)]

----------------------------------------------------------------------------
(* What the recommendations amount to *)

RiskOf(r) ==
    LET high == r.priority \in {"high", "critical"}
    IN CASE high /\ r.effort = "high" -> "HIGH"
         [] high # (r.effort = "high") -> "MEDIUM"
         [] OTHER -> "LOW"

NeedsApproval(r) == RiskOf(r) = "HIGH" \/ (r.impact = "high" /\ r.effort # "low")

\* Some that are safe need approval.
IsSafeAction(r) == RiskOf(r) # "HIGH"

\* Best score first, ties as listed.
Ranked(listed) ==
    SetToSortSeq(listed,
                 LAMBDA i, j : \/ recommendations[i].score > recommendations[j].score
                               \/ recommendations[i].score = recommendations[j].score /\ i < j)

PlanItem(i) ==
    [recommendation |-> i, risk |-> RiskOf(recommendations[i]), approvalRequired |-> NeedsApproval(recommendations[i]),
     safe |-> IsSafeAction(recommendations[i])]
OptimizationPlan == LET ranked == Ranked(DOMAIN recommendations) IN [k \in DOMAIN ranked |-> PlanItem(ranked[k])]

First(limit, items) == SubSeq(items, 1, IF Len(items) < limit THEN Len(items) ELSE limit)
SafeActions(limit) ==
    LET eligible == Ranked({i \in DOMAIN recommendations : ~NeedsApproval(recommendations[i])})
    IN [k \in DOMAIN First(limit, eligible) |-> [recommendation |-> eligible[k], approvalRequired |-> FALSE]]

\* The newest snapshot and the one before, however they are listed.
CrawlSummary ==
    LET snapshots == Observed.snapshots
        before(i, j) == snapshots[i].at < snapshots[j].at \/ (snapshots[i].at = snapshots[j].at /\ i < j)
        ordered == SetToSortSeq(DOMAIN snapshots, before)
        score(back) == IF Len(ordered) > back THEN {snapshots[ordered[Len(ordered) - back]].score} ELSE {}
    IN [latest |-> score(0), previous |-> score(1), delta |-> {l - p : l \in score(0), p \in score(1)},
        snapshots |-> Len(ordered)]

AlertsSummary(limit) ==
    LET items == First(limit, Observed.alerts)
        critical == Len(SelectSeq(items, LAMBDA severity : severity = "critical"))
        warning == Len(SelectSeq(items, LAMBDA severity : severity = "warning"))
    IN [total |-> Len(items), critical |-> critical, warning |-> warning, info |-> Len(items) - critical - warning]

----------------------------------------------------------------------------
(* The tools *)

CopilotTool(permission, source) == [permission |-> permission, source |-> source]
AdviceTools ==
    [list_recommendations |-> CopilotTool("org.read", "recommendations"),
     explain_recommendation |-> CopilotTool("org.read", "recommendations")]
ObservabilityTools ==
    [interpret_metrics |-> CopilotTool("org.read", "observability"),
     summarize_crawl |-> CopilotTool("org.read", "observability"),
     summarize_execution |-> CopilotTool("org.read", "observability"),
     get_alerts |-> CopilotTool("org.read", "observability")]
PlanningTools ==
    [list_plans |-> CopilotTool("org.read", "decision"),
     generate_optimization_plan |-> CopilotTool("org.manage", "recommendations"),
     suggest_safe_actions |-> CopilotTool("org.manage", "recommendations"),
     generate_report |-> CopilotTool("org.read", "reports")]
DefaultTools == AdviceTools @@ ObservabilityTools @@ PlanningTools

Allowed(role, tool) == DefaultTools[tool].permission \in Grants[role]

\* A limit that is missing or no number is 0.
AsLimit(limit, fallback) == IF limit > 0 THEN limit ELSE fallback

\* What only a source knows is left out.
Output(call) ==
    CASE call.tool = "list_recommendations" ->
           First(AsLimit(call.limit, 50), [i \in DOMAIN recommendations |-> [recommendation |-> i]])
      [] call.tool = "explain_recommendation" -> <<[recommendation |-> call.which]>>
      [] call.tool = "interpret_metrics" ->
           <<[crawl |-> CrawlSummary, alerts |-> AlertsSummary(20), kpis |-> "reports" \in WiredSources]>>
      [] call.tool = "summarize_crawl" -> <<CrawlSummary>>
      [] call.tool = "get_alerts" -> <<AlertsSummary(AsLimit(call.limit, 20))>>
      [] call.tool = "generate_optimization_plan" -> OptimizationPlan
      [] call.tool = "suggest_safe_actions" -> SafeActions(AsLimit(call.limit, 10))
      [] OTHER -> <<>>

\* The source may reject; a recommendation that is not listed cannot be explained.
Outcomes(call) ==
    IF /\ DefaultTools[call.tool].source \in WiredSources
       /\ call.tool = "explain_recommendation" => call.which \in DOMAIN recommendations
    THEN BOOLEAN ELSE {FALSE}

\* The prompt of the first rule with a keyword of the message; nothing but the answer and the audit tell it.
IntentRules == <<"explain", "plan", "metrics", "crawl", "execution", "actions">>
ClassifyIntent(words) ==
    LET matching == SelectSeq(IntentRules, LAMBDA rule : rule \in words)
    IN IF matching = <<>> THEN "answer" ELSE Head(matching)

\* What the model is shown: the system message and the last of the others.
WindowMessages(messages, history) ==
    <<Head(messages)>> \o SubSeq(messages, IF Len(messages) - history < 2 THEN 2 ELSE Len(messages) - history + 1,
                                 Len(messages))

\* Calls of one id are one call, where the first is and as the last is.
CallsById(chunks) ==
    LET firsts == {i \in DOMAIN chunks : \A j \in 1 .. i - 1 : chunks[j].id # chunks[i].id}
        order == SetToSortSeq(firsts, LAMBDA i, j : i < j)
    IN [k \in DOMAIN order |->
           chunks[CHOOSE i \in DOMAIN chunks : /\ chunks[i].id = chunks[order[k]].id
                                               /\ \A j \in i + 1 .. Len(chunks) : chunks[j].id # chunks[i].id]]

----------------------------------------------------------------------------

CopilotTypeOK ==
    /\ DOMAIN talk \subseteq Conversations /\ kept \subseteq DOMAIN talk
    /\ \A c \in ChatIds : chats[c] # NoChat =>
           /\ chats[c].at \in {"model", "tools", "finish"} /\ chats[c].conversation \in DOMAIN talk
           /\ chats[c].turn \in 0 .. chats[c].request.turns - 1
    /\ \A i \in DOMAIN talk : talk[i].tenant \in ChatTenants /\ talk[i].messages[1] = Plain("system", 0)

CopilotInit ==
    /\ recommendations \in AdviceOn
    /\ talk = <<>> /\ kept = {} /\ lost = {}
    /\ chats = [n \in ChatIds |-> NoChat]
    /\ replies = {} /\ trail = [n \in 0 .. MaxChats |-> <<>>] /\ lastChat = 0
    /\ counters = [name \in CounterNames |-> 0]

----------------------------------------------------------------------------
(* Conversations *)

NextId == CHOOSE i \in Conversations : i \notin DOMAIN talk /\ \A j \in Conversations \ DOMAIN talk : i <= j
Session(tenant, messages) == [tenant |-> tenant, messages |-> <<Plain("system", 0)>> \o messages]
NewTalk(tenant, messages) ==
    [i \in DOMAIN talk \cup {NextId} |->
        IF i = NextId THEN Session(tenant, messages) ELSE talk[i]]

\* Bound: one, before the first chat; chats start others.
StartConversation ==
    /\ lastChat = 0 /\ DOMAIN talk = {}
    /\ \E t \in ChatTenants : talk' = NewTalk(t, <<>>) /\ Record(0, <<Entry("created", t, NextId, "none")>>)
    /\ kept' = kept \cup {NextId}
    /\ CountUp({"sessions"})
    /\ UNCHANGED <<recommendations, chats, replies, lastChat, lost>>

\* One that is gone, or of another tenant, is refused.
DeleteConversation ==
    /\ Len(SelectSeq(trail[0], LAMBDA e : e.action = "deleted")) < MaxDeletions
    /\ \E i \in kept :
         /\ kept' = kept \ {i}
         /\ Record(0, <<Entry("deleted", talk[i].tenant, i, "none")>>)
         /\ lost' = IF \E c \in ChatIds : chats[c] # NoChat /\ chats[c].conversation = i THEN lost
                    ELSE lost \cup {i}
    /\ UNCHANGED <<recommendations, talk, chats, replies, counters, lastChat>>

----------------------------------------------------------------------------
(* A chat *)

Clamped(value, low, high) == IF value < low THEN low ELSE IF value > high THEN high ELSE value
NewChat(id, request, i) ==
    [id |-> id, request |-> [request EXCEPT !.history = Clamped(@, 0, 100), !.turns = Clamped(@, 1, 20)],
     conversation |-> i, at |-> "model", turn |-> 0, shown |-> <<>>, calls |-> <<>>, executed |-> <<>>]

\* A turn is counted, then ends the chat if the request was aborted: it is looked at here alone.
StartTurn(c, chat, messages) ==
    \/ chats' = [chats EXCEPT ![c] = NoChat]
    \/ chats' = [chats EXCEPT ![c] =
                    [chat EXCEPT !.at = "model", !.shown = WindowMessages(messages, chat.request.history)]]

\* The question stays in the conversation when the role may not chat, as when the chat fails later.
Chat(c) ==
    /\ lastChat < MaxChats /\ c = lastChat + 1
    /\ \E r \in ChatRequests :
         LET new == r.conversation = NewConversation
             i == IF new THEN NextId ELSE r.conversation
             question == Plain("user", c)
             allowed == "tenant.read" \in Grants[r.role]
             created == IF new THEN <<Entry("created", r.tenant, i, "none")>> ELSE <<>>
             denied == IF allowed THEN <<>> ELSE <<Entry("denied", r.tenant, i, "none")>>
         IN /\ IF new THEN DOMAIN talk # Conversations ELSE i \in kept /\ talk[i].tenant = r.tenant
            /\ IF new THEN talk' = NewTalk(r.tenant, <<question>>) ELSE Say(i, question)
            /\ kept' = kept \cup {i}
            /\ IF allowed THEN StartTurn(c, NewChat(c, r, i), talk'[i].messages) ELSE UNCHANGED chats
            /\ Record(c, created \o denied)
            /\ CountUp((IF new THEN {"sessions"} ELSE {}) \cup {IF allowed THEN "turns" ELSE "permissionDenied"})
            /\ lastChat' = c
    /\ UNCHANGED <<recommendations, replies, lost>>

\* The conversation is saved, even if it has been deleted since.
Answer(c, messages) ==
    /\ talk' = [talk EXCEPT ![chats[c].conversation].messages = @ \o messages]
    /\ kept' = kept \cup {chats[c].conversation}
    /\ chats' = [chats EXCEPT ![c].at = "finish"]

ModelAnswers(c) ==
    /\ chats[c] # NoChat /\ chats[c].at = "model"
    /\ \E chunks \in Answers :
         IF chunks = <<>> THEN Answer(c, <<Plain("assistant", chats[c].id)>>)
         ELSE /\ chats' = [chats EXCEPT ![c].at = "tools", ![c].calls = CallsById(chunks)]
              /\ UNCHANGED <<talk, kept>>
    /\ UNCHANGED <<recommendations, replies, trail, counters, lastChat, lost>>

\* What it streamed before is lost.
ModelFails(c) ==
    /\ chats[c] # NoChat /\ chats[c].at = "model" /\ chats' = [chats EXCEPT ![c] = NoChat]
    /\ CountUp({"modelErrors"})
    /\ UNCHANGED <<recommendations, talk, kept, replies, trail, lastChat, lost>>

\* A call to an unknown tool is neither counted nor in the audit trail.
ExecuteTool(c) ==
    /\ chats[c] # NoChat /\ chats[c].at = "tools" /\ chats[c].calls # <<>>
    /\ LET chat == chats[c]
           call == Head(chat.calls)
           known == call.tool \in DOMAIN DefaultTools
           allowed == known /\ Allowed(chat.request.role, call.tool)
           entry == Entry(IF allowed THEN "tool" ELSE "denied", chat.request.tenant, chat.conversation, call.tool)
       IN \E ok \in IF allowed THEN Outcomes(call) ELSE {FALSE} :
            /\ Say(chat.conversation, Message("tool", chat.id, call.tool, ok, IF ok THEN Output(call) ELSE <<>>))
            /\ chats' = [chats EXCEPT ![c].calls = Tail(@), ![c].executed = Append(@, [tool |-> call.tool, ok |-> ok])]
            /\ Record(chat.id, IF known THEN <<entry>> ELSE <<>>)
            /\ CountUp(CASE ~known -> {} [] known /\ ~allowed -> {"permissionDenied"}
                         [] ok -> {"toolCalls"} [] OTHER -> {"toolCalls", "toolErrors"})
    /\ UNCHANGED <<recommendations, kept, replies, lastChat, lost>>

\* Mutant: the last turn just ends.
NoExcuse(chat) == <<>>
\* What is said when tools were called in the last turn.
Excuse(chat) == <<Plain("assistant", chat.id)>>

EndTurn(c) ==
    /\ chats[c] # NoChat /\ chats[c].at = "tools" /\ chats[c].calls = <<>>
    /\ IF chats[c].turn = chats[c].request.turns - 1
       THEN Answer(c, Excuse(chats[c])) /\ UNCHANGED counters
       ELSE /\ StartTurn(c, [chats[c] EXCEPT !.turn = @ + 1], talk[chats[c].conversation].messages)
            /\ CountUp({"turns"})
            /\ UNCHANGED <<talk, kept>>
    /\ UNCHANGED <<recommendations, replies, trail, lastChat, lost>>

Reply(chat) == [chat |-> chat, prompt |-> ClassifyIntent(chat.request.words)]

FinishChat(c) ==
    /\ chats[c] # NoChat /\ chats[c].at = "finish"
    /\ LET chat == chats[c]
       IN /\ Record(chat.id, <<Entry("chat", talk[chat.conversation].tenant, chat.conversation, "none")>>)
          /\ replies' = replies \cup {Reply(chat)}
    /\ chats' = [chats EXCEPT ![c] = NoChat]
    /\ CountUp({"messages"})
    /\ UNCHANGED <<recommendations, talk, kept, lastChat, lost>>

\* Whoever reads the events leaves, at a word of the model or at a call or a result of a tool.
LeaveChat(c) ==
    /\ chats[c] # NoChat /\ chats[c].at \in {"model", "tools"} /\ chats' = [chats EXCEPT ![c] = NoChat]
    /\ UNCHANGED <<recommendations, talk, kept, replies, trail, counters, lastChat, lost>>

CopilotNext ==
    \/ StartConversation \/ DeleteConversation
    \/ \E c \in ChatIds : \/ Chat(c) \/ ModelAnswers(c) \/ ModelFails(c) \/ ExecuteTool(c)
                         \/ EndTurn(c) \/ FinishChat(c) \/ LeaveChat(c)

CopilotSpec == CopilotInit /\ [][CopilotNext]_copilotVars

----------------------------------------------------------------------------
(* Properties *)

OfChat(i, id) == SelectSeq(talk[i].messages, LAMBDA m : m.by = id)

\* The entries of an action.
Trailed(action) == UNION {{<<n, k>> : k \in {j \in DOMAIN trail[n] : trail[n][j].action = action}} : n \in DOMAIN trail}

\* What a chat that answered has left in its conversation is its question, the results it reports, in that order, and
\* one answer (service.ts 196-342); the trail has an entry for each tool it ran or was refused and one for the answer.
AnswersAccounted ==
    \A reply \in replies :
         LET chat == reply.chat
             messages == OfChat(chat.conversation, chat.id)
             entries == SelectSeq(trail[chat.id], LAMBDA e : e.action # "created")
             known == SelectSeq(chat.executed, LAMBDA e : e.tool \in DOMAIN DefaultTools)
         IN /\ Len(messages) = Len(chat.executed) + 2
            /\ messages[1].role = "user" /\ Last(messages).role = "assistant"
            /\ \A k \in DOMAIN chat.executed :
                  /\ messages[k + 1].role = "tool" /\ messages[k + 1].tool = chat.executed[k].tool
                  /\ messages[k + 1].ok = chat.executed[k].ok
            /\ Len(entries) = Len(known) + 1 /\ Last(entries).action = "chat"
            /\ \A k \in DOMAIN known : entries[k].tool = known[k].tool /\ (known[k].ok => entries[k].action = "tool")
            /\ \A k \in DOMAIN entries :
                  entries[k].tenant = talk[chat.conversation].tenant /\ entries[k].conversation = chat.conversation

\* The metrics count what the trail has.
MetricsCount ==
    /\ counters.messages = Cardinality(Trailed("chat")) /\ counters.sessions = Cardinality(Trailed("created"))
    /\ counters.toolCalls = Cardinality(Trailed("tool")) /\ counters.permissionDenied = Cardinality(Trailed("denied"))
    /\ counters.turns >= counters.messages + counters.modelErrors /\ counters.toolErrors <= counters.toolCalls

\* No chat is shown, or writes to, a conversation of another tenant; data comes from tools the role may use
\* (docs/ai-copilot.md:85-86).
ChatsStayApart ==
    \A c \in ChatIds : chats[c] # NoChat =>
         /\ talk[chats[c].conversation].tenant = chats[c].request.tenant
         /\ \A k \in DOMAIN chats[c].executed :
               chats[c].executed[k].ok => Allowed(chats[c].request.role, chats[c].executed[k].tool)
         /\ \A k \in DOMAIN chats[c].shown :
               LET m == chats[c].shown[k]
               IN (k = 1) = (m.role = "system") /\ (m.by = 0 \/ \E j \in DOMAIN talk[chats[c].conversation].messages :
                                                                  talk[chats[c].conversation].messages[j] = m)

\* What is suggested needs no approval (docs/ai-copilot.md:79) and nothing better is left out.
SuggestionsAreSafe ==
    \A i \in DOMAIN talk : \A k \in DOMAIN talk[i].messages :
         LET m == talk[i].messages[k]
             suggested == {m.output[n].recommendation : n \in DOMAIN m.output}
         IN m.tool = "suggest_safe_actions" /\ m.ok =>
              \A j \in DOMAIN recommendations :
                 IF j \in suggested
                 THEN recommendations[j].impact = "high" => recommendations[j].effort = "low"
                 ELSE \/ NeedsApproval(recommendations[j])
                      \/ \A n \in suggested : recommendations[n].score >= recommendations[j].score

\* What is deleted while nobody chats on it stays so, what is not in the store was deleted by someone, and the trail
\* tells once of each conversation whose it is.
DeletedStayDeleted ==
    /\ lost \cap kept = {}
    /\ \A i \in DOMAIN talk \ kept : \E e \in Trailed("deleted") : trail[e[1]][e[2]].conversation = i
    /\ \A i \in DOMAIN talk : Cardinality({e \in Trailed("created") :
          trail[e[1]][e[2]].conversation = i /\ trail[e[1]][e[2]].tenant = talk[i].tenant}) = 1

\* However chats on one conversation interleave, each keeps its account.
ChatsKeepAccount == AnswersAccounted /\ MetricsCount /\ ChatsStayApart /\ SuggestionsAreSafe /\ DeletedStayDeleted
=============================================================================
