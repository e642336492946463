----------------------------- MODULE MCServices -----------------------------
(***************************************************************************)
(* Components that are checked for safety alone, each on a small instance. *)
(* As in MCWorkers, part chooses which of them runs; the others stay in    *)
(* one initial state.  So one run answers for them all, and its states are *)
(* the sum of theirs.                                                      *)
(* The two syncs are interchangeable: the first one is of the provider     *)
(* whose data comes by day.                                                *)
(***************************************************************************)
EXTENDS ObservedExecutions, GoogleSync, DecisionPlans, PluginRegistry, ShopWrites, CronSearch,
        TenantServices, ExecutionPreparation,
        WebSession, WebUpdates, AgentRuns, SeoAudit, LearningEngine, GraphSnapshots, ReportRuns, Copilot, RealtimeApi, AgentTasks

CONSTANTS shoe, about, theme, seo, mail, t1, w1, w2, ann, cy, north, south

VARIABLE part

vars == <<part, obsVars, syncVars, planVars, pluginVars, shopVars, cronVars, accountVars, sessionVars,
          billVars, prepVars, webVars, linkVars, chat, agentVars, auditVars, learnVars, graphVars, reportVars, copilotVars, realtimeVars, accessVars, taskVars>>

\* Two ways an execution of three events may end; a second handler sees the first of them.
MCLifecycles == {<<"execution.queued", "execution.started", "execution.failed">>,
                 <<"execution.queued", "execution.cancelled">>}
MCSubscribers == <<2, 1, 1>>

\* Two recommendations for each of two pages: a rule with a prerequisite, and two actions that exclude each other.
MCRule == <<"missing-structured-data", "missing-title", "remove-duplicate-content">>
MCScore == <<2, 1, 0>>
MCAffectedUrls == <<{shoe}, {shoe, about}, {about}>>
MCRuleAction == [rule \in {MCRule[r] : r \in 1..3} |->
    CASE rule = "missing-title" -> "update_title"
      [] rule = "missing-structured-data" -> "add_structured_data"
      [] OTHER -> "delete_page"]
MCIncompatible == {<<"delete_page", "update_title">>}
MCExclusiveRules == {{"remove-duplicate-content", "merge-duplicate-content"}}
MCPrerequisites == [rule \in {MCRule[r] : r \in 1..3} |->
    IF rule = "missing-title" THEN {"missing-structured-data"} ELSE {}]
MCTaskId == <<1, shoe>> :> 3 @@ <<2, shoe>> :> 2 @@ <<2, about>> :> 1 @@ <<3, about>> :> 4

\* A plan that is approved at once, one that waits, one that waits and may not be undone.
MCPlanSettings ==
    {[review |-> FALSE, flags |-> {}, risk |-> "LOW", captured |-> {}, maxChangesPerResource |-> 1],
     [review |-> TRUE, flags |-> {}, risk |-> "MEDIUM", captured |-> CreateTasks, maxChangesPerResource |-> 0],
     [review |-> TRUE, flags |-> {}, risk |-> "HIGH", captured |-> CreateTasks, maxChangesPerResource |-> 2]}

MCSubscriber(id, types, permission) == [id |-> id, types |-> types, permission |-> permission]
MCBundle(p, v, dependencies, subscribers, permissions) ==
    [plugin |-> p, version |-> v, engines |-> {1}, dependencies |-> dependencies,
     subscribers |-> subscribers, permissions |-> permissions]

\* Two versions of each plugin; mail may need seo, share a subscriber's id with it, or ask for too much.
MCBundles ==
    {MCBundle(seo, 1, <<>>, <<MCSubscriber("log", {"t"}, "events")>>, {"events"}),
     MCBundle(seo, 2, <<>>, <<MCSubscriber("log", {"t"}, "events"),
                              MCSubscriber("count", {"t", "u"}, "events")>>, {"events"}),
     MCBundle(mail, 1, seo :> {1, 2}, <<MCSubscriber("send", {"t"}, "events")>>, {"events"}),
     MCBundle(mail, 1, <<>>, <<MCSubscriber("log", {"t"}, "events")>>, {"events"}),
     MCBundle(mail, 2, <<>>, <<MCSubscriber("send", {"t"}, "actions")>>, {"events", "actions"})}

MCStep(action, type, resource) == [action |-> action, type |-> type, resource |-> resource]

\* A field written twice and a step without support; steps nothing restores; a handle, a body and an upload.
MCShopPlans ==
    {<<MCStep("update_title", "product", shoe), MCStep("update_description", "page", about),
       MCStep("update_title", "product", shoe)>>,
     <<MCStep("update_theme", "store", theme), MCStep("update_product", "product", shoe)>>,
     <<MCStep("update_url", "page", about), MCStep("update_body", "page", about),
       MCStep("add_image", "product", shoe)>>}
MCSnapshots == {Fields, {"handle", "files"}}
\* A field a plan writes of every resource, and one that none writes.
MCEditable == {<<shoe, "seo.title">>, <<shoe, "seo.description">>, <<about, "handle">>}
MCPayloadFields == [action \in {"update_product", "update_blog"} |-> {"seo.title", "descriptionHtml"}]

\* Years of two months; the second month of year 2 is a day longer.  Weeks have three days.
MCDate(y, m, d) == [year |-> y, month |-> m, date |-> d]
MCYear(y, last) == <<MCDate(y, 1, 1), MCDate(y, 1, 2), MCDate(y, 1, 3), MCDate(y, 2, 1)>>
                       \o [d \in 1 .. last - 1 |-> MCDate(y, 2, d + 1)]
MCCalendar == MCYear(1, 2) \o MCYear(2, 3) \o MCYear(3, 2) \o <<MCDate(4, 1, 1)>>
MCAfters == [day : {4, 11}, hour : 0 .. 1, minute : 0 .. 1, second : {0}]

MCWildcard(first, last) == [first |-> first, last |-> last, step |-> 1, wildcard |-> TRUE]
MCRange(first, last, step) == [first |-> first, last |-> last, step |-> step, wildcard |-> FALSE]
MCExpressions ==
    [second : {<<>>, <<MCRange(0, 0, 1)>>, <<MCWildcard(0, 1)>>},
     minute : {<<MCRange(0, 1, 2)>>, <<MCRange(1, 1, 1)>>},
     hour : {<<MCRange(0, 0, 1)>>, <<MCRange(1, 1, 1)>>},
     dom : {<<MCWildcard(1, 3)>>, <<MCRange(3, 3, 1)>>, <<MCRange(1, 3, 2)>>},
     month : {<<MCWildcard(1, 2)>>, <<MCRange(2, 2, 1)>>},
     dow : {<<MCWildcard(0, 3)>>, <<MCRange(3, 3, 1), MCRange(1, 1, 1)>>}]

\* One user logs in; an event of each kind is dispatched.
MCTenantOfUser == "ana" :> t1
MCHookEvents == <<"u", "v">>

MCPrepTask(id, action, type, resource, value, dependsOn, approved, rollback) ==
    [id |-> id, action |-> action, type |-> type, resource |-> resource, value |-> value,
     dependsOn |-> dependsOn, approved |-> approved, rollback |-> rollback]

\* A dry run; a chain out of order, one task of it not approved; a task the writer cannot do, and a second one
\* of its id; a cycle; a task whose effect the dry run would have had.
MCPrepRequests ==
    {[mode |-> "DRY_RUN", tasks |->
        <<MCPrepTask("a", "update_title", "product", "shoe", "new", <<>>, TRUE, "derived")>>],
     [mode |-> "PRODUCTION", tasks |->
        <<MCPrepTask("c", "update_title", "product", "hat", "new", <<"b">>, TRUE, "steps"),
          MCPrepTask("a", "update_title", "product", "shoe", "new", <<>>, TRUE, "derived"),
          MCPrepTask("b", "update_title", "product", "sock", "new", <<"a">>, FALSE, "derived")>>],
     [mode |-> "PRODUCTION", tasks |->
        <<MCPrepTask("d", "update_theme", "store", "shop", "new", <<>>, TRUE, "derived"),
          MCPrepTask("e", "update_robots", "page", "about", "new", <<"d">>, TRUE, "derived"),
          MCPrepTask("e", "update_robots", "page", "about", "old", <<"zz">>, TRUE, "unavailable")>>],
     [mode |-> "STAGING", tasks |->
        <<MCPrepTask("f", "update_title", "product", "shoe", "new", <<"g">>, TRUE, "null"),
          MCPrepTask("g", "update_title", "product", "shoe", "old", <<"f">>, TRUE, "null")>>],
     [mode |-> "STAGING", tasks |->
        <<MCPrepTask("g", "update_title", "product", "shoe", "old", <<>>, TRUE, "null")>>]}
MCCapability == [action \in {"update_title", "update_theme", "update_robots"} |->
    CASE action = "update_title" -> "product" [] action = "update_theme" -> "theme" [] OTHER -> "metafield"]

\* The shoe changes: a field becomes an object, another is added.
MCAtom(x) == [atom |-> x]
MCBodies == [resource \in {"shoe", "hat", "sock", "shop", "about"} |->
    IF resource # "shoe" THEN {[seo |-> MCAtom("x")]}
    ELSE {[seo |-> MCAtom("x")], [seo |-> [title |-> MCAtom("x")]],
          [seo |-> [title |-> MCAtom("y"), body |-> MCAtom("x")], handle |-> MCAtom("h")]}]

\* A public page, the landing page, one more, and a page without a route; each session may see one of them.
MCRoute(path, permission, isLanding) == [path |-> path, permission |-> permission, isLanding |-> isLanding]
MCWebRoutes == <<MCRoute("/login", "public", FALSE), MCRoute("/dashboard", "dashboard.read", TRUE),
                 MCRoute("/admin", "admin.read", FALSE)>>
MCGrantedTo == w1 :> {"dashboard.read"} @@ w2 :> {"admin.read"}

\* Answers that end well, by an error of the source and by an error event.
MCStreamEvents == <<<<"start", "delta", "tool", "start", "delta", "done">>, <<"start", "delta", "throw">>,
                    <<"start", "delta", "error">>>>

\* Products and an article; pages that redirect to each other; a collection, a blog and the store; an entity of an
\* unknown type; an input against the schema.
MCEntity(id, type, data) == [id |-> id, type |-> type, data |-> data]
MCAgentInput(entities, metrics, report, valid) ==
    [entities |-> entities, metrics |-> metrics, report |-> report, valid |-> valid]
MCAgentReport == {Finding("missing-title", "HIGH", FALSE, {shoe}, {shoe}), Finding("summary", "INFO", FALSE, {""}, {})}
MCAgentInputs ==
    {MCAgentInput(<<MCEntity(shoe, "product", [title |-> 5, images |-> {[alt |-> "", named |-> FALSE, sizeKb |-> 300]}]),
                    MCEntity(about, "product", [title |-> 5, metaTitle |-> 70, metaDescription |-> 170, body |-> 50,
                             structuredData |-> {"", "WebPage"}, orphan |-> TRUE, keywordIn |-> {"title"}]),
                    MCEntity(theme, "article", [body |-> 50, inLinks |-> 1, h1s |-> 2])>>,
                  {[url |-> shoe, ctr |-> 1], [url |-> about, clicks |-> 1, impressions |-> 70, position |-> 20]}, {}, TRUE),
     MCAgentInput(<<MCEntity(shoe, "page", [redirectTo |-> about, statusCode |-> 404, noindex |-> TRUE, brokenLinks |-> 1]),
                    MCEntity(about, "page", [redirectTo |-> shoe, canonical |-> shoe, metaTitle |-> 5, title |-> 5,
                             images |-> {[alt |-> "image", named |-> TRUE, sizeKb |-> 10]}, keywordIn |-> {}])>>,
                  {}, MCAgentReport, TRUE),
     MCAgentInput(<<MCEntity(shoe, "collection", [title |-> 5, body |-> 50, productsCount |-> 0]),
                    MCEntity(about, "blog", [title |-> 5, body |-> 350]), MCEntity(theme, "store", [title |-> 5])>>, {}, {}, TRUE),
     MCAgentInput(<<MCEntity(shoe, "customer", [title |-> 5])>>, {}, {}, TRUE),
     MCAgentInput(<<>>, {}, {}, FALSE)}
MCProposal(action, target) ==
    [findings |-> {Finding("custom", "HIGH", FALSE, {shoe}, {shoe})},
     proposals |-> {[action |-> action, type |-> "page", target |-> target]}]
MCCustomResults == {MCProposal("update_title", shoe), MCProposal("update_title", theme),
                    MCProposal("delete_page", shoe), MCProposal("update_url", shoe)}
MCAllAgents == {"metadata", "technical-seo", "content", "keyword", "internal-linking", "schema", "image-seo", "product",
             "collections", "blog", "page", "reporting", "analytics", "custom"}
MCAgentsOfCall == <<MCAllAgents>>

\* Three crawled pages with severe, minor and unmeasured issues; caps, overrides and weights of the engine.
MCIssue(rule, severity, value) == [rule |-> rule, severity |-> severity, value |-> value]
MCCrawledPage(url, type, issues, slow, blocks, invalid) ==
    [url |-> url, type |-> type, issues |-> issues, slow |-> slow, blocks |-> blocks, invalid |-> invalid]
MCIssueSets == {{}, {MCIssue("missing-title", "HIGH", TRUE), MCIssue("broken-link", "LOW", FALSE)},
                {MCIssue("missing-alt-text", "CRITICAL", FALSE), MCIssue("thin-content", "HIGH", FALSE),
                 MCIssue("large-html", "LOW", TRUE)}}
MCCrawls == {{MCCrawledPage("a", ta, ia, {}, 0, 0), MCCrawledPage("b", "product", ib, sb, 2, 1),
              MCCrawledPage("c", "homepage", ic, {"slow-ttfb"}, -1, 0)}
                : ta \in {"article", "page"}, ia \in MCIssueSets, ib \in MCIssueSets, ic \in MCIssueSets, sb \in {{}, Performance}}
\* The default weights, and weights with which the effort counts most.
MCWeights == {[impact |-> 50, confidence |-> 30, effort |-> 20], [impact |-> 20, confidence |-> 0, effort |-> 80]}
MCAuditConfigs ==
    {[off |-> o, impact |-> i, effort |-> e, minPages |-> limits[1], cap |-> limits[2], weights |-> w] :
        o \in {{}, {"thin-content"}}, i \in {<<>>, "thin-content" :> "LOW"}, e \in {<<>>, "broken-link" :> "HIGH"},
        limits \in {<<1, 5>>, <<3, 1>>}, w \in MCWeights}

\* Outcomes of a rule, with and without a stated confidence, at the bounds of the bins; one of no rule.
MCExecuted(execution, store, rule, status, confidence) ==
    [execution |-> execution, store |-> store, rule |-> rule, status |-> status, confidence |-> confidence]
MCExecutionRecords ==
    {MCExecuted(1, 1, "missing-title", "COMPLETED", 25), MCExecuted(1, 1, NoRule, "FAILED", Unlabelled),
     MCExecuted(2, 1, "missing-title", "COMPLETED", 100), MCExecuted(3, 2, "missing-title", "ROLLED_BACK", 0),
     MCExecuted(3, 2, NoRule, "EXECUTING", Unlabelled)}
MCFeedback(store, rule, rating) == [store |-> store, rule |-> rule, rating |-> rating]
MCFeedbackInputs == {MCFeedback(1, "missing-title", 1), MCFeedback(2, "missing-title", -1), MCFeedback(1, NoRule, 5)}
MCScoreInputs == {[rule |-> "missing-title", confidence |-> c, impact |-> 100, effort |-> 50, pages |-> 50, maxPages |-> 50] :
                     c \in {25, 26, 100}}
                  \cup {[rule |-> "thin-content", confidence |-> 50, impact |-> 0, effort |-> 0, pages |-> 0, maxPages |-> 50]}
MCLearningFilters == {[store |-> Whatever, rule |-> Whatever, since |-> 0, limit |-> 4],
                      [store |-> 1, rule |-> "missing-title", since |-> 2, limit |-> 1]}
MCHistories == {<<>>, "missing-title" :> [attempts |-> 2, successes |-> 1]}

\* A store of four pages: the home page, a product and an article that link to each other, a collection.
MCPage(url, type, links, schemas) ==
    [url |-> url, type |-> type, extracted |-> TRUE, links |-> links, external |-> {"partner"}, images |-> {"logo"},
     schemas |-> schemas]
MCProductPage == MCPage("shoe/", "product", {"about", "shoe", "none"}, <<[valid |-> TRUE, product |-> TRUE],
                                                                       [valid |-> FALSE, product |-> FALSE]>>)
MCPages == <<MCPage("home", "home", {"sale"}, <<>>), MCProductPage,
             MCPage("about", "article", {"shoe"}, <<[valid |-> TRUE, product |-> FALSE]>>),
             MCPage("sale", "collection", {"shoe", "home"}, <<>>),
             [url |-> "lost", type |-> "page", extracted |-> FALSE]>>
MCRec(id, rule, urls) == [id |-> id, rule |-> rule, urls |-> urls]
MCGraphInput ==
    [store |-> "s", crawl |-> "c", pages |-> MCPages,
     keywords |-> {[text |-> "boots", intent |-> "buy", targets |-> {"shoe", "sale"}],
                   [text |-> "hats", intent |-> "", targets |-> {}]},
     entities |-> {[type |-> "entity", name |-> "leather", pages |-> {"shoe", "sale"}],
                   [type |-> "entity", name |-> "brand", pages |-> {"shoe"}]},
     videos |-> {[url |-> "film", page |-> "about"]},
     recommendations |-> {MCRec("r1", "title", {"shoe", "gone"}), MCRec("r2", "title", {"shoe/"})},
     agentRuns |-> {[id |-> "run", recommendations |-> {"r1"}]}]
MCNoPages == [MCGraphInput EXCEPT !.pages = <<>>, !.keywords = {}, !.entities = {}, !.videos = {},
                                  !.recommendations = {}, !.agentRuns = {}]
\* An article may not target a keyword.
MCBadInput == [MCGraphInput EXCEPT !.keywords = {[text |-> "boots", intent |-> "buy", targets |-> {"about"}]}]
MCBuildInputs == {MCGraphInput, MCNoPages, MCBadInput}

MCShoe == <<"product", "shoe">>
MCHome == <<"page", "home">>
MCGraphChanges ==
    {[removeNodes |-> {<<"collection", "sale">>, <<"keyword", "none">>}, removeEdges |-> {},
      addNodes |-> {<<"keyword", "socks">>}, addEdges |-> {Edge("targets", MCHome, <<"keyword", "socks">>)}],
     [removeNodes |-> {}, removeEdges |-> {Edge("links_to", MCShoe, <<"article", "about">>)},
      addNodes |-> {MCShoe, MCHome}, addEdges |-> {Edge("links_to", MCHome, MCShoe)}],
     [removeNodes |-> {MCShoe}, removeEdges |-> {}, addNodes |-> {},
      addEdges |-> {Edge("links_to", MCHome, MCShoe)}]}
MCImportedGraphs == {BuildOf(MCNoPages, 0)}
MCNormalUrl == [url \in {"shoe/", "shoe", "about", "home", "sale", "none", "lost", "gone"} |->
    IF url = "shoe/" THEN "shoe" ELSE url]

MCEntry(kind, row) == [kind |-> kind, row |-> row]
MCExecution(id, day, status) == MCEntry("executions", [id |-> id, day |-> day, status |-> status, operation |-> "title"])
MCAlert(day, severity) == MCEntry("alerts", [day |-> day, severity |-> severity, type |-> "drop"])
MCChange(day, kind, execution) == MCEntry("changes", [day |-> day, kind |-> kind, execution |-> execution])
MCSnapshot(day, score) == MCEntry("snapshots", [day |-> day, score |-> score])

MCSpan(first, last, days) == [first |-> first, last |-> last, days |-> days]
MCReportRequests ==
    {[kind |-> "executive-dashboard", period |-> MCSpan(NoValue, NoValue, 0), compare |-> TRUE, previous |-> NoValue,
      keys |-> <<>>, track |-> TRUE],
     [kind |-> "alerts", period |-> MCSpan(NoValue, 2, 2), compare |-> TRUE, previous |-> NoValue,
      keys |-> <<"none", "alerts">>, track |-> FALSE],
     [kind |-> "seo", period |-> MCSpan(2, NoValue, 1), compare |-> FALSE, previous |-> [first |-> 2, last |-> 2],
      keys |-> <<>>, track |-> FALSE]}
MCDefinition(id, kind, minutes, enabled) ==
    [id |-> id, kind |-> kind, minutes |-> minutes, hours |-> {0, 1}, enabled |-> enabled]
\* An execution that is undone; one that is under way and fails on the next day; and two calls that overlap.
MCReportHistories ==
    {[log |-> <<MCChange(1, "apply", 1), MCExecution(1, 1, "COMPLETED"), MCSnapshot(1, 60),
                MCAlert(1, "critical"), MCChange(1, "revert", 1), MCExecution(1, 1, "ROLLED_BACK")>>,
      definitions |-> <<>>, late |-> {}, calls |-> 1],
     [log |-> <<MCSnapshot(1, 60), MCExecution(2, 1, "EXECUTING"), MCSnapshot(1, 70),
                MCAlert(2, "info"), MCExecution(2, 1, "FAILED")>>,
      definitions |-> <<MCDefinition("c", "kpi", {1}, TRUE)>>, late |-> {}, calls |-> 1],
     [log |-> <<>>, late |-> {MCDefinition("d", "seo", {1}, TRUE)}, calls |-> 2,
      definitions |-> <<MCDefinition("a", "kpi", {0, 1}, TRUE)>>]}
MCSearch(day, clicks, impressions, position) ==
    [day |-> day, clicks |-> clicks, impressions |-> impressions, position |-> position]
MCExternal == [learned |-> 5000, rules |-> 12, plans |-> 1, recommendations |-> 6,
               search |-> <<MCSearch(0, 1, 7, 3), MCSearch(1, 0, 0, 0), MCSearch(2, 2, 30, 5)>>,
               traffic |-> <<[day |-> 1, sessions |-> 4]>>]

MCChatRequest(tenant, conversation, role, words, shown, turns) ==
    [tenant |-> tenant, conversation |-> conversation, role |-> role, words |-> words, history |-> shown, turns |-> turns]
MCChatRequests == {MCChatRequest("t1", 1, "manager", {"plan", "actions"}, 2, 1), MCChatRequest("t1", 1, "viewer", {"crawl"}, 2, 0),
                   MCChatRequest("t1", NewConversation, "guest", {}, 9, 1), MCChatRequest("t2", 1, "viewer", {"plan"}, -1, 2)}
MCGrants == [guest |-> {}, viewer |-> {"tenant.read", "org.read"}, manager |-> {"tenant.read", "org.read", "org.manage"}]
MCWiredSources == {"recommendations", "observability"}
MCCall(id, tool, limit, which) == [id |-> id, tool |-> tool, limit |-> limit, which |-> which]
MCAnswers == {<<>>, <<MCCall(1, "generate_report", 0, 0), MCCall(2, "no_tool", 0, 0), MCCall(1, "suggest_safe_actions", 2, 0)>>}
MCObserved == [snapshots |-> <<[at |-> 2, score |-> 70], [at |-> 1, score |-> 60]>>, alerts |-> <<"critical", "info">>]
MCAdvice(score, priority, effort, impact) == [score |-> score, priority |-> priority, effort |-> effort, impact |-> impact]
MCAdviceOn == {<<MCAdvice(5, "high", "high", "high"), MCAdvice(3, "low", "low", "high"), MCAdvice(4, "low", "medium", "high"),
                 MCAdvice(6, "medium", "high", "low"), MCAdvice(3, "critical", "low", "high")>>}

\* Some of the channels, all of them and one, one twice.
MCStreamChannels == {<<"crawls", "alerts">>, <<"*", "crawls">>, <<"crawls", "crawls">>}

\* An owner, who may lose the role, and a member of another tenant.
MCMemberTenant == ann :> north @@ cy :> south
MCFirstRoles == ann :> "owner" @@ cy :> "member"
MCScopesAsked == {Unset, {"anything"}, {"apikeys.manage", "anything"}}
MCCustom(name, permissions) == [name |-> name, permissions |-> permissions]
MCCustomRoles == {MCCustom("auditor", {<<"audit", "read">>}), MCCustom("auditor", {<<"audit", "write">>}), MCCustom("owner", {})}

MCAgent(id, tasks, priority, provider) ==
    [id |-> id, tasks |-> tasks, priority |-> priority, health |-> "ok", provider |-> provider]
\* Two agents that share a task, and another definition of the first whose provider nobody configured.
MCDefinitions == {MCAgent(1, {"update_title"}, 1, "openai"), MCAgent(2, {"update_title", "create_page"}, 1, "openai"),
                  MCAgent(1, {"create_page"}, 0, "local")}
MCBatch(id, order, taskIds) == [id |-> id, order |-> order, taskIds |-> taskIds]
\* The batches out of order, with a task the plan does not have, and a batch of nothing else.
MCAgentPlans == {[store |-> "s", tasks |-> [title |-> "update_title", page |-> "create_page"],
                  batches |-> <<MCBatch("late", 2, <<"page">>), MCBatch("none", 1, <<"gone">>), MCBatch("first", 0, <<"gone", "title">>)>>]}
\* A list too long for its section and then for what the others leave; lists whose brackets alone pass the budget.
MCSources == {"recommendations" :> <<[score |-> 1, length |-> 20], [score |-> 2, length |-> 8]>>
                  @@ "seo-issues" :> <<9, 9, 9>> @@ "knowledge-graph" :> 12,
              "recommendations" :> <<[score |-> 1, length |-> 8]>> @@ "historical-outcomes" :> <<4, 4, 4>> @@ "configuration" :> 40}
\* Without schema and without a list of actions.
MCHandSteps == {[store |-> "s", task |-> "asked", agent |-> 2, action |-> None, schema |-> None, allowed |-> None]}
MCText(value) == [type |-> "string", value |-> value]
MCReply(fields) == [blank |-> FALSE, data |-> [type |-> "object", fields |-> fields]]
\* What was asked for; another action, too; no resource; nothing known; a list; no JSON.
MCReplies == {MCReply([action |-> MCText("update_title"), resourceId |-> MCText("shoe")]),
              MCReply([action |-> MCText("create_page"), resourceId |-> MCText("shoe"), changes |-> [type |-> "object", value |-> ""]]),
              MCReply([actionType |-> MCText("delete_page"), action |-> MCText("update_title"), resourceId |-> MCText("")]),
              MCReply([action |-> [type |-> "number", value |-> "1"], actionType |-> MCText("rewrite"), resourceId |-> MCText("shoe")]),
              [blank |-> FALSE, data |-> [type |-> "array", fields |-> <<>>]], [blank |-> TRUE, data |-> None]}

Init ==
    /\ part \in {"observed", "sync", "plans", "plugins", "shop", "cron", "accounts", "sessions",
                 "subscriptions", "webhooks", "preparation", "web", "link", "chat", "agents", "audit", "learning",
                 "graph", "reports", "copilot", "pushes", "keys", "log", "tasks", "answers"}
    /\ IF part = "cron" THEN TRUE
       ELSE after = (CHOOSE t \in Afters : TRUE) /\ cron = ParseCron(CHOOSE e \in Expressions : TRUE)
    /\ IF part = "observed" THEN TRUE ELSE lifecycle = CHOOSE l \in Lifecycles : TRUE
    /\ IF part = "plans" THEN TRUE ELSE settings = CHOOSE s \in PlanSettings : TRUE
    /\ IF part = "shop" THEN TRUE ELSE plan = CHOOSE p \in ShopPlans : TRUE
    /\ IF part = "web" THEN TRUE ELSE storage = NoWebSession
    /\ IF part = "reports" THEN TRUE ELSE history = CHOOSE h \in ReportHistories : h.log = <<>>
    /\ IF part = "audit" THEN TRUE
       ELSE crawl = (CHOOSE c \in Crawls : TRUE) /\ auditConfig = CHOOSE c \in AuditConfigs : TRUE
    /\ CronInit /\ ObsInit /\ PlansInit /\ ShopInit /\ SyncInit
    /\ sync[1].provider \in DatedProviders
    /\ part # "sync" => sync[2] = sync[1]
    /\ WebInit /\ AgentInit /\ AuditInit /\ LearningInit /\ GraphInit /\ ReportsInit /\ CopilotInit /\ RealtimeInit /\ AccessInit /\ TasksInit
    /\ part # "web" => router.path = LoginPath
    /\ part # "graph" => ~rowsById
    /\ PluginInit /\ AccountsInit /\ SessionsInit /\ BillingInit /\ PrepInit /\ LinkInit /\ ChatInit

\* The other components do nothing.
Alone(p) ==
    /\ p # "observed" => UNCHANGED obsVars
    /\ p # "sync" => UNCHANGED syncVars
    /\ p # "plans" => UNCHANGED planVars
    /\ p # "plugins" => UNCHANGED pluginVars
    /\ p # "shop" => UNCHANGED shopVars
    /\ p # "cron" => UNCHANGED cronVars
    /\ p # "accounts" => UNCHANGED accountVars
    /\ p # "sessions" => UNCHANGED sessionVars
    /\ p \notin {"subscriptions", "webhooks"} => UNCHANGED billVars
    /\ p # "preparation" => UNCHANGED prepVars
    /\ p # "web" => UNCHANGED webVars
    /\ p # "link" => UNCHANGED linkVars
    /\ p # "chat" => UNCHANGED chat
    /\ p # "agents" => UNCHANGED agentVars
    /\ p # "audit" => UNCHANGED auditVars
    /\ p # "learning" => UNCHANGED learnVars
    /\ p # "graph" => UNCHANGED graphVars
    /\ p # "reports" => UNCHANGED reportVars
    /\ p # "copilot" => UNCHANGED copilotVars
    /\ p # "pushes" => UNCHANGED realtimeVars
    /\ p \notin {"keys", "log"} => UNCHANGED accessVars
    /\ p \notin {"tasks", "answers"} => UNCHANGED taskVars

Next ==
    /\ UNCHANGED part /\ Alone(part)
    /\ \/ part = "observed" /\ ObsNext
       \/ part = "sync" /\ SyncNext
       \/ part = "plans" /\ PlansNext
       \/ part = "plugins" /\ PluginNext
       \/ part = "shop" /\ ShopNext
       \/ part = "cron" /\ CronNext
       \/ part = "accounts" /\ AccountsNext
       \/ part = "sessions" /\ SessionsNext
       \/ part = "subscriptions" /\ SubscriptionsNext
       \/ part = "webhooks" /\ WebhooksNext
       \/ part = "preparation" /\ PrepNext
       \/ part = "web" /\ WebNext
       \/ part = "link" /\ LinkNext
       \/ part = "chat" /\ ChatNext
       \/ part = "agents" /\ AgentNext
       \/ part = "audit" /\ AuditNext
       \/ part = "learning" /\ LearningNext
       \/ part = "graph" /\ GraphNext
       \/ part = "reports" /\ ReportsNext
       \/ part = "copilot" /\ CopilotNext
       \/ part = "pushes" /\ RealtimeNext
       \/ part = "keys" /\ KeysNext
       \/ part = "log" /\ LogNext
       \/ part = "tasks" /\ PlannedNext
       \/ part = "answers" /\ DirectNext

Spec == Init /\ [][Next]_vars

\* The variables of the component that runs have their types; the others keep an initial value.
ServicesTypeOK ==
    /\ part = "observed" => BusTypeOK /\ ObsTypeOK
    /\ part = "sync" => SyncTypeOK
    /\ part = "plans" => PlansTypeOK
    /\ part = "plugins" => PluginTypeOK
    /\ part = "shop" => ShopTypeOK
    /\ part = "cron" => CronTypeOK
    /\ part = "accounts" => AccountsTypeOK
    /\ part = "sessions" => SessionsTypeOK
    /\ part \in {"subscriptions", "webhooks"} => BillingTypeOK
    /\ part = "preparation" => PrepTypeOK
    /\ part = "web" => WebTypeOK
    /\ part \in {"link", "chat"} => UpdatesTypeOK
    /\ part = "agents" => AgentTypeOK
    /\ part = "audit" => AuditTypeOK
    /\ part = "learning" => LearningTypeOK
    /\ part = "graph" => GraphTypeOK
    /\ part = "reports" => ReportTypeOK
    /\ part = "copilot" => CopilotTypeOK
    /\ part = "pushes" => RealtimeTypeOK
    /\ part \in {"keys", "log"} => AccessTypeOK
    /\ part \in {"tasks", "answers"} => TasksTypeOK

\* What a user is shown: the events of a channel arrive in order and none is missing, they tell what was recorded, an
\* answer is neither mixed nor repeated, and a copilot's chat keeps its account.
ConversationsAgree ==
    /\ part \in {"link", "chat"} => UpdatesConsistent
    /\ part = "copilot" => ChatsKeepAccount
    /\ part = "pushes" => StreamsAreWhole /\ PushesAreTrue

\* What an execution does to a shop was prepared, what it undoes is as it was before, and what agents propose for
\* it is what the plan decided.
WritesAreSound ==
    /\ part = "preparation" => WritesArePrepared
    /\ part = "shop" => RestoredMeansBefore
    /\ part \in {"tasks", "answers"} => AgentsStayInPlan
=============================================================================
