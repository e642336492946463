SPECIFICATION Spec
CONSTANTS
    Events = {1, 2, 3}
    Pollers = {1}
    Subscribers <- MCSubscribers
    BatchSize = 2
    MaxAttempts = 2
    MaxBusFaults = 1
    NotRead = NotRead
    Lifecycles <- MCLifecycles
    Syncs = {1, 2}
    SyncProviders = {"search-console", "pagespeed"}
    DatedProviders = {"search-console"}
    AuthProviders = {"search-console"}
    FirstRunWindow = 1
    HttpRetries = 1
    Days = {1, 2, 3}
    FirstDay = 2
    StartDates = {2}
    MaxSyncFaults = 1
    shoe = shoe
    about = about
    theme = theme
    Recommendations = {1, 2, 3}
    Rule <- MCRule
    Score <- MCScore
    AffectedUrls <- MCAffectedUrls
    RuleAction <- MCRuleAction
    Incompatible <- MCIncompatible
    ExclusiveRules <- MCExclusiveRules
    Prerequisites <- MCPrerequisites
    TaskId <- MCTaskId
    PlanSettings <- MCPlanSettings
    PlanWorkers = {1, 2}
    MaxPlanCalls = 3
    MaxVersion = 2
    MaxPlanFaults = 1
    seo = seo
    mail = mail
    Plugins = {seo, mail}
    Bundles <- MCBundles
    SubscriberIds = {"log", "count", "send"}
    EventTypes = {"t", "u"}
    PluginEvents = {1}
    Permissions = {"events", "actions"}
    AllowedPermissions = {"events"}
    SdkVersion = 1
    Resources = {shoe, about, theme}
    ShopPlans <- MCShopPlans
    Snapshots <- MCSnapshots
    PayloadFields <- MCPayloadFields
    ShopRetries = 1
    Editable <- MCEditable
    MaxEdits = 1
    NoSnapshot = NoSnapshot
    Expressions <- MCExpressions
    Calendar <- MCCalendar
    LastHour = 1
    LastMinute = 1
    LastSecond = 1
    WeekDays = 3
    SearchYears = 1
    Afters <- MCAfters
    NoDate = NoDate
    t1 = t1
    Tenants = {t1, t2}
    OrgIds = {1, 2}
    TeamIds = {1}
    UserIds = {1, 2}
    MemberRoles = {"owner", "viewer"}
    Emails = {"ana@example.com"}
    AccountCalls = {1, 2}
    MaxOrgOps = 3
    NoAccount = NoAccount
    SessionTenants = {t1}
    TenantOfUser <- MCTenantOfUser
    SessionIds = {1, 2, 3}
    SessionCalls = {1, 2}
    AccessTtl = 1
    RefreshTtl = 2
    Window = 1
    MaxHits = 1
    LastTick = 2
    BillTenants = {t1}
    PlanIds = {"free", "pro"}
    BillCalls = {1, 2}
    MaxBillOps = 4
    Endpoints = {1, 2}
    HookTypes = {"u", "v"}
    HookEvents <- MCHookEvents
    DeliveryAttempts = 2
    MaxPatches = 1
    NoSubscription = NoSubscription
    PrepRequests <- MCPrepRequests
    ApprovalRequired = TRUE
    MaxBatchSize = 2
    Capability <- MCCapability
    WriterCan = {"product", "theme"}
    Bodies <- MCBodies
    UnreadBody = UnreadBody
    Executions = {1, 2}
    w1 = w1
    w2 = w2
    WebSessions = {w1, w2}
    GrantedTo <- MCGrantedTo
    NoWebSession = NoWebSession
    WebRoutes <- MCWebRoutes
    Public = "public"
    WebPaths = {"/login", "/dashboard", "/admin", "/notifications"}
    WebCalls = {1, 2}
    MaxHistory = 1
    MaxReconnects = 1
    Notes = {1, 2}
    InboxCalls = {1}
    ToastIds = {1}
    Streams = {1, 2, 3}
    StreamEvents <- MCStreamEvents
    MaxResets = 1
    AgentCalls = {1}
    AgentsOfCall <- MCAgentsOfCall
    AgentInputs <- MCAgentInputs
    CustomResults <- MCCustomResults
    Installable = {"custom"}
    Crawls <- MCCrawls
    AuditConfigs <- MCAuditConfigs
    NoRecommendations = NoRecommendations
    Ingests = {1, 2}
    ExecutionRecords <- MCExecutionRecords
    FeedbackInputs <- MCFeedbackInputs
    ScoreInputs <- MCScoreInputs
    LearningFilters <- MCLearningFilters
    Whatever = Whatever
    NoRule = NoRule
    Unlabelled = Unlabelled
    NoOutcome = NoOutcome
    MinSamples = 2
    Whole = 300
    MaxOutcomes = 3
    MaxFeedback = 1
    MaxLearningOps = 1
    Histories <- MCHistories
    NormalUrl <- MCNormalUrl
    Origin = "home"
    HomeUrls = {"home"}
    NoNode = NoNode
    GraphCalls = {1, 2}
    BuildInputs <- MCBuildInputs
    GraphChanges <- MCGraphChanges
    ImportedGraphs <- MCImportedGraphs
    MaxImports = 1
    NoCall = NoCall
    NoValue = NoValue
    PageHeight = 842
    PageMargin = 40
    ReportCallers = {1, 2}
    ReportHistories <- MCReportHistories
    ReportRequests <- MCReportRequests
    External <- MCExternal
    MinutesPerHour = 2
    LastReportTime = 1
    Idle = Idle
    ChatRequests <- MCChatRequests
    ChatTenants = {"t1", "t2"}
    Conversations = {1, 2}
    NewConversation = NewConversation
    NoChat = NoChat
    Grants <- MCGrants
    WiredSources <- MCWiredSources
    Answers <- MCAnswers
    AdviceOn <- MCAdviceOn
    Observed <- MCObserved
    MaxChats = 2
    MaxDeletions = 1
    CrawlCalls = {1}
    HealthChecks = {1, 2}
    PushStreams = {1}
    StreamChannels <- MCStreamChannels
    PublishChannels = {"alerts", "crawls"}
    HistoryLimit = 1
    MaxPublished = 1
    MaxPlatformResets = 1
    ann = ann
    cy = cy
    north = north
    south = south
    AccessRequests = {1, 2}
    MemberTenant <- MCMemberTenant
    FirstRoles <- MCFirstRoles
    RolesGiven = {"viewer"}
    ScopesAsked <- MCScopesAsked
    ExpiryAsked = {0, 1}
    CustomRoles <- MCCustomRoles
    LimitsAsked = {0, 2}
    MaxQueryLimit = 2
    RetentionDays = 1
    NoAccess = NoAccess
    Unset = Unset
    MaxKeys = 2
    MaxEntries = 4
    LastDay = 2
    Definitions <- MCDefinitions
    Overwrites = FALSE
    Healths = {"ok", "down"}
    Configured = {"openai"}
    AgentPlans <- MCAgentPlans
    Overrides = {None, 2}
    BatchWidths = {None}
    Sources <- MCSources
    TaskLength = 6
    HandSteps <- MCHandSteps
    Replies <- MCReplies
    MaxTokens = 18
    MaxSectionTokens = 8
    TaskCalls = {1, 2}
    None = None
    LastInstant = 1
INVARIANT ServicesTypeOK
INVARIANT ProjectionConverges
INVARIANT NoDayLost
INVARIANT PlansAreHonoured
INVARIANT EachSubscriberOnce
INVARIANT NextAfterIsNext
INVARIANT TenantsAreServed
INVARIANT WritesAreSound
PROPERTY SignedInMeansSaved
INVARIANT ConversationsAgree
INVARIANT AgentsKeepContract
INVARIANT SevereIssuesSurface
PROPERTY EvidenceCounts
PROPERTY SnapshotsAreSound
INVARIANT ReportsAgree
CHECK_DEADLOCK FALSE
