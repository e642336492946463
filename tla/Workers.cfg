SPECIFICATION Spec
CONSTANTS
    Entries = {1, 2}
    QueueInput <- MCQueueInput
    Priorities = {0}
    Drains = {1, 2}
    Concurrency = 1
    PolicyMax = 2
    MaxQueueOps = 1
    NoEntry = NoEntry
    Events = {1, 2}
    Pollers = {1, 2}
    Subscribers <- MCSubscribers
    BatchSize = 2
    MaxAttempts = 2
    MaxBusFaults = 1
    gather = gather
    draft = draft
    both = both
    check = check
    Steps = {gather, draft, both, check}
    Root = Root
    Kind <- MCKind
    Body <- MCBody
    WhenFalse <- MCWhenFalse
    DependsOn <- MCDependsOn
    Width <- MCWidth
    MaxTries <- MCMaxTries
    Runs = {1, 2}
    Starter = 1
    MaxRunFaults = 1
    Items = {1, 2, 3}
    ItemPriority <- MCItemPriority
    DrainSlots = {1, 2}
    IdleCallers = {1}
    NoItem = NoItem
    home = home
    list = list
    item = item
    post = post
    Urls = {home, list, item, post}
    SeedLists <- MCSeedLists
    PageLinks <- MCPageLinks
    TypePriority <- MCTypePriority
    Disallowed = {item}
    Crawlers = {1, 2, 3}
    MaxPages = 4
    QueueMaxSize = 2
    MaxDepth = 2
    MaxRetries = 1
    MaxStoreFaults = 1
INVARIANT WorkersTypeOK
INVARIANT ClaimsAreKept
INVARIANT DoneWasHandled
INVARIANT StepsAreHonoured
INVARIANT NothingStranded
INVARIANT CompletedCrawlIsWhole
PROPERTY EverythingEnds
CHECK_DEADLOCK FALSE
