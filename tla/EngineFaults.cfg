SPECIFICATION Spec
CONSTANTS
    e1 = e1
    e2 = e2
    e3 = e3
    s1 = s1
    s2 = s2
    NoExec = NoExec
    NoOwner = NoOwner
    Everywhere = Everywhere
    Stores = {s1}
    Execs = {e1}
    Flows = {f1, f2}
    f1 = f1
    f2 = f2
    Requests <- EveryPlan
    RequireApproval = TRUE
    AutoRollback = TRUE
    Provider = TRUE
    Faults = {"validation", "write", "response", "timeout", "saveDiff", "saveMetrics", "restore", "started", "sink"}
    MaxResumes = 2
    MaxStops = 1
INVARIANT RolledBackMeansUndone
INVARIANT CompletedMeansWritten
CHECK_DEADLOCK FALSE
