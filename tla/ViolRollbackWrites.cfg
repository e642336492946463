SPECIFICATION FairSpec
CONSTANTS
    e1 = e1
    e2 = e2
    e3 = e3
    s1 = s1
    s2 = s2
    NoExec = NoExec
    NoOwner = NoOwner
    Everywhere = Everywhere
    Stores = {s1}
    Execs = {e1}
    Flows = {f1}
    f1 = f1
    f2 = f2
    Requests <- Actions
    RequireApproval = TRUE
    AutoRollback = TRUE
    Provider = TRUE
    Faults = {"write"}
    MaxResumes = 0
    MaxStops = 0
INVARIANT RollbackIsComplete
CHECK_DEADLOCK FALSE
