SPECIFICATION FairSpec
CONSTANTS
    e1 = e1
    e2 = e2
    e3 = e3
    s1 = s1
    s2 = s2
    NoExec = NoExec
    NoOwner = NoOwner
    Everywhere = Everywhere
    Stores = {s1}
    Execs = {e1, e2, e3}
    Flows = {f1, f2}
    f1 = f1
    f2 = f2
    Requests <- Contenders
    RequireApproval = TRUE
    AutoRollback = TRUE
    Provider = TRUE
    Faults = {"validation", "timeout"}
    MaxResumes = 1
    MaxStops = 0
INVARIANT TypeOK
INVARIANT StoreExclusion
INVARIANT LockHeldByRun
PROPERTY CancelledNeverWritten
INVARIANT NotAllRejected
PROPERTY LocksAreReleased
CHECK_DEADLOCK FALSE
