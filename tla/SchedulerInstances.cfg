SPECIFICATION Spec
CONSTANTS
    i1 = i1
    i2 = i2
    f1 = f1
    f2 = f2
    f3 = f3
    c1 = c1
    NoJob = NoJob
    NoOwner = NoOwner
    Keep = Keep
    Flows = {f1, f2}
    Instances = {i1, i2}
    Owner <- OnePerInstance
    Jobs = {1}
    LockTtl = 2
    QueueLimit = 2
    MaxBackoff = 2
    Inputs <- MixedTimed
    Patches <- NoPatches
    Operations = {"schedule"}
    MaxClock = 3
    MaxOps = 1
    MaxFaults = 1
    Clients = {}
INVARIANT TypeOK
INVARIANT LeaseExclusion
INVARIANT AttemptBudget
INVARIANT RunningMeansInFlight
PROPERTY MutexSpec
PROPERTY TerminalRunsImmutable
CHECK_DEADLOCK FALSE
