SPECIFICATION FairSpec
CONSTANTS
    i1 = i1
    i2 = i2
    f1 = f1
    f2 = f2
    f3 = f3
    c1 = c1
    NoJob = NoJob
    NoOwner = NoOwner
    Keep = Keep
    Flows = {f1}
    Instances = {i1}
    Owner <- Alone
    Jobs = {1, 2}
    LockTtl = 5
    QueueLimit = 1
    MaxBackoff = 2
    Inputs <- MixedTimed
    Patches <- NoPatches
    Operations = {"schedule"}
    MaxClock = 3
    MaxOps = 2
    MaxFaults = 1
    Clients = {}
INVARIANT OneShotWorkIsBounded
PROPERTY DueIsServed
PROPERTY OneShotSettles
CHECK_DEADLOCK FALSE
