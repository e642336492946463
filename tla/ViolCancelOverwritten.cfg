SPECIFICATION Spec
CONSTANTS
    i1 = i1
    i2 = i2
    f1 = f1
    f2 = f2
    f3 = f3
    c1 = c1
    NoJob = NoJob
    NoOwner = NoOwner
    Keep = Keep
    Flows = {f1}
    Instances = {i1}
    Owner <- Alone
    Jobs = {1}
    LockTtl = 5
    QueueLimit = 2
    MaxBackoff = 2
    Inputs <- OneShot
    Patches <- NoPatches
    Operations = {"schedule", "cancel"}
    MaxClock = 1
    MaxOps = 2
    MaxFaults = 0
    Clients = {c1}
PROPERTY CancelledStaysCancelled
CHECK_DEADLOCK FALSE
