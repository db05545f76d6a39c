CONSTANTS
    w1 = w1
    w2 = w2
    NoSession = NoSession
    Sessions = {w1, w2}
    Capacity <- MoreSlots
    WorkerType <- BunWorkers
    TaskNames <- Names
    TaskSpecs <- TwoTries
    Keys = {}
    Fingerprints = {}
    Lease = 1
    Backoff <- PowerBackoff
    MaxLag = 1
    MaxActive = 2
    MaxTerminal = 1
    MaxId = 2
    MaxGeneration = 2
    MaxClock = 3
CHECK_DEADLOCK FALSE
SPECIFICATION Spec
INVARIANTS
    LeaseExclusive
    CapacityRespected
PROPERTIES
    ImplementsLifecycle
    LiveLeaseKept
