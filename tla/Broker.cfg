CONSTANTS
    a1 = a1
    a2 = a2
    b1 = b1
    NoSession = NoSession
    NoGrant = NoGrant
    Sessions = {a1, a2, b1}
    WorkerOf <- Workers
    Capacity <- OneSlot
    WorkerType <- BunWorkers
    TaskNames <- Names
    TaskSpecs <- OneRequest
    Keys = {}
    Fingerprints = {}
    Lease = 1
    Ttl = 1
    Backoff <- PowerBackoff
    MaxLag = 0
    MaxActive = 1
    MaxTerminal = 2
    MaxId = 1
    MaxGeneration = 2
    MaxClock = 2
    MaxInFlight = 1
CHECK_DEADLOCK FALSE
SPECIFICATION BrokerFairSpec

PROPERTIES
    LeaseEnds
    BrokerImplementsQueue
