CONSTANTS
    w1 = w1
    w2 = w2
    NoSession = NoSession
    Sessions = {w1}
    Capacity <- OneSlot
    WorkerType <- BunWorkers
    TaskNames <- Names
    TaskSpecs <- TwoTries
    Keys = {k1, k2}
    Fingerprints = {f1, f2}
    Lease = 1
    Backoff <- PowerBackoff
    MaxLag = 0
    MaxActive = 2
    MaxTerminal = 1
    MaxId = 3
    MaxGeneration = 2
    MaxClock = 2
CHECK_DEADLOCK FALSE
SPECIFICATION Spec
INVARIANTS
    SafetyInv
    IdempotentAcks
PROPERTIES
    RetentionKeepsNewest
SYMMETRY Symmetry
