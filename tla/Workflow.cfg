CONSTANTS
    Workers = {w1, w2}
    NoWorker = NoWorker
    Steps = {1, 2, 3}
    DependsOn <- JoinDependsOn
    Refs <- JoinRefs
    Outputs = {3}
    Values = {x, y}
    NoValue = NoValue
    NoResult = NoResult
    MaxRetries = 2
    MaxEpoch = 2
    MaxChild = 3
    MaxInFlight = 2
SYMMETRY Symmetric
CHECK_DEADLOCK FALSE
SPECIFICATION RunSpec
INVARIANTS
    OneChildPerStep
    InputsDurable
    ReplayAgrees
    ResultTrue

PROPERTIES
    LostRunStops
    QueueContract
