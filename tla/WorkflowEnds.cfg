CONSTANTS
    Workers = {w1, w2}
    NoWorker = NoWorker
    Steps = {1}
    DependsOn <- NoneOf
    Refs <- NoneOf
    Outputs = {1}
    Values = {x}
    NoValue = NoValue
    NoResult = NoResult
    MaxRetries = 2
    MaxEpoch = 3
    MaxChild = 1
    MaxInFlight = 2
CHECK_DEADLOCK FALSE
SPECIFICATION BodyFairSpec
PROPERTIES
    WorkflowEnds
