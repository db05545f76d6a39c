CONSTANTS
    w1 = w1
    a1 = a1
    a2 = a2
    NoSession = NoSession
    Sessions = {w1}
    Agents = {a1, a2}
    AgentTaskNames = {"agent.invoke"}
    AgentLease = 1
    Capacity <- OneSlot
    WorkerType <- BunWorkers
    TaskNames <- Names
    TaskSpecs <- ForFirst
    Keys = {}
    Fingerprints = {}
    Lease = 1
    Backoff <- PowerBackoff
    MaxLag = 0
    MaxActive = 1
    MaxTerminal = 1
    MaxId = 1
    MaxGeneration = 2
    MaxClock = 3
CHECK_DEADLOCK FALSE
SPECIFICATION AgentSpec
PROPERTIES
    ReportByOwner
