CONSTANTS
    Scopes <- WithWildcard
    Wildcards = {"*"}
    Covered <- Everything
    Registry <- SomeRegistry
    Rate = 1
    Burst = 1
    TicksPerSecond = 2
    Requests = {1, 2, 3}
    Plans <- SomePlans
    Policies <- SomePolicies
    RootGrant <- Root
    NoAuth = NoAuth
    OtherSessions <- SomeSessions
    MinTtl = 1
    MaxTtl = 2
    Skew = 1
    Snapshots <- SomeSnapshots
    MaxActive = 1
    MaxClock = 3
CHECK_DEADLOCK FALSE
SPECIFICATION GatewayFairSpec
INVARIANTS
    ListedCallable
    EffectsAuthorized
    AcceptedTrue
    AdmissionHonest
PROPERTIES
    GatewayAnswers
