CONSTANTS
    Jobs = {1, 2}
    MaxBytes = 1
    MaxWrites <- SomeWrites
    MaxChanges = 1
    Scopes = {"p.build", "p.other", "p.*"}
    Wildcards = {"p.*"}
    Covered <- AllOfP
    Registry = {}
    RegistryFiles <- SomeRegistries
    ScopeOf <- CommandScopes
    Programs <- SomePrograms
    Grants <- SomeGrants
    NoGrant = NoGrant
    Commands = {"build", "other"}
    Discoveries <- SomeDiscoveries
    Resolutions <- SomeResolutions
    Peers <- SomePeers
    Replies <- SomeReplies
CHECK_DEADLOCK FALSE
SPECIFICATION HelperFairSpec
INVARIANTS
    StoppedGroupDead
    AnswerComplete
    AbortHeeded
    RunsAsRegistered
    DocumentVetted
    FallbackTried
PROPERTIES
    Answered
