SPECIFICATION OAuthSpec
CONSTANTS
    Scopes <- ScopesDef
    Wildcards <- WildcardsDef
    Covered <- CoveredDef
    Registry <- RegistryDef
    S256 <- S256Def
    StaticPolicies <- StaticDef
    Published <- PublishedDef
    CimdScopes = {"read"}
    McpResource = "mcp"
    Requests <- RequestsDef
    BoundedRequests <- BoundedDef
    Undeliverable = {"web/cb?code"}
    Params <- ParamsDef
    PendingTtl = 1
    CodeTtl = 2
    TokenTtl = 3
    MaxEntries = 2
    MaxId = 3
    MaxClock = 3
INVARIANTS OperatorConsent SingleUse GrantExact ShortLived BindingsAgree
PROPERTY ConsentKept
