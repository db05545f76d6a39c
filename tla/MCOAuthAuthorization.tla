------------------------ MODULE MCOAuthAuthorization ------------------------
(* Small instances of OAuthAuthorization.  "read" is needed by two           *)
(* capabilities of different levels, "submit" by one that needs both; "all"  *)
(* is a wildcard.                                                            *)
EXTENDS OAuthAuthorization

ScopesDef    == {"read", "submit", "all"}
WildcardsDef == {"all"}
CoveredDef   == [w \in WildcardsDef |-> ScopesDef]
RegistryDef  ==
    {[required |-> {}, minDepth |-> 0, minAuthority |-> 0],
     [required |-> {"read"}, minDepth |-> 1, minAuthority |-> 0],
     [required |-> {"read", "submit"}, minDepth |-> 3, minAuthority |-> 1]}

S256Def == [v \in {"v1", "v2"} |-> IF v = "v1" THEN "c1" ELSE "c2"]

Req(client, redirect, scopes, challenge) ==
    [client |-> client, redirect |-> redirect, resource |-> "mcp",
     scopes |-> scopes, challenge |-> challenge]

Present(client, redirect, verifier) ==
    [client |-> client, redirect |-> redirect, resource |-> "mcp", verifier |-> verifier]

\* The pre-registered client may have what maps to authority: no wildcard, or
\* the server does not start.
StaticDef ==
    {[client |-> "app", redirect |-> "app/cb", resource |-> "mcp", scopes |-> {"read", "submit"}]}

\* One of the redirect URIs in the other client's document cannot be answered.
PublishedDef ==
    {[client |-> "web", redirect |-> "web/cb"], [client |-> "web", redirect |-> "web/cb?code"]}

\* Requests of the pre-registered client, for all its scopes, for one and for a
\* wildcard it does not have, and of the other client: one to be answered, one
\* that cannot be, one that asks for more than such clients get, and one that is
\* too long.
RequestsDef ==
    {Req("app", "app/cb", {"read", "submit"}, "c1"),
     Req("app", "app/cb", {"submit"}, "c1"),
     Req("app", "app/cb", {"all"}, "c1"),
     Req("web", "web/cb", {"read"}, "c2"),
     Req("web", "web/cb?code", {"read"}, "c2"),
     Req("web", "web/cb", {"read", "submit"}, "c2"),
     Req("web", "web/cb", {"read"}, "c1")}

BoundedDef == RequestsDef \ {Req("web", "web/cb", {"read"}, "c1")}

ParamsDef == {Present("app", "app/cb", "v1"), Present("web", "web/cb", "v2")}
=============================================================================
