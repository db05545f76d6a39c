-------------------------- MODULE CapabilityGrants --------------------------
(***************************************************************************)
(* Capabilities and grants of the gateway (capabilities.ts,                *)
(* oauth-scope-grant.ts): what a descriptor of the registry requires, what *)
(* a grant allows, and the grant the OAuth token endpoint derives from the *)
(* scopes an operator approved.  All of it is pure.                        *)
(***************************************************************************)
EXTENDS Integers, FiniteSetsExt

CONSTANTS
    Scopes,     \* scope names, wildcards among them
    Wildcards,  \* "*" and the scopes that end with ".*"
    Covered,    \* [Wildcards -> SUBSET Scopes], what each wildcard stands for
    Registry    \* capability descriptors [required, minDepth, minAuthority]

\* The two descriptors of the registry that require no scope ask for the least
\* depth and authority.
ASSUME RegistryAssumption ==
    /\ Wildcards \subseteq Scopes
    /\ Covered \in [Wildcards -> SUBSET Scopes]
    /\ \A d \in Registry :
          /\ d.required \subseteq Scopes
          /\ d.minDepth \in 0..6
          /\ d.minAuthority \in 0..4
          /\ d.required = {} => d.minDepth = 0 /\ d.minAuthority = 0

Grant == [depth : 0..6, authority : 0..4, scopes : SUBSET Scopes]

\* scopeMatches, for one granted scope.
Matches(scope) == {scope} \cup (IF scope \in Wildcards THEN Covered[scope] ELSE {})

HasRequiredScopes(granted, required) == required \subseteq UNION {Matches(s) : s \in granted}

\* evaluateCapabilityGrant(...).allowed
Allowed(grant, d) ==
    /\ grant.depth >= d.minDepth
    /\ grant.authority >= d.minAuthority
    /\ HasRequiredScopes(grant.scopes, d.required)

\* The descriptors that mention one of the scopes.
Mentioning(scopes) == {d \in Registry : d.required \cap scopes # {}}

\* deriveOAuthCapabilityGrant(...).ok: no wildcard, no scope of no descriptor.
Derivable(scopes) ==
    /\ scopes # {}
    /\ scopes \cap Wildcards = {}
    /\ \A s \in scopes : Mentioning({s}) # {}

\* Mutant: the last matching descriptor sets the level, not the highest one.
DerivedGrantLeast(scopes) ==
    [depth     |-> Min({d.minDepth : d \in Mentioning(scopes)}),
     authority |-> Min({d.minAuthority : d \in Mentioning(scopes)}),
     scopes    |-> scopes]

\* deriveOAuthCapabilityGrant(...).grant: the highest depth and authority any
\* of those descriptors asks for, starting from DISCOVER and OBSERVE.
DerivedGrant(scopes) ==
    [depth     |-> Max({0} \cup {d.minDepth : d \in Mentioning(scopes)}),
     authority |-> Max({0} \cup {d.minAuthority : d \in Mentioning(scopes)}),
     scopes    |-> scopes]
=============================================================================
