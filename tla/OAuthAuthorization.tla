------------------------- MODULE OAuthAuthorization -------------------------
(***************************************************************************)
(* The gateway's OAuth authorization-code flow: the store of pending       *)
(* consents, the operator's decisions, the store of authorization codes    *)
(* and the token endpoint.  Handlers of the single-threaded gateway        *)
(* interleave at their awaits.  Only the token endpoint keeps something    *)
(* across an await (the code it consumed), so every other handler is one   *)
(* action; the client metadata that /oauth/authorize awaits depends on no  *)
(* state of the gateway.  The two stores live in memory and purge expired  *)
(* entries whenever they are used.  Access tokens are signed, not stored.  *)
(***************************************************************************)
EXTENDS CapabilityGrants, Functions

CONSTANTS
    Requests,       \* authorization requests [client, redirect, resource, scopes, challenge]
    BoundedRequests,\* those that pass requestIsBounded (lengths, https URIs)
    Undeliverable,  \* redirect URIs that contain a reserved response parameter
    Params,         \* token requests [client, redirect, resource, verifier]
    S256,           \* [verifiers -> challenges], the PKCE digest
    StaticPolicies, \* the policy of the pre-registered client: one, or none
    Published,      \* [client, redirect] pairs of the clients' metadata documents
    CimdScopes,     \* CIMD_DYNAMIC_SCOPES
    McpResource,    \* publicOrigin/mcp
    PendingTtl, CodeTtl, TokenTtl,
    MaxEntries,     \* entries in either store
    MaxId,          \* bound on request ids and codes drawn
    MaxClock        \* bound on the model's clock

\* loadOAuthPublicClientPolicy configures the MCP resource, and the server does
\* not start with scopes that map to no capability authority; the gateway's
\* clock values and bounds are positive; the one dynamic scope is
\* capability.read.
ASSUME OAuthAssumption ==
    /\ BoundedRequests \subseteq Requests
    /\ \A p \in StaticPolicies : p.resource = McpResource /\ Derivable(p.scopes)
    /\ \A p, q \in StaticPolicies : p = q
    /\ \E s \in CimdScopes : CimdScopes = {s}
    /\ {PendingTtl, CodeTtl, TokenTtl, MaxEntries} \subseteq Nat \ {0}
    /\ {MaxId, MaxClock} \subseteq Nat

VARIABLES
    pending,    \* PendingOAuthConsentStore: request id -> [request, status, expires]
    codes,      \* OAuthAuthorizationCodeStore: code -> [request, expires, consent]
    redeeming,  \* token requests between the consumption of the code and the answer
    tokens,     \* access tokens clients have been sent
    decisions,  \* history of the operator's decisions
    lastId,     \* request ids drawn; randomBytes(24) does not repeat
    lastCode,   \* codes drawn; randomBytes(32) does not repeat
    clock

oauthVars == <<pending, codes, redeeming, tokens, decisions, lastId, lastCode, clock>>

Without(store, key) == Restrict(store, DOMAIN store \ {key})

Insert(store, key, entry) ==
    [k \in DOMAIN store \cup {key} |-> IF k = key THEN entry ELSE store[k]]

\* Mutant: an expired entry is dropped only when room is needed.
PurgedWhenFull(store) ==
    IF Cardinality(DOMAIN store) < MaxEntries THEN store
    ELSE Restrict(store, {k \in DOMAIN store : store[k].expires > clock})

\* purgeAt, which every operation of a store begins with.
Purged(store) == Restrict(store, {k \in DOMAIN store : store[k].expires > clock})

Full(store) == Cardinality(DOMAIN store) >= MaxEntries

-----------------------------------------------------------------------------
(* GET /oauth/authorize without a request id.                              *)

\* resolveOAuthAuthorizationClientPolicy: the pre-registered client's policy,
\* or that of a client whose metadata document lists the redirect URI.
PolicyFor(r) ==
    IF \E p \in StaticPolicies : p.client = r.client
    THEN StaticPolicies
    ELSE {[client |-> c.client, redirect |-> c.redirect,
           resource |-> McpResource, scopes |-> CimdScopes] :
              c \in {d \in Published : d.client = r.client /\ d.redirect = r.redirect}}

\* Mutant: the scopes are not compared with the policy.
ValidatedAnyScopes(r) ==
    \E p \in PolicyFor(r) :
        /\ r.client = p.client
        /\ r.redirect = p.redirect
        /\ r.resource = p.resource
        /\ r.scopes # {}

\* validateOAuthAuthorizationRequest.
Validated(r) ==
    \E p \in PolicyFor(r) :
        /\ r.client = p.client
        /\ r.redirect = p.redirect
        /\ r.resource = p.resource
        /\ r.scopes # {}
        /\ r.scopes \subseteq p.scopes

\* startAuthorization and PendingOAuthConsentStore.create.
StartAuthorization(r) ==
    /\ Validated(r)
    /\ r \in BoundedRequests
    /\ lastId < MaxId
    /\ ~ Full(Purged(pending))
    /\ lastId' = lastId + 1
    /\ pending' = Insert(Purged(pending), lastId + 1,
                    [request |-> r, status |-> "pending", expires |-> clock + PendingTtl])
    /\ UNCHANGED <<codes, redeeming, tokens, decisions, lastCode, clock>>

\* What remains of an operation on the pending store that finds or changes
\* nothing: a refused create, get of an unknown or undecided id, list, a
\* decision on an unknown or decided id.
PendingLookup ==
    /\ pending' = Purged(pending)
    /\ UNCHANGED <<codes, redeeming, tokens, decisions, lastId, lastCode, clock>>

-----------------------------------------------------------------------------
(* POST /v1/oauth/pending-consents/ID/decision, with the root token.       *)

Decided(entry, decision) ==
    [request |-> entry.request, status |-> decision, expires |-> entry.expires]

\* Mutant: a later decision replaces an earlier one.
DecideAgain(id, decision) ==
    LET live == Purged(pending)
    IN  /\ id \in DOMAIN live
        /\ pending' = Insert(live, id, Decided(live[id], decision))
        /\ decisions' = decisions \cup {[consent |-> id, request |-> live[id].request,
                                         decision |-> decision, at |-> clock]}
        /\ UNCHANGED <<codes, redeeming, tokens, lastId, lastCode, clock>>

\* PendingOAuthConsentStore.decide.
Decide(id, decision) ==
    LET live == Purged(pending)
    IN  /\ id \in DOMAIN live
        /\ live[id].status = "pending"
        /\ pending' = Insert(live, id, Decided(live[id], decision))
        /\ decisions' = decisions \cup {[consent |-> id, request |-> live[id].request,
                                         decision |-> decision, at |-> clock]}
        /\ UNCHANGED <<codes, redeeming, tokens, lastId, lastCode, clock>>

-----------------------------------------------------------------------------
(* GET /oauth/authorize?request_id=ID, continueAuthorization.              *)

Deliverable(r) == r.redirect \notin Undeliverable

\* The decision is consumed; a code is issued when it is an approval, the
\* redirect can be built and the code store has room.
ContinueApproved(id) ==
    LET live == Purged(pending)
        kept == Purged(codes)
    IN  /\ id \in DOMAIN live
        /\ live[id].status = "approved"
        /\ Deliverable(live[id].request)
        /\ ~ Full(kept)
        /\ lastCode < MaxId
        /\ pending' = Without(live, id)
        /\ lastCode' = lastCode + 1
        /\ codes' = Insert(kept, lastCode + 1,
                      [request |-> live[id].request, expires |-> clock + CodeTtl, consent |-> id])
        /\ UNCHANGED <<redeeming, tokens, decisions, lastId, clock>>

\* Mutant: the room for a code is looked at before the expired codes go.
ContinueRefusedByStale(id) ==
    LET live == Purged(pending)
        kept == Purged(codes)
    IN  /\ id \in DOMAIN live
        /\ pending' = Without(live, id)
        /\ \/ live[id].status = "denied" /\ codes' = codes
           \/ live[id].status = "approved" /\ ~ Deliverable(live[id].request) /\ codes' = codes
           \/ /\ live[id].status = "approved"
              /\ Deliverable(live[id].request)
              /\ Full(codes)
              /\ codes' = kept
        /\ UNCHANGED <<redeeming, tokens, decisions, lastId, lastCode, clock>>

\* Otherwise it is consumed all the same: access_denied, 500 or 503.
ContinueRefused(id) ==
    LET live == Purged(pending)
        kept == Purged(codes)
    IN  /\ id \in DOMAIN live
        /\ pending' = Without(live, id)
        /\ \/ live[id].status = "denied" /\ codes' = codes
           \/ live[id].status = "approved" /\ ~ Deliverable(live[id].request) /\ codes' = codes
           \/ /\ live[id].status = "approved"
              /\ Deliverable(live[id].request)
              /\ Full(kept)
              /\ codes' = kept
        /\ UNCHANGED <<redeeming, tokens, decisions, lastId, lastCode, clock>>

-----------------------------------------------------------------------------
(* POST /oauth/token.                                                      *)

\* bindingMatchesConfiguredAuthority: the pre-registered client is held to its
\* own scopes, any other to those of the clients that publish a document.
BindingAccepted(r) ==
    LET own == {p \in StaticPolicies : /\ r.client = p.client
                                       /\ r.redirect = p.redirect
                                       /\ r.resource = p.resource}
    IN  \/ \E p \in own : r.scopes \subseteq p.scopes
        \/ /\ own = {}
           /\ \E c \in Published : c.client = r.client
           /\ r.resource = McpResource
           /\ r.scopes = CimdScopes

\* Mutant: the code is looked up and not consumed.
RedeemKeepsCode(code, params) ==
    LET live == Purged(codes)
    IN  /\ code \in DOMAIN live
        /\ codes' = live
        /\ redeeming' = redeeming \cup
               {[request |-> live[code].request, consent |-> live[code].consent,
                 params |-> params, at |-> clock]}
        /\ UNCHANGED <<pending, tokens, decisions, lastId, lastCode, clock>>

\* The code is consumed before the first await, whatever the parameters are.
Redeem(code, params) ==
    LET live  == Purged(codes)
        begun == [request |-> live[code].request, consent |-> live[code].consent,
                  params |-> params, at |-> clock]
    IN  /\ code \in DOMAIN live
        /\ codes' = Without(live, code)
        /\ redeeming' = redeeming \cup
               (IF BindingAccepted(live[code].request) THEN {begun} ELSE {})
        /\ UNCHANGED <<pending, tokens, decisions, lastId, lastCode, clock>>

\* A code that is unknown, used or expired.
CodeLookup ==
    /\ codes' = Purged(codes)
    /\ UNCHANGED <<pending, redeeming, tokens, decisions, lastId, lastCode, clock>>

\* validateOAuthTokenRequest against the binding.
Proved(x) ==
    /\ x.params.client = x.request.client
    /\ x.params.redirect = x.request.redirect
    /\ x.params.resource = x.request.resource
    /\ S256[x.params.verifier] = x.request.challenge

\* The session token carries the derived grant and is signed with the secret
\* of the resource; its identifier is unique.
IssueToken(x) ==
    /\ x \in redeeming
    /\ Proved(x)
    /\ Derivable(x.request.scopes)
    /\ redeeming' = redeeming \ {x}
    /\ tokens' = tokens \cup
           {[sid |-> Cardinality(tokens) + 1, consent |-> x.consent,
             verifier |-> x.params.verifier, resource |-> x.request.resource,
             grant |-> DerivedGrant(x.request.scopes),
             redeemed |-> x.at, expires |-> clock + TokenTtl]}
    /\ UNCHANGED <<pending, codes, decisions, lastId, lastCode, clock>>

RefuseToken(x) ==
    /\ x \in redeeming
    /\ ~ (Proved(x) /\ Derivable(x.request.scopes))
    /\ redeeming' = redeeming \ {x}
    /\ UNCHANGED <<pending, codes, tokens, decisions, lastId, lastCode, clock>>

\* The secret cannot be derived or the token not signed: 503, and the code is
\* used up all the same.
IssuanceFails(x) ==
    /\ x \in redeeming
    /\ Proved(x)
    /\ Derivable(x.request.scopes)
    /\ redeeming' = redeeming \ {x}
    /\ UNCHANGED <<pending, codes, tokens, decisions, lastId, lastCode, clock>>

-----------------------------------------------------------------------------
\* The gateway restarts with empty stores; tokens remain valid.
OAuthRestart ==
    /\ pending' = [k \in {} |-> 0]
    /\ codes' = [k \in {} |-> 0]
    /\ redeeming' = {}
    /\ UNCHANGED <<tokens, decisions, lastId, lastCode, clock>>

OAuthTick ==
    /\ clock < MaxClock
    /\ clock' = clock + 1
    /\ UNCHANGED <<pending, codes, redeeming, tokens, decisions, lastId, lastCode>>

OAuthInit ==
    /\ pending = [k \in {} |-> 0]
    /\ codes = [k \in {} |-> 0]
    /\ redeeming = {}
    /\ tokens = {}
    /\ decisions = {}
    /\ lastId = 0
    /\ lastCode = 0
    /\ clock = 0

OAuthNext ==
    \/ \E r \in Requests : StartAuthorization(r)
    \/ \E id \in DOMAIN pending :
          \/ \E decision \in {"approved", "denied"} : Decide(id, decision)
          \/ ContinueApproved(id)
          \/ ContinueRefused(id)
    \/ \E code \in DOMAIN codes, params \in Params : Redeem(code, params)
    \/ \E x \in redeeming : IssueToken(x) \/ RefuseToken(x) \/ IssuanceFails(x)
    \/ PendingLookup
    \/ CodeLookup
    \/ OAuthRestart
    \/ OAuthTick

OAuthSpec == OAuthInit /\ [][OAuthNext]_oauthVars

-----------------------------------------------------------------------------
(* What the flow promises (docs/MCP_OAUTH_CODE_VALIDATION.md, the list of   *)
(* invariants of the stateful phase).                                       *)

ApprovedScopes(id) ==
    UNION {d.request.scopes : d \in {e \in decisions : e.consent = id}}

\* Operator-controlled consent: behind every access token stands one decision
\* of the operator, an approval of exactly the request whose resource the
\* token is for and whose PKCE challenge its holder could answer.
OperatorConsent ==
    \A t \in tokens :
        /\ \E d \in decisions : d.consent = t.consent
        /\ \A d \in decisions : d.consent = t.consent =>
              /\ d.decision = "approved"
              /\ d.request.resource = t.resource
              /\ d.request.challenge = S256[t.verifier]

\* Single use: one approval leads to at most one access token, however often
\* the client continues the request or presents the code.
SingleUse == \A t, u \in tokens : t.consent = u.consent => t = u

\* Bounded authority: a token allows exactly the capabilities all of whose
\* required scopes the operator approved.
GrantExact ==
    \A t \in tokens, d \in Registry :
        Allowed(t.grant, d) <=> d.required \subseteq ApprovedScopes(t.consent)

\* Short time to live: a code is redeemed within the two stores' lifetimes of
\* the approval, or never.
ShortLived ==
    \A t \in tokens, d \in decisions :
        d.consent = t.consent => t.redeemed < d.at + PendingTtl + CodeTtl

\* The token endpoint's second check of the binding agrees with the validation
\* of the request: no code that was issued is refused by it.
BindingsAgree == \A code \in DOMAIN codes : BindingAccepted(codes[code].request)

\* Anybody may fill the bounded stores, and pays for it alone: a request in its
\* time leaves the pending store only at a restart or when its own client
\* continues it, decided, and an approval so used up yields its code unless
\* the redirect cannot be built or MaxEntries codes that have not expired take
\* all the room.
ConsentKept ==
    [][\A id \in DOMAIN pending :
          pending[id].expires > clock /\ id \notin DOMAIN pending' =>
             \/ OAuthRestart
             \/ pending[id].status = "denied"
             \/ /\ pending[id].status = "approved"
                /\ \/ \E c \in DOMAIN codes' : codes'[c].consent = id
                   \/ ~ Deliverable(pending[id].request)
                   \/ Cardinality({c \in DOMAIN codes : codes[c].expires > clock}) >= MaxEntries
      ]_oauthVars

-----------------------------------------------------------------------------
(* The inductive invariant: where a consent can be, and what backs it.       *)

Approved(id, r) ==
    \E d \in decisions : d.consent = id /\ d.request = r /\ d.decision = "approved"

\* The operator decides a request once, and the pending store knows it.
DecidedOnce ==
    /\ \A d, e \in decisions : d.consent = e.consent => d = e
    /\ \A d \in decisions : d.consent \in 1..lastId
    /\ \A id \in DOMAIN pending :
          /\ id \in 1..lastId
          /\ pending[id].status = "pending" => \A d \in decisions : d.consent # id
          /\ pending[id].status = "approved" => Approved(id, pending[id].request)

\* Codes, redemptions and tokens descend from approvals of their request.
Backed ==
    /\ \A c \in DOMAIN codes : Approved(codes[c].consent, codes[c].request)
    /\ \A x \in redeeming : Approved(x.consent, x.request)
    /\ \A t \in tokens : \E d \in decisions :
          /\ d.consent = t.consent
          /\ d.decision = "approved"
          /\ d.request.resource = t.resource
          /\ d.request.challenge = S256[t.verifier]

\* A consent is in one place at a time: pending, a code, a redemption, a token.
OnePlace ==
    /\ \A c \in DOMAIN codes : codes[c].consent \notin DOMAIN pending
    /\ \A x \in redeeming : x.consent \notin DOMAIN pending
    /\ \A t \in tokens : t.consent \notin DOMAIN pending
    /\ \A c, e \in DOMAIN codes : codes[c].consent = codes[e].consent => c = e
    /\ \A c \in DOMAIN codes, x \in redeeming : codes[c].consent # x.consent
    /\ \A c \in DOMAIN codes, t \in tokens : codes[c].consent # t.consent
    /\ \A x, y \in redeeming : x.consent = y.consent => x = y
    /\ \A x \in redeeming, t \in tokens : x.consent # t.consent
    /\ SingleUse

\* The life of a consent as one invariant.
ConsentInv == DecidedOnce /\ Backed /\ OnePlace

=============================================================================
