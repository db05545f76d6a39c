---------------------------- MODULE OAuthProofs ----------------------------
(***************************************************************************)
(* The safety of the OAuth flow for every set of requests, policies and    *)
(* token parameters, every lifetime and every store size.                  *)
(***************************************************************************)
EXTENDS OAuthAuthorization, TLAPS

\* The identifiers drawn so far are a natural number.
IdType == lastId \in Nat

Inv == IdType /\ ConsentInv

\* Purging a store leaves the entries it keeps as they were.
LEMMA PurgedShrinks ==
    ASSUME NEW store
    PROVE  /\ DOMAIN Purged(store) \subseteq DOMAIN store
           /\ \A k \in DOMAIN Purged(store) : Purged(store)[k] = store[k]
BY DEF Purged, Restrict

\* With both stores empty the invariant holds.
LEMMA InitInv == OAuthInit => Inv
BY DEF OAuthInit, Inv, IdType, ConsentInv, DecidedOnce, Backed, OnePlace, SingleUse

\* Steps that only take entries out of the stores or redemptions away.
LEMMA ShrinkInv ==
    ASSUME Inv,
           DOMAIN pending' \subseteq DOMAIN pending,
           \A k \in DOMAIN pending' : pending'[k] = pending[k],
           DOMAIN codes' \subseteq DOMAIN codes,
           \A k \in DOMAIN codes' : codes'[k] = codes[k],
           redeeming' \subseteq redeeming,
           UNCHANGED <<tokens, decisions, lastId>>
    PROVE  Inv'
<1>1. IdType'
  BY DEF Inv, IdType
<1>2. DecidedOnce'
  BY DEF Inv, ConsentInv, DecidedOnce, Approved
<1>3. Backed'
  BY DEF Inv, ConsentInv, Backed, Approved
<1>4. OnePlace'
  BY DEF Inv, ConsentInv, OnePlace, SingleUse
<1> QED
  BY <1>1, <1>2, <1>3, <1>4 DEF Inv, ConsentInv

\* A new request id is one no decision, code or token knows.
LEMMA StartInv ==
    ASSUME Inv, NEW r \in Requests, StartAuthorization(r)
    PROVE  Inv'
<1> DEFINE id == lastId + 1
<1> DEFINE entry == [request |-> r, status |-> "pending", expires |-> clock + PendingTtl]
<1>1. /\ lastId' = id
      /\ pending' = Insert(Purged(pending), id, entry)
      /\ UNCHANGED <<codes, redeeming, tokens, decisions>>
  BY DEF StartAuthorization
<1>2. /\ id \in Nat
      /\ id \notin 1..lastId
      /\ id \in 1..lastId'
      /\ 1..lastId \subseteq 1..lastId'
  BY <1>1 DEF Inv, IdType
<1>3. /\ DOMAIN pending' \subseteq DOMAIN pending \cup {id}
      /\ pending'[id] = entry
      /\ \A k \in DOMAIN pending' : k # id => k \in DOMAIN pending /\ pending'[k] = pending[k]
  <2>1. /\ DOMAIN Purged(pending) \subseteq DOMAIN pending
        /\ \A k \in DOMAIN Purged(pending) : Purged(pending)[k] = pending[k]
    BY PurgedShrinks
  <2> QED
    BY <1>1, <2>1 DEF Insert
<1>4. \A d \in decisions : d.consent # id
  BY <1>2 DEF Inv, ConsentInv, DecidedOnce
<1> HIDE DEF id
<1>5. IdType'
  BY <1>1, <1>2 DEF IdType
<1>6. DecidedOnce'
  <2>1. \A d \in decisions' : d.consent \in 1..lastId'
    BY <1>1, <1>2 DEF Inv, ConsentInv, DecidedOnce
  <2>2. ASSUME NEW k \in DOMAIN pending'
        PROVE  /\ k \in 1..lastId'
               /\ pending'[k].status = "pending" => \A d \in decisions' : d.consent # k
               /\ pending'[k].status = "approved" => Approved(k, pending[k].request)'
    <3>1. CASE k = id
      BY <1>1, <1>2, <1>3, <1>4, <3>1
    <3>2. CASE k # id
      BY <1>1, <1>2, <1>3, <3>2 DEF Inv, ConsentInv, DecidedOnce, Approved
    <3> QED
      BY <3>1, <3>2
  <2> QED
    BY <1>1, <2>1, <2>2 DEF Inv, ConsentInv, DecidedOnce
<1>7. Backed'
  BY <1>1 DEF Inv, ConsentInv, Backed, Approved
<1>8. OnePlace'
  BY <1>1, <1>3, <1>4 DEF Inv, ConsentInv, Backed, OnePlace, Approved, SingleUse
<1> QED
  BY <1>5, <1>6, <1>7, <1>8 DEF Inv, ConsentInv

\* The first decision on a pending request is its only one.
LEMMA DecideInv ==
    ASSUME Inv, NEW id \in DOMAIN pending, NEW decision \in {"approved", "denied"},
           Decide(id, decision)
    PROVE  Inv'
<1> DEFINE made == [consent |-> id, request |-> pending[id].request,
                    decision |-> decision, at |-> clock]
<1> DEFINE entry == Decided(pending[id], decision)
<1>1. /\ DOMAIN Purged(pending) \subseteq DOMAIN pending
      /\ \A k \in DOMAIN Purged(pending) : Purged(pending)[k] = pending[k]
  BY PurgedShrinks
<1>2. /\ pending[id].status = "pending"
      /\ pending' = Insert(Purged(pending), id, entry)
      /\ decisions' = decisions \cup {made}
      /\ UNCHANGED <<codes, redeeming, tokens, lastId>>
  BY <1>1 DEF Decide
<1>3. /\ DOMAIN pending' \subseteq DOMAIN pending
      /\ pending'[id] = entry
      /\ \A k \in DOMAIN pending' : k # id => pending'[k] = pending[k]
  BY <1>1, <1>2 DEF Insert
<1>4. /\ made.consent = id
      /\ made.request = pending[id].request
      /\ made.decision = decision
      /\ entry.status = decision
      /\ entry.request = pending[id].request
  BY DEF Decided
<1>5. \A d \in decisions : d.consent # id
  BY <1>2 DEF Inv, ConsentInv, DecidedOnce
<1> HIDE DEF made, entry
<1>6. IdType'
  BY <1>2 DEF Inv, IdType
<1>7. DecidedOnce'
  <2>1. \A d, e \in decisions' : d.consent = e.consent => d = e
    BY <1>2, <1>4, <1>5 DEF Inv, ConsentInv, DecidedOnce
  <2>2. \A d \in decisions' : d.consent \in 1..lastId'
    BY <1>2, <1>4 DEF Inv, ConsentInv, DecidedOnce
  <2>3. ASSUME NEW k \in DOMAIN pending'
        PROVE  /\ k \in 1..lastId'
               /\ pending'[k].status = "pending" => \A d \in decisions' : d.consent # k
               /\ pending'[k].status = "approved" => Approved(k, pending[k].request)'
    <3>1. CASE k = id
      BY <1>2, <1>3, <1>4, <3>1 DEF Inv, ConsentInv, DecidedOnce, Approved
    <3>2. CASE k # id
      BY <1>2, <1>3, <1>4, <3>2 DEF Inv, ConsentInv, DecidedOnce, Approved
    <3> QED
      BY <3>1, <3>2
  <2> QED
    BY <2>1, <2>2, <2>3 DEF DecidedOnce
<1>8. Backed'
  BY <1>2 DEF Inv, ConsentInv, Backed, Approved
<1>9. OnePlace'
  BY <1>2, <1>3 DEF Inv, ConsentInv, OnePlace, SingleUse
<1> QED
  BY <1>6, <1>7, <1>8, <1>9 DEF Inv, ConsentInv

\* The consent moves from the pending store to the code store.
LEMMA ContinueApprovedInv ==
    ASSUME Inv, NEW id \in DOMAIN pending, ContinueApproved(id)
    PROVE  Inv'
<1> DEFINE code == lastCode + 1
<1> DEFINE entry == [request |-> pending[id].request, expires |-> clock + CodeTtl, consent |-> id]
<1>1. /\ DOMAIN Purged(pending) \subseteq DOMAIN pending
      /\ \A k \in DOMAIN Purged(pending) : Purged(pending)[k] = pending[k]
      /\ DOMAIN Purged(codes) \subseteq DOMAIN codes
      /\ \A k \in DOMAIN Purged(codes) : Purged(codes)[k] = codes[k]
  BY PurgedShrinks
<1>2. /\ pending[id].status = "approved"
      /\ pending' = Without(Purged(pending), id)
      /\ codes' = Insert(Purged(codes), code, entry)
      /\ UNCHANGED <<redeeming, tokens, decisions, lastId>>
  BY <1>1 DEF ContinueApproved
<1>3. /\ DOMAIN pending' \subseteq DOMAIN pending \ {id}
      /\ \A k \in DOMAIN pending' : pending'[k] = pending[k]
  BY <1>1, <1>2 DEF Without, Restrict
<1>4. /\ codes'[code] = entry
      /\ \A c \in DOMAIN codes' : c # code => c \in DOMAIN codes /\ codes'[c] = codes[c]
  BY <1>1, <1>2 DEF Insert
<1>5. entry.consent = id /\ entry.request = pending[id].request
  OBVIOUS
<1>6. Approved(id, pending[id].request)
  BY <1>2 DEF Inv, ConsentInv, DecidedOnce
<1> HIDE DEF code, entry
<1>7. IdType'
  BY <1>2 DEF Inv, IdType
<1>8. DecidedOnce'
  BY <1>2, <1>3 DEF Inv, ConsentInv, DecidedOnce, Approved
<1>9. Backed'
  <2>1. \A c \in DOMAIN codes' : Approved(codes[c].consent, codes[c].request)'
    BY <1>2, <1>4, <1>5, <1>6 DEF Inv, ConsentInv, Backed, Approved
  <2> QED
    BY <1>2, <2>1 DEF Inv, ConsentInv, Backed, Approved
<1>10. OnePlace'
  BY <1>2, <1>3, <1>4, <1>5 DEF Inv, ConsentInv, OnePlace, SingleUse
<1> QED
  BY <1>7, <1>8, <1>9, <1>10 DEF Inv, ConsentInv

\* The consent moves from the code store to the redemption in progress.
LEMMA RedeemInv ==
    ASSUME Inv, NEW code \in DOMAIN codes, NEW params \in Params, Redeem(code, params)
    PROVE  Inv'
<1> DEFINE begun == [request |-> codes[code].request, consent |-> codes[code].consent,
                     params |-> params, at |-> clock]
<1>1. /\ DOMAIN Purged(codes) \subseteq DOMAIN codes
      /\ \A k \in DOMAIN Purged(codes) : Purged(codes)[k] = codes[k]
  BY PurgedShrinks
<1>2. /\ codes' = Without(Purged(codes), code)
      /\ redeeming' \subseteq redeeming \cup {begun}
      /\ UNCHANGED <<pending, tokens, decisions, lastId>>
  BY <1>1 DEF Redeem
<1>3. /\ DOMAIN codes' \subseteq DOMAIN codes \ {code}
      /\ \A c \in DOMAIN codes' : codes'[c] = codes[c]
  BY <1>1, <1>2 DEF Without, Restrict
<1>4. begun.consent = codes[code].consent /\ begun.request = codes[code].request
  OBVIOUS
<1> HIDE DEF begun
<1>5. IdType'
  BY <1>2 DEF Inv, IdType
<1>6. DecidedOnce'
  BY <1>2 DEF Inv, ConsentInv, DecidedOnce, Approved
<1>7. Backed'
  <2>1. Approved(begun.consent, begun.request)
    BY <1>4 DEF Inv, ConsentInv, Backed
  <2> QED
    BY <1>2, <1>3, <2>1 DEF Inv, ConsentInv, Backed, Approved
<1>8. OnePlace'
  BY <1>2, <1>3, <1>4 DEF Inv, ConsentInv, OnePlace, SingleUse
<1> QED
  BY <1>5, <1>6, <1>7, <1>8 DEF Inv, ConsentInv

\* The consent moves from the redemption to the token.
LEMMA IssueInv ==
    ASSUME Inv, NEW x \in redeeming, IssueToken(x)
    PROVE  Inv'
<1> DEFINE token == [sid |-> Cardinality(tokens) + 1, consent |-> x.consent,
                     verifier |-> x.params.verifier, resource |-> x.request.resource,
                     grant |-> DerivedGrant(x.request.scopes),
                     redeemed |-> x.at, expires |-> clock + TokenTtl]
<1>1. /\ redeeming' = redeeming \ {x}
      /\ tokens' = tokens \cup {token}
      /\ S256[x.params.verifier] = x.request.challenge
      /\ UNCHANGED <<pending, codes, decisions, lastId>>
  BY DEF IssueToken, Proved
<1>2. /\ token.consent = x.consent
      /\ token.resource = x.request.resource
      /\ token.verifier = x.params.verifier
  OBVIOUS
<1> HIDE DEF token
<1>3. IdType'
  BY <1>1 DEF Inv, IdType
<1>4. DecidedOnce'
  BY <1>1 DEF Inv, ConsentInv, DecidedOnce, Approved
<1>5. Backed'
  <2>1. PICK d \in decisions : /\ d.consent = x.consent
                               /\ d.request = x.request
                               /\ d.decision = "approved"
    BY DEF Inv, ConsentInv, Backed, Approved
  <2>2. \E e \in decisions' : /\ e.consent = token.consent
                              /\ e.decision = "approved"
                              /\ e.request.resource = token.resource
                              /\ e.request.challenge = S256[token.verifier]
    BY <1>1, <1>2, <2>1
  <2> QED
    BY <1>1, <2>2 DEF Inv, ConsentInv, Backed, Approved
<1>6. OnePlace'
  BY <1>1, <1>2 DEF Inv, ConsentInv, OnePlace, SingleUse
<1> QED
  BY <1>3, <1>4, <1>5, <1>6 DEF Inv, ConsentInv

\* Every step of the flow preserves the invariant.
LEMMA NextInv == Inv /\ [OAuthNext]_oauthVars => Inv'
<1> SUFFICES ASSUME Inv, [OAuthNext]_oauthVars
             PROVE  Inv'
  OBVIOUS
<1>1. ASSUME NEW r \in Requests, StartAuthorization(r)
      PROVE  Inv'
  BY <1>1, StartInv
<1>2. ASSUME NEW id \in DOMAIN pending, NEW decision \in {"approved", "denied"},
             Decide(id, decision)
      PROVE  Inv'
  BY <1>2, DecideInv
<1>3. ASSUME NEW id \in DOMAIN pending, ContinueApproved(id)
      PROVE  Inv'
  BY <1>3, ContinueApprovedInv
<1>4. ASSUME NEW id \in DOMAIN pending, ContinueRefused(id)
      PROVE  Inv'
  <2>1. codes' = codes \/ codes' = Purged(codes)
    BY <1>4 DEF ContinueRefused
  <2>2. pending' = Without(Purged(pending), id)
    BY <1>4 DEF ContinueRefused
  <2>3. UNCHANGED <<redeeming, tokens, decisions, lastId>>
    BY <1>4 DEF ContinueRefused
  <2> QED
    <3>1. /\ DOMAIN pending' \subseteq DOMAIN pending
          /\ \A k \in DOMAIN pending' : pending'[k] = pending[k]
      BY <2>2, PurgedShrinks DEF Without, Restrict
    <3>2. /\ DOMAIN codes' \subseteq DOMAIN codes
          /\ \A k \in DOMAIN codes' : codes'[k] = codes[k]
      BY <2>1, PurgedShrinks
    <3> QED
      BY <2>3, <3>1, <3>2, ShrinkInv
<1>5. ASSUME NEW code \in DOMAIN codes, NEW params \in Params, Redeem(code, params)
      PROVE  Inv'
  BY <1>5, RedeemInv
<1>6. ASSUME NEW x \in redeeming, IssueToken(x)
      PROVE  Inv'
  BY <1>6, IssueInv
<1>7. ASSUME NEW x \in redeeming, RefuseToken(x) \/ IssuanceFails(x)
      PROVE  Inv'
  BY <1>7, ShrinkInv DEF RefuseToken, IssuanceFails
<1>8. CASE PendingLookup
  BY <1>8, ShrinkInv, PurgedShrinks DEF PendingLookup
<1>9. CASE CodeLookup
  BY <1>9, ShrinkInv, PurgedShrinks DEF CodeLookup
<1>10. CASE OAuthRestart
  BY <1>10, ShrinkInv DEF OAuthRestart
<1>11. CASE OAuthTick
  BY <1>11, ShrinkInv DEF OAuthTick
<1>12. CASE UNCHANGED oauthVars
  BY <1>12, ShrinkInv DEF oauthVars
<1> QED
  BY <1>1, <1>2, <1>3, <1>4, <1>5, <1>6, <1>7, <1>8, <1>9, <1>10, <1>11, <1>12 DEF OAuthNext

\* The life of a consent is an invariant of the flow: it is decided once, lives
\* in one place at a time, and only approvals leave the pending store as codes.
THEOREM ConsentLife == OAuthSpec => []ConsentInv
<1>1. Inv => ConsentInv
  BY DEF Inv
<1> QED
  BY <1>1, InitInv, NextInv, PTL DEF OAuthSpec

\* No access token without the operator's approval of its request, for any
\* clients, requests and interleaving of handlers.
THEOREM OnlyByConsent == OAuthSpec => []OperatorConsent
<1>1. Inv => OperatorConsent
  BY DEF Inv, ConsentInv, DecidedOnce, Backed, OperatorConsent
<1> QED
  BY <1>1, InitInv, NextInv, PTL DEF OAuthSpec

\* No approval is good for two access tokens, for any interleaving of
\* continuations and redemptions.
THEOREM OneTokenPerConsent == OAuthSpec => []SingleUse
<1>1. Inv => SingleUse
  BY DEF Inv, ConsentInv, OnePlace
<1> QED
  BY <1>1, InitInv, NextInv, PTL DEF OAuthSpec

-----------------------------------------------------------------------------
(* Lifetimes, bindings and grants.                                          *)

\* Every deadline lies within the lifetimes that remain after the request was
\* made, and after it was decided.
Timely ==
    /\ clock \in Nat
    /\ \A d \in decisions : d.at \in Nat /\ d.at <= clock
    /\ \A id \in DOMAIN pending :
          /\ pending[id].expires \in Nat
          /\ pending[id].expires <= clock + PendingTtl
          /\ \A d \in decisions : d.consent = id => pending[id].expires <= d.at + PendingTtl
    /\ \A c \in DOMAIN codes :
          /\ codes[c].expires \in Nat
          /\ \A d \in decisions : d.consent = codes[c].consent =>
                codes[c].expires < d.at + PendingTtl + CodeTtl
    /\ \A x \in redeeming :
          /\ x.at \in Nat
          /\ \A d \in decisions : d.consent = x.consent => x.at < d.at + PendingTtl + CodeTtl
    /\ ShortLived

\* What is in the stores was validated when it came in.
Vetted ==
    /\ \A id \in DOMAIN pending : Validated(pending[id].request)
    /\ \A c \in DOMAIN codes : Validated(codes[c].request)

\* A token carries the grant that its approved scopes derive.
Scoped ==
    \A t \in tokens : \E d \in decisions :
        /\ d.consent = t.consent
        /\ Derivable(d.request.scopes)
        /\ t.grant = DerivedGrant(d.request.scopes)

\* The three together.
FlowInv == Timely /\ Vetted /\ Scoped

\* The lifetimes are natural numbers.
LEMMA Lifetimes == PendingTtl \in Nat \ {0} /\ CodeTtl \in Nat \ {0}
BY OAuthAssumption

\* What a purged store still holds has not expired.
LEMMA PurgedLives ==
    ASSUME NEW store, NEW k \in DOMAIN Purged(store)
    PROVE  k \in DOMAIN store /\ Purged(store)[k] = store[k] /\ store[k].expires > clock
BY DEF Purged, Restrict

\* Initially nothing has a deadline.
LEMMA FlowInit == OAuthInit => FlowInv
BY DEF OAuthInit, FlowInv, Timely, Vetted, Scoped, ShortLived

\* Steps that only take entries and redemptions away, while time may pass.
LEMMA FlowShrink ==
    ASSUME FlowInv,
           DOMAIN pending' \subseteq DOMAIN pending,
           \A k \in DOMAIN pending' : pending'[k] = pending[k],
           DOMAIN codes' \subseteq DOMAIN codes,
           \A k \in DOMAIN codes' : codes'[k] = codes[k],
           redeeming' \subseteq redeeming,
           UNCHANGED <<tokens, decisions>>,
           clock' \in Nat, clock' >= clock
    PROVE  FlowInv'
<1>1. Timely'
  <2>1. \A d \in decisions' : d.at \in Nat /\ d.at <= clock'
    BY DEF FlowInv, Timely
  <2>2. \A id \in DOMAIN pending' :
          /\ pending'[id].expires \in Nat
          /\ pending'[id].expires <= clock' + PendingTtl
          /\ \A d \in decisions' : d.consent = id => pending'[id].expires <= d.at + PendingTtl
    BY Lifetimes DEF FlowInv, Timely
  <2>3. \A c \in DOMAIN codes' :
          /\ codes'[c].expires \in Nat
          /\ \A d \in decisions' : d.consent = codes'[c].consent =>
                codes'[c].expires < d.at + PendingTtl + CodeTtl
    BY DEF FlowInv, Timely
  <2>4. \A x \in redeeming' :
          /\ x.at \in Nat
          /\ \A d \in decisions' : d.consent = x.consent => x.at < d.at + PendingTtl + CodeTtl
    BY DEF FlowInv, Timely
  <2>5. ShortLived'
    BY DEF FlowInv, Timely, ShortLived
  <2> QED
    BY <2>1, <2>2, <2>3, <2>4, <2>5 DEF Timely
<1>2. Vetted'
  BY DEF FlowInv, Vetted
<1>3. Scoped'
  BY DEF FlowInv, Scoped
<1> QED
  BY <1>1, <1>2, <1>3 DEF FlowInv

\* A request that comes in was validated, and nothing was decided about it.
LEMMA FlowStart ==
    ASSUME Inv, FlowInv, NEW r \in Requests, StartAuthorization(r)
    PROVE  FlowInv'
<1>1. PICK id : id = lastId + 1
  OBVIOUS
<1>2. PICK entry : entry = [request |-> r, status |-> "pending", expires |-> clock + PendingTtl]
  OBVIOUS
<1>3. /\ pending' = Insert(Purged(pending), id, entry)
      /\ UNCHANGED <<codes, redeeming, tokens, decisions, clock>>
      /\ Validated(r)
  BY <1>1, <1>2 DEF StartAuthorization
<1>4. /\ id \in DOMAIN pending' /\ pending'[id] = entry
      /\ \A k \in DOMAIN pending' : k # id => k \in DOMAIN pending /\ pending'[k] = pending[k]
  BY <1>3, PurgedShrinks DEF Insert
<1>5. \A d \in decisions : d.consent # id
  BY <1>1 DEF Inv, IdType, ConsentInv, DecidedOnce
<1>6. entry.request = r /\ entry.expires = clock + PendingTtl
  BY <1>2
<1>7. Timely'
  <2>1. ASSUME NEW k \in DOMAIN pending'
        PROVE  /\ pending'[k].expires \in Nat
               /\ pending'[k].expires <= clock' + PendingTtl
               /\ \A d \in decisions' : d.consent = k => pending'[k].expires <= d.at + PendingTtl
    <3>1. CASE k = id
      BY <1>3, <1>4, <1>5, <1>6, <3>1, Lifetimes DEF FlowInv, Timely
    <3>2. CASE k # id
      BY <1>3, <1>4, <3>2 DEF FlowInv, Timely
    <3> QED
      BY <3>1, <3>2
  <2> QED
    BY <1>3, <2>1 DEF FlowInv, Timely, ShortLived
<1>8. Vetted'
  BY <1>3, <1>4, <1>6 DEF FlowInv, Vetted
<1>9. Scoped'
  BY <1>3 DEF FlowInv, Scoped
<1> QED
  BY <1>7, <1>8, <1>9 DEF FlowInv

\* The decision falls within the lifetime of the request; nothing has come of
\* the request before.
LEMMA FlowDecide ==
    ASSUME Inv, FlowInv, NEW id \in DOMAIN pending, NEW decision \in {"approved", "denied"},
           Decide(id, decision)
    PROVE  FlowInv'
<1>1. PICK made : made = [consent |-> id, request |-> pending[id].request,
                          decision |-> decision, at |-> clock]
  OBVIOUS
<1>2. PICK entry : entry = Decided(pending[id], decision)
  OBVIOUS
<1>3. /\ pending[id].status = "pending"
      /\ pending' = Insert(Purged(pending), id, entry)
      /\ decisions' = decisions \cup {made}
      /\ UNCHANGED <<codes, redeeming, tokens, clock>>
  BY <1>1, <1>2, PurgedShrinks DEF Decide
<1>4. /\ DOMAIN pending' \subseteq DOMAIN pending
      /\ pending'[id] = entry
      /\ \A k \in DOMAIN pending' : k # id => pending'[k] = pending[k]
  BY <1>3, PurgedShrinks DEF Insert
<1>5. made.consent = id /\ made.at = clock
  BY <1>1
<1>6. entry.request = pending[id].request /\ entry.expires = pending[id].expires
  BY <1>2 DEF Decided
<1>7. /\ \A c \in DOMAIN codes : codes[c].consent # id
      /\ \A x \in redeeming : x.consent # id
      /\ \A t \in tokens : t.consent # id
      /\ \A d \in decisions : d.consent # id
  BY <1>3 DEF Inv, ConsentInv, OnePlace, DecidedOnce
<1>8. Timely'
  <2>1. \A d \in decisions' : d.at \in Nat /\ d.at <= clock'
    BY <1>3, <1>5 DEF FlowInv, Timely
  <2>2. ASSUME NEW k \in DOMAIN pending'
        PROVE  /\ pending'[k].expires \in Nat
               /\ pending'[k].expires <= clock' + PendingTtl
               /\ \A d \in decisions' : d.consent = k => pending'[k].expires <= d.at + PendingTtl
    <3>1. CASE k = id
      BY <1>3, <1>4, <1>5, <1>6, <1>7, <3>1 DEF FlowInv, Timely
    <3>2. CASE k # id
      BY <1>3, <1>4, <1>5, <3>2 DEF FlowInv, Timely
    <3> QED
      BY <3>1, <3>2
  <2>3. \A c \in DOMAIN codes' :
          /\ codes'[c].expires \in Nat
          /\ \A d \in decisions' : d.consent = codes'[c].consent =>
                codes'[c].expires < d.at + PendingTtl + CodeTtl
    BY <1>3, <1>5, <1>7 DEF FlowInv, Timely
  <2>4. \A x \in redeeming' :
          /\ x.at \in Nat
          /\ \A d \in decisions' : d.consent = x.consent => x.at < d.at + PendingTtl + CodeTtl
    BY <1>3, <1>5, <1>7 DEF FlowInv, Timely
  <2>5. ShortLived'
    BY <1>3, <1>5, <1>7 DEF FlowInv, Timely, ShortLived
  <2> QED
    BY <1>3, <2>1, <2>2, <2>3, <2>4, <2>5 DEF FlowInv, Timely
<1>9. Vetted'
  BY <1>3, <1>4, <1>6 DEF FlowInv, Vetted
<1>10. Scoped'
  BY <1>3 DEF FlowInv, Scoped
<1> QED
  BY <1>8, <1>9, <1>10 DEF FlowInv

\* The code is issued within the lifetime of the request.
LEMMA FlowContinue ==
    ASSUME Inv, FlowInv, NEW id \in DOMAIN pending, ContinueApproved(id)
    PROVE  FlowInv'
<1>1. PICK code : code = lastCode + 1
  OBVIOUS
<1>2. PICK entry : entry = [request |-> pending[id].request, expires |-> clock + CodeTtl,
                            consent |-> id]
  OBVIOUS
<1>3. /\ id \in DOMAIN Purged(pending)
      /\ pending' = Without(Purged(pending), id)
      /\ codes' = Insert(Purged(codes), code, entry)
      /\ UNCHANGED <<redeeming, tokens, decisions, clock>>
  BY <1>1, <1>2, PurgedShrinks DEF ContinueApproved
<1>4. pending[id].expires > clock
  BY <1>3, PurgedLives
<1>5. /\ DOMAIN pending' \subseteq DOMAIN pending
      /\ \A k \in DOMAIN pending' : pending'[k] = pending[k]
  BY <1>3, PurgedShrinks DEF Without, Restrict
<1>6. /\ codes'[code] = entry
      /\ \A c \in DOMAIN codes' : c # code => c \in DOMAIN codes /\ codes'[c] = codes[c]
  BY <1>3, PurgedShrinks DEF Insert
<1>7. /\ entry.consent = id /\ entry.request = pending[id].request
      /\ entry.expires = clock + CodeTtl
  BY <1>2
<1>8. Timely'
  <2>1. ASSUME NEW c \in DOMAIN codes'
        PROVE  /\ codes'[c].expires \in Nat
               /\ \A d \in decisions' : d.consent = codes'[c].consent =>
                     codes'[c].expires < d.at + PendingTtl + CodeTtl
    <3>1. CASE c = code
      BY <1>3, <1>4, <1>6, <1>7, <3>1, Lifetimes DEF FlowInv, Timely
    <3>2. CASE c # code
      BY <1>3, <1>6, <3>2 DEF FlowInv, Timely
    <3> QED
      BY <3>1, <3>2
  <2> QED
    BY <1>3, <1>5, <2>1 DEF FlowInv, Timely, ShortLived
<1>9. Vetted'
  BY <1>5, <1>6, <1>7 DEF FlowInv, Vetted
<1>10. Scoped'
  BY <1>3 DEF FlowInv, Scoped
<1> QED
  BY <1>8, <1>9, <1>10 DEF FlowInv

\* The code is redeemed within its lifetime.
LEMMA FlowRedeem ==
    ASSUME FlowInv, NEW code \in DOMAIN codes, NEW params \in Params, Redeem(code, params)
    PROVE  FlowInv'
<1>1. PICK begun : begun = [request |-> codes[code].request, consent |-> codes[code].consent,
                            params |-> params, at |-> clock]
  OBVIOUS
<1>2. /\ code \in DOMAIN Purged(codes)
      /\ codes' = Without(Purged(codes), code)
      /\ redeeming' \subseteq redeeming \cup {begun}
      /\ UNCHANGED <<pending, tokens, decisions, clock>>
  BY <1>1, PurgedShrinks DEF Redeem
<1>3. codes[code].expires > clock
  BY <1>2, PurgedLives
<1>4. /\ DOMAIN codes' \subseteq DOMAIN codes
      /\ \A c \in DOMAIN codes' : codes'[c] = codes[c]
  BY <1>2, PurgedShrinks DEF Without, Restrict
<1>5. begun.consent = codes[code].consent /\ begun.at = clock
  BY <1>1
<1>6. Timely'
  <2>1. ASSUME NEW x \in redeeming'
        PROVE  /\ x.at \in Nat
               /\ \A d \in decisions' : d.consent = x.consent =>
                     x.at < d.at + PendingTtl + CodeTtl
    <3>1. CASE x = begun
      BY <1>2, <1>3, <1>5, <3>1, Lifetimes DEF FlowInv, Timely
    <3>2. CASE x # begun
      BY <1>2, <3>2 DEF FlowInv, Timely
    <3> QED
      BY <3>1, <3>2
  <2> QED
    BY <1>2, <1>4, <2>1 DEF FlowInv, Timely, ShortLived
<1>7. Vetted'
  BY <1>2, <1>4 DEF FlowInv, Vetted
<1>8. Scoped'
  BY <1>2 DEF FlowInv, Scoped
<1> QED
  BY <1>6, <1>7, <1>8 DEF FlowInv

\* The token inherits the time of the redemption and the approved scopes.
LEMMA FlowIssue ==
    ASSUME Inv, FlowInv, NEW x \in redeeming, IssueToken(x)
    PROVE  FlowInv'
<1>1. PICK token : token =
             [sid |-> Cardinality(tokens) + 1, consent |-> x.consent,
              verifier |-> x.params.verifier, resource |-> x.request.resource,
              grant |-> DerivedGrant(x.request.scopes),
              redeemed |-> x.at, expires |-> clock + TokenTtl]
  OBVIOUS
<1>2. /\ redeeming' = redeeming \ {x}
      /\ tokens' = tokens \cup {token}
      /\ Derivable(x.request.scopes)
      /\ UNCHANGED <<pending, codes, decisions, clock>>
  BY <1>1 DEF IssueToken
<1>3. /\ token.consent = x.consent /\ token.redeemed = x.at
      /\ token.grant = DerivedGrant(x.request.scopes)
  BY <1>1
<1>4. Timely'
  <2>1. ShortLived'
    BY <1>2, <1>3 DEF FlowInv, Timely, ShortLived
  <2> QED
    BY <1>2, <2>1 DEF FlowInv, Timely
<1>5. Vetted'
  BY <1>2 DEF FlowInv, Vetted
<1>6. Scoped'
  <2>1. PICK d \in decisions : d.consent = x.consent /\ d.request = x.request
    BY DEF Inv, ConsentInv, Backed, Approved
  <2> QED
    BY <1>2, <1>3, <2>1 DEF FlowInv, Scoped
<1> QED
  BY <1>4, <1>5, <1>6 DEF FlowInv

\* Every step of the flow preserves the three.
LEMMA FlowNext == Inv /\ FlowInv /\ [OAuthNext]_oauthVars => FlowInv'
<1> SUFFICES ASSUME Inv, FlowInv, [OAuthNext]_oauthVars
             PROVE  FlowInv'
  OBVIOUS
<1>0. clock \in Nat /\ clock >= clock /\ clock + 1 \in Nat /\ clock + 1 >= clock
  BY DEF FlowInv, Timely
<1>1. ASSUME NEW r \in Requests, StartAuthorization(r)
      PROVE  FlowInv'
  BY <1>1, FlowStart
<1>2. ASSUME NEW id \in DOMAIN pending, NEW decision \in {"approved", "denied"},
             Decide(id, decision)
      PROVE  FlowInv'
  BY <1>2, FlowDecide
<1>3. ASSUME NEW id \in DOMAIN pending, ContinueApproved(id)
      PROVE  FlowInv'
  BY <1>3, FlowContinue
<1>4. ASSUME NEW id \in DOMAIN pending, ContinueRefused(id)
      PROVE  FlowInv'
  <2>1. /\ codes' = codes \/ codes' = Purged(codes)
        /\ pending' = Without(Purged(pending), id)
        /\ UNCHANGED <<redeeming, tokens, decisions, clock>>
    BY <1>4 DEF ContinueRefused
  <2>2. /\ DOMAIN pending' \subseteq DOMAIN pending
        /\ \A k \in DOMAIN pending' : pending'[k] = pending[k]
    BY <2>1, PurgedShrinks DEF Without, Restrict
  <2>3. /\ DOMAIN codes' \subseteq DOMAIN codes
        /\ \A k \in DOMAIN codes' : codes'[k] = codes[k]
    BY <2>1, PurgedShrinks
  <2> QED
    BY <1>0, <2>1, <2>2, <2>3, FlowShrink
<1>5. ASSUME NEW code \in DOMAIN codes, NEW params \in Params, Redeem(code, params)
      PROVE  FlowInv'
  BY <1>5, FlowRedeem
<1>6. ASSUME NEW x \in redeeming, IssueToken(x)
      PROVE  FlowInv'
  BY <1>6, FlowIssue
<1>7. ASSUME NEW x \in redeeming, RefuseToken(x) \/ IssuanceFails(x)
      PROVE  FlowInv'
  BY <1>0, <1>7, FlowShrink DEF RefuseToken, IssuanceFails
<1>8. CASE PendingLookup
  BY <1>0, <1>8, FlowShrink, PurgedShrinks DEF PendingLookup
<1>9. CASE CodeLookup
  BY <1>0, <1>9, FlowShrink, PurgedShrinks DEF CodeLookup
<1>10. CASE OAuthRestart
  BY <1>0, <1>10, FlowShrink DEF OAuthRestart
<1>11. CASE OAuthTick
  BY <1>0, <1>11, FlowShrink DEF OAuthTick
<1>12. CASE UNCHANGED oauthVars
  BY <1>0, <1>12, FlowShrink DEF oauthVars
<1> QED
  BY <1>1, <1>2, <1>3, <1>4, <1>5, <1>6, <1>7, <1>8, <1>9, <1>10, <1>11, <1>12 DEF OAuthNext

\* The consent's life and the three together hold throughout.
LEMMA FlowAlways == OAuthSpec => [](Inv /\ FlowInv)
BY InitInv, NextInv, FlowInit, FlowNext, PTL DEF OAuthSpec

\* A code is redeemed within the two lifetimes of the operator's decision or
\* never, for all lifetimes and however the clock and the handlers interleave.
THEOREM RedeemedInTime == OAuthSpec => []ShortLived
<1>1. FlowInv => ShortLived
  BY DEF FlowInv, Timely
<1> QED
  BY <1>1, FlowAlways, PTL

\* A request that passes the validation passes the token endpoint's check too.
LEMMA ValidatedAccepted ==
    ASSUME NEW r, Validated(r)
    PROVE  BindingAccepted(r)
<1>1. PICK p \in PolicyFor(r) : /\ r.client = p.client /\ r.redirect = p.redirect
                                /\ r.resource = p.resource
                                /\ r.scopes # {} /\ r.scopes \subseteq p.scopes
  BY DEF Validated
<1> DEFINE own == {q \in StaticPolicies : /\ r.client = q.client
                                          /\ r.redirect = q.redirect
                                          /\ r.resource = q.resource}
<1>2. CASE \E q \in StaticPolicies : q.client = r.client
  BY <1>1, <1>2 DEF PolicyFor, BindingAccepted
<1>3. CASE ~ \E q \in StaticPolicies : q.client = r.client
  <2>1. PICK c \in Published : /\ c.client = r.client
                               /\ p = [client |-> c.client, redirect |-> c.redirect,
                                       resource |-> McpResource, scopes |-> CimdScopes]
    BY <1>1, <1>3 DEF PolicyFor
  <2>2. r.resource = McpResource /\ r.scopes # {} /\ r.scopes \subseteq CimdScopes
    BY <1>1, <2>1
  <2>3. r.scopes = CimdScopes
    BY <2>2, OAuthAssumption
  <2>4. own = {}
    BY <1>3
  <2> QED
    BY <2>1, <2>2, <2>3, <2>4 DEF BindingAccepted
<1> QED
  BY <1>2, <1>3

\* No code that was issued is refused by the token endpoint's second look at
\* its client, redirect URI, resource and scopes, whatever the policies.
THEOREM NoCodeRefused == OAuthSpec => []BindingsAgree
<1>1. FlowInv => BindingsAgree
  BY ValidatedAccepted DEF FlowInv, Vetted, BindingsAgree
<1> QED
  BY <1>1, FlowAlways, PTL

\* Levels are small numbers, so the highest of some of them exists.
LEMMA HighestLevel ==
    ASSUME NEW S \in SUBSET (0..6), 0 \in S
    PROVE  /\ Max(S) \in S
           /\ \A y \in S : Max(S) >= y
<1>1. \E x \in S : \A y \in S : x >= y
  <2>1. CASE 6 \in S
    BY <2>1
  <2>2. CASE 6 \notin S /\ 5 \in S
    BY <2>2
  <2>3. CASE S \cap {6, 5} = {} /\ 4 \in S
    BY <2>3
  <2>4. CASE S \cap {6, 5, 4} = {} /\ 3 \in S
    BY <2>4
  <2>5. CASE S \cap {6, 5, 4, 3} = {} /\ 2 \in S
    BY <2>5
  <2>6. CASE S \cap {6, 5, 4, 3, 2} = {}
    BY <2>6
  <2> QED
    BY <2>1, <2>2, <2>3, <2>4, <2>5, <2>6
<1> QED
  BY <1>1 DEF Max

\* The derived grant allows what needs no more than its scopes, and no more.
LEMMA DerivedExact ==
    ASSUME NEW S, Derivable(S), NEW d \in Registry
    PROVE  Allowed(DerivedGrant(S), d) <=> d.required \subseteq S
<1>1. UNION {Matches(s) : s \in S} = S
  BY DEF Derivable, Matches
<1>2. PICK depths : depths = {0} \cup {e.minDepth : e \in Mentioning(S)}
  OBVIOUS
<1>3. PICK levels : levels = {0} \cup {e.minAuthority : e \in Mentioning(S)}
  OBVIOUS
<1>4. depths \in SUBSET (0..6) /\ levels \in SUBSET (0..6) /\ 0 \in depths /\ 0 \in levels
  BY <1>2, <1>3, RegistryAssumption DEF Mentioning
<1>5. /\ DerivedGrant(S).depth = Max(depths) /\ DerivedGrant(S).authority = Max(levels)
      /\ DerivedGrant(S).scopes = S
  BY <1>2, <1>3 DEF DerivedGrant
<1>6. HasRequiredScopes(DerivedGrant(S).scopes, d.required) <=> d.required \subseteq S
  BY <1>1, <1>5 DEF HasRequiredScopes
<1>7. ASSUME d.required \subseteq S
      PROVE  Max(depths) >= d.minDepth /\ Max(levels) >= d.minAuthority
  <2>1. d.minDepth \in depths /\ d.minAuthority \in levels
    BY <1>2, <1>3, <1>7, RegistryAssumption DEF Mentioning
  <2> QED
    BY <1>4, <2>1, HighestLevel
<1> QED
  BY <1>5, <1>6, <1>7 DEF Allowed

\* A token allows exactly the capabilities whose required scopes the operator
\* approved, for every registry of capabilities.
THEOREM ExactGrants == OAuthSpec => []GrantExact
<1>1. Inv /\ FlowInv => GrantExact
  <2> SUFFICES ASSUME Inv, FlowInv, NEW t \in tokens, NEW c \in Registry
               PROVE  Allowed(t.grant, c) <=> c.required \subseteq ApprovedScopes(t.consent)
    BY DEF GrantExact
  <2>1. PICK d \in decisions : /\ d.consent = t.consent
                               /\ Derivable(d.request.scopes)
                               /\ t.grant = DerivedGrant(d.request.scopes)
    BY DEF FlowInv, Scoped
  <2>2. {e \in decisions : e.consent = t.consent} = {d}
    BY <2>1 DEF Inv, ConsentInv, DecidedOnce
  <2>3. ApprovedScopes(t.consent) = d.request.scopes
    BY <2>2 DEF ApprovedScopes
  <2> QED
    BY <2>1, <2>3, DerivedExact
<1> QED
  BY <1>1, FlowAlways, PTL

-----------------------------------------------------------------------------
(* Room in the stores.                                                      *)

\* What ConsentKept says of one request in one step.
Kept(id) ==
    pending[id].expires > clock /\ id \notin DOMAIN pending' =>
       \/ OAuthRestart
       \/ pending[id].status = "denied"
       \/ /\ pending[id].status = "approved"
          /\ \/ \E c \in DOMAIN codes' : codes'[c].consent = id
             \/ ~ Deliverable(pending[id].request)
             \/ Cardinality({c \in DOMAIN codes : codes[c].expires > clock}) >= MaxEntries

\* An entry in its time survives a purge.
LEMMA InTimeKept ==
    ASSUME NEW store, NEW k \in DOMAIN store, store[k].expires > clock
    PROVE  k \in DOMAIN Purged(store) /\ Purged(store)[k] = store[k]
BY DEF Purged, Restrict

\* Taking one entry out leaves the others.
LEMMA OthersKept ==
    ASSUME NEW id \in DOMAIN pending, pending[id].expires > clock, NEW other, other # id,
           pending' = Without(Purged(pending), other)
    PROVE  id \in DOMAIN pending'
BY InTimeKept DEF Without, Restrict

\* What each continuation does to the request it continues.
LEMMA ContinuedKept ==
    ASSUME NEW id \in DOMAIN pending, ContinueApproved(id) \/ ContinueRefused(id)
    PROVE  Kept(id)
<1> SUFFICES ASSUME pending[id].expires > clock
             PROVE  Kept(id)
  BY DEF Kept
<1>1. id \in DOMAIN Purged(pending) /\ Purged(pending)[id] = pending[id]
  BY InTimeKept
<1>2. CASE ContinueApproved(id)
  <2>1. PICK entry : entry = [request |-> pending[id].request, expires |-> clock + CodeTtl,
                              consent |-> id]
    OBVIOUS
  <2>2. codes' = Insert(Purged(codes), lastCode + 1, entry) /\ pending[id].status = "approved"
    BY <1>1, <1>2, <2>1 DEF ContinueApproved
  <2>3. lastCode + 1 \in DOMAIN codes' /\ codes'[lastCode + 1].consent = id
    BY <2>1, <2>2 DEF Insert
  <2> QED
    BY <2>2, <2>3 DEF Kept
<1>3. CASE ContinueRefused(id)
  <2>1. \/ pending[id].status = "denied"
        \/ pending[id].status = "approved" /\ ~ Deliverable(pending[id].request)
        \/ pending[id].status = "approved" /\ Full(Purged(codes))
    BY <1>1, <1>3 DEF ContinueRefused
  <2>2. DOMAIN Purged(codes) = {c \in DOMAIN codes : codes[c].expires > clock}
    BY DEF Purged, Restrict
  <2> QED
    BY <2>1, <2>2 DEF Kept, Full
<1> QED
  BY <1>2, <1>3

\* Nothing but a restart and its own continuation touches a request in its
\* time.
LEMMA StepKept ==
    ASSUME OAuthNext, NEW id \in DOMAIN pending
    PROVE  Kept(id)
<1> SUFFICES ASSUME pending[id].expires > clock, id \notin DOMAIN pending', ~ OAuthRestart
             PROVE  Kept(id)
  BY DEF Kept
<1>1. id \in DOMAIN Purged(pending)
  BY InTimeKept
<1>2. pending' # pending /\ pending' # Purged(pending)
  BY <1>1
<1>3. ASSUME NEW k, NEW entry PROVE pending' # Insert(Purged(pending), k, entry)
  BY <1>1 DEF Insert
<1>4. ASSUME NEW r \in Requests, StartAuthorization(r) PROVE FALSE
  BY <1>3, <1>4 DEF StartAuthorization
<1>5. ASSUME NEW k \in DOMAIN pending, NEW decision \in {"approved", "denied"}, Decide(k, decision)
      PROVE  FALSE
  BY <1>3, <1>5 DEF Decide
<1>6. ASSUME NEW k \in DOMAIN pending, ContinueApproved(k) \/ ContinueRefused(k)
      PROVE  Kept(id)
  <2>1. pending' = Without(Purged(pending), k)
    BY <1>6 DEF ContinueApproved, ContinueRefused
  <2>2. k = id
    BY <2>1, OthersKept
  <2> QED
    BY <1>6, <2>2, ContinuedKept
<1>7. ASSUME NEW code \in DOMAIN codes, NEW params \in Params, Redeem(code, params)
      PROVE  FALSE
  BY <1>2, <1>7 DEF Redeem
<1>8. ASSUME NEW x \in redeeming, IssueToken(x) \/ RefuseToken(x) \/ IssuanceFails(x)
      PROVE  FALSE
  BY <1>2, <1>8 DEF IssueToken, RefuseToken, IssuanceFails
<1>9. ~ (PendingLookup \/ CodeLookup \/ OAuthTick)
  BY <1>2 DEF PendingLookup, CodeLookup, OAuthTick
<1> QED
  BY <1>4, <1>5, <1>6, <1>7, <1>8, <1>9 DEF OAuthNext

\* However many requests others start and however full the stores are, a
\* request in its time keeps its place until its own client continues it or
\* the gateway restarts, and an approval is used up without a code only when
\* the redirect cannot be built or live codes take all the room.
THEOREM ConsentsKept == OAuthSpec => ConsentKept
<1>1. ASSUME [OAuthNext]_oauthVars
      PROVE  [\A id \in DOMAIN pending :
                pending[id].expires > clock /\ id \notin DOMAIN pending' =>
                   \/ OAuthRestart
                   \/ pending[id].status = "denied"
                   \/ /\ pending[id].status = "approved"
                      /\ \/ \E c \in DOMAIN codes' : codes'[c].consent = id
                         \/ ~ Deliverable(pending[id].request)
                         \/ Cardinality({c \in DOMAIN codes : codes[c].expires > clock}) >= MaxEntries
             ]_oauthVars
  BY <1>1, StepKept DEF Kept
<1> QED
  BY <1>1, PTL DEF OAuthSpec, ConsentKept
=============================================================================
