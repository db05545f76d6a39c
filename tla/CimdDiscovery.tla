--------------------------- MODULE CimdDiscovery ---------------------------
(***************************************************************************)
(* Discovery of an OAuth client's metadata document                        *)
(* (oauth-cimd-discovery.ts and what it calls): the client id is a URL;    *)
(* its host is resolved once, every address is judged, and curl fetches    *)
(* the document from addresses that were pinned for it.  Two transports:   *)
(* "portable" (oauth-cimd-curl-runtime.ts, the one server.ts uses) tries   *)
(* one address of each family, one after the other; "single"               *)
(* (oauth-cimd-curl-transport.ts) gives curl all of them.                  *)
(*                                                                         *)
(* DNS, curl and the remote server are external: a resolution is any of    *)
(* Resolutions, curl may end up at any address, and the answer is any of   *)
(* Replies.  An identifier, a reply and a document are records of what the *)
(* validators find in them.                                                *)
(***************************************************************************)
EXTENDS ChildRunner, CimdAddresses, Functions, FiniteSetsExt

CONSTANTS
    Resolutions,    \* sequences of [ip, bracketed]: what the resolver may return
    Peers,          \* addresses curl may report
    Replies         \* [complete, status, json, utf8, document]

\* An answer of the resolver: what isIP takes for an address has its bytes.
Resolved == [ip : Addresses \cup {NotIp}, bracketed : BOOLEAN]

ASSUME ResolutionsAssumption == Resolutions \subseteq Seq(Resolved)

VARIABLE disc   \* the discovery

NoDiscovery == [pc |-> "none"]

Discovery(id, transport, timeout) ==
    [pc |-> "validate", id |-> id, transport |-> transport, timeout |-> timeout,
     resolved |-> <<>>, vetted |-> <<>>, attempts |-> <<>>, next |-> 1, peer |-> NotIp,
     document |-> "none", cause |-> "none", answer |-> "none"]

-----------------------------------------------------------------------------
\* validateCimdClientId: bare is "no user, query, fragment"; path is "ok",
\* "none", "root" or "dots"; host is an address or NotIp for a name.
ValidClientId(id) ==
    /\ id.wellformed /\ id.https /\ id.bare
    /\ id.path = "ok"
    /\ ~id.localhost
    /\ id.host = NotIp \/ ~SpecialUse(id.host)

\* validateCimdResolvedAddresses: one address that is not usable spoils all.
SafeResolution(addresses) ==
    /\ Len(addresses) \in 1..16
    /\ \A i \in DOMAIN addresses : addresses[i].ip # NotIp /\ ~SpecialUse(addresses[i].ip)

\* The addresses without brackets and without repetition, in order of
\* insertion: each is kept under the place where it comes first.
Unique(addresses) ==
    [i \in {k \in DOMAIN addresses : \A m \in 1..(k - 1) : addresses[m].ip # addresses[k].ip} |->
        addresses[i].ip]

\* preferredAddresses: the first of each family, IPv4 first.
FirstOf(unique, version) ==
    LET those == {i \in DOMAIN unique : unique[i].version = version}
    IN  IF those = {} THEN <<>> ELSE <<unique[Min(those)]>>

PreferredAddresses(unique) == FirstOf(unique, 4) \o FirstOf(unique, 6)

\* The address set of each curl invocation.
Attempts(transport, unique) ==
    IF transport = "single" THEN <<Range(unique)>>
    ELSE [i \in DOMAIN PreferredAddresses(unique) |-> {PreferredAddresses(unique)[i]}]

\* Mutant: the budget is divided without a floor.
AttemptTimeoutDivided(timeout, attempts) == timeout \div attempts

AttemptTimeout(timeout, attempts) == Max({100, timeout \div attempts})

\* buildPortableCimdCurlInvocation, buildCimdCurlInvocation: the request is
\* within the transport's contract.
Accepted(d) ==
    LET t == IF d.transport = "single" THEN d.timeout
             ELSE AttemptTimeout(d.timeout, Len(d.attempts))
    IN  t >= 100 /\ t <= d.timeout

\* validateCimdDocument
ValidDocument(id, doc) ==
    /\ doc.fits /\ doc.object
    /\ doc.client_id = id.url
    /\ doc.name /\ doc.redirects
    /\ ~doc.secret /\ doc.public
    /\ doc.code_grant /\ doc.code_response

-----------------------------------------------------------------------------
Fail(d, error) == [d EXCEPT !.pc = "done", !.answer = error]

FetchFailed(d, cause) == [Fail(d, "fetch_failed") EXCEPT !.cause = cause]

\* The timeouts discoverCimdClient fetches with: 100 milliseconds to 10 seconds.
Timeouts == 100..(10 * 1000)

\* The part of discoverCimdClient between the resolution and the transport.
Vet(d, addresses) ==
    LET unique == Unique(addresses)
        seen   == [d EXCEPT !.resolved = addresses]
    IN  IF ~SafeResolution(addresses) THEN Fail(seen, "unsafe_resolution")
        ELSE IF d.timeout \notin Timeouts THEN FetchFailed(seen, "timeout_ms")
        ELSE [seen EXCEPT !.pc = "fetch", !.vetted = unique,
                          !.attempts = Attempts(d.transport, unique)]

\* discoverCimdClient up to the resolver.  A host that is an address needs none.
Validate ==
    /\ disc.pc = "validate"
    /\ disc' = IF ~ValidClientId(disc.id) THEN Fail(disc, "invalid_client_id")
               ELSE IF disc.id.host # NotIp
               THEN Vet(disc, <<[ip |-> disc.id.host, bracketed |-> FALSE]>>)
               ELSE [disc EXCEPT !.pc = "resolve"]
    /\ UNCHANGED job

Resolve ==
    /\ disc.pc = "resolve"
    /\ \/ disc' = Fail(disc, "resolution_failed")
       \/ \E addresses \in Resolutions : disc' = Vet(disc, addresses)
    /\ UNCHANGED job

\* The next curl: the invocation is built, for which the portable transport looks
\* for the binary again, and spawned.
Attempt ==
    /\ disc.pc = "fetch"
    /\ \/ disc.transport # "single" /\ disc' = FetchFailed(disc, "binary") /\ UNCHANGED job
       \/ ~Accepted(disc) /\ disc' = FetchFailed(disc, "contract") /\ UNCHANGED job
       \/ /\ Accepted(disc)
          /\ disc' = [disc EXCEPT !.pc = "wait"]
          /\ \E c \in Spawned("curl") \cup {SpawnThrows("curl")} :
                job' = [job EXCEPT ![disc.next] = c]

\* A curl that failed: the next address, if there is one.
AttemptFailed ==
    /\ disc.pc = "wait"
    /\ job[disc.next].answer \notin {"none", "ok"}
    /\ disc' = IF disc.next < Len(disc.attempts)
               THEN [disc EXCEPT !.pc = "fetch", !.next = @ + 1]
               ELSE FetchFailed(disc, "exhausted")
    /\ UNCHANGED job

\* The peer is one this curl was pinned to.
PeerPinned(d, peer) == peer \in d.attempts[d.next]

\* The transport's checks of curl's report, then those of discoverCimdClient.
Judge(d, peer, reply) ==
    IF ~reply.complete \/ ~PeerPinned(d, peer) \/ ~reply.utf8 THEN FetchFailed(d, "reply")
    ELSE IF peer \notin Range(d.vetted) THEN Fail(d, "peer_mismatch")
    ELSE IF reply.status # 200 THEN Fail(d, "http_status")
    ELSE IF ~reply.json THEN Fail(d, "invalid_content_type")
    ELSE IF ~ValidDocument(d.id, reply.document) THEN Fail(d, "invalid_document")
    ELSE [Fail(d, "ok") EXCEPT !.peer = peer, !.document = reply.document.client_id]

AttemptAnswered ==
    /\ disc.pc = "wait"
    /\ job[disc.next].answer = "ok"
    /\ \E peer \in Peers, reply \in Replies : disc' = Judge(disc, peer, reply)
    /\ UNCHANGED job

CimdNext == Validate \/ Resolve \/ Attempt \/ AttemptFailed \/ AttemptAnswered
=============================================================================
