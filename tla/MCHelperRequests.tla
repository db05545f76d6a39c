------------------------- MODULE MCHelperRequests --------------------------
(***************************************************************************)
(* A small instance of HelperRequests for TLC.                             *)
(***************************************************************************)
EXTENDS HelperRequests

\* Enough of the first child to overflow, together and on one stream.
SomeWrites == <<2, 1>>

CommandScopes == [name \in {"build", "other"} |-> IF name = "build" THEN "p.build" ELSE "p.other"]

Entry(authority, mutates, scope) ==
    [name |-> "build", authority |-> authority, mutates |-> mutates, scope |-> scope,
     outside |-> TRUE]

Observer == Entry("invoke", FALSE, "p.build")
Mutator  == Entry("mutate_scoped", TRUE, "p.build")

\* Registries: either policy, a policy that is not coherent.
SomeRegistries ==
    {<<Observer>>, <<Mutator>>, <<Entry("invoke", TRUE, "p.build")>>}

Binary(id, native) == [id |-> id, native |-> native, executable |-> TRUE, symlink |-> FALSE]

\* Two binaries and a script.
SomePrograms == {Binary(1, TRUE), Binary(2, TRUE), Binary(3, FALSE)}

\* Grants that allow invoking, mutating, and neither.
SomeGrants ==
    {NoGrant,
     [depth |-> 5, authority |-> 1, scopes |-> {"p.build"}],
     [depth |-> 6, authority |-> 3, scopes |-> {"p.*"}],
     [depth |-> 5, authority |-> 3, scopes |-> {"p.other"}]}

AllOfP == [w \in {"p.*"} |-> {"p.build", "p.other"}]

-----------------------------------------------------------------------------
Id(host) == [url |-> "u", wellformed |-> TRUE, https |-> TRUE, bare |-> TRUE, path |-> "ok",
             localhost |-> FALSE, host |-> host]

Public4 == V4(93, 184, 216, 34)
Other4  == V4(8, 8, 8, 8)
Public6 == V6(<<38, 6, 71, 0>>)

\* Names, an address, and identifiers that are refused.
SomeDiscoveries ==
    {<<Id(NotIp), "portable", t>> : t \in {99, 100, 150, 3000, 10001}}
    \cup {<<Id(NotIp), "single", 3000>>, <<Id(Public4), "portable", 3000>>,
          <<Id(V4(127, 0, 0, 1)), "portable", 3000>>,
          <<[Id(NotIp) EXCEPT !.path = "dots"], "portable", 3000>>}

Plain(ip) == [ip |-> ip, bracketed |-> FALSE]

\* The addresses on both sides of the ends of the blocks.
Edges ==
    {V4(0, 255, 0, 0), V4(1, 0, 0, 0), V4(9, 255, 0, 0), V4(10, 0, 0, 0), V4(11, 0, 0, 0),
     V4(100, 63, 255, 0), V4(100, 64, 0, 0), V4(100, 127, 255, 0), V4(100, 128, 0, 0),
     V4(126, 255, 0, 0), V4(127, 0, 0, 1), V4(128, 0, 0, 0),
     V4(169, 253, 0, 0), V4(169, 254, 0, 0), V4(169, 255, 0, 0),
     V4(172, 15, 0, 0), V4(172, 16, 0, 0), V4(172, 31, 0, 0), V4(172, 32, 0, 0),
     V4(192, 0, 0, 9), V4(192, 0, 1, 0), V4(192, 0, 2, 0), V4(192, 0, 3, 0),
     V4(192, 88, 98, 0), V4(192, 88, 99, 0), V4(192, 167, 0, 0), V4(192, 168, 0, 0),
     V4(192, 169, 0, 0), V4(198, 17, 0, 0), V4(198, 18, 0, 0), V4(198, 19, 0, 0),
     V4(198, 20, 0, 0), V4(198, 51, 99, 0), V4(198, 51, 100, 0), V4(203, 0, 112, 0),
     V4(203, 0, 113, 0), V4(223, 255, 0, 0), V4(224, 0, 0, 0), V4(239, 0, 0, 0),
     V4(240, 0, 0, 0), V4(255, 255, 255, 255),
     V6(<<0, 255>>), V6(<<1, 0, 0, 0, 0, 0, 0, 1>>), V6(<<1>>), V6(<<32, 1, 1, 255>>),
     V6(<<32, 1, 2>>), V6(<<32, 1, 13, 184>>), V6(<<32, 1, 13, 185>>), V6(<<32, 2>>),
     V6(<<32, 3>>), V6(<<63, 255, 15>>), V6(<<63, 255, 16>>), V6(<<251>>), V6(<<253>>),
     V6(<<254>>), V6(<<254, 127>>), V6(<<254, 191>>), V6(<<254, 192>>), V6(<<255>>)}

Together(addresses) == FoldSet(LAMBDA ip, seq : Append(seq, Plain(ip)), <<>>, addresses)

Usable == {ip \in Edges : ~Reserved(ip)}

\* One unusable address; the usable ones; none; too many; one twice; both families; one bad among good.
SomeResolutions ==
    {<<Plain(ip)>> : ip \in Edges \ Usable} \cup
    {Together({ip \in Usable : ip.version = 6}),
     Together({ip \in Usable : ip.version = 4 /\ ip.bytes[1] < 150}),
     Together({ip \in Usable : ip.version = 4 /\ ip.bytes[1] > 150}),
     <<>>, [i \in 1..17 |-> Plain(Public4)],
     <<Plain(Public6), [ip |-> Public6, bracketed |-> TRUE]>>,
     <<Plain(Public6), Plain(Other4), Plain(Public4)>>,
     <<Plain(Public4), Plain(V4(10, 0, 0, 1))>>, <<Plain(Public4), Plain(NotIp)>>}

SomePeers == Edges \cup {Public4, Other4, Public6, NotIp}

Document == [fits |-> TRUE, object |-> TRUE, client_id |-> "u", name |-> TRUE, redirects |-> TRUE,
             secret |-> FALSE, public |-> TRUE, code_grant |-> TRUE, code_response |-> TRUE]

Reply == [complete |-> TRUE, status |-> 200, json |-> TRUE, utf8 |-> TRUE, document |-> Document]

SomeReplies ==
    {Reply, [Reply EXCEPT !.status = 302], [Reply EXCEPT !.json = FALSE],
     [Reply EXCEPT !.complete = FALSE], [Reply EXCEPT !.document.client_id = "v"],
     [Reply EXCEPT !.document.secret = TRUE]}
=============================================================================
