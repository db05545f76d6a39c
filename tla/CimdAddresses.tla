--------------------------- MODULE CimdAddresses ---------------------------
(***************************************************************************)
(* IP addresses as oauth-cimd-network.ts judges them, after parsing: a     *)
(* version and its 4 or 16 bytes.  SpecialUse is the code's byte tests;    *)
(* Reserved is the reference: a list of blocks, compared bit by bit.       *)
(***************************************************************************)
EXTENDS Integers, Sequences

V4(a, b, c, d) == [version |-> 4, bytes |-> <<a, b, c, d>>]

\* An IPv6 address from its first bytes, the rest zero.
V6(head) == [version |-> 6, bytes |-> [i \in 1..16 |-> IF i <= Len(head) THEN head[i] ELSE 0]]

Byte == 0..255

\* Every address: what isIP accepts parses to 4 or to 16 bytes.
Addresses ==
    [version : {4}, bytes : [1..4 -> Byte]] \cup [version : {6}, bytes : [1..16 -> Byte]]

\* What a resolver returns may not be an address at all.
NotIp == [version |-> 0, bytes |-> <<>>]

-----------------------------------------------------------------------------
\* Mutant: the shared address space is tested as one /16 too few.
Ipv4SpecialUseShort(a, b, c) ==
    \/ a \in {0, 10, 127}
    \/ a = 100 /\ b \in 64..126
    \/ a = 169 /\ b = 254
    \/ a = 172 /\ b \in 16..31
    \/ a = 192 /\ b = 0 /\ c \in {0, 2}
    \/ a = 192 /\ b = 88 /\ c = 99
    \/ a = 192 /\ b = 168
    \/ a = 198 /\ b \in {18, 19}
    \/ a = 198 /\ b = 51 /\ c = 100
    \/ a = 203 /\ b = 0 /\ c = 113
    \/ a >= 224

\* ipv4SpecialUse
Ipv4SpecialUse(a, b, c) ==
    \/ a \in {0, 10, 127}
    \/ a = 100 /\ b \in 64..127
    \/ a = 169 /\ b = 254
    \/ a = 172 /\ b \in 16..31
    \/ a = 192 /\ b = 0 /\ c \in {0, 2}
    \/ a = 192 /\ b = 88 /\ c = 99
    \/ a = 192 /\ b = 168
    \/ a = 198 /\ b \in {18, 19}
    \/ a = 198 /\ b = 51 /\ c = 100
    \/ a = 203 /\ b = 0 /\ c = 113
    \/ a >= 224

\* The bits of a byte, from the first.
Weights == <<128, 64, 32, 16, 8, 4, 2, 1>>

\* prefixMatches: whole bytes, then the first bits of one byte under a mask.
PrefixMatches(bytes, prefix, bits) ==
    LET whole == bits \div 8
        unit  == Weights[bits % 8]
    IN  /\ \A i \in 1..whole : bytes[i] = prefix[i]
        /\ bits % 8 # 0 => bytes[whole + 1] \div unit = prefix[whole + 1] \div unit

\* ipv6SpecialUse
Ipv6Prefixes ==
    {<<<<0>>, 8>>,
     <<<<0, 100, 255, 155, 0, 0, 0, 0, 0, 0, 0, 0>>, 96>>,
     <<<<1, 0, 0, 0, 0, 0, 0, 0>>, 64>>,
     <<<<32, 1, 0>>, 23>>,
     <<<<32, 1, 13, 184>>, 32>>,
     <<<<32, 2>>, 16>>,
     <<<<63, 255, 0>>, 20>>,
     <<<<252>>, 7>>,
     <<<<254, 128>>, 10>>,
     <<<<255>>, 8>>}

\* isSpecialUseIpAddress
SpecialUse(ip) ==
    IF ip.version = 4 THEN Ipv4SpecialUse(ip.bytes[1], ip.bytes[2], ip.bytes[3])
    ELSE IF ip.version = 6 THEN \E p \in Ipv6Prefixes : PrefixMatches(ip.bytes, p[1], p[2])
    ELSE TRUE

-----------------------------------------------------------------------------
\* The same blocks, written as <<version, first address, prefix length>>: this
\* host, private, loopback, shared, link local, protocol assignments and
\* anycast, documentation, 6to4, benchmarking, multicast and reserved.
Blocks4 ==
    {<<4, <<0, 0, 0, 0>>, 8>>, <<4, <<10, 0, 0, 0>>, 8>>, <<4, <<127, 0, 0, 0>>, 8>>,
     <<4, <<100, 64, 0, 0>>, 10>>, <<4, <<169, 254, 0, 0>>, 16>>, <<4, <<172, 16, 0, 0>>, 12>>,
     <<4, <<192, 0, 0, 0>>, 24>>, <<4, <<192, 0, 2, 0>>, 24>>, <<4, <<192, 88, 99, 0>>, 24>>,
     <<4, <<192, 168, 0, 0>>, 16>>, <<4, <<198, 18, 0, 0>>, 15>>, <<4, <<198, 51, 100, 0>>, 24>>,
     <<4, <<203, 0, 113, 0>>, 24>>, <<4, <<224, 0, 0, 0>>, 4>>, <<4, <<240, 0, 0, 0>>, 4>>}

Blocks6 ==
    {<<6, V6(<<0>>).bytes, 8>>, <<6, V6(<<0, 100, 255, 155>>).bytes, 96>>,
     <<6, V6(<<1>>).bytes, 64>>, <<6, V6(<<32, 1>>).bytes, 23>>,
     <<6, V6(<<32, 1, 13, 184>>).bytes, 32>>, <<6, V6(<<32, 2>>).bytes, 16>>,
     <<6, V6(<<63, 255>>).bytes, 20>>, <<6, V6(<<252>>).bytes, 7>>,
     <<6, V6(<<254, 128>>).bytes, 10>>, <<6, V6(<<255>>).bytes, 8>>}

Bit(bytes, i) == (bytes[(i \div 8) + 1] \div Weights[(i % 8) + 1]) % 2

InBlock(ip, block) ==
    /\ ip.version = block[1]
    /\ \A i \in 0..(block[3] - 1) : Bit(ip.bytes, i) = Bit(block[2], i)

Reserved(ip) == \E block \in Blocks4 \cup Blocks6 : InBlock(ip, block)
=============================================================================
