-------------------------- MODULE MCSeedPeerSelector --------------------------
(* Small instances of SeedPeerSelector over two seed peers, a and b.         *)
EXTENDS SeedPeerSelector

CONSTANTS a, b, empty, ip1, ip2, garbled

MCNames == {a, b, empty}

Host(n, ip) == [name |-> n, ip |-> ip]
Peer(n, h) == [host |-> Host(n, ip1), healthy |-> h]

\* No host, two hosts of one name, and one of two with an unparsable ip.
MCClusters ==
    {{}, {Host(a, ip1), Host(a, ip2)}, {Host(a, ip1), Host(b, garbled)}}

\* Valid lists of one and two names, and the two ways to be invalid.
MCSubmissions ==
    {<<>>, <<Peer(b, FALSE), Peer(b, TRUE)>>,
     <<Peer(a, TRUE)>>, <<Peer(b, TRUE), Peer(a, FALSE)>>}
================================================================================
