---------------------------- MODULE MCSmcpInbound ----------------------------
(* Model values for SmcpInbound: two IPv6 peers on the CoAP port, as the   *)
(* struct sockaddr_in6 bytes the BSD-socket build feeds to the hash.        *)
EXTENDS SmcpInbound

\* sin6_family AF_INET6 (host order), sin6_port 5683 (network order),
\* sin6_flowinfo, sin6_addr ::a, sin6_scope_id.
Sockaddr(a) ==
    <<10, 0, 22, 51>> \o <<0, 0, 0, 0>>
        \o [i \in 1 .. 16 |-> IF i = 16 THEN a ELSE 0] \o <<0, 0, 0, 0>>

MCPeerBytes == [p \in {"p1", "p2"} |-> IF p = "p1" THEN Sockaddr(1) ELSE Sockaddr(2)]
MCCodes == {EMPTY, GET, PUT, 69}
=============================================================================
