---------------------------- MODULE MCTcpGateway ----------------------------
(* Constants of TcpGateway for TLC. *)
EXTENDS TcpGateway, TLC
CONSTANTS c1, c2, c3
\* c1 is inside the one trusted network
OneNet == {{c1}}
NoNets == {}
PlainHeader == {<<"v4", "v4">>}
\* an AF_INET header, and every AF_INET6 header a client can put on the wire
AllHeaders == {<<"v4", "v4">>} \cup ({"mapped", "v6"} \X {"mapped", "v6"})
ConnSymmetry == Permutations(Conns)
============================================================================
