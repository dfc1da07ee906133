---------------------------- MODULE MCUdpGateway ----------------------------
(* Constants of UdpGateway for TLC. *)
EXTENDS UdpGateway, TLC
CONSTANTS trusty, stray, h1, h2
\* one peer inside the trusted network, one outside it
OneNet == {{trusty}}
NoNets == {}
SidSymmetry == Permutations(Sids)
RaceSymmetry == Permutations(Sids) \cup Permutations(Handlers)
============================================================================
