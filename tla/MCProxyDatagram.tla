-------------------------- MODULE MCProxyDatagram --------------------------
(* Constants of ProxyDatagram for TLC: the lengths around every boundary    *)
(* the parser tests (signature, fixed header, IPv4 and IPv6 blocks).       *)
EXTENDS ProxyDatagram
BoundaryLengths == {0, 1, 11, 12, 15, 16, 27, 28, 29, 51, 52, 60}
BoundaryAddrLengths == {0, 11, 12, 13, 35, 36, 37, 65535}
============================================================================
