---------------------------- MODULE ProxyHeader ----------------------------
(***************************************************************************)
(* PROXY headers as the gateways build, read and check them                *)
(* (internal/proxyproto).  An address is abstracted to its form, which is  *)
(* all the code looks at: "v4" (net.IP.To4 succeeds and the address is a   *)
(* plain IPv4 one), "mapped" (::ffff:a.b.c.d, To4 succeeds too), "zero4"   *)
(* (0.0.0.0), "v6" (To4 is nil) and "nil".                                 *)
(***************************************************************************)

Forms    == {"v4", "mapped", "zero4", "v6", "nil"}
Families == {"unspec", "tcp4", "tcp6", "udp4", "udp6"}

HeaderSet == [src : Forms, dst : Forms, family : Families]

(* The zero Header: no addresses, nothing claimed.                         *)
Unspec == [src |-> "nil", dst |-> "nil", family |-> "unspec"]

IsV4(ip) == ip \in {"v4", "mapped", "zero4"}

(* net.IP.To4: the four-byte form, nil when there is none.                 *)
To4(ip) == IF ip = "mapped" THEN "v4" ELSE IF IsV4(ip) THEN ip ELSE "nil"

(* Faulty form: the destination is To4 of a dual-stack wildcard, nil.      *)
BuildAddrHeader_NilDst(src, dst, famV4, famV6) ==
    IF IsV4(src) THEN [src |-> To4(src), dst |-> To4(dst), family |-> famV4]
                 ELSE [src |-> src, dst |-> dst, family |-> famV6]

(* buildAddrHeader: the family follows the source; an IPv4 source with a   *)
(* destination that has no IPv4 form (a dual-stack wildcard listener) gets *)
(* 0.0.0.0 as its destination.                                             *)
BuildAddrHeader(src, dst, famV4, famV6) ==
    IF IsV4(src)
    THEN [src |-> To4(src), dst |-> IF IsV4(dst) THEN To4(dst) ELSE "zero4",
          family |-> famV4]
    ELSE [src |-> src, dst |-> dst, family |-> famV6]

(* HeaderFromAddrs: the network of both ends decides the family, two       *)
(* different networks give the zero header.                                *)
HeaderFromAddrs(srcNet, src, dstNet, dst) ==
    CASE srcNet # dstNet  -> Unspec
      [] srcNet = dstNet /\ srcNet = "tcp" -> BuildAddrHeader(src, dst, "tcp4", "tcp6")
      [] srcNet = dstNet /\ srcNet = "udp" -> BuildAddrHeader(src, dst, "udp4", "udp6")
      [] OTHER            -> Unspec

(* What the stream reader makes of the addresses of a parsed header: the   *)
(* destination is forced through To4 after an IPv4 source.                 *)
ReadHeader(src, dst) ==
    IF IsV4(src) THEN [src |-> To4(src), dst |-> To4(dst), family |-> "tcp4"]
                 ELSE [src |-> src, dst |-> dst, family |-> "tcp6"]

(* The declared family agrees with each address; nil addresses never do.   *)
FamilyMatchesAddrs(h) ==
    \/ h.family = "tcp4" /\ IsV4(h.src) /\ IsV4(h.dst)
    \/ h.family = "tcp6" /\ h.src = "v6" /\ h.dst = "v6"
    \/ h.family = "unspec"

=============================================================================
