--------------------------- MODULE ProxyDatagram ---------------------------
(***************************************************************************)
(* One datagram on its way through a chain of two UDP gateways:            *)
(* ParseDatagram, the header for direct ones, FormatDatagram and the       *)
(* ParseDatagram of the next hop (proxyproto/goproxyproto/datagram.go,     *)
(* proxyproto/proxyproto.go).  A datagram is its length and the fields the *)
(* parser looks at.                                                        *)
(***************************************************************************)
EXTENDS ProxyHeader, Integers

CONSTANTS Lengths, AddrLengths   \* the lengths that occur; header length fields

(* The length field of a header has 16 bits.                               *)
ASSUME LengthsAssumption ==
    Lengths \subseteq Nat /\ AddrLengths \subseteq {n \in Nat : n < 2^16}

(* lead: the first bytes are the v2 signature, a carriage return that does *)
(* not begin one, the v1 signature "PROXY ", or anything else.             *)
Leads == {"v2", "cr", "v1", "other"}
FamProtos == {"tcp4", "tcp6", "udp4", "udp6", "unknown"}
V2Datagrams(versions, commands, addrLens) ==
    [lead : {"v2"}, len : Lengths, ver : versions, cmd : commands,
     fam : FamProtos, addrLen : addrLens, src : {"mapped", "v6"}, dst : {"mapped", "v6"}]

WireDatagrams ==
    {d \in V2Datagrams({1, 2}, {0, 1}, AddrLengths) : d.len >= 12}
        \cup [lead : {"cr", "v1", "other"}, len : Lengths]

Malformed == [ok |-> FALSE]
Parsed(src, hdr, payload) == [ok |-> TRUE, src |-> src, hdr |-> hdr, payload |-> payload]

(* Addresses that fill four or sixteen bytes; anything behind them in the  *)
(* address block is skipped.                                               *)
AddrBlock(fam) == IF fam \in {"tcp4", "udp4"} THEN 12 ELSE 36
WireForm(fam, ip) == IF fam \in {"tcp4", "udp4"} THEN "v4" ELSE ip

(* Faulty form: the length field is not checked against the datagram.      *)
ParseV2_NoBounds(d) ==
    IF d.len >= 16 /\ d.ver = 2 /\ d.cmd = 1 /\ d.fam # "unknown"
       /\ d.addrLen >= AddrBlock(d.fam)
    THEN Parsed("v2", [src |-> WireForm(d.fam, d.src), dst |-> WireForm(d.fam, d.dst),
                       family |-> d.fam],
                d.len - 16 - d.addrLen)
    ELSE Malformed

ParseV2(d) ==
    IF /\ d.len >= 16 /\ 16 + d.addrLen <= d.len
       /\ d.ver = 2 /\ d.cmd = 1
       /\ d.fam # "unknown" /\ d.addrLen >= AddrBlock(d.fam)
    THEN Parsed("v2", [src |-> WireForm(d.fam, d.src), dst |-> WireForm(d.fam, d.dst),
                       family |-> d.fam],
                d.len - 16 - d.addrLen)
    ELSE Malformed

ParseDatagram(d) ==
    CASE d.lead = "v2" -> ParseV2(d)
      [] d.lead = "v1" -> Malformed
      [] OTHER         -> Parsed("direct", Unspec, d.len)

(* addrsFromHeader decides the network; the library picks the family from  *)
(* both ends, maps an IPv4 end of a mixed pair to ::ffff:, and without two *)
(* addresses falls back to a LOCAL frame that has none.                    *)
FormatDatagram(h, payload) ==
    LET udp == h.family \in {"udp4", "udp6"}
        v4  == IsV4(h.src) /\ IsV4(h.dst)
        Six(ip) == IF IsV4(ip) THEN "mapped" ELSE ip
        fam == CASE v4 /\ udp -> "udp4" [] v4 /\ ~udp -> "tcp4"
                 [] ~v4 /\ udp -> "udp6" [] ~v4 /\ ~udp -> "tcp6"
    IN
    IF "nil" \in {h.src, h.dst}
    THEN [lead |-> "v2", len |-> 16 + payload, ver |-> 2, cmd |-> 0, fam |-> "unknown",
          addrLen |-> 0, src |-> "v6", dst |-> "v6"]
    ELSE [lead |-> "v2", len |-> 16 + AddrBlock(fam) + payload, ver |-> 2, cmd |-> 1,
          fam |-> fam, addrLen |-> AddrBlock(fam), src |-> Six(h.src), dst |-> Six(h.dst)]

-----------------------------------------------------------------------------
(* The peer and the listener's own address as ReadFromUDP and LocalAddr    *)
(* give them: an IPv6 peer needs an IPv6 listener, a wildcard one ("v6",   *)
(* as its address is ::) takes both.                                       *)
SocketPairs == ({"v4", "mapped"} \X {"v4", "zero4", "v6"}) \cup {<<"v6", "v6">>}

VARIABLES at, dgram, peer, parsed, out, next
vars == <<at, dgram, peer, parsed, out, next>>

Init ==
    /\ at = "received"
    /\ dgram \in WireDatagrams /\ peer \in SocketPairs
    /\ parsed = Malformed /\ out = dgram /\ next = Malformed

Parse ==
    /\ at = "received"
    /\ parsed' = ParseDatagram(dgram)
    /\ at' = IF ParseDatagram(dgram).ok THEN "parsed" ELSE "dropped"
    /\ UNCHANGED <<dgram, peer, out, next>>

(* A direct datagram gets the header of its socket, a declared one keeps   *)
(* its own.                                                                *)
OutHeader == IF parsed.src = "direct" THEN HeaderFromAddrs("udp", peer[1], "udp", peer[2])
                                      ELSE parsed.hdr

Format ==
    /\ at = "parsed" /\ at' = "sent"
    /\ out' = FormatDatagram(OutHeader, parsed.payload)
    /\ UNCHANGED <<dgram, peer, parsed, next>>

NextHop ==
    /\ at = "sent" /\ at' = "arrived"
    /\ next' = ParseDatagram(out)
    /\ UNCHANGED <<dgram, peer, parsed, out>>

Next == Parse \/ Format \/ NextHop
Spec == Init /\ [][Next]_vars

-----------------------------------------------------------------------------
(* A datagram is taken for payload only if it carries no PROXY signature,  *)
(* and an accepted header lies inside it, whatever its length fields say.  *)
HeaderInsideDatagram ==
    at # "received" /\ parsed.ok =>
        IF dgram.lead = "v2"
        THEN /\ parsed.src = "v2" /\ parsed.payload >= 0
             /\ 16 + AddrBlock(dgram.fam) + parsed.payload <= dgram.len
        ELSE dgram.lead # "v1" /\ parsed.src = "direct" /\ parsed.payload = dgram.len

SameAddress(a, b) == a = b \/ {a, b} = {"v4", "mapped"} \/ {a, b} = {"v4", "zero4"}

(* Whatever a gateway forwards, the next gateway reads back: the same      *)
(* source and destination, the same network, the same payload.  No         *)
(* accepted datagram, direct ones on a dual-stack listener included,       *)
(* becomes one the next hop drops.                                         *)
NextHopAgrees ==
    at = "arrived" =>
        /\ next.ok /\ next.src = "v2" /\ next.payload = parsed.payload
        /\ SameAddress(next.hdr.src, OutHeader.src)
        /\ SameAddress(next.hdr.dst, OutHeader.dst) \/ OutHeader.dst = "zero4"
        /\ (next.hdr.family \in {"udp4", "udp6"}) = (OutHeader.family \in {"udp4", "udp6"})
        /\ parsed.src = "direct" => SameAddress(next.hdr.src, peer[1])

=============================================================================
