------------------------ MODULE ProxyDatagramProofs ------------------------
(***************************************************************************)
(* The datagram parser stays inside every datagram, of whatever length and *)
(* with whatever length fields, and the next gateway of a chain reads back *)
(* what a gateway forwards.                                                *)
(***************************************************************************)
EXTENDS ProxyDatagram, TLAPS

Sources == {"v4", "mapped", "v6"}
Targets == {"v4", "mapped", "zero4", "v6"}

(* The headers a gateway forwards: two addresses and a network.            *)
Forwarded == [src : Sources, dst : Targets, family : {"tcp4", "tcp6", "udp4", "udp6"}]

(* What the parser makes of a datagram off the wire.                       *)
ParseInside(d, p) ==
    p.ok =>
        /\ p.payload \in Nat
        /\ \/ /\ d.lead = "v2" /\ p.src = "v2" /\ p.hdr \in Forwarded
              /\ 16 + AddrBlock(d.fam) + p.payload <= d.len
           \/ /\ d.lead \in {"cr", "other"} /\ p.src = "direct"
              /\ p.payload = d.len

(* What the next hop makes of a header and a payload that were forwarded.  *)
ReadBack(h, payload, p) ==
    /\ p.ok /\ p.src = "v2" /\ p.payload = payload
    /\ p.hdr.src \in Sources /\ SameAddress(p.hdr.src, h.src)
    /\ SameAddress(p.hdr.dst, h.dst) \/ h.dst = "zero4"
    /\ (p.hdr.family \in {"udp4", "udp6"}) = (h.family \in {"udp4", "udp6"})

DatagramInv ==
    /\ at \in {"received", "parsed", "dropped", "sent", "arrived"}
    /\ dgram \in WireDatagrams /\ peer \in SocketPairs
    /\ at # "received" => ParseInside(dgram, parsed)
    /\ at \in {"parsed", "sent", "arrived"} => parsed.ok
    /\ at \in {"sent", "arrived"} => out = FormatDatagram(OutHeader, parsed.payload)
    /\ at = "arrived" => next = ParseDatagram(out)

(* Every datagram: the length field of a header is checked against the     *)
(* datagram before the payload is cut off behind it.                       *)
LEMMA ParserInside ==
    ASSUME NEW d \in WireDatagrams
    PROVE  ParseInside(d, ParseDatagram(d))
<1> DEFINE p == ParseDatagram(d)
<1> SUFFICES ASSUME p.ok PROVE ParseInside(d, p)
  BY DEF ParseInside
<1>a. Lengths \subseteq Nat /\ AddrLengths \subseteq Nat
  BY LengthsAssumption
<1>0. \/ d \in V2Datagrams({1, 2}, {0, 1}, AddrLengths)
      \/ d \in [lead : {"cr", "v1", "other"}, len : Lengths]
  BY DEF WireDatagrams
<1>1. d.len \in Nat
  BY <1>a, <1>0 DEF V2Datagrams
<1>2. CASE d.lead = "v2"
  <2>1. d \in V2Datagrams({1, 2}, {0, 1}, AddrLengths)
    BY <1>0, <1>2
  <2>2. /\ d.addrLen \in Nat /\ d.fam \in FamProtos
        /\ d.src \in {"mapped", "v6"} /\ d.dst \in {"mapped", "v6"}
    BY <1>a, <2>1 DEF V2Datagrams
  <2>3. p = ParseV2(d)
    BY <1>2 DEF ParseDatagram
  <2>4. /\ 16 + d.addrLen <= d.len /\ d.addrLen >= AddrBlock(d.fam) /\ d.fam # "unknown"
        /\ p = Parsed("v2", [src |-> WireForm(d.fam, d.src), dst |-> WireForm(d.fam, d.dst),
                             family |-> d.fam],
                      d.len - 16 - d.addrLen)
    BY <2>3 DEF ParseV2, Malformed
  <2>5. /\ p.src = "v2" /\ p.payload = d.len - 16 - d.addrLen
        /\ p.hdr = [src |-> WireForm(d.fam, d.src), dst |-> WireForm(d.fam, d.dst),
                    family |-> d.fam]
    BY <2>4 DEF Parsed
  <2>6. p.hdr \in Forwarded
    BY <2>2, <2>4, <2>5 DEF Forwarded, Sources, Targets, WireForm, FamProtos
  <2>7. AddrBlock(d.fam) \in Nat
    BY DEF AddrBlock
  <2>8. /\ p.payload \in Nat
        /\ 16 + AddrBlock(d.fam) + p.payload <= d.len
    BY <1>1, <2>2, <2>4, <2>5, <2>7
  <2> QED BY <1>2, <2>5, <2>6, <2>8 DEF ParseInside
<1>3. CASE d.lead # "v2"
  <2>1. d.lead \in {"cr", "v1", "other"}
    BY <1>0, <1>3 DEF V2Datagrams
  <2>2. d.lead # "v1"
    BY <1>3 DEF ParseDatagram, Malformed
  <2>3. p = Parsed("direct", Unspec, d.len)
    BY <1>3, <2>2 DEF ParseDatagram
  <2> QED BY <1>1, <2>1, <2>2, <2>3 DEF ParseInside, Parsed
<1> QED BY <1>2, <1>3

(* Whatever header the library picks for two addresses, IPv4, IPv6 or one  *)
(* of each, the parser accepts it and finds the same addresses, the same   *)
(* network and the payload behind it.                                      *)
LEMMA FormatParses ==
    ASSUME NEW h \in Forwarded, NEW payload \in Nat
    PROVE  ReadBack(h, payload, ParseDatagram(FormatDatagram(h, payload)))
<1> DEFINE udp == h.family \in {"udp4", "udp6"}
           v4  == IsV4(h.src) /\ IsV4(h.dst)
           Six(ip) == IF IsV4(ip) THEN "mapped" ELSE ip
           fam == CASE v4 /\ udp -> "udp4" [] v4 /\ ~udp -> "tcp4"
                    [] ~v4 /\ udp -> "udp6" [] ~v4 /\ ~udp -> "tcp6"
           d == FormatDatagram(h, payload)
           p == ParseDatagram(d)
<1>1. /\ h.src \in Sources /\ h.dst \in Targets
      /\ h.family \in {"tcp4", "tcp6", "udp4", "udp6"}
  BY DEF Forwarded
<1>2. d = [lead |-> "v2", len |-> 16 + AddrBlock(fam) + payload, ver |-> 2, cmd |-> 1,
           fam |-> fam, addrLen |-> AddrBlock(fam), src |-> Six(h.src), dst |-> Six(h.dst)]
  BY <1>1 DEF FormatDatagram, Sources, Targets
<1>3. /\ fam \in {"tcp4", "tcp6", "udp4", "udp6"}
      /\ fam \in {"udp4", "udp6"} <=> udp
      /\ fam \in {"udp4", "tcp4"} <=> v4
  BY Zenon
<1> HIDE DEF fam
<1>4. AddrBlock(fam) \in {12, 36}
  BY DEF AddrBlock
<1>5. p = Parsed("v2", [src |-> WireForm(fam, Six(h.src)), dst |-> WireForm(fam, Six(h.dst)),
                        family |-> fam], payload)
  <2>1. p = ParseV2(d)
    BY <1>2 DEF ParseDatagram
  <2>2. /\ d.len = 16 + AddrBlock(fam) + payload /\ d.addrLen = AddrBlock(fam)
        /\ d.ver = 2 /\ d.cmd = 1 /\ d.fam = fam /\ d.fam # "unknown"
        /\ d.src = Six(h.src) /\ d.dst = Six(h.dst)
    BY <1>2, <1>3
  <2> HIDE DEF d, Six
  <2>3. /\ d.len >= 16 /\ 16 + d.addrLen <= d.len /\ d.addrLen >= AddrBlock(d.fam)
        /\ d.len - 16 - d.addrLen = payload
    BY <1>4, <2>2
  <2> QED BY <2>1, <2>2, <2>3 DEF ParseV2
<1>6. /\ p.ok /\ p.src = "v2" /\ p.payload = payload
      /\ p.hdr.src = WireForm(fam, Six(h.src)) /\ p.hdr.dst = WireForm(fam, Six(h.dst))
      /\ p.hdr.family = fam
  BY <1>5 DEF Parsed
<1> HIDE DEF p, d
<1>7. /\ p.hdr.src \in Sources /\ SameAddress(p.hdr.src, h.src)
      /\ SameAddress(p.hdr.dst, h.dst) \/ h.dst = "zero4"
  <2>1. CASE v4
    <3>1. p.hdr.src = "v4" /\ p.hdr.dst = "v4"
      BY <1>3, <1>6, <2>1 DEF WireForm
    <3>2. h.src \in {"v4", "mapped"} /\ h.dst \in {"v4", "mapped", "zero4"}
      BY <1>1, <2>1 DEF IsV4, Sources, Targets
    <3> QED BY <3>1, <3>2 DEF SameAddress, Sources
  <2>2. CASE ~v4
    <3>1. p.hdr.src = Six(h.src) /\ p.hdr.dst = Six(h.dst)
      BY <1>3, <1>6, <2>2 DEF WireForm
    <3> QED BY <1>1, <3>1 DEF SameAddress, IsV4, Sources, Targets
  <2> QED BY <2>1, <2>2
<1>8. ReadBack(h, payload, p)
  BY <1>3, <1>6, <1>7 DEF ReadBack
<1> QED BY <1>8 DEF p, d

(* A forwarded header always has both addresses: buildAddrHeader replaces  *)
(* a destination without an IPv4 form, and a declared one is parsed whole. *)
LEMMA OutHeaderForwarded ==
    ASSUME peer \in SocketPairs, dgram \in WireDatagrams,
           parsed.ok, ParseInside(dgram, parsed)
    PROVE  /\ OutHeader \in Forwarded
           /\ parsed.src = "direct" =>
                IF peer[1] = "v6" THEN OutHeader.src = "v6" /\ OutHeader.dst = "v6"
                                  ELSE IsV4(OutHeader.dst) /\ OutHeader.src = "v4"
<1>1. CASE parsed.src = "direct"
  <2>1. OutHeader = BuildAddrHeader(peer[1], peer[2], "udp4", "udp6")
    BY <1>1 DEF OutHeader, HeaderFromAddrs
  <2>2. \/ peer[1] \in {"v4", "mapped"} /\ peer[2] \in {"v4", "zero4", "v6"}
        \/ peer[1] = "v6" /\ peer[2] = "v6"
    BY DEF SocketPairs
  <2> QED BY <2>1, <2>2 DEF BuildAddrHeader, IsV4, To4, Forwarded, Sources, Targets
<1>2. CASE parsed.src # "direct"
  BY <1>2 DEF OutHeader, ParseInside
<1> QED BY <1>1, <1>2

LEMMA DatagramInvInit == Init => DatagramInv
BY DEF Init, DatagramInv

LEMMA DatagramInvStep == DatagramInv /\ [Next]_vars => DatagramInv'
<1> SUFFICES ASSUME DatagramInv, [Next]_vars PROVE DatagramInv'
  OBVIOUS
<1>1. CASE Parse
  <2>1. ParseInside(dgram, ParseDatagram(dgram))
    BY ParserInside DEF DatagramInv
  <2> QED BY <1>1, <2>1 DEF Parse, DatagramInv, ParseInside
<1>2. CASE Format
  BY <1>2 DEF Format, DatagramInv, OutHeader, ParseInside
<1>3. CASE NextHop
  BY <1>3 DEF NextHop, DatagramInv, OutHeader, ParseInside
<1>4. CASE UNCHANGED vars
  BY <1>4 DEF vars, DatagramInv, OutHeader, ParseInside
<1> QED BY <1>1, <1>2, <1>3, <1>4 DEF Next

(* ParseDatagram: an accepted header lies inside the datagram, and what    *)
(* has a PROXY signature is never taken for payload.                       *)
THEOREM HeaderNeverBeyond == Spec => []HeaderInsideDatagram
<1>1. DatagramInv => HeaderInsideDatagram
  BY DEF DatagramInv, HeaderInsideDatagram, ParseInside
<1> QED BY <1>1, DatagramInvInit, DatagramInvStep, PTL DEF Spec

(* ParseDatagram, HeaderFromAddrs and FormatDatagram together: for every   *)
(* datagram a gateway accepts, on every kind of listener, the next gateway *)
(* accepts what is forwarded and finds the same ends, network and payload. *)
THEOREM ChainAgrees == Spec => []NextHopAgrees
<1>1. DatagramInv => NextHopAgrees
  <2> SUFFICES ASSUME DatagramInv, at = "arrived" PROVE NextHopAgrees
    BY DEF NextHopAgrees
  <2>1. /\ parsed.ok /\ ParseInside(dgram, parsed)
        /\ next = ParseDatagram(FormatDatagram(OutHeader, parsed.payload))
    BY DEF DatagramInv
  <2>2. /\ OutHeader \in Forwarded
        /\ parsed.src = "direct" =>
             IF peer[1] = "v6" THEN OutHeader.src = "v6" /\ OutHeader.dst = "v6"
                               ELSE IsV4(OutHeader.dst) /\ OutHeader.src = "v4"
    BY <2>1, OutHeaderForwarded DEF DatagramInv
  <2>3. ReadBack(OutHeader, parsed.payload, next)
    BY <2>1, <2>2, FormatParses DEF ParseInside
  <2>4. ASSUME parsed.src = "direct" PROVE SameAddress(next.hdr.src, peer[1])
    <3>1. peer[1] \in {"v4", "mapped", "v6"}
      BY DEF DatagramInv, SocketPairs
    <3>2. CASE peer[1] = "v6"
      BY <2>2, <2>3, <2>4, <3>2 DEF ReadBack, SameAddress
    <3>3. CASE peer[1] # "v6"
      <4>1. next.hdr.src \in Sources /\ SameAddress(next.hdr.src, "v4")
        BY <2>2, <2>3, <2>4, <3>3 DEF ReadBack
      <4>2. next.hdr.src \in {"v4", "mapped"}
        BY <4>1 DEF SameAddress, Sources
      <4> QED BY <3>1, <3>3, <4>2 DEF SameAddress
    <3> QED BY <3>2, <3>3
  <2> QED BY <2>3, <2>4 DEF NextHopAgrees, ReadBack
<1> QED BY <1>1, DatagramInvInit, DatagramInvStep, PTL DEF Spec

=============================================================================
