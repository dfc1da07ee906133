--------------------------- MODULE ProxyDecision ---------------------------
(***************************************************************************)
(* The trust and policy decision both gateways take on every connection    *)
(* or datagram (internal/gateway/decide.go, trust.go): whether the peer    *)
(* may speak PROXY, whether the policy admits it, and which header the     *)
(* downstream will be shown.  Pure operators; a source is "direct", "v1"   *)
(* or "v2", an IP address is any value, a network the set of addresses it  *)
(* contains.                                                               *)
(***************************************************************************)

Sources  == {"direct", "v1", "v2"}
Policies == {"use", "require", "reject"}
UntrustedActions == {"reject", "strip"}

(* An empty list of networks trusts everyone: trust control is opt-in.     *)
IsTrusted(nets, ip) == nets = {} \/ \E n \in nets : ip \in n

Allowed(src, hdr, why) == [allow |-> TRUE, src |-> src, hdr |-> hdr, reason |-> why]
Denied(src, hdr, why)  == [allow |-> FALSE, src |-> src, hdr |-> hdr, reason |-> why]

(* The policy switch: src and hdr are what the trust check left of them,   *)
(* connHdr the header built from the socket's own addresses.               *)
ApplyPolicy(policy, src, hdr, connHdr, why) ==
    CASE policy = "reject" /\ src # "direct"  -> Denied(src, hdr, "policy:forbids")
      [] policy = "require" /\ src = "direct" -> Denied(src, hdr, "policy:requires")
      [] policy # "require" /\ src = "direct" -> Allowed(src, connHdr, why)
      [] policy # "reject" /\ src # "direct"  -> Allowed(src, hdr, why)

(* Faulty form: the trust check is skipped.                                *)
Decide_TrustIgnored(policy, nets, untrusted, src, hdr, ip, connHdr) ==
    ApplyPolicy(policy, src, hdr, connHdr, "")

Decide(policy, nets, untrusted, src, hdr, ip, connHdr) ==
    IF src = "direct" \/ IsTrusted(nets, ip)
    THEN ApplyPolicy(policy, src, hdr, connHdr, "")
    ELSE IF untrusted = "reject"
         THEN Denied(src, hdr, "untrusted")
         ELSE ApplyPolicy(policy, "direct", connHdr, connHdr, "strip")

=============================================================================
