-------------------------- MODULE TcpGatewayProofs --------------------------
(***************************************************************************)
(* Proofs about TcpGateway, for every set of connections, every cap and    *)
(* every setting: types, the headers that reach the writer, the exactness  *)
(* of the connection counter, and the cap.                                 *)
(***************************************************************************)
EXTENDS TcpGateway, TLAPS, FiniteSetTheorems

(* What the readers and builders of headers return is a header.            *)
LEMMA HeadersWellFormed ==
    /\ Unspec \in HeaderSet
    /\ ConnHeader \in HeaderSet
    /\ \A a, b \in Forms : ReadHeader(a, b) \in HeaderSet
<1>1. \A a \in Forms : To4(a) \in Forms
  BY DEF To4, IsV4, Forms
<1>2. Unspec \in HeaderSet
  BY DEF Unspec, HeaderSet, Forms, Families
<1>3. \A a, b \in Forms : ReadHeader(a, b) \in HeaderSet
  BY <1>1 DEF ReadHeader, HeaderSet, Families
<1>4. \A a, b \in Forms : BuildAddrHeader(a, b, "tcp4", "tcp6") \in HeaderSet
  BY <1>1 DEF BuildAddrHeader, HeaderSet, Families, Forms
<1>5. ConnHeader \in HeaderSet
  BY <1>4, ModeAssumption DEF ConnHeader, HeaderFromAddrs
<1> QED BY <1>2, <1>3, <1>5

(* The verdict on a connection: a header, a source, and when it is a       *)
(* refusal one of the three reasons.                                       *)
LEMMA VerdictWellFormed ==
    ASSUME NEW c \in Conns, src[c] \in Sources, hdr[c] \in HeaderSet
    PROVE  /\ Verdict(c).src \in Sources
           /\ Verdict(c).hdr \in HeaderSet
           /\ ~Verdict(c).allow =>
                 Verdict(c).reason \in {"untrusted", "policy:forbids", "policy:requires"}
<1>1. ConnHeader \in HeaderSet
  BY HeadersWellFormed
<1> QED BY <1>1, ModeAssumption
        DEF Verdict, Decide, ApplyPolicy, Allowed, Denied, Policies, Sources

-----------------------------------------------------------------------------
(* Types.                                                                  *)

LEMMA TypeOKInit == Init => TypeOK
BY HeadersWellFormed
DEF Init, TypeOK, Stages, Sources, HalfStates

LEMMA TypeOKStep == TypeOK /\ [Next]_vars => TypeOK'
<1> SUFFICES ASSUME TypeOK, [Next]_vars PROVE TypeOK'
  OBVIOUS
<1> USE DEF TypeOK
<1>1. ASSUME NEW c \in Conns, Accept(c) PROVE TypeOK'
  BY <1>1 DEF Accept, connVars, Stages
<1>2. ASSUME CountAndSpawn PROVE TypeOK'
  BY <1>2 DEF CountAndSpawn, connVars, Stages
<1>3. ASSUME RefuseOverLimit PROVE TypeOK'
  <2>1. [stage EXCEPT ![inHand] = "refused"] \in [Conns -> Stages]
    BY DEF Stages
  <2> QED BY <1>3, <2>1 DEF RefuseOverLimit, connVars
<1>4. ASSUME ServeReturns \/ CloseListener PROVE TypeOK'
  BY <1>4 DEF ServeReturns, CloseListener, connVars
<1>5. ASSUME NEW c \in Conns, ClientStep(c) PROVE TypeOK'
  <2>1. CASE DetectHeader(c)
    <3>1. \A a \in WireHeaders : ReadHeader(a[1], a[2]) \in HeaderSet
      BY HeadersWellFormed, ModeAssumption
    <3> QED BY <2>1, <3>1 DEF DetectHeader, HandlerGoto, serveVars, Stages, Sources
  <2>2. CASE DetectDirect(c) \/ DetectMalformed(c)
    BY <2>2 DEF DetectDirect, DetectMalformed, HangUpBecause, HandlerGoto,
                serveVars, connVars, Stages
  <2> QED BY <1>5, <2>1, <2>2 DEF ClientStep
<1>6. ASSUME NEW c \in Conns, HandlerStep(c) PROVE TypeOK'
  <2> USE DEF HandlerGoto, HangUpBecause, serveVars, connVars, Stages
  <2>1. /\ Verdict(c).src \in Sources
        /\ Verdict(c).hdr \in HeaderSet
        /\ ~Verdict(c).allow =>
              Verdict(c).reason \in {"untrusted", "policy:forbids", "policy:requires"}
    BY VerdictWellFormed
  <2>2. CASE Denies(c) BY <2>1, <2>2 DEF Denies
  <2>3. CASE GuardRejects(c) BY <2>1, <2>3 DEF GuardRejects
  <2>4. CASE Admits(c) BY <2>1, <2>4, HeadersWellFormed DEF Admits
  <2>5. CASE DetectTimesOut(c) \/ DialUpstream(c) \/ DialFails(c) \/ WriteHeaderFails(c)
    BY <2>5 DEF DetectTimesOut, DialUpstream, DialFails, WriteHeaderFails
  <2>6. CASE WriteHeader(c) BY <2>6 DEF WriteHeader, HalfStates
  <2>7. CASE PipeEnds(c) BY <2>7 DEF PipeEnds
  <2>8. CASE HangUp(c) BY <2>8 DEF HangUp
  <2>9. CASE Release(c) BY <2>9 DEF Release
  <2> QED BY <1>6, <2>2, <2>3, <2>4, <2>5, <2>6, <2>7, <2>8, <2>9 DEF HandlerStep
<1>7. ASSUME NEW c \in Conns, NEW d \in Directions, HalfStep(c, d) PROVE TypeOK'
  <2>1. PICK to \in HalfStates : half' = [half EXCEPT ![c][d] = to]
    BY <1>7 DEF HalfStep, ReadData, ReadEnds, ReadTimesOut, WriteData, WriteBreaks,
                CloseWrite, HalfGoto, HalfStates
  <2>2. [half EXCEPT ![c][d] = to] \in [Conns -> [Directions -> HalfStates]]
    OBVIOUS
  <2>3. UNCHANGED <<servePc, inHand, listenerOpen, active, stage, src, hdr, upstream, closedBy>>
    BY <1>7 DEF HalfStep, ReadData, ReadEnds, ReadTimesOut, WriteData, WriteBreaks,
                CloseWrite, HalfGoto, serveVars, connVars
  <2> QED BY <2>1, <2>2, <2>3
<1>8. ASSUME UNCHANGED vars PROVE TypeOK'
  BY <1>8 DEF vars, serveVars, connVars
<1> QED BY <1>1, <1>2, <1>3, <1>4, <1>5, <1>6, <1>7, <1>8
        DEF Next, ServeStep, Stopped

(* The counters, program counters and headers of the gateway stay in their *)
(* types, whichever way a connection goes.                                 *)
THEOREM TypeCorrect == Spec => []TypeOK
BY TypeOKInit, TypeOKStep, PTL DEF Spec

-----------------------------------------------------------------------------
(* The connection Serve has in hand waits for it, and only a gateway with  *)
(* a cap goes over it.                                                     *)
ServeInv ==
    /\ servePc \in {"count", "over"} => inHand \in Conns /\ stage[inHand] = "accepted"
    /\ servePc = "over" => MaxConns > 0

LEMMA ServeInvStep == TypeOK /\ ServeInv /\ [Next]_vars => ServeInv'
<1> SUFFICES ASSUME TypeOK, ServeInv, [Next]_vars PROVE ServeInv'
  OBVIOUS
<1> USE DEF TypeOK, ServeInv
<1>1. ASSUME NEW c \in Conns, Accept(c) PROVE ServeInv'
  BY <1>1 DEF Accept
<1>2. ASSUME ServeStep PROVE ServeInv'
  BY <1>2 DEF ServeStep, CountAndSpawn, RefuseOverLimit, ServeReturns, CloseListener
<1>3. ASSUME NEW c \in Conns, UNCHANGED serveVars,
             stage[c] # "accepted", \A e \in Conns \ {c} : stage'[e] = stage[e]
      PROVE  ServeInv'
  BY <1>3 DEF serveVars
<1>4. ASSUME NEW c \in Conns, ClientStep(c) \/ HandlerStep(c) PROVE ServeInv'
  <2> USE DEF HandlerGoto, HangUpBecause
  <2>1. stage[c] # "accepted" /\ \A e \in Conns \ {c} : stage'[e] = stage[e]
    BY <1>4 DEF ClientStep, DetectHeader, DetectDirect, DetectMalformed, HandlerStep,
                DetectTimesOut, Denies, GuardRejects, Admits, DialUpstream, DialFails,
                WriteHeader, WriteHeaderFails, PipeEnds, HangUp, Release
  <2>2. UNCHANGED serveVars
    BY <1>4 DEF ClientStep, DetectHeader, DetectDirect, DetectMalformed, HandlerStep,
                DetectTimesOut, Denies, GuardRejects, Admits, DialUpstream, DialFails,
                WriteHeader, WriteHeaderFails, PipeEnds, HangUp, Release
  <2> QED BY <1>3, <2>1, <2>2
<1>5. ASSUME NEW c \in Conns, NEW d \in Directions, HalfStep(c, d) PROVE ServeInv'
  BY <1>5 DEF HalfStep, ReadData, ReadEnds, ReadTimesOut, WriteData, WriteBreaks,
              CloseWrite, HalfGoto, serveVars
<1>6. ASSUME UNCHANGED vars PROVE ServeInv'
  BY <1>6 DEF vars, serveVars
<1> QED BY <1>1, <1>2, <1>4, <1>5, <1>6 DEF Next, Stopped

-----------------------------------------------------------------------------
(* What reaches the writer.                                                *)

(* A header rebuilt from the socket's own addresses always agrees with its *)
(* family, and so does the empty one.                                      *)
LEMMA ConnHeaderMatches == FamilyMatchesAddrs(ConnHeader) /\ FamilyMatchesAddrs(Unspec)
BY ModeAssumption
DEF ConnHeader, HeaderFromAddrs, BuildAddrHeader, To4, IsV4, FamilyMatchesAddrs, Forms, Unspec

(* A verdict that admits a connection admits it under its own addresses    *)
(* and a policy without "require", or under those a trusted peer declared. *)
(* Refused or not, a source called direct comes without a declared header  *)
(* once it is admitted.                                                    *)
LEMMA VerdictAttribution ==
    ASSUME NEW c \in Conns, src[c] \in Sources, Verdict(c).allow
    PROVE  IF Verdict(c).src = "direct"
           THEN Verdict(c).hdr = ConnHeader /\ Policy # "require"
           ELSE IsTrusted(TrustedNets, c) /\ Policy # "reject"
BY ModeAssumption
DEF Verdict, Decide, ApplyPolicy, Allowed, Denied, Policies, Sources

(* One connection's share of the three properties; a connection the family *)
(* guard closed is on its way out, so what is known of its origin no       *)
(* longer changes.                                                         *)
HeaderInvOf(c) ==
    /\ stage[c] \in {"dial", "header"} /\ MixedFamily # "legacy" => FamilyMatchesAddrs(hdr[c])
    /\ closedBy[c] = "family" =>
           /\ src[c] # "direct" /\ IsTrusted(TrustedNets, c) /\ Policy # "reject"
           /\ stage[c] \in {"hangup", "release", "gone"}
    /\ stage[c] \in {"dial", "header"} =>
           IF src[c] = "direct" THEN hdr[c] = ConnHeader /\ Policy # "require"
                                ELSE IsTrusted(TrustedNets, c) /\ Policy # "reject"

HeaderInv == TypeOK /\ ServeInv /\ \A c \in Conns : HeaderInvOf(c)

LEMMA HeaderInvInit == Init => HeaderInv
BY TypeOKInit, ConnsAssumption
DEF Init, HeaderInv, ServeInv, HeaderInvOf

LEMMA HeaderInvStep == HeaderInv /\ [Next]_vars => HeaderInv'
<1> SUFFICES ASSUME HeaderInv, [Next]_vars, NEW e \in Conns
             PROVE  HeaderInvOf(e)'
  BY TypeOKStep, ServeInvStep DEF HeaderInv
<1>0. TypeOK /\ ServeInv /\ HeaderInvOf(e)
  BY DEF HeaderInv
<1>1. ConnHeader' = ConnHeader
  BY DEF ConnHeader
<1> USE DEF HandlerGoto, HangUpBecause, serveVars, connVars, TypeOK
<1>2. ASSUME NEW c \in Conns, Accept(c) PROVE HeaderInvOf(e)'
  BY <1>0, <1>1, <1>2 DEF Accept, HeaderInvOf
<1>3. ASSUME ServeStep PROVE HeaderInvOf(e)'
  BY <1>0, <1>1, <1>3 DEF ServeStep, CountAndSpawn, RefuseOverLimit, ServeReturns,
                          CloseListener, ServeInv, HeaderInvOf
<1>4. ASSUME NEW c \in Conns, ClientStep(c) PROVE HeaderInvOf(e)'
  BY <1>0, <1>1, <1>4, ConnsAssumption
     DEF ClientStep, DetectHeader, DetectDirect, DetectMalformed, HeaderInvOf
<1>5. ASSUME NEW c \in Conns, Denies(c) PROVE HeaderInvOf(e)'
  <2>1. Verdict(c).reason # "family"
    BY <1>0, <1>5, VerdictWellFormed DEF Denies
  <2> QED BY <1>0, <1>1, <1>5, <2>1 DEF Denies, HeaderInvOf
<1>6. ASSUME NEW c \in Conns, GuardRejects(c) PROVE HeaderInvOf(e)'
  <2>1. Verdict(c).src # "direct" /\ IsTrusted(TrustedNets, c) /\ Policy # "reject"
    BY <1>0, <1>6, VerdictAttribution, ConnHeaderMatches DEF GuardRejects, Mismatched
  <2> QED BY <1>0, <1>1, <1>6, <2>1 DEF GuardRejects, HeaderInvOf
<1>7. ASSUME NEW c \in Conns, Admits(c) PROVE HeaderInvOf(e)'
  <2>1. IF Verdict(c).src = "direct"
        THEN Verdict(c).hdr = ConnHeader /\ Policy # "require"
        ELSE IsTrusted(TrustedNets, c) /\ Policy # "reject"
    BY <1>0, <1>7, VerdictAttribution DEF Admits
  <2> QED BY <1>0, <1>1, <1>7, <2>1, ConnHeaderMatches DEF Admits, Mismatched, HeaderInvOf
<1>8. ASSUME NEW c \in Conns,
             \/ DetectTimesOut(c) \/ DialUpstream(c) \/ DialFails(c) \/ WriteHeader(c)
             \/ WriteHeaderFails(c) \/ PipeEnds(c) \/ HangUp(c) \/ Release(c)
      PROVE  HeaderInvOf(e)'
  BY <1>0, <1>1, <1>8, ConnsAssumption
     DEF DetectTimesOut, DialUpstream, DialFails, WriteHeader, WriteHeaderFails,
         PipeEnds, HangUp, Release, HeaderInvOf
<1>9. ASSUME NEW c \in Conns, NEW d \in Directions, HalfStep(c, d) PROVE HeaderInvOf(e)'
  BY <1>0, <1>1, <1>9 DEF HalfStep, ReadData, ReadEnds, ReadTimesOut, WriteData,
                          WriteBreaks, CloseWrite, HalfGoto, HeaderInvOf
<1>10. ASSUME UNCHANGED vars PROVE HeaderInvOf(e)'
  BY <1>0, <1>1, <1>10 DEF vars, HeaderInvOf
<1> QED BY <1>2, <1>3, <1>4, <1>5, <1>6, <1>7, <1>8, <1>9, <1>10
        DEF Next, HandlerStep, Stopped

LEMMA HeaderInvariant == Spec => []HeaderInv
BY HeaderInvInit, HeaderInvStep, PTL DEF Spec

(* The guard of tcp.family-mismatch works: whatever a client declares and  *)
(* whatever the policy does with it, the writer gets a header whose family *)
(* agrees with its addresses, unless "legacy" asks for the old behaviour.  *)
THEOREM WriterNeverSeesMixedFamilies == Spec => []WriterNeverMixed
<1>1. HeaderInv => WriterNeverMixed
  BY DEF HeaderInv, HeaderInvOf, WriterNeverMixed
<1> QED BY <1>1, HeaderInvariant, PTL

(* The guard never costs a connection that goes out under its own          *)
(* addresses, direct or stripped by the trust check, nor one that trust or *)
(* policy would have turned away.                                          *)
THEOREM GuardIsLast == Spec => []GuardFollowsDecision
<1>1. HeaderInv => GuardFollowsDecision
  BY DEF HeaderInv, HeaderInvOf, GuardFollowsDecision
<1> QED BY <1>1, HeaderInvariant, PTL

(* No untrusted peer, and nobody under policy "reject", has the addresses  *)
(* it declared passed on; a connection under its own addresses never gets  *)
(* through policy "require".                                               *)
THEOREM OnlyTrustedDeclare == Spec => []DeclaredOnlyIfTrusted
<1>1. HeaderInv => DeclaredOnlyIfTrusted
  BY DEF HeaderInv, HeaderInvOf, DeclaredOnlyIfTrusted
<1> QED BY <1>1, HeaderInvariant, PTL

-----------------------------------------------------------------------------
(* The counter of tcp.max-connections.                                     *)

Handled == {c \in Conns : Running(c)}

(* The five things a step can do to the connections that run and to the    *)
(* counter.                                                                *)
Quiet   == Handled' = Handled /\ active' = active /\ (servePc' = "over" <=> servePc = "over")
Spawns  == /\ servePc = "count" /\ servePc' = "accept"
           /\ inHand \in Conns \ Handled /\ Handled' = Handled \cup {inHand}
           /\ MaxConns > 0 => active' = active + 1 /\ active + 1 <= MaxConns
Overs   == /\ servePc = "count" /\ servePc' = "over" /\ Handled' = Handled
           /\ MaxConns > 0 /\ active' = active + 1 /\ active + 1 > MaxConns
Refuses == servePc = "over" /\ servePc' = "accept" /\ Handled' = Handled /\ active' = active - 1
Frees(c) == /\ c \in Handled /\ Handled' = Handled \ {c}
            /\ active' = active - 1 /\ servePc' = servePc

LEMMA SlotCases ==
    ASSUME TypeOK, ServeInv, [Next]_vars
    PROVE  Quiet \/ Spawns \/ Overs \/ Refuses \/ \E c \in Conns : Frees(c)
<1> USE DEF TypeOK, HandlerGoto, HangUpBecause
<1>1. ASSUME NEW c \in Conns, Accept(c) PROVE Quiet
  BY <1>1 DEF Accept, Quiet, Handled, Running
<1>2. ASSUME CountAndSpawn PROVE Spawns \/ Overs
  <2>1. inHand \in Conns /\ stage[inHand] = "accepted"
    BY <1>2 DEF CountAndSpawn, ServeInv
  <2>2. CASE MaxConns > 0 /\ active + 1 > MaxConns
    BY <1>2, <2>1, <2>2 DEF CountAndSpawn, Overs, Handled, Running
  <2>3. CASE ~(MaxConns > 0 /\ active + 1 > MaxConns)
    <3>1. Handled' = Handled \cup {inHand} /\ inHand \notin Handled
      BY <1>2, <2>1, <2>3 DEF CountAndSpawn, Handled, Running
    <3> QED BY <1>2, <2>1, <2>3, <3>1, ModeAssumption DEF CountAndSpawn, Spawns
  <2> QED BY <2>2, <2>3
<1>3. ASSUME RefuseOverLimit PROVE Refuses
  <2>1. inHand \in Conns /\ stage[inHand] = "accepted"
    BY <1>3 DEF RefuseOverLimit, ServeInv
  <2> QED BY <1>3, <2>1 DEF RefuseOverLimit, Refuses, Handled, Running
<1>4. ASSUME ServeReturns \/ CloseListener PROVE Quiet
  BY <1>4 DEF ServeReturns, CloseListener, Quiet, Handled, Running
<1>5. ASSUME NEW c \in Conns, Release(c) PROVE Frees(c)
  BY <1>5 DEF Release, Frees, Handled, Running, serveVars
<1>6. ASSUME NEW c \in Conns, ClientStep(c) PROVE Quiet
  BY <1>6 DEF ClientStep, DetectHeader, DetectDirect, DetectMalformed, Quiet, Handled,
              Running, serveVars
<1>7. ASSUME NEW c \in Conns,
             \/ DetectTimesOut(c) \/ Denies(c) \/ GuardRejects(c) \/ Admits(c)
             \/ DialUpstream(c) \/ DialFails(c) \/ WriteHeader(c) \/ WriteHeaderFails(c)
             \/ PipeEnds(c) \/ HangUp(c)
      PROVE  Quiet
  <2>1. UNCHANGED <<active, servePc>>
    BY <1>7 DEF DetectTimesOut, Denies, GuardRejects, Admits, DialUpstream, DialFails,
                WriteHeader, WriteHeaderFails, PipeEnds, HangUp, serveVars
  <2>2. /\ Running(c) /\ stage'[c] \in {"decide", "hangup", "dial", "header", "pipe", "release"}
        /\ \A e \in Conns \ {c} : stage'[e] = stage[e]
    BY <1>7 DEF DetectTimesOut, Denies, GuardRejects, Admits, DialUpstream, DialFails,
                WriteHeader, WriteHeaderFails, PipeEnds, HangUp, Running
  <2> QED BY <2>1, <2>2 DEF Quiet, Handled, Running
<1>8. ASSUME NEW c \in Conns, NEW d \in Directions, HalfStep(c, d) PROVE Quiet
  BY <1>8 DEF HalfStep, ReadData, ReadEnds, ReadTimesOut, WriteData, WriteBreaks,
              CloseWrite, HalfGoto, serveVars, Quiet, Handled, Running
<1>9. ASSUME UNCHANGED vars PROVE Quiet
  BY <1>9 DEF vars, serveVars, Quiet, Handled, Running
<1> QED BY <1>1, <1>2, <1>3, <1>4, <1>5, <1>6, <1>7, <1>8, <1>9
        DEF Next, ServeStep, HandlerStep, Stopped

LEMMA HandledFinite == IsFiniteSet(Handled) /\ Cardinality(Handled) \in Nat
BY ConnsAssumption, FS_Subset, FS_CardinalityType DEF Handled

(* The connection Serve has counted and is about to refuse is the one      *)
(* holder that no handler runs for.                                        *)
HoldersAddUp ==
    Cardinality({c \in Conns : HoldsSlot(c)}) =
        IF servePc = "over" THEN Cardinality(Handled) + 1 ELSE Cardinality(Handled)

LEMMA HoldersCounted == TypeOK /\ ServeInv => HoldersAddUp
<1> SUFFICES ASSUME TypeOK, ServeInv PROVE HoldersAddUp
  OBVIOUS
<1> USE DEF HoldersAddUp
<1>1. CASE servePc = "over"
  <2>1. {c \in Conns : HoldsSlot(c)} = Handled \cup {inHand} /\ inHand \notin Handled
    BY <1>1 DEF ServeInv, HoldsSlot, Handled, Running
  <2> QED BY <1>1, <2>1, HandledFinite, FS_AddElement
<1>2. CASE servePc # "over"
  BY <1>2 DEF HoldsSlot, Handled
<1> QED BY <1>1, <1>2

SlotInv == TypeOK /\ ServeInv /\ ActiveExact /\ CapRespected

LEMMA SlotInvInit == Init => SlotInv
<1> SUFFICES ASSUME Init PROVE SlotInv
  OBVIOUS
<1>1. Handled = {} /\ {c \in Conns : HoldsSlot(c)} = {}
  BY DEF Init, Handled, HoldsSlot, Running
<1>2. Cardinality({}) = 0
  BY FS_EmptySet
<1>3. active = 0 /\ servePc = "accept"
  BY DEF Init
<1>4. ActiveExact
  BY <1>1, <1>2, <1>3 DEF ActiveExact
<1>5. CapRespected
  BY <1>1, <1>2, ModeAssumption DEF CapRespected, Handled
<1> QED BY <1>3, <1>4, <1>5, TypeOKInit DEF SlotInv, ServeInv

LEMMA SlotInvStep == SlotInv /\ [Next]_vars => SlotInv'
<1> SUFFICES ASSUME SlotInv, [Next]_vars PROVE SlotInv'
  OBVIOUS
<1>0. TypeOK /\ ServeInv /\ TypeOK' /\ ServeInv'
  BY TypeOKStep, ServeInvStep DEF SlotInv
<1>1. MaxConns > 0 => active = IF servePc = "over" THEN Cardinality(Handled) + 1
                                                   ELSE Cardinality(Handled)
  BY <1>0, HoldersCounted DEF SlotInv, ActiveExact, HoldersAddUp
<1>2. MaxConns > 0 => Cardinality(Handled) <= MaxConns
  BY DEF SlotInv, CapRespected, Handled
<1> SUFFICES ASSUME MaxConns > 0
             PROVE  /\ active' = IF servePc' = "over" THEN Cardinality(Handled)' + 1
                                                      ELSE Cardinality(Handled)'
                    /\ Cardinality(Handled)' <= MaxConns
  <2>1. HoldersAddUp'
    BY <1>0, HoldersCounted, PTL
  <2> QED BY <1>0, <2>1 DEF SlotInv, ActiveExact, CapRespected, Handled, HoldersAddUp
<1>3. IsFiniteSet(Handled) /\ Cardinality(Handled) \in Nat /\ MaxConns \in Int /\ active \in Int
  BY <1>0, HandledFinite, ModeAssumption DEF TypeOK
<1>4. CASE Quiet BY <1>1, <1>2, <1>4 DEF Quiet
<1>5. CASE Spawns
  <2>1. Cardinality(Handled') = Cardinality(Handled) + 1
    BY <1>3, <1>5, FS_AddElement DEF Spawns
  <2> QED BY <1>1, <1>3, <1>5, <2>1 DEF Spawns
<1>6. CASE Overs BY <1>1, <1>2, <1>3, <1>6 DEF Overs
<1>7. CASE Refuses BY <1>1, <1>2, <1>3, <1>7 DEF Refuses
<1>8. CASE \E c \in Conns : Frees(c)
  <2>1. Cardinality(Handled') = Cardinality(Handled) - 1 /\ active' = active - 1 /\ servePc' = servePc
    BY <1>3, <1>8, FS_RemoveElement DEF Frees
  <2> QED BY <1>1, <1>2, <1>3, <2>1
<1> QED BY <1>0, <1>4, <1>5, <1>6, <1>7, <1>8, SlotCases

LEMMA SlotInvariant == Spec => []SlotInv
BY SlotInvInit, SlotInvStep, PTL DEF Spec

(* Whichever way handle ends (refused by the decision or the guard, failed *)
(* dial or header, end of the pipe) its slot comes back exactly once, and  *)
(* a refused connection keeps none: the counter never drifts.              *)
THEOREM CounterExact == Spec => []ActiveExact
BY SlotInvariant, PTL DEF SlotInv

(* A burst of accepts never runs more handlers than tcp.max-connections.   *)
THEOREM CapNeverOvershot == Spec => []CapRespected
BY SlotInvariant, PTL DEF SlotInv

(* A client is turned away only when there is a cap and every slot is      *)
(* taken by a handler.                                                     *)
THEOREM NobodyRefusedEarly == Spec => RefusedOnlyWhenFull
<1>1. SlotInv /\ [Next]_vars
          => [servePc = "count" /\ servePc' = "over"
                => MaxConns > 0 /\ Cardinality({c \in Conns : Running(c)}) >= MaxConns]_vars
  <2> SUFFICES ASSUME SlotInv, [Next]_vars, servePc = "count", servePc' = "over"
               PROVE  MaxConns > 0 /\ Cardinality(Handled) >= MaxConns
    BY DEF Handled
  <2>1. Overs
    BY SlotCases DEF SlotInv, Quiet, Spawns, Overs, Refuses, Frees
  <2>2. active = Cardinality(Handled)
    BY <2>1, HoldersCounted DEF SlotInv, ActiveExact, HoldersAddUp, Overs
  <2> QED BY <2>1, <2>2, HandledFinite, ModeAssumption DEF Overs
<1> QED BY <1>1, SlotInvariant, PTL DEF Spec, RefusedOnlyWhenFull

=============================================================================
