--------------------------- MODULE UdpFlowProofs ---------------------------
(***************************************************************************)
(* Proofs about the sockets and the flows of UdpGateway, from the session  *)
(* invariant of UdpGatewayProofs and hence for an idle timer that does not *)
(* beat Create.  Sockets and the trust in a remembered source hold for any *)
(* number of handlers; what a flow remembers, which datagram carries the   *)
(* header and what Close leaves hold for one Serve loop, which is what the *)
(* gateway runs.                                                           *)
(***************************************************************************)
EXTENDS UdpGatewayProofs

-----------------------------------------------------------------------------
(* Sockets.                                                                *)

Owned(s) == \E h \in Handlers : hpc[h] \in CreatingPcs /\ loc[h].new = s

(* A socket is open only between Dial and the step that closes it, and a   *)
(* session that nobody can find yet, or any more, has an owner.            *)
SocketInv(s) ==
    /\ stage[s] = "unused" => sock[s] = "none"
    /\ stage[s] = "refused" => sock[s] = "closed"
    /\ expPc[s] \in {"delete", "uncount", "finished"} => sock[s] = "closed"
    /\ stage[s] \in {"dialed", "new"} \/ expPc[s] \in LoserSteps => Owned(s)

SocketsInv == \A s \in Sids : SocketInv(s)

LEMMA SocketsInvInit == Init => SocketsInv
BY DEF Init, SocketsInv, SocketInv, LoserSteps

(* Steps that touch neither sockets nor stages nor once blocks and do not  *)
(* take a socket out of its owner's hands.                                 *)
LEMMA SocketsKept ==
    ASSUME SocketsInv, UNCHANGED <<sock, stage, expPc>>, \A s \in Sids : Owned(s) => Owned(s)'
    PROVE  SocketsInv'
BY DEF SocketsInv, SocketInv

(* A handler that moves keeps what it owns while it stays inside Create.   *)
LEMMA OwnedKept ==
    ASSUME NEW h \in Handlers, \A i \in Handlers \ {h} : hpc'[i] = hpc[i] /\ loc'[i] = loc[i],
           hpc[h] \in CreatingPcs => hpc'[h] \in CreatingPcs /\ loc'[h].new = loc[h].new
    PROVE  \A s \in Sids : Owned(s) => Owned(s)'
BY DEF Owned

LEMMA SocketsInvReceive ==
    ASSUME TypeInv, SocketsInv, NEW h \in Handlers,
           Receive(h) \/ ServeReturns(h) \/ ServeFails(h) \/ DatagramStep(h)
    PROVE  SocketsInv'
<1> USE TypeInvSplit, HandlerAt DEF Goto, Return, sessionVars
<1>1. CASE Receive(h) \/ ServeReturns(h) \/ ServeFails(h)
  <2>1. /\ UNCHANGED <<sock, stage, expPc>> /\ hpc[h] \notin CreatingPcs
        /\ \A i \in Handlers \ {h} : hpc'[i] = hpc[i] /\ loc'[i] = loc[i]
    BY <1>1 DEF Receive, ServeReturns, ServeFails, CreatingPcs
  <2> QED BY <2>1, OwnedKept, SocketsKept
<1>2. CASE DatagramStep(h)
  <2>1. /\ UNCHANGED <<sock, stage, expPc>> /\ hpc[h] \notin CreatingPcs
        /\ \A i \in Handlers \ {h} : hpc'[i] = hpc[i] /\ loc'[i] = loc[i]
    BY <1>2 DEF DatagramStep, Lookup, CheckDone, Recover, RecoverKind, DecideDatagram, Persist,
           StoreSource, StoreKind, Encode, Write, WriteFails, Refresh, ResetTimer, CreatingPcs
  <2> QED BY <2>1, OwnedKept, SocketsKept
<1> QED BY <1>1, <1>2

(* The steps of Create that change no socket and let none go.              *)
LEMMA SocketsInvCounting ==
    ASSUME TypeInv, SocketsInv, NEW h \in Handlers,
           \/ DialFails(h) \/ Reserve(h) \/ ReserveAdd(h) \/ Unreserve(h)
           \/ Rollback(h) \/ StartReader(h) \/ Created(h)
    PROVE  SocketsInv'
<1> USE TypeInvSplit, HandlerAt DEF Goto, Return, sessionVars
<1>1. /\ UNCHANGED <<sock, stage, expPc>>
      /\ \A i \in Handlers \ {h} : hpc'[i] = hpc[i] /\ loc'[i] = loc[i]
      /\ hpc[h] \in CreatingPcs => hpc'[h] \in CreatingPcs /\ loc'[h].new = loc[h].new
  BY DEF DialFails, Reserve, ReserveAdd, Unreserve, Rollback, StartReader, Created, CreatingPcs
<1> QED BY <1>1, OwnedKept, SocketsKept

LEMMA SocketsInvDial ==
    ASSUME TypeInv, SessionInv, SocketsInv, NEW h \in Handlers, Dial(h)
    PROVE  SocketsInv'
<1> USE TypeInvSplit DEF RestOK
<1>0. hpc[h] = "dial" /\ loc[h] \in Locals
  BY HandlerAt DEF Dial
<1>1. PICK s \in Sids :
         /\ stage[s] = "unused" /\ sock' = [sock EXCEPT ![s] = "open"]
         /\ stage' = [stage EXCEPT ![s] = "dialed"]
         /\ loc' = [loc EXCEPT ![h].new = s]
  BY DEF Dial
<1>2. hpc' = [hpc EXCEPT ![h] = "reserve"] /\ UNCHANGED expPc
  BY DEF Dial, Goto
<1>3. Owned(s)'
  <2>1. hpc'[h] \in CreatingPcs /\ loc'[h].new = s
    BY <1>0, <1>1, <1>2 DEF CreatingPcs, Locals
  <2> QED BY <2>1 DEF Owned
<1>4. \A t \in Sids : Owned(t) => Owned(t)'
  <2>1. hpc[h] \notin CreatingPcs
    BY <1>0 DEF CreatingPcs
  <2>2. \A i \in Handlers \ {h} : hpc'[i] = hpc[i] /\ loc'[i] = loc[i]
    BY <1>1, <1>2
  <2> QED BY <2>1, <2>2, OwnedKept
<1>5. expPc[s] = "idle"
  BY <1>1 DEF SessionInv, StageInv
<1>6. ASSUME NEW t \in Sids PROVE SocketInv(t)'
  <2>1. CASE t = s
    BY <1>1, <1>2, <1>3, <1>5, <2>1 DEF SocketInv
  <2>2. CASE t # s
    BY <1>1, <1>2, <1>4, <2>2 DEF SocketsInv, SocketInv
  <2> QED BY <2>1, <2>2
<1> QED BY <1>6 DEF SocketsInv

(* The steps that settle what becomes of the socket a handler owns.        *)
LEMMA SocketsInvSettle ==
    ASSUME TypeInv, SessionInv, SocketsInv, NEW h \in Handlers,
           Refuse(h) \/ NewSession(h) \/ LoadOrStore(h) \/ LoseOnce(h) \/ LoseWait(h)
    PROVE  SocketsInv'
<1> USE TypeInvSplit DEF RestOK
<1>0. /\ hpc[h] \in {"refuse", "newSession", "store", "loseOnce", "loseWait"}
      /\ hpc[h] \in CreatingPcs /\ loc[h] \in Locals
  BY DEF Refuse, NewSession, LoadOrStore, LoseOnce, LoseWait, CreatingPcs
<1>1. PICK s \in Sids : s = loc[h].new /\ stage[s] = CreatingAt(hpc[h]) /\ StageInv(s)
  BY <1>0, OwnedSession
<1>2. /\ \A i \in Handlers \ {h} : hpc'[i] = hpc[i] /\ loc'[i] = loc[i]
      /\ \A t \in Sids \ {s} : stage'[t] = stage[t] /\ sock'[t] = sock[t] /\ expPc'[t] = expPc[t]
  BY <1>1 DEF Refuse, NewSession, LoadOrStore, LoseOnce, LoseWait, Goto, Return, sessionVars
<1>3. ASSUME NEW t \in Sids, t # s PROVE SocketInv(t)'
  <2>1. Owned(t) => Owned(t)'
    BY <1>1, <1>2, <1>3 DEF Owned
  <2> QED BY <1>2, <1>3, <2>1 DEF SocketsInv, SocketInv
<1>4. SocketInv(s)
  BY <1>1 DEF SocketsInv
<1>5. SocketInv(s)'
  <2>1. CASE Refuse(h)
    <3>1. stage'[s] = "refused" /\ sock'[s] = "closed" /\ expPc'[s] = "idle"
      BY <1>1, <2>1 DEF Refuse, StageInv, CreatingAt
    <3> QED BY <1>2, <3>1 DEF SocketInv, LoserSteps
  <2>2. CASE NewSession(h) \/ LoseOnce(h)
    <3>1. hpc'[h] \in CreatingPcs /\ loc'[h].new = s
      BY <1>1, <2>2 DEF NewSession, LoseOnce, Goto, CreatingPcs
    <3>2. Owned(s)'
      BY <3>1 DEF Owned
    <3>3. stage'[s] \in {"new", "lost"} /\ expPc'[s] \in {"idle", "lostStop"}
      BY <1>1, <2>2 DEF NewSession, LoseOnce, StageInv, CreatingAt, Done
    <3> QED BY <3>2, <3>3 DEF SocketInv
  <2>3. CASE LoadOrStore(h)
    <3>1. expPc'[s] = "idle" /\ sock'[s] = sock[s]
      BY <1>1, <2>3 DEF LoadOrStore, StageInv, CreatingAt
    <3>2. CASE sessions[loc[h].dg.peer] = None
      BY <1>1, <2>3, <3>1, <3>2 DEF LoadOrStore, SocketInv, LoserSteps
    <3>3. CASE sessions[loc[h].dg.peer] # None
      <4>1. hpc'[h] \in CreatingPcs /\ loc'[h].new = s /\ stage' = stage
        BY <1>0, <1>1, <2>3, <3>3 DEF LoadOrStore, Goto, CreatingPcs, Locals
      <4>2. Owned(s)'
        BY <4>1 DEF Owned
      <4>3. stage'[s] = "new"
        BY <1>0, <1>1, <2>3, <4>1 DEF LoadOrStore, CreatingAt
      <4> QED BY <3>1, <4>2, <4>3 DEF SocketInv
    <3> QED BY <3>2, <3>3
  <2>4. CASE LoseWait(h)
    <3>1. /\ stage'[s] = "lost" /\ expPc'[s] = "finished" /\ expPc[s] = "finished"
          /\ sock'[s] = sock[s]
      BY <1>1, <2>4 DEF LoseWait, CreatingAt, sessionVars
    <3> QED BY <1>4, <3>1 DEF SocketInv, LoserSteps
  <2> QED BY <2>1, <2>2, <2>3, <2>4
<1> QED BY <1>3, <1>5 DEF SocketsInv

(* The steps that move no handler: the once block closes the socket on its *)
(* way, whichever of its two forms it runs.                                *)
LEMMA SocketsInvOthers ==
    ASSUME TypeInv, SessionInv, SocketsInv,
           \/ \E s \in Sids : TimerFires(s) \/ ExpireStep(s) \/ ReadResponse(s)
                                 \/ ReadError(s) \/ ReaderStep(s)
           \/ CloseListener \/ CloseStep \/ UNCHANGED vars
    PROVE  SocketsInv'
<1>0. /\ expPc \in [Sids -> {"idle", "finished"} \cup ExpireSteps \cup LoserSteps]
      /\ sock \in [Sids -> {"none", "open", "closed"}]
  BY TypeInvSplit DEF RestOK
<1> USE DEF handlerVars, sessionVars
<1>1. UNCHANGED <<hpc, loc, stage>>
  <2>1. ASSUME NEW s \in Sids, TimerFires(s) \/ ExpireStep(s) PROVE UNCHANGED <<hpc, loc, stage>>
    BY <2>1 DEF TimerFires, ExpireStep, StopTimer, ClearSource, ClearKind, CloseSocket,
                DeleteKey, Uncount
  <2>2. ASSUME NEW s \in Sids, ReadResponse(s) \/ ReadError(s) \/ ReaderStep(s)
        PROVE  UNCHANGED <<hpc, loc, stage>>
    BY <2>2 DEF ReadResponse, ReadError, ReaderStep, ReaderExpires, ReaderExits, Forward,
                ReaderRefresh, ReaderReset
  <2>3. ASSUME CloseListener \/ CloseStep \/ UNCHANGED vars PROVE UNCHANGED <<hpc, loc, stage>>
    BY <2>3 DEF CloseListener, CloseStep, RangeVisit, CloserExpires, CloserResumes, RangeEnds,
                WaitGroupDone, vars
  <2> QED BY <2>1, <2>2, <2>3
<1>2. \A t \in Sids : Owned(t) => Owned(t)'
  BY <1>1 DEF Owned
<1>3. ASSUME NEW s \in Sids, ExpireStep(s) PROVE SocketsInv'
  <2>1. ASSUME NEW t \in Sids, t # s PROVE sock'[t] = sock[t] /\ expPc'[t] = expPc[t]
    BY <1>0, <1>3, <2>1 DEF ExpireStep, StopTimer, ClearSource, ClearKind, CloseSocket,
                DeleteKey, Uncount, ExpireGoto
  <2>2. \/ expPc[s] = "stop" /\ expPc'[s] = "clearSource" /\ sock'[s] = sock[s]
        \/ expPc[s] = "lostStop" /\ expPc'[s] = "lostClose" /\ sock'[s] = sock[s]
        \/ expPc[s] = "clearSource" /\ expPc'[s] = "clearKind" /\ sock'[s] = sock[s]
        \/ expPc[s] = "clearKind" /\ expPc'[s] = "close" /\ sock'[s] = sock[s]
        \/ expPc[s] = "close" /\ expPc'[s] = "delete" /\ sock'[s] = "closed"
        \/ expPc[s] = "lostClose" /\ expPc'[s] = "finished" /\ sock'[s] = "closed"
        \/ expPc[s] = "delete" /\ expPc'[s] = "uncount" /\ sock'[s] = sock[s]
        \/ expPc[s] = "uncount" /\ expPc'[s] = "finished" /\ sock'[s] = sock[s]
    BY <1>0, <1>3 DEF ExpireStep, StopTimer, ClearSource, ClearKind, CloseSocket,
                DeleteKey, Uncount, ExpireGoto
  <2>3. stage[s] \in {"stored", "lost"}
    BY <2>2 DEF SessionInv, StageInv, ExpireSteps, LoserSteps
  <2>4. SocketInv(s)'
    BY <1>1, <1>2, <2>2, <2>3 DEF SocketsInv, SocketInv, LoserSteps
  <2>5. ASSUME NEW t \in Sids, t # s PROVE SocketInv(t)'
    BY <1>1, <1>2, <2>1, <2>5 DEF SocketsInv, SocketInv
  <2> QED BY <2>4, <2>5 DEF SocketsInv
<1>4. ASSUME NEW s, Claim(s), UNCHANGED sock PROVE SocketsInv'
  <2>1. \A t \in Sids : expPc'[t] = expPc[t] \/ expPc'[t] = "stop"
    BY <1>0, <1>4 DEF Claim
  <2> QED BY <1>1, <1>2, <1>4, <2>1 DEF SocketsInv, SocketInv, LoserSteps
<1>5. ASSUME NEW s \in Sids,
             TimerFires(s) \/ ReadResponse(s) \/ ReadError(s) \/ ReaderStep(s)
      PROVE  SocketsInv'
  <2>1. UNCHANGED sock /\ (Claim(s) \/ UNCHANGED expPc)
    BY <1>5 DEF TimerFires, ReadResponse, ReadError, ReaderStep, ReaderExpires, ReaderExits,
                Forward, ReaderRefresh, ReaderReset
  <2> QED BY <1>1, <1>2, <1>4, <2>1, SocketsKept
<1>6. ASSUME CloseListener \/ CloseStep \/ UNCHANGED vars PROVE SocketsInv'
  <2>1. UNCHANGED sock /\ (Claim(target) \/ UNCHANGED expPc)
    BY <1>6 DEF CloseListener, CloseStep, RangeVisit, CloserExpires, CloserResumes, RangeEnds,
                WaitGroupDone, vars
  <2> QED BY <1>1, <1>2, <1>4, <2>1, SocketsKept
<1> QED BY <1>3, <1>5, <1>6

LEMMA SocketsInvStep == TypeInv /\ SessionInv /\ SocketsInv /\ [Next]_vars => SocketsInv'
<1> SUFFICES ASSUME TypeInv, SessionInv, SocketsInv, [Next]_vars PROVE SocketsInv'
  OBVIOUS
<1>1. ASSUME NEW h \in Handlers, CreateStep(h) PROVE SocketsInv'
  BY <1>1, SocketsInvCounting, SocketsInvDial, SocketsInvSettle DEF CreateStep
<1> QED BY <1>1, SocketsInvReceive, SocketsInvOthers DEF Next, HandlerStep, Stopped

(* No upstream socket leaks, in a rollback, a lost race, a refused Create  *)
(* or an expiry, in whatever order their steps fall.                       *)
THEOREM NoSocketLeaks ==
    ASSUME TimerMayBeatStore = FALSE
    PROVE  Spec => []SocketsAccounted
<1>1. TypeInv /\ SessionInv /\ SocketsInv => SocketsAccounted
  <2> SUFFICES ASSUME TypeInv, SessionInv, SocketsInv, NEW s \in Sids, sock[s] = "open"
               PROVE  \/ stage[s] = "stored" /\ expPc[s] \notin {"delete", "uncount", "finished"}
                      \/ \E h \in Handlers : loc[h].new = s /\ hpc[h] \in CreatingPcs
    BY DEF SocketsAccounted
  <2>1. SocketInv(s) /\ StageInv(s)
    BY DEF SocketsInv, SessionInv
  <2>2. /\ stage[s] \in {"unused", "dialed", "new", "stored", "lost", "refused"}
        /\ expPc[s] \in {"idle", "finished"} \cup ExpireSteps \cup LoserSteps
    BY TypeInvSplit DEF RestOK
  <2>3. stage[s] = "stored" \/ Owned(s)
    BY <2>1, <2>2 DEF SocketInv, StageInv
  <2> QED BY <2>1, <2>3 DEF SocketInv, Owned
<1>2. Spec => []SocketsInv
  BY SessionInvariant, SocketsInvInit, SocketsInvStep, PTL DEF Spec
<1> QED BY <1>1, <1>2, SessionInvariant, PTL

-----------------------------------------------------------------------------
(* Sources.                                                                *)

Deciding == {"lookup", "checkDone", "recover", "recoverKind", "decide"}
Decided  == CreatingPcs \cup {"dial", "startReader", "created", "persist", "storeSource",
                              "storeKind", "encode", "write", "refresh", "reset"}

MayDeclare(k) == IsTrusted(TrustedNets, k) /\ Policy # "reject"

Uses(h) == hpc[h] \in UsingPcs \/ (hpc[h] = "decide" /\ loc[h].sess # None)

(* The session a handler uses is its client's own.  A source that is not   *)
(* the peer's address was declared, and once Decide has spoken it may be.  *)
AttributedInv(h) ==
    /\ Uses(h) => skey[loc[h].sess] = loc[h].dg.peer
    /\ hpc[h] = "recoverKind" => loc[h].stored \in Declared
    /\ hpc[h] \in Deciding /\ loc[h].src # "direct" => loc[h].hdr \in Declared
    /\ hpc[h] \in Decided /\ loc[h].src # "direct" =>
          loc[h].hdr \in Declared /\ MayDeclare(loc[h].dg.peer)

(* A session that is not stored remembers nothing.                         *)
BlankInv(s) == stage[s] # "stored" => inputSource[s] = None

SourceInv ==
    /\ InputSourceTrusted
    /\ \A s \in Sids : BlankInv(s)
    /\ \A h \in Handlers : AttributedInv(h)

LEMMA SourceInvInit == Init => SourceInv
BY DEF Init, SourceInv, InputSourceTrusted, BlankInv, AttributedInv, Uses, UsingPcs, Deciding,
       Decided, CreatingPcs

(* What Decide lets pass: a source as the datagram or the session had it,  *)
(* from a peer that may declare one, or none at all; a source it strips    *)
(* came from a peer that may not.                                          *)
LEMMA VerdictDeclared ==
    ASSUME NEW h \in Handlers, loc[h] \in Locals, Verdict(h).allow
    PROVE  /\ Verdict(h).src # "direct" =>
                 /\ Verdict(h).src = loc[h].src /\ Verdict(h).hdr = loc[h].hdr
                 /\ MayDeclare(loc[h].dg.peer)
           /\ Verdict(h).src = "direct" /\ loc[h].src # "direct" =>
                 ~MayDeclare(loc[h].dg.peer)
BY ModeAssumption DEF Verdict, Decide, ApplyPolicy, Allowed, Denied, Policies, MayDeclare

(* A session in use is stored.                                             *)
LEMMA UsedIsStored ==
    ASSUME TypeInv, SessionInv, NEW h \in Handlers, Uses(h)
    PROVE  loc[h].sess \in Sids /\ stage[loc[h].sess] = "stored"
<1>1. HandlerInv(h) /\ loc[h].sess \in Sids \cup {None}
  BY TypeInvSplit DEF SessionInv, Locals
<1> QED BY <1>1 DEF Uses, HandlerInv

(* A handler that does not move keeps its attributions.                    *)
LEMMA AttributedKept ==
    ASSUME TypeInv, SessionInv, NEW h \in Handlers, AttributedInv(h),
           hpc'[h] = hpc[h], loc'[h] = loc[h],
           \A s \in Sids : stage[s] = "stored" => skey'[s] = skey[s]
    PROVE  AttributedInv(h)'
<1>1. Uses(h)' <=> Uses(h)
  BY DEF Uses
<1> QED BY <1>1, UsedIsStored DEF AttributedInv

(* A step of one handler that leaves keys, stages and sources alone.       *)
LEMMA SourceAlone ==
    ASSUME TypeInv, SessionInv, SourceInv, NEW h \in Handlers,
           UNCHANGED <<skey, stage, inputSource>>,
           \A i \in Handlers \ {h} : hpc'[i] = hpc[i] /\ loc'[i] = loc[i],
           AttributedInv(h)'
    PROVE  SourceInv'
<1>1. \A i \in Handlers : AttributedInv(i)'
  BY AttributedKept DEF SourceInv
<1> QED BY <1>1 DEF SourceInv, InputSourceTrusted, BlankInv

LEMMA SourceInvReceive ==
    ASSUME TypeInv, SessionInv, SourceInv, NEW h \in Handlers,
           Receive(h) \/ ServeReturns(h) \/ ServeFails(h)
    PROVE  SourceInv'
<1> USE TypeInvSplit DEF Goto, sessionVars, flowVars
<1>1. /\ UNCHANGED <<skey, stage, inputSource>>
      /\ \A i \in Handlers \ {h} : hpc'[i] = hpc[i] /\ loc'[i] = loc[i]
  BY DEF Receive, ServeReturns, ServeFails
<1>2. CASE Receive(h)
  <2>1. PICK d \in Datagrams :
           /\ hpc' = [hpc EXCEPT ![h] = "lookup"]
           /\ loc' = [loc EXCEPT ![h] = [NoLocals EXCEPT !.dg = d, !.hdr = d.hdr, !.src = d.kind]]
    BY <1>2 DEF Receive
  <2>2. loc'[h].src = d.kind /\ loc'[h].hdr = d.hdr /\ hpc'[h] = "lookup"
    BY <2>1 DEF NoLocals
  <2>3. d.kind # "direct" => d.hdr \in Declared
    BY DEF Datagrams
  <2>4. AttributedInv(h)'
    BY <2>2, <2>3 DEF AttributedInv, Uses, UsingPcs, Decided, CreatingPcs
  <2> QED BY <1>1, <2>4, SourceAlone
<1>3. CASE ServeReturns(h) \/ ServeFails(h)
  <2>1. AttributedInv(h)'
    BY <1>3 DEF ServeReturns, ServeFails, AttributedInv, Uses, UsingPcs, Deciding, Decided, CreatingPcs
  <2> QED BY <1>1, <2>1, SourceAlone
<1> QED BY <1>2, <1>3

LEMMA SourceInvDatagram ==
    ASSUME TypeInv, SessionInv, SourceInv, NEW h \in Handlers, DatagramStep(h), ~StoreSource(h)
    PROVE  SourceInv'
<1> USE TypeInvSplit, HandlerAt DEF Goto, Return, sessionVars, flowVars
<1>0. AttributedInv(h) /\ HandlerInv(h)
  BY DEF SourceInv, SessionInv
<1>1. /\ UNCHANGED <<skey, stage, inputSource>>
      /\ \A i \in Handlers \ {h} : hpc'[i] = hpc[i] /\ loc'[i] = loc[i]
  BY DEF DatagramStep, Lookup, CheckDone, Recover, RecoverKind, DecideDatagram, Persist,
         StoreKind, Encode, Write, WriteFails, Refresh, ResetTimer
<1>2. SUFFICES AttributedInv(h)'
  BY <1>1, SourceAlone
<1>3. CASE hpc'[h] = "idle"
  BY <1>3 DEF AttributedInv, Uses, UsingPcs, Deciding, Decided, CreatingPcs
<1> USE DEF AttributedInv, Uses
<1>4. CASE Lookup(h)
  <2>1. /\ loc'[h].sess = sessions[loc[h].dg.peer] /\ loc'[h].dg = loc[h].dg
        /\ loc'[h].src = loc[h].src /\ loc'[h].hdr = loc[h].hdr
        /\ hpc'[h] \in {"decide", "checkDone"} /\ hpc[h] = "lookup"
    BY <1>4 DEF Lookup, Locals
  <2>2. sessions[loc[h].dg.peer] # None => skey[sessions[loc[h].dg.peer]] = loc[h].dg.peer
    BY <1>4, FoundIsStored DEF Lookup
  <2>3. hpc'[h] = "checkDone" => sessions[loc[h].dg.peer] # None
    BY <1>4 DEF Lookup
  <2> QED BY <1>0, <1>1, <2>1, <2>2, <2>3 DEF UsingPcs, Deciding, Decided, CreatingPcs
<1>5. CASE CheckDone(h)
  <2>1. /\ loc'[h].dg = loc[h].dg /\ loc'[h].src = loc[h].src /\ loc'[h].hdr = loc[h].hdr
        /\ loc'[h].sess = loc[h].sess \/ (loc'[h].sess = None /\ hpc'[h] = "decide")
        /\ hpc'[h] \in {"decide", "recover"} /\ hpc[h] = "checkDone"
    BY <1>5 DEF CheckDone, Locals
  <2> QED BY <1>0, <1>1, <2>1 DEF UsingPcs, Deciding, Decided, CreatingPcs
<1>6. CASE Recover(h)
  <2>1. /\ loc'[h].dg = loc[h].dg /\ loc'[h].src = loc[h].src /\ loc'[h].hdr = loc[h].hdr
        /\ loc'[h].sess = loc[h].sess /\ loc'[h].stored = inputSource[loc[h].sess]
        /\ hpc'[h] \in {"decide", "recoverKind"} /\ hpc[h] = "recover" /\ loc[h].sess \in Sids
    BY <1>6 DEF Recover, Locals
  <2>2. hpc'[h] = "recoverKind" => inputSource[loc[h].sess] \in Declared
    BY <1>6, <2>1 DEF Recover, SourceInv, InputSourceTrusted
  <2> QED BY <1>0, <1>1, <2>1, <2>2 DEF UsingPcs, Deciding, Decided, CreatingPcs
<1>7. CASE RecoverKind(h)
  <2>1. /\ loc'[h].dg = loc[h].dg /\ loc'[h].sess = loc[h].sess
        /\ loc'[h].hdr = loc[h].stored \/ loc'[h] = loc[h]
        /\ hpc'[h] = "decide" /\ hpc[h] = "recoverKind"
    BY <1>7 DEF RecoverKind, Locals
  <2> QED BY <1>0, <1>1, <2>1 DEF UsingPcs, Deciding, Decided, CreatingPcs
<1>8. CASE DecideDatagram(h) /\ hpc'[h] # "idle"
  <2>1. /\ loc'[h].dg = loc[h].dg /\ loc'[h].sess = loc[h].sess /\ Verdict(h).allow
        /\ loc'[h].src = Verdict(h).src /\ loc'[h].hdr = Verdict(h).hdr
        /\ hpc'[h] = (IF loc[h].sess = None THEN "dial" ELSE "persist") /\ hpc[h] = "decide"
    BY <1>8 DEF DecideDatagram, Locals
  <2>2. Verdict(h).src # "direct" =>
           /\ Verdict(h).src = loc[h].src /\ Verdict(h).hdr = loc[h].hdr
           /\ MayDeclare(loc[h].dg.peer)
    BY <2>1, VerdictDeclared
  <2> QED BY <1>0, <1>1, <2>1, <2>2 DEF UsingPcs, Deciding, Decided, CreatingPcs, MayDeclare
<1>9. CASE Persist(h) \/ StoreKind(h) \/ Write(h) \/ WriteFails(h)
  <2>1. /\ loc'[h] = loc[h] /\ hpc[h] \in {"persist", "storeKind", "write"}
        /\ hpc'[h] \in {"storeSource", "encode", "refresh"}
    BY <1>9 DEF Persist, StoreKind, Write, WriteFails
  <2> QED BY <1>0, <1>1, <2>1 DEF UsingPcs, Deciding, Decided, CreatingPcs, MayDeclare
<1>10. CASE Encode(h) /\ hpc'[h] # "idle"
  <2>1. /\ loc'[h].dg = loc[h].dg /\ loc'[h].src = loc[h].src /\ loc'[h].hdr = loc[h].hdr
        /\ loc'[h].sess = loc[h].sess /\ hpc'[h] = "write" /\ hpc[h] = "encode"
    BY <1>10 DEF Encode, Locals
  <2> QED BY <1>0, <1>1, <2>1 DEF UsingPcs, Deciding, Decided, CreatingPcs, MayDeclare
<1>11. CASE (Refresh(h) \/ ResetTimer(h)) /\ hpc'[h] # "idle"
  <2>1. loc'[h] = loc[h] /\ hpc[h] = "refresh" /\ hpc'[h] = "reset"
    BY <1>11 DEF Refresh, ResetTimer
  <2> QED BY <1>0, <1>1, <2>1 DEF UsingPcs, Deciding, Decided, CreatingPcs, MayDeclare
<1> QED BY <1>3, <1>4, <1>5, <1>6, <1>7, <1>8, <1>9, <1>10, <1>11 DEF DatagramStep

(* The one step that makes a source session state.                         *)
LEMMA SourceInvStoreSource ==
    ASSUME TypeInv, SessionInv, SourceInv, NEW h \in Handlers, StoreSource(h)
    PROVE  SourceInv'
<1>0. /\ hpc \in [Handlers -> HandlerPcs] /\ inputSource \in [Sids -> Headers \cup {None}]
  BY TypeInvSplit DEF RestOK
<1>1. /\ hpc[h] = "storeSource" /\ hpc' = [hpc EXCEPT ![h] = "storeKind"]
      /\ UNCHANGED <<loc, skey, stage>>
      /\ inputSource' = [inputSource EXCEPT ![loc[h].sess] = loc[h].hdr]
  BY DEF StoreSource, Goto, sessionVars
<1>2. Uses(h) /\ AttributedInv(h) /\ loc[h].src = "v2"
  BY <1>1, HandlerAt DEF Uses, UsingPcs, SourceInv
<1>3. loc[h].sess \in Sids /\ stage[loc[h].sess] = "stored"
  BY <1>2, UsedIsStored
<1>4. /\ skey[loc[h].sess] = loc[h].dg.peer
      /\ loc[h].hdr \in Declared /\ MayDeclare(loc[h].dg.peer)
  BY <1>1, <1>2 DEF AttributedInv, Decided
<1>5. InputSourceTrusted'
  BY <1>0, <1>1, <1>3, <1>4 DEF SourceInv, InputSourceTrusted, MayDeclare
<1>6. \A s \in Sids : BlankInv(s)'
  BY <1>0, <1>1, <1>3 DEF SourceInv, BlankInv
<1>7. AttributedInv(h)'
  BY <1>0, <1>1, <1>2, <1>4 DEF AttributedInv, Uses, Deciding, MayDeclare
<1>8. \A i \in Handlers \ {h} : AttributedInv(i)'
  BY <1>0, <1>1, AttributedKept DEF SourceInv
<1> QED BY <1>5, <1>6, <1>7, <1>8 DEF SourceInv

LEMMA SourceInvCreate ==
    ASSUME TypeInv, SessionInv, SourceInv, NEW h \in Handlers, CreateStep(h)
    PROVE  SourceInv'
<1> USE TypeInvSplit, HandlerAt DEF Goto, Return, sessionVars, flowVars
<1>0. AttributedInv(h) /\ HandlerInv(h)
  BY DEF SourceInv, SessionInv
<1>1. UNCHANGED inputSource /\ \A i \in Handlers \ {h} : hpc'[i] = hpc[i] /\ loc'[i] = loc[i]
  BY DEF CreateStep, Dial, DialFails, Reserve, ReserveAdd, Unreserve, Refuse, NewSession,
         LoadOrStore, StartReader, Rollback, LoseOnce, LoseWait, Created
<1>2. \/ UNCHANGED stage
      \/ \E s \in Sids :
            stage[s] # "stored" /\ \A t \in Sids \ {s} : stage'[t] = stage[t]
  <2>1. CASE Dial(h)
    BY <2>1 DEF Dial, RestOK
  <2>2. CASE Refuse(h) \/ NewSession(h) \/ LoadOrStore(h) \/ LoseOnce(h)
    <3>1. hpc[h] \in CreatingPcs
      BY <2>2 DEF Refuse, NewSession, LoadOrStore, LoseOnce, CreatingPcs
    <3>2. loc[h].new \in Sids /\ stage[loc[h].new] = CreatingAt(hpc[h])
      BY <3>1, OwnedSession
    <3>3. stage[loc[h].new] # "stored"
      BY <3>1, <3>2 DEF CreatingAt, CreatingPcs
    <3>4. \A t \in Sids \ {loc[h].new} : stage'[t] = stage[t]
      BY <2>2, <3>2 DEF Refuse, NewSession, LoadOrStore, LoseOnce, RestOK
    <3> QED BY <3>2, <3>3, <3>4
  <2>3. CASE UNCHANGED stage
    BY <2>3
  <2> QED BY <2>1, <2>2, <2>3 DEF CreateStep, DialFails, Reserve, ReserveAdd, Unreserve,
                                  StartReader, Rollback, LoseWait, Created
<1>3. \A s \in Sids : skey'[s] = skey[s] \/ stage[s] = "unused"
  BY DEF CreateStep, Dial, DialFails, Reserve, ReserveAdd, Unreserve, Refuse, NewSession,
         LoadOrStore, StartReader, Rollback, LoseOnce, LoseWait, Created, RestOK
<1>4. \A s \in Sids : BlankInv(s)'
  BY <1>1, <1>2 DEF SourceInv, BlankInv
<1>5. InputSourceTrusted'
  BY <1>1, <1>3 DEF SourceInv, BlankInv, InputSourceTrusted
<1>6. \A i \in Handlers \ {h} : AttributedInv(i)'
  BY <1>1, <1>3, AttributedKept DEF SourceInv
<1>7. SUFFICES AttributedInv(h)'
  BY <1>4, <1>5, <1>6 DEF SourceInv
<1>8. CASE hpc'[h] = "idle"
  BY <1>8 DEF AttributedInv, Uses, UsingPcs, Deciding, Decided, CreatingPcs
<1>9. CASE hpc'[h] # "idle"
  <2>1. CASE Dial(h)
    <3>1. /\ loc'[h].dg = loc[h].dg /\ loc'[h].src = loc[h].src /\ loc'[h].hdr = loc[h].hdr
          /\ hpc'[h] = "reserve" /\ hpc[h] = "dial"
      BY <2>1 DEF Dial, Locals
    <3> QED BY <1>0, <3>1 DEF AttributedInv, Uses, UsingPcs, Deciding, Decided, CreatingPcs, MayDeclare
  <2>2. CASE LoadOrStore(h)
    <3>1. loc[h].new \in Sids /\ skey[loc[h].new] = loc[h].dg.peer
      BY <2>2, OwnedSession DEF LoadOrStore, CreatingPcs
    <3>2. /\ loc'[h].dg = loc[h].dg /\ loc'[h].src = loc[h].src /\ loc'[h].hdr = loc[h].hdr
          /\ hpc'[h] \in {"startReader", "rollback"} /\ hpc[h] = "store" /\ skey' = skey
          /\ \/ loc'[h].sess = loc[h].new
             \/ sessions[loc[h].dg.peer] # None /\ loc'[h].sess = sessions[loc[h].dg.peer]
      BY <2>2 DEF LoadOrStore, Locals
    <3>3. skey[loc'[h].sess] = loc[h].dg.peer
      BY <2>2, <3>1, <3>2, FoundIsStored
    <3> QED BY <1>0, <3>2, <3>3 DEF AttributedInv, Uses, Deciding, Decided, CreatingPcs, MayDeclare
  <2>3. CASE ~Dial(h) /\ ~LoadOrStore(h)
    <3>1. /\ loc'[h] = loc[h] /\ skey' = skey
          /\ hpc[h] \in CreatingPcs \cup {"startReader", "created"}
          /\ hpc'[h] \in Decided \ {"dial", "startReader"}
          /\ hpc'[h] \in UsingPcs => hpc[h] \in UsingPcs
      BY <1>9, <2>3 DEF CreateStep, DialFails, Reserve, ReserveAdd, Unreserve, Refuse, NewSession,
         StartReader, Rollback, LoseOnce, LoseWait, Created, CreatingPcs, Decided, UsingPcs
    <3> QED BY <1>0, <3>1 DEF AttributedInv, Uses, Deciding, Decided, CreatingPcs, MayDeclare
  <2> QED BY <2>1, <2>2, <2>3
<1> QED BY <1>8, <1>9

(* The steps that move no handler at most clear a source.                  *)
LEMMA OthersKeepSources ==
    ASSUME TypeInv,
           \/ \E s \in Sids : TimerFires(s) \/ ExpireStep(s) \/ ReadResponse(s)
                                 \/ ReadError(s) \/ ReaderStep(s)
           \/ CloseListener \/ CloseStep \/ UNCHANGED vars
    PROVE  /\ UNCHANGED <<hpc, loc, skey, stage, headerSent, wire>>
           /\ \A s \in Sids : \/ inputSource'[s] = inputSource[s]
                              \/ inputSource'[s] = None /\ Done(s)
           /\ \A s \in Sids : inputSrcKind'[s] = inputSrcKind[s] \/ Done(s)
           /\ \A s \in Sids : Done(s) => Done(s)'
           /\ \A k \in Clients : sessions'[k] = sessions[k] \/ sessions'[k] = None
<1> USE TypeInvSplit DEF handlerVars, sessionVars, flowVars, Done, RestOK
<1>1. ASSUME NEW s \in Sids, ExpireStep(s)
      PROVE  /\ UNCHANGED <<hpc, loc, skey, stage, headerSent, wire>>
             /\ \A t \in Sids : \/ inputSource'[t] = inputSource[t]
                                \/ inputSource'[t] = None /\ Done(t)
             /\ \A t \in Sids : inputSrcKind'[t] = inputSrcKind[t] \/ Done(t)
             /\ \A t \in Sids : Done(t) => Done(t)'
             /\ \A k \in Clients : sessions'[k] = sessions[k] \/ sessions'[k] = None
  BY <1>1 DEF ExpireStep, StopTimer, ClearSource, ClearKind, CloseSocket, DeleteKey, Uncount,
              ExpireGoto
<1>2. ASSUME NEW s \in Sids, TimerFires(s) \/ ReadResponse(s) \/ ReadError(s) \/ ReaderStep(s)
      PROVE  /\ UNCHANGED <<hpc, loc, skey, stage, flowVars, sessions, wire>>
             /\ \A t \in Sids : Done(t) => Done(t)'
  BY <1>2 DEF TimerFires, ReadResponse, ReadError, ReaderStep, ReaderExpires, ReaderExits,
              Forward, ReaderRefresh, ReaderReset, Claim
<1>3. ASSUME CloseListener \/ CloseStep \/ UNCHANGED vars
      PROVE  /\ UNCHANGED <<hpc, loc, skey, stage, flowVars, sessions, wire>>
             /\ \A t \in Sids : Done(t) => Done(t)'
  BY <1>3 DEF CloseListener, CloseStep, RangeVisit, CloserExpires, CloserResumes, RangeEnds,
              WaitGroupDone, Claim, vars
<1> QED BY <1>1, <1>2, <1>3

LEMMA SourceInvOthers ==
    ASSUME TypeInv, SourceInv,
           \/ \E s \in Sids : TimerFires(s) \/ ExpireStep(s) \/ ReadResponse(s)
                                 \/ ReadError(s) \/ ReaderStep(s)
           \/ CloseListener \/ CloseStep \/ UNCHANGED vars
    PROVE  SourceInv'
BY OthersKeepSources
DEF SourceInv, InputSourceTrusted, BlankInv, AttributedInv, Uses

LEMMA SourceInvStep == TypeInv /\ SessionInv /\ SourceInv /\ [Next]_vars => SourceInv'
BY SourceInvReceive, SourceInvDatagram, SourceInvStoreSource, SourceInvCreate, SourceInvOthers
DEF Next, HandlerStep, Stopped

LEMMA SourceInvariant ==
    ASSUME TimerMayBeatStore = FALSE
    PROVE  Spec => [](TypeInv /\ SessionInv /\ SourceInv)
BY SessionInvariant, SourceInvInit, SourceInvStep, PTL DEF Spec

(* What a session remembers was declared by its own client, one that may   *)
(* declare a source, though handleDatagram decides on one datagram and     *)
(* stores after other goroutines have moved on.                            *)
THEOREM RememberedSourceTrusted ==
    ASSUME TimerMayBeatStore = FALSE
    PROVE  Spec => []InputSourceTrusted
BY SourceInvariant, PTL DEF SourceInv

-----------------------------------------------------------------------------
(* One Serve loop: it handles a datagram to its end before it reads the    *)
(* next one, so the program has a single handler.                          *)

SingleHandler == \A h, i \in Handlers : h = i

Fresh(s) == inputSource[s] = None \/ Done(s)

Opens(h) ==
    \/ hpc[h] \in {"dial", "reserve", "reserveAdd", "unreserve", "refuse", "newSession", "store"}
    \/ hpc[h] = "decide" /\ loc[h].sess = None

(* While the loop creates a session its client has no live one, so the     *)
(* session it gets is its own new one or a done one; a datagram without a  *)
(* declared source meets a session that remembers none, or a done one.     *)
FlowInv(h) ==
    /\ hpc[h] = "checkDone" => sessions[loc[h].dg.peer] \in {None, loc[h].sess}
    /\ Opens(h) => sessions[loc[h].dg.peer] = None \/ Done(sessions[loc[h].dg.peer])
    /\ hpc[h] \in {"rollback", "loseOnce", "loseWait"} => Done(loc[h].sess)
    /\ hpc[h] \in {"startReader", "created", "storeSource"} => Fresh(loc[h].sess)
    /\ hpc[h] = "recoverKind" => inputSrcKind[loc[h].sess] # None \/ Done(loc[h].sess)
    /\ hpc[h] = "decide" /\ loc[h].sess # None /\ loc[h].src = "direct" => Fresh(loc[h].sess)
    /\ hpc[h] \in {"persist", "encode", "write"} /\ loc[h].src = "direct" => Fresh(loc[h].sess)

(* The two stores of a source are seen half done only by the loop itself.  *)
KindInv(s) ==
    inputSource[s] # None =>
        \/ inputSrcKind[s] # None \/ Done(s)
        \/ \E h \in Handlers : hpc[h] = "storeKind" /\ loc[h].sess = s

(* A socket that has carried a datagram has had its header, and so has the *)
(* one a datagram is about to be written to.                               *)
HeaderInv(h) ==
    /\ loc[h].enc # None => hpc[h] \in {"write", "refresh", "reset"}
    /\ OutputMode = "first" /\ hpc[h] = "write" =>
          headerSent[loc[h].sess] /\ (loc[h].enc # None => ~wire[loc[h].sess])
WireInv(s) == OutputMode = "first" /\ wire[s] => headerSent[s]

LoopInv ==
    /\ \A h \in Handlers : FlowInv(h) /\ HeaderInv(h)
    /\ \A s \in Sids : KindInv(s) /\ WireInv(s)

LEMMA LoopInvInit == Init => LoopInv
<1> SUFFICES ASSUME Init PROVE LoopInv
  OBVIOUS
<1>1. ASSUME NEW h \in Handlers PROVE FlowInv(h) /\ HeaderInv(h)
  BY DEF Init, FlowInv, HeaderInv, Opens, NoLocals
<1>2. ASSUME NEW s \in Sids PROVE KindInv(s) /\ WireInv(s)
  BY DEF Init, KindInv, WireInv
<1> QED BY <1>1, <1>2 DEF LoopInv

(* What a handler uses, looks up or owns is in the domain it is used in.   *)
LEMMA LoopAt ==
    ASSUME TypeInv, SessionInv, NEW h \in Handlers
    PROVE  /\ hpc[h] \notin {"idle", "returned"} =>
                 loc[h].dg.peer \in Clients /\ sessions[loc[h].dg.peer] \in Sids \cup {None}
           /\ Uses(h) => loc[h].sess \in Sids
           /\ loc[h].sess \in Sids \cup {None} /\ loc[h] \in Locals
<1>1. Uses(h) => loc[h].sess \in Sids
  BY UsedIsStored
<1> QED BY <1>1, TypeInvSplit, HandlerAt DEF RestOK, Locals

(* The steps that move no handler.  Each claim of FlowInv survives a       *)
(* session that becomes done, a key that becomes free and a source that is *)
(* cleared.                                                                *)
LEMMA LoopInvOthers ==
    ASSUME TypeInv, SessionInv, LoopInv,
           \/ \E s \in Sids : TimerFires(s) \/ ExpireStep(s) \/ ReadResponse(s)
                                 \/ ReadError(s) \/ ReaderStep(s)
           \/ CloseListener \/ CloseStep \/ UNCHANGED vars
    PROVE  LoopInv'
<1>1. /\ UNCHANGED <<hpc, loc, headerSent, wire>>
      /\ \A s \in Sids : inputSource'[s] = inputSource[s] \/ (inputSource'[s] = None /\ Done(s))
      /\ \A s \in Sids : inputSrcKind'[s] = inputSrcKind[s] \/ Done(s)
      /\ \A s \in Sids : Done(s) => Done(s)'
      /\ \A k \in Clients : sessions'[k] = sessions[k] \/ sessions'[k] = None
  BY OthersKeepSources
<1>2. ASSUME NEW s \in Sids PROVE KindInv(s)' /\ WireInv(s)'
  BY <1>1 DEF LoopInv, KindInv, WireInv
<1>3. ASSUME NEW h \in Handlers PROVE HeaderInv(h)'
  BY <1>1 DEF LoopInv, HeaderInv
<1>4. ASSUME NEW h \in Handlers PROVE FlowInv(h)'
  <2>0. FlowInv(h)
    BY DEF LoopInv
  <2>1. Opens(h)' <=> Opens(h)
    BY <1>1 DEF Opens
  <2>2. \A s \in Sids : Fresh(s) => Fresh(s)'
    BY <1>1 DEF Fresh
  <2>3. /\ hpc[h] \notin {"idle", "returned"} =>
              loc[h].dg.peer \in Clients /\ sessions[loc[h].dg.peer] \in Sids \cup {None}
        /\ Uses(h) => loc[h].sess \in Sids
    BY LoopAt
  <2>4. hpc[h] \in UsingPcs \/ (hpc[h] = "decide" /\ loc[h].sess # None) => loc[h].sess \in Sids
    BY <2>3 DEF Uses
  <2>5. (Opens(h) => sessions[loc[h].dg.peer] = None \/ Done(sessions[loc[h].dg.peer]))'
    BY <1>1, <2>0, <2>1, <2>3 DEF FlowInv, Opens
  <2>6. (hpc[h] = "checkDone" => sessions[loc[h].dg.peer] \in {None, loc[h].sess})'
    BY <1>1, <2>0, <2>3 DEF FlowInv
  <2> QED BY <1>1, <2>0, <2>2, <2>4, <2>5, <2>6 DEF FlowInv, UsingPcs
<1> QED BY <1>2, <1>3, <1>4 DEF LoopInv

(* A step of the loop that leaves what sessions remember alone.            *)
LEMMA LoopAlone ==
    ASSUME SingleHandler, LoopInv, NEW h \in Handlers, hpc[h] # "storeKind",
           UNCHANGED <<inputSource, inputSrcKind, headerSent, wire>>,
           \A s \in Sids : Done(s) => Done(s)',
           FlowInv(h)', HeaderInv(h)'
    PROVE  LoopInv'
<1>1. ASSUME NEW s \in Sids PROVE KindInv(s)' /\ WireInv(s)'
  BY DEF LoopInv, KindInv, WireInv, SingleHandler
<1>2. ASSUME NEW i \in Handlers PROVE FlowInv(i)' /\ HeaderInv(i)'
  <2>1. i = h
    BY DEF SingleHandler
  <2> QED BY <2>1
<1> QED BY <1>1, <1>2 DEF LoopInv

LEMMA LoopInvReceive ==
    ASSUME SingleHandler, TypeInv, LoopInv, NEW h \in Handlers,
           Receive(h) \/ ServeReturns(h) \/ ServeFails(h)
    PROVE  LoopInv'
<1> USE TypeInvSplit DEF Goto, flowVars
<1>1. /\ UNCHANGED <<inputSource, inputSrcKind, headerSent, wire, expPc>>
      /\ hpc[h] = "idle" /\ hpc'[h] \in {"lookup", "returned"}
      /\ loc'[h].enc = loc[h].enc \/ loc'[h].enc = None
  BY DEF Receive, ServeReturns, ServeFails, NoLocals
<1>2. FlowInv(h)'
  BY <1>1 DEF FlowInv, Opens
<1>3. HeaderInv(h)'
  BY <1>1 DEF LoopInv, HeaderInv
<1> QED BY <1>1, <1>2, <1>3, LoopAlone DEF Done

(* The look-up, the recovery of a remembered source and the decision.      *)
LEMMA LoopInvDecide ==
    ASSUME SingleHandler, TypeInv, SessionInv, SourceInv, LoopInv, NEW h \in Handlers,
           Lookup(h) \/ CheckDone(h) \/ Recover(h) \/ RecoverKind(h) \/ DecideDatagram(h)
    PROVE  LoopInv'
<1> USE TypeInvSplit DEF Goto, Return, flowVars
<1>0. /\ FlowInv(h) /\ HeaderInv(h) /\ AttributedInv(h) /\ loc[h] \in Locals
      /\ loc[h].dg.peer \in Clients /\ sessions[loc[h].dg.peer] \in Sids \cup {None}
      /\ Uses(h) => loc[h].sess \in Sids
  BY LoopAt DEF Lookup, CheckDone, Recover, RecoverKind, DecideDatagram, LoopInv, SourceInv
<1>1. UNCHANGED <<inputSource, inputSrcKind, headerSent, wire, expPc, sessions>>
  BY DEF Lookup, CheckDone, Recover, RecoverKind, DecideDatagram
<1>2. /\ \A s : Done(s)' <=> Done(s)
      /\ \A s : Fresh(s)' <=> Fresh(s)
  BY <1>1 DEF Done, Fresh
<1>3. hpc[h] \in Deciding
  BY DEF Lookup, CheckDone, Recover, RecoverKind, DecideDatagram, Deciding
<1>4. HeaderInv(h)'
  <2>1. /\ loc'[h].enc = loc[h].enc \/ loc'[h].enc = None
        /\ hpc'[h] \in Deciding \cup {"idle", "dial", "persist"}
    BY <1>0 DEF Lookup, CheckDone, Recover, RecoverKind, DecideDatagram, Deciding, Locals, NoLocals
  <2> QED BY <1>0, <1>3, <2>1 DEF HeaderInv, Deciding
<1>5. SUFFICES FlowInv(h)'
  BY <1>1, <1>2, <1>3, <1>4, LoopAlone DEF Deciding
<1>6. CASE Lookup(h)
  <2>1. /\ loc'[h].sess = sessions[loc[h].dg.peer] /\ loc'[h].dg = loc[h].dg
        /\ hpc'[h] = (IF sessions[loc[h].dg.peer] = None THEN "decide" ELSE "checkDone")
    BY <1>0, <1>6 DEF Lookup, Locals
  <2> QED BY <1>0, <1>1, <2>1 DEF FlowInv, Opens
<1>7. CASE CheckDone(h)
  <2>1. CASE Done(loc[h].sess)
    <3>1. loc'[h].sess = None /\ loc'[h].dg = loc[h].dg /\ hpc'[h] = "decide" /\ hpc[h] = "checkDone"
      BY <1>0, <1>7, <2>1 DEF CheckDone, Locals
    <3>2. sessions[loc[h].dg.peer] \in {None, loc[h].sess}
      BY <1>0, <3>1 DEF FlowInv
    <3> QED BY <1>1, <1>2, <2>1, <3>1, <3>2 DEF FlowInv, Opens
  <2>2. CASE ~Done(loc[h].sess)
    <3>1. /\ loc'[h] = loc[h] /\ hpc[h] = "checkDone" /\ hpc'[h] \in {"recover", "decide"}
          /\ hpc'[h] = "decide" => loc[h].src # "direct"
      BY <1>7, <2>2 DEF CheckDone
    <3>2. loc[h].sess # None
      BY <1>0, <3>1, NoneAssumption DEF Uses, UsingPcs
    <3> QED BY <3>1, <3>2 DEF FlowInv, Opens
  <2> QED BY <2>1, <2>2
<1>8. CASE Recover(h)
  <2>1. /\ loc'[h].sess = loc[h].sess /\ loc'[h].dg = loc[h].dg /\ loc'[h].src = loc[h].src
        /\ hpc[h] = "recover" /\ loc[h].sess \in Sids
        /\ hpc'[h] = (IF inputSource[loc[h].sess] = None THEN "decide" ELSE "recoverKind")
    BY <1>0, <1>8 DEF Recover, Locals, Uses, UsingPcs
  <2>2. inputSource[loc[h].sess] # None => inputSrcKind[loc[h].sess] # None \/ Done(loc[h].sess)
    BY <2>1 DEF LoopInv, KindInv, SingleHandler
  <2>3. inputSource[loc[h].sess] = None => Fresh(loc[h].sess)
    BY DEF Fresh
  <2> QED BY <1>1, <1>2, <2>1, <2>2, <2>3, NoneAssumption DEF FlowInv, Opens
<1>9. CASE RecoverKind(h)
  <2>1. /\ loc'[h].sess = loc[h].sess /\ loc'[h].dg = loc[h].dg
        /\ hpc[h] = "recoverKind" /\ hpc'[h] = "decide" /\ loc[h].sess \in Sids
        /\ inputSrcKind[loc[h].sess] # None => loc'[h].src = inputSrcKind[loc[h].sess]
    BY <1>0, <1>9 DEF RecoverKind, Locals, Uses, UsingPcs
  <2>2. inputSrcKind[loc[h].sess] \in {"v2", None}
    BY <2>1 DEF RestOK
  <2>3. inputSrcKind[loc[h].sess] = None => Fresh(loc[h].sess)
    BY <1>0, <2>1 DEF FlowInv, Fresh
  <2> QED BY <1>2, <2>1, <2>2, <2>3, NoneAssumption DEF FlowInv, Opens
<1>10. CASE DecideDatagram(h) /\ hpc'[h] = "idle"
  BY <1>10 DEF FlowInv, Opens
<1>11. CASE DecideDatagram(h) /\ hpc'[h] # "idle"
  <2>1. /\ loc'[h].dg = loc[h].dg /\ loc'[h].sess = loc[h].sess /\ Verdict(h).allow
        /\ loc'[h].src = Verdict(h).src /\ hpc[h] = "decide"
        /\ hpc'[h] = (IF loc[h].sess = None THEN "dial" ELSE "persist")
    BY <1>0, <1>11 DEF DecideDatagram, Locals
  <2>2. Verdict(h).src = "direct" /\ loc[h].src # "direct" => ~MayDeclare(loc[h].dg.peer)
    BY <1>0, <2>1, VerdictDeclared
  <2>3. loc[h].sess # None => loc[h].sess \in Sids /\ skey[loc[h].sess] = loc[h].dg.peer
    BY <1>0, <2>1 DEF AttributedInv, Uses
  <2>4. loc[h].sess # None /\ ~MayDeclare(loc[h].dg.peer) => Fresh(loc[h].sess)
    BY <2>3 DEF SourceInv, InputSourceTrusted, MayDeclare, Fresh
  <2>5. loc[h].sess # None /\ Verdict(h).src = "direct" => Fresh(loc[h].sess)
    BY <1>0, <2>1, <2>2, <2>4 DEF FlowInv
  <2>6. loc[h].sess = None => sessions[loc[h].dg.peer] = None \/ Done(sessions[loc[h].dg.peer])
    BY <1>0, <2>1 DEF FlowInv, Opens
  <2> QED BY <1>1, <1>2, <2>1, <2>5, <2>6 DEF FlowInv, Opens
<1> QED BY <1>6, <1>7, <1>8, <1>9, <1>10, <1>11

(* Create.  With one loop, what LoadOrStore finds in its way is the done   *)
(* session the look-up passed over.                                        *)
LEMMA LoopInvCreate ==
    ASSUME SingleHandler, TypeInv, SessionInv, SourceInv, LoopInv, NEW h \in Handlers, CreateStep(h)
    PROVE  LoopInv'
<1> USE TypeInvSplit DEF Goto, Return, sessionVars, flowVars
<1>0. /\ hpc[h] \in CreatingPcs \cup {"dial", "startReader", "created"}
      /\ UNCHANGED <<inputSource, inputSrcKind, headerSent, wire>>
  BY DEF CreateStep, Dial, DialFails, Reserve, ReserveAdd, Unreserve, Refuse, NewSession,
         LoadOrStore, StartReader, Rollback, LoseOnce, LoseWait, Created, CreatingPcs
<1>1. /\ FlowInv(h) /\ HeaderInv(h) /\ HandlerInv(h) /\ loc[h] \in Locals
      /\ loc[h].dg.peer \in Clients /\ sessions[loc[h].dg.peer] \in Sids \cup {None}
  BY <1>0, LoopAt DEF LoopInv, SessionInv, CreatingPcs
<1>2. \A s \in Sids : Done(s) => Done(s)'
  BY DEF CreateStep, Dial, DialFails, Reserve, ReserveAdd, Unreserve, Refuse, NewSession,
         LoadOrStore, StartReader, Rollback, LoseOnce, LoseWait, Created, Done, RestOK
<1>3. \A s \in Sids : Fresh(s) => Fresh(s)'
  BY <1>0, <1>2 DEF Fresh
<1>4. HeaderInv(h)'
  <2>1. /\ loc'[h].enc = loc[h].enc \/ loc'[h].enc = None
        /\ hpc'[h] \in CreatingPcs \cup {"idle", "startReader", "created", "persist"}
    BY <1>1 DEF CreateStep, Dial, DialFails, Reserve, ReserveAdd, Unreserve, Refuse, NewSession,
         LoadOrStore, StartReader, Rollback, LoseOnce, LoseWait, Created, CreatingPcs, Locals, NoLocals
  <2> QED BY <1>0, <1>1, <2>1 DEF HeaderInv, CreatingPcs
<1>5. SUFFICES FlowInv(h)'
  BY <1>0, <1>2, <1>4, LoopAlone DEF CreatingPcs
<1>6. CASE hpc'[h] = "idle"
  BY <1>6 DEF FlowInv, Opens
<1>7. CASE Dial(h) \/ Reserve(h) \/ ReserveAdd(h) \/ Unreserve(h) \/ NewSession(h)
  <2>1. /\ loc'[h].dg = loc[h].dg /\ UNCHANGED <<sessions, expPc>>
        /\ hpc[h] \in {"dial", "reserve", "reserveAdd", "unreserve", "newSession"}
        /\ hpc'[h] \in {"reserve", "reserveAdd", "unreserve", "refuse", "newSession", "store"}
    BY <1>1, <1>7 DEF Dial, Reserve, ReserveAdd, Unreserve, NewSession, Locals
  <2>2. sessions[loc[h].dg.peer] = None \/ Done(sessions[loc[h].dg.peer])
    BY <1>1, <2>1 DEF FlowInv, Opens
  <2> QED BY <2>1, <2>2 DEF FlowInv, Opens, Done
<1>8. CASE LoadOrStore(h)
  <2>1. /\ hpc[h] = "store" /\ loc[h].new \in Sids /\ stage[loc[h].new] = "new"
        /\ UNCHANGED expPc
    BY <1>8, OwnedSession DEF LoadOrStore, CreatingPcs, CreatingAt
  <2>2. inputSource[loc[h].new] = None
    BY <2>1 DEF SourceInv, BlankInv
  <2>3. sessions[loc[h].dg.peer] # None => Done(sessions[loc[h].dg.peer])
    BY <1>1, <2>1 DEF FlowInv, Opens
  <2>4. CASE sessions[loc[h].dg.peer] = None
    <3>1. hpc'[h] = "startReader" /\ loc'[h].sess = loc[h].new
      BY <1>1, <1>8, <2>4 DEF LoadOrStore, Locals
    <3> QED BY <1>0, <2>2, <3>1 DEF FlowInv, Opens, Fresh
  <2>5. CASE sessions[loc[h].dg.peer] # None
    <3>1. hpc'[h] = "rollback" /\ loc'[h].sess = sessions[loc[h].dg.peer]
      BY <1>1, <1>8, <2>5 DEF LoadOrStore, Locals
    <3> QED BY <2>1, <2>3, <2>5, <3>1 DEF FlowInv, Opens, Done
  <2> QED BY <2>4, <2>5
<1>9. CASE StartReader(h) \/ Rollback(h) \/ LoseOnce(h) \/ LoseWait(h)
  <2>1. /\ loc'[h] = loc[h] /\ loc[h].sess \in Sids
        /\ \/ hpc[h] = "startReader" /\ hpc'[h] = "created"
           \/ hpc[h] = "rollback" /\ hpc'[h] = "loseOnce"
           \/ hpc[h] = "loseOnce" /\ hpc'[h] = "loseWait"
           \/ hpc[h] = "loseWait" /\ hpc'[h] = "created"
    BY <1>1, <1>9 DEF StartReader, Rollback, LoseOnce, LoseWait, HandlerInv, UsingPcs
  <2>2. Done(loc[h].sess) => Fresh(loc[h].sess)
    BY DEF Fresh
  <2> QED BY <1>1, <1>2, <1>3, <2>1, <2>2 DEF FlowInv, Opens
<1>10. CASE Created(h) /\ hpc'[h] # "idle"
  <2>1. /\ loc'[h] = loc[h] /\ loc[h].sess \in Sids
        /\ hpc[h] = "created" /\ hpc'[h] = "persist"
    BY <1>1, <1>10 DEF Created, HandlerInv, UsingPcs
  <2> QED BY <1>1, <1>3, <2>1 DEF FlowInv, Opens
<1>11. DialFails(h) \/ Refuse(h) => hpc'[h] = "idle"
  BY DEF DialFails, Refuse
<1> QED BY <1>6, <1>7, <1>8, <1>9, <1>10, <1>11 DEF CreateStep

(* The rest of handleDatagram: what is remembered, encoded and written.    *)
LEMMA LoopInvAnswer ==
    ASSUME SingleHandler, TypeInv, SessionInv, LoopInv, NEW h \in Handlers,
           \/ Persist(h) \/ StoreSource(h) \/ StoreKind(h) \/ Encode(h)
           \/ Write(h) \/ WriteFails(h) \/ Refresh(h) \/ ResetTimer(h)
    PROVE  LoopInv'
<1> USE TypeInvSplit DEF Goto, Return, sessionVars, flowVars
<1>0. /\ FlowInv(h) /\ HeaderInv(h) /\ loc[h] \in Locals /\ loc[h].sess \in Sids
      /\ \A s \in Sids : KindInv(s) /\ WireInv(s)
  BY LoopAt DEF LoopInv, Uses, UsingPcs, Persist, StoreSource, StoreKind, Encode, Write, WriteFails,
     Refresh, ResetTimer
<1>1. /\ UNCHANGED <<expPc, sessions>>
      /\ \A s : Done(s)' <=> Done(s)
  BY DEF Persist, StoreSource, StoreKind, Encode, Write, WriteFails, Refresh, ResetTimer, Done
<1>2. \A i \in Handlers : i = h
  BY DEF SingleHandler
<1>3. SUFFICES FlowInv(h)' /\ HeaderInv(h)' /\ \A s \in Sids : KindInv(s)' /\ WireInv(s)'
  BY <1>2 DEF LoopInv
<1>4. CASE Persist(h)
  <2>1. /\ UNCHANGED <<loc, flowVars, wire>> /\ hpc[h] = "persist"
        /\ \/ hpc'[h] = "storeSource" /\ inputSource[loc[h].sess] = None
           \/ hpc'[h] = "encode"
    BY <1>4 DEF Persist
  <2>2. HeaderInv(h)' /\ FlowInv(h)'
    BY <1>0, <1>1, <2>1 DEF HeaderInv, FlowInv, Opens, Fresh
  <2>3. \A s \in Sids : KindInv(s)' /\ WireInv(s)'
    BY <1>0, <1>1, <1>2, <2>1 DEF KindInv, WireInv
  <2> QED BY <2>2, <2>3
<1>5. CASE StoreSource(h)
  <2>1. /\ UNCHANGED <<loc, inputSrcKind, headerSent, wire>>
        /\ hpc[h] = "storeSource" /\ hpc'[h] = "storeKind"
        /\ \A s \in Sids \ {loc[h].sess} : inputSource'[s] = inputSource[s]
    BY <1>5 DEF StoreSource, RestOK
  <2>2. HeaderInv(h)' /\ FlowInv(h)'
    BY <1>0, <2>1 DEF HeaderInv, FlowInv, Opens
  <2>3. \A s \in Sids : KindInv(s)' /\ WireInv(s)'
    BY <1>0, <1>1, <1>2, <2>1 DEF KindInv, WireInv
  <2> QED BY <2>2, <2>3
<1>6. CASE StoreKind(h)
  <2>1. /\ UNCHANGED <<loc, inputSource, headerSent, wire>>
        /\ hpc[h] = "storeKind" /\ hpc'[h] = "encode" /\ loc[h].src = "v2"
        /\ inputSrcKind' = [inputSrcKind EXCEPT ![loc[h].sess] = "v2"]
    BY <1>6, HandlerAt DEF StoreKind
  <2>2. HeaderInv(h)' /\ FlowInv(h)'
    BY <1>0, <2>1 DEF HeaderInv, FlowInv, Opens
  <2>3. \A s \in Sids : KindInv(s)' /\ WireInv(s)'
    BY <1>0, <1>1, <1>2, <2>1, NoneAssumption DEF KindInv, WireInv, RestOK, Sources
  <2> QED BY <2>2, <2>3
<1>7. CASE Encode(h)
  <2>1. /\ UNCHANGED <<inputSource, inputSrcKind, wire>> /\ hpc[h] = "encode"
        /\ headerSent' = (IF OutputMode = "first" THEN [headerSent EXCEPT ![loc[h].sess] = TRUE]
                                                   ELSE headerSent)
    BY <1>7 DEF Encode
  <2>2. \A s \in Sids : KindInv(s)' /\ WireInv(s)'
    BY <1>0, <1>1, <1>2, <2>1 DEF KindInv, WireInv, RestOK
  <2>3. loc[h].enc = None
    BY <1>0, <2>1 DEF HeaderInv
  <2>4. CASE hpc'[h] = "idle" /\ loc'[h] = NoLocals
    BY <2>2, <2>4 DEF HeaderInv, FlowInv, Opens, NoLocals
  <2>5. CASE hpc'[h] = "write" /\ loc' = [loc EXCEPT ![h].enc = loc[h].hdr]
             /\ (OutputMode = "every" \/ ~headerSent[loc[h].sess])
    <3>1. /\ loc'[h].sess = loc[h].sess /\ loc'[h].src = loc[h].src
      BY <1>0, <2>5 DEF Locals
    <3>2. FlowInv(h)'
      BY <1>0, <1>1, <2>1, <2>5, <3>1 DEF FlowInv, Opens, Fresh
    <3>3. OutputMode = "first" => headerSent'[loc[h].sess] /\ ~wire[loc[h].sess]
      BY <1>0, <2>1, <2>5 DEF WireInv, RestOK
    <3> QED BY <2>1, <2>2, <2>5, <3>1, <3>2, <3>3 DEF HeaderInv
  <2>6. CASE hpc'[h] = "write" /\ loc' = loc
    <3>1. OutputMode = "first" => headerSent'[loc[h].sess]
      BY <1>0, <2>1 DEF RestOK
    <3> QED BY <1>0, <1>1, <2>1, <2>2, <2>3, <2>6, <3>1 DEF HeaderInv, FlowInv, Opens, Fresh
  <2>7. \/ hpc'[h] = "idle" /\ loc'[h] = NoLocals
        \/ /\ hpc'[h] = "write" /\ loc' = [loc EXCEPT ![h].enc = loc[h].hdr]
           /\ (OutputMode = "every" \/ ~headerSent[loc[h].sess])
        \/ hpc'[h] = "write" /\ loc' = loc
    BY <1>7 DEF Encode
  <2> QED BY <2>2, <2>4, <2>5, <2>6, <2>7
<1>8. CASE Write(h) \/ WriteFails(h)
  <2>1. /\ UNCHANGED <<loc, inputSource, inputSrcKind, headerSent>>
        /\ hpc[h] = "write" /\ hpc'[h] = "refresh"
        /\ wire' = wire \/ wire' = (IF OutputMode = "first" THEN [wire EXCEPT ![loc[h].sess] = TRUE] ELSE wire)
    BY <1>8 DEF Write, WriteFails
  <2>2. HeaderInv(h)' /\ FlowInv(h)'
    BY <1>0, <2>1 DEF HeaderInv, FlowInv, Opens
  <2>3. \A s \in Sids : KindInv(s)'
    BY <1>0, <1>1, <1>2, <2>1 DEF KindInv
  <2>4. OutputMode = "first" => headerSent[loc[h].sess]
    BY <1>0, <2>1 DEF HeaderInv
  <2>5. \A s \in Sids : WireInv(s)'
    BY <1>0, <2>1, <2>4 DEF WireInv, RestOK
  <2> QED BY <2>2, <2>3, <2>5
<1>9. CASE Refresh(h) \/ ResetTimer(h)
  <2>1. /\ UNCHANGED <<inputSource, inputSrcKind, headerSent, wire>>
        /\ hpc[h] \in {"refresh", "reset"}
        /\ \/ hpc'[h] = "idle" /\ loc'[h] = NoLocals
           \/ hpc'[h] = "reset" /\ loc'[h] = loc[h]
    BY <1>9 DEF Refresh, ResetTimer
  <2>2. HeaderInv(h)' /\ FlowInv(h)'
    BY <1>0, <2>1 DEF HeaderInv, FlowInv, Opens, NoLocals
  <2>3. \A s \in Sids : KindInv(s)' /\ WireInv(s)'
    BY <1>0, <1>1, <1>2, <2>1 DEF KindInv, WireInv
  <2> QED BY <2>2, <2>3
<1> QED BY <1>4, <1>5, <1>6, <1>7, <1>8, <1>9

LEMMA LoopInvStep ==
    ASSUME SingleHandler
    PROVE  TypeInv /\ SessionInv /\ SourceInv /\ LoopInv /\ [Next]_vars => LoopInv'
<1> SUFFICES ASSUME TypeInv, SessionInv, SourceInv, LoopInv, [Next]_vars PROVE LoopInv'
  OBVIOUS
<1>1. ASSUME NEW h \in Handlers, HandlerStep(h) PROVE LoopInv'
  BY <1>1, LoopInvDecide, LoopInvCreate, LoopInvAnswer DEF HandlerStep, DatagramStep
<1> QED BY <1>1, LoopInvReceive, LoopInvOthers DEF Next, Stopped

LEMMA LoopInvariant ==
    ASSUME TimerMayBeatStore = FALSE, SingleHandler
    PROVE  Spec => [](TypeInv /\ SessionInv /\ SourceInv /\ LoopInv)
BY SourceInvariant, LoopInvInit, LoopInvStep, PTL DEF Spec

(* A client whose session remembers a source keeps it: no datagram goes    *)
(* out under the peer's own address while the session is alive, whichever  *)
(* of expire's steps fall between the loop's two loads.                    *)
THEOREM SourceNeverForgotten ==
    ASSUME TimerMayBeatStore = FALSE, SingleHandler
    PROVE  Spec => []NoForgottenSource
<1>1. TypeInv /\ SourceInv /\ LoopInv => NoForgottenSource
  <2> SUFFICES ASSUME TypeInv, SourceInv, LoopInv, NEW h \in Handlers,
                      hpc[h] \in {"encode", "write"}, loc[h].hdr = loc[h].dg.peer
               PROVE  Fresh(loc[h].sess)
    BY DEF NoForgottenSource, Fresh
  <2>1. loc[h].dg.peer \in Clients
    BY HandlerAt
  <2>2. loc[h].src # "direct" => loc[h].hdr \in Declared
    BY DEF SourceInv, AttributedInv, Decided
  <2>3. loc[h].src = "direct"
    BY <2>1, <2>2, HeadersAssumption
  <2> QED BY <2>3 DEF LoopInv, FlowInv
<1> QED BY <1>1, LoopInvariant, PTL

(* With first_datagram output a header goes out on a socket's first        *)
(* datagram or never, also when that one could not be encoded or written.  *)
THEOREM HeaderNeverLate ==
    ASSUME TimerMayBeatStore = FALSE, SingleHandler
    PROVE  Spec => []HeaderOnlyFirst
<1>1. LoopInv => HeaderOnlyFirst
  BY DEF LoopInv, HeaderInv, HeaderOnlyFirst
<1> QED BY <1>1, LoopInvariant, PTL

-----------------------------------------------------------------------------
(* The flow table.                                                         *)

FlowOf == [k \in Clients |-> Flow(k)]

(* A flow ends when the session the map finds is done, or the map finds    *)
(* none; one that does not change is the flow of an unchanged session.     *)
LEMMA FlowAbsent ==
    ASSUME NEW k \in Clients, sessions[k] = None \/ Done(sessions[k])
    PROVE  Flow(k) = "absent"
BY DEF Flow

LEMMA FlowSame ==
    ASSUME UNCHANGED <<sessions, inputSource>>, \A s \in Sids : expPc'[s] = expPc[s],
           sessions \in [Clients -> Sids \cup {None}]
    PROVE  FlowOf' = FlowOf
<1>1. ASSUME NEW k \in Clients PROVE Flow(k)' = Flow(k)
  BY DEF Flow, Done
<1> QED BY <1>1 DEF FlowOf

(* One flow changes: the new table is the old one with that entry.         *)
LEMMA FlowAt ==
    ASSUME NEW k \in Clients, NEW f, Flow(k)' = f, \A j \in Clients \ {k} : Flow(j)' = Flow(j)
    PROVE  FlowOf' = [FlowOf EXCEPT ![k] = f]
<1>1. ASSUME NEW j \in Clients PROVE FlowOf'[j] = [FlowOf EXCEPT ![k] = f][j]
  BY <1>1 DEF FlowOf
<1>2. FlowOf' = [j \in Clients |-> FlowOf'[j]] /\ DOMAIN FlowOf = Clients
  BY DEF FlowOf
<1> QED BY <1>1, <1>2

(* The session under a key is in the map under no other.                   *)
LEMMA OneKey ==
    ASSUME SessionInv, NEW j \in Clients, NEW k \in Clients,
           sessions[j] # None, sessions[j] = sessions[k]
    PROVE  j = k
BY DEF SessionInv, MapConsistent

(* LoadOrStore opens a flow, or finds the client's and opens none.         *)
LEMMA StoreOpensFlow ==
    ASSUME TypeInv, SessionInv, SourceInv, NEW h \in Handlers, LoadOrStore(h)
    PROVE  [Flows!Next]_FlowOf
<1> DEFINE k == loc[h].dg.peer
           s == loc[h].new
<1>0. /\ sessions \in [Clients -> Sids \cup {None}] /\ hpc[h] \in CreatingPcs
      /\ UNCHANGED <<expPc, inputSource>>
  BY TypeInvSplit DEF LoadOrStore, RestOK, CreatingPcs, flowVars
<1>1. /\ s \in Sids /\ k \in Clients /\ stage[s] = "new" /\ expPc[s] = "idle"
  BY <1>0, OwnedSession DEF LoadOrStore, CreatingAt, StageInv
<1>2. CASE sessions[k] # None
  BY <1>0, <1>2, FlowSame DEF LoadOrStore
<1>3. CASE sessions[k] = None
  <2>1. sessions' = [sessions EXCEPT ![k] = s]
    BY <1>3 DEF LoadOrStore
  <2>2. inputSource[s] = None
    BY <1>1 DEF SourceInv, BlankInv
  <2>3. Flow(k) = "absent"
    BY <1>1, <1>3, FlowAbsent
  <2>4. PICK j \in Clients : j = k
    BY <1>1
  <2>5. sessions'[j] = s /\ s # None
    BY <1>0, <1>1, <2>1, <2>4, NoneAssumption
  <2>6. expPc'[sessions'[j]] = "idle" /\ inputSource'[sessions'[j]] = None
    BY <1>0, <1>1, <2>2, <2>5
  <2>7. Flow(j)' = "fresh"
    BY <2>5, <2>6 DEF Flow, Done
  <2>8. \A i \in Clients \ {j} : Flow(i)' = Flow(i)
    BY <1>0, <2>1, <2>4 DEF Flow, Done
  <2>9. FlowOf' = [FlowOf EXCEPT ![j] = "fresh"]
    BY <2>7, <2>8, FlowAt
  <2>10. Flows!Open(j)
    BY <2>3, <2>4, <2>9 DEF Flows!Open, FlowOf
  <2> QED BY <2>10 DEF Flows!Next
<1> QED BY <1>2, <1>3

(* Storing a source teaches the client's flow, unless the session began to *)
(* expire meanwhile: then nobody will ever see it.                         *)
LEMMA StoreLearnsSource ==
    ASSUME TypeInv, SessionInv, SourceInv, LoopInv, NEW h \in Handlers, StoreSource(h)
    PROVE  [Flows!Next]_FlowOf
<1> DEFINE s == loc[h].sess
<1>0. /\ sessions \in [Clients -> Sids \cup {None}]
      /\ inputSource \in [Sids -> Headers \cup {None}]
      /\ hpc[h] = "storeSource" /\ UNCHANGED <<expPc, sessions>>
      /\ inputSource' = [inputSource EXCEPT ![s] = loc[h].hdr]
  BY TypeInvSplit DEF StoreSource, RestOK
<1>1. Uses(h) /\ AttributedInv(h) /\ FlowInv(h) /\ loc[h].src = "v2"
  BY <1>0, HandlerAt DEF Uses, UsingPcs, SourceInv, LoopInv
<1>2. /\ s \in Sids /\ stage[s] = "stored" /\ Fresh(s) /\ loc[h].dg.peer \in Clients
      /\ skey[s] = loc[h].dg.peer /\ loc[h].hdr \in Declared /\ MayDeclare(loc[h].dg.peer)
  BY <1>0, <1>1, UsedIsStored, HandlerAt DEF AttributedInv, Decided, FlowInv
<1>3. CASE Done(s)
  <2>1. ASSUME NEW k \in Clients PROVE Flow(k)' = Flow(k)
    BY <1>0, <1>3 DEF Flow, Done
  <2>2. FlowOf' = FlowOf
    BY <2>1 DEF FlowOf
  <2> QED BY <2>2
<1>4. CASE ~Done(s)
  <2>1. PICK k \in Clients : k = loc[h].dg.peer
    BY <1>2
  <2>2. sessions[k] = s /\ s # None /\ inputSource[s] = None
    BY <1>2, <1>4, <2>1, NoneAssumption DEF SessionInv, MapConsistent, InMap, Done, Fresh
  <2>3. Flow(k) = "fresh"
    BY <1>4, <2>2 DEF Flow
  <2>4. PICK d \in Declared : d = loc[h].hdr
    BY <1>2
  <2>5. /\ sessions'[k] # None /\ expPc'[sessions'[k]] = "idle"
        /\ inputSource'[sessions'[k]] = d /\ d # None
    BY <1>0, <1>2, <1>4, <2>2, <2>4, NoneAssumption DEF Done
  <2>6. Flow(k)' = d
    BY <2>5 DEF Flow, Done
  <2>7. \A j \in Clients \ {k} : sessions[j] = s => FALSE
    BY <2>2, OneKey
  <2>8. \A j \in Clients \ {k} : Flow(j)' = Flow(j)
    BY <1>0, <2>7 DEF Flow, Done
  <2>9. FlowOf' = [FlowOf EXCEPT ![k] = d]
    BY <2>6, <2>8, FlowAt
  <2>10. Flows!Learn(k, d)
    BY <1>2, <2>1, <2>3, <2>9 DEF Flows!Learn, FlowOf, MayDeclare
  <2> QED BY <2>10 DEF Flows!Next
<1> QED BY <1>3, <1>4

(* Whoever takes the once of a session ends its client's flow; taking it   *)
(* again ends nothing.                                                     *)
LEMMA ClaimEndsFlow ==
    ASSUME TypeInv, SessionInv, NEW s \in Sids, Claim(s), stage[s] = "stored" \/ Done(s),
           UNCHANGED <<sessions, inputSource>>
    PROVE  [Flows!Next]_FlowOf
<1>0. /\ sessions \in [Clients -> Sids \cup {None}]
      /\ expPc \in [Sids -> {"idle", "finished"} \cup ExpireSteps \cup LoserSteps]
  BY TypeInvSplit DEF RestOK
<1>1. CASE Done(s)
  BY <1>0, <1>1, FlowSame DEF Claim
<1>2. CASE ~Done(s)
  <2>1. expPc' = [expPc EXCEPT ![s] = "stop"] /\ expPc[s] = "idle" /\ stage[s] = "stored"
    BY <1>2 DEF Claim, Done
  <2>2. InMap(s)
    BY <2>1 DEF InMap
  <2>3. PICK k \in Clients : k = skey[s]
    BY <2>1 DEF SessionInv, StageInv
  <2>4. sessions[k] = s
    BY <2>2, <2>3 DEF SessionInv, MapConsistent
  <2>5. Flow(k)' = "absent"
    BY <1>0, <2>1, <2>4 DEF Flow, Done
  <2>6. s # None /\ \A j \in Clients \ {k} : sessions[j] # s
    BY <2>4, OneKey, NoneAssumption
  <2>7. \A j \in Clients \ {k} : Flow(j)' = Flow(j)
    BY <1>0, <2>1, <2>6 DEF Flow, Done
  <2>8. FlowOf' = [FlowOf EXCEPT ![k] = "absent"]
    BY <2>5, <2>7, FlowAt
  <2>9. FlowOf' = FlowOf \/ Flows!Expire(k)
    <3>1. CASE Flow(k) = "absent"
      BY <2>8, <3>1 DEF FlowOf
    <3>2. CASE Flow(k) # "absent"
      BY <2>8, <3>2 DEF Flows!Expire, FlowOf
    <3> QED BY <3>1, <3>2
  <2> QED BY <2>9 DEF Flows!Next
<1> QED BY <1>1, <1>2

(* The other steps of a handler change no flow.                            *)
LEMMA HandlerFlows ==
    ASSUME TypeInv, SessionInv, SourceInv, LoopInv, NEW h \in Handlers,
           Receive(h) \/ ServeReturns(h) \/ ServeFails(h) \/ HandlerStep(h)
    PROVE  [Flows!Next]_FlowOf
<1>0. /\ sessions \in [Clients -> Sids \cup {None}]
      /\ expPc \in [Sids -> {"idle", "finished"} \cup ExpireSteps \cup LoserSteps]
  BY TypeInvSplit DEF RestOK
<1>1. CASE LoadOrStore(h)
  BY <1>1, StoreOpensFlow
<1>2. CASE StoreSource(h)
  BY <1>2, StoreLearnsSource
<1>3. CASE LoseOnce(h)
  <2>1. /\ loc[h].new \in Sids /\ stage[loc[h].new] = "new"
        /\ \A k \in Clients : sessions[k] # loc[h].new
    BY <1>3, OwnedSession DEF LoseOnce, CreatingPcs, CreatingAt
  <2>2. /\ UNCHANGED <<sessions, inputSource>>
        /\ \A t \in Sids : t # loc[h].new => expPc'[t] = expPc[t]
    BY <1>0, <1>3, <2>1 DEF LoseOnce, flowVars
  <2>3. ASSUME NEW k \in Clients PROVE Flow(k)' = Flow(k)
    BY <1>0, <2>1, <2>2 DEF Flow, Done
  <2> QED BY <2>3 DEF FlowOf
<1>4. CASE ~LoadOrStore(h) /\ ~StoreSource(h) /\ ~LoseOnce(h)
  <2>1. UNCHANGED <<sessions, inputSource, expPc>>
    BY <1>4 DEF HandlerStep, CreateStep, DatagramStep, Receive, ServeReturns, ServeFails, Lookup,
         CheckDone, Recover, RecoverKind, DecideDatagram, Persist, StoreKind, Encode, Write,
         WriteFails, Refresh, ResetTimer, Dial, DialFails, Reserve, ReserveAdd, Unreserve, Refuse,
         NewSession, StartReader, Rollback, LoseWait, Created, flowVars
  <2> QED BY <1>0, <2>1, FlowSame
<1> QED BY <1>1, <1>2, <1>3, <1>4

(* The block under the once changes no flow any more: its session is done. *)
LEMMA ExpireFlows ==
    ASSUME TypeInv, SessionInv, NEW s \in Sids, ExpireStep(s)
    PROVE  FlowOf' = FlowOf
<1>0. /\ sessions \in [Clients -> Sids \cup {None}]
      /\ expPc \in [Sids -> {"idle", "finished"} \cup ExpireSteps \cup LoserSteps]
      /\ inputSource \in [Sids -> Headers \cup {None}]
  BY TypeInvSplit DEF RestOK
<1>1. /\ Done(s) /\ Done(s)'
      /\ \A t \in Sids \ {s} : expPc'[t] = expPc[t] /\ inputSource'[t] = inputSource[t]
      /\ sessions' = sessions \/ (expPc[s] = "delete" /\ sessions' = [sessions EXCEPT ![skey[s]] = None])
  BY <1>0 DEF ExpireStep, StopTimer, ClearSource, ClearKind, CloseSocket, DeleteKey, Uncount,
              ExpireGoto, Done, flowVars
<1>2. ASSUME NEW k \in Clients PROVE Flow(k)' = Flow(k)
  <2>1. CASE sessions'[k] = sessions[k]
    BY <1>0, <1>1, <2>1 DEF Flow, Done
  <2>2. CASE sessions'[k] # sessions[k]
    <3>1. expPc[s] = "delete" /\ k = skey[s] /\ sessions'[k] = None
      BY <1>0, <1>1, <2>2
    <3>2. InMap(s)
      BY <3>1 DEF SessionInv, StageInv, ExpireSteps, InMap
    <3>3. sessions[k] = s
      BY <3>1, <3>2 DEF SessionInv, MapConsistent
    <3> QED BY <1>1, <3>1, <3>3 DEF Flow
  <2> QED BY <2>1, <2>2
<1> QED BY <1>2 DEF FlowOf

LEMMA OtherFlows ==
    ASSUME TimerMayBeatStore = FALSE, TypeInv, SessionInv,
           \/ \E s \in Sids : TimerFires(s) \/ ReadResponse(s) \/ ReadError(s) \/ ReaderStep(s)
           \/ CloseListener \/ CloseStep \/ UNCHANGED vars
    PROVE  [Flows!Next]_FlowOf
<1>0. /\ sessions \in [Clients -> Sids \cup {None}]
      /\ stage \in [Sids -> {"unused", "dialed", "new", "stored", "lost", "refused"}]
  BY TypeInvSplit DEF RestOK
<1>1. ASSUME NEW s \in Sids, TimerFires(s) PROVE [Flows!Next]_FlowOf
  <2>1. Claim(s) /\ UNCHANGED <<sessions, inputSource>> /\ timer[s] = "armed" /\ stage[s] # "new"
    BY <1>1 DEF TimerFires, flowVars
  <2>2. stage[s] = "stored" \/ Done(s)
    BY <1>0, <2>1 DEF SessionInv, StageInv, Done
  <2> QED BY <2>1, <2>2, ClaimEndsFlow
<1>2. ASSUME NEW s \in Sids, ReaderExpires(s) PROVE [Flows!Next]_FlowOf
  <2>1. Claim(s) /\ UNCHANGED <<sessions, inputSource>> /\ reader[s] = "expire"
    BY <1>2 DEF ReaderExpires, ReaderGoto, flowVars
  <2>2. stage[s] = "stored"
    BY <2>1 DEF SessionInv, StageInv
  <2> QED BY <2>1, <2>2, ClaimEndsFlow
<1>3. ASSUME CloserExpires PROVE [Flows!Next]_FlowOf
  <2>1. PICK s \in Sids : s = target /\ stage[s] = "stored"
    BY <1>3 DEF CloserExpires, SessionInv, CloserInv
  <2>2. Claim(s) /\ UNCHANGED <<sessions, inputSource>>
    BY <1>3, <2>1 DEF CloserExpires, Claim, Done, flowVars
  <2> QED BY <2>1, <2>2, ClaimEndsFlow
<1>4. ASSUME UNCHANGED <<sessions, inputSource, expPc>> PROVE [Flows!Next]_FlowOf
  BY <1>0, <1>4, FlowSame
<1>5. ASSUME NEW s \in Sids, ReadResponse(s) \/ ReadError(s) \/ ReaderStep(s), ~ReaderExpires(s)
      PROVE  UNCHANGED <<sessions, inputSource, expPc>>
  BY <1>5 DEF ReadResponse, ReadError, ReaderStep, ReaderExits, Forward, ReaderRefresh,
              ReaderReset, flowVars
<1>6. ASSUME CloseListener \/ CloseStep \/ UNCHANGED vars, ~CloserExpires
      PROVE  UNCHANGED <<sessions, inputSource, expPc>>
  BY <1>6 DEF CloseListener, CloseStep, RangeVisit, CloserResumes, RangeEnds, WaitGroupDone,
              flowVars, vars
<1> QED BY <1>1, <1>2, <1>3, <1>4, <1>5, <1>6

(* One Serve loop over its sessions is a flow table: a client's flow       *)
(* learns the one source it may declare and keeps it until it expires.     *)
THEOREM SessionsAreFlows ==
    ASSUME TimerMayBeatStore = FALSE, SingleHandler
    PROVE  Spec => ImplementsFlowTable
<1>1. Init => Flows!Init
  BY DEF Init, Flows!Init, Flow
<1>2. TypeInv /\ SessionInv /\ SourceInv /\ LoopInv /\ [Next]_vars => [Flows!Next]_FlowOf
  BY HandlerFlows, ExpireFlows, OtherFlows DEF Next, Stopped
<1> QED BY <1>1, <1>2, LoopInvariant, PTL DEF Spec, ImplementsFlowTable, Flows!Spec, FlowOf

-----------------------------------------------------------------------------
(* Close against the datagram that is being handled.                       *)

(* Close takes care of a session: there is nothing left of it, Range has   *)
(* still to come to its key, Range is at it, or its socket is closed and   *)
(* wg.Wait is to come.                                                     *)
Covered(s) ==
    \/ ~LeftOpen(s)
    \/ stage[s] = "stored" /\ skey[s] \in toVisit /\ closePc # "closed"
    \/ target = s /\ closePc \in {"expire", "await"}
    \/ sock[s] = "closed" /\ closePc # "closed"

BeforeDial == {"lookup", "checkDone", "recover", "recoverKind", "decide", "dial"}
Making     == CreatingPcs \cup {"startReader"}

(* After the listener is closed one session at most is not taken care of,  *)
(* that of the datagram the loop was handling.  No other datagram follows  *)
(* it, so there is none such before the loop has dialled.                  *)
CloseInv ==
    closePc # "open" =>
        /\ ~listenerOpen
        /\ closePc \in {"wait", "closed"} => toVisit = {}
        /\ \A s, t \in Sids : ~Covered(s) /\ ~Covered(t) => s = t
        /\ \A h \in Handlers : \A s \in Sids :
              hpc[h] \in BeforeDial \/ (hpc[h] \in Making /\ loc[h].new # s) => Covered(s)

LEMMA CoveredKept ==
    ASSUME NEW s \in Sids, Covered(s), UNCHANGED <<closePc, toVisit, target>>,
           stage[s] = "stored" => stage'[s] = "stored" /\ skey'[s] = skey[s],
           sock[s] = "closed" => sock'[s] = "closed",
           LeftOpen(s)' => LeftOpen(s)
    PROVE  Covered(s)'
BY DEF Covered

(* Steps of a handler on no socket: it stays where it was, before Dial, in *)
(* Create or after it, and no datagram comes in any more.                  *)
LEMMA CloseInvHandler ==
    ASSUME SingleHandler, TypeInv, CloseInv, NEW h \in Handlers,
           \/ Receive(h) \/ ServeReturns(h) \/ ServeFails(h) \/ DatagramStep(h)
           \/ DialFails(h) \/ Reserve(h) \/ ReserveAdd(h) \/ Unreserve(h)
           \/ Rollback(h) \/ LoseWait(h) \/ Created(h)
    PROVE  CloseInv'
<1> USE TypeInvSplit, HandlerAt DEF Goto, Return, sessionVars, closeVars, BeforeDial, Making,
        CreatingPcs
<1>1. UNCHANGED <<closePc, toVisit, target, stage, skey, sock, reader, listenerOpen>>
  <2>1. CASE DatagramStep(h)
    BY <2>1 DEF DatagramStep, Lookup, CheckDone, Recover, RecoverKind, DecideDatagram, Persist,
           StoreSource, StoreKind, Encode, Write, WriteFails, Refresh, ResetTimer
  <2> QED BY <2>1 DEF Receive, ServeReturns, ServeFails, DialFails, Reserve, ReserveAdd,
                      Unreserve, Rollback, LoseWait, Created
<1>2. /\ hpc'[h] \in BeforeDial => hpc[h] \in BeforeDial \/ listenerOpen
      /\ hpc'[h] \in Making => hpc[h] \in Making /\ loc'[h].new = loc[h].new
  <2>1. CASE DatagramStep(h)
    <3>1. CASE Lookup(h) \/ CheckDone(h) \/ Recover(h) \/ RecoverKind(h) \/ DecideDatagram(h)
      BY <3>1 DEF Lookup, CheckDone, Recover, RecoverKind, DecideDatagram
    <3>2. CASE Persist(h) \/ StoreSource(h) \/ StoreKind(h) \/ Encode(h) \/ Write(h)
                 \/ WriteFails(h) \/ Refresh(h) \/ ResetTimer(h)
      BY <3>2 DEF Persist, StoreSource, StoreKind, Encode, Write, WriteFails, Refresh, ResetTimer
    <3> QED BY <2>1, <3>1, <3>2 DEF DatagramStep
  <2>2. CASE Receive(h) \/ ServeReturns(h) \/ ServeFails(h) \/ DialFails(h)
    BY <2>2 DEF Receive, ServeReturns, ServeFails, DialFails
  <2>3. CASE Reserve(h) \/ ReserveAdd(h) \/ Unreserve(h) \/ Rollback(h) \/ LoseWait(h) \/ Created(h)
    BY <2>3 DEF Reserve, ReserveAdd, Unreserve, Rollback, LoseWait, Created
  <2> QED BY <2>1, <2>2, <2>3
<1>3. \A s \in Sids : Covered(s)' <=> Covered(s)
  BY <1>1 DEF Covered, LeftOpen, ReaderLive
<1>4. \A i \in Handlers : i = h
  BY DEF SingleHandler
<1> QED BY <1>1, <1>2, <1>3, <1>4 DEF CloseInv

(* Dial takes the one session that need not be taken care of, and until    *)
(* Create returns only that one changes.                                   *)
LEMMA CloseInvSocket ==
    ASSUME SingleHandler, TypeInv, SessionInv, CloseInv, NEW h \in Handlers,
           \/ Dial(h) \/ Refuse(h) \/ NewSession(h) \/ LoadOrStore(h) \/ LoseOnce(h)
           \/ StartReader(h)
    PROVE  CloseInv'
<1> USE TypeInvSplit, HandlerAt DEF RestOK, Goto, Return, sessionVars, closeVars
<1>1. UNCHANGED <<closePc, toVisit, target, listenerOpen>>
  BY DEF Dial, Refuse, NewSession, LoadOrStore, LoseOnce, StartReader
<1>2. PICK n \in Sids :
         /\ \A s \in Sids \ {n} :
               /\ stage'[s] = stage[s] /\ skey'[s] = skey[s] /\ sock'[s] = sock[s]
               /\ reader'[s] = reader[s]
         /\ hpc[h] = "dial" \/ (hpc[h] \in Making /\ loc[h].new = n)
         /\ hpc'[h] \notin BeforeDial
         /\ hpc'[h] \in Making => loc'[h].new = n
  <2>1. CASE Dial(h)
    <3>1. PICK n \in Sids :
             /\ sock' = [sock EXCEPT ![n] = "open"] /\ stage' = [stage EXCEPT ![n] = "dialed"]
             /\ skey' = [skey EXCEPT ![n] = loc[h].dg.peer]
             /\ loc' = [loc EXCEPT ![h].new = n]
      BY <2>1 DEF Dial
    <3>2. hpc[h] = "dial" /\ hpc'[h] = "reserve" /\ UNCHANGED reader
      BY <2>1 DEF Dial
    <3>3. loc'[h].new = n
      BY <3>1 DEF Locals
    <3> QED BY <3>1, <3>2, <3>3 DEF BeforeDial
  <2>2. CASE StartReader(h)
    <3>1. loc[h].new \in Sids
      BY <2>2 DEF StartReader, SessionInv, HandlerInv, UsingPcs
    <3>2. /\ hpc[h] = "startReader" /\ hpc'[h] = "created"
          /\ reader' = [reader EXCEPT ![loc[h].new] = "read"]
          /\ UNCHANGED <<stage, skey, sock, loc>>
      BY <2>2 DEF StartReader
    <3> QED BY <3>1, <3>2 DEF BeforeDial, Making
  <2>3. CASE Refuse(h) \/ NewSession(h) \/ LoseOnce(h)
    <3>1. hpc[h] \in CreatingPcs /\ loc[h].new \in Sids
      BY <2>3, OwnedSession DEF Refuse, NewSession, LoseOnce, CreatingPcs
    <3>2. hpc'[h] \notin BeforeDial /\ (hpc'[h] \in Making => loc'[h].new = loc[h].new)
      BY <2>3 DEF Refuse, NewSession, LoseOnce, BeforeDial, Making, CreatingPcs
    <3>3. UNCHANGED <<skey, reader>>
          /\ \A s \in Sids \ {loc[h].new} : stage'[s] = stage[s] /\ sock'[s] = sock[s]
      BY <2>3 DEF Refuse, NewSession, LoseOnce
    <3> QED BY <3>1, <3>2, <3>3 DEF Making
  <2>4. CASE LoadOrStore(h)
    <3>1. hpc[h] \in CreatingPcs /\ loc[h].new \in Sids
      BY <2>4, OwnedSession DEF LoadOrStore, CreatingPcs
    <3>2. hpc'[h] \in {"startReader", "rollback"}
      BY <2>4 DEF LoadOrStore
    <3>3. loc'[h].new = loc[h].new
      BY <2>4 DEF LoadOrStore, Locals
    <3>4. UNCHANGED <<skey, reader, sock>>
          /\ \A s \in Sids \ {loc[h].new} : stage'[s] = stage[s]
      BY <2>4 DEF LoadOrStore
    <3> QED BY <3>1, <3>2, <3>3, <3>4 DEF BeforeDial, Making
  <2> QED BY <2>1, <2>2, <2>3, <2>4
<1>3. ASSUME NEW s \in Sids, s # n, Covered(s) PROVE Covered(s)'
  BY <1>1, <1>2, <1>3, CoveredKept DEF LeftOpen, ReaderLive
<1>4. ASSUME closePc # "open" PROVE \A s \in Sids : s # n => Covered(s)'
  BY <1>2, <1>3, <1>4 DEF CloseInv, BeforeDial
<1>5. \A i \in Handlers : i = h
  BY DEF SingleHandler
<1> QED BY <1>1, <1>2, <1>4, <1>5 DEF CloseInv

(* Timers, once blocks and readers close sockets and end readers, never    *)
(* the other way round.                                                    *)
LEMMA CloseInvOthers ==
    ASSUME TypeInv, CloseInv,
           \/ \E s \in Sids : TimerFires(s) \/ ExpireStep(s) \/ ReadResponse(s)
                                 \/ ReadError(s) \/ ReaderStep(s)
           \/ UNCHANGED vars
    PROVE  CloseInv'
<1> DEFINE Quiet == /\ UNCHANGED <<hpc, loc, stage, skey, closePc, toVisit, target, listenerOpen>>
                    /\ \A t \in Sids : /\ sock'[t] \in {sock[t], "closed"}
                                       /\ ReaderLive(t)' => ReaderLive(t)
<1>0. /\ sock \in [Sids -> {"none", "open", "closed"}]
      /\ reader \in [Sids -> {"none", "read", "forward", "refresh", "reset",
                              "expire", "expiring", "exited"}]
  BY TypeInvSplit DEF RestOK
<1> USE DEF handlerVars, sessionVars, closeVars, ReaderLive
<1>1. Quiet
  <2>1. ASSUME NEW s \in Sids, TimerFires(s) \/ ExpireStep(s) PROVE Quiet
    BY <1>0, <2>1 DEF TimerFires, ExpireStep, StopTimer, ClearSource, ClearKind, CloseSocket,
                      DeleteKey, Uncount
  <2>2. ASSUME NEW s \in Sids, ReadResponse(s) \/ ReadError(s) \/ ReaderStep(s) PROVE Quiet
    <3>1. UNCHANGED <<hpc, loc, stage, skey, closePc, toVisit, target, listenerOpen, sock>>
      BY <2>2 DEF ReadResponse, ReadError, ReaderStep, ReaderExpires, ReaderExits, Forward,
                  ReaderRefresh, ReaderReset
    <3>2. ReaderLive(s) /\ \A t \in Sids \ {s} : reader'[t] = reader[t]
      BY <1>0, <2>2 DEF ReadResponse, ReadError, ReaderStep, ReaderExpires, ReaderExits, Forward,
                  ReaderRefresh, ReaderReset, ReaderGoto
    <3> QED BY <3>1, <3>2
  <2>3. CASE UNCHANGED vars
    BY <2>3 DEF vars
  <2> QED BY <2>1, <2>2, <2>3
<1>2. ASSUME NEW s \in Sids, Covered(s) PROVE Covered(s)'
  <2>1. LeftOpen(s)' => LeftOpen(s)
    BY <1>1 DEF LeftOpen
  <2> QED BY <1>1, <1>2, <2>1, CoveredKept
<1> QED BY <1>1, <1>2 DEF CloseInv

(* When the listener is closed Range has all keys before it: what is open  *)
(* is stored, or in the hands of the loop.                                 *)
LEMMA CloseInvListener ==
    ASSUME SingleHandler, TypeInv, SessionInv, SocketsInv, CloseListener
    PROVE  CloseInv'
<1>1. /\ closePc' = "range" /\ toVisit' = Clients /\ ~listenerOpen'
      /\ UNCHANGED <<hpc, loc, stage, skey, sock, reader, expPc>>
  BY DEF CloseListener, handlerVars, sessionVars
<1>2. ASSUME NEW s \in Sids PROVE Covered(s)' \/ Owned(s)
  <2>1. CASE stage[s] = "stored"
    <3>1. skey[s] \in Clients
      BY <2>1 DEF SessionInv, StageInv
    <3> QED BY <1>1, <2>1, <3>1 DEF Covered
  <2>2. CASE stage[s] # "stored"
    <3>1. StageInv(s) /\ SocketInv(s)
      BY DEF SessionInv, SocketsInv
    <3>2. /\ stage[s] \in {"unused", "dialed", "new", "stored", "lost", "refused"}
          /\ expPc[s] \in {"idle", "finished"} \cup ExpireSteps \cup LoserSteps
      BY TypeInvSplit DEF RestOK
    <3>3. reader[s] = "none"
      BY <2>2, <3>1 DEF StageInv
    <3>4. sock[s] # "open" \/ Owned(s)
      BY <2>2, <3>1, <3>2 DEF StageInv, SocketInv
    <3> QED BY <1>1, <3>3, <3>4 DEF Covered, LeftOpen, ReaderLive
  <2> QED BY <2>1, <2>2
<1>3. ASSUME NEW h \in Handlers, NEW s \in Sids,
             hpc[h] \in BeforeDial \/ (hpc[h] \in Making /\ loc[h].new # s)
      PROVE  Covered(s)'
  <2>1. ~Owned(s)
    BY <1>3 DEF SingleHandler, Owned, BeforeDial, CreatingPcs
  <2> QED BY <1>2, <2>1
<1>4. ASSUME NEW s \in Sids, NEW t \in Sids, Owned(s), Owned(t) PROVE s = t
  BY <1>4 DEF Owned, SingleHandler
<1> QED BY <1>1, <1>2, <1>3, <1>4 DEF CloseInv

(* Range finds each stored session under its key, waits for its block, and *)
(* wg.Wait for its reader.                                                 *)
LEMMA CloseInvClose ==
    ASSUME TypeInv, SessionInv, SocketsInv, CloseInv, CloseStep
    PROVE  CloseInv'
<1> USE DEF handlerVars, sessionVars, closeVars
<1>1. /\ UNCHANGED <<hpc, loc, stage, skey, sock, reader, listenerOpen>>
      /\ closePc # "open" /\ closePc' # "open"
  BY DEF CloseStep, RangeVisit, CloserExpires, CloserResumes, RangeEnds, WaitGroupDone
<1>2. closePc' \in {"wait", "closed"} => toVisit' = {}
  BY <1>1 DEF CloseInv, CloseStep, RangeVisit, CloserExpires, CloserResumes, RangeEnds,
              WaitGroupDone
<1>3. ASSUME NEW s \in Sids, Covered(s) PROVE Covered(s)'
  <2>1. CASE \E k \in Clients : RangeVisit(k)
    <3>1. PICK k \in Clients :
             /\ closePc = "range" /\ toVisit' = toVisit \ {k} /\ target' = sessions[k]
             /\ closePc' = IF sessions[k] = None THEN "range" ELSE "expire"
      BY <2>1 DEF RangeVisit
    <3>2. CASE stage[s] = "stored" /\ skey[s] = k
      <4>1. CASE InMap(s)
        <5>1. sessions[k] = s /\ s # None
          BY <3>2, <4>1, NoneAssumption DEF SessionInv, MapConsistent
        <5> QED BY <3>1, <5>1 DEF Covered
      <4>2. CASE ~InMap(s)
        <5>1. sock[s] = "closed"
          BY <3>2, <4>2 DEF InMap, SocketsInv, SocketInv
        <5> QED BY <1>1, <3>1, <5>1 DEF Covered
      <4> QED BY <4>1, <4>2
    <3>3. CASE ~(stage[s] = "stored" /\ skey[s] = k)
      BY <1>1, <1>3, <3>1, <3>3 DEF Covered, LeftOpen, ReaderLive
    <3> QED BY <3>2, <3>3
  <2>2. CASE CloserExpires \/ RangeEnds
    BY <1>1, <1>3, <2>2 DEF CloserExpires, RangeEnds, Covered, LeftOpen, ReaderLive
  <2>3. CASE CloserResumes
    <3>1. target = s => sock[s] = "closed"
      BY <2>3 DEF CloserResumes, SocketsInv, SocketInv
    <3> QED BY <1>1, <1>3, <2>3, <3>1 DEF CloserResumes, Covered, LeftOpen, ReaderLive
  <2>4. CASE WaitGroupDone
    <3>1. toVisit = {} /\ closePc = "wait" /\ ~ReaderLive(s)
      BY <2>4 DEF WaitGroupDone, CloseInv
    <3> QED BY <1>1, <1>3, <3>1 DEF Covered, LeftOpen, ReaderLive
  <2> QED BY <2>1, <2>2, <2>3, <2>4 DEF CloseStep
<1> QED BY <1>1, <1>2, <1>3 DEF CloseInv

LEMMA CloseInvStep ==
    ASSUME SingleHandler
    PROVE  TypeInv /\ SessionInv /\ SocketsInv /\ CloseInv /\ [Next]_vars => CloseInv'
<1> SUFFICES ASSUME TypeInv, SessionInv, SocketsInv, CloseInv, [Next]_vars PROVE CloseInv'
  OBVIOUS
<1>1. ASSUME NEW h \in Handlers, CreateStep(h) PROVE CloseInv'
  BY <1>1, CloseInvHandler, CloseInvSocket DEF CreateStep
<1>2. ASSUME NEW h \in Handlers, Receive(h) \/ ServeReturns(h) \/ ServeFails(h) \/ DatagramStep(h)
      PROVE  CloseInv'
  BY <1>2, CloseInvHandler
<1> QED BY <1>1, <1>2, CloseInvOthers, CloseInvListener, CloseInvClose
        DEF Next, HandlerStep, Stopped

(* When Close has returned, of one Serve loop's sessions at most the one   *)
(* of the datagram it met is left: Range found or outlived every other,    *)
(* whoever expired it, and Wait saw its reader go.                         *)
THEOREM CloseLeavesAtMostOne ==
    ASSUME TimerMayBeatStore = FALSE, SingleHandler
    PROVE  Spec => []CloseLeavesOneAtMost
<1>1. Init => CloseInv
  BY DEF Init, CloseInv
<1>2. CloseInv => CloseLeavesOneAtMost
  <2> SUFFICES ASSUME CloseInv, closePc = "closed", NEW s \in Sids, NEW t \in Sids,
                      LeftOpen(s), LeftOpen(t)
               PROVE  s = t
    BY DEF CloseLeavesOneAtMost
  <2>1. ~Covered(s) /\ ~Covered(t)
    BY DEF Covered
  <2> QED BY <2>1 DEF CloseInv
<1>3. Spec => []SocketsInv
  BY SessionInvariant, SocketsInvInit, SocketsInvStep, PTL DEF Spec
<1> QED BY <1>1, <1>2, <1>3, CloseInvStep, SessionInvariant, PTL DEF Spec

=============================================================================
