-------------------------- MODULE UdpGatewayProofs --------------------------
(***************************************************************************)
(* Proofs about UdpGateway for any number of clients, sockets and handlers *)
(* and any cap.  Everything from SessionInv on assumes that the idle timer *)
(* does not fire before Create has stored the session: without it the      *)
(* gateway does not keep its map consistent (run UdpZombie).               *)
(***************************************************************************)
EXTENDS UdpGateway, TLAPS, FiniteSetTheorems

-----------------------------------------------------------------------------
(* Types.  TypeOK needs to know what the locals of a handler hold at the   *)
(* points where they are used.                                             *)

LocalsOK(h) ==
    /\ hpc[h] \notin {"idle", "returned"} => loc[h].dg \in Datagrams
    /\ hpc[h] \in {"checkDone", "recover", "recoverKind"} => loc[h].sess \in Sids
    /\ hpc[h] \in {"storeSource", "storeKind"} => loc[h].src = "v2"

TypeInv == TypeOK /\ \A h \in Handlers : LocalsOK(h)

(* Assigning a local of the right type gives locals of the right type.     *)
LEMMA LocalsAssign ==
    ASSUME NEW l \in Locals
    PROVE  /\ \A x \in Sids \cup {None} : [l EXCEPT !.sess = x] \in Locals
           /\ \A x \in Sids \cup {None} : [l EXCEPT !.new = x] \in Locals
           /\ \A x \in Headers \cup {None} :
                 [l EXCEPT !.stored = x] \in Locals /\ [l EXCEPT !.enc = x] \in Locals
           /\ \A x \in Headers \cup {None}, k \in {"direct", "v2"} :
                 [l EXCEPT !.hdr = x, !.src = k] \in Locals
BY DEF Locals

LEMMA NoLocalsOK ==
    /\ NoLocals \in Locals
    /\ \A d \in Datagrams :
          [NoLocals EXCEPT !.dg = d, !.hdr = d.hdr, !.src = d.kind] \in Locals
<1>1. \A d \in Datagrams : d.hdr \in Headers \cup {None} /\ d.kind \in {"direct", "v2"}
  BY DEF Datagrams, Headers
<1> QED BY <1>1 DEF NoLocals, Locals

(* The verdict on a datagram is one about its own or its peer's header.    *)
LEMMA VerdictOK ==
    ASSUME NEW h \in Handlers, loc[h] \in Locals, loc[h].dg \in Datagrams
    PROVE  Verdict(h).src \in {"direct", "v2"} /\ Verdict(h).hdr \in Headers \cup {None}
<1>1. loc[h].dg.peer \in Headers
  BY DEF Datagrams, Headers
<1>2. loc[h].src \in {"direct", "v2"} /\ loc[h].hdr \in Headers \cup {None}
  BY DEF Locals
<1> QED BY <1>1, <1>2, ModeAssumption
        DEF Verdict, Decide, ApplyPolicy, Allowed, Denied, Policies

LEMMA TypeInvInit == Init => TypeInv
<1> SUFFICES ASSUME Init PROVE TypeInv
  OBVIOUS
<1>1. TypeOK
  <2>1. /\ hpc \in [Handlers -> HandlerPcs] /\ loc \in [Handlers -> Locals]
        /\ expPc \in [Sids -> {"idle", "finished"} \cup ExpireSteps \cup LoserSteps]
    BY NoLocalsOK DEF Init, HandlerPcs
  <2> QED BY <2>1 DEF Init, TypeOK
<1>2. ASSUME NEW h \in Handlers PROVE LocalsOK(h)
  BY <1>2 DEF Init, LocalsOK
<1> QED BY <1>1, <1>2 DEF TypeInv

(* A handler that goes to pc with locals l that fit it, and nobody else's. *)
Fits(pc, l) ==
    /\ pc \in HandlerPcs /\ l \in Locals
    /\ pc \notin {"idle", "returned"} => l.dg \in Datagrams
    /\ pc \in {"checkDone", "recover", "recoverKind"} => l.sess \in Sids
    /\ pc \in {"storeSource", "storeKind"} => l.src = "v2"
Moves(h, pc, l) ==
    Fits(pc, l) /\ hpc' = [hpc EXCEPT ![h] = pc] /\ loc' = [loc EXCEPT ![h] = l]

(* What the other variables have to keep.                                  *)
RestOK ==
    /\ skey \in [Sids -> Clients \cup {None}]
    /\ stage \in [Sids -> {"unused", "dialed", "new", "stored", "lost", "refused"}]
    /\ sock \in [Sids -> {"none", "open", "closed"}]
    /\ timer \in [Sids -> {"none", "armed", "off"}]
    /\ expPc \in [Sids -> {"idle", "finished"} \cup ExpireSteps \cup LoserSteps]
    /\ reader \in [Sids -> {"none", "read", "forward", "refresh", "reset",
                            "expire", "expiring", "exited"}]
    /\ inputSource \in [Sids -> Headers \cup {None}]
    /\ inputSrcKind \in [Sids -> {"v2", None}]
    /\ headerSent \in [Sids -> BOOLEAN]
    /\ sessions \in [Clients -> Sids \cup {None}]
    /\ count \in Int
    /\ listenerOpen \in BOOLEAN
    /\ closePc \in {"open", "range", "expire", "await", "wait", "closed"}
    /\ toVisit \subseteq Clients
    /\ target \in Sids \cup {None}
    /\ wire \in [Sids -> BOOLEAN]

LEMMA TypeInvSplit ==
    TypeInv <=> /\ hpc \in [Handlers -> HandlerPcs] /\ loc \in [Handlers -> Locals]
                /\ RestOK /\ \A h \in Handlers : LocalsOK(h)
BY DEF TypeInv, TypeOK, RestOK

LEMMA MovesOK ==
    ASSUME TypeInv, NEW h \in Handlers, NEW pc, NEW l, Moves(h, pc, l), RestOK'
    PROVE  TypeInv'
<1>1. hpc' \in [Handlers -> HandlerPcs] /\ loc' \in [Handlers -> Locals]
  BY TypeInvSplit DEF Moves, Fits
<1>2. ASSUME NEW i \in Handlers PROVE LocalsOK(i)'
  BY <1>2, TypeInvSplit DEF LocalsOK, Moves, Fits
<1>3. RestOK' /\ (\A i \in Handlers : LocalsOK(i)') => TypeInv'
  BY <1>1 DEF TypeInv, TypeOK, RestOK
<1> QED BY <1>2, <1>3

(* What a handler finds when it starts a step.                             *)
LEMMA HandlerAt ==
    ASSUME TypeInv, NEW h \in Handlers
    PROVE  /\ hpc[h] \in HandlerPcs /\ loc[h] \in Locals /\ RestOK
           /\ hpc[h] \notin {"idle", "returned"} =>
                 loc[h].dg \in Datagrams /\ loc[h].dg.peer \in Clients
           /\ hpc[h] \in {"checkDone", "recover", "recoverKind"} => loc[h].sess \in Sids
           /\ hpc[h] \in {"storeSource", "storeKind"} => loc[h].src = "v2"
BY TypeInvSplit DEF LocalsOK, Datagrams

LEMMA TypeInvReceive ==
    ASSUME TypeInv, NEW h \in Handlers, Receive(h) \/ ServeReturns(h) \/ ServeFails(h)
    PROVE  TypeInv'
<1> USE HandlerAt DEF Goto, HandlerPcs, sessionVars, flowVars, closeVars
<1>0. RestOK'
  BY DEF Receive, ServeReturns, ServeFails, RestOK
<1>1. CASE Receive(h)
  <2>1. PICK d \in Datagrams :
           /\ hpc' = [hpc EXCEPT ![h] = "lookup"]
           /\ loc' = [loc EXCEPT ![h] = [NoLocals EXCEPT !.dg = d, !.hdr = d.hdr, !.src = d.kind]]
    BY <1>1 DEF Receive
  <2> DEFINE l == [NoLocals EXCEPT !.dg = d, !.hdr = d.hdr, !.src = d.kind]
  <2>2. l.dg = d /\ l \in Locals
    BY NoLocalsOK DEF NoLocals
  <2>3. Moves(h, "lookup", l)
    BY <2>1, <2>2 DEF Moves, Fits
  <2> QED BY <1>0, <2>3, MovesOK
<1>2. CASE ServeReturns(h) \/ ServeFails(h)
  <2>1. Moves(h, "returned", loc[h])
    BY <1>2, TypeInvSplit DEF ServeReturns, ServeFails, Moves, Fits
  <2> QED BY <1>0, <2>1, MovesOK
<1> QED BY <1>1, <1>2

LEMMA TypeInvDatagram ==
    ASSUME TypeInv, NEW h \in Handlers, DatagramStep(h)
    PROVE  TypeInv'
<1> USE HandlerAt DEF Goto, Return, HandlerPcs, sessionVars, flowVars, closeVars
<1> DEFINE l == loc[h]
           To(pc) == hpc' = [hpc EXCEPT ![h] = pc]
           Sets(m) == loc' = [loc EXCEPT ![h] = m]
<1>a. l \in Locals /\ (hpc[h] \notin {"idle", "returned"} => l.dg \in Datagrams)
  OBVIOUS
<1>b. ASSUME NEW pc \in HandlerPcs \ {"checkDone", "recover", "recoverKind", "storeSource", "storeKind"},
             hpc[h] \notin {"idle", "returned"}, To(pc), loc' = loc, RestOK'
      PROVE  TypeInv'
  <2>1. Moves(h, pc, l)
    BY <1>a, <1>b, TypeInvSplit DEF Moves, Fits
  <2> QED BY <1>b, <2>1, MovesOK
<1>c. ASSUME To("idle"), Sets(NoLocals), RestOK' PROVE TypeInv'
  <2>1. Moves(h, "idle", NoLocals)
    BY <1>c, NoLocalsOK DEF Moves, Fits
  <2> QED BY <1>c, <2>1, MovesOK
<1>1. CASE Lookup(h)
  <2> DEFINE s == sessions[l.dg.peer]
  <2>1. s \in Sids \cup {None}
    BY <1>1 DEF Lookup, RestOK
  <2>2. [l EXCEPT !.sess = s] \in Locals /\ [l EXCEPT !.sess = s].dg = l.dg
        /\ [l EXCEPT !.sess = s].sess = s
    BY <2>1 DEF Locals
  <2>3. Sets([l EXCEPT !.sess = s])
    BY <1>1 DEF Lookup
  <2>4. Moves(h, IF s = None THEN "decide" ELSE "checkDone", [l EXCEPT !.sess = s])
    BY <1>1, <2>1, <2>2, <2>3 DEF Lookup, Moves, Fits
  <2>5. RestOK'
    BY <1>1 DEF Lookup, RestOK
  <2> QED BY <2>4, <2>5, MovesOK
<1>2. CASE CheckDone(h)
  <2>0. RestOK'
    BY <1>2 DEF CheckDone, RestOK
  <2>1. CASE Done(l.sess)
    <3>1. [l EXCEPT !.sess = None] \in Locals /\ [l EXCEPT !.sess = None].dg = l.dg
      BY DEF Locals
    <3>2. Moves(h, "decide", [l EXCEPT !.sess = None])
      BY <1>2, <2>1, <3>1 DEF CheckDone, Moves, Fits
    <3> QED BY <2>0, <3>2, MovesOK
  <2>2. CASE ~Done(l.sess)
    <3>1. Moves(h, IF l.src = "direct" THEN "recover" ELSE "decide", l)
      BY <1>2, <2>2, TypeInvSplit DEF CheckDone, Moves, Fits
    <3> QED BY <2>0, <3>1, MovesOK
  <2> QED BY <2>1, <2>2
<1>3. CASE Recover(h)
  <2> DEFINE r == inputSource[l.sess]
             m == [l EXCEPT !.stored = r]
  <2>1. r \in Headers \cup {None}
    BY <1>3 DEF Recover, RestOK
  <2>2. m \in Locals /\ m.dg = l.dg /\ m.sess = l.sess
    BY <2>1 DEF Locals
  <2>3. Moves(h, IF r = None THEN "decide" ELSE "recoverKind", m)
    BY <1>3, <2>2 DEF Recover, Moves, Fits
  <2>4. RestOK'
    BY <1>3 DEF Recover, RestOK
  <2> QED BY <2>3, <2>4, MovesOK
<1>4. CASE RecoverKind(h)
  <2>0. RestOK'
    BY <1>4 DEF RecoverKind, RestOK
  <2>1. CASE inputSrcKind[l.sess] = None
    BY <1>4, <1>b, <2>0, <2>1 DEF RecoverKind
  <2>2. CASE inputSrcKind[l.sess] # None
    <3> DEFINE m == [l EXCEPT !.hdr = l.stored, !.src = inputSrcKind[l.sess]]
    <3>1. inputSrcKind[l.sess] = "v2"
      BY <1>4, <2>2 DEF RecoverKind, RestOK
    <3> DEFINE v == [l EXCEPT !.hdr = l.stored, !.src = "v2"]
    <3>2. m \in Locals /\ m.dg = l.dg
      <4>1. v \in Locals /\ v.dg = l.dg
        BY DEF Locals
      <4>2. m = v
        BY <3>1
      <4> QED BY <4>1, <4>2
    <3>3. Moves(h, "decide", m)
      BY <1>4, <2>2, <3>2 DEF RecoverKind, Moves, Fits
    <3> QED BY <2>0, <3>3, MovesOK
  <2> QED BY <2>1, <2>2
<1>5. CASE DecideDatagram(h)
  <2>0. RestOK'
    BY <1>5 DEF DecideDatagram, RestOK
  <2>1. CASE ~Verdict(h).allow
    BY <1>5, <1>c, <2>0, <2>1 DEF DecideDatagram
  <2>2. CASE Verdict(h).allow
    <3> DEFINE m == [l EXCEPT !.hdr = Verdict(h).hdr, !.src = Verdict(h).src]
    <3>1. Verdict(h).src \in {"direct", "v2"} /\ Verdict(h).hdr \in Headers \cup {None}
      BY <1>5, VerdictOK DEF DecideDatagram
    <3>2. m \in Locals /\ m.dg = l.dg
      BY <3>1 DEF Locals
    <3>3. Moves(h, IF l.sess = None THEN "dial" ELSE "persist", m)
      BY <1>5, <2>2, <3>2 DEF DecideDatagram, Moves, Fits
    <3> QED BY <2>0, <3>3, MovesOK
  <2> QED BY <2>1, <2>2
<1>6. CASE Persist(h)
  <2>1. l.src \in {"direct", "v2"}
    BY DEF Locals
  <2>2. Moves(h, IF l.src # "direct" /\ inputSource[l.sess] = None THEN "storeSource" ELSE "encode", l)
    BY <1>6, <2>1, TypeInvSplit DEF Persist, Moves, Fits
  <2>3. RestOK'
    BY <1>6 DEF Persist, RestOK
  <2> QED BY <2>2, <2>3, MovesOK
<1>7. CASE StoreSource(h)
  <2>1. l.hdr \in Headers \cup {None}
    BY DEF Locals
  <2>2. Moves(h, "storeKind", l)
    BY <1>7, TypeInvSplit DEF StoreSource, Moves, Fits
  <2>3. RestOK'
    BY <1>7, <2>1 DEF StoreSource, RestOK
  <2> QED BY <2>2, <2>3, MovesOK
<1>8. CASE StoreKind(h)
  <2>1. RestOK'
    BY <1>8 DEF StoreKind, RestOK
  <2> QED BY <1>8, <1>b, <2>1 DEF StoreKind
<1>9. CASE Encode(h)
  <2>0. RestOK'
    BY <1>9 DEF Encode, RestOK
  <2>1. CASE loc' = loc /\ To("write")
    BY <1>9, <1>b, <2>0, <2>1 DEF Encode
  <2>2. CASE To("idle") /\ Sets(NoLocals)
    BY <1>c, <2>0, <2>2
  <2>3. CASE To("write") /\ loc' = [loc EXCEPT ![h].enc = l.hdr]
    <3>1. [l EXCEPT !.enc = l.hdr] \in Locals /\ [l EXCEPT !.enc = l.hdr].dg = l.dg
      BY DEF Locals
    <3>2. Moves(h, "write", [l EXCEPT !.enc = l.hdr])
      BY <1>9, <2>3, <3>1 DEF Encode, Moves, Fits
    <3> QED BY <2>0, <3>2, MovesOK
  <2> QED BY <1>9, <2>1, <2>2, <2>3 DEF Encode
<1>10. CASE Write(h) \/ WriteFails(h)
  <2>1. RestOK'
    BY <1>10 DEF Write, WriteFails, RestOK
  <2> QED BY <1>10, <1>b, <2>1 DEF Write, WriteFails
<1>11. CASE Refresh(h)
  <2>1. RestOK'
    BY <1>11 DEF Refresh, RestOK
  <2> QED BY <1>11, <1>b, <1>c, <2>1 DEF Refresh
<1>12. CASE ResetTimer(h)
  <2>1. RestOK'
    BY <1>12 DEF ResetTimer, RestOK
  <2> QED BY <1>12, <1>c, <2>1 DEF ResetTimer
<1> QED BY <1>1, <1>2, <1>3, <1>4, <1>5, <1>6, <1>7, <1>8, <1>9, <1>10, <1>11, <1>12
        DEF DatagramStep

LEMMA TypeInvCreate ==
    ASSUME TypeInv, NEW h \in Handlers, CreateStep(h)
    PROVE  TypeInv'
<1> USE HandlerAt DEF Goto, Return, HandlerPcs, sessionVars, flowVars, closeVars
<1> DEFINE l == loc[h]
           To(pc) == hpc' = [hpc EXCEPT ![h] = pc]
<1>a. l \in Locals /\ (hpc[h] \notin {"idle", "returned"} => l.dg \in Datagrams)
  OBVIOUS
<1>b. ASSUME NEW pc \in HandlerPcs \ {"checkDone", "recover", "recoverKind", "storeSource", "storeKind"},
             hpc[h] \notin {"idle", "returned"}, To(pc), loc' = loc, RestOK'
      PROVE  TypeInv'
  <2>1. Moves(h, pc, l)
    BY <1>a, <1>b, TypeInvSplit DEF Moves, Fits
  <2> QED BY <1>b, <2>1, MovesOK
<1>c. ASSUME To("idle"), loc' = [loc EXCEPT ![h] = NoLocals], RestOK' PROVE TypeInv'
  <2>1. Moves(h, "idle", NoLocals)
    BY <1>c, NoLocalsOK DEF Moves, Fits
  <2> QED BY <1>c, <2>1, MovesOK
<1>1. CASE Dial(h)
  <2>1. PICK s \in Sids :
           /\ sock' = [sock EXCEPT ![s] = "open"]
           /\ stage' = [stage EXCEPT ![s] = "dialed"]
           /\ skey' = [skey EXCEPT ![s] = l.dg.peer]
           /\ loc' = [loc EXCEPT ![h].new = s]
    BY <1>1 DEF Dial
  <2>2. [l EXCEPT !.new = s] \in Locals /\ [l EXCEPT !.new = s].dg = l.dg
    BY DEF Locals
  <2>3. Moves(h, "reserve", [l EXCEPT !.new = s])
    BY <1>1, <2>1, <2>2 DEF Dial, Moves, Fits
  <2>4. RestOK'
    BY <1>1, <2>1 DEF Dial, RestOK
  <2> QED BY <2>3, <2>4, MovesOK
<1>2. CASE DialFails(h)
  BY <1>2, <1>c DEF DialFails, RestOK
<1>3. CASE Reserve(h) \/ ReserveAdd(h) \/ Unreserve(h)
  <2>1. RestOK'
    BY <1>3 DEF Reserve, ReserveAdd, Unreserve, RestOK
  <2> QED BY <1>3, <1>b, <2>1 DEF Reserve, ReserveAdd, Unreserve
<1>4. CASE Refuse(h)
  <2>1. RestOK'
    BY <1>4 DEF Refuse, RestOK
  <2> QED BY <1>4, <1>c, <2>1 DEF Refuse
<1>5. CASE NewSession(h)
  <2>1. RestOK'
    BY <1>5 DEF NewSession, RestOK
  <2> QED BY <1>5, <1>b, <2>1 DEF NewSession
<1>6. CASE LoadOrStore(h)
  <2>1. l.new \in Sids \cup {None}
    BY DEF Locals
  <2>2. RestOK'
    BY <1>6, <2>1 DEF LoadOrStore, RestOK
  <2>3. PICK s \in Sids \cup {None}, pc \in {"startReader", "rollback"} :
           To(pc) /\ loc' = [loc EXCEPT ![h].sess = s]
    BY <1>6, <2>1 DEF LoadOrStore, RestOK
  <2>4. [l EXCEPT !.sess = s] \in Locals /\ [l EXCEPT !.sess = s].dg = l.dg
    BY DEF Locals
  <2>5. Moves(h, pc, [l EXCEPT !.sess = s])
    BY <1>6, <2>3, <2>4 DEF LoadOrStore, Moves, Fits
  <2> QED BY <2>2, <2>5, MovesOK
<1>7. CASE StartReader(h) \/ Rollback(h) \/ LoseWait(h)
  <2>1. RestOK'
    BY <1>7 DEF StartReader, Rollback, LoseWait, RestOK
  <2> QED BY <1>7, <1>b, <2>1 DEF StartReader, Rollback, LoseWait
<1>8. CASE LoseOnce(h)
  <2>1. RestOK'
    BY <1>8 DEF LoseOnce, RestOK, LoserSteps
  <2> QED BY <1>8, <1>b, <2>1 DEF LoseOnce
<1>9. CASE Created(h)
  <2>1. RestOK'
    BY <1>9 DEF Created, RestOK
  <2> QED BY <1>9, <1>b, <1>c, <2>1 DEF Created
<1> QED BY <1>1, <1>2, <1>3, <1>4, <1>5, <1>6, <1>7, <1>8, <1>9 DEF CreateStep

(* The steps that move no handler: timers, once blocks, readers and Close. *)
LEMMA TypeInvOthers ==
    ASSUME TypeInv,
           \/ \E s \in Sids : TimerFires(s) \/ ExpireStep(s) \/ ReadResponse(s)
                                 \/ ReadError(s) \/ ReaderStep(s)
           \/ CloseListener \/ CloseStep \/ UNCHANGED vars
    PROVE  TypeInv'
<1>1. RestOK /\ UNCHANGED handlerVars => (RestOK' => TypeInv')
  BY TypeInvSplit DEF handlerVars, TypeInv, TypeOK, RestOK, LocalsOK
<1> USE TypeInvSplit DEF handlerVars, sessionVars, flowVars, closeVars, RestOK
<1>2. ASSUME NEW s \in Sids, TimerFires(s) PROVE RestOK' /\ UNCHANGED handlerVars
  BY <1>2 DEF TimerFires, Claim, ExpireSteps
<1>3. ASSUME NEW s \in Sids, ExpireStep(s) PROVE RestOK' /\ UNCHANGED handlerVars
  BY <1>3 DEF ExpireStep, StopTimer, ClearSource, ClearKind, CloseSocket, DeleteKey,
              Uncount, ExpireGoto, ExpireSteps, LoserSteps
<1>4. ASSUME NEW s \in Sids, ReadResponse(s) \/ ReadError(s) \/ ReaderStep(s)
      PROVE  RestOK' /\ UNCHANGED handlerVars
  BY <1>4 DEF ReadResponse, ReadError, ReaderStep, ReaderExpires, ReaderExits, Forward,
              ReaderRefresh, ReaderReset, ReaderGoto, Claim, ExpireSteps
<1>5. ASSUME CloseListener \/ CloseStep PROVE RestOK' /\ UNCHANGED handlerVars
  BY <1>5 DEF CloseListener, CloseStep, RangeVisit, CloserExpires, CloserResumes,
              RangeEnds, WaitGroupDone, Claim, ExpireSteps
<1>6. ASSUME UNCHANGED vars PROVE RestOK' /\ UNCHANGED handlerVars
  BY <1>6 DEF vars
<1> QED BY <1>1, <1>2, <1>3, <1>4, <1>5, <1>6

LEMMA TypeInvStep == TypeInv /\ [Next]_vars => TypeInv'
BY TypeInvReceive, TypeInvDatagram, TypeInvCreate, TypeInvOthers
DEF Next, HandlerStep, Stopped

LEMMA TypeInvariant == Spec => []TypeInv
BY TypeInvInit, TypeInvStep, PTL DEF Spec

(* Every variable stays in its type: the second of the two atomic loads of *)
(* the remembered source, whose nil is checked, included.                  *)
THEOREM TypeCorrect == Spec => []TypeOK
BY TypeInvariant, PTL DEF TypeInv

-----------------------------------------------------------------------------
(* Sessions, their owners and the map.                                     *)

(* How far the session of a creating handler is.                           *)
CreatingAt(pc) ==
    CASE pc \in {"reserve", "reserveAdd", "unreserve", "refuse", "newSession"} -> "dialed"
      [] pc \in {"store", "rollback", "loseOnce"} -> "new"
      [] pc = "loseWait" -> "lost"

UsingPcs == {"checkDone", "recover", "recoverKind", "startReader", "rollback",
             "loseOnce", "loseWait", "created", "persist", "storeSource",
             "storeKind", "encode", "write", "refresh", "reset"}

(* A handler inside Create owns a socket that is as far as the handler is; *)
(* one that uses a session uses a stored one.                              *)
HandlerInv(h) ==
    /\ hpc[h] \in CreatingPcs =>
          /\ loc[h].new \in Sids
          /\ skey[loc[h].new] = loc[h].dg.peer
          /\ stage[loc[h].new] = CreatingAt(hpc[h])
    /\ hpc[h] = "startReader" => loc[h].new = loc[h].sess
    /\ hpc[h] \in UsingPcs => loc[h].sess \in Sids /\ stage[loc[h].sess] = "stored"
    /\ hpc[h] = "decide" /\ loc[h].sess # None => stage[loc[h].sess] = "stored"

(* No two handlers own one socket.                                         *)
OwnersDistinct ==
    \A h, i \in Handlers :
        hpc[h] \in CreatingPcs /\ hpc[i] \in CreatingPcs /\ loc[h].new = loc[i].new => h = i

(* Nothing expires before it is stored: neither timer nor reader nor Close *)
(* knows the session.  After that its once block is that of expire, or of  *)
(* the lost race.                                                          *)
StageInv(s) ==
    /\ stage[s] \in {"unused", "dialed", "new", "refused"} => expPc[s] = "idle"
    /\ stage[s] \in {"unused", "dialed", "refused"} => timer[s] = "none"
    /\ reader[s] # "none" => stage[s] = "stored"
    /\ expPc[s] \in ExpireSteps => stage[s] = "stored"
    /\ expPc[s] \in LoserSteps => stage[s] = "lost"
    /\ stage[s] = "lost" => expPc[s] # "idle"
    /\ stage[s] # "unused" => skey[s] \in Clients

CloserInv == closePc \in {"expire", "await"} => target \in Sids /\ stage[target] = "stored"

SessionInv ==
    /\ \A h \in Handlers : HandlerInv(h)
    /\ OwnersDistinct
    /\ \A s \in Sids : StageInv(s)
    /\ CloserInv
    /\ MapConsistent

LEMMA SessionInvInit == Init => SessionInv
<1> SUFFICES ASSUME Init PROVE SessionInv
  OBVIOUS
<1>1. \A h \in Handlers : HandlerInv(h)
  BY DEF Init, HandlerInv, CreatingPcs, UsingPcs
<1>2. OwnersDistinct
  BY DEF Init, OwnersDistinct, CreatingPcs
<1>3. \A s \in Sids : StageInv(s)
  BY DEF Init, StageInv, ExpireSteps, LoserSteps
<1>4. CloserInv
  BY DEF Init, CloserInv
<1>5. MapConsistent
  BY DEF Init, MapConsistent, InMap
<1> QED BY <1>1, <1>2, <1>3, <1>4, <1>5 DEF SessionInv

(* A step of one handler that leaves all sessions alone and takes no new   *)
(* socket in hand.                                                         *)
LEMMA HandlerAlone ==
    ASSUME SessionInv, NEW h \in Handlers,
           UNCHANGED <<skey, stage, expPc, timer, reader, sessions, closePc, target>>,
           \A i \in Handlers \ {h} : hpc'[i] = hpc[i] /\ loc'[i] = loc[i],
           hpc'[h] \in CreatingPcs => hpc[h] \in CreatingPcs /\ loc'[h].new = loc[h].new,
           HandlerInv(h)'
    PROVE  SessionInv'
<1>1. \A i \in Handlers : HandlerInv(i)'
  BY DEF SessionInv, HandlerInv
<1>2. OwnersDistinct'
  BY DEF SessionInv, OwnersDistinct
<1>3. (\A s \in Sids : StageInv(s))' /\ CloserInv' /\ MapConsistent'
  BY DEF SessionInv, StageInv, CloserInv, MapConsistent, InMap
<1> QED BY <1>1, <1>2, <1>3 DEF SessionInv

(* What the map finds is stored.                                           *)
LEMMA FoundIsStored ==
    ASSUME SessionInv, NEW k \in Clients, sessions[k] # None
    PROVE  stage[sessions[k]] = "stored" /\ skey[sessions[k]] = k
BY DEF SessionInv, MapConsistent, InMap

LEMMA SessionInvReceive ==
    ASSUME TypeInv, SessionInv, NEW h \in Handlers,
           Receive(h) \/ ServeReturns(h) \/ ServeFails(h)
    PROVE  SessionInv'
<1>1. /\ UNCHANGED <<skey, stage, expPc, timer, reader, sessions, closePc, target>>
      /\ \A i \in Handlers \ {h} : hpc'[i] = hpc[i] /\ loc'[i] = loc[i]
      /\ hpc'[h] \in {"lookup", "returned"}
  BY TypeInvSplit DEF Receive, ServeReturns, ServeFails, Goto, sessionVars, closeVars
<1> QED BY <1>1, HandlerAlone DEF HandlerInv, CreatingPcs, UsingPcs

LEMMA SessionInvDatagram ==
    ASSUME TypeInv, SessionInv, NEW h \in Handlers, DatagramStep(h), ~ResetTimer(h)
    PROVE  SessionInv'
<1> USE TypeInvSplit, HandlerAt DEF Goto, Return, sessionVars, flowVars, closeVars
<1>0. HandlerInv(h)
  BY DEF SessionInv
<1>1. /\ UNCHANGED <<skey, stage, expPc, timer, reader, sessions, closePc, target>>
      /\ \A i \in Handlers \ {h} : hpc'[i] = hpc[i] /\ loc'[i] = loc[i]
  BY DEF DatagramStep, Lookup, CheckDone, Recover, RecoverKind, DecideDatagram, Persist,
         StoreSource, StoreKind, Encode, Write, WriteFails, Refresh
<1>2. hpc'[h] \notin CreatingPcs /\ hpc'[h] # "startReader"
  BY DEF DatagramStep, Lookup, CheckDone, Recover, RecoverKind, DecideDatagram, Persist,
         StoreSource, StoreKind, Encode, Write, WriteFails, Refresh, CreatingPcs
<1>3. SUFFICES /\ hpc'[h] \in UsingPcs => loc'[h].sess \in Sids /\ stage[loc'[h].sess] = "stored"
               /\ hpc'[h] = "decide" /\ loc'[h].sess # None => stage[loc'[h].sess] = "stored"
  BY <1>1, <1>2, HandlerAlone DEF HandlerInv
<1>4. CASE Lookup(h)
  <2>1. loc'[h].sess = sessions[loc[h].dg.peer]
    BY <1>4 DEF Lookup, Locals
  <2>2. sessions[loc[h].dg.peer] \in Sids \cup {None}
    BY <1>4 DEF Lookup, RestOK
  <2> QED BY <1>4, <2>1, <2>2, FoundIsStored DEF Lookup, UsingPcs
<1>5. CASE CheckDone(h)
  BY <1>0, <1>5 DEF CheckDone, HandlerInv, UsingPcs, Locals
<1>6. CASE Recover(h) \/ RecoverKind(h)
  <2>1. loc'[h].sess = loc[h].sess
    BY <1>6 DEF Recover, RecoverKind, Locals
  <2> QED BY <1>0, <1>6, <2>1 DEF Recover, RecoverKind, HandlerInv, UsingPcs
<1>7. CASE DecideDatagram(h)
  <2>1. loc[h].sess \in Sids \cup {None}
    BY DEF Locals
  <2>2. hpc'[h] # "idle" => loc'[h].sess = loc[h].sess
    BY <1>7 DEF DecideDatagram, Locals
  <2> QED BY <1>0, <1>7, <2>1, <2>2 DEF DecideDatagram, HandlerInv, UsingPcs
<1>8. CASE Persist(h) \/ StoreSource(h) \/ StoreKind(h) \/ Write(h) \/ WriteFails(h) \/ Refresh(h)
  BY <1>0, <1>8 DEF Persist, StoreSource, StoreKind, Write, WriteFails, Refresh, HandlerInv, UsingPcs
<1>9. CASE Encode(h)
  <2>1. hpc'[h] # "idle" => loc'[h].sess = loc[h].sess
    BY <1>9 DEF Encode, Locals
  <2> QED BY <1>0, <1>9, <2>1 DEF Encode, HandlerInv, UsingPcs
<1> QED BY <1>4, <1>5, <1>6, <1>7, <1>8, <1>9 DEF DatagramStep

(* The steps of Create that leave the session itself alone.                *)
LEMMA SessionInvCounting ==
    ASSUME TypeInv, SessionInv, NEW h \in Handlers,
           \/ DialFails(h) \/ Reserve(h) \/ ReserveAdd(h) \/ Unreserve(h)
           \/ Rollback(h) \/ LoseWait(h) \/ Created(h)
    PROVE  SessionInv'
<1> USE TypeInvSplit, HandlerAt DEF Goto, Return, sessionVars, flowVars, closeVars
<1>0. HandlerInv(h)
  BY DEF SessionInv
<1>1. /\ UNCHANGED <<skey, stage, expPc, timer, reader, sessions, closePc, target>>
      /\ \A i \in Handlers \ {h} : hpc'[i] = hpc[i] /\ loc'[i] = loc[i]
  BY DEF DialFails, Reserve, ReserveAdd, Unreserve, Rollback, LoseWait, Created
<1>2. \/ hpc'[h] = "idle"
      \/ /\ loc'[h] = loc[h]
         /\ \/ hpc[h] = "reserve" /\ hpc'[h] \in {"refuse", "reserveAdd"}
            \/ hpc[h] = "reserveAdd" /\ hpc'[h] \in {"unreserve", "newSession"}
            \/ hpc[h] = "unreserve" /\ hpc'[h] = "refuse"
            \/ hpc[h] = "rollback" /\ hpc'[h] = "loseOnce"
            \/ hpc[h] = "loseWait" /\ hpc'[h] = "created"
            \/ hpc[h] = "created" /\ hpc'[h] = "persist"
  BY DEF DialFails, Reserve, ReserveAdd, Unreserve, Rollback, LoseWait, Created
<1>3. HandlerInv(h)'
  BY <1>0, <1>1, <1>2 DEF HandlerInv, CreatingPcs, UsingPcs, CreatingAt
<1>4. hpc'[h] \in CreatingPcs => hpc[h] \in CreatingPcs /\ loc'[h].new = loc[h].new
  BY <1>2 DEF CreatingPcs
<1> QED BY <1>1, <1>3, <1>4, HandlerAlone

LEMMA SessionInvDial ==
    ASSUME TypeInv, SessionInv, NEW h \in Handlers, Dial(h)
    PROVE  SessionInv'
<1> USE TypeInvSplit DEF RestOK
<1>0. hpc[h] = "dial" /\ loc[h].dg.peer \in Clients /\ loc[h] \in Locals
  BY HandlerAt DEF Dial
<1>1. PICK s \in Sids :
         /\ stage[s] = "unused"
         /\ stage' = [stage EXCEPT ![s] = "dialed"]
         /\ skey' = [skey EXCEPT ![s] = loc[h].dg.peer]
         /\ loc' = [loc EXCEPT ![h].new = s]
  BY DEF Dial
<1>2. hpc' = [hpc EXCEPT ![h] = "reserve"]
  BY DEF Dial, Goto
<1>3. UNCHANGED <<timer, expPc, reader, sessions, closePc, target>>
  BY DEF Dial, closeVars
<1>4. loc'[h].new = s /\ loc'[h].dg = loc[h].dg
  BY <1>0, <1>1 DEF Locals
<1>5. ASSUME NEW i \in Handlers PROVE HandlerInv(i)'
  <2>1. CASE i = h
    BY <1>1, <1>2, <1>4, <2>1, <1>0 DEF HandlerInv, CreatingPcs, UsingPcs, CreatingAt
  <2>2. CASE i # h
    <3>1. HandlerInv(i) /\ loc'[i] = loc[i] /\ hpc'[i] = hpc[i]
      BY <1>1, <1>2, <2>2 DEF SessionInv
    <3> QED BY <3>1, <1>1 DEF HandlerInv, CreatingPcs, CreatingAt, UsingPcs
  <2> QED BY <2>1, <2>2
<1>6. OwnersDistinct'
  <2>1. \A i \in Handlers \ {h} : hpc[i] \in CreatingPcs => loc[i].new # s
    BY <1>1 DEF SessionInv, HandlerInv, CreatingPcs, CreatingAt
  <2> QED BY <1>1, <1>2, <1>4, <2>1 DEF SessionInv, OwnersDistinct
<1>7. ASSUME NEW t \in Sids PROVE StageInv(t)'
  BY <1>0, <1>1, <1>3 DEF SessionInv, StageInv, ExpireSteps, LoserSteps
<1>8. CloserInv' /\ MapConsistent'
  BY <1>1, <1>3 DEF SessionInv, CloserInv, MapConsistent, InMap
<1> QED BY <1>5, <1>6, <1>7, <1>8 DEF SessionInv

(* A step of a creating handler on the session it owns: nobody else holds  *)
(* that session, and no key finds it.                                      *)
LEMMA OwnedSession ==
    ASSUME TypeInv, SessionInv, NEW h \in Handlers, hpc[h] \in CreatingPcs
    PROVE  /\ loc[h].new \in Sids
           /\ stage[loc[h].new] = CreatingAt(hpc[h])
           /\ skey[loc[h].new] = loc[h].dg.peer /\ loc[h].dg.peer \in Clients
           /\ StageInv(loc[h].new)
           /\ \A i \in Handlers \ {h} : hpc[i] \in CreatingPcs => loc[i].new # loc[h].new
           /\ \A i \in Handlers : hpc[i] \in UsingPcs => loc[i].sess # loc[h].new
           /\ \A i \in Handlers : hpc[i] = "decide" => loc[i].sess # loc[h].new
           /\ \A k \in Clients : sessions[k] # loc[h].new
<1>1. /\ loc[h].new \in Sids
      /\ stage[loc[h].new] = CreatingAt(hpc[h])
      /\ skey[loc[h].new] = loc[h].dg.peer
  BY DEF SessionInv, HandlerInv
<1>2. loc[h].dg.peer \in Clients /\ StageInv(loc[h].new)
  BY <1>1, HandlerAt DEF SessionInv, CreatingPcs
<1>3. stage[loc[h].new] # "stored" /\ loc[h].new # None
  BY <1>1, NoneAssumption DEF CreatingAt, CreatingPcs
<1>4. \A i \in Handlers \ {h} : hpc[i] \in CreatingPcs => loc[i].new # loc[h].new
  BY DEF SessionInv, OwnersDistinct
<1>5. \A i \in Handlers : hpc[i] \in UsingPcs \/ hpc[i] = "decide" => loc[i].sess # loc[h].new
  BY <1>3 DEF SessionInv, HandlerInv
<1>6. \A k \in Clients : sessions[k] # loc[h].new
  BY <1>3 DEF SessionInv, MapConsistent, InMap
<1> QED BY <1>1, <1>2, <1>4, <1>5, <1>6

LEMMA SessionInvRefuse ==
    ASSUME TypeInv, SessionInv, NEW h \in Handlers, Refuse(h) \/ NewSession(h) \/ LoseOnce(h)
    PROVE  SessionInv'
<1> USE TypeInvSplit DEF RestOK
<1> DEFINE s == loc[h].new
<1>0. hpc[h] \in {"refuse", "newSession", "loseOnce"} /\ hpc[h] \in CreatingPcs
  BY DEF Refuse, NewSession, LoseOnce, CreatingPcs
<1>1. /\ s \in Sids /\ stage[s] = CreatingAt(hpc[h]) /\ StageInv(s)
      /\ skey[s] = loc[h].dg.peer /\ loc[h].dg.peer \in Clients
      /\ \A i \in Handlers \ {h} : hpc[i] \in CreatingPcs => loc[i].new # s
      /\ \A i \in Handlers : hpc[i] \in UsingPcs => loc[i].sess # s
      /\ \A i \in Handlers : hpc[i] = "decide" => loc[i].sess # s
      /\ \A k \in Clients : sessions[k] # s
  BY <1>0, OwnedSession
<1>2. /\ \E st \in {"refused", "new", "lost"} :
              /\ stage' = [stage EXCEPT ![s] = st]
              /\ \/ st = "refused" /\ hpc[h] = "refuse" /\ hpc'[h] = "idle"
                       /\ UNCHANGED <<timer, expPc>>
                 \/ st = "new" /\ hpc[h] = "newSession" /\ hpc'[h] = "store" /\ loc'[h] = loc[h]
                       /\ timer' = [timer EXCEPT ![s] = "armed"] /\ UNCHANGED expPc
                 \/ st = "lost" /\ hpc[h] = "loseOnce" /\ hpc'[h] = "loseWait" /\ loc'[h] = loc[h]
                       /\ expPc' = (IF Done(s) THEN expPc ELSE [expPc EXCEPT ![s] = "lostStop"])
                       /\ UNCHANGED timer
      /\ \A i \in Handlers \ {h} : hpc'[i] = hpc[i] /\ loc'[i] = loc[i]
      /\ UNCHANGED <<skey, reader, sessions, closePc, target>>
  BY DEF Refuse, NewSession, LoseOnce, Goto, Return, closeVars
<1>3. ASSUME NEW i \in Handlers PROVE HandlerInv(i)'
  <2>0. HandlerInv(i)
    BY DEF SessionInv
  <2>1. CASE i = h
    BY <1>1, <1>2, <2>0, <2>1 DEF HandlerInv, CreatingPcs, CreatingAt, UsingPcs
  <2>2. CASE i # h
    BY <1>1, <1>2, <2>0, <2>2 DEF HandlerInv
  <2> QED BY <2>1, <2>2
<1>4. OwnersDistinct'
  BY <1>0, <1>1, <1>2 DEF SessionInv, OwnersDistinct, CreatingPcs
<1>5. ASSUME NEW t \in Sids PROVE StageInv(t)'
  <2>0. StageInv(t)
    BY DEF SessionInv
  <2>1. CASE t = s
    BY <1>0, <1>1, <1>2, <2>1 DEF StageInv, CreatingAt, ExpireSteps, LoserSteps, Done
  <2>2. CASE t # s
    BY <1>2, <2>0, <2>2 DEF StageInv
  <2> QED BY <2>1, <2>2
<1>6. stage[s] # "stored"
  BY <1>0, <1>1 DEF CreatingAt
<1>7. CloserInv'
  BY <1>1, <1>2, <1>6 DEF SessionInv, CloserInv
<1>8. \A t \in Sids : InMap(t)' <=> InMap(t)
  BY <1>1, <1>2, <1>6 DEF InMap
<1>9. MapConsistent'
  BY <1>2, <1>8, NoneAssumption DEF SessionInv, MapConsistent
<1> QED BY <1>3, <1>4, <1>5, <1>7, <1>9 DEF SessionInv

LEMMA SessionInvStore ==
    ASSUME TypeInv, SessionInv, NEW h \in Handlers, LoadOrStore(h)
    PROVE  SessionInv'
<1> USE TypeInvSplit DEF RestOK
<1> DEFINE s == loc[h].new
           k == loc[h].dg.peer
<1>0. hpc[h] = "store" /\ hpc[h] \in CreatingPcs /\ loc[h] \in Locals
  BY DEF LoadOrStore, CreatingPcs
<1>1. /\ s \in Sids /\ stage[s] = "new" /\ expPc[s] = "idle"
      /\ skey[s] = k /\ k \in Clients
      /\ \A i \in Handlers \ {h} : hpc[i] \in CreatingPcs => loc[i].new # s
  BY <1>0, OwnedSession DEF CreatingAt, StageInv
<1>2. UNCHANGED <<skey, expPc, timer, reader, closePc, target>>
  BY DEF LoadOrStore, closeVars
<1>3. CASE sessions[k] = None
  <2>1. /\ sessions' = [sessions EXCEPT ![k] = s]
        /\ stage' = [stage EXCEPT ![s] = "stored"]
        /\ loc' = [loc EXCEPT ![h].sess = s] /\ hpc' = [hpc EXCEPT ![h] = "startReader"]
    BY <1>3 DEF LoadOrStore, Goto
  <2>2. loc'[h].sess = s /\ loc'[h].new = s
    BY <1>0, <2>1 DEF Locals
  <2>3. ASSUME NEW i \in Handlers PROVE HandlerInv(i)'
    <3>0. HandlerInv(i)
      BY DEF SessionInv
    <3>1. CASE i = h
      BY <1>1, <2>1, <2>2, <3>1 DEF HandlerInv, CreatingPcs
    <3>2. CASE i # h
      BY <1>1, <1>2, <2>1, <3>0, <3>2 DEF HandlerInv
    <3> QED BY <3>1, <3>2
  <2>4. OwnersDistinct'
    BY <2>1 DEF SessionInv, OwnersDistinct, CreatingPcs
  <2>5. ASSUME NEW t \in Sids PROVE StageInv(t)'
    BY <1>1, <1>2, <2>1 DEF SessionInv, StageInv, ExpireSteps, LoserSteps
  <2>6. CloserInv'
    BY <1>2, <2>1 DEF SessionInv, CloserInv
  <2>7. \A t \in Sids \ {s} : (InMap(t)' <=> InMap(t)) /\ (InMap(t) => skey[t] # k)
    BY <1>2, <1>3, <2>1, NoneAssumption DEF SessionInv, MapConsistent, InMap
  <2>8. stage'[s] = "stored" /\ expPc'[s] \notin {"uncount", "finished"}
    BY <1>1, <1>2, <2>1
  <2>9. \A t \in Sids : InMap(t)' => sessions'[skey'[t]] = t
    BY <1>1, <1>2, <2>1, <2>7 DEF SessionInv, MapConsistent
  <2>10. ASSUME NEW j \in Clients, sessions'[j] # None
         PROVE  (InMap(sessions[j]) /\ skey[sessions[j]] = j)'
    <3>1. CASE j = k
      <4>1. sessions'[j] = s /\ skey'[s] = j
        BY <1>1, <1>2, <2>1, <3>1
      <4> QED BY <2>8, <4>1 DEF InMap
    <3>2. CASE j # k
      <4>1. sessions'[j] = sessions[j] /\ sessions[j] \in Sids
        BY <2>1, <2>10, <3>2
      <4>2. InMap(sessions[j]) /\ skey[sessions[j]] = j
        BY <2>10, <4>1 DEF SessionInv, MapConsistent
      <4>3. sessions[j] # s
        BY <1>1, <4>2 DEF InMap
      <4>4. stage'[sessions[j]] = stage[sessions[j]]
        BY <2>1, <4>1, <4>3
      <4> QED BY <1>2, <4>1, <4>2, <4>4 DEF InMap
    <3> QED BY <3>1, <3>2
  <2>11. MapConsistent'
    BY <2>9, <2>10 DEF MapConsistent
  <2> QED BY <2>3, <2>4, <2>5, <2>6, <2>11 DEF SessionInv
<1>4. CASE sessions[k] # None
  <2>1. /\ UNCHANGED <<sessions, stage>>
        /\ loc' = [loc EXCEPT ![h].sess = sessions[k]] /\ hpc' = [hpc EXCEPT ![h] = "rollback"]
    BY <1>4 DEF LoadOrStore, Goto
  <2>2. /\ loc'[h].sess = sessions[k] /\ loc'[h].new = s /\ loc'[h].dg = loc[h].dg
        /\ sessions[k] \in Sids /\ stage[sessions[k]] = "stored"
    BY <1>0, <1>1, <1>4, <2>1, FoundIsStored DEF Locals
  <2>3. HandlerInv(h)'
    BY <1>1, <1>2, <2>1, <2>2 DEF HandlerInv, CreatingPcs, CreatingAt
  <2> QED BY <1>0, <1>2, <2>1, <2>2, <2>3, HandlerAlone
<1> QED BY <1>3, <1>4

(* Starting the reader and resetting the timer touch a stored session.     *)
LEMMA SessionInvStored ==
    ASSUME TypeInv, SessionInv, NEW h \in Handlers, StartReader(h) \/ ResetTimer(h)
    PROVE  SessionInv'
<1>t. /\ hpc \in [Handlers -> HandlerPcs] /\ loc \in [Handlers -> Locals]
      /\ timer \in [Sids -> {"none", "armed", "off"}]
      /\ reader \in [Sids -> {"none", "read", "forward", "refresh", "reset",
                              "expire", "expiring", "exited"}]
  BY TypeInvSplit DEF RestOK
<1>0. HandlerInv(h)
  BY DEF SessionInv
<1>1. /\ UNCHANGED <<skey, stage, expPc, sessions, closePc, target>>
      /\ \A i \in Handlers \ {h} : hpc'[i] = hpc[i] /\ loc'[i] = loc[i]
      /\ \/ hpc'[h] = "idle"
         \/ hpc'[h] = "created" /\ loc'[h] = loc[h] /\ hpc[h] = "startReader"
  <2>2. CASE StartReader(h)
    BY <1>t, <2>2 DEF StartReader, Goto, sessionVars, closeVars
  <2>3. CASE ResetTimer(h)
    BY <1>t, <2>3 DEF ResetTimer, Goto, Return, sessionVars, closeVars
  <2> QED BY <2>2, <2>3
<1>2. ASSUME NEW i \in Handlers PROVE HandlerInv(i)'
  <2>0. HandlerInv(i)
    BY DEF SessionInv
  <2>1. CASE i = h
    BY <1>0, <1>1, <2>1 DEF HandlerInv, CreatingPcs, UsingPcs
  <2>2. CASE i # h
    BY <1>1, <2>0, <2>2 DEF HandlerInv
  <2> QED BY <2>1, <2>2
<1>3. OwnersDistinct'
  BY <1>1 DEF SessionInv, OwnersDistinct, CreatingPcs
<1>4. ASSUME NEW t \in Sids PROVE StageInv(t)'
  <2>0. StageInv(t)
    BY DEF SessionInv
  <2>1. CASE StartReader(h)
    BY <1>t, <1>0, <1>1, <2>0, <2>1 DEF StageInv, StartReader, HandlerInv, UsingPcs, sessionVars
  <2>2. CASE ResetTimer(h)
    BY <1>t, <1>0, <1>1, <2>0, <2>2 DEF StageInv, ResetTimer, HandlerInv, UsingPcs, sessionVars
  <2> QED BY <2>1, <2>2
<1>5. CloserInv' /\ MapConsistent'
  BY <1>1 DEF SessionInv, CloserInv, MapConsistent, InMap
<1> QED BY <1>2, <1>3, <1>4, <1>5 DEF SessionInv

(* The steps that move no handler do not change who owns or uses what.     *)
LEMMA NoHandlerMoves ==
    ASSUME SessionInv, UNCHANGED <<hpc, loc, skey, stage>>
    PROVE  (\A h \in Handlers : HandlerInv(h)') /\ OwnersDistinct'
BY DEF SessionInv, HandlerInv, OwnersDistinct

(* Whoever calls expire, timer, reader or Close, takes the once of a       *)
(* stored session, or of one that is done already.                         *)
LEMMA SessionInvClaim ==
    ASSUME TypeInv, SessionInv, NEW s \in Sids, Claim(s),
           stage[s] \in {"stored", "lost"}, stage[s] = "lost" => Done(s),
           UNCHANGED <<hpc, loc, skey, stage, sessions>>,
           \A t \in Sids : reader'[t] # "none" => reader[t] # "none",
           \A t \in Sids : timer'[t] = timer[t] \/ timer[t] # "none",
           CloserInv'
    PROVE  SessionInv'
<1>0. /\ expPc \in [Sids -> {"idle", "finished"} \cup ExpireSteps \cup LoserSteps]
      /\ sessions \in [Clients -> Sids \cup {None}]
  BY TypeInvSplit DEF RestOK
<1>1. (\A h \in Handlers : HandlerInv(h)') /\ OwnersDistinct'
  BY NoHandlerMoves
<1>2. \A t \in Sids :
         \/ expPc'[t] = expPc[t]
         \/ t = s /\ expPc[t] = "idle" /\ expPc'[t] = "stop" /\ stage[t] = "stored"
  <2>1. CASE Done(s)
    BY <2>1 DEF Claim
  <2>2. CASE ~Done(s)
    BY <1>0, <2>2 DEF Claim, Done
  <2> QED BY <2>1, <2>2
<1>3. ASSUME NEW t \in Sids PROVE StageInv(t)'
  <2>0. StageInv(t)
    BY DEF SessionInv
  <2> QED BY <1>2, <2>0 DEF StageInv, LoserSteps
<1>4. \A t \in Sids : InMap(t)' <=> InMap(t)
  BY <1>2 DEF InMap
<1>5. MapConsistent'
  BY <1>0, <1>4 DEF SessionInv, MapConsistent
<1> QED BY <1>1, <1>3, <1>5 DEF SessionInv

(* The steps that only move a once block on, a reader or the closer, or    *)
(* touch the timer of a session that has one.                              *)
LEMMA SessionInvQuiet ==
    ASSUME TypeInv, SessionInv, UNCHANGED <<hpc, loc, skey, stage, sessions>>,
           \A t \in Sids :
              /\ reader'[t] # "none" => reader[t] # "none"
              /\ timer'[t] = timer[t] \/ timer[t] # "none" \/ reader[t] # "none"
                    \/ expPc[t] # "idle"
              /\ \/ expPc'[t] = expPc[t]
                 \/ /\ expPc[t] \in ExpireSteps \ {"delete", "uncount"}
                    /\ expPc'[t] \in ExpireSteps \ {"uncount"}
                 \/ expPc[t] \in LoserSteps /\ expPc'[t] \in LoserSteps
                 \/ expPc[t] \in LoserSteps \cup {"uncount"} /\ expPc'[t] = "finished",
           CloserInv'
    PROVE  SessionInv'
<1>1. (\A h \in Handlers : HandlerInv(h)') /\ OwnersDistinct'
  BY NoHandlerMoves
<1>2. ASSUME NEW t \in Sids PROVE StageInv(t)' /\ (InMap(t)' <=> InMap(t))
  <2>0. StageInv(t)
    BY DEF SessionInv
  <2> QED BY <2>0 DEF StageInv, InMap, ExpireSteps, LoserSteps
<1>3. sessions \in [Clients -> Sids \cup {None}]
  BY TypeInvSplit DEF RestOK
<1>4. MapConsistent'
  BY <1>2, <1>3 DEF SessionInv, MapConsistent
<1> QED BY <1>1, <1>2, <1>4 DEF SessionInv

LEMMA SessionInvExpire ==
    ASSUME TypeInv, SessionInv, NEW s \in Sids, ExpireStep(s)
    PROVE  SessionInv'
<1>0. /\ expPc \in [Sids -> {"idle", "finished"} \cup ExpireSteps \cup LoserSteps]
      /\ timer \in [Sids -> {"none", "armed", "off"}]
      /\ sessions \in [Clients -> Sids \cup {None}]
  BY TypeInvSplit DEF RestOK
<1> USE DEF handlerVars, sessionVars, closeVars, ExpireGoto
<1>1. CASE ~DeleteKey(s)
  <2>1. UNCHANGED <<hpc, loc, skey, stage, sessions, reader, closePc, target>>
    BY <1>1 DEF ExpireStep, StopTimer, ClearSource, ClearKind, CloseSocket, Uncount
  <2>2. \A t \in Sids : timer'[t] = timer[t] \/ expPc[t] # "idle"
    BY <1>0, <1>1 DEF ExpireStep, StopTimer, ClearSource, ClearKind, CloseSocket, Uncount
  <2>3. \A t \in Sids :
           \/ expPc'[t] = expPc[t]
           \/ /\ expPc[t] \in ExpireSteps \ {"delete", "uncount"}
              /\ expPc'[t] \in ExpireSteps \ {"uncount"}
           \/ expPc[t] \in LoserSteps /\ expPc'[t] \in LoserSteps
           \/ expPc[t] \in LoserSteps \cup {"uncount"} /\ expPc'[t] = "finished"
    BY <1>0, <1>1 DEF ExpireStep, StopTimer, ClearSource, ClearKind, CloseSocket, Uncount,
                      ExpireSteps, LoserSteps
  <2>4. CloserInv'
    BY <2>1 DEF SessionInv, CloserInv
  <2> QED BY <2>1, <2>2, <2>3, <2>4, SessionInvQuiet
<1>2. CASE DeleteKey(s)
  <2>1. /\ UNCHANGED <<hpc, loc, skey, stage, timer, reader, closePc, target>>
        /\ expPc[s] = "delete" /\ expPc' = [expPc EXCEPT ![s] = "uncount"]
        /\ sessions' = [sessions EXCEPT ![skey[s]] = None]
    BY <1>2 DEF DeleteKey
  <2>2. stage[s] = "stored" /\ skey[s] \in Clients /\ InMap(s)
    BY <2>1 DEF SessionInv, StageInv, ExpireSteps, InMap
  <2>3. \A t \in Sids \ {s} : InMap(t) => skey[t] # skey[s]
    BY <2>2 DEF SessionInv, MapConsistent
  <2>4. \A t \in Sids : InMap(t)' <=> InMap(t) /\ t # s
    BY <1>0, <2>1 DEF InMap
  <2>5. (\A h \in Handlers : HandlerInv(h)') /\ OwnersDistinct'
    BY <2>1, NoHandlerMoves
  <2>6. ASSUME NEW t \in Sids PROVE StageInv(t)'
    BY <1>0, <2>1, <2>2 DEF SessionInv, StageInv, ExpireSteps, LoserSteps
  <2>7. CloserInv'
    BY <2>1 DEF SessionInv, CloserInv
  <2>8. \A t \in Sids : InMap(t)' => sessions'[skey'[t]] = t
    <3> SUFFICES ASSUME NEW t \in Sids, InMap(t)' PROVE sessions'[skey'[t]] = t
      OBVIOUS
    <3>1. InMap(t) /\ t # s /\ skey[t] # skey[s]
      BY <2>3, <2>4
    <3>2. skey[t] \in Clients /\ sessions[skey[t]] = t
      BY <3>1 DEF SessionInv, StageInv, MapConsistent, InMap
    <3> QED BY <1>0, <2>1, <3>1, <3>2
  <2>9. ASSUME NEW k \in Clients, sessions'[k] # None
        PROVE  (InMap(sessions[k]) /\ skey[sessions[k]] = k)'
    <3>1. k # skey[s] /\ sessions'[k] = sessions[k] /\ sessions[k] \in Sids
      BY <1>0, <2>1, <2>9
    <3>2. InMap(sessions[k]) /\ skey[sessions[k]] = k
      BY <2>9, <3>1 DEF SessionInv, MapConsistent
    <3>3. sessions[k] # s
      BY <3>1, <3>2
    <3>4. expPc'[sessions[k]] = expPc[sessions[k]]
      BY <1>0, <2>1, <3>1, <3>3
    <3> QED BY <2>1, <3>1, <3>2, <3>4 DEF InMap
  <2>10. MapConsistent'
    BY <2>8, <2>9 DEF MapConsistent
  <2> QED BY <2>5, <2>6, <2>7, <2>10 DEF SessionInv
<1> QED BY <1>1, <1>2

LEMMA SessionInvReader ==
    ASSUME TypeInv, SessionInv, NEW s \in Sids,
           ReadResponse(s) \/ ReadError(s) \/ ReaderStep(s)
    PROVE  SessionInv'
<1>0. /\ reader \in [Sids -> {"none", "read", "forward", "refresh", "reset",
                              "expire", "expiring", "exited"}]
      /\ timer \in [Sids -> {"none", "armed", "off"}]
  BY TypeInvSplit DEF RestOK
<1> USE DEF ReaderGoto, handlerVars, sessionVars, closeVars
<1>1. /\ UNCHANGED <<hpc, loc, skey, stage, sessions, closePc, target>>
      /\ reader[s] # "none" /\ \A t \in Sids : reader'[t] # "none" => reader[t] # "none"
  BY <1>0 DEF ReadResponse, ReadError, ReaderStep, ReaderExpires, ReaderExits, Forward,
              ReaderRefresh, ReaderReset
<1>2. CloserInv'
  BY <1>1 DEF SessionInv, CloserInv
<1>3. CASE ReaderExpires(s)
  <2>1. stage[s] = "stored"
    BY <1>1 DEF SessionInv, StageInv
  <2>2. Claim(s) /\ UNCHANGED timer
    BY <1>3 DEF ReaderExpires
  <2> QED BY <1>1, <1>2, <2>1, <2>2, SessionInvClaim
<1>4. CASE ~ReaderExpires(s)
  <2>1. UNCHANGED expPc /\ \A t \in Sids : timer'[t] = timer[t] \/ t = s
    BY <1>0, <1>4 DEF ReadResponse, ReadError, ReaderStep, ReaderExits, Forward,
                      ReaderRefresh, ReaderReset
  <2> QED BY <1>1, <1>2, <2>1, SessionInvQuiet
<1> QED BY <1>3, <1>4

LEMMA SessionInvClose ==
    ASSUME TypeInv, SessionInv, CloseListener \/ CloseStep
    PROVE  SessionInv'
<1>0. sessions \in [Clients -> Sids \cup {None}]
  BY TypeInvSplit DEF RestOK
<1> USE DEF handlerVars, sessionVars, closeVars
<1>1. UNCHANGED <<hpc, loc, skey, stage, sessions, timer, reader>>
  BY DEF CloseListener, CloseStep, RangeVisit, CloserExpires, CloserResumes, RangeEnds,
         WaitGroupDone
<1>2. CloserInv'
  <2>1. ASSUME NEW k \in Clients, RangeVisit(k) PROVE CloserInv'
    BY <1>0, <1>1, <2>1, FoundIsStored DEF RangeVisit, CloserInv
  <2>2. CASE CloserExpires
    BY <1>1, <2>2 DEF CloserExpires, CloserInv, SessionInv
  <2>3. CASE CloseListener \/ CloserResumes \/ RangeEnds \/ WaitGroupDone
    BY <2>3 DEF CloseListener, CloserResumes, RangeEnds, WaitGroupDone, CloserInv
  <2> QED BY <2>1, <2>2, <2>3 DEF CloseStep
<1>3. CASE CloserExpires
  <2>1. target \in Sids /\ stage[target] = "stored"
    BY <1>3 DEF CloserExpires, SessionInv, CloserInv
  <2>2. PICK s \in Sids : s = target
    BY <2>1
  <2>3. Claim(s) /\ stage[s] = "stored"
    BY <1>3, <2>1, <2>2 DEF CloserExpires, Claim, Done
  <2> QED BY <1>1, <1>2, <2>3, SessionInvClaim
<1>4. CASE ~CloserExpires
  <2>1. UNCHANGED expPc
    BY <1>4 DEF CloseListener, CloseStep, RangeVisit, CloserResumes, RangeEnds, WaitGroupDone
  <2> QED BY <1>1, <1>2, <2>1, SessionInvQuiet
<1> QED BY <1>3, <1>4

(* The one step that needs the timer to be slower than Create: armed, and  *)
(* not "new", it belongs to a stored session or to a loser that is done.   *)
LEMMA SessionInvTimer ==
    ASSUME TimerMayBeatStore = FALSE, TypeInv, SessionInv, NEW s \in Sids, TimerFires(s)
    PROVE  SessionInv'
<1>0. /\ stage \in [Sids -> {"unused", "dialed", "new", "stored", "lost", "refused"}]
      /\ timer \in [Sids -> {"none", "armed", "off"}]
  BY TypeInvSplit DEF RestOK
<1>1. /\ UNCHANGED <<hpc, loc, skey, stage, sessions, reader, closePc, target>>
      /\ timer[s] = "armed" /\ timer' = [timer EXCEPT ![s] = "off"]
      /\ stage[s] # "new" /\ Claim(s)
  BY DEF TimerFires, handlerVars, sessionVars, closeVars
<1>2. StageInv(s)
  BY DEF SessionInv
<1>3. stage[s] \in {"stored", "lost"} /\ (stage[s] = "lost" => Done(s))
  BY <1>0, <1>1, <1>2 DEF StageInv, Done
<1>4. CloserInv'
  BY <1>1 DEF SessionInv, CloserInv
<1> QED BY <1>0, <1>1, <1>3, <1>4, SessionInvClaim

LEMMA SessionInvStep ==
    ASSUME TimerMayBeatStore = FALSE
    PROVE  TypeInv /\ SessionInv /\ [Next]_vars => SessionInv'
<1> SUFFICES ASSUME TypeInv, SessionInv, [Next]_vars PROVE SessionInv'
  OBVIOUS
<1>1. ASSUME NEW h \in Handlers, CreateStep(h) PROVE SessionInv'
  BY <1>1, SessionInvCounting, SessionInvDial, SessionInvRefuse, SessionInvStore,
     SessionInvStored DEF CreateStep
<1>2. ASSUME NEW h \in Handlers, DatagramStep(h) PROVE SessionInv'
  BY <1>2, SessionInvDatagram, SessionInvStored
<1>3. ASSUME NEW h \in Handlers, Receive(h) \/ ServeReturns(h) \/ ServeFails(h)
      PROVE  SessionInv'
  BY <1>3, SessionInvReceive
<1>4. ASSUME NEW s \in Sids,
             TimerFires(s) \/ ExpireStep(s) \/ ReadResponse(s) \/ ReadError(s) \/ ReaderStep(s)
      PROVE  SessionInv'
  BY <1>4, SessionInvTimer, SessionInvExpire, SessionInvReader
<1>5. ASSUME CloseListener \/ CloseStep PROVE SessionInv'
  BY <1>5, SessionInvClose
<1>6. ASSUME UNCHANGED vars PROVE SessionInv'
  <2>1. UNCHANGED <<hpc, loc, skey, stage, sessions, timer, reader, expPc, closePc, target>>
    BY <1>6 DEF vars, handlerVars, sessionVars, closeVars
  <2>2. CloserInv'
    BY <2>1 DEF SessionInv, CloserInv
  <2> QED BY <2>1, <2>2, SessionInvQuiet
<1> QED BY <1>1, <1>2, <1>3, <1>4, <1>5, <1>6 DEF Next, HandlerStep, Stopped

LEMMA SessionInvariant ==
    ASSUME TimerMayBeatStore = FALSE
    PROVE  Spec => [](TypeInv /\ SessionInv)
BY TypeInvInit, TypeInvStep, SessionInvInit, SessionInvStep, PTL DEF Spec

(* However many goroutines create, lose, use and expire sessions at once,  *)
(* the manager's map and the sessions agree: remove, which deletes by key, *)
(* never takes out a successor, and no live session is shadowed.  The      *)
(* assumption is the one the code makes by arming the timer before the     *)
(* store, and the run UdpZombie shows it is needed.                        *)
THEOREM MapStaysConsistent ==
    ASSUME TimerMayBeatStore = FALSE
    PROVE  Spec => []MapConsistent
BY SessionInvariant, PTL DEF SessionInv

=============================================================================
