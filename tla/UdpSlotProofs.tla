---------------------------- MODULE UdpSlotProofs ----------------------------
(***************************************************************************)
(* The slots of udp.max-sessions, for any number of clients, sockets and   *)
(* handlers and any cap: the counter is exact, the cap holds, and the      *)
(* slots are a bounded pool.  Builds on the session invariant of           *)
(* UdpGatewayProofs and shares its assumption on the idle timer.           *)
(***************************************************************************)
EXTENDS UdpGatewayProofs

SlotPcs == {"newSession", "store", "rollback"}

Firm == {s \in Sids : FirmSlot(s)}
Over == {s \in Sids : \E h \in Handlers : loc[h].new = s /\ hpc[h] = "unreserve"}
Live == {s \in Sids : stage[s] = "stored" /\ expPc[s] # "finished"}

(* The five things a step can do to the slots and to the counter.          *)
Quiet == Firm' = Firm /\ Over' = Over /\ count' = count
Acquires(s) == /\ s \in Sids \ (Firm \cup Over) /\ Firm' = Firm \cup {s} /\ Over' = Over
               /\ count' = count + 1 /\ (MaxSessions > 0 => count + 1 <= MaxSessions)
Overshoots(s) == /\ s \in Sids \ (Firm \cup Over) /\ Firm' = Firm /\ Over' = Over \cup {s}
                 /\ count' = count + 1
Unreserves(s) == /\ s \in Over \ Firm /\ Firm' = Firm /\ Over' = Over \ {s}
                 /\ count' = count - 1
Frees(s) == /\ s \in Firm \ Over /\ Firm' = Firm \ {s} /\ Over' = Over
            /\ count' = count - 1

SlotStep == Quiet \/ \E s \in Sids : Acquires(s) \/ Overshoots(s) \/ Unreserves(s) \/ Frees(s)

(* The types the proofs below rest on.                                     *)
LEMMA SlotTypes ==
    ASSUME TypeInv
    PROVE  /\ hpc \in [Handlers -> HandlerPcs] /\ loc \in [Handlers -> Locals]
           /\ stage \in [Sids -> {"unused", "dialed", "new", "stored", "lost", "refused"}]
           /\ expPc \in [Sids -> {"idle", "finished"} \cup ExpireSteps \cup LoserSteps]
           /\ count \in Int
BY TypeInvSplit DEF RestOK

(* A handler that neither has nor takes a slot.                            *)
LEMMA QuietHandler ==
    ASSUME NEW h \in Handlers, UNCHANGED count,
           \A s \in Sids : (stage'[s] = "stored" /\ expPc'[s] # "finished")
                              <=> (stage[s] = "stored" /\ expPc[s] # "finished"),
           \A i \in Handlers \ {h} : hpc'[i] = hpc[i] /\ loc'[i] = loc[i],
           hpc[h] \notin SlotPcs \cup {"unreserve"}, hpc'[h] \notin SlotPcs \cup {"unreserve"}
    PROVE  Quiet
<1>1. Firm' = Firm
  BY DEF Firm, FirmSlot, SlotPcs
<1>2. Over' = Over
  BY DEF Over
<1> QED BY <1>1, <1>2 DEF Quiet

(* A step of no handler that finishes no stored session.                   *)
LEMMA QuietSession ==
    ASSUME UNCHANGED <<hpc, loc, stage, count>>,
           \A s \in Sids : stage[s] = "stored" =>
               (expPc'[s] = "finished" <=> expPc[s] = "finished")
    PROVE  Quiet
BY DEF Quiet, Firm, Over, FirmSlot

LEMMA SlotStepDatagram ==
    ASSUME TypeInv, NEW h \in Handlers,
           \/ Receive(h) \/ ServeReturns(h) \/ ServeFails(h) \/ DatagramStep(h)
           \/ DialFails(h) \/ Reserve(h) \/ StartReader(h) \/ LoseWait(h) \/ Created(h)
    PROVE  Quiet
<1> USE SlotTypes DEF Goto, Return, sessionVars
<1>1. /\ UNCHANGED <<stage, expPc, count>>
      /\ \A i \in Handlers \ {h} : hpc'[i] = hpc[i] /\ loc'[i] = loc[i]
  BY DEF Receive, ServeReturns, ServeFails, DialFails, Reserve, StartReader, LoseWait,
         Created, DatagramStep, Lookup, CheckDone, Recover, RecoverKind, DecideDatagram,
         Persist, StoreSource, StoreKind, Encode, Write, WriteFails, Refresh, ResetTimer
<1>2. hpc[h] \notin SlotPcs \cup {"unreserve"} /\ hpc'[h] \notin SlotPcs \cup {"unreserve"}
  BY DEF Receive, ServeReturns, ServeFails, DialFails, Reserve, StartReader, LoseWait,
         Created, DatagramStep, Lookup, CheckDone, Recover, RecoverKind, DecideDatagram,
         Persist, StoreSource, StoreKind, Encode, Write, WriteFails, Refresh, ResetTimer,
         SlotPcs
<1> QED BY <1>1, <1>2, QuietHandler

(* The socket a creating handler owns is owned by nobody else and stored   *)
(* by nobody.                                                              *)
LEMMA Owned ==
    ASSUME SessionInv, NEW h \in Handlers, hpc[h] \in CreatingPcs
    PROVE  /\ loc[h].new \in Sids
           /\ stage[loc[h].new] = CreatingAt(hpc[h])
           /\ \A i \in Handlers \ {h} :
                 hpc[i] \in CreatingPcs => loc[i].new # loc[h].new
           /\ loc[h].new \in Firm <=> hpc[h] \in SlotPcs
           /\ loc[h].new \in Over <=> hpc[h] = "unreserve"
<1>1. loc[h].new \in Sids /\ stage[loc[h].new] = CreatingAt(hpc[h])
  BY DEF SessionInv, HandlerInv
<1>2. \A i \in Handlers \ {h} : hpc[i] \in CreatingPcs => loc[i].new # loc[h].new
  BY DEF SessionInv, OwnersDistinct
<1>3. CreatingAt(hpc[h]) # "stored"
  BY DEF CreatingAt, CreatingPcs
<1> QED BY <1>1, <1>2, <1>3 DEF Firm, Over, FirmSlot, SlotPcs, CreatingPcs

(* Sets that differ in one element at most.                                *)
LEMMA OneElement ==
    ASSUME NEW S, NEW s \in S, NEW A, NEW B, A \subseteq S, B \subseteq S,
           \A t \in S \ {s} : t \in B <=> t \in A
    PROVE  /\ (s \in B <=> s \in A) => B = A
           /\ s \in B => B = A \cup {s}
           /\ s \notin B => B = A \ {s}
OBVIOUS

(* A step of a handler inside Create touches the slot of its own socket    *)
(* only.                                                                   *)
LEMMA OwnerMoves ==
    ASSUME TypeInv, SessionInv, NEW h \in Handlers, NEW s \in Sids, s = loc[h].new,
           hpc[h] \in CreatingPcs,
           \A i \in Handlers \ {h} : hpc'[i] = hpc[i] /\ loc'[i] = loc[i],
           hpc'[h] \in SlotPcs \cup {"unreserve"} => loc'[h].new = s,
           \A t \in Sids \ {s} : stage'[t] = stage[t] /\ expPc'[t] = expPc[t]
    PROVE  /\ (s \in Firm <=> s \in Firm') => Firm' = Firm
           /\ s \in Firm' => Firm' = Firm \cup {s}
           /\ s \notin Firm' => Firm' = Firm \ {s}
           /\ (s \in Over <=> s \in Over') => Over' = Over
           /\ s \in Over' => Over' = Over \cup {s}
           /\ s \notin Over' => Over' = Over \ {s}
           /\ s \in Firm' <=> \/ hpc'[h] \in SlotPcs
                              \/ stage'[s] = "stored" /\ expPc'[s] # "finished"
           /\ s \in Over' <=> hpc'[h] = "unreserve"
           /\ s \in Firm <=> hpc[h] \in SlotPcs
           /\ s \in Over <=> hpc[h] = "unreserve"
<1>1. \A i \in Handlers \ {h} : hpc[i] \in CreatingPcs => loc[i].new # s
  BY Owned
<1>2. \A i \in Handlers \ {h} : hpc'[i] \in SlotPcs \cup {"unreserve"} => loc'[i].new # s
  BY <1>1 DEF SlotPcs, CreatingPcs
<1>3. ASSUME NEW t \in Sids \ {s} PROVE (t \in Firm' <=> t \in Firm) /\ (t \in Over' <=> t \in Over)
  BY <1>3 DEF Firm, Over, FirmSlot, SlotPcs
<1>4. /\ s \in Firm' <=> \/ hpc'[h] \in SlotPcs
                         \/ stage'[s] = "stored" /\ expPc'[s] # "finished"
      /\ s \in Over' <=> hpc'[h] = "unreserve"
  BY <1>2 DEF Firm, Over, FirmSlot, SlotPcs
<1>5. (s \in Firm <=> hpc[h] \in SlotPcs) /\ (s \in Over <=> hpc[h] = "unreserve")
  BY Owned
<1>6. Firm \subseteq Sids /\ Over \subseteq Sids /\ Firm' \subseteq Sids /\ Over' \subseteq Sids
  BY DEF Firm, Over
<1>7. /\ (s \in Firm' <=> s \in Firm) => Firm' = Firm
      /\ s \in Firm' => Firm' = Firm \cup {s}
      /\ s \notin Firm' => Firm' = Firm \ {s}
  BY <1>3, <1>6, OneElement
<1>8. /\ (s \in Over' <=> s \in Over) => Over' = Over
      /\ s \in Over' => Over' = Over \cup {s}
      /\ s \notin Over' => Over' = Over \ {s}
  BY <1>3, <1>6, OneElement
<1> QED BY <1>4, <1>5, <1>7, <1>8

LEMMA SlotStepCounting ==
    ASSUME TypeInv, SessionInv, NEW h \in Handlers,
           ReserveAdd(h) \/ Unreserve(h) \/ Rollback(h)
    PROVE  SlotStep
<1> USE SlotTypes DEF Goto, sessionVars
<1>1. /\ UNCHANGED <<loc, stage, expPc>>
      /\ \A i \in Handlers \ {h} : hpc'[i] = hpc[i]
      /\ hpc[h] \in CreatingPcs
  BY DEF ReserveAdd, Unreserve, Rollback, CreatingPcs
<1>2. PICK s \in Sids : s = loc[h].new
  BY <1>1, Owned
<1>3. stage'[s] # "stored"
  BY <1>1, <1>2, Owned DEF CreatingAt, CreatingPcs
<1>4. /\ s \in Firm' <=> hpc'[h] \in SlotPcs
      /\ s \in Over' <=> hpc'[h] = "unreserve"
      /\ s \in Firm <=> hpc[h] \in SlotPcs
      /\ s \in Over <=> hpc[h] = "unreserve"
  BY <1>1, <1>2, <1>3, OwnerMoves
<1>5. /\ (s \in Firm <=> s \in Firm') => Firm' = Firm
      /\ s \in Firm' => Firm' = Firm \cup {s}
      /\ s \notin Firm' => Firm' = Firm \ {s}
      /\ (s \in Over <=> s \in Over') => Over' = Over
      /\ s \in Over' => Over' = Over \cup {s}
      /\ s \notin Over' => Over' = Over \ {s}
  BY <1>1, <1>2, OwnerMoves
<1>6. CASE ReserveAdd(h)
  <2>1. s \notin Firm /\ s \notin Over /\ count' = count + 1
    BY <1>4, <1>6 DEF ReserveAdd, SlotPcs
  <2>2. CASE MaxSessions > 0 /\ count + 1 > MaxSessions
    <3>1. s \notin Firm' /\ s \in Over'
      BY <1>4, <1>6, <2>2 DEF ReserveAdd, SlotPcs
    <3>2. Overshoots(s)
      BY <1>5, <2>1, <3>1 DEF Overshoots
    <3> QED BY <3>2 DEF SlotStep
  <2>3. CASE ~(MaxSessions > 0 /\ count + 1 > MaxSessions)
    <3>1. s \in Firm' /\ s \notin Over'
      BY <1>4, <1>6, <2>3 DEF ReserveAdd, SlotPcs
    <3>2. MaxSessions > 0 => count + 1 <= MaxSessions
      BY <2>3, ModeAssumption
    <3>3. Acquires(s)
      BY <1>5, <2>1, <3>1, <3>2 DEF Acquires
    <3> QED BY <3>3 DEF SlotStep
  <2> QED BY <2>2, <2>3
<1>7. CASE Unreserve(h)
  <2>1. s \in Over /\ s \notin Firm /\ s \notin Firm' /\ s \notin Over' /\ count' = count - 1
    BY <1>4, <1>7 DEF Unreserve, SlotPcs
  <2>2. Unreserves(s)
    BY <1>5, <2>1 DEF Unreserves
  <2> QED BY <2>2 DEF SlotStep
<1>8. CASE Rollback(h)
  <2>1. s \in Firm /\ s \notin Over /\ s \notin Firm' /\ s \notin Over' /\ count' = count - 1
    BY <1>4, <1>8 DEF Rollback, SlotPcs
  <2>2. Frees(s)
    BY <1>5, <2>1 DEF Frees
  <2> QED BY <2>2 DEF SlotStep
<1> QED BY <1>6, <1>7, <1>8

(* The steps of Create that hand a slot on, or have none to hand on.       *)
LEMMA SlotStepOwner ==
    ASSUME TypeInv, SessionInv, NEW h \in Handlers,
           Refuse(h) \/ NewSession(h) \/ LoadOrStore(h) \/ LoseOnce(h)
    PROVE  Quiet
<1> USE SlotTypes DEF Goto, Return
<1>1. hpc[h] \in CreatingPcs
  BY DEF Refuse, NewSession, LoadOrStore, LoseOnce, CreatingPcs
<1>2. PICK s \in Sids : s = loc[h].new
  BY <1>1, Owned
<1>3. stage[s] = CreatingAt(hpc[h]) /\ StageInv(s)
  BY <1>1, <1>2, Owned DEF SessionInv
<1>4. /\ \A i \in Handlers \ {h} : hpc'[i] = hpc[i] /\ loc'[i] = loc[i]
      /\ \A t \in Sids \ {s} : stage'[t] = stage[t] /\ expPc'[t] = expPc[t]
      /\ UNCHANGED count
  BY <1>2 DEF Refuse, NewSession, LoadOrStore, LoseOnce
<1>5. hpc'[h] \in SlotPcs \cup {"unreserve"} => loc'[h].new = s
  <2>1. CASE Refuse(h) \/ LoseOnce(h)
    BY <2>1 DEF Refuse, LoseOnce, SlotPcs
  <2>2. CASE NewSession(h)
    BY <1>2, <2>2 DEF NewSession
  <2>3. CASE LoadOrStore(h)
    BY <1>2, <2>3 DEF LoadOrStore, Locals
  <2> QED BY <2>1, <2>2, <2>3
<1>6. /\ hpc[h] \in SlotPcs <=> \/ hpc'[h] \in SlotPcs
                                \/ stage'[s] = "stored" /\ expPc'[s] # "finished"
      /\ hpc[h] # "unreserve" /\ hpc'[h] # "unreserve"
  <2>1. CASE Refuse(h)
    BY <1>2, <2>1 DEF Refuse, SlotPcs
  <2>2. CASE NewSession(h)
    BY <1>2, <2>2 DEF NewSession, SlotPcs
  <2>3. CASE LoadOrStore(h)
    <3>1. hpc[h] = "store" /\ stage[s] = "new"
      BY <1>3, <2>3 DEF LoadOrStore, CreatingAt
    <3>2. expPc[s] = "idle" /\ UNCHANGED expPc
      BY <1>3, <2>3, <3>1 DEF StageInv, LoadOrStore
    <3> QED BY <1>2, <2>3, <3>1, <3>2 DEF LoadOrStore, SlotPcs
  <2>4. CASE LoseOnce(h)
    <3>1. hpc[h] = "loseOnce" /\ hpc'[h] = "loseWait" /\ stage'[s] = "lost"
      BY <1>2, <2>4 DEF LoseOnce
    <3> QED BY <3>1 DEF SlotPcs
  <2> QED BY <2>1, <2>2, <2>3, <2>4
<1>7. (s \in Firm <=> s \in Firm') /\ (s \in Over <=> s \in Over')
  BY <1>1, <1>2, <1>4, <1>5, <1>6, OwnerMoves
<1>8. Firm' = Firm /\ Over' = Over
  BY <1>1, <1>2, <1>4, <1>5, <1>7, OwnerMoves
<1> QED BY <1>4, <1>8 DEF Quiet

LEMMA SlotStepDial ==
    ASSUME TypeInv, NEW h \in Handlers, Dial(h)
    PROVE  Quiet
<1> USE SlotTypes DEF Dial, Goto
<1>1. \A s \in Sids : (stage'[s] = "stored" /\ expPc'[s] # "finished")
                          <=> (stage[s] = "stored" /\ expPc[s] # "finished")
  OBVIOUS
<1>2. UNCHANGED count /\ \A i \in Handlers \ {h} : hpc'[i] = hpc[i] /\ loc'[i] = loc[i]
  OBVIOUS
<1>3. hpc[h] \notin SlotPcs \cup {"unreserve"} /\ hpc'[h] \notin SlotPcs \cup {"unreserve"}
  BY DEF SlotPcs
<1> QED BY <1>1, <1>2, <1>3, QuietHandler

(* Taking the once of a session finishes nothing.                          *)
LEMMA QuietClaim ==
    ASSUME TypeInv, NEW s \in Sids, Claim(s), UNCHANGED <<hpc, loc, stage, count>>
    PROVE  Quiet
<1>1. \A t \in Sids : expPc'[t] = "finished" <=> expPc[t] = "finished"
  BY SlotTypes DEF Claim, Done
<1> QED BY <1>1, QuietSession

(* The last step of expire frees the slot; the others, and all of a lost   *)
(* session's, leave the slots alone.                                       *)
LEMMA SlotStepExpire ==
    ASSUME TypeInv, SessionInv, NEW s \in Sids, ExpireStep(s)
    PROVE  SlotStep
<1> USE SlotTypes DEF ExpireGoto, handlerVars, sessionVars
<1>0. StageInv(s)
  BY DEF SessionInv
<1>1. CASE Uncount(s)
  <2>1. /\ expPc[s] = "uncount" /\ expPc' = [expPc EXCEPT ![s] = "finished"]
        /\ count' = count - 1 /\ UNCHANGED <<hpc, loc, stage>>
    BY <1>1 DEF Uncount
  <2>2. stage[s] = "stored"
    BY <1>0, <2>1 DEF StageInv, ExpireSteps
  <2>3. \A h \in Handlers : hpc[h] \in CreatingPcs => loc[h].new # s
    <3> SUFFICES ASSUME NEW h \in Handlers, hpc[h] \in CreatingPcs PROVE loc[h].new # s
      OBVIOUS
    <3>1. stage[loc[h].new] = CreatingAt(hpc[h])
      BY Owned
    <3>2. CreatingAt(hpc[h]) # "stored"
      BY DEF CreatingAt, CreatingPcs
    <3> QED BY <2>2, <3>1, <3>2
  <2>4. Over' = Over
    BY <2>1 DEF Over
  <2>5. s \in Firm /\ s \notin Over
    BY <2>1, <2>2, <2>3 DEF Firm, Over, FirmSlot, CreatingPcs
  <2>6. s \notin Firm'
    BY <2>1, <2>3 DEF Firm, FirmSlot, CreatingPcs
  <2>7. \A t \in Sids \ {s} : t \in Firm' <=> t \in Firm
    BY <2>1 DEF Firm, FirmSlot
  <2>8. Firm \subseteq Sids /\ Firm' \subseteq Sids
    BY DEF Firm
  <2>9. Firm' = Firm \ {s}
    BY <2>6, <2>7, <2>8, OneElement
  <2>10. Frees(s)
    BY <2>1, <2>4, <2>5, <2>9 DEF Frees
  <2> QED BY <2>10 DEF SlotStep
<1>2. CASE ~Uncount(s)
  <2>1. UNCHANGED <<hpc, loc, stage, count>>
    BY <1>2 DEF ExpireStep, StopTimer, ClearSource, ClearKind, CloseSocket, DeleteKey
  <2>2. /\ \A t \in Sids \ {s} : expPc'[t] = expPc[t]
        /\ expPc[s] # "finished" /\ (expPc'[s] = "finished" => expPc[s] = "lostClose")
    BY <1>2 DEF ExpireStep, StopTimer, ClearSource, ClearKind, CloseSocket, DeleteKey
  <2>3. expPc[s] = "lostClose" => stage[s] = "lost"
    BY <1>0 DEF StageInv, LoserSteps
  <2>4. Quiet
    BY <2>1, <2>2, <2>3, QuietSession
  <2> QED BY <2>4 DEF SlotStep
<1> QED BY <1>1, <1>2

LEMMA SlotStepSession ==
    ASSUME TypeInv, NEW s \in Sids,
           TimerFires(s) \/ ReadResponse(s) \/ ReadError(s) \/ ReaderStep(s)
    PROVE  Quiet
<1> USE DEF handlerVars, sessionVars
<1>1. UNCHANGED <<hpc, loc, stage, count>>
  BY DEF TimerFires, ReadResponse, ReadError, ReaderStep, ReaderExpires, ReaderExits,
         Forward, ReaderRefresh, ReaderReset
<1>2. Claim(s) \/ UNCHANGED expPc
  BY DEF TimerFires, ReadResponse, ReadError, ReaderStep, ReaderExpires, ReaderExits,
         Forward, ReaderRefresh, ReaderReset
<1> QED BY <1>1, <1>2, QuietClaim, QuietSession

LEMMA SlotStepClose ==
    ASSUME TypeInv, SessionInv, CloseListener \/ CloseStep
    PROVE  Quiet
<1> USE DEF handlerVars, sessionVars
<1>1. UNCHANGED <<hpc, loc, stage, count>>
  BY DEF CloseListener, CloseStep, RangeVisit, CloserExpires, CloserResumes, RangeEnds,
         WaitGroupDone
<1>2. CASE CloserExpires
  <2>1. PICK s \in Sids : s = target
    BY <1>2 DEF CloserExpires, SessionInv, CloserInv
  <2>2. Claim(s)
    BY <1>2, <2>1 DEF CloserExpires, Claim, Done
  <2> QED BY <1>1, <2>2, QuietClaim
<1>3. CASE ~CloserExpires
  <2>1. UNCHANGED expPc
    BY <1>3 DEF CloseListener, CloseStep, RangeVisit, CloserResumes, RangeEnds, WaitGroupDone
  <2> QED BY <1>1, <2>1, QuietSession
<1> QED BY <1>2, <1>3

LEMMA EveryStepIsSlotStep == TypeInv /\ SessionInv /\ [Next]_vars => SlotStep
<1> SUFFICES ASSUME TypeInv, SessionInv, [Next]_vars PROVE SlotStep
  OBVIOUS
<1>1. ASSUME NEW h \in Handlers, CreateStep(h) PROVE SlotStep
  BY <1>1, SlotStepDatagram, SlotStepDial, SlotStepOwner, SlotStepCounting
     DEF CreateStep, SlotStep
<1>2. ASSUME NEW h \in Handlers, DatagramStep(h) \/ Receive(h) \/ ServeReturns(h) \/ ServeFails(h)
      PROVE  SlotStep
  BY <1>2, SlotStepDatagram DEF SlotStep
<1>3. ASSUME NEW s \in Sids,
             TimerFires(s) \/ ExpireStep(s) \/ ReadResponse(s) \/ ReadError(s) \/ ReaderStep(s)
      PROVE  SlotStep
  BY <1>3, SlotStepExpire, SlotStepSession DEF SlotStep
<1>4. ASSUME CloseListener \/ CloseStep PROVE SlotStep
  BY <1>4, SlotStepClose DEF SlotStep
<1>5. ASSUME UNCHANGED vars PROVE SlotStep
  <2>1. UNCHANGED <<hpc, loc, stage, count, expPc>>
    BY <1>5 DEF vars, handlerVars, sessionVars
  <2> QED BY <2>1, QuietSession DEF SlotStep
<1> QED BY <1>1, <1>2, <1>3, <1>4, <1>5 DEF Next, HandlerStep, Stopped

-----------------------------------------------------------------------------
(* The invariant.  CountExact is not inductive: it needs to know that the  *)
(* slots are finitely many, and the cap bounds the firm ones only, an      *)
(* Add(1) that overshot being counted until it is taken back.              *)
SlotInv ==
    /\ IsFiniteSet(Firm) /\ IsFiniteSet(Over) /\ Firm \cap Over = {}
    /\ count = Cardinality(Firm) + Cardinality(Over)
    /\ MaxSessions > 0 => Cardinality(Firm) <= MaxSessions

LEMMA SlotInvInit == Init => SlotInv
<1> SUFFICES ASSUME Init PROVE SlotInv
  OBVIOUS
<1>1. Firm = {} /\ Over = {}
  BY DEF Init, Firm, Over, FirmSlot
<1>2. count = 0
  BY DEF Init
<1> QED BY <1>1, <1>2, FS_EmptySet, ModeAssumption DEF SlotInv

LEMMA SlotInvStep == SlotInv /\ SlotStep => SlotInv'
<1> SUFFICES ASSUME SlotInv, SlotStep PROVE SlotInv'
  OBVIOUS
<1>1. Cardinality(Firm) \in Nat /\ Cardinality(Over) \in Nat
  BY FS_CardinalityType DEF SlotInv
<1>2. CASE Quiet
  BY <1>2 DEF Quiet, SlotInv
<1>3. ASSUME NEW s \in Sids, Acquires(s) PROVE SlotInv'
  <2>1. IsFiniteSet(Firm') /\ Cardinality(Firm') = Cardinality(Firm) + 1
    BY <1>3, FS_AddElement DEF Acquires, SlotInv
  <2> QED BY <1>1, <1>3, <2>1, ModeAssumption DEF Acquires, SlotInv
<1>4. ASSUME NEW s \in Sids, Overshoots(s) PROVE SlotInv'
  <2>1. IsFiniteSet(Over') /\ Cardinality(Over') = Cardinality(Over) + 1
    BY <1>4, FS_AddElement DEF Overshoots, SlotInv
  <2> QED BY <1>1, <1>4, <2>1 DEF Overshoots, SlotInv
<1>5. ASSUME NEW s \in Sids, Unreserves(s) PROVE SlotInv'
  <2>1. IsFiniteSet(Over') /\ Cardinality(Over') = Cardinality(Over) - 1
    BY <1>5, FS_RemoveElement DEF Unreserves, SlotInv
  <2> QED BY <1>1, <1>5, <2>1 DEF Unreserves, SlotInv
<1>6. ASSUME NEW s \in Sids, Frees(s) PROVE SlotInv'
  <2>1. IsFiniteSet(Firm') /\ Cardinality(Firm') = Cardinality(Firm) - 1
    BY <1>6, FS_RemoveElement DEF Frees, SlotInv
  <2> QED BY <1>1, <1>6, <2>1, ModeAssumption DEF Frees, SlotInv
<1> QED BY <1>2, <1>3, <1>4, <1>5, <1>6 DEF SlotStep

LEMMA SlotInvariant ==
    ASSUME TimerMayBeatStore = FALSE
    PROVE  Spec => [](TypeInv /\ SessionInv /\ SlotInv)
BY TypeInvInit, TypeInvStep, SessionInvInit, SessionInvStep, SlotInvInit, SlotInvStep,
   EveryStepIsSlotStep, PTL DEF Spec

(* The manager's counter never drifts, for any number of goroutines in     *)
(* Create, any cap and any order of rollbacks, lost races and expiries.    *)
THEOREM CountStaysExact ==
    ASSUME TimerMayBeatStore = FALSE
    PROVE  Spec => []CountExact
<1>1. SlotInv => CountExact
  <2> SUFFICES ASSUME SlotInv PROVE CountExact
    OBVIOUS
  <2>1. {s \in Sids : HoldsSlot(s)} = Firm \cup Over
    BY DEF HoldsSlot, Firm, Over
  <2>2. Cardinality(Firm \cup Over) = Cardinality(Firm) + Cardinality(Over)
    <3>1. Cardinality(Firm \cup Over) = Cardinality(Firm) + Cardinality(Over) - Cardinality({})
      BY FS_Union DEF SlotInv
    <3>2. Cardinality(Firm) \in Nat /\ Cardinality(Over) \in Nat
      BY FS_CardinalityType DEF SlotInv
    <3> QED BY <3>1, <3>2, FS_EmptySet
  <2> QED BY <2>1, <2>2 DEF SlotInv, CountExact
<1> QED BY <1>1, SlotInvariant, PTL

(* udp.max-sessions is never exceeded by the sessions in the map or still  *)
(* expiring, though the counter itself overshoots it for a moment.         *)
THEOREM CapHolds ==
    ASSUME TimerMayBeatStore = FALSE
    PROVE  Spec => []CapRespected
<1>1. SlotInv => CapRespected
  <2> SUFFICES ASSUME SlotInv, MaxSessions > 0 PROVE Cardinality(Live) <= MaxSessions
    BY DEF CapRespected, Live
  <2>1. Live \subseteq Firm
    BY DEF Live, Firm, FirmSlot
  <2>2. IsFiniteSet(Live) /\ Cardinality(Live) <= Cardinality(Firm)
    BY <2>1, FS_Subset DEF SlotInv
  <2>3. Cardinality(Live) \in Nat /\ Cardinality(Firm) \in Nat
    BY <2>2, FS_CardinalityType DEF SlotInv
  <2> QED BY <2>2, <2>3, ModeAssumption DEF SlotInv
<1> QED BY <1>1, SlotInvariant, PTL

(* The instance of BoundedPool counts with the same Cardinality.           *)
LEMMA PoolCardinality == \A S : Pool!Cardinality(S) = Cardinality(S)
BY DEF Pool!Cardinality, Cardinality

(* The slots of the session manager, taken by an optimistic Add(1) and     *)
(* given back on a lost race or at the end of expire, refine BoundedPool.  *)
THEOREM SlotsArePool ==
    ASSUME TimerMayBeatStore = FALSE
    PROVE  Spec => ImplementsPool
<1>1. Init => Pool!Init
  BY DEF Init, Pool!Init, FirmSlot
<1>2. SlotInv /\ SlotStep => [Pool!Next]_Firm
  <2> SUFFICES ASSUME SlotInv, SlotStep, Firm' # Firm PROVE Pool!Next
    OBVIOUS
  <2>1. Cardinality(Firm) \in Nat /\ Cardinality(Over) \in Nat
    BY FS_CardinalityType DEF SlotInv
  <2>2. ASSUME NEW s \in Sids, Acquires(s) PROVE Pool!Next
    <3>1. MaxSessions > 0 => Cardinality(Firm) < MaxSessions
      BY <2>1, <2>2, ModeAssumption DEF Acquires, SlotInv
    <3>2. Pool!Acquire(s)
      BY <2>2, <3>1, PoolCardinality DEF Pool!Acquire, Acquires, Firm
    <3> QED BY <3>2 DEF Pool!Next
  <2>3. ASSUME NEW s \in Sids, Frees(s) PROVE Pool!Next
    <3>1. Pool!Release(s)
      BY <2>3 DEF Pool!Release, Frees, Firm
    <3> QED BY <3>1 DEF Pool!Next
  <2> QED BY <2>2, <2>3 DEF SlotStep, Quiet, Overshoots, Unreserves
<1> QED BY <1>1, <1>2, EveryStepIsSlotStep, SlotInvariant, PTL
        DEF Spec, ImplementsPool, Pool!Spec, Firm

=============================================================================
