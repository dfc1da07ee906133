----------------------------- MODULE UdpGateway -----------------------------
(***************************************************************************)
(* The UDP gateway of internal/udp: the Serve loop and handleDatagram      *)
(* (gateway.go), the session manager (manager.go) and the session with its *)
(* idle timer, once-only expire block and reader goroutine (session.go).   *)
(*                                                                         *)
(* The goroutines are: the handlers (production runs one, the Serve loop;  *)
(* Create is written for several), per session a reader, its timer and the *)
(* block under sync.Once, and the caller of Close.  A step is one access   *)
(* to shared memory or one system call.  Time is abstracted: an armed      *)
(* timer may fire at any moment.                                           *)
(***************************************************************************)
EXTENDS ProxyDecision, Integers, FiniteSets

CONSTANTS
    Clients,        \* the session keys (address, port and zone of a peer)
    Declared,       \* the headers a PROXY v2 datagram can carry
    Sids,           \* the upstream sockets DialUDP can return, each with its session
    Handlers,       \* the goroutines that run handleDatagram
    None,
    MaxSessions,    \* udp.max-sessions; <= 0 disables the cap
    Policy, TrustedNets, Untrusted,
    OutputMode,     \* "every" or "first"
    Unencodable,    \* the declared headers FormatDatagram fails on
    TimerMayBeatStore, \* TRUE: the idle timer may fire before Create has stored the session
    CloseCalled,    \* FALSE: an instance in which nobody calls Close
    Answering       \* the sockets on which the downstream sends something back

ASSUME ModeAssumption ==
    /\ Policy \in Policies /\ Untrusted \in UntrustedActions
    /\ OutputMode \in {"every", "first"}
    /\ TimerMayBeatStore \in BOOLEAN /\ CloseCalled \in BOOLEAN
    /\ Answering \subseteq Sids /\ MaxSessions \in Int
ASSUME NoneAssumption ==
    None \notin Clients \cup Declared \cup Sids \cup Sources
ASSUME HandlersAssumption == IsFiniteSet(Handlers)
ASSUME HeadersAssumption == Declared \cap Clients = {}

VARIABLES
    hpc, loc,                 \* per handler: where it is, its local variables
    skey, stage,              \* per session: its key, how far Create got with it
    sock, timer, expPc,       \* its upstream socket, idle timer, once block
    reader,                   \* its reader goroutine
    inputSource, inputSrcKind, headerSent,
    sessions, count,          \* the manager's map and counter
    listenerOpen, closePc, toVisit, target,  \* the listener and the caller of Close
    wire                      \* history (first_datagram): has the socket carried a datagram

handlerVars == <<hpc, loc>>
sessionVars == <<skey, stage, sock>>
flowVars    == <<inputSource, inputSrcKind, headerSent>>
closeVars   == <<closePc, toVisit, target>>
vars == <<handlerVars, sessionVars, flowVars, closeVars, timer, expPc, reader,
          sessions, count, listenerOpen, wire>>

-----------------------------------------------------------------------------
(* The header HeaderFromConn builds from a peer and the listener is named  *)
(* by the peer itself; a declared one has a name of its own.               *)
Headers == Declared \cup Clients

Datagrams ==
    [peer : Clients, kind : {"direct"}, hdr : {None}]
        \cup [peer : Clients, kind : {"v2"}, hdr : Declared]

Locals == [dg : Datagrams \cup {None}, sess : Sids \cup {None}, new : Sids \cup {None},
           stored : Headers \cup {None}, hdr : Headers \cup {None},
           src : {"direct", "v2"}, enc : Headers \cup {None}]
NoLocals == [dg |-> None, sess |-> None, new |-> None, stored |-> None,
             hdr |-> None, src |-> "direct", enc |-> None]

(* expPc: "idle" until sync.Once is taken, "finished" when its block ends. *)
(* Closing done is the first step of the block, taken with the once.       *)
ExpireSteps == {"stop", "clearSource", "clearKind", "close", "delete", "uncount"}
LoserSteps  == {"lostStop", "lostClose"}
Done(s)     == expPc[s] # "idle"
ReaderLive(s) == reader[s] \notin {"none", "exited"}

HandlerPcs == {"idle", "lookup", "checkDone", "recover", "recoverKind",
               "decide", "dial", "reserve", "reserveAdd", "unreserve", "refuse",
               "newSession", "store", "startReader", "rollback", "loseOnce",
               "loseWait", "created", "persist", "storeSource", "storeKind",
               "encode", "write", "refresh", "reset", "returned"}

(* Inside Create: the handler owns the socket and the session it made.     *)
CreatingPcs == {"reserve", "reserveAdd", "unreserve", "refuse", "newSession",
                "store", "rollback", "loseOnce", "loseWait"}

TypeOK ==
    /\ hpc \in [Handlers -> HandlerPcs]
    /\ loc \in [Handlers -> Locals]
    /\ skey \in [Sids -> Clients \cup {None}]
    /\ stage \in [Sids -> {"unused", "dialed", "new", "stored", "lost", "refused"}]
    /\ sock \in [Sids -> {"none", "open", "closed"}]
    /\ timer \in [Sids -> {"none", "armed", "off"}]
    /\ expPc \in [Sids -> {"idle", "finished"} \cup ExpireSteps \cup LoserSteps]
    /\ reader \in [Sids -> {"none", "read", "forward", "refresh", "reset",
                            "expire", "expiring", "exited"}]
    /\ inputSource \in [Sids -> Headers \cup {None}]
    /\ inputSrcKind \in [Sids -> {"v2", None}]
    /\ headerSent \in [Sids -> BOOLEAN]
    /\ sessions \in [Clients -> Sids \cup {None}]
    /\ count \in Int
    /\ listenerOpen \in BOOLEAN
    /\ closePc \in {"open", "range", "expire", "await", "wait", "closed"}
    /\ toVisit \subseteq Clients
    /\ target \in Sids \cup {None}
    /\ wire \in [Sids -> BOOLEAN]

Init ==
    /\ hpc = [h \in Handlers |-> "idle"]
    /\ loc = [h \in Handlers |-> NoLocals]
    /\ skey = [s \in Sids |-> None]
    /\ stage = [s \in Sids |-> "unused"]
    /\ sock = [s \in Sids |-> "none"]
    /\ timer = [s \in Sids |-> "none"]
    /\ expPc = [s \in Sids |-> "idle"]
    /\ reader = [s \in Sids |-> "none"]
    /\ inputSource = [s \in Sids |-> None]
    /\ inputSrcKind = [s \in Sids |-> None]
    /\ headerSent = [s \in Sids |-> FALSE]
    /\ sessions = [k \in Clients |-> None]
    /\ count = 0
    /\ listenerOpen = TRUE
    /\ closePc = "open" /\ toVisit = {} /\ target = None
    /\ wire = [s \in Sids |-> FALSE]

-----------------------------------------------------------------------------
(* handleDatagram.  Goto moves a handler, Return ends the call and forgets *)
(* its locals.                                                             *)
Goto(h, pc) == hpc' = [hpc EXCEPT ![h] = pc]
Return(h)   == Goto(h, "idle") /\ loc' = [loc EXCEPT ![h] = NoLocals]

(* ReadFromUDP delivers a datagram, Serve copies it, handleDatagram parses *)
(* it.  (Oversized and malformed datagrams and transient errors go round   *)
(* the loop without touching any state.)                                   *)
Receive(h) ==
    /\ hpc[h] = "idle" /\ listenerOpen
    /\ \E d \in Datagrams :
          loc' = [loc EXCEPT ![h] = [NoLocals EXCEPT !.dg = d, !.hdr = d.hdr,
                                                     !.src = d.kind]]
    /\ Goto(h, "lookup")
    /\ UNCHANGED <<sessionVars, flowVars, closeVars, timer, expPc, reader,
                   sessions, count, listenerOpen, wire>>

(* Serve ends: nil when the listener is closed, else with the read error.  *)
ServeReturns(h) ==
    /\ hpc[h] = "idle" /\ ~listenerOpen
    /\ Goto(h, "returned")
    /\ UNCHANGED <<loc, sessionVars, flowVars, closeVars, timer, expPc, reader,
                   sessions, count, listenerOpen, wire>>

ServeFails(h) ==
    /\ hpc[h] = "idle" /\ listenerOpen
    /\ Goto(h, "returned")
    /\ UNCHANGED <<loc, sessionVars, flowVars, closeVars, timer, expPc, reader,
                   sessions, count, listenerOpen, wire>>

Lookup(h) ==
    /\ hpc[h] = "lookup"
    /\ loc' = [loc EXCEPT ![h].sess = sessions[loc[h].dg.peer]]
    /\ Goto(h, IF sessions[loc[h].dg.peer] = None THEN "decide" ELSE "checkDone")
    /\ UNCHANGED <<sessionVars, flowVars, closeVars, timer, expPc, reader,
                   sessions, count, listenerOpen, wire>>

(* Faulty form: the stored source is never looked up.                      *)
CheckDone_NoRecover(h) ==
    /\ hpc[h] = "checkDone"
    /\ loc' = IF Done(loc[h].sess) THEN [loc EXCEPT ![h].sess = None] ELSE loc
    /\ Goto(h, "decide")
    /\ UNCHANGED <<sessionVars, flowVars, closeVars, timer, expPc, reader,
                   sessions, count, listenerOpen, wire>>

(* A session whose done channel is closed counts as none at all.           *)
CheckDone(h) ==
    /\ hpc[h] = "checkDone"
    /\ \/ /\ Done(loc[h].sess)
          /\ loc' = [loc EXCEPT ![h].sess = None]
          /\ Goto(h, "decide")
       \/ /\ ~Done(loc[h].sess)
          /\ Goto(h, IF loc[h].src = "direct" THEN "recover" ELSE "decide")
          /\ UNCHANGED loc
    /\ UNCHANGED <<sessionVars, flowVars, closeVars, timer, expPc, reader,
                   sessions, count, listenerOpen, wire>>

(* Recover the input flow: two atomic loads, which expire may come between. *)
Recover(h) ==
    /\ hpc[h] = "recover"
    /\ loc' = [loc EXCEPT ![h].stored = inputSource[loc[h].sess]]
    /\ Goto(h, IF inputSource[loc[h].sess] = None THEN "decide" ELSE "recoverKind")
    /\ UNCHANGED <<sessionVars, flowVars, closeVars, timer, expPc, reader,
                   sessions, count, listenerOpen, wire>>

(* Faulty form: the second atomic load is used without its nil check.      *)
RecoverKind_NoNilCheck(h) ==
    /\ hpc[h] = "recoverKind"
    /\ loc' = [loc EXCEPT ![h].hdr = loc[h].stored, ![h].src = inputSrcKind[loc[h].sess]]
    /\ Goto(h, "decide")
    /\ UNCHANGED <<sessionVars, flowVars, closeVars, timer, expPc, reader,
                   sessions, count, listenerOpen, wire>>

RecoverKind(h) ==
    /\ hpc[h] = "recoverKind"
    /\ IF inputSrcKind[loc[h].sess] = None
       THEN UNCHANGED loc
       ELSE loc' = [loc EXCEPT ![h].hdr = loc[h].stored,
                               ![h].src = inputSrcKind[loc[h].sess]]
    /\ Goto(h, "decide")
    /\ UNCHANGED <<sessionVars, flowVars, closeVars, timer, expPc, reader,
                   sessions, count, listenerOpen, wire>>

(* What Decide says of the handler's datagram.                             *)
Verdict(h) == Decide(Policy, TrustedNets, Untrusted, loc[h].src, loc[h].hdr,
                     loc[h].dg.peer, loc[h].dg.peer)

(* Faulty form: a stripped datagram keeps its source, only the header is   *)
(* replaced.                                                               *)
DecideDatagram_OldSource(h) ==
    /\ hpc[h] = "decide" /\ Verdict(h).allow
    /\ loc' = [loc EXCEPT ![h].hdr = Verdict(h).hdr]
    /\ Goto(h, IF loc[h].sess = None THEN "dial" ELSE "persist")
    /\ UNCHANGED <<sessionVars, flowVars, closeVars, timer, expPc, reader,
                   sessions, count, listenerOpen, wire>>

DecideDatagram(h) ==
    /\ hpc[h] = "decide"
    /\ \/ /\ ~Verdict(h).allow
          /\ Return(h)
       \/ /\ Verdict(h).allow
          /\ loc' = [loc EXCEPT ![h].hdr = Verdict(h).hdr, ![h].src = Verdict(h).src]
          /\ Goto(h, IF loc[h].sess = None THEN "dial" ELSE "persist")
    /\ UNCHANGED <<sessionVars, flowVars, closeVars, timer, expPc, reader,
                   sessions, count, listenerOpen, wire>>

Dial(h) ==
    /\ hpc[h] = "dial"
    /\ \E s \in Sids :
          /\ stage[s] = "unused"
          /\ sock' = [sock EXCEPT ![s] = "open"]
          /\ stage' = [stage EXCEPT ![s] = "dialed"]
          /\ skey' = [skey EXCEPT ![s] = loc[h].dg.peer]
          /\ loc' = [loc EXCEPT ![h].new = s]
    /\ Goto(h, "reserve")
    /\ UNCHANGED <<flowVars, closeVars, timer, expPc, reader, sessions, count,
                   listenerOpen, wire>>

DialFails(h) ==
    /\ hpc[h] = "dial"
    /\ Return(h)
    /\ UNCHANGED <<sessionVars, flowVars, closeVars, timer, expPc, reader,
                   sessions, count, listenerOpen, wire>>

-----------------------------------------------------------------------------
(* UDPSessionManager.Create, called by handleDatagram with the new socket. *)

(* The cap is read once, then taken with an atomic Add and checked again.  *)
Reserve(h) ==
    /\ hpc[h] = "reserve"
    /\ Goto(h, IF MaxSessions > 0 /\ count >= MaxSessions THEN "refuse"
                                                          ELSE "reserveAdd")
    /\ UNCHANGED <<loc, sessionVars, flowVars, closeVars, timer, expPc, reader,
                   sessions, count, listenerOpen, wire>>

(* Faulty form: the result of Add(1) is not checked against the cap.       *)
ReserveAdd_NoRecheck(h) ==
    /\ hpc[h] = "reserveAdd"
    /\ count' = count + 1
    /\ Goto(h, "newSession")
    /\ UNCHANGED <<loc, sessionVars, flowVars, closeVars, timer, expPc, reader,
                   sessions, listenerOpen, wire>>

ReserveAdd(h) ==
    /\ hpc[h] = "reserveAdd"
    /\ count' = count + 1
    /\ Goto(h, IF MaxSessions > 0 /\ count + 1 > MaxSessions THEN "unreserve"
                                                             ELSE "newSession")
    /\ UNCHANGED <<loc, sessionVars, flowVars, closeVars, timer, expPc, reader,
                   sessions, listenerOpen, wire>>

Unreserve(h) ==
    /\ hpc[h] = "unreserve"
    /\ count' = count - 1
    /\ Goto(h, "refuse")
    /\ UNCHANGED <<loc, sessionVars, flowVars, closeVars, timer, expPc, reader,
                   sessions, listenerOpen, wire>>

(* Faulty form: the dialed socket of a refused datagram is not closed.     *)
Refuse_Leaks(h) ==
    /\ hpc[h] = "refuse"
    /\ stage' = [stage EXCEPT ![loc[h].new] = "refused"]
    /\ Return(h)
    /\ UNCHANGED <<skey, sock, flowVars, closeVars, timer, expPc, reader, sessions,
                   count, listenerOpen, wire>>

(* Create failed: handleDatagram closes the socket and drops the datagram. *)
Refuse(h) ==
    /\ hpc[h] = "refuse"
    /\ sock' = [sock EXCEPT ![loc[h].new] = "closed"]
    /\ stage' = [stage EXCEPT ![loc[h].new] = "refused"]
    /\ Return(h)
    /\ UNCHANGED <<skey, flowVars, closeVars, timer, expPc, reader, sessions,
                   count, listenerOpen, wire>>

(* newSession arms the idle timer before the session is in the map.        *)
NewSession(h) ==
    /\ hpc[h] = "newSession"
    /\ timer' = [timer EXCEPT ![loc[h].new] = "armed"]
    /\ stage' = [stage EXCEPT ![loc[h].new] = "new"]
    /\ Goto(h, "store")
    /\ UNCHANGED <<loc, skey, sock, flowVars, closeVars, expPc, reader, sessions,
                   count, listenerOpen, wire>>

LoadOrStore(h) ==
    LET k == loc[h].dg.peer
        s == loc[h].new
    IN
    /\ hpc[h] = "store"
    /\ \/ /\ sessions[k] = None
          /\ sessions' = [sessions EXCEPT ![k] = s]
          /\ stage' = [stage EXCEPT ![s] = "stored"]
          /\ loc' = [loc EXCEPT ![h].sess = s]
          /\ Goto(h, "startReader")
       \/ /\ sessions[k] # None
          /\ loc' = [loc EXCEPT ![h].sess = sessions[k]]
          /\ Goto(h, "rollback")
          /\ UNCHANGED <<sessions, stage>>
    /\ UNCHANGED <<skey, sock, flowVars, closeVars, timer, expPc, reader, count,
                   listenerOpen, wire>>

StartReader(h) ==
    /\ hpc[h] = "startReader"
    /\ reader' = [reader EXCEPT ![loc[h].new] = "read"]
    /\ Goto(h, "created")
    /\ UNCHANGED <<loc, sessionVars, flowVars, closeVars, timer, expPc, sessions,
                   count, listenerOpen, wire>>

(* Faulty form: the loser of the race keeps its slot.                      *)
Rollback_KeepsSlot(h) ==
    /\ hpc[h] = "rollback"
    /\ Goto(h, "loseOnce")
    /\ UNCHANGED <<loc, sessionVars, flowVars, closeVars, timer, expPc, reader,
                   sessions, count, listenerOpen, wire>>

(* Lost the race: give the slot back, then dispose of the losing session   *)
(* under its once, without onExpire.                                       *)
Rollback(h) ==
    /\ hpc[h] = "rollback"
    /\ count' = count - 1
    /\ Goto(h, "loseOnce")
    /\ UNCHANGED <<loc, sessionVars, flowVars, closeVars, timer, expPc, reader,
                   sessions, listenerOpen, wire>>

(* Faulty form: the loser is disposed of by expire, onExpire included.     *)
LoseOnce_Expires(h) ==
    LET s == loc[h].new IN
    /\ hpc[h] = "loseOnce"
    /\ stage' = [stage EXCEPT ![s] = "lost"]
    /\ expPc' = IF Done(s) THEN expPc ELSE [expPc EXCEPT ![s] = "stop"]
    /\ Goto(h, "loseWait")
    /\ UNCHANGED <<loc, skey, sock, flowVars, closeVars, timer, reader, sessions,
                   count, listenerOpen, wire>>

LoseOnce(h) ==
    LET s == loc[h].new IN
    /\ hpc[h] = "loseOnce"
    /\ stage' = [stage EXCEPT ![s] = "lost"]
    /\ expPc' = IF Done(s) THEN expPc ELSE [expPc EXCEPT ![s] = "lostStop"]
    /\ Goto(h, "loseWait")
    /\ UNCHANGED <<loc, skey, sock, flowVars, closeVars, timer, reader, sessions,
                   count, listenerOpen, wire>>

LoseWait(h) ==
    /\ hpc[h] = "loseWait" /\ expPc[loc[h].new] = "finished"
    /\ Goto(h, "created")
    /\ UNCHANGED <<loc, sessionVars, flowVars, closeVars, timer, expPc, reader,
                   sessions, count, listenerOpen, wire>>

(* Create returned a session that may already be done.                     *)
Created(h) ==
    /\ hpc[h] = "created"
    /\ \/ /\ Done(loc[h].sess)
          /\ Return(h)
       \/ /\ ~Done(loc[h].sess)
          /\ Goto(h, "persist")
          /\ UNCHANGED loc
    /\ UNCHANGED <<sessionVars, flowVars, closeVars, timer, expPc, reader,
                   sessions, count, listenerOpen, wire>>

-----------------------------------------------------------------------------
(* The rest of handleDatagram, on the session looked up or created.        *)

(* Faulty form: every declared source overwrites the remembered one.       *)
Persist_Overwrites(h) ==
    /\ hpc[h] = "persist"
    /\ Goto(h, IF loc[h].src # "direct" THEN "storeSource" ELSE "encode")
    /\ UNCHANGED <<loc, sessionVars, flowVars, closeVars, timer, expPc, reader,
                   sessions, count, listenerOpen, wire>>

Persist(h) ==
    /\ hpc[h] = "persist"
    /\ Goto(h, IF loc[h].src # "direct" /\ inputSource[loc[h].sess] = None
               THEN "storeSource" ELSE "encode")
    /\ UNCHANGED <<loc, sessionVars, flowVars, closeVars, timer, expPc, reader,
                   sessions, count, listenerOpen, wire>>

StoreSource(h) ==
    /\ hpc[h] = "storeSource"
    /\ inputSource' = [inputSource EXCEPT ![loc[h].sess] = loc[h].hdr]
    /\ Goto(h, "storeKind")
    /\ UNCHANGED <<loc, sessionVars, inputSrcKind, headerSent, closeVars, timer,
                   expPc, reader, sessions, count, listenerOpen, wire>>

StoreKind(h) ==
    /\ hpc[h] = "storeKind"
    /\ inputSrcKind' = [inputSrcKind EXCEPT ![loc[h].sess] = loc[h].src]
    /\ Goto(h, "encode")
    /\ UNCHANGED <<loc, sessionVars, inputSource, headerSent, closeVars, timer,
                   expPc, reader, sessions, count, listenerOpen, wire>>

(* Faulty form: headerSent is loaded, never swapped.                       *)
Encode_NoSwap(h) ==
    LET withHeader == OutputMode = "every" \/ ~headerSent[loc[h].sess] IN
    /\ hpc[h] = "encode"
    /\ loc' = IF withHeader THEN [loc EXCEPT ![h].enc = loc[h].hdr] ELSE loc
    /\ Goto(h, "write")
    /\ UNCHANGED <<sessionVars, flowVars, closeVars, timer, expPc, reader, sessions,
                   count, listenerOpen, wire>>

(* A header is formatted for every datagram, or for the one that swaps     *)
(* headerSent; the others go out raw (enc = None).                         *)
Encode(h) ==
    LET s == loc[h].sess
        withHeader == OutputMode = "every" \/ ~headerSent[s]
    IN
    /\ hpc[h] = "encode"
    /\ headerSent' = IF OutputMode = "first" THEN [headerSent EXCEPT ![s] = TRUE]
                                             ELSE headerSent
    /\ \/ /\ withHeader /\ loc[h].hdr \in Unencodable
          /\ Return(h)
       \/ /\ withHeader /\ loc[h].hdr \notin Unencodable
          /\ loc' = [loc EXCEPT ![h].enc = loc[h].hdr]
          /\ Goto(h, "write")
       \/ /\ ~withHeader
          /\ Goto(h, "write")
          /\ UNCHANGED loc
    /\ UNCHANGED <<sessionVars, inputSource, inputSrcKind, closeVars, timer, expPc,
                   reader, sessions, count, listenerOpen, wire>>

(* upstream.Write: an error, which a closed socket always gives, is logged *)
(* and otherwise ignored.                                                  *)
Write(h) ==
    LET s == loc[h].sess IN
    /\ hpc[h] = "write" /\ sock[s] = "open"
    /\ wire' = IF OutputMode = "first" THEN [wire EXCEPT ![s] = TRUE] ELSE wire
    /\ Goto(h, "refresh")
    /\ UNCHANGED <<loc, sessionVars, flowVars, closeVars, timer, expPc, reader,
                   sessions, count, listenerOpen>>

WriteFails(h) ==
    /\ hpc[h] = "write"
    /\ Goto(h, "refresh")
    /\ UNCHANGED <<loc, sessionVars, flowVars, closeVars, timer, expPc, reader,
                   sessions, count, listenerOpen, wire>>

(* Faulty form: the select on done has no default branch and blocks.       *)
Refresh_Blocks(h) ==
    /\ hpc[h] = "refresh" /\ Done(loc[h].sess)
    /\ Return(h)
    /\ UNCHANGED <<sessionVars, flowVars, closeVars, timer, expPc, reader,
                   sessions, count, listenerOpen, wire>>

(* refresh: look at done, then Reset the timer.                            *)
Refresh(h) ==
    /\ hpc[h] = "refresh"
    /\ \/ /\ Done(loc[h].sess)
          /\ Return(h)
       \/ /\ ~Done(loc[h].sess)
          /\ Goto(h, "reset")
          /\ UNCHANGED loc
    /\ UNCHANGED <<sessionVars, flowVars, closeVars, timer, expPc, reader,
                   sessions, count, listenerOpen, wire>>

(* Faulty form: the timer is stopped and not started again.                *)
ResetTimer_Stops(h) ==
    /\ hpc[h] = "reset"
    /\ timer' = [timer EXCEPT ![loc[h].sess] = "off"]
    /\ Return(h)
    /\ UNCHANGED <<sessionVars, flowVars, closeVars, expPc, reader, sessions,
                   count, listenerOpen, wire>>

ResetTimer(h) ==
    /\ hpc[h] = "reset"
    /\ timer' = [timer EXCEPT ![loc[h].sess] = "armed"]
    /\ Return(h)
    /\ UNCHANGED <<sessionVars, flowVars, closeVars, expPc, reader, sessions,
                   count, listenerOpen, wire>>

-----------------------------------------------------------------------------
(* The idle timer and the block expire runs under sync.Once.               *)

Claim(s) == expPc' = IF Done(s) THEN expPc ELSE [expPc EXCEPT ![s] = "stop"]

TimerFires(s) ==
    /\ timer[s] = "armed"
    /\ TimerMayBeatStore \/ stage[s] # "new"
    /\ timer' = [timer EXCEPT ![s] = "off"]
    /\ Claim(s)
    /\ UNCHANGED <<handlerVars, sessionVars, flowVars, closeVars, reader, sessions,
                   count, listenerOpen, wire>>

ExpireGoto(s, from, to) == expPc[s] = from /\ expPc' = [expPc EXCEPT ![s] = to]

StopTimer(s) ==
    /\ ExpireGoto(s, "stop", "clearSource") \/ ExpireGoto(s, "lostStop", "lostClose")
    /\ timer' = [timer EXCEPT ![s] = "off"]
    /\ UNCHANGED <<handlerVars, sessionVars, flowVars, closeVars, reader, sessions,
                   count, listenerOpen, wire>>

ClearSource(s) ==
    /\ ExpireGoto(s, "clearSource", "clearKind")
    /\ inputSource' = [inputSource EXCEPT ![s] = None]
    /\ UNCHANGED <<handlerVars, sessionVars, inputSrcKind, headerSent, closeVars,
                   timer, reader, sessions, count, listenerOpen, wire>>

ClearKind(s) ==
    /\ ExpireGoto(s, "clearKind", "close")
    /\ inputSrcKind' = [inputSrcKind EXCEPT ![s] = None]
    /\ UNCHANGED <<handlerVars, sessionVars, inputSource, headerSent, closeVars,
                   timer, reader, sessions, count, listenerOpen, wire>>

(* Faulty form: the upstream socket stays open.                            *)
CloseSocket_LeavesOpen(s) ==
    /\ ExpireGoto(s, "close", "delete") \/ ExpireGoto(s, "lostClose", "finished")
    /\ UNCHANGED <<handlerVars, sessionVars, flowVars, closeVars, timer, reader,
                   sessions, count, listenerOpen, wire>>

CloseSocket(s) ==
    /\ ExpireGoto(s, "close", "delete") \/ ExpireGoto(s, "lostClose", "finished")
    /\ sock' = [sock EXCEPT ![s] = "closed"]
    /\ UNCHANGED <<handlerVars, skey, stage, flowVars, closeVars, timer, reader,
                   sessions, count, listenerOpen, wire>>

(* Faulty form: the session stays in the map.                              *)
DeleteKey_Forgets(s) ==
    /\ ExpireGoto(s, "delete", "uncount")
    /\ UNCHANGED <<handlerVars, sessionVars, flowVars, closeVars, timer, reader,
                   sessions, count, listenerOpen, wire>>

(* remove deletes whatever the map holds under the key, then counts down.  *)
DeleteKey(s) ==
    /\ ExpireGoto(s, "delete", "uncount")
    /\ sessions' = [sessions EXCEPT ![skey[s]] = None]
    /\ UNCHANGED <<handlerVars, sessionVars, flowVars, closeVars, timer, reader,
                   count, listenerOpen, wire>>

Uncount(s) ==
    /\ ExpireGoto(s, "uncount", "finished")
    /\ count' = count - 1
    /\ UNCHANGED <<handlerVars, sessionVars, flowVars, closeVars, timer, reader,
                   sessions, listenerOpen, wire>>

-----------------------------------------------------------------------------
(* readLoop.  Read and the look at done that follows it are one step: a    *)
(* closed socket means a closed done channel.                              *)

ReaderGoto(s, from, to) == reader[s] = from /\ reader' = [reader EXCEPT ![s] = to]

ReadResponse(s) ==
    /\ s \in Answering /\ sock[s] = "open"
    /\ ReaderGoto(s, "read", IF Done(s) THEN "exited" ELSE "forward")
    /\ UNCHANGED <<handlerVars, sessionVars, flowVars, closeVars, timer, expPc,
                   sessions, count, listenerOpen, wire>>

(* The socket was closed, or the downstream's host refused a datagram.     *)
ReadError(s) ==
    /\ s \in Answering \/ sock[s] = "closed"
    /\ ReaderGoto(s, "read", IF Done(s) THEN "exited" ELSE "expire")
    /\ UNCHANGED <<handlerVars, sessionVars, flowVars, closeVars, timer, expPc,
                   sessions, count, listenerOpen, wire>>

ReaderExpires(s) ==
    /\ ReaderGoto(s, "expire", "expiring")
    /\ Claim(s)
    /\ UNCHANGED <<handlerVars, sessionVars, flowVars, closeVars, timer, sessions,
                   count, listenerOpen, wire>>

ReaderExits(s) ==
    /\ expPc[s] = "finished"
    /\ ReaderGoto(s, "expiring", "exited")
    /\ UNCHANGED <<handlerVars, sessionVars, flowVars, closeVars, timer, expPc,
                   sessions, count, listenerOpen, wire>>

(* WriteToUDP to the client; its error is ignored.                         *)
Forward(s) ==
    /\ ReaderGoto(s, "forward", "refresh")
    /\ UNCHANGED <<handlerVars, sessionVars, flowVars, closeVars, timer, expPc,
                   sessions, count, listenerOpen, wire>>

ReaderRefresh(s) ==
    /\ ReaderGoto(s, "refresh", IF Done(s) THEN "read" ELSE "reset")
    /\ UNCHANGED <<handlerVars, sessionVars, flowVars, closeVars, timer, expPc,
                   sessions, count, listenerOpen, wire>>

ReaderReset(s) ==
    /\ ReaderGoto(s, "reset", "read")
    /\ timer' = [timer EXCEPT ![s] = "armed"]
    /\ UNCHANGED <<handlerVars, sessionVars, flowVars, closeVars, expPc, sessions,
                   count, listenerOpen, wire>>

-----------------------------------------------------------------------------
(* Close: the listener first, then ExpireAll over the map (sync.Map.Range: *)
(* each key once, in any order, as it is when its turn comes), then        *)
(* wg.Wait.                                                                *)

CloseListener ==
    /\ CloseCalled
    /\ closePc = "open" /\ closePc' = "range"
    /\ listenerOpen' = FALSE
    /\ toVisit' = Clients
    /\ UNCHANGED <<handlerVars, sessionVars, flowVars, target, timer, expPc, reader,
                   sessions, count, wire>>

RangeVisit(k) ==
    /\ closePc = "range" /\ k \in toVisit
    /\ toVisit' = toVisit \ {k}
    /\ target' = sessions[k]
    /\ closePc' = IF sessions[k] = None THEN "range" ELSE "expire"
    /\ UNCHANGED <<handlerVars, sessionVars, flowVars, timer, expPc, reader,
                   sessions, count, listenerOpen, wire>>

CloserExpires ==
    /\ closePc = "expire" /\ closePc' = "await"
    /\ Claim(target)
    /\ UNCHANGED <<handlerVars, sessionVars, flowVars, toVisit, target, timer,
                   reader, sessions, count, listenerOpen, wire>>

(* Once.Do returns when the block is over, whoever ran it.                 *)
CloserResumes ==
    /\ closePc = "await" /\ expPc[target] = "finished"
    /\ closePc' = "range" /\ target' = None
    /\ UNCHANGED <<handlerVars, sessionVars, flowVars, toVisit, timer, expPc,
                   reader, sessions, count, listenerOpen, wire>>

RangeEnds ==
    /\ closePc = "range" /\ toVisit = {} /\ closePc' = "wait"
    /\ UNCHANGED <<handlerVars, sessionVars, flowVars, toVisit, target, timer, expPc,
                   reader, sessions, count, listenerOpen, wire>>

(* Faulty form: ExpireAll returns after Range, without wg.Wait.            *)
WaitGroupDone_NoWait ==
    /\ closePc = "wait" /\ closePc' = "closed"
    /\ UNCHANGED <<handlerVars, sessionVars, flowVars, toVisit, target, timer, expPc,
                   reader, sessions, count, listenerOpen, wire>>

WaitGroupDone ==
    /\ closePc = "wait" /\ \A s \in Sids : ~ReaderLive(s)
    /\ closePc' = "closed"
    /\ UNCHANGED <<handlerVars, sessionVars, flowVars, toVisit, target, timer, expPc,
                   reader, sessions, count, listenerOpen, wire>>

-----------------------------------------------------------------------------
CreateStep(h) ==
    \/ Dial(h) \/ DialFails(h) \/ Reserve(h) \/ ReserveAdd(h) \/ Unreserve(h)
    \/ Refuse(h) \/ NewSession(h) \/ LoadOrStore(h) \/ StartReader(h)
    \/ Rollback(h) \/ LoseOnce(h) \/ LoseWait(h) \/ Created(h)

DatagramStep(h) ==
    \/ Lookup(h) \/ CheckDone(h) \/ Recover(h) \/ RecoverKind(h)
    \/ DecideDatagram(h) \/ Persist(h) \/ StoreSource(h) \/ StoreKind(h)
    \/ Encode(h) \/ Write(h) \/ WriteFails(h) \/ Refresh(h) \/ ResetTimer(h)

HandlerStep(h) == CreateStep(h) \/ DatagramStep(h)

ExpireStep(s) ==
    \/ StopTimer(s) \/ ClearSource(s) \/ ClearKind(s) \/ CloseSocket(s)
    \/ DeleteKey(s) \/ Uncount(s)

ReaderStep(s) ==
    \/ ReaderExpires(s) \/ ReaderExits(s) \/ Forward(s)
    \/ ReaderRefresh(s) \/ ReaderReset(s)

CloseStep ==
    \/ \E k \in Clients : RangeVisit(k)
    \/ CloserExpires \/ CloserResumes \/ RangeEnds \/ WaitGroupDone

(* Serve has returned and no Close is under way: the program may be over.  *)
Stopped ==
    /\ closePc \in {"open", "closed"} /\ \A h \in Handlers : hpc[h] = "returned"
    /\ UNCHANGED vars

Next ==
    \/ \E h \in Handlers :
          Receive(h) \/ ServeReturns(h) \/ ServeFails(h) \/ HandlerStep(h)
    \/ \E s \in Sids :
          TimerFires(s) \/ ExpireStep(s) \/ ReadResponse(s) \/ ReadError(s)
          \/ ReaderStep(s)
    \/ CloseListener \/ CloseStep
    \/ Stopped

Spec == Init /\ [][Next]_vars

(* Every goroutine that can run does run.  Nobody owes the gateway a       *)
(* datagram, a response, a read error on an open socket or a call of       *)
(* Close.  An armed timer fires or is Reset: it need not fire while        *)
(* traffic keeps resetting it.                                             *)
Resets(s) ==
    ReaderReset(s) \/ \E h \in Handlers : loc[h].sess = s /\ ResetTimer(h)

Fairness ==
    /\ \A h \in Handlers : WF_vars(HandlerStep(h)) /\ WF_vars(ServeReturns(h))
    /\ \A s \in Sids :
          /\ WF_vars(ExpireStep(s)) /\ WF_vars(ReaderStep(s))
          /\ WF_vars(sock[s] = "closed" /\ ReadError(s))
          /\ WF_vars(TimerFires(s) \/ Resets(s))
    /\ WF_vars(CloseStep)

FairSpec == Spec /\ Fairness

-----------------------------------------------------------------------------
(* Safety.                                                                 *)

(* The sessions the manager must be able to find: stored, and not yet      *)
(* deleted by their expire block.                                          *)
InMap(s) == stage[s] = "stored" /\ expPc[s] \notin {"uncount", "finished"}

(* The map and the sessions agree: every session that is stored and not    *)
(* yet removed is the one its key finds, and what a key finds is such a    *)
(* session.  No session is shadowed, none outlives its removal in the map  *)
(* (remove deletes by key, LoadOrStore stores by key).                     *)
MapConsistent ==
    /\ \A s \in Sids : InMap(s) => sessions[skey[s]] = s
    /\ \A k \in Clients : sessions[k] # None => InMap(sessions[k]) /\ skey[sessions[k]] = k

(* The sessions that hold one of the MaxSessions slots for good: being     *)
(* created, after an Add(1) that stayed under the cap and before a lost    *)
(* race gives it back, or stored and not yet counted down.                 *)
FirmSlot(s) ==
    \/ \E h \in Handlers : loc[h].new = s /\ hpc[h] \in {"newSession", "store", "rollback"}
    \/ stage[s] = "stored" /\ expPc[s] # "finished"

(* An Add(1) that went over the cap counts until it is rolled back.        *)
HoldsSlot(s) ==
    FirmSlot(s) \/ \E h \in Handlers : loc[h].new = s /\ hpc[h] = "unreserve"

(* The counter never drifts: count is the number of slots held, through    *)
(* rollbacks, lost races and expiries in any order.                        *)
CountExact == count = Cardinality({s \in Sids : HoldsSlot(s)})

(* udp.max-sessions bounds the sessions that are in the map or still       *)
(* expiring, whatever the interleaving of Create, rollback and expire.     *)
CapRespected ==
    MaxSessions > 0 =>
        Cardinality({s \in Sids : stage[s] = "stored" /\ expPc[s] # "finished"})
            <= MaxSessions

(* The slots are a bounded pool: Create acquires one, a lost race or the   *)
(* end of expire releases it.                                              *)
Pool == INSTANCE BoundedPool WITH
    Items <- Sids, Capacity <- MaxSessions, holders <- {s \in Sids : FirmSlot(s)}
ImplementsPool == Pool!Spec

(* No upstream socket leaks: an open one belongs to a session that holds a *)
(* slot and has not closed it yet, or to a handler inside Create.  So at   *)
(* most MaxSessions + Cardinality(Handlers) are open at once.              *)
SocketsAccounted ==
    \A s \in Sids : sock[s] = "open" =>
        \/ stage[s] = "stored" /\ expPc[s] \notin {"delete", "uncount", "finished"}
        \/ \E h \in Handlers : loc[h].new = s /\ hpc[h] \in CreatingPcs

(* Untrusted metadata never becomes session state: a remembered source was *)
(* declared by a peer that may declare one, under a policy that admits it. *)
InputSourceTrusted ==
    \A s \in Sids : inputSource[s] # None =>
        /\ inputSource[s] \in Declared
        /\ IsTrusted(TrustedNets, skey[s]) /\ Policy # "reject"

(* While a session remembers the source its client declared and is not     *)
(* expiring, no datagram is attributed to the peer's own address, be its   *)
(* header sent or (first_datagram) not.                                    *)
NoForgottenSource ==
    \A h \in Handlers :
        LET s == loc[h].sess IN
        hpc[h] \in {"encode", "write"} /\ loc[h].hdr = loc[h].dg.peer
            => inputSource[s] = None \/ Done(s)

(* The sessions of one Serve loop are a flow table: a client whose session *)
(* is stored and not done has a flow, its source is what the session       *)
(* remembers.  A declared source is learned once, from a client that may   *)
(* declare one, and holds until the session expires, however expire's      *)
(* steps fall between those of handleDatagram.                             *)
Flow(k) ==
    IF sessions[k] = None \/ Done(sessions[k]) THEN "absent"
    ELSE IF inputSource[sessions[k]] = None THEN "fresh"
    ELSE inputSource[sessions[k]]

Flows == INSTANCE FlowTable WITH
    MayDeclare <- {k \in Clients : IsTrusted(TrustedNets, k) /\ Policy # "reject"},
    Absent <- "absent", Fresh <- "fresh", flow <- [k \in Clients |-> Flow(k)]
ImplementsFlowTable == Flows!Spec

(* With udp-header-mode first_datagram only the first datagram a socket    *)
(* carries may hold a header, whatever failed before it.                   *)
HeaderOnlyFirst ==
    OutputMode = "first" =>
        \A h \in Handlers : hpc[h] = "write" /\ loc[h].enc # None
                                => ~wire[loc[h].sess]

(* manager.go:96 says that ExpireAll expires all sessions and waits for    *)
(* all readers.  Not quite: the datagram that is being handled when the    *)
(* listener closes may store its session after Range has passed the key    *)
(* and start its reader after wg.Wait has returned.  But that one is all   *)
(* that a Close leaves of one Serve loop: of every other session, however  *)
(* it was expiring, the socket is closed and the reader gone.              *)
LeftOpen(s) == sock[s] = "open" \/ ReaderLive(s)
CloseLeavesOneAtMost ==
    closePc = "closed" => \A s, t \in Sids : LeftOpen(s) /\ LeftOpen(t) => s = t

-----------------------------------------------------------------------------
(* Liveness, under FairSpec.                                               *)

(* A session that began to expire, for whatever reason and whoever holds   *)
(* its once, ends for good: its block finished, its reader gone, its       *)
(* socket closed, its key free or taken by another session.                *)
ExpiryCompletes ==
    \A s \in Sids :
        Done(s) ~> [](/\ expPc[s] = "finished" /\ sock[s] = "closed"
                      /\ ~ReaderLive(s) /\ \A k \in Clients : sessions[k] # s)

(* A session nobody refreshes any more is reclaimed.                       *)
IdleReclaimed ==
    \A s \in Sids : (stage[s] = "stored" ~> expPc[s] = "finished") \/ []<><<Resets(s)>>_vars

(* Closing the listener ends the Serve loop: no datagram it is handling    *)
(* wedges it, on whatever once block or rollback it waits.                 *)
ServeStops ==
    \A h \in Handlers : ~listenerOpen ~> hpc[h] = "returned"

(* Close returns, unless some session that its Range missed is refreshed   *)
(* for ever by its own downstream.                                         *)
CloseReturns ==
    (closePc = "range" ~> closePc = "closed")
        \/ \E s \in Sids : []<><<ReaderReset(s)>>_vars

-----------------------------------------------------------------------------
(* What the repository says of the gateway and its code does not keep.     *)

(* internal/udp/gateway.go:249, of a done session that Create returned:    *)
(* "its map entry is pending deletion".                                    *)
DoneEntryPendingDeletion ==
    \A k \in Clients :
        sessions[k] # None /\ Done(sessions[k])
            => expPc[sessions[k]] \in ExpireSteps \ {"uncount"}

=============================================================================
