----------------------------- MODULE TcpGateway -----------------------------
(***************************************************************************)
(* The TCP gateway of internal/gateway: the accept loop with its           *)
(* connection cap (Serve), the handler of one connection (handle: header   *)
(* detection, decision, family guard, dial, header, pipe) and the two      *)
(* copying goroutines of pipeStream.                                       *)
(*                                                                         *)
(* The goroutines are the Serve loop, one handler per connection and its   *)
(* two pipe halves.  What the client and the downstream send, read, close  *)
(* or withhold is the environment's choice.  Time is abstracted: a read    *)
(* deadline may pass at any moment of a read that has one.                 *)
(***************************************************************************)
EXTENDS ProxyDecision, ProxyHeader, Integers, FiniteSets

CONSTANTS
    Conns,          \* the connections clients open, each with its peer address
    None,
    MaxConns,       \* tcp.max-connections; <= 0 disables the cap
    DetectTimeout, IdleTimeout,   \* TRUE: the timeout is configured (> 0)
    Policy, TrustedNets, Untrusted,
    MixedFamily,    \* tcp.family-mismatch
    WireHeaders,    \* the address pairs a client's header may carry
    LocalForm       \* the form of the addresses of the accepted sockets

ASSUME ModeAssumption ==
    /\ Policy \in Policies /\ Untrusted \in UntrustedActions
    /\ MixedFamily \in {"reject", "unknown", "legacy"}
    /\ DetectTimeout \in BOOLEAN /\ IdleTimeout \in BOOLEAN /\ MaxConns \in Int
    /\ WireHeaders \subseteq Forms \X Forms /\ LocalForm \in Forms \ {"nil"}
ASSUME ConnsAssumption == IsFiniteSet(Conns) /\ None \notin Conns \cup {"family"}

VARIABLES
    servePc, inHand,    \* the Serve loop and the connection it has accepted
    listenerOpen,
    active,             \* the counter of the cap
    stage,              \* per connection: where its handler is
    src, hdr,           \* what handle knows of its origin
    upstream,           \* its downstream socket
    half,               \* its two pipe goroutines
    closedBy            \* history: why the handler gave up before the pipe

serveVars == <<servePc, inHand, listenerOpen>>
connVars  == <<src, hdr, closedBy>>
vars == <<serveVars, connVars, active, stage, upstream, half>>

Directions == {"toUpstream", "toClient"}
Stages == {"waiting", "accepted", "refused", "detect", "decide", "dial", "header",
           "pipe", "hangup", "release", "gone"}
HalfStates == {"none", "read", "write", "closeWrite", "done"}

TypeOK ==
    /\ servePc \in {"accept", "count", "over", "returned"}
    /\ inHand \in Conns \cup {None}
    /\ listenerOpen \in BOOLEAN
    /\ active \in Int
    /\ stage \in [Conns -> Stages]
    /\ src \in [Conns -> Sources]
    /\ hdr \in [Conns -> HeaderSet]
    /\ upstream \in [Conns -> {"none", "open", "closed"}]
    /\ half \in [Conns -> [Directions -> HalfStates]]
    /\ closedBy \in [Conns -> {None, "malformed", "untrusted", "policy:forbids",
                               "policy:requires", "family", "dial", "write"}]

Init ==
    /\ servePc = "accept" /\ inHand = None /\ listenerOpen = TRUE
    /\ active = 0
    /\ stage = [c \in Conns |-> "waiting"]
    /\ src = [c \in Conns |-> "direct"]
    /\ hdr = [c \in Conns |-> Unspec]
    /\ upstream = [c \in Conns |-> "none"]
    /\ half = [c \in Conns |-> [d \in Directions |-> "none"]]
    /\ closedBy = [c \in Conns |-> None]

-----------------------------------------------------------------------------
(* Serve.                                                                  *)

Accept(c) ==
    /\ servePc = "accept" /\ listenerOpen /\ stage[c] = "waiting"
    /\ servePc' = "count" /\ inHand' = c
    /\ stage' = [stage EXCEPT ![c] = "accepted"]
    /\ UNCHANGED <<listenerOpen, connVars, active, upstream, half>>

(* Faulty form: the old value is compared, one connection too many.        *)
CountAndSpawn_OffByOne ==
    /\ servePc = "count"
    /\ active' = IF MaxConns > 0 THEN active + 1 ELSE active
    /\ \/ /\ MaxConns > 0 /\ active > MaxConns
          /\ servePc' = "over"
          /\ UNCHANGED <<stage, inHand>>
       \/ /\ ~(MaxConns > 0 /\ active > MaxConns)
          /\ servePc' = "accept" /\ inHand' = None
          /\ stage' = [stage EXCEPT ![inHand] = "detect"]
    /\ UNCHANGED <<listenerOpen, connVars, upstream, half>>

(* The slot is taken before the handler goroutine is spawned; without a    *)
(* cap nothing is counted here.                                            *)
CountAndSpawn ==
    /\ servePc = "count"
    /\ active' = IF MaxConns > 0 THEN active + 1 ELSE active
    /\ \/ /\ MaxConns > 0 /\ active + 1 > MaxConns
          /\ servePc' = "over"
          /\ UNCHANGED <<stage, inHand>>
       \/ /\ ~(MaxConns > 0 /\ active + 1 > MaxConns)
          /\ servePc' = "accept" /\ inHand' = None
          /\ stage' = [stage EXCEPT ![inHand] = "detect"]
    /\ UNCHANGED <<listenerOpen, connVars, upstream, half>>

RefuseOverLimit ==
    /\ servePc = "over"
    /\ active' = active - 1
    /\ stage' = [stage EXCEPT ![inHand] = "refused"]
    /\ servePc' = "accept" /\ inHand' = None
    /\ UNCHANGED <<listenerOpen, connVars, upstream, half>>

(* Faulty form: a closed listener is taken for a transient error.          *)
ServeReturns_Retries ==
    /\ servePc = "accept" /\ listenerOpen
    /\ servePc' = "returned"
    /\ UNCHANGED <<inHand, listenerOpen, connVars, active, stage, upstream, half>>

(* Accept fails for good: nil on a closed listener, else the error.        *)
(* (Transient errors go round the loop and touch nothing.)                 *)
ServeReturns ==
    /\ servePc = "accept"
    /\ servePc' = "returned"
    /\ UNCHANGED <<inHand, listenerOpen, connVars, active, stage, upstream, half>>

(* The closer runGateway returns for TCP closes the listener, nothing else. *)
CloseListener ==
    /\ listenerOpen /\ listenerOpen' = FALSE
    /\ UNCHANGED <<servePc, inHand, connVars, active, stage, upstream, half>>

-----------------------------------------------------------------------------
(* handle.                                                                 *)

HandlerGoto(c, from, to) == stage[c] = from /\ stage' = [stage EXCEPT ![c] = to]

HangUpBecause(c, from, why) ==
    HandlerGoto(c, from, "hangup") /\ closedBy' = [closedBy EXCEPT ![c] = why]

(* The reader finds a complete header ...                                  *)
DetectHeader(c) ==
    /\ HandlerGoto(c, "detect", "decide")
    /\ \E addrs \in WireHeaders, version \in {"v1", "v2"} :
          /\ src' = [src EXCEPT ![c] = version]
          /\ hdr' = [hdr EXCEPT ![c] = ReadHeader(addrs[1], addrs[2])]
    /\ UNCHANGED <<serveVars, active, upstream, half, closedBy>>

(* ... or no signature, or the end of the stream ...                       *)
DetectDirect(c) ==
    /\ HandlerGoto(c, "detect", "decide")
    /\ UNCHANGED <<serveVars, connVars, active, upstream, half>>

(* ... or the detection deadline passes first, which counts as direct ...  *)
DetectTimesOut(c) ==
    /\ DetectTimeout
    /\ HandlerGoto(c, "detect", "decide")
    /\ UNCHANGED <<serveVars, connVars, active, upstream, half>>

(* ... or a signature whose header does not parse, or a read error.        *)
DetectMalformed(c) ==
    /\ HangUpBecause(c, "detect", "malformed")
    /\ UNCHANGED <<serveVars, src, hdr, active, upstream, half>>

(* Both ends of an accepted socket have one family.                        *)
ConnHeader == HeaderFromAddrs("tcp", LocalForm, "tcp", LocalForm)

Verdict(c) == Decide(Policy, TrustedNets, Untrusted, src[c], hdr[c], c, ConnHeader)

(* Faulty form: the sense of the verdict is turned round.                  *)
Denies_Inverted(c) ==
    /\ Verdict(c).allow
    /\ HangUpBecause(c, "decide", Verdict(c).reason)
    /\ UNCHANGED <<serveVars, src, hdr, active, upstream, half>>

Denies(c) ==
    /\ ~Verdict(c).allow
    /\ HangUpBecause(c, "decide", Verdict(c).reason)
    /\ UNCHANGED <<serveVars, src, hdr, active, upstream, half>>

(* The family guard looks at the header as the downstream would see it.    *)
Mismatched(h) == MixedFamily # "legacy" /\ ~FamilyMatchesAddrs(h)

(* Faulty form: it looks at the header as it came in, before the decision. *)
GuardRejects_First(c) ==
    /\ src[c] # "direct" /\ Mismatched(hdr[c]) /\ MixedFamily = "reject"
    /\ HangUpBecause(c, "decide", "family")
    /\ UNCHANGED <<serveVars, src, hdr, active, upstream, half>>

GuardRejects(c) ==
    /\ Verdict(c).allow /\ Mismatched(Verdict(c).hdr) /\ MixedFamily = "reject"
    /\ src' = [src EXCEPT ![c] = Verdict(c).src]
    /\ HangUpBecause(c, "decide", "family")
    /\ UNCHANGED <<serveVars, hdr, active, upstream, half>>

(* Faulty form: no family guard before the dial.                           *)
Admits_Unguarded(c) ==
    LET v == Verdict(c) IN
    /\ v.allow
    /\ src' = [src EXCEPT ![c] = v.src]
    /\ hdr' = [hdr EXCEPT ![c] = v.hdr]
    /\ HandlerGoto(c, "decide", "dial")
    /\ UNCHANGED <<serveVars, active, upstream, half, closedBy>>

Admits(c) ==
    LET v == Verdict(c) IN
    /\ v.allow /\ (Mismatched(v.hdr) => MixedFamily = "unknown")
    /\ src' = [src EXCEPT ![c] = v.src]
    /\ hdr' = [hdr EXCEPT ![c] = IF Mismatched(v.hdr) THEN Unspec ELSE v.hdr]
    /\ HandlerGoto(c, "decide", "dial")
    /\ UNCHANGED <<serveVars, active, upstream, half, closedBy>>

DialUpstream(c) ==
    /\ HandlerGoto(c, "dial", "header")
    /\ upstream' = [upstream EXCEPT ![c] = "open"]
    /\ UNCHANGED <<serveVars, connVars, active, half>>

DialFails(c) ==
    /\ HangUpBecause(c, "dial", "dial")
    /\ UNCHANGED <<serveVars, src, hdr, active, upstream, half>>

(* The header is on the wire: pipeStream starts both directions.           *)
WriteHeader(c) ==
    /\ HandlerGoto(c, "header", "pipe")
    /\ half' = [half EXCEPT ![c] = [d \in Directions |-> "read"]]
    /\ UNCHANGED <<serveVars, connVars, active, upstream>>

WriteHeaderFails(c) ==
    /\ HangUpBecause(c, "header", "write")
    /\ UNCHANGED <<serveVars, src, hdr, active, upstream, half>>

(* wg.Wait returns when both directions are done.                          *)
PipeEnds(c) ==
    /\ \A d \in Directions : half[c][d] = "done"
    /\ HandlerGoto(c, "pipe", "hangup")
    /\ UNCHANGED <<serveVars, connVars, active, upstream, half>>

(* The deferred closes of handle: the downstream, if dialed, and the client. *)
HangUp(c) ==
    /\ HandlerGoto(c, "hangup", "release")
    /\ upstream' = [upstream EXCEPT ![c] = IF @ = "open" THEN "closed" ELSE @]
    /\ UNCHANGED <<serveVars, connVars, active, half>>

(* Faulty form: the deferred Add(-1) is missing.                           *)
Release_KeepsSlot(c) ==
    /\ HandlerGoto(c, "release", "gone")
    /\ UNCHANGED <<serveVars, connVars, active, upstream, half>>

(* The deferred Add(-1) of the goroutine, with or without a cap.           *)
Release(c) ==
    /\ HandlerGoto(c, "release", "gone")
    /\ active' = active - 1
    /\ UNCHANGED <<serveVars, connVars, upstream, half>>

-----------------------------------------------------------------------------
(* pipeStream: one io.Copy per direction.                                  *)

HalfGoto(c, d, from, to) ==
    /\ stage[c] = "pipe" /\ half[c][d] = from
    /\ half' = [half EXCEPT ![c][d] = to]
    /\ UNCHANGED <<serveVars, connVars, active, stage, upstream>>

ReadData(c, d) == HalfGoto(c, d, "read", "write")

(* The sender closed its side or the connection broke.                     *)
ReadEnds(c, d) == HalfGoto(c, d, "read", "closeWrite")

(* Faulty form: only the client's end gets a deadline.                     *)
HasDeadline_ClientOnly(d) == IdleTimeout /\ d = "toUpstream"

(* Each direction has a deadlineReader of its own, which sets the deadline *)
(* before each Read.                                                       *)
HasDeadline(d) == IdleTimeout

ReadTimesOut(c, d) == HasDeadline(d) /\ HalfGoto(c, d, "read", "closeWrite")

(* A Write has no deadline: it ends when the receiver takes the data ...   *)
WriteData(c, d) == HalfGoto(c, d, "write", "read")

(* ... or its connection breaks.                                           *)
WriteBreaks(c, d) == HalfGoto(c, d, "write", "closeWrite")

CloseWrite(c, d) == HalfGoto(c, d, "closeWrite", "done")

-----------------------------------------------------------------------------
HandlerStep(c) ==
    \/ DetectTimesOut(c)
    \/ Denies(c) \/ GuardRejects(c) \/ Admits(c)
    \/ DialUpstream(c) \/ DialFails(c) \/ WriteHeader(c) \/ WriteHeaderFails(c)
    \/ PipeEnds(c) \/ HangUp(c) \/ Release(c)

ClientStep(c) == DetectHeader(c) \/ DetectDirect(c) \/ DetectMalformed(c)

HalfStep(c, d) ==
    \/ ReadData(c, d) \/ ReadEnds(c, d) \/ ReadTimesOut(c, d)
    \/ WriteData(c, d) \/ WriteBreaks(c, d) \/ CloseWrite(c, d)

ServeStep == CountAndSpawn \/ RefuseOverLimit \/ ServeReturns \/ CloseListener

(* The Serve loop is over and so is every handler.                         *)
Stopped ==
    /\ servePc = "returned"
    /\ \A c \in Conns : stage[c] \in {"waiting", "refused", "gone"}
    /\ UNCHANGED vars

Next ==
    \/ \E c \in Conns : \/ Accept(c) \/ ClientStep(c) \/ HandlerStep(c)
                        \/ \E d \in Directions : HalfStep(c, d)
    \/ ServeStep
    \/ Stopped

Spec == Init /\ [][Next]_vars

(* Every goroutine that can run does run, and a Read with a deadline ends, *)
(* with data or without.  Nothing obliges a peer to open a connection, to  *)
(* send, or to take what is written to it.                                 *)
Fairness ==
    /\ WF_vars(CountAndSpawn) /\ WF_vars(RefuseOverLimit)
    /\ WF_vars(~listenerOpen /\ ServeReturns)
    /\ \A c \in Conns :
          /\ WF_vars(HandlerStep(c))
          /\ \A d \in Directions :
                /\ WF_vars(HasDeadline(d) /\ (ReadData(c, d) \/ ReadEnds(c, d) \/ ReadTimesOut(c, d)))
                /\ WF_vars(CloseWrite(c, d))

(* Receivers that go on reading, or whose connection breaks.               *)
ReceiversRead ==
    \A c \in Conns, d \in Directions : WF_vars(WriteData(c, d) \/ WriteBreaks(c, d))

FairSpec == Spec /\ Fairness
ReadingSpec == FairSpec /\ ReceiversRead

-----------------------------------------------------------------------------
(* Safety.                                                                 *)

Running(c) == stage[c] \in {"detect", "decide", "dial", "header", "pipe", "hangup", "release"}
HoldsSlot(c) == Running(c) \/ (servePc = "over" /\ inHand = c)

(* With a cap the counter is exact at every moment: whichever way handle   *)
(* ends, its slot comes back once, and a refused connection keeps none.    *)
ActiveExact == MaxConns > 0 => active = Cardinality({c \in Conns : HoldsSlot(c)})

(* tcp.max-connections is never overshot, not even by a burst of accepts.  *)
CapRespected == MaxConns > 0 => Cardinality({c \in Conns : Running(c)}) <= MaxConns

(* A connection is turned away only when the cap is really used up; never  *)
(* without a cap, where the counter is released and not acquired.          *)
RefusedOnlyWhenFull ==
    [][servePc = "count" /\ servePc' = "over"
            => MaxConns > 0 /\ Cardinality({c \in Conns : Running(c)}) >= MaxConns]_vars

(* The writer is never handed a header whose family contradicts its        *)
(* addresses, unless family-mismatch=legacy asks for it.                   *)
WriterNeverMixed ==
    \A c \in Conns :
        stage[c] \in {"dial", "header"} /\ MixedFamily # "legacy" => FamilyMatchesAddrs(hdr[c])

(* The guard comes after the decision: it costs only connections whose     *)
(* declared header would go downstream, never one whose header is rebuilt  *)
(* from its own socket, direct or stripped, and never one that the trust   *)
(* or the policy check turns away, whose reason it would hide.             *)
GuardFollowsDecision ==
    \A c \in Conns :
        closedBy[c] = "family" => src[c] # "direct" /\ IsTrusted(TrustedNets, c) /\ Policy # "reject"

(* The addresses a peer declared are passed on only if the peer is trusted *)
(* and the policy admits headers; anybody else goes out under its own.     *)
DeclaredOnlyIfTrusted ==
    \A c \in Conns :
        stage[c] \in {"dial", "header"} =>
            IF src[c] = "direct" THEN hdr[c] = ConnHeader /\ Policy # "require"
                                 ELSE IsTrusted(TrustedNets, c) /\ Policy # "reject"

-----------------------------------------------------------------------------
(* Liveness.                                                               *)

(* Under ReadingSpec: with both timeouts configured every handler ends and *)
(* frees its slot, unless data keeps flowing through its pipe.             *)
HandlersEnd ==
    \A c \in Conns :
        (stage[c] = "detect" ~> stage[c] = "gone")
            \/ \E d \in Directions : []<><<WriteData(c, d)>>_vars

(* Under FairSpec: the accept loop gets to every connection it accepted    *)
(* and ends once the listener is closed.                                   *)
ServeStops == ~listenerOpen ~> servePc = "returned"

-----------------------------------------------------------------------------
(* What the repository says of the gateway and its code does not keep.     *)

(* README.md:130, tcp-idle-timeout: "if no data flows in a direction for   *)
(* this duration, that side is closed".                                    *)
IdleDirectionCloses ==
    \A c \in Conns, d \in Directions :
        (half[c][d] \in {"read", "write"} ~> half[c][d] = "done")
            \/ []<><<WriteData(c, d)>>_vars

=============================================================================
