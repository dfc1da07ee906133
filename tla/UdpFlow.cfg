\* One Serve goroutine, a client that may declare two sources, one of them unencodable,
\* and a client that may declare none, one slot, first_datagram output, a silent downstream.
SPECIFICATION Spec
CONSTANTS
  trusty = trusty
  stray = stray
  h1 = h1
  h2 = h2
  None = None
  Clients = {trusty, stray}
  Declared = {d1, d2}
  Sids = {s1, s2}
  Handlers = {h1}
  MaxSessions = 1
  Policy = "use"
  TrustedNets <- OneNet
  Untrusted = "strip"
  OutputMode = "first"
  Unencodable = {d2}
  TimerMayBeatStore = FALSE
  CloseCalled = FALSE
  Answering = {}
INVARIANTS TypeOK SocketsAccounted InputSourceTrusted NoForgottenSource HeaderOnlyFirst
PROPERTIES ImplementsFlowTable
SYMMETRY SidSymmetry
