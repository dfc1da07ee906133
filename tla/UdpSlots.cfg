\* Two goroutines create sessions for the same client, which leaves sessions behind that
\* still count: they race for the key and for the last slot.  The downstream is silent.
SPECIFICATION Spec
CONSTANTS
  trusty = trusty
  stray = stray
  h1 = h1
  h2 = h2
  None = None
  Clients = {trusty}
  Declared = {}
  Sids = {s1, s2, s3}
  Handlers = {h1, h2}
  MaxSessions = 2
  Policy = "use"
  TrustedNets <- OneNet
  Untrusted = "strip"
  OutputMode = "every"
  Unencodable = {}
  TimerMayBeatStore = FALSE
  CloseCalled = FALSE
  Answering = {}
INVARIANTS MapConsistent CountExact CapRespected
PROPERTIES ImplementsPool
SYMMETRY RaceSymmetry
