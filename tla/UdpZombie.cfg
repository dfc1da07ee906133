\* The idle timer may fire inside Create.
SPECIFICATION Spec
CONSTANTS
  trusty = trusty
  stray = stray
  h1 = h1
  h2 = h2
  None = None
  Clients = {trusty}
  Declared = {}
  Sids = {s1, s2}
  Handlers = {h1}
  MaxSessions = 1
  Policy = "use"
  TrustedNets <- OneNet
  Untrusted = "strip"
  OutputMode = "every"
  Unencodable = {}
  TimerMayBeatStore = TRUE
  CloseCalled = FALSE
  Answering = {s1, s2}
INVARIANTS DoneEntryPendingDeletion
SYMMETRY SidSymmetry
