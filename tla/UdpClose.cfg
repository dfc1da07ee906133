\* Expiry, idle sessions, the Serve loop and Close, under fairness, with a session whose
\* downstream answers and one whose downstream does not.
SPECIFICATION FairSpec
CONSTANTS
  trusty = trusty
  stray = stray
  h1 = h1
  h2 = h2
  None = None
  Clients = {trusty}
  Declared = {}
  Sids = {s1, s2}
  Handlers = {h1}
  MaxSessions = 1
  Policy = "use"
  TrustedNets <- OneNet
  Untrusted = "strip"
  OutputMode = "every"
  Unencodable = {}
  TimerMayBeatStore = FALSE
  CloseCalled = TRUE
  Answering = {s1}
INVARIANTS CloseLeavesOneAtMost
PROPERTIES ServeStops CloseReturns ExpiryCompletes IdleReclaimed
