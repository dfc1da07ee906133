\* A trusted client and a stranger over one slot of a dual-stack listener, every header the
\* wire can carry, under fairness.
SPECIFICATION ReadingSpec
CONSTANTS
  c1 = c1
  c2 = c2
  c3 = c3
  None = None
  Conns = {c1, c2}
  MaxConns = 1
  DetectTimeout = TRUE
  IdleTimeout = TRUE
  Policy = "use"
  TrustedNets <- OneNet
  Untrusted = "reject"
  MixedFamily = "reject"
  WireHeaders <- AllHeaders
  LocalForm = "mapped"
INVARIANTS TypeOK ActiveExact CapRespected WriterNeverMixed GuardFollowsDecision DeclaredOnlyIfTrusted
PROPERTIES RefusedOnlyWhenFull HandlersEnd ServeStops
