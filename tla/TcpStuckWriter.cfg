\* A receiver need not read.
SPECIFICATION FairSpec
CONSTANTS
  c1 = c1
  c2 = c2
  c3 = c3
  None = None
  Conns = {c1}
  MaxConns = 1
  DetectTimeout = TRUE
  IdleTimeout = TRUE
  Policy = "use"
  TrustedNets <- NoNets
  Untrusted = "strip"
  MixedFamily = "reject"
  WireHeaders <- PlainHeader
  LocalForm = "v4"
PROPERTIES IdleDirectionCloses
