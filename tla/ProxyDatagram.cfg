\* Every datagram at a boundary of the parser, through two gateways.
SPECIFICATION Spec
CONSTANTS
  Lengths <- BoundaryLengths
  AddrLengths <- BoundaryAddrLengths
INVARIANTS HeaderInsideDatagram NextHopAgrees
CHECK_DEADLOCK FALSE
