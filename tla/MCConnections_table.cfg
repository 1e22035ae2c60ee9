SPECIFICATION Spec
CONSTANTS
  Conns = {c1, c2, c3}
  Fds = {4, 5}
  None = None
  MaxUnread = 1
SYMMETRY MCSymmetry
INVARIANTS
  TypeOK
  TableConsistent
  SessionsReachTheirPeer
  OverflowStaysWithClient
  QueuedOnce
PROPERTIES
  ContractKept
