SPECIFICATION Spec
CONSTANTS
  Voters = {v1, v2}
  Scripts = 2
  Slate <- MCOneName
  MaxLogins = 1
  MaxVotes = 1
  MaxClosed = 0
  MaxBroken = 1
  Room = 1
  MaxAtOnce = 1
  MaxWindows = 1
  Patient = TRUE
SYMMETRY MCSymmetry
INVARIANTS
  HonestClientsSpareTheServer
PROPERTIES
  ImplementsPoll
CHECK_DEADLOCK FALSE
