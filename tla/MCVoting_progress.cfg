SPECIFICATION FairSpec
CONSTANTS
  Voters = {v1}
  Scripts = 3
  Slate <- MCOneName
  MaxLogins = 1
  MaxVotes = 2
  MaxClosed = 1
  MaxBroken = 0
  Room = 1
  MaxAtOnce = 1
  MaxWindows = 1
  Patient = TRUE
INVARIANTS
  TypeOK
  LastClickStands
PROPERTIES
  LoginIsDecided
  EveryoneLearnsTheResult
  ServerCatchesUp
CHECK_DEADLOCK FALSE
