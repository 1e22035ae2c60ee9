SPECIFICATION Spec
CONSTANTS
  Voters = {v1}
  Scripts = 1
  Slate <- MCOneName
  MaxLogins = 1
  MaxVotes = 0
  MaxClosed = 0
  MaxBroken = 1
  Room = 1
  MaxAtOnce = 1
  MaxWindows = 1
  Patient = TRUE
INVARIANTS
  AcceptedIsNotRefused
CHECK_DEADLOCK FALSE
