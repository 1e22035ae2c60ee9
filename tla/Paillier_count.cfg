SPECIFICATION Spec
CONSTANTS
  Bits = 4
  T = 3
  Rounds = 2
  Coins = {2, 5, 13}
  Challenges = {0, 5}
  CandidateCount = 2
  MaxBallots = 3
  None = None
INVARIANTS
  TypeOK
  PrimesAreFound
  FoundArePrime
  ResultIsCount
  HonestProofsVerify
CHECK_DEADLOCK FALSE
