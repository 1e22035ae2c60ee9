SPECIFICATION Spec
CONSTANTS
  Sockets = {s1, s2}
  Candidates <- MCCandidates
  Slates <- MCSlates
  Ciphers <- MCCiphers
  Zero = "zero"
  NotANumber = "text"
  Ballots <- MCBallots
  Malformed = {"none", "z"}
  MaxRounds = 2
VIEW MCView
SYMMETRY MCSymmetry
INVARIANTS
  TypeOK
  ClientsMatchConnections
  OnlyAuthenticatedTakePart
PROPERTIES
  FreshOnConnect
  StatusLadder
  SlateFrozen
  OneResultPerElection
  ChangesAreAnswered
  ImplementsBallotBox
CHECK_DEADLOCK FALSE
