SPECIFICATION Spec
CONSTANTS
  Sockets = {s1, s2}
  Candidates <- MCCandidates
  Slates <- MCSlates
  Ciphers <- MCCiphers
  Zero = "zero"
  NotANumber = "text"
  Ballots <- MCBallots
  Malformed = {"none"}
  MaxRounds = 2
VIEW MCView
SYMMETRY MCSymmetry
PROPERTIES
  CountedBallotsAreProved
CHECK_DEADLOCK FALSE
