------------------------------ MODULE MCVoting ------------------------------
\* Values of the constants of VotingSystem for model checking.
EXTENDS VotingSystem

MCOneName == <<"x">>
MCSymmetry == Permutations(Voters)
=============================================================================
