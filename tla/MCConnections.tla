--------------------------- MODULE MCConnections ----------------------------
\* Values of the constants of Connections for model checking.
EXTENDS Connections, TLC

MCSymmetry == Permutations(Conns)
=============================================================================
