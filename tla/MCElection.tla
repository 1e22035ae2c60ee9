----------------------------- MODULE MCElection -----------------------------
\* Values of the constants of Election for model checking.
EXTENDS Election, TLC

MCCandidates == {"x", "y"}
MCSlates == {<<"x">>, <<"x", "y">>}
MCCiphers == {"c", "zero"}
MCBallots == {<<"c">>, <<"text">>}

\* No action reads sent, so states that differ in it alone are explored once.
MCView == <<connected, m_clients, started, candidates, pallier, server, result,
            round>>

MCSymmetry == Permutations(Sockets)
=============================================================================
