----------------------------- MODULE MCRequests -----------------------------
EXTENDS Requests, TLC

CONSTANTS a1, a2

MCAgents == {a1, a2}
Symmetry == Permutations(MCAgents)
=============================================================================
