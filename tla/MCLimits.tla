------------------------------ MODULE MCLimits ------------------------------
EXTENDS ProviderLimits

CONSTANTS x, y, p1, p2

MCCandidates == [a \in Agents |-> IF a = x THEN {p1, p2} ELSE {p1}]
MCFirst == [a \in Agents |-> IF a = x THEN p2 ELSE p1]
=============================================================================
