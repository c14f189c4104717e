------------------------------ MODULE MCDiscord ------------------------------
EXTENDS DiscordBridge

\* A trust prompt differs from the others in never being logged, and a board
\* in the cursor of its log: the two are not combined.
MCInit == BridgeInit /\ (recorded = {} => ~board)
MCSpec == MCInit /\ [][BridgeNext]_bridgeVars /\ Fairness
=============================================================================
