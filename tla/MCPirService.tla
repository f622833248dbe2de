----------------------------- MODULE MCPirService -----------------------------
EXTENDS PirService

CONSTANTS c1, c2, c3, small, large

MCClients == {c1, c2, c3}
MCShapes == {small, large}
MCUsesHint == {c1, c2}

\* The script's way, and one client with an HC server next to one without.
MCDrivers == {[clients |-> MCClients, limit |-> 1], [clients |-> {c1, c3}, limit |-> 2]}
===============================================================================
