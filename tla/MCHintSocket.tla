---------------------------- MODULE MCHintSocket ----------------------------
EXTENDS HintSocket

CONSTANTS c1, c2

MCClients == {c1, c2}

\* The signals are of one byte and of six; tokens are longer than a buffer.
MCLength ==
    [kind \in Kinds |->
        IF kind \in {"ask", "newClient", "dims", "garbled"} THEN 1 ELSE IF kind = "token" THEN 3 ELSE 2]

\* The script's way, processes that write sizes in pieces, two clients at once.
MCDrivers ==
    {[clients |-> {c1, c2}, limit |-> 1, iters |-> 2, wholeSizes |-> w] : w \in BOOLEAN}
    \cup {[clients |-> {c1, c2}, limit |-> 2, iters |-> 1, wholeSizes |-> TRUE]}
=============================================================================
