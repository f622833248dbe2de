------------------------------- MODULE MCDpir -------------------------------
EXTENDS Dpir

\* Popular, unpopular and repeated indices, fewer, as many or more than a load.
MCBatches == UNION {[1..k -> 0..N - 1] : k \in 0..3}
==============================================================================
