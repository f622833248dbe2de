------------------------------ MODULE MCPacking ------------------------------
EXTENDS Packing

\* Wider matrices have smaller moduli, and entries then take more elements.
MCCutoff == <<2, 4, 8>>
MCWidth == <<1, 2, 3>>
MCSizes == UNION {[1..n -> {0, 1, 3, 7, 12}] : n \in 1..3}
==============================================================================
