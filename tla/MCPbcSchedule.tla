---------------------------- MODULE MCPbcSchedule ----------------------------
EXTENDS PbcSchedule

MCKeys == 0..3

\* Three buckets and up to four indices: every load from one key to one more
\* than there are buckets, with and without repeated indices.  Keys differ in
\* their choices only, which are any, so they are numbered as they come.
MCBatches ==
    {batch \in UNION {[1..n -> MCKeys] : n \in 1..4} :
        \A i \in DOMAIN batch : batch[i] <= Cardinality({batch[j] : j \in 1..i - 1})}
==============================================================================
