------------------------------- MODULE PbcMode -------------------------------
(***************************************************************************)
(* The two probabilistic batch codes of batching/pbc: plain hashing, which *)
(* puts an entry in one bucket and asks P queries of each bucket, and      *)
(* cuckoo hashing, which puts it in D buckets and asks each one query.     *)
(***************************************************************************)
EXTENDS Integers, Sequences, Functions

CONSTANTS
    D,                \* buckets an entry may be found in under cuckoo hashing (3)
    P,                \* queries asked of a bucket under plain hashing (2)
    MAX_CUCKOO_ITERS  \* evictions after which an insertion is abandoned (500)

VARIABLE mode         \* whose batch code: the Mode of a server, or of a client

ASSUME ModeAssumption ==
    /\ D \in Nat \ {0}
    /\ P \in Nat \ {0}
    /\ MAX_CUCKOO_ITERS \in Nat \ {0}

\* In Go an enum whose zero value is Hash.
Mode == {"Hash", "Cuckoo"}

ZeroMode == "Hash"

NumChoices(m) == IF m = "Hash" THEN 1 ELSE D

\* Cuckoo: the ceiling of K * batchSize, where K is 3/2.
NumBuckets(m, batchSize) ==
    IF m = "Hash" THEN batchSize ELSE (3 * batchSize + 1) \div 2

NumQueriesPer(m) == IF m = "Hash" THEN P ELSE 1

\* What getBuckets can return for a key: its distinct bucket choices, in order.
\* Module PbcGetBuckets has the loop that computes it.
ChoiceLists(m, buckets) == {c \in [1..NumChoices(m) -> buckets] : IsInjective(c)}
==============================================================================
