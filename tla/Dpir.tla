-------------------------------- MODULE Dpir --------------------------------
(***************************************************************************)
(* Distributional PIR (batching/dpir): the entries before a cutoff, the    *)
(* popular ones, are a database of their own.  A coin decides for a batch  *)
(* which of the two databases it asks, whatever it asks for; indices the   *)
(* popular one does not have are left out.                                 *)
(*                                                                         *)
(* Each database is served by the LHE scheme or its local stand-in, which  *)
(* have one interface (LheScheme), or by batch PIR, of which this module   *)
(* knows what BatchRetrieval promises.  An entry is of one element and, in *)
(* a local database, of one limb.                                          *)
(***************************************************************************)
EXTENDS LheScheme, Functions

CONSTANTS
    N,         \* number of entries
    Cutoffs, Loads, Batches,
    MaxCols,   \* bound on the columns of a matrix
    GPUs       \* whether there is a GPU: a set of Booleans

ASSUME DpirAssumption ==
    /\ N \in Nat \ {0} /\ MaxCols \in Nat \ {0}
    /\ Cutoffs \subseteq 1..N /\ Loads \subseteq Nat
    /\ Batches \subseteq Seq(0..N - 1)
    /\ GPUs \subseteq BOOLEAN

Popular == 0
Full == 1
Buckets == {Popular, Full}
PirTypes == {"Simple", "Local", "PBC"}

VARIABLES
    gpu, cutoff, load, types, cols,   \* of MakeServer and Params
    indices,                          \* the batch asked for
    bucket, keys, secrets, queries, answers, results,
    phase

params == <<gpu, cutoff, load, types, cols>>
vars == <<params, indices, bucket, keys, secrets, queries, answers, results, phase>>

-----------------------------------------------------------------------------
\* The popular database is a prefix of the full one, so an entry has the same
\* index in both.
Size(b) == IF b = Popular THEN cutoff ELSE N

Padding == -1

\* Mutant: both matrices are as wide as the full one.
CellFullWidth(b, r, c) ==
    LET i == r * cols[Full] + c IN IF i < Size(b) THEN i ELSE Padding

Cell(b, r, c) == LET i == r * cols[b] + c IN IF i < Size(b) THEN i ELSE Padding
RowGroups(b) == 0..(Size(b) - 1) \div cols[b]
Column(b, c) == [r \in RowGroups(b) |-> Cell(b, r, c)]
Columns(b) == [c \in 0..cols[b] - 1 |-> Column(b, c)]

Init ==
    /\ gpu \in GPUs /\ cutoff \in Cutoffs /\ load \in Loads
    /\ types \in [Buckets -> PirTypes]
    /\ cols \in [Buckets -> 1..MaxCols]
    /\ indices \in Batches
    /\ bucket = Popular
    /\ keys = <<>> /\ secrets = <<>> /\ queries = <<>> /\ answers = <<>>
    /\ results = [e \in {} |-> e]
    /\ phase = "query"

Kept(b) ==
    IF b = Popular THEN Filtered(indices, [j \in DOMAIN indices |-> indices[j] < cutoff])
    ELSE indices

Dummies(b) == load - Len(Kept(b))

\* Mutant: a batch as large as the load leaves no room for a dummy.
OverloadedAtLoad(b) == Dummies(b) <= 0

\* Load - len(inputs) is unsigned: below 0 it is 2^64 less a few dummies, for
\* which DummyQuery's slices cannot be made.
Overloaded(b) == Dummies(b) < 0

\* Client.Query, for either side of the coin.
QueryLhe ==
    /\ phase = "query"
    /\ \E b \in Buckets :
        /\ types[b] # "PBC" /\ ~Overloaded(b)
        /\ bucket' = b
        /\ keys' = Kept(b)
        /\ LET columns == [j \in DOMAIN keys' |-> keys'[j] % cols[b]]
           IN \/ /\ types[b] = "Simple"
                 /\ queries' = QueriesFor(columns, Dummies(b))
                 /\ secrets' = SecretsFor(columns, Dummies(b))
              \/ /\ types[b] = "Local"
                 /\ queries' = LocalQueriesFor(columns, Dummies(b))
                 /\ secrets' = LocalSecretsFor(columns, Dummies(b))
    /\ phase' = "answer"
    /\ UNCHANGED <<params, indices, answers, results>>

QueryPanics ==
    /\ phase = "query"
    /\ \E b \in Buckets : types[b] # "PBC" /\ Overloaded(b)
    /\ phase' = "panic"
    /\ UNCHANGED <<params, indices, bucket, keys, secrets, queries, answers, results>>

\* Queries, secrets and answers of batch PIR are those of BatchPir.
QueryBatch ==
    /\ phase = "query"
    /\ \E b \in Buckets :
        /\ types[b] = "PBC"
        /\ bucket' = b
        /\ keys' = Kept(b)
    /\ phase' = "answer"
    /\ UNCHANGED <<params, indices, secrets, queries, answers, results>>

\* Server.Answer.
Answer ==
    /\ phase = "answer"
    /\ answers' = CASE types[bucket] = "PBC" -> <<>>
                    [] types[bucket] = "Simple" -> AnswersTo(queries, gpu, Columns(bucket))
                    [] types[bucket] = "Local" -> LocalAnswersTo(queries)
    /\ phase' = "recover"
    /\ UNCHANGED <<params, indices, bucket, keys, secrets, queries, results>>

\* Client.Recover: the j-th column recovered is for the j-th key.
RecoverLhe ==
    /\ phase = "recover" /\ types[bucket] # "PBC"
    /\ LET recovered == IF types[bucket] = "Simple" THEN Recovered(secrets, answers, gpu)
                        ELSE LocalRecovered(secrets, Columns(bucket))
           Value(j) == recovered[j][keys[j] \div cols[bucket]]
       IN results' = [e \in {keys[j] : j \in DOMAIN recovered} |->
                        Value(CHOOSE j \in DOMAIN recovered :
                                keys[j] = e /\ \A k \in DOMAIN recovered : keys[k] = e => k <= j)]
    /\ phase' = "done"
    /\ UNCHANGED <<params, indices, bucket, keys, secrets, queries, answers>>

\* What Client.Recover of batch PIR returns, for the keys it was asked for.
Batch == INSTANCE BatchRetrieval
    WITH Wanted <- SUBSET (0..N - 1), wanted <- Range(keys), done <- phase = "done"

RecoverBatch ==
    /\ phase = "recover" /\ types[bucket] = "PBC"
    /\ phase' = "done"
    /\ UNCHANGED <<params, indices, bucket, keys, secrets, queries, answers>>
    /\ Batch!Deliver

Next == \/ QueryLhe \/ QueryPanics \/ QueryBatch
        \/ Answer
        \/ RecoverLhe \/ RecoverBatch

Spec == Init /\ [][Next]_vars /\ WF_vars(Next)

-----------------------------------------------------------------------------
(* Properties *)

\* What is delivered was asked for and is the entry's own value, from either
\* database; it is delivered at once, and is a retrieval as batch PIR's is.
Retrieval == INSTANCE BatchRetrieval
    WITH Wanted <- {Range(batch) : batch \in Batches}, wanted <- Range(indices),
         done <- phase = "done"
ImplementsRetrieval == Retrieval!Safety

\* A batch within the load is answered, whatever the coin.
WithinLoadAnswered == (Len(indices) <= load) ~> (phase = "done")

\* The LHE scheme delivers all that the database asked has: every index asked
\* of the full one, every popular index of the other.  (dist_test.go:92-95 has
\* an error rate that only unpopular indices and full buckets may cause.)
LheServesAll ==
    phase = "done" /\ types[bucket] # "PBC" =>
        DOMAIN results = {e \in Range(indices) : bucket = Full \/ e < cutoff}

==============================================================================
