------------------------------- MODULE BatchPir -------------------------------
(***************************************************************************)
(* Batch PIR end to end (batching/pbc): the server copies every entry into *)
(* its buckets (EncodeDB) and lays each bucket out as a matrix; the client *)
(* schedules its batch (PbcSchedule), queries every bucket, padding with   *)
(* dummies, and reads the entries out of the answers.                      *)
(*                                                                         *)
(* Each bucket is served by the LHE scheme (LheScheme), on a CPU.          *)
(***************************************************************************)
EXTENDS PbcMode, LheScheme, FiniteSets

CONSTANTS
    N,           \* number of database entries
    BatchSize,   \* batch size the server was made for
    ServerMode,  \* the code the server was made with
    MaxCols,     \* bound on the columns of a bucket's matrix
    Batches,     \* index sequences the client may ask for
    NoKey

ASSUME BatchPirAssumption ==
    /\ N \in Nat \ {0} /\ BatchSize \in Nat \ {0} /\ MaxCols \in Nat \ {0}
    /\ ServerMode \in Mode
    /\ NoKey \notin 0..N - 1
    /\ Batches \subseteq Seq(0..N - 1)

Entries == 0..N - 1
Buckets == 0..NumBuckets(ServerMode, BatchSize) - 1

VARIABLES
    \* server
    choices,   \* getBuckets of every entry
    encoded,   \* entries EncodeDB is done with
    buckets,   \* the entries of each bucket
    mapping,   \* mapping[entry][bucket]: the entry's place in the bucket
    cols,      \* M of each bucket's matrix
    \* client
    indices, pos, schedule, hand, depth, result,   \* of PbcSchedule, with mode of PbcMode
    secrets, results,
    \* between them
    phase, queries, answers

serverVars == <<choices, encoded, buckets, mapping, cols>>
scheduleVars == <<indices, pos, schedule, hand, depth, result>>
vars == <<serverVars, mode, scheduleVars, secrets, results, phase, queries, answers>>

\* The client derives its choices again, as many as its own mode calls for.
ClientChoices == [e \in Entries |-> SubSeq(choices[e], 1, NumChoices(mode))]

Schedule == INSTANCE PbcSchedule
    WITH Keys <- Entries, choices <- ClientChoices

-----------------------------------------------------------------------------
NoMatrix == [b \in Buckets |-> 0]
Nothing == [b \in Buckets |-> <<>>]

\* A bucket no entry falls into has no matrix (PackingDims divides by its
\* size), so the hash functions considered leave none empty.
Init ==
    /\ choices \in [Entries -> ChoiceLists(ServerMode, Buckets)]
    /\ \A b \in Buckets : \E e \in Entries : b \in Range(choices[e])
    /\ encoded = 0
    /\ buckets = Nothing
    /\ mapping = [e \in Entries |-> [b \in {} |-> 0]]
    /\ cols = NoMatrix
    /\ mode = ZeroMode
    /\ indices \in Batches
    /\ Schedule!Start
    /\ secrets = Nothing /\ results = [e \in {} |-> e]
    /\ phase = "encode"
    /\ queries = Nothing /\ answers = Nothing

\* Mutant: the place is noted after the entry is appended.
EncodeEntryPlaceAfter ==
    /\ phase = "encode" /\ encoded < N
    /\ LET mine == Range(choices[encoded])
       IN /\ mapping' = [mapping EXCEPT ![encoded] = [b \in mine |-> Len(buckets[b]) + 1]]
          /\ buckets' = [b \in Buckets |->
                IF b \in mine THEN Append(buckets[b], encoded) ELSE buckets[b]]
    /\ encoded' = encoded + 1
    /\ phase' = IF encoded' = N THEN "pack" ELSE "encode"
    /\ UNCHANGED <<choices, cols, mode, scheduleVars, secrets, results, queries, answers>>

\* EncodeDB, one entry: append it to each of its buckets and note where.
EncodeEntry ==
    /\ phase = "encode" /\ encoded < N
    /\ LET mine == Range(choices[encoded])
       IN /\ mapping' = [mapping EXCEPT ![encoded] = [b \in mine |-> Len(buckets[b])]]
          /\ buckets' = [b \in Buckets |->
                IF b \in mine THEN Append(buckets[b], encoded) ELSE buckets[b]]
    /\ encoded' = encoded + 1
    /\ phase' = IF encoded' = N THEN "pack" ELSE "encode"
    /\ UNCHANGED <<choices, cols, mode, scheduleVars, secrets, results, queries, answers>>

\* PackingDims gives every bucket's matrix a number of columns of its own.
Pack ==
    /\ phase = "pack"
    /\ cols' \in [Buckets -> 1..MaxCols]
    /\ phase' = "init"
    /\ UNCHANGED <<choices, encoded, buckets, mapping, mode, scheduleVars, secrets, results,
                   queries, answers>>

\* The mode in what Server.Params returns, which does not set the field.
ParamsMode == ZeroMode

ClientInit ==
    /\ phase = "init"
    /\ mode' = ParamsMode
    /\ phase' = "schedule"
    /\ UNCHANGED <<serverVars, scheduleVars, secrets, results, queries, answers>>

\* Client.Query: first GenSchedule ...
GenSchedule ==
    /\ phase = "schedule"
    /\ UNCHANGED <<serverVars, mode, secrets, results, phase, queries, answers>>
    /\ Schedule!Next

\* ... then for each bucket the real queries, and dummies after them.
ColumnOf(key, b) == mapping[key][b] % cols[b]

\* Mutant: a bucket without keys gets no dummies.
RemainingWhenUsed(b) ==
    IF schedule[b] = <<>> THEN 0 ELSE NumQueriesPer(mode) - Len(schedule[b])

Remaining(b) == NumQueriesPer(mode) - Len(schedule[b])

Query ==
    /\ phase = "schedule" /\ result = "schedule"
    /\ LET columns(b) == [j \in DOMAIN schedule[b] |-> ColumnOf(schedule[b][j], b)]
       IN /\ queries' = [b \in Buckets |-> QueriesFor(columns(b), Remaining(b))]
          /\ secrets' = [b \in Buckets |-> SecretsFor(columns(b), Remaining(b))]
    /\ phase' = "answer"
    /\ UNCHANGED <<serverVars, mode, scheduleVars, results, answers>>

\* Row group r, column c of a bucket's matrix (NewDB): the entry packed there,
\* or the padding after the last one.
Padding == -1

\* Mutant: the matrix is filled column by column.
CellByColumn(b, r, c) ==
    LET i == c * cols[b] + r IN IF i < Len(buckets[b]) THEN buckets[b][i + 1] ELSE Padding

Cell(b, r, c) ==
    LET i == r * cols[b] + c IN IF i < Len(buckets[b]) THEN buckets[b][i + 1] ELSE Padding

RowGroups(b) == 0..(Len(buckets[b]) - 1) \div cols[b]

\* Server.Answer.
Answer ==
    /\ phase = "answer"
    /\ answers' = [b \in Buckets |->
           AnswersTo(queries[b], FALSE,
                     [c \in 0..cols[b] - 1 |-> [r \in RowGroups(b) |-> Cell(b, r, c)]])]
    /\ phase' = "recover"
    /\ UNCHANGED <<serverVars, mode, scheduleVars, secrets, results, queries>>

\* Client.Recover matches the j-th column recovered with the j-th key, for its
\* row group.
ColumnsFor(b) == Recovered(secrets[b], answers[b], FALSE)

ValuesFor(e) ==
    UNION {{ColumnsFor(b)[j][mapping[e][b] \div cols[b]] :
               j \in {j \in DOMAIN ColumnsFor(b) : schedule[b][j] = e}} : b \in Buckets}

\* A key scheduled twice is recovered twice: whichever is written last stays.
Recover ==
    /\ phase = "recover"
    /\ LET found == {e \in Entries : ValuesFor(e) # {}}
       IN results' \in {f \in [found -> UNION {ValuesFor(e) : e \in found}] :
                            \A e \in found : f[e] \in ValuesFor(e)}
    /\ phase' = "done"
    /\ UNCHANGED <<serverVars, mode, scheduleVars, secrets, queries, answers>>

Next == EncodeEntry \/ Pack \/ ClientInit \/ GenSchedule \/ Query \/ Answer \/ Recover

\* The test driver calls these one after the other, each to its end.
Spec == Init /\ [][Next]_vars /\ WF_vars(Next)

-----------------------------------------------------------------------------
Asked == Range(indices)

\* The entry is in the bucket, at the place, where mapping says, for every
\* bucket the entry hashes to: the client computes its queries from mapping
\* alone (pbc_test.go:137-151).
MappingLocates ==
    \A e \in 0..encoded - 1 :
        /\ DOMAIN mapping[e] = Range(choices[e])
        /\ \A b \in DOMAIN mapping[e] :
                \E i \in DOMAIN buckets[b] : i = mapping[e][b] + 1 /\ buckets[b][i] = e

\* Every bucket gets the same number of queries whatever was asked for, so the
\* shape of the batch tells the server nothing of the indices.
ShapeHidesIndices ==
    phase \in {"answer", "recover", "done"} =>
        \A b \in Buckets : Len(queries[b]) = NumQueriesPer(mode)

\* Dropping is the only failure and has the one cause it is meant to have:
\* more keys of the batch share the first bucket than it answers queries.
MissesOnlyWhenFull ==
    phase = "done" =>
        \A e \in Asked \ DOMAIN results :
            Cardinality({i \in DOMAIN indices :
                choices[indices[i]][1] = choices[e][1]}) > NumQueriesPer(mode)

\* What is delivered was asked for and is the entry's own value: the steps above
\* implement a retrieval in one step, which does happen.
Retrieval == INSTANCE BatchRetrieval
    WITH Wanted <- {Range(batch) : batch \in Batches}, wanted <- Asked, done <- phase = "done"
ImplementsRetrieval == Retrieval!Spec

\* pbc_test.go:90-93: `case Cuckoo: if len(results) != len(indices)' is an error.
CuckooRecoversAll ==
    ServerMode = "Cuckoo" /\ phase = "done" => DOMAIN results = Asked
===============================================================================
