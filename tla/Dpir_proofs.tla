----------------------------- MODULE Dpir_proofs -----------------------------
(***************************************************************************)
(* Proofs about distributional PIR for every number of entries, cutoff,    *)
(* load, width of a matrix and batch of indices: what Recover delivers is  *)
(* the entries' own, and from the LHE scheme all that the database has.    *)
(***************************************************************************)
EXTENDS Dpir, LheScheme_proofs

-----------------------------------------------------------------------------
(* The inductive invariant *)

Types ==
    /\ gpu \in GPUs /\ cutoff \in Cutoffs /\ load \in Loads
    /\ types \in [Buckets -> PirTypes] /\ cols \in [Buckets -> 1..MaxCols]
    /\ indices \in Batches /\ bucket \in Buckets
    /\ phase \in {"query", "answer", "recover", "done", "panic"}

\* The columns that are asked for.
Asked == [j \in DOMAIN keys |-> keys[j] % cols[bucket]]

\* What the client keeps of its query until it recovers.
Queried ==
    phase \in {"answer", "recover"} =>
        /\ keys = Kept(bucket)
        /\ types[bucket] # "PBC" => Dummies(bucket) \in Nat
        /\ types[bucket] = "Simple" =>
             /\ queries = QueriesFor(Asked, Dummies(bucket))
             /\ secrets = SecretsFor(Asked, Dummies(bucket))
        /\ types[bucket] = "Local" => secrets = LocalSecretsFor(Asked, Dummies(bucket))

Answered ==
    phase = "recover" /\ types[bucket] = "Simple" =>
        answers = AnswersTo(queries, gpu, Columns(bucket))

\* On a GPU Recover looks at one answer only.
AllLookedAt == types[bucket] # "PBC" /\ ~(gpu /\ types[bucket] = "Simple")

Delivered ==
    /\ phase # "done" => results = Retrieval!NoResults
    /\ phase = "done" /\ AllLookedAt => DOMAIN results = Range(Kept(bucket))

IInv == Types /\ Queried /\ Answered /\ Delivered

-----------------------------------------------------------------------------
(* What the operators return *)

\* Types, with what is assumed of the constants.
LEMMA Typed ==
    ASSUME Types
    PROVE  /\ N \in Nat /\ N > 0 /\ cutoff \in 1..N /\ load \in Nat /\ gpu \in BOOLEAN
           /\ indices \in Seq(0..N - 1)
           /\ \A b \in Buckets : cols[b] \in Nat /\ cols[b] > 0 /\ Size(b) \in 1..N
  BY DpirAssumption DEF Types, Size

\* The keys of a database are the indices it has.
LEMMA KeptKeys ==
    ASSUME Types, NEW b \in Buckets
    PROVE  /\ Kept(b) \in Seq(0..Size(b) - 1)
           /\ Range(Kept(b)) = {e \in Range(indices) : b = Full \/ e < cutoff}
  <1>1. indices \in Seq(0..N - 1) /\ cutoff \in 1..N /\ N \in Nat
    BY Typed
  <1>2. CASE b = Full
    <2>1. Kept(b) = indices /\ Size(b) = N
      BY <1>2 DEF Kept, Size, Full, Popular
    <2>2. QED
      BY <1>1, <1>2, <2>1
  <1>3. CASE b = Popular
    <2> DEFINE keep == [j \in DOMAIN indices |-> indices[j] < cutoff]
               kept == Filtered(indices, keep)
    <2>1. Kept(b) = kept /\ Size(b) = cutoff /\ b # Full
      BY <1>3 DEF Kept, Size, Full, Popular
    <2> HIDE DEF keep
    <2>2. /\ kept \in Seq(0..N - 1)
          /\ Range(kept) = Picked(indices, keep, Len(indices))
      BY <1>1, FilteredKeeps
    <2> HIDE DEF kept
    <2>3. \A j \in 1..Len(indices) : keep[j] = (indices[j] < cutoff)
      <3>1. DOMAIN indices = 1..Len(indices)
        BY <1>1
      <3>2. QED
        BY <3>1, Zenon DEF keep
    <2>4. Range(kept) = {indices[i] : i \in {j \in 1..Len(indices) : indices[j] < cutoff}}
      <3>1. {j \in 1..Len(indices) : keep[j]} = {j \in 1..Len(indices) : indices[j] < cutoff}
        BY <2>3, Zenon
      <3>2. QED
        BY <2>2, <3>1, Zenon DEF Picked
    <2>5. Range(indices) = {indices[i] : i \in 1..Len(indices)}
      BY <1>1, SeqRange
    <2>6. Range(kept) = {e \in Range(indices) : e < cutoff}
      BY <2>4, <2>5
    <2>7. Range(indices) \subseteq 0..N - 1
      BY <1>1, <2>5
    <2>8. Range(kept) \subseteq 0..cutoff - 1
      BY <1>1, <2>6, <2>7
    <2>9. kept \in Seq(0..cutoff - 1)
      BY <2>2, <2>8, SeqRange
    <2>10. QED
      BY <2>1, <2>6, <2>9
  <1>4. QED
    BY <1>2, <1>3 DEF Buckets

\* An entry of a database is at its row and column there.
LEMMA EntryAtPlace ==
    ASSUME Types, NEW b \in Buckets, NEW e \in 0..Size(b) - 1
    PROVE  /\ e % cols[b] \in Nat
           /\ Columns(b)[e % cols[b]][e \div cols[b]] = e
  <1> DEFINE c == cols[b]
             row == e \div c
             col == e % c
  <1>1. c \in Nat /\ c > 0 /\ Size(b) \in 1..N /\ N \in Nat
    BY Typed
  <1> HIDE DEF c
  <1>2. e \in Nat /\ Size(b) - 1 \in Nat /\ e <= Size(b) - 1 /\ e < Size(b)
    BY <1>1
  <1>3. row \in Nat /\ col \in 0..c - 1 /\ row * c + col = e
    BY <1>1, <1>2, PlaceOfEntry
  <1>4. row <= (Size(b) - 1) \div c
    BY <1>1, <1>2, RowsGrow
  <1>5. (Size(b) - 1) \div c \in Nat
    BY <1>1, <1>2, PlaceOfEntry
  <1> HIDE DEF row, col
  <1>6. row \in RowGroups(b)
    BY <1>3, <1>4, <1>5 DEF RowGroups, c
  <1>7. Columns(b)[col][row] = Cell(b, row, col)
    BY <1>3, <1>6 DEF Columns, Column, c
  <1>8. Cell(b, row, col) = e
    BY <1>2, <1>3 DEF Cell, c
  <1>9. QED
    BY <1>3, <1>7, <1>8 DEF row, col, c

\* What is asked for is a sequence of columns, one for each key, and with the
\* dummies there are as many queries as the load.
LEMMA AskedColumns ==
    ASSUME Types, keys = Kept(bucket)
    PROVE  /\ keys \in Seq(0..Size(bucket) - 1)
           /\ Asked \in Seq(Nat) /\ Len(Asked) = Len(keys) /\ Len(keys) \in Nat
           /\ \A j \in 1..Len(keys) : Asked[j] = keys[j] % cols[bucket]
           /\ Len(Asked) + Dummies(bucket) = load
  <1>1. bucket \in Buckets /\ load \in Nat
    BY Typed DEF Types
  <1>2. keys \in Seq(0..Size(bucket) - 1)
    BY <1>1, KeptKeys
  <1>3. DOMAIN keys = 1..Len(keys) /\ Len(keys) \in Nat
    BY <1>2
  <1>4. ASSUME NEW j \in 1..Len(keys) PROVE keys[j] % cols[bucket] \in Nat
    <2>1. keys[j] \in 0..Size(bucket) - 1
      BY <1>2, SeqRange
    <2>2. QED
      BY <1>1, <2>1, EntryAtPlace
  <1>5. Asked \in [1..Len(keys) -> Nat] /\ \A j \in 1..Len(keys) : Asked[j] = keys[j] % cols[bucket]
    BY <1>3, <1>4 DEF Asked
  <1>6. Asked \in Seq(Nat) /\ Len(Asked) = Len(keys)
    BY <1>3, <1>5, FunctionIsSeq
  <1>7. QED
    BY <1>1, <1>2, <1>3, <1>5, <1>6 DEF Dummies

\* What Recover makes of the columns of some keys: their entries.
ResultsOf(columns) ==
    [e \in {keys[j] : j \in DOMAIN columns} |->
       columns[CHOOSE j \in DOMAIN columns :
                 keys[j] = e /\ \A k \in DOMAIN columns : keys[k] = e => k <= j]
              [keys[CHOOSE j \in DOMAIN columns :
                 keys[j] = e /\ \A k \in DOMAIN columns : keys[k] = e => k <= j] \div cols[bucket]]]

LEMMA ResultsAreEntries ==
    ASSUME Types, keys = Kept(bucket), NEW m \in 0..Len(keys)
    PROVE  ResultsOf([j \in 1..m |-> Columns(bucket)[Asked[j]]])
             = [e \in {keys[j] : j \in 1..m} |-> e]
  <1> DEFINE columns == [j \in 1..m |-> Columns(bucket)[Asked[j]]]
             Last(j, e) == keys[j] = e /\ \A k \in DOMAIN columns : keys[k] = e => k <= j
             last(e) == CHOOSE j \in DOMAIN columns : Last(j, e)
  <1>1. /\ bucket \in Buckets /\ keys \in Seq(0..Size(bucket) - 1) /\ m \in Nat
        /\ \A j \in 1..m : j \in 1..Len(keys) /\ Asked[j] = keys[j] % cols[bucket]
                           /\ keys[j] \in 0..Size(bucket) - 1
    <2>1. bucket \in Buckets
      BY DEF Types
    <2>2. /\ keys \in Seq(0..Size(bucket) - 1) /\ Len(keys) \in Nat
          /\ \A j \in 1..Len(keys) : Asked[j] = keys[j] % cols[bucket]
      BY AskedColumns
    <2>3. \A j \in 1..Len(keys) : keys[j] \in 0..Size(bucket) - 1
      BY <2>2, SeqRange
    <2>4. m \in Nat /\ \A j \in 1..m : j \in 1..Len(keys)
      BY <2>2
    <2>5. QED
      BY <2>1, <2>2, <2>3, <2>4, Zenon
  <1>2. DOMAIN columns = 1..m
    OBVIOUS
  <1>3. ASSUME NEW j \in 1..m PROVE columns[j][keys[j] \div cols[bucket]] = keys[j]
    <2>1. columns[j] = Columns(bucket)[keys[j] % cols[bucket]]
      BY <1>1
    <2>2. QED
      BY <1>1, <2>1, EntryAtPlace
  <1> HIDE DEF columns
  <1>4. ASSUME NEW e \in {keys[j] : j \in DOMAIN columns}
        PROVE  \E j \in DOMAIN columns : Last(j, e)
    <2> DEFINE J == {j \in 1..m : keys[j] = e}
    <2>1. PICK i \in J : TRUE
      BY <1>2
    <2>2. J \in SUBSET (1..m)
      OBVIOUS
    <2> HIDE DEF J
    <2>3. PICK j \in J : \A k \in J : k <= j
      BY <1>1, <2>1, <2>2, GreatestNumber
    <2>4. QED
      BY <1>2, <2>3 DEF J
  <1>5. ASSUME NEW e \in {keys[j] : j \in DOMAIN columns}
        PROVE  columns[last(e)][keys[last(e)] \div cols[bucket]] = e
    <2> DEFINE j == last(e)
    <2>1. j \in DOMAIN columns /\ keys[j] = e
      BY <1>4, Zenon
    <2> HIDE DEF j
    <2>2. columns[j][keys[j] \div cols[bucket]] = e
      BY <1>2, <1>3, <2>1
    <2>3. QED
      BY <2>2 DEF j
  <1>6. ResultsOf(columns)
          = [e \in {keys[j] : j \in DOMAIN columns} |->
               columns[last(e)][keys[last(e)] \div cols[bucket]]]
    BY DEF ResultsOf
  <1> HIDE DEF last
  <1>7. ResultsOf(columns) = [e \in {keys[j] : j \in DOMAIN columns} |-> e]
    BY <1>5, <1>6, Zenon
  <1>8. QED
    BY <1>2, <1>7, Zenon DEF columns

\* Recover gets the columns of the first so many keys: of them all, or on a
\* GPU of no more than one.
LEMMA RecoveredColumns ==
    ASSUME Types, Queried, Answered, phase = "recover", types[bucket] # "PBC",
           gpu /\ types[bucket] = "Simple" => load > 0
    PROVE  \E m \in 0..Len(keys) :
             /\ AllLookedAt => m = Len(keys)
             /\ (IF types[bucket] = "Simple" THEN Recovered(secrets, answers, gpu)
                 ELSE LocalRecovered(secrets, Columns(bucket)))
                  = [j \in 1..m |-> Columns(bucket)[Asked[j]]]
  <1>1. keys = Kept(bucket) /\ Dummies(bucket) \in Nat
    BY DEF Queried
  <1>2. /\ Asked \in Seq(Nat) /\ Len(Asked) = Len(keys) /\ Len(keys) \in Nat
        /\ Len(Asked) + Dummies(bucket) = load
    BY <1>1, AskedColumns
  <1>3. gpu \in BOOLEAN
    BY Typed
  <1>4. CASE types[bucket] = "Simple"
    <2> DEFINE m == Recoverable(gpu, Len(Asked))
    <2>1. secrets = SecretsFor(Asked, Dummies(bucket))
          /\ answers = AnswersTo(QueriesFor(Asked, Dummies(bucket)), gpu, Columns(bucket))
      BY <1>4 DEF Queried, Answered
    <2>2. gpu => Len(Asked) + Dummies(bucket) > 0
      BY <1>2, <1>4
    <2>3. Recovered(SecretsFor(Asked, Dummies(bucket)),
                    AnswersTo(QueriesFor(Asked, Dummies(bucket)), gpu, Columns(bucket)), gpu)
            = [j \in 1..m |-> Columns(bucket)[Asked[j]]]
      BY <1>1, <1>2, <1>3, <2>2, RecoversColumns
    <2>4. m \in 0..Len(keys) /\ (AllLookedAt => m = Len(keys))
      BY <1>2, <1>4 DEF Recoverable, AllLookedAt
    <2> HIDE DEF m
    <2>5. QED
      BY <1>4, <2>1, <2>3, <2>4
  <1>5. CASE types[bucket] = "Local"
    <2>1. secrets = LocalSecretsFor(Asked, Dummies(bucket))
      BY <1>5 DEF Queried
    <2>2. LocalRecovered(secrets, Columns(bucket)) = [j \in 1..Len(Asked) |-> Columns(bucket)[Asked[j]]]
      BY <1>1, <1>2, <2>1, LocalRecoversColumns
    <2>3. Len(keys) \in 0..Len(keys)
      BY <1>2
    <2>4. QED
      BY <1>2, <1>5, <2>2, <2>3
  <1>6. types[bucket] \in {"Simple", "Local"}
    BY DEF Types, PirTypes
  <1>7. QED
    BY <1>4, <1>5, <1>6

\* What RecoverLhe returns, of all keys or on a GPU of the first.
LEMMA RecoverLheResults ==
    ASSUME IInv, RecoverLhe, gpu /\ types[bucket] = "Simple" => load > 0
    PROVE  \E found \in SUBSET Range(keys) :
             /\ results' = [e \in found |-> e]
             /\ AllLookedAt => found = Range(keys)
  <1> DEFINE columns == IF types[bucket] = "Simple" THEN Recovered(secrets, answers, gpu)
                        ELSE LocalRecovered(secrets, Columns(bucket))
  <1>1. results' = ResultsOf(columns)
    BY DEF RecoverLhe, ResultsOf
  <1>2. PICK m \in 0..Len(keys) :
          /\ AllLookedAt => m = Len(keys)
          /\ columns = [j \in 1..m |-> Columns(bucket)[Asked[j]]]
    BY RecoveredColumns DEF IInv, RecoverLhe
  <1>3. keys = Kept(bucket) /\ Types
    BY DEF IInv, Queried, RecoverLhe
  <1>4. keys \in Seq(0..Size(bucket) - 1) /\ Len(keys) \in Nat
    BY <1>3, AskedColumns
  <1> HIDE DEF columns
  <1>5. results' = [e \in {keys[j] : j \in 1..m} |-> e]
    BY <1>1, <1>2, <1>3, ResultsAreEntries
  <1>6. Range(keys) = {keys[j] : j \in 1..Len(keys)}
    BY <1>4, SeqRange
  <1>7. {keys[j] : j \in 1..m} \subseteq Range(keys)
    BY <1>4, <1>6
  <1>8. AllLookedAt => {keys[j] : j \in 1..m} = Range(keys)
    BY <1>2, <1>6
  <1>9. QED
    BY <1>5, <1>7, <1>8, Zenon

-----------------------------------------------------------------------------
(* The invariant is inductive *)

LEMMA InitIInv == Init => IInv
  <1> SUFFICES ASSUME Init PROVE IInv
    OBVIOUS
  <1>1. Types
    BY DEF Init, Types, Buckets, Popular, Full
  <1>2. Queried /\ Answered /\ Delivered
    BY DEF Init, Queried, Answered, Delivered, Retrieval!NoResults
  <1>3. QED
    BY <1>1, <1>2 DEF IInv

\* What only reads what a step leaves alone.
LEMMA SameParams ==
    ASSUME UNCHANGED <<params, indices>>
    PROVE  \A b : Kept(b)' = Kept(b) /\ Dummies(b)' = Dummies(b) /\ Columns(b)' = Columns(b)
  BY DEF params, Kept, Dummies, Columns, Column, RowGroups, Cell, Size

LEMMA SameAsked ==
    ASSUME UNCHANGED <<params, indices, bucket, keys>>
    PROVE  /\ Asked' = Asked /\ Kept(bucket)' = Kept(bucket)
           /\ Dummies(bucket)' = Dummies(bucket) /\ Columns(bucket)' = Columns(bucket)
           /\ AllLookedAt' = AllLookedAt /\ types[bucket]' = types[bucket] /\ gpu' = gpu
  <1>1. Asked' = Asked /\ AllLookedAt' = AllLookedAt /\ types[bucket]' = types[bucket] /\ gpu' = gpu
    BY DEF params, Asked, AllLookedAt
  <1>2. QED
    BY <1>1, SameParams DEF params, Kept, Dummies, Columns, Column, RowGroups, Cell, Size

LEMMA QueryLheKeeps == IInv /\ QueryLhe => IInv'
  <1> SUFFICES ASSUME IInv, QueryLhe PROVE IInv'
    OBVIOUS
  <1>1. PICK b \in Buckets :
          /\ types[b] # "PBC" /\ ~Overloaded(b) /\ bucket' = b /\ keys' = Kept(b)
          /\ LET columns == [j \in DOMAIN keys' |-> keys'[j] % cols[b]]
             IN \/ /\ types[b] = "Simple"
                   /\ queries' = QueriesFor(columns, Dummies(b))
                   /\ secrets' = SecretsFor(columns, Dummies(b))
                \/ /\ types[b] = "Local"
                   /\ queries' = LocalQueriesFor(columns, Dummies(b))
                   /\ secrets' = LocalSecretsFor(columns, Dummies(b))
    BY DEF QueryLhe
  <1>2. phase' = "answer" /\ UNCHANGED <<params, indices, answers, results>> /\ phase = "query"
    BY DEF QueryLhe
  <1>3. Types'
    BY <1>1, <1>2 DEF IInv, Types, params
  <1>4. Asked' = [j \in DOMAIN keys' |-> keys'[j] % cols[b]]
    BY <1>1, <1>2 DEF Asked, params
  <1>5. Dummies(b)' = Dummies(b) /\ Kept(b)' = Kept(b) /\ types' = types
    BY <1>2, SameParams DEF params
  <1>6. Dummies(b) \in Nat
    <2>1. Kept(b) \in Seq(0..Size(b) - 1) /\ load \in Nat
      BY KeptKeys, Typed DEF IInv
    <2>2. Len(Kept(b)) \in Nat
      BY <2>1
    <2>3. QED
      BY <1>1, <2>1, <2>2 DEF Overloaded, Dummies
  <1>7. Kept(bucket)' = Kept(b) /\ Dummies(bucket)' = Dummies(b) /\ types'[bucket'] = types[b]
    BY <1>1, <1>2, <1>5 DEF params, Kept, Dummies
  <1>8. Queried'
    <2>1. keys' = Kept(bucket)' /\ Dummies(bucket)' \in Nat
      BY <1>1, <1>6, <1>7
    <2>2. types'[bucket'] = "Simple" =>
            /\ queries' = QueriesFor(Asked', Dummies(bucket)')
            /\ secrets' = SecretsFor(Asked', Dummies(bucket)')
      BY <1>1, <1>4, <1>7
    <2>3. types'[bucket'] = "Local" => secrets' = LocalSecretsFor(Asked', Dummies(bucket)')
      BY <1>1, <1>4, <1>7
    <2>4. QED
      BY <2>1, <2>2, <2>3, Zenon DEF Queried
  <1>9. Answered' /\ Delivered'
    BY <1>2 DEF IInv, Answered, Delivered, Retrieval!NoResults
  <1>10. QED
    BY <1>3, <1>8, <1>9 DEF IInv

LEMMA QueryPanicsKeeps == IInv /\ QueryPanics => IInv'
  <1> SUFFICES ASSUME IInv, QueryPanics PROVE IInv'
    OBVIOUS
  <1>1. phase = "query" /\ phase' = "panic"
        /\ UNCHANGED <<params, indices, bucket, keys, secrets, queries, answers, results>>
    BY DEF QueryPanics
  <1>2. Types'
    BY <1>1 DEF IInv, Types, params
  <1>3. Queried' /\ Answered' /\ Delivered'
    BY <1>1 DEF IInv, Queried, Answered, Delivered, Retrieval!NoResults
  <1>4. QED
    BY <1>2, <1>3 DEF IInv

LEMMA QueryBatchKeeps == IInv /\ QueryBatch => IInv'
  <1> SUFFICES ASSUME IInv, QueryBatch PROVE IInv'
    OBVIOUS
  <1>1. PICK b \in Buckets : types[b] = "PBC" /\ bucket' = b /\ keys' = Kept(b)
    BY DEF QueryBatch
  <1>2. phase' = "answer" /\ phase = "query"
        /\ UNCHANGED <<params, indices, secrets, queries, answers, results>>
    BY DEF QueryBatch
  <1>3. Types'
    BY <1>1, <1>2 DEF IInv, Types, params
  <1>4. Kept(bucket)' = Kept(b) /\ types'[bucket'] = "PBC"
    BY <1>1, <1>2 DEF params, Kept
  <1>5. Queried'
    BY <1>1, <1>4 DEF Queried
  <1>6. Answered' /\ Delivered'
    BY <1>2 DEF IInv, Answered, Delivered, Retrieval!NoResults
  <1>7. QED
    BY <1>3, <1>5, <1>6 DEF IInv

LEMMA AnswerKeeps == IInv /\ Answer => IInv'
  <1> SUFFICES ASSUME IInv, Answer PROVE IInv'
    OBVIOUS
  <1>1. phase = "answer" /\ phase' = "recover"
        /\ UNCHANGED <<params, indices, bucket, keys, secrets, queries, results>>
    BY DEF Answer
  <1>2. Types'
    BY <1>1 DEF IInv, Types, params
  <1>3. /\ Asked' = Asked /\ Kept(bucket)' = Kept(bucket)
        /\ Dummies(bucket)' = Dummies(bucket) /\ Columns(bucket)' = Columns(bucket)
        /\ types'[bucket'] = types[bucket] /\ gpu' = gpu
    BY <1>1, SameAsked DEF params
  <1>4. Queried'
    <2>1. /\ keys = Kept(bucket)
          /\ types[bucket] # "PBC" => Dummies(bucket) \in Nat
          /\ types[bucket] = "Simple" =>
               /\ queries = QueriesFor(Asked, Dummies(bucket))
               /\ secrets = SecretsFor(Asked, Dummies(bucket))
          /\ types[bucket] = "Local" => secrets = LocalSecretsFor(Asked, Dummies(bucket))
      BY <1>1 DEF IInv, Queried
    <2>2. keys' = keys /\ queries' = queries /\ secrets' = secrets
      BY <1>1
    <2>3. QED
      BY <1>3, <2>1, <2>2 DEF Queried
  <1>5. Answered'
    <2>1. types[bucket] = "Simple" => answers' = AnswersTo(queries, gpu, Columns(bucket))
      BY DEF Answer
    <2>2. QED
      BY <1>1, <1>3, <2>1 DEF Answered
  <1>6. Delivered'
    BY <1>1 DEF IInv, Delivered, Retrieval!NoResults
  <1>7. QED
    BY <1>2, <1>4, <1>5, <1>6 DEF IInv

LEMMA RecoverLheKeeps == IInv /\ RecoverLhe => IInv'
  <1> SUFFICES ASSUME IInv, RecoverLhe PROVE IInv'
    OBVIOUS
  <1>1. phase = "recover" /\ phase' = "done"
        /\ UNCHANGED <<params, indices, bucket, keys, secrets, queries, answers>>
    BY DEF RecoverLhe
  <1>2. Types'
    BY <1>1 DEF IInv, Types, params
  <1>3. Queried' /\ Answered'
    BY <1>1 DEF Queried, Answered
  <1>4. Kept(bucket)' = Kept(bucket) /\ AllLookedAt' = AllLookedAt
    BY <1>1, SameAsked DEF params
  <1>5. AllLookedAt => DOMAIN results' = Range(Kept(bucket))
    <2> SUFFICES ASSUME AllLookedAt PROVE DOMAIN results' = Range(Kept(bucket))
      OBVIOUS
    <2>1. ~(gpu /\ types[bucket] = "Simple")
      BY DEF AllLookedAt
    <2>2. results' = [e \in Range(keys) |-> e]
      BY <2>1, RecoverLheResults
    <2>3. keys = Kept(bucket)
      BY <1>1 DEF IInv, Queried
    <2>4. QED
      BY <2>2, <2>3
  <1>6. Delivered'
    BY <1>1, <1>4, <1>5 DEF Delivered
  <1>7. QED
    BY <1>2, <1>3, <1>6 DEF IInv

LEMMA RecoverBatchKeeps == IInv /\ RecoverBatch => IInv'
  <1> SUFFICES ASSUME IInv, RecoverBatch PROVE IInv'
    OBVIOUS
  <1>1. phase = "recover" /\ phase' = "done" /\ types[bucket] = "PBC"
        /\ UNCHANGED <<params, indices, bucket, keys, secrets, queries, answers>>
    BY DEF RecoverBatch
  <1>2. Types'
    BY <1>1 DEF IInv, Types, params
  <1>3. Queried' /\ Answered'
    BY <1>1 DEF Queried, Answered
  <1>4. AllLookedAt' = AllLookedAt /\ ~AllLookedAt
    BY <1>1, SameAsked DEF params, AllLookedAt
  <1>5. Delivered'
    BY <1>1, <1>4 DEF Delivered
  <1>6. QED
    BY <1>2, <1>3, <1>5 DEF IInv

LEMMA StepIInv == IInv /\ [Next]_vars => IInv'
  <1> SUFFICES ASSUME IInv, [Next]_vars PROVE IInv'
    OBVIOUS
  <1>1. CASE UNCHANGED vars
    <2>1. UNCHANGED <<params, indices, bucket, keys, secrets, queries, answers, results, phase>>
      BY <1>1 DEF vars
    <2>2. Types'
      BY <2>1 DEF IInv, Types, params
    <2>3. /\ Asked' = Asked /\ Kept(bucket)' = Kept(bucket)
          /\ Dummies(bucket)' = Dummies(bucket) /\ Columns(bucket)' = Columns(bucket)
          /\ types'[bucket'] = types[bucket] /\ gpu' = gpu /\ AllLookedAt' = AllLookedAt
      BY <2>1, SameAsked DEF params
    <2>4. Queried'
      BY <2>1, <2>3 DEF IInv, Queried
    <2>5. Answered'
      BY <2>1, <2>3 DEF IInv, Answered
    <2>6. Delivered'
      BY <2>1, <2>3 DEF IInv, Delivered, Retrieval!NoResults
    <2>7. QED
      BY <2>2, <2>4, <2>5, <2>6 DEF IInv
  <1>2. QED
    BY <1>1, QueryLheKeeps, QueryPanicsKeeps, QueryBatchKeeps, AnswerKeeps, RecoverLheKeeps,
       RecoverBatchKeeps DEF Next

LEMMA SpecIInv == Spec => []IInv
  BY InitIInv, StepIInv, PTL DEF Spec

-----------------------------------------------------------------------------
(* Theorems *)

\* Whatever the cutoff, the load and the coin: every index asked for that the
\* database has is delivered, but for the batches of the LHE scheme on a GPU,
\* of which Recover looks at the first query only.
THEOREM ServesAll == Spec => [](AllLookedAt => LheServesAll)
  <1>1. ASSUME IInv, AllLookedAt PROVE LheServesAll
    <2> SUFFICES ASSUME phase = "done"
                 PROVE  DOMAIN results = {e \in Range(indices) : bucket = Full \/ e < cutoff}
      BY DEF LheServesAll
    <2>1. DOMAIN results = Range(Kept(bucket))
      BY <1>1 DEF IInv, Delivered
    <2>2. Types /\ bucket \in Buckets
      BY <1>1 DEF IInv, Types
    <2>3. QED
      BY <2>1, <2>2, KeptKeys
  <1>2. IInv => (AllLookedAt => LheServesAll)
    BY <1>1
  <1>3. QED
    BY <1>2, SpecIInv, PTL

\* Both databases' schemes, and the choice between the databases, implement
\* the abstract retrieval: what is delivered is some of what was asked for,
\* each entry with its own value, at once.  On a GPU Recover reads an answer
\* that an empty batch does not have.
THEOREM RetrievalImplemented ==
    ASSUME TRUE \notin GPUs \/ 0 \notin Loads
    PROVE  Spec => ImplementsRetrieval
  <1>1. Init => Retrieval!Init
    BY DEF Init, Retrieval!Init, Retrieval!NoResults
  <1>2. ASSUME IInv, [Next]_vars PROVE [Retrieval!Deliver]_(Retrieval!vars)
    <2>1. ASSUME phase = "recover", phase' = "done", UNCHANGED indices,
                 NEW found \in SUBSET Range(Kept(bucket)), results' = [e \in found |-> e]
          PROVE  Retrieval!Deliver
      <3>1. Types /\ bucket \in Buckets
        BY <1>2 DEF IInv, Types
      <3>2. Range(Kept(bucket)) \subseteq Range(indices)
        BY <3>1, KeptKeys
      <3>3. \E f \in SUBSET Range(indices) : results' = [e \in f |-> e]
        BY <2>1, <3>2
      <3>4. QED
        BY <2>1, <3>3 DEF Retrieval!Deliver
    <2>2. ASSUME phase = "recover" PROVE keys = Kept(bucket)
      BY <1>2, <2>2 DEF IInv, Queried
    <2>3. CASE RecoverLhe
      <3>1. gpu => load > 0
        <4>1. Types
          BY <1>2 DEF IInv
        <4>2. load \in Nat /\ load \in Loads
          BY <4>1, Typed DEF Types
        <4>3. gpu => gpu = TRUE
          BY <4>1, Typed, Zenon
        <4>4. gpu \in GPUs
          BY <4>1, Zenon DEF Types
        <4>5. gpu => 0 \notin Loads
          BY <4>3, <4>4, Zenon
        <4>6. QED
          BY <4>2, <4>5
      <3>2. PICK found \in SUBSET Range(keys) : results' = [e \in found |-> e]
        BY <1>2, <2>3, <3>1, RecoverLheResults
      <3>3. phase = "recover" /\ phase' = "done" /\ UNCHANGED indices
        BY <2>3 DEF RecoverLhe
      <3>4. found \in SUBSET Range(Kept(bucket))
        BY <2>2, <3>2, <3>3
      <3>5. QED
        BY <2>1, <3>2, <3>3, <3>4
    <2>4. CASE RecoverBatch
      <3>1. PICK found \in SUBSET Range(keys) : results' = [e \in found |-> e]
        BY <2>4 DEF RecoverBatch, Batch!Deliver
      <3>2. phase = "recover" /\ phase' = "done" /\ UNCHANGED indices
        BY <2>4 DEF RecoverBatch
      <3>3. found \in SUBSET Range(Kept(bucket))
        BY <2>2, <3>1, <3>2
      <3>4. QED
        BY <2>1, <3>1, <3>2, <3>3
    <2>5. CASE QueryLhe \/ QueryPanics \/ QueryBatch \/ Answer
      <3>1. UNCHANGED <<indices, results>> /\ phase # "done" /\ phase' # "done"
        BY <2>5 DEF QueryLhe, QueryPanics, QueryBatch, Answer
      <3>2. QED
        BY <3>1 DEF Retrieval!vars
    <2>6. CASE UNCHANGED vars
      BY <2>6 DEF vars, Retrieval!vars
    <2>7. QED
      BY <1>2, <2>3, <2>4, <2>5, <2>6 DEF Next
  <1>3. QED
    BY <1>1, <1>2, SpecIInv, PTL DEF Spec, ImplementsRetrieval, Retrieval!Safety
=============================================================================
