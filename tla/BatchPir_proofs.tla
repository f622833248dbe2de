--------------------------- MODULE BatchPir_proofs ---------------------------
(***************************************************************************)
(* Proofs about batch PIR from end to end, for every number of entries and *)
(* buckets, width of a matrix, code the server is made with and outcome of *)
(* the hash functions: where an entry is, what the server sees of a batch, *)
(* what Recover delivers and when it misses an entry.                      *)
(***************************************************************************)
EXTENDS BatchPir, LheScheme_proofs, FiniteSetTheorems

-----------------------------------------------------------------------------
(* The inductive invariant *)

Types ==
    /\ choices \in [Entries -> ChoiceLists(ServerMode, Buckets)]
    /\ encoded \in 0..N /\ buckets \in [Buckets -> Seq(Entries)]
    /\ DOMAIN mapping = Entries
    /\ mode = "Hash" /\ indices \in Seq(Entries) /\ indices \in Batches
    /\ phase \in {"encode", "pack", "init", "schedule", "answer", "recover", "done"}
    /\ phase # "encode" => encoded = N
    /\ phase \notin {"encode", "pack"} => cols \in [Buckets -> 1..MaxCols]

\* A place is a number, from 0.
Places == \A e \in 0..encoded - 1 : \A b \in Range(choices[e]) : mapping[e][b] \in Nat

\* The bucket whose key a client of a server in any mode makes an entry.
First(e) == choices[e][1]

\* The first n positions of the batch whose keys go to a bucket.
Sharing(b, n) == {i \in 1..n : First(indices[i]) = b}

\* The schedule, which is that of plain hashing.
Scheduling ==
    /\ hand = NoKey /\ pos \in 1..Len(indices) + 1 /\ result \in {"running", "schedule"}
    /\ schedule \in [Buckets -> Seq(Entries)]
    /\ result = "schedule" => pos = Len(indices) + 1
    /\ phase \in {"answer", "recover", "done"} => result = "schedule"

\* No bucket has more keys than queries, nor than there are keys that go there.
Counted ==
    \A b \in Buckets : /\ Len(schedule[b]) <= P
                       /\ Len(schedule[b]) <= Cardinality(Sharing(b, pos - 1))

\* A bucket has keys that go there, and that were asked for.
Placed == \A b \in Buckets : \A e \in Range(schedule[b]) : First(e) = b /\ e \in Asked

\* A key that was not placed is one of too many.
Excess ==
    \A i \in 1..pos - 1 :
        \/ indices[i] \in Range(schedule[First(indices[i])])
        \/ Cardinality(Sharing(First(indices[i]), pos - 1)) > P

\* The columns asked of a bucket, and the bucket's matrix.
ColumnsOf(b) == [j \in DOMAIN schedule[b] |-> ColumnOf(schedule[b][j], b)]
Matrix(b) == [c \in 0..cols[b] - 1 |-> [r \in RowGroups(b) |-> Cell(b, r, c)]]

Queried ==
    phase \in {"answer", "recover", "done"} =>
        \A b \in Buckets : /\ queries[b] = QueriesFor(ColumnsOf(b), Remaining(b))
                           /\ secrets[b] = SecretsFor(ColumnsOf(b), Remaining(b))

Answered ==
    phase = "recover" =>
        \A b \in Buckets : answers[b] = AnswersTo(queries[b], FALSE, Matrix(b))

\* What was scheduled is delivered.
Scheduled == UNION {Range(schedule[b]) : b \in Buckets}
Delivered ==
    /\ phase # "done" => results = Retrieval!NoResults
    /\ phase = "done" => DOMAIN results = Scheduled

IInv ==
    /\ Types /\ Places /\ MappingLocates
    /\ Scheduling /\ Counted /\ Placed /\ Excess
    /\ Queried /\ Answered /\ Delivered

-----------------------------------------------------------------------------
(* Choices, places and matrices *)

\* An entry's first choice is one of its buckets, and the client derives it.
LEMMA FirstIsBucket ==
    ASSUME Types, NEW e \in Entries
    PROVE  /\ First(e) \in Buckets /\ First(e) \in Range(choices[e])
           /\ Range(choices[e]) \subseteq Buckets
           /\ ClientChoices[e][1] = First(e)
  <1> DEFINE n == NumChoices(ServerMode)
             c == choices[e]
  <1>1. n \in Nat /\ n >= 1 /\ NumChoices(mode) = 1
    BY ModeAssumption, BatchPirAssumption DEF Types, Mode, NumChoices
  <1>2. c \in [1..n -> Buckets]
    BY DEF Types, ChoiceLists
  <1> HIDE DEF n, c
  <1>3. c[1] \in Buckets /\ c[1] \in Range(c) /\ Range(c) \subseteq Buckets
    BY <1>1, <1>2 DEF Range
  <1>4. c \in Seq(Buckets) /\ Len(c) = n
    BY <1>1, <1>2, FunctionIsSeq
  <1>5. SubSeq(c, 1, 1)[1] = c[1]
    BY <1>1, <1>4
  <1>6. ClientChoices[e] = SubSeq(c, 1, 1)
    BY <1>1 DEF ClientChoices, c
  <1>7. QED
    BY <1>3, <1>5, <1>6 DEF First, c

\* An entry is where mapping says: at its row and column of the matrix.
LEMMA EntryAtPlace ==
    ASSUME IInv, encoded = N, cols \in [Buckets -> 1..MaxCols],
           NEW e \in Entries, NEW b \in Range(choices[e])
    PROVE  /\ ColumnOf(e, b) \in Nat
           /\ Matrix(b)[ColumnOf(e, b)][mapping[e][b] \div cols[b]] = e
  <1> DEFINE c == cols[b]
             place == mapping[e][b]
             n == Len(buckets[b])
             row == place \div c
             col == place % c
  <1>1. b \in Buckets /\ e \in 0..encoded - 1 /\ N \in Nat
    BY FirstIsBucket, BatchPirAssumption DEF IInv, Entries
  <1>2. c \in Nat /\ c > 0 /\ buckets[b] \in Seq(Entries) /\ n \in Nat
    BY <1>1, BatchPirAssumption DEF IInv, Types
  <1>3. place \in Nat /\ place + 1 \in DOMAIN buckets[b] /\ buckets[b][place + 1] = e
    <2>1. place \in Nat
      BY <1>1 DEF IInv, Places
    <2>2. DOMAIN mapping[e] = Range(choices[e])
      BY <1>1 DEF IInv, MappingLocates
    <2>3. \E i \in DOMAIN buckets[b] : i = place + 1 /\ buckets[b][i] = e
      BY <1>1, <2>2 DEF IInv, MappingLocates
    <2>4. QED
      BY <2>1, <2>3
  <1>4. place < n /\ n - 1 \in Nat /\ place <= n - 1
    BY <1>2, <1>3
  <1> HIDE DEF c, place, n
  <1>5. row \in Nat /\ col \in 0..c - 1 /\ row * c + col = place
    BY <1>2, <1>3, PlaceOfEntry
  <1>6. row <= (n - 1) \div c /\ (n - 1) \div c \in Nat
    BY <1>2, <1>3, <1>4, PlaceOfEntry, RowsGrow
  <1> HIDE DEF row, col
  <1>7. row \in RowGroups(b)
    BY <1>5, <1>6 DEF RowGroups, c, n
  <1>8. Matrix(b)[col][row] = Cell(b, row, col)
    BY <1>5, <1>7 DEF Matrix, c
  <1>9. Cell(b, row, col) = e
    BY <1>3, <1>4, <1>5 DEF Cell, c, n
  <1>10. ColumnOf(e, b) = col /\ mapping[e][b] \div cols[b] = row
    BY DEF ColumnOf, col, row, c, place
  <1>11. QED
    BY <1>5, <1>8, <1>9, <1>10

\* The columns asked of a bucket are numbers, one for each key, and with the
\* dummies every bucket gets P queries.
LEMMA AskedColumns ==
    ASSUME IInv, encoded = N, cols \in [Buckets -> 1..MaxCols], NEW b \in Buckets
    PROVE  /\ ColumnsOf(b) \in Seq(Nat) /\ Len(ColumnsOf(b)) = Len(schedule[b])
           /\ Remaining(b) \in Nat /\ Len(schedule[b]) \in Nat
           /\ Len(ColumnsOf(b)) + Remaining(b) = P
           /\ \A j \in 1..Len(schedule[b]) :
                /\ schedule[b][j] \in Entries /\ b \in Range(choices[schedule[b][j]])
                /\ ColumnsOf(b)[j] = ColumnOf(schedule[b][j], b)
  <1> DEFINE s == schedule[b]
             n == Len(s)
  <1>1. s \in Seq(Entries) /\ n \in Nat /\ DOMAIN s = 1..n /\ n <= P
    BY DEF IInv, Scheduling, Counted
  <1>2. ASSUME NEW j \in 1..n
        PROVE  s[j] \in Entries /\ b \in Range(choices[s[j]])
    <2>1. s[j] \in Entries /\ s[j] \in Range(s)
      BY <1>1, SeqRange
    <2>2. First(s[j]) = b
      BY <2>1 DEF IInv, Placed
    <2>3. QED
      BY <2>1, <2>2, FirstIsBucket DEF IInv
  <1>3. \A j \in 1..n : ColumnOf(s[j], b) \in Nat
    BY <1>2, EntryAtPlace
  <1>4. ColumnsOf(b) = [j \in 1..n |-> ColumnOf(s[j], b)]
    BY <1>1 DEF ColumnsOf
  <1>5. ColumnsOf(b) \in [1..n -> Nat] /\ \A j \in 1..n : ColumnsOf(b)[j] = ColumnOf(s[j], b)
    BY <1>3, <1>4
  <1>6. ColumnsOf(b) \in Seq(Nat) /\ Len(ColumnsOf(b)) = n
    BY <1>1, <1>5, FunctionIsSeq
  <1>7. Remaining(b) = P - n
    BY DEF IInv, Types, Remaining, NumQueriesPer
  <1>8. QED
    BY <1>1, <1>2, <1>5, <1>6, <1>7, ModeAssumption

-----------------------------------------------------------------------------
(* What the steps leave alone *)

LEMMA PlacesKept ==
    ASSUME IInv, UNCHANGED <<choices, encoded, buckets, mapping>>
    PROVE  Places' /\ MappingLocates'
  BY DEF IInv, Places, MappingLocates

LEMMA ScheduleKept ==
    ASSUME IInv, UNCHANGED <<choices, indices, pos, schedule, hand, result>>,
           phase' \in {"answer", "recover", "done"} => result = "schedule"
    PROVE  Scheduling' /\ Counted' /\ Placed' /\ Excess'
  <1>1. Scheduling'
    BY DEF IInv, Scheduling
  <1>2. \A b, n : Sharing(b, n)' = Sharing(b, n)
    BY DEF Sharing, First
  <1>3. \A e : First(e)' = First(e)
    BY DEF First
  <1>4. Counted'
    BY <1>2 DEF IInv, Counted, Sharing, First
  <1>5. Placed'
    BY <1>3 DEF IInv, Placed, Asked, First
  <1>6. Excess'
    BY <1>2, <1>3 DEF IInv, Excess, Sharing, First
  <1>7. QED
    BY <1>1, <1>4, <1>5, <1>6

LEMMA QueriesKept ==
    ASSUME UNCHANGED <<schedule, mapping, cols, mode>>
    PROVE  \A b : ColumnsOf(b)' = ColumnsOf(b) /\ Remaining(b)' = Remaining(b)
  BY DEF ColumnsOf, ColumnOf, Remaining

LEMMA MatrixKept ==
    ASSUME UNCHANGED <<cols, buckets>>
    PROVE  \A b : Matrix(b)' = Matrix(b)
  BY DEF Matrix, RowGroups, Cell

-----------------------------------------------------------------------------
(* Encoding *)

LEMMA InitIInv == Init => IInv
  <1> SUFFICES ASSUME Init PROVE IInv
    OBVIOUS
  <1>1. 0 \in 0..N /\ 0..0 - 1 = {} /\ 1..1 - 1 = {}
    BY BatchPirAssumption
  <1>2. Types
    <2>1. Nothing \in [Buckets -> Seq(Entries)]
      BY DEF Nothing
    <2>2. indices \in Seq(Entries) /\ indices \in Batches
      BY BatchPirAssumption DEF Init, Entries
    <2>3. QED
      BY <1>1, <2>1, <2>2 DEF Init, Types, ZeroMode
  <1>3. Places /\ MappingLocates
    BY <1>1 DEF Init, Places, MappingLocates
  <1>4. pos = 1 /\ hand = NoKey /\ result = "running" /\ schedule = [b \in Buckets |-> <<>>]
    BY DEF Init, Schedule!Start
  <1>5. Scheduling
    BY <1>2, <1>4 DEF Init, Types, Scheduling
  <1>6. \A b : Sharing(b, pos - 1) = {}
    BY <1>1, <1>4 DEF Sharing
  <1>7. Counted
    BY <1>4, <1>6, FS_EmptySet, ModeAssumption DEF Counted
  <1>8. Placed
    BY <1>4 DEF Placed, Range
  <1>9. Excess
    BY <1>1, <1>4 DEF Excess
  <1>10. Queried /\ Answered /\ Delivered
    BY DEF Init, Queried, Answered, Delivered, Retrieval!NoResults
  <1>11. QED
    BY <1>2, <1>3, <1>5, <1>7, <1>8, <1>9, <1>10 DEF IInv

LEMMA EncodeEntryKeeps == IInv /\ EncodeEntry => IInv'
  <1> SUFFICES ASSUME IInv, EncodeEntry PROVE IInv'
    OBVIOUS
  <1> DEFINE mine == Range(choices[encoded])
  <1>1. /\ phase = "encode" /\ encoded \in Entries /\ encoded' = encoded + 1 /\ N \in Nat
        /\ phase' = IF encoded' = N THEN "pack" ELSE "encode"
        /\ mapping' = [mapping EXCEPT ![encoded] = [b \in mine |-> Len(buckets[b])]]
        /\ buckets' = [b \in Buckets |->
              IF b \in mine THEN Append(buckets[b], encoded) ELSE buckets[b]]
        /\ UNCHANGED <<choices, cols, mode, scheduleVars, secrets, results, queries, answers>>
    BY BatchPirAssumption DEF EncodeEntry, IInv, Types, Entries
  <1>2. mine \subseteq Buckets
    BY <1>1, FirstIsBucket DEF IInv
  <1>3. /\ encoded \in Nat /\ encoded <= N /\ buckets \in [Buckets -> Seq(Entries)]
        /\ DOMAIN mapping = Entries
    BY <1>1 DEF IInv, Types, Entries
  <1> HIDE DEF mine
  <1>4. \A b \in Buckets :
           /\ buckets'[b] \in Seq(Entries) /\ Len(buckets[b]) \in Nat
           /\ \A i \in DOMAIN buckets[b] : i \in DOMAIN buckets'[b] /\ buckets'[b][i] = buckets[b][i]
           /\ b \in mine => /\ Len(buckets[b]) + 1 \in DOMAIN buckets'[b]
                            /\ buckets'[b][Len(buckets[b]) + 1] = encoded
    BY <1>1, <1>3
  <1>5. Types'
    <2>1. encoded' \in 0..N /\ (phase' # "encode" => encoded' = N)
      BY <1>1, <1>3 DEF Entries
    <2>2. buckets' \in [Buckets -> Seq(Entries)] /\ DOMAIN mapping' = Entries
      BY <1>1, <1>3, <1>4
    <2>3. phase' \in {"encode", "pack"}
      BY <1>1
    <2>4. QED
      BY <1>1, <2>1, <2>2, <2>3 DEF IInv, Types, scheduleVars
  <1>6. /\ mapping'[encoded] = [b \in mine |-> Len(buckets[b])]
        /\ \A e \in 0..encoded - 1 : e \in Entries /\ mapping'[e] = mapping[e]
        /\ \A e \in 0..encoded' - 1 : e = encoded \/ e \in 0..encoded - 1
    BY <1>1, <1>3 DEF Entries
  <1>7. Places'
    <2> SUFFICES ASSUME NEW e \in 0..encoded' - 1, NEW b \in Range(choices[e])
                 PROVE  mapping'[e][b] \in Nat
      BY <1>1 DEF Places
    <2>1. CASE e = encoded
      BY <1>2, <1>4, <1>6, <2>1 DEF mine
    <2>2. CASE e \in 0..encoded - 1
      BY <1>6, <2>2 DEF IInv, Places
    <2>3. QED
      BY <1>6, <2>1, <2>2
  <1>8. MappingLocates'
    <2> SUFFICES ASSUME NEW e \in 0..encoded' - 1
                 PROVE  /\ DOMAIN mapping'[e] = Range(choices[e])
                        /\ \A b \in DOMAIN mapping'[e] :
                             \E i \in DOMAIN buckets'[b] :
                                i = mapping'[e][b] + 1 /\ buckets'[b][i] = e
      BY <1>1 DEF MappingLocates
    <2>1. CASE e = encoded
      <3>1. DOMAIN mapping'[e] = mine /\ \A b \in mine : mapping'[e][b] = Len(buckets[b])
        BY <1>6, <2>1
      <3>2. QED
        BY <1>2, <1>4, <2>1, <3>1 DEF mine
    <2>2. CASE e \in 0..encoded - 1
      <3>1. /\ DOMAIN mapping[e] = Range(choices[e]) /\ mapping'[e] = mapping[e] /\ e \in Entries
            /\ \A b \in DOMAIN mapping[e] :
                 \E i \in DOMAIN buckets[b] : i = mapping[e][b] + 1 /\ buckets[b][i] = e
        BY <1>6, <2>2 DEF IInv, MappingLocates
      <3>2. Range(choices[e]) \subseteq Buckets
        BY <3>1, FirstIsBucket DEF IInv
      <3>3. QED
        BY <1>4, <3>1, <3>2
    <2>3. QED
      BY <1>6, <2>1, <2>2
  <1>9. Scheduling' /\ Counted' /\ Placed' /\ Excess'
    BY <1>1, ScheduleKept DEF scheduleVars
  <1>10. Queried' /\ Answered' /\ Delivered'
    BY <1>1 DEF IInv, Queried, Answered, Delivered, Retrieval!NoResults
  <1>11. QED
    BY <1>5, <1>7, <1>8, <1>9, <1>10 DEF IInv

LEMMA PackKeeps == IInv /\ Pack => IInv'
  <1> SUFFICES ASSUME IInv, Pack PROVE IInv'
    OBVIOUS
  <1>1. /\ phase = "pack" /\ phase' = "init" /\ cols' \in [Buckets -> 1..MaxCols]
        /\ UNCHANGED <<choices, encoded, buckets, mapping, mode, scheduleVars, secrets, results,
                       queries, answers>>
    BY DEF Pack
  <1>2. Types'
    BY <1>1 DEF IInv, Types, scheduleVars
  <1>3. Places' /\ MappingLocates'
    BY <1>1, PlacesKept
  <1>4. Scheduling' /\ Counted' /\ Placed' /\ Excess'
    BY <1>1, ScheduleKept DEF scheduleVars
  <1>5. Queried' /\ Answered' /\ Delivered'
    BY <1>1 DEF IInv, Queried, Answered, Delivered, Retrieval!NoResults
  <1>6. QED
    BY <1>2, <1>3, <1>4, <1>5 DEF IInv

LEMMA ClientInitKeeps == IInv /\ ClientInit => IInv'
  <1> SUFFICES ASSUME IInv, ClientInit PROVE IInv'
    OBVIOUS
  <1>1. /\ phase = "init" /\ phase' = "schedule" /\ mode' = "Hash"
        /\ UNCHANGED <<serverVars, scheduleVars, secrets, results, queries, answers>>
    BY DEF ClientInit, ParamsMode, ZeroMode
  <1>2. Types'
    BY <1>1 DEF IInv, Types, serverVars, scheduleVars
  <1>3. Places' /\ MappingLocates'
    BY <1>1, PlacesKept DEF serverVars
  <1>4. Scheduling' /\ Counted' /\ Placed' /\ Excess'
    BY <1>1, ScheduleKept DEF serverVars, scheduleVars
  <1>5. Queried' /\ Answered' /\ Delivered'
    BY <1>1 DEF IInv, Queried, Answered, Delivered, Retrieval!NoResults
  <1>6. QED
    BY <1>2, <1>3, <1>4, <1>5 DEF IInv

-----------------------------------------------------------------------------
(* Scheduling *)

\* One more position of the batch counts for the bucket its key goes to.
LEMMA SharingGrows ==
    ASSUME NEW n \in Nat, NEW b
    PROVE  /\ Cardinality(Sharing(b, n)) \in Nat
           /\ Cardinality(Sharing(b, n + 1)) =
                Cardinality(Sharing(b, n)) + (IF First(indices[n + 1]) = b THEN 1 ELSE 0)
  <1>1. IsFiniteSet(1..n)
    BY FS_Interval
  <1>2. Sharing(b, n) \subseteq 1..n
    BY DEF Sharing
  <1>3. IsFiniteSet(Sharing(b, n)) /\ Cardinality(Sharing(b, n)) \in Nat
    BY <1>1, <1>2, FS_Subset, FS_CardinalityType
  <1>4. CASE First(indices[n + 1]) = b
    <2>1. Sharing(b, n + 1) = Sharing(b, n) \cup {n + 1} /\ n + 1 \notin Sharing(b, n)
      BY <1>4 DEF Sharing
    <2>2. QED
      BY <1>3, <1>4, <2>1, FS_AddElement
  <1>5. CASE First(indices[n + 1]) # b
    <2>1. Sharing(b, n + 1) = Sharing(b, n)
      BY <1>5 DEF Sharing
    <2>2. QED
      BY <1>3, <1>5, <2>1
  <1>6. QED
    BY <1>4, <1>5

\* What GenSchedule can do in plain mode, the one a client has.
Place ==
    LET b == First(indices[pos])
    IN /\ Len(schedule[b]) < P
       /\ schedule' = [schedule EXCEPT ![b] = Append(schedule[b], indices[pos])]

Drop == Len(schedule[First(indices[pos])]) >= P /\ UNCHANGED schedule

LEMMA GenScheduleEffect ==
    ASSUME IInv, GenSchedule
    PROVE  /\ phase = "schedule" /\ phase' = phase /\ hand' = hand /\ result = "running"
           /\ UNCHANGED <<serverVars, mode, indices, secrets, results, queries, answers>>
           /\ \/ /\ pos \in 1..Len(indices) /\ indices[pos] \in Entries
                 /\ pos' = pos + 1 /\ result' = result /\ (Place \/ Drop)
              \/ pos = Len(indices) + 1 /\ result' = "schedule" /\ UNCHANGED <<pos, schedule>>
  <1>1. hand = NoKey /\ mode = "Hash" /\ pos \in 1..Len(indices) + 1 /\ indices \in Seq(Entries)
    BY DEF IInv, Types, Scheduling
  <1>2. phase = "schedule" /\ phase' = phase
        /\ UNCHANGED <<serverVars, mode, secrets, results, queries, answers>>
        /\ Schedule!Next
    BY DEF GenSchedule
  <1>3. pos <= Len(indices) => pos \in 1..Len(indices) /\ indices[pos] \in Entries
    BY <1>1
  <1>4. pos <= Len(indices) => ClientChoices[indices[pos]][1] = First(indices[pos])
    BY <1>3, FirstIsBucket DEF IInv
  <1>5. CASE Schedule!HashPlace
    <2>1. result = "running" /\ pos <= Len(indices)
      BY <1>5 DEF Schedule!HashPlace, Schedule!Pending
    <2>2. pos' = pos + 1 /\ UNCHANGED <<indices, hand, result>>
      BY <1>5 DEF Schedule!HashPlace, Schedule!inputs
    <2>3. Place
      BY <1>4, <1>5, <2>1 DEF Schedule!HashPlace, Schedule!FirstChoice, Place
    <2>4. QED
      BY <1>2, <1>3, <2>1, <2>2, <2>3
  <1>6. CASE Schedule!HashDrop
    <2>1. result = "running" /\ pos <= Len(indices)
      BY <1>6 DEF Schedule!HashDrop, Schedule!Pending
    <2>2. pos' = pos + 1 /\ UNCHANGED <<indices, hand, result, schedule>>
      BY <1>6 DEF Schedule!HashDrop, Schedule!inputs
    <2>3. Drop
      BY <1>4, <1>6, <2>1, <2>2 DEF Schedule!HashDrop, Schedule!FirstChoice, Drop
    <2>4. QED
      BY <1>2, <1>3, <2>1, <2>2, <2>3
  <1>7. CASE Schedule!Return
    <2>1. /\ result = "running" /\ pos > Len(indices) /\ result' = "schedule"
          /\ UNCHANGED <<indices, pos, schedule, hand>>
      BY <1>7 DEF Schedule!Return, Schedule!inputs
    <2>2. pos = Len(indices) + 1
      BY <1>1, <2>1
    <2>3. QED
      BY <1>2, <2>1, <2>2
  <1>8. ~(Schedule!CuckooTake \/ Schedule!CuckooPlace \/ Schedule!CuckooEvict \/ Schedule!CuckooGiveUp)
    BY <1>1 DEF Schedule!CuckooTake, Schedule!CuckooPlace, Schedule!CuckooEvict,
                Schedule!CuckooGiveUp, Schedule!Inserting
  <1>9. QED
    BY <1>2, <1>5, <1>6, <1>7, <1>8 DEF Schedule!Next

\* With one more key placed or dropped, the schedule is still as it should be.
LEMMA KeyScheduled ==
    ASSUME IInv, GenSchedule, pos \in 1..Len(indices), indices[pos] \in Entries, pos' = pos + 1,
           Place \/ Drop
    PROVE  schedule' \in [Buckets -> Seq(Entries)] /\ Counted' /\ Placed' /\ Excess'
  <1> DEFINE key == indices[pos]
             f == First(key)
             count(b) == Cardinality(Sharing(b, pos - 1))
  <1>1. /\ f \in Buckets /\ schedule \in [Buckets -> Seq(Entries)] /\ P \in Nat
        /\ indices' = indices /\ choices' = choices /\ pos - 1 \in Nat
    BY FirstIsBucket, GenScheduleEffect, ModeAssumption DEF IInv, Types, Scheduling, serverVars
  <1>2. \A b, n : Sharing(b, n)' = Sharing(b, n)
    BY <1>1 DEF Sharing, First
  <1>3. \A b : /\ count(b) \in Nat
               /\ Cardinality(Sharing(b, pos)) = count(b) + (IF f = b THEN 1 ELSE 0)
    <2>1. (pos - 1) + 1 = pos
      BY <1>1
    <2>2. QED
      BY <1>1, <2>1, SharingGrows
  <1>4. key \in Asked
    BY <1>1 DEF Asked, Range, IInv, Types
  <1>5. \A b \in Buckets : Len(schedule[b]) \in Nat /\ Len(schedule[b]) <= P /\ Len(schedule[b]) <= count(b)
    BY <1>1 DEF IInv, Counted
  <1>6. (pos + 1) - 1 = pos
    BY <1>1
  <1> HIDE DEF count
  <1>7. CASE Place
    <2>1. Len(schedule[f]) < P /\ schedule' = [schedule EXCEPT ![f] = Append(schedule[f], key)]
      BY <1>7 DEF Place
    <2>2. /\ Append(schedule[f], key) \in Seq(Entries)
          /\ Range(Append(schedule[f], key)) = Range(schedule[f]) \cup {key}
      BY <1>1, AppendRange
    <2>3. Len(Append(schedule[f], key)) = Len(schedule[f]) + 1
      BY <1>1
    <2> HIDE DEF f, key
    <2>4. \A b \in Buckets :
             /\ b # f => schedule'[b] = schedule[b]
             /\ schedule'[f] = Append(schedule[f], key)
      BY <1>1, <2>1
    <2>5. schedule' \in [Buckets -> Seq(Entries)]
      BY <1>1, <2>1, <2>2
    <2>6. Counted'
      <3> SUFFICES ASSUME NEW b \in Buckets
                   PROVE  /\ Len(schedule'[b]) <= P
                          /\ Len(schedule'[b]) <= Cardinality(Sharing(b, pos))
        BY <1>2, <1>6 DEF Counted
      <3>1. CASE b = f
        BY <1>1, <1>3, <1>5, <2>1, <2>3, <2>4, <3>1
      <3>2. CASE b # f
        BY <1>3, <1>5, <2>4, <3>2
      <3>3. QED
        BY <3>1, <3>2
    <2>7. Placed'
      <3> SUFFICES ASSUME NEW b \in Buckets, NEW e \in Range(schedule'[b])
                   PROVE  First(e) = b /\ e \in Asked
        BY <1>1 DEF Placed, First, Asked
      <3>1. e \in Range(schedule[b]) \/ (b = f /\ e = key)
        BY <2>2, <2>4
      <3>2. e \in Range(schedule[b]) => First(e) = b /\ e \in Asked
        BY DEF IInv, Placed
      <3>3. QED
        BY <1>4, <3>1, <3>2 DEF f
    <2>8. Excess'
      <3> SUFFICES ASSUME NEW i \in 1..pos
                   PROVE  \/ indices[i] \in Range(schedule'[First(indices[i])])
                          \/ Cardinality(Sharing(First(indices[i]), pos)) > P
        BY <1>1, <1>2, <1>6 DEF Excess, First
      <3>1. CASE i = pos
        BY <1>1, <2>2, <2>4, <3>1 DEF f, key
      <3>2. CASE i # pos
        <4> DEFINE b == First(indices[i])
        <4>1. i \in 1..pos - 1
          BY <1>1, <3>2
        <4>2. indices[i] \in Range(schedule[b]) \/ count(b) > P
          BY <4>1 DEF IInv, Excess, count
        <4>3. b \in Buckets
          <5>1. indices[i] \in Entries
            BY <4>1 DEF IInv, Types
          <5>2. QED
            BY <5>1, FirstIsBucket DEF IInv
        <4> HIDE DEF b
        <4>4. Range(schedule[b]) \subseteq Range(schedule'[b])
          BY <2>2, <2>4, <4>3
        <4>5. Cardinality(Sharing(b, pos)) >= count(b)
          BY <1>3
        <4>6. count(b) > P => Cardinality(Sharing(b, pos)) > P
          BY <1>1, <1>3, <4>5
        <4>7. QED
          BY <4>2, <4>4, <4>6 DEF b
      <3>3. QED
        BY <3>1, <3>2
    <2>9. QED
      BY <2>5, <2>6, <2>7, <2>8
  <1>8. CASE Drop
    <2>1. Len(schedule[f]) >= P /\ schedule' = schedule
      BY <1>8 DEF Drop
    <2>2. Counted'
      <3> SUFFICES ASSUME NEW b \in Buckets
                   PROVE  /\ Len(schedule[b]) <= P
                          /\ Len(schedule[b]) <= Cardinality(Sharing(b, pos))
        BY <1>2, <1>6, <2>1 DEF Counted
      <3>1. QED
        BY <1>3, <1>5
    <2>3. Placed'
      BY <1>1, <2>1 DEF IInv, Placed, First, Asked
    <2>4. Cardinality(Sharing(f, pos)) > P
      BY <1>1, <1>3, <1>5, <2>1
    <2>5. Excess'
      <3> SUFFICES ASSUME NEW i \in 1..pos
                   PROVE  \/ indices[i] \in Range(schedule[First(indices[i])])
                          \/ Cardinality(Sharing(First(indices[i]), pos)) > P
        BY <1>1, <1>2, <1>6, <2>1 DEF Excess, First
      <3>1. CASE i = pos
        BY <2>4, <3>1
      <3>2. CASE i # pos
        <4> DEFINE b == First(indices[i])
        <4>1. i \in 1..pos - 1
          BY <1>1, <3>2
        <4>2. indices[i] \in Range(schedule[b]) \/ count(b) > P
          BY <4>1 DEF IInv, Excess, count
        <4> HIDE DEF b
        <4>3. count(b) > P => Cardinality(Sharing(b, pos)) > P
          BY <1>1, <1>3
        <4>4. QED
          BY <4>2, <4>3 DEF b
      <3>3. QED
        BY <3>1, <3>2
    <2>6. QED
      BY <1>1, <2>1, <2>2, <2>3, <2>5
  <1>9. QED
    BY <1>7, <1>8

LEMMA GenScheduleKeeps == IInv /\ GenSchedule => IInv'
  <1> SUFFICES ASSUME IInv, GenSchedule PROVE IInv'
    OBVIOUS
  <1>1. /\ phase = "schedule" /\ phase' = phase /\ hand' = hand /\ result = "running"
        /\ UNCHANGED <<serverVars, mode, indices, secrets, results, queries, answers>>
    BY GenScheduleEffect
  <1>2. Types'
    BY <1>1 DEF IInv, Types, serverVars
  <1>3. Places' /\ MappingLocates'
    BY <1>1, PlacesKept DEF serverVars
  <1>4. Queried' /\ Answered' /\ Delivered'
    BY <1>1 DEF IInv, Queried, Answered, Delivered, Retrieval!NoResults
  <1>5. Scheduling' /\ Counted' /\ Placed' /\ Excess'
    <2>1. CASE /\ pos \in 1..Len(indices) /\ indices[pos] \in Entries
               /\ pos' = pos + 1 /\ result' = result /\ (Place \/ Drop)
      <3>1. schedule' \in [Buckets -> Seq(Entries)] /\ Counted' /\ Placed' /\ Excess'
        BY <2>1, KeyScheduled
      <3>2. Scheduling'
        BY <1>1, <2>1, <3>1 DEF IInv, Scheduling
      <3>3. QED
        BY <3>1, <3>2
    <2>2. CASE pos = Len(indices) + 1 /\ result' = "schedule" /\ UNCHANGED <<pos, schedule>>
      <3>1. UNCHANGED <<choices, indices, pos, schedule>>
        BY <1>1, <2>2 DEF serverVars
      <3>2. \A b, n : Sharing(b, n)' = Sharing(b, n)
        BY <3>1 DEF Sharing, First
      <3>3. Scheduling'
        BY <1>1, <2>2, <3>1 DEF IInv, Scheduling
      <3>4. Counted' /\ Placed' /\ Excess'
        BY <3>1, <3>2 DEF IInv, Counted, Placed, Excess, Asked, First
      <3>5. QED
        BY <3>3, <3>4
    <2>3. QED
      BY <2>1, <2>2, GenScheduleEffect
  <1>6. QED
    BY <1>2, <1>3, <1>4, <1>5 DEF IInv

-----------------------------------------------------------------------------
(* Querying, answering and recovering *)

LEMMA QueryKeeps == IInv /\ Query => IInv'
  <1> SUFFICES ASSUME IInv, Query PROVE IInv'
    OBVIOUS
  <1>1. /\ phase = "schedule" /\ result = "schedule" /\ phase' = "answer"
        /\ UNCHANGED <<serverVars, mode, scheduleVars, results, answers>>
        /\ queries' = [b \in Buckets |-> QueriesFor(ColumnsOf(b), Remaining(b))]
        /\ secrets' = [b \in Buckets |-> SecretsFor(ColumnsOf(b), Remaining(b))]
    BY DEF Query, ColumnsOf
  <1>2. Types'
    BY <1>1 DEF IInv, Types, serverVars, scheduleVars
  <1>3. Places' /\ MappingLocates'
    BY <1>1, PlacesKept DEF serverVars
  <1>4. Scheduling' /\ Counted' /\ Placed' /\ Excess'
    BY <1>1, ScheduleKept DEF serverVars, scheduleVars
  <1>5. \A b : ColumnsOf(b)' = ColumnsOf(b) /\ Remaining(b)' = Remaining(b)
    BY <1>1, QueriesKept DEF serverVars, scheduleVars
  <1>6. Queried'
    BY <1>1, <1>5 DEF Queried
  <1>7. Answered' /\ Delivered'
    BY <1>1 DEF IInv, Answered, Delivered, Retrieval!NoResults
  <1>8. QED
    BY <1>2, <1>3, <1>4, <1>6, <1>7 DEF IInv

LEMMA AnswerKeeps == IInv /\ Answer => IInv'
  <1> SUFFICES ASSUME IInv, Answer PROVE IInv'
    OBVIOUS
  <1>1. /\ phase = "answer" /\ phase' = "recover"
        /\ UNCHANGED <<serverVars, mode, scheduleVars, secrets, results, queries>>
        /\ answers' = [b \in Buckets |-> AnswersTo(queries[b], FALSE, Matrix(b))]
    BY DEF Answer, Matrix
  <1>2. Types'
    BY <1>1 DEF IInv, Types, serverVars, scheduleVars
  <1>3. Places' /\ MappingLocates'
    BY <1>1, PlacesKept DEF serverVars
  <1>4. result = "schedule"
    BY <1>1 DEF IInv, Scheduling
  <1>5. Scheduling' /\ Counted' /\ Placed' /\ Excess'
    BY <1>1, <1>4, ScheduleKept DEF serverVars, scheduleVars
  <1>6. \A b : ColumnsOf(b)' = ColumnsOf(b) /\ Remaining(b)' = Remaining(b) /\ Matrix(b)' = Matrix(b)
    BY <1>1, QueriesKept, MatrixKept DEF serverVars, scheduleVars
  <1>7. Queried'
    BY <1>1, <1>6 DEF IInv, Queried
  <1>8. Answered'
    BY <1>1, <1>6 DEF Answered
  <1>9. Delivered'
    BY <1>1 DEF IInv, Delivered, Retrieval!NoResults
  <1>10. QED
    BY <1>2, <1>3, <1>5, <1>7, <1>8, <1>9 DEF IInv

\* The columns recovered from a bucket are those of its keys.
LEMMA RecoveredColumns ==
    ASSUME IInv, phase = "recover", NEW b \in Buckets
    PROVE  /\ DOMAIN ColumnsFor(b) = 1..Len(schedule[b])
           /\ \A j \in 1..Len(schedule[b]) : ColumnsFor(b)[j] = Matrix(b)[ColumnsOf(b)[j]]
  <1>1. encoded = N /\ cols \in [Buckets -> 1..MaxCols]
    BY DEF IInv, Types
  <1>2. /\ ColumnsOf(b) \in Seq(Nat) /\ Len(ColumnsOf(b)) = Len(schedule[b])
        /\ Remaining(b) \in Nat /\ Len(schedule[b]) \in Nat
    BY <1>1, AskedColumns
  <1>3. /\ secrets[b] = SecretsFor(ColumnsOf(b), Remaining(b))
        /\ answers[b] = AnswersTo(QueriesFor(ColumnsOf(b), Remaining(b)), FALSE, Matrix(b))
    BY DEF IInv, Queried, Answered
  <1>4. Recovered(SecretsFor(ColumnsOf(b), Remaining(b)),
                  AnswersTo(QueriesFor(ColumnsOf(b), Remaining(b)), FALSE, Matrix(b)), FALSE)
          = [j \in 1..Recoverable(FALSE, Len(ColumnsOf(b))) |-> Matrix(b)[ColumnsOf(b)[j]]]
    <2>1. \A gpu \in BOOLEAN :
             (gpu => Len(ColumnsOf(b)) + Remaining(b) > 0) =>
               Recovered(SecretsFor(ColumnsOf(b), Remaining(b)),
                         AnswersTo(QueriesFor(ColumnsOf(b), Remaining(b)), gpu, Matrix(b)), gpu)
                 = [j \in 1..Recoverable(gpu, Len(ColumnsOf(b))) |-> Matrix(b)[ColumnsOf(b)[j]]]
      BY <1>2, RecoversColumns
    <2>2. QED
      BY <2>1, Zenon
  <1>5. Recoverable(FALSE, Len(ColumnsOf(b))) = Len(schedule[b])
    BY <1>2 DEF Recoverable
  <1>6. ColumnsFor(b) = [j \in 1..Len(schedule[b]) |-> Matrix(b)[ColumnsOf(b)[j]]]
    BY <1>3, <1>4, <1>5 DEF ColumnsFor
  <1>7. QED
    BY <1>6

\* For an entry that was scheduled Recover finds its own value, and for the
\* others none.
LEMMA ValuesAreEntries ==
    ASSUME IInv, phase = "recover", NEW e \in Entries
    PROVE  /\ ValuesFor(e) \subseteq {e}
           /\ ValuesFor(e) # {} <=> e \in Scheduled
  <1>1. encoded = N /\ cols \in [Buckets -> 1..MaxCols]
    BY DEF IInv, Types
  <1>2. ASSUME NEW b \in Buckets, NEW j \in DOMAIN ColumnsFor(b), schedule[b][j] = e
        PROVE  /\ ColumnsFor(b)[j][mapping[e][b] \div cols[b]] = e
               /\ e \in Range(schedule[b])
    <2>1. /\ j \in 1..Len(schedule[b]) /\ b \in Range(choices[e])
          /\ ColumnsFor(b)[j] = Matrix(b)[ColumnOf(e, b)]
      BY <1>1, <1>2, RecoveredColumns, AskedColumns
    <2>2. schedule[b] \in Seq(Entries)
      BY DEF IInv, Scheduling
    <2>3. e \in Range(schedule[b])
      BY <1>2, <2>1, <2>2, SeqRange
    <2>4. QED
      BY <1>1, <2>1, <2>3, EntryAtPlace
  <1>3. ValuesFor(e) \subseteq {e}
    <2> SUFFICES ASSUME NEW v \in ValuesFor(e) PROVE v = e
      OBVIOUS
    <2>1. PICK b \in Buckets :
            \E j \in DOMAIN ColumnsFor(b) :
               schedule[b][j] = e /\ v = ColumnsFor(b)[j][mapping[e][b] \div cols[b]]
      BY DEF ValuesFor
    <2>2. QED
      BY <1>2, <2>1
  <1>4. ASSUME ValuesFor(e) # {} PROVE e \in Scheduled
    <2>1. PICK b \in Buckets : \E j \in DOMAIN ColumnsFor(b) : schedule[b][j] = e
      BY <1>4 DEF ValuesFor
    <2>2. QED
      BY <1>2, <2>1 DEF Scheduled
  <1>5. ASSUME e \in Scheduled PROVE ValuesFor(e) # {}
    <2>1. PICK b \in Buckets : e \in Range(schedule[b])
      BY <1>5 DEF Scheduled
    <2>2. schedule[b] \in Seq(Entries)
      BY DEF IInv, Scheduling
    <2>3. PICK j \in 1..Len(schedule[b]) : schedule[b][j] = e
      BY <2>1, <2>2, SeqRange
    <2>4. j \in DOMAIN ColumnsFor(b)
      BY RecoveredColumns
    <2>5. ColumnsFor(b)[j][mapping[e][b] \div cols[b]] \in ValuesFor(e)
      BY <2>3, <2>4 DEF ValuesFor
    <2>6. QED
      BY <2>5
  <1>6. QED
    BY <1>3, <1>4, <1>5

\* Recover delivers what was scheduled, with the entries' own values.
LEMMA RecoverResults ==
    ASSUME IInv, Recover
    PROVE  results' = [e \in Scheduled |-> e] /\ Scheduled \subseteq Asked /\ Scheduled \subseteq Entries
  <1> DEFINE found == {e \in Entries : ValuesFor(e) # {}}
  <1>1. phase = "recover"
        /\ results' \in {f \in [found -> UNION {ValuesFor(e) : e \in found}] :
                            \A e \in found : f[e] \in ValuesFor(e)}
    BY DEF Recover
  <1>2. Scheduled \subseteq Entries
    <2> SUFFICES ASSUME NEW b \in Buckets, NEW e \in Range(schedule[b]) PROVE e \in Entries
      BY DEF Scheduled
    <2>1. schedule[b] \in Seq(Entries)
      BY DEF IInv, Scheduling
    <2>2. QED
      BY <2>1, SeqRange
  <1>3. Scheduled \subseteq Asked
    BY DEF IInv, Placed, Scheduled
  <1>4. found = Scheduled
    BY <1>1, <1>2, ValuesAreEntries
  <1>5. \A e \in found : results'[e] = e
    BY <1>1, ValuesAreEntries
  <1>6. results' = [e \in found |-> results'[e]]
    BY <1>1
  <1> HIDE DEF found
  <1>7. results' = [e \in found |-> e]
    BY <1>5, <1>6
  <1>8. QED
    BY <1>2, <1>3, <1>4, <1>7

LEMMA RecoverKeeps == IInv /\ Recover => IInv'
  <1> SUFFICES ASSUME IInv, Recover PROVE IInv'
    OBVIOUS
  <1>1. /\ phase = "recover" /\ phase' = "done"
        /\ UNCHANGED <<serverVars, mode, scheduleVars, secrets, queries, answers>>
    BY DEF Recover
  <1>2. Types'
    BY <1>1 DEF IInv, Types, serverVars, scheduleVars
  <1>3. Places' /\ MappingLocates'
    BY <1>1, PlacesKept DEF serverVars
  <1>4. result = "schedule"
    BY <1>1 DEF IInv, Scheduling
  <1>5. Scheduling' /\ Counted' /\ Placed' /\ Excess'
    BY <1>1, <1>4, ScheduleKept DEF serverVars, scheduleVars
  <1>6. \A b : ColumnsOf(b)' = ColumnsOf(b) /\ Remaining(b)' = Remaining(b)
    BY <1>1, QueriesKept DEF serverVars, scheduleVars
  <1>7. Queried' /\ Answered'
    BY <1>1, <1>6 DEF IInv, Queried, Answered
  <1>8. Delivered'
    <2>1. Scheduled' = Scheduled
      BY <1>1 DEF Scheduled, scheduleVars
    <2>2. DOMAIN results' = Scheduled
      BY RecoverResults
    <2>3. QED
      BY <1>1, <2>1, <2>2 DEF Delivered
  <1>9. QED
    BY <1>2, <1>3, <1>5, <1>7, <1>8 DEF IInv

LEMMA StepIInv == IInv /\ [Next]_vars => IInv'
  <1> SUFFICES ASSUME IInv, [Next]_vars PROVE IInv'
    OBVIOUS
  <1>1. CASE UNCHANGED vars
    <2>1. UNCHANGED <<serverVars, mode, scheduleVars, secrets, results, phase, queries, answers>>
      BY <1>1 DEF vars
    <2>2. Types'
      BY <2>1 DEF IInv, Types, serverVars, scheduleVars
    <2>3. Places' /\ MappingLocates'
      BY <2>1, PlacesKept DEF serverVars
    <2>4. Scheduling' /\ Counted' /\ Placed' /\ Excess'
      <3>1. phase' \in {"answer", "recover", "done"} => result = "schedule"
        BY <2>1 DEF IInv, Scheduling
      <3>2. QED
        BY <2>1, <3>1, ScheduleKept DEF serverVars, scheduleVars
    <2>5. \A b : /\ ColumnsOf(b)' = ColumnsOf(b) /\ Remaining(b)' = Remaining(b)
                 /\ Matrix(b)' = Matrix(b)
      BY <2>1, QueriesKept, MatrixKept DEF serverVars, scheduleVars
    <2>6. Queried' /\ Answered'
      BY <2>1, <2>5 DEF IInv, Queried, Answered
    <2>7. Delivered'
      BY <2>1 DEF IInv, Delivered, Scheduled, Retrieval!NoResults, scheduleVars
    <2>8. QED
      BY <2>2, <2>3, <2>4, <2>6, <2>7 DEF IInv
  <1>2. QED
    BY <1>1, EncodeEntryKeeps, PackKeeps, ClientInitKeeps, GenScheduleKeeps, QueryKeeps,
       AnswerKeeps, RecoverKeeps DEF Next

LEMMA SpecIInv == Spec => []IInv
  BY InitIInv, StepIInv, PTL DEF Spec

-----------------------------------------------------------------------------
(* Theorems *)

\* Every entry encoded so far is, in each of its buckets, where mapping says,
\* from which alone the client computes its queries.
THEOREM Located == Spec => []MappingLocates
  <1>1. IInv => MappingLocates
    BY DEF IInv
  <1>2. QED
    BY <1>1, SpecIInv, PTL

\* Every bucket is asked as many queries, whatever the batch: the shape of
\* what the server sees does not depend on the indices.
THEOREM ShapeHidden == Spec => []ShapeHidesIndices
  <1>1. ASSUME IInv PROVE ShapeHidesIndices
    <2> SUFFICES ASSUME phase \in {"answer", "recover", "done"}, NEW b \in Buckets
                 PROVE  Len(queries[b]) = NumQueriesPer(mode)
      BY DEF ShapeHidesIndices
    <2>1. encoded = N /\ cols \in [Buckets -> 1..MaxCols] /\ NumQueriesPer(mode) = P
      BY <1>1 DEF IInv, Types, NumQueriesPer
    <2>2. /\ ColumnsOf(b) \in Seq(Nat) /\ Remaining(b) \in Nat
          /\ Len(ColumnsOf(b)) + Remaining(b) = P
      BY <1>1, <2>1, AskedColumns
    <2>3. Len(QueriesFor(ColumnsOf(b), Remaining(b))) = P
      BY <2>2, BatchOfQueries
    <2>4. queries[b] = QueriesFor(ColumnsOf(b), Remaining(b))
      BY <1>1 DEF IInv, Queried
    <2>5. QED
      BY <2>1, <2>3, <2>4
  <1>2. QED
    BY <1>1, SpecIInv, PTL

\* An entry asked for is missed only when more positions of the batch than a
\* bucket answers queries have keys of its first bucket.
THEOREM MissesExplained == Spec => []MissesOnlyWhenFull
  <1>1. ASSUME IInv PROVE MissesOnlyWhenFull
    <2> SUFFICES ASSUME phase = "done", NEW e \in Asked \ DOMAIN results
                 PROVE  Cardinality({i \in DOMAIN indices :
                           choices[indices[i]][1] = choices[e][1]}) > NumQueriesPer(mode)
      BY DEF MissesOnlyWhenFull
    <2>1. /\ indices \in Seq(Entries) /\ NumQueriesPer(mode) = P
          /\ pos = Len(indices) + 1 /\ DOMAIN results = Scheduled
      BY <1>1 DEF IInv, Types, Scheduling, Delivered, NumQueriesPer
    <2>2. PICK i \in 1..Len(indices) : indices[i] = e
      BY <2>1, SeqRange DEF Asked
    <2>3. pos - 1 = Len(indices) /\ DOMAIN indices = 1..Len(indices) /\ e \in Entries
      BY <2>1, <2>2
    <2>4. e \notin Range(schedule[First(e)])
      <3>1. First(e) \in Buckets
        BY <1>1, <2>3, FirstIsBucket DEF IInv
      <3>2. QED
        BY <2>1, <3>1 DEF Scheduled
    <2>5. Cardinality(Sharing(First(e), Len(indices))) > P
      BY <1>1, <2>2, <2>3, <2>4 DEF IInv, Excess
    <2>6. Sharing(First(e), Len(indices)) =
            {j \in DOMAIN indices : choices[indices[j]][1] = choices[e][1]}
      BY <2>3 DEF Sharing, First
    <2>7. QED
      BY <2>1, <2>5, <2>6
  <1>2. QED
    BY <1>1, SpecIInv, PTL

\* From end to end batch PIR implements the abstract retrieval: what is
\* delivered is some of what was asked for, each entry with its own value, at
\* once.  (That something is delivered is for TLC: it is liveness.)
THEOREM RetrievalImplemented == Spec => Retrieval!Safety
  <1>1. Init => Retrieval!Init
    BY DEF Init, Retrieval!Init, Retrieval!NoResults, Asked
  <1>2. ASSUME IInv, [Next]_vars PROVE [Retrieval!Deliver]_(Retrieval!vars)
    <2>1. CASE Recover
      <3>1. results' = [e \in Scheduled |-> e] /\ Scheduled \in SUBSET Asked
        BY <1>2, <2>1, RecoverResults
      <3>2. phase = "recover" /\ phase' = "done" /\ indices' = indices
        BY <2>1 DEF Recover, scheduleVars
      <3>3. Asked' = Asked
        BY <3>2 DEF Asked
      <3>4. QED
        BY <3>1, <3>2, <3>3 DEF Retrieval!Deliver
    <2>2. CASE EncodeEntry \/ Pack \/ ClientInit \/ Query \/ Answer
      <3>1. indices' = indices /\ results' = results /\ phase # "done" /\ phase' # "done"
        BY <2>2 DEF EncodeEntry, Pack, ClientInit, Query, Answer, scheduleVars
      <3>2. QED
        BY <3>1 DEF Retrieval!vars, Asked
    <2>3. CASE GenSchedule
      <3>1. indices' = indices /\ results' = results /\ phase' = phase
        BY <1>2, <2>3, GenScheduleEffect
      <3>2. QED
        BY <3>1 DEF Retrieval!vars, Asked
    <2>4. CASE UNCHANGED vars
      BY <2>4 DEF vars, scheduleVars, Retrieval!vars, Asked
    <2>5. QED
      BY <1>2, <2>1, <2>2, <2>3, <2>4 DEF Next
  <1>3. QED
    BY <1>1, <1>2, SpecIInv, PTL DEF Spec, Retrieval!Safety
=============================================================================
