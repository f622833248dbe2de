-------------------------- MODULE LheCallers_proofs --------------------------
(***************************************************************************)
(* Proofs about the callers of the LHE scheme, for every size of database, *)
(* ciphertext, word and batch and every length of loop: objects are freed  *)
(* once and not used after, and each query has its column on a GPU, but by *)
(* the callers the properties name.  First of the capacity search, which   *)
(* is exact wherever its limits are.                                       *)
(***************************************************************************)
EXTENDS LheCallers, FiniteSetTheorems, TLAPS

-----------------------------------------------------------------------------
(* The capacity search *)

\* How far the best guess is behind the size to try next, or that there has
\* been none yet: then bestGuess is still the 100 it began with.
Behind(step) == bestGuess = batchSize - step /\ bestGuess >= step /\ bestGuess <= high
NoGuess(size, tried) == batchSize = size /\ bestGuess = 100 /\ low < tried

ByHundreds == ~hundreds /\ ~tens /\
    (Behind(100) \/ (batchSize = 100 /\ bestGuess = 100))
ByTens == hundreds /\ ~tens /\ (Behind(10) \/ NoGuess(10, 100))
ByOnes == hundreds /\ tens /\ (Behind(1) \/ NoGuess(1, 10))

SearchInv ==
    /\ TypeOK
    /\ ByHundreds \/ ByTens \/ ByOnes
    /\ Answered => ByOnes /\ response = bestGuess /\ low < batchSize

\* The search starts with sizes and guess equal and no round over.
LEMMA SearchInit == Init => SearchInv
  <1> SUFFICES ASSUME Init PROVE SearchInv
    OBVIOUS
  <1>1. TypeOK
    <2>1. low \in Nat /\ high \in Nat /\ low <= high
      BY MaxFitAssumption DEF Init
    <2>2. batchSize \in Nat /\ bestGuess \in Nat /\ serverBatch \in Nat
      BY DEF Init
    <2>3. hundreds \in BOOLEAN /\ tens \in BOOLEAN
      BY Zenon DEF Init
    <2>4. response \in Nat \cup {Unanswered}
      BY DEF Init
    <2>5. QED
      BY <2>1, <2>2, <2>3, <2>4, Zenon DEF TypeOK
  <1>2. ByHundreds
    BY DEF Init, ByHundreds
  <1>3. ~Answered
    BY DEF Init, Answered
  <1>4. QED
    BY <1>1, <1>2, <1>3 DEF SearchInv

\* Each step leaves the best guess one step of the next round behind.
LEMMA SearchNext == SearchInv /\ [Next]_vars => SearchInv'
  <1> SUFFICES ASSUME SearchInv, [Next]_vars PROVE SearchInv'
    OBVIOUS
  <1> USE DEF SearchInv, TypeOK, ByHundreds, ByTens, ByOnes, Behind, NoGuess,
              Answered, Unanswered, Try, limits
  <1>1. CASE Advance
    BY <1>1 DEF Advance, InTime
  <1>2. CASE HundredsOver
    BY <1>2 DEF HundredsOver, TooSlow
  <1>3. CASE TensOver
    BY <1>3 DEF TensOver, TooSlow
  <1>4. CASE Finish
    BY <1>4 DEF Finish, TooSlow
  <1>5. CASE UNCHANGED vars
    BY <1>5 DEF vars
  <1>6. QED
    BY <1>1, <1>2, <1>3, <1>4, <1>5 DEF Next

\* The inductive invariant holds throughout the search.
LEMMA SearchHolds == Spec => []SearchInv
  BY SearchInit, SearchNext, PTL DEF Spec

\* Type correctness: the sizes stay natural numbers.
THEOREM SizesTyped == Spec => []TypeOK
  <1>1. SearchInv => TypeOK
    BY DEF SearchInv
  <1>2. QED
    BY <1>1, SearchHolds, PTL

\* The capacity reported is one the server was measured to have, and at least
\* what it always has, if it can answer one query in time at all.
THEOREM Exact == Spec => []CapacityExact
  <1>1. SearchInv => CapacityExact
    BY DEF SearchInv, TypeOK, ByOnes, Behind, NoGuess, CapacityExact, Answered
  <1>2. QED
    BY <1>1, SearchHolds, PTL

\* The sizes, which the code keeps unsigned, stay positive.
THEOREM NoUnderflow == Spec => []SizesPositive
  <1>1. SearchInv => SizesPositive
    BY DEF SearchInv, TypeOK, ByHundreds, ByTens, ByOnes, Behind, NoGuess, SizesPositive
  <1>2. QED
    BY <1>1, SearchHolds, PTL

-----------------------------------------------------------------------------
(* Where queries are written *)

\* A number is in the piece its quotient names.
LEMMA InPiece ==
    ASSUME NEW d \in 0..M - 1
    PROVE  \E j \in 0..NumA - 1 : j * N <= d /\ d < j * N + N
  <1> DEFINE j == d \div N
  <1>1. M \in Nat /\ N \in Nat /\ N > 0 /\ d \in Nat /\ d < M
    BY MemoryAssumption
  <1>2. j \in Nat /\ j * N <= d /\ d < j * N + N
    BY <1>1
  <1>3. NumA \in Nat /\ M + N - 1 < NumA * N + N
    BY <1>1 DEF NumA
  <1> HIDE DEF j
  <1>4. j * N < NumA * N
    BY <1>1, <1>2, <1>3
  <1>5. j < NumA
    BY <1>1, <1>2, <1>3, <1>4
  <1>6. QED
    BY <1>2, <1>3, <1>5

\* The pieces of a query make up its row of the buffer, with no padding.
LEMMA QueryRow ==
    ASSUME hasGpu, mode \in {"None", "Hybrid"}, NEW i \in Nat
    PROVE  QueryCells(i) = i * M .. (i + 1) * M - 1
  <1>1. M \in Nat /\ N \in Nat /\ M > 0 /\ N > 0
    BY MemoryAssumption
  <1>2. PICK base \in Nat : base = i * M /\ (i + 1) * M - 1 = base + M - 1
    <2>1. i * M \in Nat /\ (i + 1) * M - 1 = i * M + M - 1
      BY <1>1
    <2>2. QED
      BY <2>1, Zenon
  <1>3. CASE mode = "None"
    BY <1>1, <1>2, <1>3 DEF QueryCells, Padding
  <1>4. CASE mode = "Hybrid"
    <2>1. QueryCells(i) = UNION {PieceCells(i, j) : j \in 0..NumA - 1}
      BY <1>4 DEF QueryCells
    <2>2. NumA \in Nat
      BY <1>1 DEF NumA
    <2>3. ASSUME NEW j \in 0..NumA - 1
          PROVE  /\ PieceCells(i, j) = base + j * N .. base + j * N + Less(M - j * N, N) - 1
                 /\ j * N \in Nat
      <3>1. PieceCells(i, j) = i * M + j * N .. i * M + j * N + Less(M - j * N, N) - 1
        BY DEF PieceCells
      <3>2. j * N \in Nat
        BY <1>1, <2>2
      <3>3. QED
        BY <1>2, <3>1, <3>2, Zenon
    <2>4. ASSUME NEW j \in 0..NumA - 1, NEW x \in PieceCells(i, j)
          PROVE  x \in base .. base + M - 1
      BY <1>1, <1>2, <2>3 DEF Less
    <2>5. ASSUME NEW x \in base .. base + M - 1
          PROVE  \E j \in 0..NumA - 1 : x \in PieceCells(i, j)
      <3>1. x - base \in 0..M - 1 /\ x \in Int
        BY <1>1, <1>2
      <3>2. PICK j \in 0..NumA - 1 : j * N <= x - base /\ x - base < j * N + N
        BY <3>1, InPiece
      <3>3. x \in PieceCells(i, j)
        BY <1>1, <1>2, <2>3, <3>1, <3>2 DEF Less
      <3>4. QED
        BY <3>3
    <2>6. QueryCells(i) = base .. base + M - 1
      BY <2>1, <2>4, <2>5
    <2>7. QED
      BY <1>2, <2>6, Zenon
  <1>5. QED
    BY <1>3, <1>4

\* A device with room for k queries holds k queries, each in its own column.
LEMMA RoomForAll ==
    ASSUME hasGpu, mode \in {"None", "Hybrid"}, NEW device, NEW k \in Nat,
           device.a = "database", device.room \in Nat, k <= device.room,
           device.outCols = device.room
    PROVE  Within(device, k) /\ Served(device, k)
  <1>1. ASSUME NEW i \in 0..k - 1
        PROVE  /\ QueryCells(i) = i * M .. (i + 1) * M - 1
               /\ QueryCells(i) \subseteq 0..M * device.room - 1
    <2>1. M \in Nat /\ i \in Nat /\ i + 1 <= device.room
      BY MemoryAssumption
    <2>2. QueryCells(i) = i * M .. (i + 1) * M - 1
      BY <2>1, QueryRow
    <2>3. i * M \in Nat /\ (i + 1) * M \in Nat /\ M * device.room \in Nat
      BY <2>1
    <2>4. (i + 1) * M <= M * device.room
      <3>1. PICK d \in Nat : device.room = i + 1 + d
        <4>1. device.room - (i + 1) \in Nat /\ device.room = i + 1 + (device.room - (i + 1))
          BY <2>1
        <4>2. QED
          BY <4>1
      <3>2. M * (i + 1 + d) = (i + 1) * M + M * d /\ M * d \in Nat
        BY <2>1
      <3>3. QED
        BY <2>3, <3>1, <3>2
    <2>5. QED
      BY <2>2, <2>3, <2>4
  <1>2. QED
    BY <1>1 DEF Within, Served
-----------------------------------------------------------------------------
(* What calls need and what they leave *)

\* What a caller has: a server and a client not freed, keys of queries, an
\* answer to them, columns for queries on a GPU, and how many there are.
Views == [server : BOOLEAN, client : BOOLEAN, keys : BOOLEAN, answered : BOOLEAN,
          room : Nat, asked : Nat]

Has(s, c, k, a, room, asked) ==
    [server |-> s, client |-> c, keys |-> k, answered |-> a, room |-> room, asked |-> asked]

Nothing == Has(FALSE, FALSE, FALSE, FALSE, 0, 0)

Operations == {"makeServer", "spareContext", "setBatch", "initClient", "query", "answer", "recover",
               "freeSecrets", "freeServer", "freeClient", "capacity"}
Calls == [op : Operations, n : Nat, dummies : Nat]

\* What all calls of a caller have in common, and the liberties it takes.
Env == [gpu |-> hasGpu, compress |-> compressHint, service |-> caller = "service",
        unset |-> caller \in SetsNoBatch, drops |-> caller \in DropsSecrets,
        again |-> caller = "recoverLatency"]

\* A call made with what v has leaves what w has.
Pass(e, v, call, w) ==
    \/ /\ call.op = "makeServer" /\ (v.server => e.service)
       /\ w = Has(TRUE, v.client, v.keys, v.answered, 1, v.asked)
    \/ /\ call.op = "spareContext"
       /\ w = Has(v.server, v.client, v.keys, v.answered, v.room, v.asked)
    \/ /\ call.op = "setBatch" /\ v.server
       /\ w = Has(v.server, v.client, v.keys, v.answered, call.n, v.asked)
    \/ /\ call.op = "initClient" /\ ~v.client
       /\ w = Has(v.server, TRUE, v.keys, v.answered, v.room, v.asked)
    \/ /\ call.op = "query" /\ v.client /\ (v.keys => e.compress \/ e.drops)
       /\ \E keys \in BOOLEAN :
            /\ keys \/ call.n = 0
            /\ w = Has(v.server, v.client, keys, FALSE, v.room, call.n + call.dummies)
    \/ /\ call.op = "answer" /\ v.server /\ (e.gpu => v.asked <= v.room \/ e.unset)
       /\ w = Has(v.server, v.client, v.keys, TRUE, v.room, v.asked)
    \/ /\ call.op = "recover" /\ v.client /\ v.answered /\ (v.keys \/ e.again)
       /\ w = Has(v.server, v.client, e.compress, v.answered, v.room, v.asked)
    \/ /\ call.op = "freeSecrets" /\ v.keys
       /\ w = Has(v.server, v.client, FALSE, v.answered, v.room, v.asked)
    \/ /\ call.op = "freeServer" /\ v.server
       /\ w = Has(FALSE, v.client, v.keys, v.answered, v.room, v.asked)
    \/ /\ call.op = "freeClient" /\ v.client
       /\ w = Has(v.server, FALSE, v.keys, v.answered, v.room, v.asked)
    \/ /\ call.op = "capacity" /\ v.server
       /\ w = Has(v.server, v.client, v.keys, FALSE, 0, v.asked)

\* Calls one after the other.
Leads(e, v, calls, w) ==
    \E views \in [1..Len(calls) + 1 -> Views] :
        /\ views[1] = v /\ views[Len(calls) + 1] = w
        /\ \A k \in 1..Len(calls) : Pass(e, views[k], calls[k], views[k + 1])

\* What may be left when a caller is through.
Through(e, w) == (w.server => e.service) /\ ~w.client /\ (w.keys => e.compress \/ e.drops)

LEMMA LeadsRest ==
    ASSUME NEW e, NEW v, NEW w, NEW calls \in Seq(Calls), calls # <<>>, Leads(e, v, calls, w)
    PROVE  /\ v \in Views /\ Head(calls) \in Calls /\ Tail(calls) \in Seq(Calls)
           /\ \E u \in Views : Pass(e, v, Head(calls), u) /\ Leads(e, u, Tail(calls), w)
  <1> DEFINE n == Len(calls)
  <1>1. PICK views \in [1..n + 1 -> Views] :
            /\ views[1] = v /\ views[n + 1] = w
            /\ \A k \in 1..n : Pass(e, views[k], calls[k], views[k + 1])
    BY DEF Leads
  <1>2. /\ n \in Nat /\ n >= 1 /\ Head(calls) = calls[1] /\ Len(Tail(calls)) = n - 1
        /\ \A k \in 1..n - 1 : Tail(calls)[k] = calls[k + 1]
        /\ calls[1] \in Calls /\ Tail(calls) \in Seq(Calls)
    OBVIOUS
  <1> HIDE DEF n
  <1> DEFINE rest == [k \in 1..n |-> views[k + 1]]
  <1>3. rest \in [1..n - 1 + 1 -> Views] /\ rest[1] = views[2] /\ rest[n - 1 + 1] = w
    BY <1>1, <1>2
  <1>4. \A k \in 1..n - 1 : Pass(e, rest[k], Tail(calls)[k], rest[k + 1])
    <2> SUFFICES ASSUME NEW k \in 1..n - 1 PROVE Pass(e, rest[k], Tail(calls)[k], rest[k + 1])
      OBVIOUS
    <2>1. /\ k + 1 \in 1..n /\ rest[k] = views[k + 1] /\ rest[k + 1] = views[k + 1 + 1]
          /\ Tail(calls)[k] = calls[k + 1]
      BY <1>2
    <2> HIDE DEF rest
    <2>2. QED
      BY <1>1, <2>1
  <1> HIDE DEF rest
  <1>5. Leads(e, views[2], Tail(calls), w)
    BY <1>2, <1>3, <1>4 DEF Leads
  <1>6. views[2] \in Views /\ Pass(e, v, calls[1], views[2]) /\ v \in Views
    <2>1. 1 \in 1..n /\ 2 \in 1..n + 1 /\ 1 + 1 = 2 /\ 1 \in 1..n + 1
      BY <1>2
    <2>2. QED
      BY <1>1, <2>1
  <1>7. QED
    BY <1>2, <1>5, <1>6

LEMMA LeadsOn ==
    ASSUME NEW e, NEW u, NEW v, NEW w, NEW p \in Seq(Calls), NEW q \in Seq(Calls),
           Leads(e, u, p, v), Leads(e, v, q, w)
    PROVE  Leads(e, u, p \o q, w) /\ p \o q \in Seq(Calls)
  <1>1. PICK m \in Nat, n \in Nat : m = Len(p) /\ n = Len(q)
    OBVIOUS
  <1>2. PICK first \in [1..m + 1 -> Views] :
            /\ first[1] = u /\ first[m + 1] = v
            /\ \A k \in 1..m : Pass(e, first[k], p[k], first[k + 1])
    BY <1>1 DEF Leads
  <1>3. PICK second \in [1..n + 1 -> Views] :
            /\ second[1] = v /\ second[n + 1] = w
            /\ \A k \in 1..n : Pass(e, second[k], q[k], second[k + 1])
    BY <1>1 DEF Leads
  <1> DEFINE both == [k \in 1..m + n + 1 |-> IF k <= m THEN first[k] ELSE second[k - m]]
  <1>4. /\ \A k \in 1..m + 1 : both[k] = first[k]
        /\ \A k \in 1..n + 1 : both[m + k] = second[k]
        /\ both \in [1..m + n + 1 -> Views]
    <2>1. \A k \in 1..m : both[k] = first[k]
      OBVIOUS
    <2>2. \A k \in 1..n + 1 : both[m + k] = second[k]
      OBVIOUS
    <2>3. both[m + 1] = first[m + 1]
      BY <1>2, <1>3
    <2>4. \A k \in 1..m + n + 1 : both[k] \in Views
      OBVIOUS
    <2>5. both \in [1..m + n + 1 -> Views]
      BY <2>4
    <2> HIDE DEF both
    <2>6. QED
      BY <2>1, <2>2, <2>3, <2>5
  <1>5. /\ Len(p \o q) = m + n
        /\ \A k \in 1..m : (p \o q)[k] = p[k]
        /\ \A k \in 1..n : (p \o q)[m + k] = q[k]
    BY <1>1
  <1> HIDE DEF both
  <1>6. ASSUME NEW k \in 1..m + n PROVE Pass(e, both[k], (p \o q)[k], both[k + 1])
    <2>1. CASE k <= m
      <3>1. k \in 1..m /\ k \in 1..m + 1 /\ k + 1 \in 1..m + 1
        BY <2>1
      <3>2. QED
        BY <1>2, <1>4, <1>5, <3>1
    <2>2. CASE k > m
      <3>1. PICK j \in 1..n : k = m + j
        <4>1. k - m \in 1..n /\ k = m + (k - m)
          BY <2>2
        <4>2. QED
          BY <4>1
      <3>2. both[k] = second[j] /\ both[m + (j + 1)] = second[j + 1] /\ k + 1 = m + (j + 1)
        <4>1. j \in 1..n + 1 /\ j + 1 \in 1..n + 1
          OBVIOUS
        <4>2. QED
          BY <1>4, <3>1, <4>1
      <3>3. QED
        BY <1>3, <1>5, <3>1, <3>2
    <2>3. k <= m \/ k > m
      OBVIOUS
    <2>4. QED
      BY <2>1, <2>2, <2>3, Zenon
  <1>7. both[1] = u /\ both[m + n + 1] = w
    <2>1. 1 \in 1..m + 1 /\ n + 1 \in 1..n + 1 /\ m + (n + 1) = m + n + 1
      OBVIOUS
    <2>2. QED
      BY <1>2, <1>3, <1>4, <2>1
  <1>8. Leads(e, u, p \o q, w)
    BY <1>4, <1>5, <1>6, <1>7 DEF Leads
  <1>9. p \o q \in Seq(Calls)
    OBVIOUS
  <1>10. QED
    BY <1>8, <1>9

\* What each call needs and leaves, of a caller that has the rest.

LEMMA LeadsFar ==
    ASSUME NEW e, NEW t, NEW u, NEW v, NEW w, NEW p \in Seq(Calls), NEW q \in Seq(Calls), NEW r \in Seq(Calls),
           Leads(e, t, p, u), Leads(e, u, q, v), Leads(e, v, r, w)
    PROVE  Leads(e, t, (p \o q) \o r, w) /\ (p \o q) \o r \in Seq(Calls)
  <1> DEFINE first == p \o q
  <1>1. Leads(e, t, first, v) /\ first \in Seq(Calls)
    BY LeadsOn
  <1> HIDE DEF first
  <1>2. Leads(e, t, first \o r, w) /\ first \o r \in Seq(Calls)
    BY <1>1, LeadsOn
  <1>3. QED
    BY <1>2 DEF first

\* What each call needs and leaves, of a caller that has the rest.
LEMMA CallsPass ==
    ASSUME NEW e, NEW s \in BOOLEAN, NEW c \in BOOLEAN, NEW k \in BOOLEAN, NEW a \in BOOLEAN,
           NEW room \in Nat, NEW asked \in Nat
    PROVE  /\ Has(s, c, k, a, room, asked) \in Views
           /\ (s => e.service) =>
                Pass(e, Has(s, c, k, a, room, asked), Call("makeServer"), Has(TRUE, c, k, a, 1, asked))
           /\ Pass(e, Has(s, c, k, a, room, asked), Call("spareContext"), Has(s, c, k, a, room, asked))
           /\ \A n \in Nat : s =>
                Pass(e, Has(s, c, k, a, room, asked), SetTo(n), Has(s, c, k, a, n, asked))
           /\ ~c => Pass(e, Has(s, c, k, a, room, asked), Call("initClient"), Has(s, TRUE, k, a, room, asked))
           /\ \A n, d \in Nat : c /\ (k => e.compress \/ e.drops) =>
                Pass(e, Has(s, c, k, a, room, asked), Ask(n, d), Has(s, c, TRUE, FALSE, room, n + d))
           /\ \A d \in Nat : c /\ (k => e.compress \/ e.drops) =>
                Pass(e, Has(s, c, k, a, room, asked), Ask(0, d), Has(s, c, FALSE, FALSE, room, d))
           /\ s /\ (e.gpu => asked <= room \/ e.unset) =>
                Pass(e, Has(s, c, k, a, room, asked), Call("answer"), Has(s, c, k, TRUE, room, asked))
           /\ c /\ (k \/ e.again) /\ a =>
                Pass(e, Has(s, c, k, a, room, asked), Call("recover"), Has(s, c, e.compress, a, room, asked))
           /\ k => Pass(e, Has(s, c, k, a, room, asked), Call("freeSecrets"), Has(s, c, FALSE, a, room, asked))
           /\ s => Pass(e, Has(s, c, k, a, room, asked), Call("freeServer"), Has(FALSE, c, k, a, room, asked))
           /\ c => Pass(e, Has(s, c, k, a, room, asked), Call("freeClient"), Has(s, FALSE, k, a, room, asked))
           /\ s => Pass(e, Has(s, c, k, a, room, asked), Call("capacity"), Has(s, c, k, FALSE, 0, asked))
  <1> DEFINE v == Has(s, c, k, a, room, asked)
  <1>1. /\ v.server = s /\ v.client = c /\ v.keys = k /\ v.answered = a
        /\ v.room = room /\ v.asked = asked
    BY DEF Has
  <1>2. v \in Views
    BY DEF Has, Views
  <1>3. /\ \A op : Call(op).op = op
        /\ \A n : SetTo(n).op = "setBatch" /\ SetTo(n).n = n
        /\ \A n, d : Ask(n, d).op = "query" /\ Ask(n, d).n = n /\ Ask(n, d).dummies = d
    BY DEF Call, SetTo, Ask
  <1>4. Pass(e, v, Call("spareContext"), v)
    <2>1. v = Has(v.server, v.client, v.keys, v.answered, v.room, v.asked)
      BY DEF Has
    <2> HIDE DEF v
    <2>2. QED
      BY <1>3, <2>1, Zenon DEF Pass
  <1> HIDE DEF v
  <1>5. (s => e.service) => Pass(e, v, Call("makeServer"), Has(TRUE, c, k, a, 1, asked))
    BY <1>1, <1>3 DEF Pass
  <1>6. \A n \in Nat : s => Pass(e, v, SetTo(n), Has(s, c, k, a, n, asked))
    BY <1>1, <1>3 DEF Pass
  <1>7. ~c => Pass(e, v, Call("initClient"), Has(s, TRUE, k, a, room, asked))
    BY <1>1, <1>3 DEF Pass
  <1>8. ASSUME NEW n \in Nat, NEW d \in Nat, NEW keys \in BOOLEAN, keys \/ n = 0,
               c, k => e.compress \/ e.drops
        PROVE  Pass(e, v, Ask(n, d), Has(s, c, keys, FALSE, room, n + d))
    <2> DEFINE ask == Ask(n, d)
    <2>1. ask.op = "query" /\ ask.n = n /\ ask.n + ask.dummies = n + d
      BY <1>3
    <2> HIDE DEF ask
    <2>2. v.client /\ (v.keys => e.compress \/ e.drops)
      BY <1>1, <1>8
    <2>3. Has(s, c, keys, FALSE, room, n + d)
            = Has(v.server, v.client, keys, FALSE, v.room, ask.n + ask.dummies)
      BY <1>1, <2>1
    <2>4. Pass(e, v, ask, Has(s, c, keys, FALSE, room, n + d))
      BY <1>8, <2>1, <2>2, <2>3, Zenon DEF Pass
    <2>5. QED
      BY <2>4 DEF ask
  <1>9. /\ \A n, d \in Nat : c /\ (k => e.compress \/ e.drops) =>
             Pass(e, v, Ask(n, d), Has(s, c, TRUE, FALSE, room, n + d))
        /\ \A d \in Nat : c /\ (k => e.compress \/ e.drops) =>
             Pass(e, v, Ask(0, d), Has(s, c, FALSE, FALSE, room, d))
    <2>1. \A d \in Nat : 0 \in Nat /\ 0 + d = d
      OBVIOUS
    <2>2. TRUE \in BOOLEAN /\ FALSE \in BOOLEAN
      OBVIOUS
    <2>3. ASSUME NEW d \in Nat, c, k => e.compress \/ e.drops
          PROVE  Pass(e, v, Ask(0, d), Has(s, c, FALSE, FALSE, room, d))
      <3>1. Pass(e, v, Ask(0, d), Has(s, c, FALSE, FALSE, room, 0 + d))
        BY <1>8, <2>1, <2>2, <2>3, Zenon
      <3>2. QED
        BY <2>1, <3>1
    <2>4. QED
      BY <1>8, <2>2, <2>3, Zenon
  <1>10. s /\ (e.gpu => asked <= room \/ e.unset) =>
           Pass(e, v, Call("answer"), Has(s, c, k, TRUE, room, asked))
    BY <1>1, <1>3 DEF Pass
  <1>11. c /\ (k \/ e.again) /\ a =>
           Pass(e, v, Call("recover"), Has(s, c, e.compress, a, room, asked))
    BY <1>1, <1>3 DEF Pass
  <1>12. k => Pass(e, v, Call("freeSecrets"), Has(s, c, FALSE, a, room, asked))
    BY <1>1, <1>3 DEF Pass
  <1>13. /\ s => Pass(e, v, Call("freeServer"), Has(FALSE, c, k, a, room, asked))
         /\ c => Pass(e, v, Call("freeClient"), Has(s, FALSE, k, a, room, asked))
    BY <1>1, <1>3 DEF Pass
  <1>14. s => Pass(e, v, Call("capacity"), Has(s, c, k, FALSE, 0, asked))
    BY <1>1, <1>3 DEF Pass
  <1>15. QED
    BY <1>2, <1>4, <1>5, <1>6, <1>7, <1>9, <1>10, <1>11, <1>12, <1>13, <1>14 DEF v


\* The calls are what Calls has.
LEMMA CallsTyped ==
    /\ \A n \in Nat : SetTo(n) \in Calls
    /\ \A n, d \in Nat : Ask(n, d) \in Calls
    /\ \A op \in Operations : Call(op) \in Calls
  <1>1. ASSUME NEW op \in Operations, NEW n \in Nat, NEW d \in Nat
        PROVE  [op |-> op, n |-> n, dummies |-> d] \in Calls
    BY DEF Calls
  <1>2. "setBatch" \in Operations /\ "query" \in Operations /\ 0 \in Nat
    BY DEF Operations
  <1>3. QED
    BY <1>1, <1>2, Zenon DEF SetTo, Ask, Call

\* One call, two, and four.
LEMMA OneCall ==
    ASSUME NEW e, NEW u \in Views, NEW v \in Views, NEW c \in Calls, Pass(e, u, c, v)
    PROVE  <<c>> \in Seq(Calls) /\ Leads(e, u, <<c>>, v)
  <1> DEFINE views == [k \in 1..2 |-> IF k = 1 THEN u ELSE v]
             calls == <<c>>
  <1>1. calls \in Seq(Calls) /\ Len(calls) = 1 /\ calls[1] = c
    OBVIOUS
  <1>2. views \in [1..2 -> Views] /\ views[1] = u /\ views[2] = v
    OBVIOUS
  <1> HIDE DEF views, calls
  <1>3. \A k \in 1..1 : Pass(e, views[k], calls[k], views[k + 1])
    <2> SUFFICES ASSUME NEW k \in 1..1 PROVE Pass(e, views[k], calls[k], views[k + 1])
      OBVIOUS
    <2>1. k = 1 /\ k + 1 = 2
      OBVIOUS
    <2>2. QED
      BY <1>1, <1>2, <2>1
  <1>4. Leads(e, u, calls, v)
    <2>1. Len(calls) + 1 = 2
      BY <1>1
    <2>2. QED
      BY <1>1, <1>2, <1>3, <2>1, Zenon DEF Leads
  <1>5. QED
    BY <1>1, <1>4 DEF calls

LEMMA TwoCalls ==
    ASSUME NEW e, NEW u \in Views, NEW v \in Views, NEW w \in Views,
           NEW c \in Calls, NEW d \in Calls, Pass(e, u, c, v), Pass(e, v, d, w)
    PROVE  <<c, d>> \in Seq(Calls) /\ Leads(e, u, <<c, d>>, w)
  <1> DEFINE views == [k \in 1..3 |-> IF k = 1 THEN u ELSE IF k = 2 THEN v ELSE w]
             calls == <<c, d>>
  <1>1. calls \in Seq(Calls) /\ Len(calls) = 2 /\ calls[1] = c /\ calls[2] = d
    OBVIOUS
  <1>2. views \in [1..3 -> Views] /\ views[1] = u /\ views[2] = v /\ views[3] = w
    OBVIOUS
  <1> HIDE DEF views, calls
  <1>3. \A k \in 1..2 : Pass(e, views[k], calls[k], views[k + 1])
    <2> SUFFICES ASSUME NEW k \in 1..2 PROVE Pass(e, views[k], calls[k], views[k + 1])
      OBVIOUS
    <2>1. (k = 1 /\ k + 1 = 2) \/ (k = 2 /\ k + 1 = 3)
      OBVIOUS
    <2>2. QED
      BY <1>1, <1>2, <2>1
  <1>4. Leads(e, u, calls, w)
    <2>1. Len(calls) + 1 = 3
      BY <1>1
    <2>2. QED
      BY <1>1, <1>2, <1>3, <2>1, Zenon DEF Leads
  <1>5. QED
    BY <1>1, <1>4 DEF calls

LEMMA FourCalls ==
    ASSUME NEW e, NEW u1 \in Views, NEW u2 \in Views, NEW u3 \in Views, NEW u4 \in Views,
           NEW u5 \in Views, NEW c1 \in Calls, NEW c2 \in Calls, NEW c3 \in Calls, NEW c4 \in Calls,
           Pass(e, u1, c1, u2), Pass(e, u2, c2, u3), Pass(e, u3, c3, u4), Pass(e, u4, c4, u5)
    PROVE  <<c1, c2, c3, c4>> \in Seq(Calls) /\ Leads(e, u1, <<c1, c2, c3, c4>>, u5)
  <1>1. <<c1, c2, c3, c4>> = <<c1, c2>> \o <<c3, c4>> /\ <<c1, c2, c3, c4>> \in Seq(Calls)
    OBVIOUS
  <1>2. /\ <<c1, c2>> \in Seq(Calls) /\ Leads(e, u1, <<c1, c2>>, u3)
        /\ <<c3, c4>> \in Seq(Calls) /\ Leads(e, u3, <<c3, c4>>, u5)
    BY TwoCalls
  <1>3. Leads(e, u1, <<c1, c2>> \o <<c3, c4>>, u5)
    BY <1>2, LeadsOn
  <1>4. QED
    BY <1>1, <1>3, Zenon

LEMMA ThreeCalls ==
    ASSUME NEW e, NEW u1 \in Views, NEW u2 \in Views, NEW u3 \in Views, NEW u4 \in Views,
           NEW c1 \in Calls, NEW c2 \in Calls, NEW c3 \in Calls,
           Pass(e, u1, c1, u2), Pass(e, u2, c2, u3), Pass(e, u3, c3, u4)
    PROVE  /\ <<c1, c2, c3>> \in Seq(Calls) /\ Len(<<c1, c2, c3>>) = 3
           /\ Leads(e, u1, <<c1, c2, c3>>, u4)
  <1>1. /\ <<c1, c2, c3>> = <<c1, c2>> \o <<c3>>
        /\ <<c1, c2, c3>> \in Seq(Calls) /\ Len(<<c1, c2, c3>>) = 3
    OBVIOUS
  <1>2. /\ <<c1, c2>> \in Seq(Calls) /\ Leads(e, u1, <<c1, c2>>, u3)
        /\ <<c3>> \in Seq(Calls) /\ Leads(e, u3, <<c3>>, u4)
    BY OneCall, TwoCalls
  <1>3. Leads(e, u1, <<c1, c2>> \o <<c3>>, u4)
    BY <1>2, LeadsOn
  <1>4. QED
    BY <1>1, <1>3, Zenon

LEMMA NoCall ==
    ASSUME NEW e, NEW v \in Views
    PROVE  <<>> \in Seq(Calls) /\ Leads(e, v, <<>>, v)
  <1> DEFINE views == [k \in 1..1 |-> v]
  <1>1. views \in [1..1 -> Views] /\ views[1] = v
    OBVIOUS
  <1> HIDE DEF views
  <1>2. QED
    BY <1>1 DEF Leads

\* A call made again and again, with what it leaves.
LEMMA LoopLeads ==
    ASSUME NEW e, NEW u \in Views, NEW v \in Views, NEW c \in Calls, Pass(e, u, c, v), Pass(e, v, c, v)
    PROVE  Loop(c) \in Seq(Calls) /\ Leads(e, u, Loop(c), v)
  <1> DEFINE views == [i \in 1..Rounds + 1 |-> IF i = 1 THEN u ELSE v]
             calls == Loop(c)
  <1>1. Rounds \in Nat /\ Rounds > 0
    BY CallersAssumption
  <1>2. calls \in Seq(Calls) /\ Len(calls) = Rounds /\ \A i \in 1..Rounds : calls[i] = c
    BY <1>1 DEF Loop
  <1>3. /\ views \in [1..Rounds + 1 -> Views] /\ views[1] = u
        /\ \A i \in 1..Rounds : views[i + 1] = v /\ (views[i] = u \/ views[i] = v)
    BY <1>1
  <1>4. views[Rounds + 1] = v
    BY <1>1, <1>3
  <1> HIDE DEF views, calls
  <1>5. \A i \in 1..Rounds : Pass(e, views[i], calls[i], views[i + 1])
    BY <1>2, <1>3
  <1>6. Leads(e, u, calls, v)
    BY <1>2, <1>3, <1>4, <1>5, Zenon DEF Leads
  <1>7. QED
    BY <1>2, <1>6 DEF calls

\* The place of the i-th call in its round of k, and that of the next.
LEMMA PlaceInRound ==
    ASSUME NEW k \in {2, 3}, NEW i \in 1..k * Rounds
    PROVE  \E q \in 0..Rounds - 1, m \in 0..k - 1 :
             /\ (i - 1) \div k = q /\ (i - 1) % k = m
             /\ m + 1 < k => ((i + 1) - 1) \div k = q /\ ((i + 1) - 1) % k = m + 1
             /\ m + 1 = k => ((i + 1) - 1) \div k = q + 1 /\ ((i + 1) - 1) % k = 0
             /\ m + 1 < k \/ m + 1 = k
             /\ i = k * Rounds <=> m + 1 = k /\ q + 1 = Rounds
  <1> DEFINE q == (i - 1) \div k
             m == (i - 1) % k
  <1>1. Rounds \in Nat /\ Rounds > 0
    BY CallersAssumption
  <1>2. CASE k = 2
    BY <1>1, <1>2
  <1>3. CASE k = 3
    BY <1>1, <1>3
  <1>4. QED
    BY <1>2, <1>3

\* Rounds of k calls, the r-th of which leads on to at[r].
LEMMA InTurnLeads ==
    ASSUME NEW e, NEW k \in {2, 3}, NEW rounds \in [1..Rounds -> Seq(Calls)],
           NEW at \in [0..Rounds -> Views],
           \A r \in 1..Rounds : Len(rounds[r]) = k /\ Leads(e, at[r - 1], rounds[r], at[r])
    PROVE  InTurn(rounds, k) \in Seq(Calls) /\ Leads(e, at[0], InTurn(rounds, k), at[Rounds])
  <1>1. Rounds \in Nat /\ Rounds > 0 /\ k \in Nat /\ k > 0 /\ k * Rounds \in Nat /\ k * Rounds > 0
    BY CallersAssumption
  <1> DEFINE Fits(r, views) ==
                 /\ views \in [1..k + 1 -> Views] /\ views[1] = at[r - 1] /\ views[k + 1] = at[r]
                 /\ \A j \in 1..k : Pass(e, views[j], rounds[r][j], views[j + 1])
             within == [r \in 1..Rounds |-> CHOOSE views : Fits(r, views)]
  <1>2. ASSUME NEW r \in 1..Rounds PROVE Fits(r, within[r])
    <2>1. Leads(e, at[r - 1], rounds[r], at[r]) /\ Len(rounds[r]) = k
      OBVIOUS
    <2>2. \E views \in [1..k + 1 -> Views] :
             /\ views[1] = at[r - 1] /\ views[k + 1] = at[r]
             /\ \A j \in 1..k : Pass(e, views[j], rounds[r][j], views[j + 1])
      BY <2>1 DEF Leads
    <2>3. \E views : Fits(r, views)
      BY <2>2
    <2> HIDE DEF Fits
    <2>4. QED
      BY <2>3
  <1> HIDE DEF within
  <1> DEFINE calls == InTurn(rounds, k)
             views == [i \in 1..k * Rounds + 1 |->
                         IF i = k * Rounds + 1 THEN at[Rounds]
                         ELSE within[((i - 1) \div k) + 1][((i - 1) % k) + 1]]
  <1>3. ASSUME NEW i \in 1..k * Rounds
        PROVE  /\ i \in 1..k * Rounds + 1 /\ i # k * Rounds + 1 /\ i + 1 \in 1..k * Rounds + 1
               /\ i + 1 = k * Rounds + 1 <=> i = k * Rounds
    BY <1>1
  <1>4. /\ \A i \in 1..k * Rounds : views[i] = within[((i - 1) \div k) + 1][((i - 1) % k) + 1]
        /\ views[k * Rounds + 1] = at[Rounds]
    <2>1. k * Rounds + 1 \in 1..k * Rounds + 1
      BY <1>1
    <2>2. QED
      BY <1>3, <2>1, Zenon
  <1>5. /\ DOMAIN calls = 1..k * Rounds
        /\ \A i \in 1..k * Rounds : calls[i] = rounds[((i - 1) \div k) + 1][((i - 1) % k) + 1]
    BY DEF InTurn
  <1> HIDE DEF views, calls
  <1>6. ASSUME NEW i \in 1..k * Rounds
        PROVE  /\ views[i] \in Views /\ calls[i] \in Calls
               /\ Pass(e, views[i], calls[i], views[i + 1])
    <2>1. PICK q \in 0..Rounds - 1, m \in 0..k - 1 :
             /\ (i - 1) \div k = q /\ (i - 1) % k = m
             /\ m + 1 < k => ((i + 1) - 1) \div k = q /\ ((i + 1) - 1) % k = m + 1
             /\ m + 1 = k => ((i + 1) - 1) \div k = q + 1 /\ ((i + 1) - 1) % k = 0
             /\ m + 1 < k \/ m + 1 = k
             /\ i = k * Rounds <=> m + 1 = k /\ q + 1 = Rounds
      BY PlaceInRound
    <2>2. /\ q + 1 \in 1..Rounds /\ m + 1 \in 1..k /\ m + 1 \in 1..k + 1 /\ m + 1 + 1 \in 1..k + 1
          /\ q + 1 - 1 = q /\ q \in 0..Rounds /\ q + 1 \in 0..Rounds
      BY <1>1
    <2>3. views[i] = within[q + 1][m + 1] /\ calls[i] = rounds[q + 1][m + 1]
      BY <1>4, <1>5, <2>1
    <2>4. Fits(q + 1, within[q + 1])
      BY <1>2, <2>2
    <2>5. /\ within[q + 1] \in [1..k + 1 -> Views]
          /\ within[q + 1][k + 1] = at[q + 1]
          /\ Pass(e, within[q + 1][m + 1], rounds[q + 1][m + 1], within[q + 1][m + 1 + 1])
      BY <2>2, <2>4
    <2>6. calls[i] \in Calls
      <3>1. rounds[q + 1] \in Seq(Calls) /\ Len(rounds[q + 1]) = k
        BY <2>2
      <3>2. QED
        BY <2>2, <2>3, <3>1
    <2>7. views[i + 1] = within[q + 1][m + 1 + 1]
      <3>1. CASE m + 1 < k
        <4>1. i # k * Rounds /\ i + 1 \in 1..k * Rounds
          BY <1>1, <2>1, <3>1
        <4>2. views[i + 1] = within[q + 1][(m + 1) + 1]
          BY <1>4, <2>1, <3>1, <4>1
        <4>3. QED
          BY <4>2
      <3>2. CASE m + 1 = k /\ q + 1 = Rounds
        <4>1. i = k * Rounds
          BY <2>1, <3>2
        <4>2. views[i + 1] = at[Rounds]
          BY <1>4, <4>1
        <4>3. QED
          BY <2>5, <3>2, <4>2
      <3>3. CASE m + 1 = k /\ q + 1 # Rounds
        <4>1. i # k * Rounds /\ i + 1 \in 1..k * Rounds
          BY <1>1, <2>1, <3>3
        <4>2. views[i + 1] = within[(q + 1) + 1][0 + 1]
          BY <1>4, <2>1, <3>3, <4>1
        <4>3. q + 1 + 1 \in 1..Rounds /\ q + 1 + 1 - 1 = q + 1 /\ 0 + 1 = 1
          BY <1>1, <2>2, <3>3
        <4>4. Fits(q + 1 + 1, within[q + 1 + 1])
          BY <1>2, <4>3
        <4>5. within[q + 1 + 1][1] = at[q + 1]
          <5>1. within[q + 1 + 1][1] = at[q + 1 + 1 - 1]
            BY <4>4
          <5>2. QED
            BY <4>3, <5>1
        <4>6. QED
          BY <2>5, <3>3, <4>2, <4>3, <4>5
      <3>4. QED
        BY <2>1, <3>1, <3>2, <3>3
    <2>8. views[i] \in Views
      BY <2>2, <2>3, <2>5
    <2>9. QED
      BY <2>3, <2>5, <2>6, <2>7, <2>8
  <1>7. views[1] = at[0]
    <2>1. 1 \in 1..k * Rounds
      BY <1>1
    <2>2. (1 - 1) \div k = 0 /\ (1 - 1) % k = 0 /\ 0 + 1 = 1
      BY <1>1
    <2>3. views[1] = within[0 + 1][0 + 1]
      BY <1>4, <2>1, <2>2
    <2>4. 1 \in 1..Rounds /\ 1 - 1 = 0
      BY <1>1
    <2>5. Fits(1, within[1])
      BY <1>2, <2>4
    <2>6. QED
      BY <2>2, <2>3, <2>4, <2>5
  <1>8. views \in [1..k * Rounds + 1 -> Views]
    <2>1. ASSUME NEW i \in 1..k * Rounds + 1 PROVE views[i] \in Views
      <3>1. i \in 1..k * Rounds \/ i = k * Rounds + 1
        BY <1>1
      <3>2. at[Rounds] \in Views
        BY <1>1
      <3>3. QED
        BY <1>4, <1>6, <3>1, <3>2
    <2>2. views = [i \in 1..k * Rounds + 1 |-> views[i]]
      BY DEF views
    <2>3. QED
      BY <2>1, <2>2
  <1>9. calls \in Seq(Calls) /\ Len(calls) = k * Rounds
    <2>1. PICK n \in Nat : n = k * Rounds
      BY <1>1
    <2>2. calls = [i \in 1..n |-> calls[i]]
      BY <2>1 DEF InTurn, calls
    <2>3. \A i \in 1..n : calls[i] \in Calls
      BY <1>6, <2>1
    <2>4. calls \in Seq(Calls) /\ Len(calls) = n
      BY <2>2, <2>3
    <2>5. QED
      BY <2>1, <2>4
  <1>10. Leads(e, at[0], calls, at[Rounds])
    BY <1>4, <1>6, <1>7, <1>8, <1>9 DEF Leads
  <1>11. QED
    BY <1>9, <1>10 DEF calls

\* Rounds that leave the same.
LEMMA SameInTurn ==
    ASSUME NEW e, NEW k \in {2, 3}, NEW rounds \in [1..Rounds -> Seq(Calls)],
           NEW u \in Views, NEW v \in Views,
           \A r \in 1..Rounds :
              Len(rounds[r]) = k /\ Leads(e, u, rounds[r], v) /\ Leads(e, v, rounds[r], v)
    PROVE  InTurn(rounds, k) \in Seq(Calls) /\ Leads(e, u, InTurn(rounds, k), v)
  <1> DEFINE at == [r \in 0..Rounds |-> IF r = 0 THEN u ELSE v]
  <1>1. Rounds \in Nat /\ Rounds > 0
    BY CallersAssumption
  <1>2. /\ at \in [0..Rounds -> Views] /\ at[0] = u /\ at[Rounds] = v
        /\ \A r \in 1..Rounds : at[r] = v /\ (at[r - 1] = u \/ at[r - 1] = v)
    BY <1>1
  <1> HIDE DEF at
  <1>3. \A r \in 1..Rounds : Len(rounds[r]) = k /\ Leads(e, at[r - 1], rounds[r], at[r])
    BY <1>2
  <1>4. QED
    BY <1>2, <1>3, InTurnLeads

\* Calls that leave nothing but what a compressed hint leaves, or a caller that
\* drops its secrets.
Freed(e, calls) ==
    /\ calls \in Seq(Calls)
    /\ \E w \in Views : Leads(e, Nothing, calls, w) /\ Through(e, w)

LEMMA NothingIsView == Nothing \in Views
  BY CallsPass DEF Nothing

\* Server and client are made ...
LEMMA OpeningLeads ==
    ASSUME NEW e, NEW k \in BOOLEAN, NEW a \in BOOLEAN, NEW room \in Nat, NEW asked \in Nat
    PROVE  /\ Opening \in Seq(Calls)
           /\ Leads(e, Has(FALSE, FALSE, k, a, room, asked), Opening, Has(TRUE, TRUE, k, a, 1, asked))
  <1> DEFINE u1 == Has(FALSE, FALSE, k, a, room, asked)
             u2 == Has(TRUE, FALSE, k, a, 1, asked)
             u3 == Has(TRUE, TRUE, k, a, 1, asked)
  <1>1. u1 \in Views /\ u2 \in Views /\ u3 \in Views
    BY CallsPass
  <1>2. Pass(e, u1, Call("makeServer"), u2) /\ Pass(e, u2, Call("initClient"), u3)
    BY CallsPass
  <1>3. Call("makeServer") \in Calls /\ Call("initClient") \in Calls
    BY CallsTyped DEF Operations
  <1> HIDE DEF u1, u2, u3
  <1>4. Opening \in Seq(Calls) /\ Leads(e, u1, Opening, u3)
    BY <1>1, <1>2, <1>3, TwoCalls, Zenon DEF Opening
  <1>5. QED
    BY <1>4 DEF u1, u3

LEMMA OpenedLeads ==
    ASSUME NEW e
    PROVE  /\ Opening \in Seq(Calls) /\ Leads(e, Nothing, Opening, Has(TRUE, TRUE, FALSE, FALSE, 1, 0))
           /\ Has(TRUE, TRUE, FALSE, FALSE, 1, 0) \in Views
  BY OpeningLeads, CallsPass DEF Nothing

\* ... and freed.
LEMMA ClosingLeads ==
    ASSUME NEW e, NEW k \in BOOLEAN, NEW a \in BOOLEAN, NEW room \in Nat, NEW asked \in Nat
    PROVE  /\ Closing \in Seq(Calls)
           /\ Leads(e, Has(TRUE, TRUE, k, a, room, asked), Closing, Has(FALSE, FALSE, k, a, room, asked))
  <1> DEFINE u1 == Has(TRUE, TRUE, k, a, room, asked)
             u2 == Has(FALSE, TRUE, k, a, room, asked)
             u3 == Has(FALSE, FALSE, k, a, room, asked)
  <1>1. u1 \in Views /\ u2 \in Views /\ u3 \in Views
    BY CallsPass
  <1>2. Pass(e, u1, Call("freeServer"), u2) /\ Pass(e, u2, Call("freeClient"), u3)
    BY CallsPass
  <1>3. Call("freeServer") \in Calls /\ Call("freeClient") \in Calls
    BY CallsTyped DEF Operations
  <1> HIDE DEF u1, u2, u3
  <1>4. Closing \in Seq(Calls) /\ Leads(e, u1, Closing, u3)
    BY <1>1, <1>2, <1>3, TwoCalls, Zenon DEF Closing
  <1>5. QED
    BY <1>4 DEF u1, u3

LEMMA ClosedAfter ==
    ASSUME NEW e, NEW k \in BOOLEAN, NEW a \in BOOLEAN, NEW room \in Nat, NEW asked \in Nat,
           k => e.compress \/ e.drops, NEW calls \in Seq(Calls),
           Leads(e, Nothing, calls, Has(TRUE, TRUE, k, a, room, asked))
    PROVE  Freed(e, calls \o Closing)
  <1> DEFINE w == Has(FALSE, FALSE, k, a, room, asked)
  <1>1. Closing \in Seq(Calls) /\ Leads(e, Has(TRUE, TRUE, k, a, room, asked), Closing, w)
    BY ClosingLeads
  <1>2. w \in Views /\ Through(e, w)
    BY CallsPass DEF Through, Has
  <1> HIDE DEF w
  <1>3. Leads(e, Nothing, calls \o Closing, w) /\ calls \o Closing \in Seq(Calls)
    BY <1>1, LeadsOn
  <1>4. QED
    BY <1>2, <1>3 DEF Freed

\* A round of queries, with room for q of them or none asked for, leaves no keys.
LEMMA RoundLeads ==
    ASSUME NEW e, NEW left \in BOOLEAN, left = e.compress, NEW k \in BOOLEAN, k => e.compress,
           NEW a \in BOOLEAN, NEW room \in Nat, NEW asked \in Nat,
           NEW q \in Nat, NEW n \in 0..q, e.gpu => q <= room \/ e.unset
    PROVE  /\ Round(n, q) \in Seq(Calls) /\ Len(Round(n, q)) = 3
           /\ Leads(e, Has(TRUE, TRUE, k, a, room, asked), Round(n, q), Has(TRUE, TRUE, left, TRUE, room, q))
  <1> DEFINE u1 == Has(TRUE, TRUE, k, a, room, asked)
             u2 == Has(TRUE, TRUE, TRUE, FALSE, room, q)
             u3 == Has(TRUE, TRUE, TRUE, TRUE, room, q)
             u4 == Has(TRUE, TRUE, left, TRUE, room, q)
  <1>1. n \in Nat /\ q - n \in Nat /\ n + (q - n) = q
    OBVIOUS
  <1>2. u1 \in Views /\ u2 \in Views /\ u3 \in Views /\ u4 \in Views
    BY CallsPass
  <1>3. /\ Pass(e, u1, Ask(n, q - n), u2) /\ Pass(e, u2, Call("answer"), u3)
        /\ Pass(e, u3, Call("recover"), u4)
    BY <1>1, CallsPass
  <1>4. Ask(n, q - n) \in Calls /\ Call("answer") \in Calls /\ Call("recover") \in Calls
    BY <1>1, CallsTyped DEF Operations
  <1> HIDE DEF u1, u2, u3, u4
  <1>5. /\ Round(n, q) \in Seq(Calls) /\ Len(Round(n, q)) = 3 /\ Leads(e, u1, Round(n, q), u4)
    BY <1>2, <1>3, <1>4, ThreeCalls, Zenon DEF Round
  <1>6. QED
    BY <1>5 DEF u1, u4

\* One round after the other.
LEMMA RoundsLead ==
    ASSUME NEW e, NEW left \in BOOLEAN, left = e.compress, NEW room \in Nat,
           NEW q \in Nat, NEW ns \in Asked(q), e.gpu => q <= room \/ e.unset
    PROVE  LET calls == InTurn([r \in 1..Rounds |-> Round(ns[r], q)], 3)
           IN /\ calls \in Seq(Calls)
              /\ Leads(e, Has(TRUE, TRUE, FALSE, FALSE, room, 0), calls, Has(TRUE, TRUE, left, TRUE, room, q))
  <1> DEFINE u == Has(TRUE, TRUE, FALSE, FALSE, room, 0)
             v == Has(TRUE, TRUE, left, TRUE, room, q)
             rounds == [r \in 1..Rounds |-> Round(ns[r], q)]
  <1>1. u \in Views /\ v \in Views
    BY CallsPass
  <1>2. ASSUME NEW r \in 1..Rounds
        PROVE  /\ Round(ns[r], q) \in Seq(Calls) /\ Len(Round(ns[r], q)) = 3
               /\ Leads(e, u, Round(ns[r], q), v) /\ Leads(e, v, Round(ns[r], q), v)
    <2>1. ns[r] \in 0..q
      BY DEF Asked
    <2>2. ASSUME NEW k \in BOOLEAN, k => e.compress, NEW a \in BOOLEAN, NEW asked \in Nat
          PROVE  /\ Round(ns[r], q) \in Seq(Calls) /\ Len(Round(ns[r], q)) = 3
                 /\ Leads(e, Has(TRUE, TRUE, k, a, room, asked), Round(ns[r], q), v)
      BY <2>1, <2>2, RoundLeads
    <2>3. FALSE \in BOOLEAN /\ TRUE \in BOOLEAN /\ 0 \in Nat
      OBVIOUS
    <2>4. Leads(e, u, Round(ns[r], q), v)
      BY <2>2, <2>3, Zenon
    <2>5. Leads(e, v, Round(ns[r], q), v)
      BY <2>2, <2>3, Zenon
    <2>6. QED
      BY <2>2, <2>3, <2>4, <2>5, Zenon
  <1> HIDE DEF u, v
  <1>3. /\ rounds \in [1..Rounds -> Seq(Calls)]
        /\ \A r \in 1..Rounds : Len(rounds[r]) = 3 /\ Leads(e, u, rounds[r], v) /\ Leads(e, v, rounds[r], v)
    BY <1>2
  <1> HIDE DEF rounds
  <1>4. InTurn(rounds, 3) \in Seq(Calls) /\ Leads(e, u, InTurn(rounds, 3), v)
    BY <1>1, <1>3, SameInTurn
  <1>5. QED
    BY <1>4 DEF u, v, rounds

LEMMA LheTestLeads ==
    ASSUME NEW e, NEW left \in BOOLEAN, left = e.compress
    PROVE  Freed(e, LheTest)
  <1> DEFINE u1 == Has(TRUE, TRUE, FALSE, FALSE, 1, 0)
             u2 == Has(TRUE, TRUE, FALSE, FALSE, Load, 0)
             u3 == Has(TRUE, TRUE, left, TRUE, Load, Load)
             set == <<SetTo(Load)>>
  <1>1. Load \in Nat /\ Load \in 0..Load /\ Load <= Load
    BY CallersAssumption
  <1>2. u1 \in Views /\ u2 \in Views /\ Pass(e, u1, SetTo(Load), u2) /\ SetTo(Load) \in Calls
    BY <1>1, CallsPass, CallsTyped
  <1>3. Round(Load, Load) \in Seq(Calls) /\ Leads(e, u2, Round(Load, Load), u3)
    BY <1>1, RoundLeads
  <1>4. Opening \in Seq(Calls) /\ Leads(e, Nothing, Opening, u1)
    BY OpenedLeads
  <1> HIDE DEF u1, u2
  <1>5. set \in Seq(Calls) /\ Leads(e, u1, set, u2)
    BY <1>2, OneCall
  <1> HIDE DEF set
  <1>6. /\ Leads(e, Nothing, (Opening \o set) \o Round(Load, Load), u3)
        /\ (Opening \o set) \o Round(Load, Load) \in Seq(Calls)
    BY <1>3, <1>4, <1>5, LeadsFar
  <1>7. Freed(e, ((Opening \o set) \o Round(Load, Load)) \o Closing)
    BY <1>1, <1>6, ClosedAfter
  <1>8. QED
    BY <1>7, Zenon DEF LheTest, set

\* The benchmarks of latency, which drop their secrets or recover again.
LEMMA QueryLatencyLeads ==
    ASSUME NEW e, e.drops
    PROVE  Freed(e, QueryLatency)
  <1> DEFINE u == Has(TRUE, TRUE, FALSE, FALSE, 1, 0)
             v == Has(TRUE, TRUE, TRUE, FALSE, 1, Load)
             ask == Ask(Load, 0)
  <1>1. Load \in Nat /\ 0 \in Nat /\ Load + 0 = Load
    BY CallersAssumption
  <1>2. /\ u \in Views /\ v \in Views /\ ask \in Calls
        /\ Pass(e, u, ask, v) /\ Pass(e, v, ask, v)
    BY <1>1, CallsPass, CallsTyped
  <1>3. Opening \in Seq(Calls) /\ Leads(e, Nothing, Opening, u)
    BY OpenedLeads
  <1> HIDE DEF u
  <1>4. Loop(ask) \in Seq(Calls) /\ Leads(e, u, Loop(ask), v)
    <2> HIDE DEF v, ask
    <2>1. QED
      BY <1>2, LoopLeads
  <1>5. Leads(e, Nothing, Opening \o Loop(ask), v) /\ Opening \o Loop(ask) \in Seq(Calls)
    BY <1>3, <1>4, LeadsOn
  <1>6. Freed(e, (Opening \o Loop(ask)) \o Closing)
    BY <1>1, <1>5, ClosedAfter
  <1>7. QED
    BY <1>6, Zenon DEF QueryLatency

LEMMA AnswerLatencyLeads ==
    ASSUME NEW e, e.drops, e.unset
    PROVE  Freed(e, AnswerLatency)
  <1> DEFINE u == Has(TRUE, TRUE, FALSE, FALSE, 1, 0)
             v == Has(TRUE, TRUE, TRUE, FALSE, 1, Load)
             w == Has(TRUE, TRUE, TRUE, TRUE, 1, Load)
             ask == <<Ask(Load, 0)>>
             answers == Loop(Call("answer"))
  <1>1. Load \in Nat /\ 0 \in Nat /\ Load + 0 = Load
    BY CallersAssumption
  <1>2. /\ u \in Views /\ v \in Views /\ w \in Views
        /\ Pass(e, u, Ask(Load, 0), v) /\ Pass(e, v, Call("answer"), w) /\ Pass(e, w, Call("answer"), w)
    BY <1>1, CallsPass
  <1>3. Ask(Load, 0) \in Calls /\ Call("answer") \in Calls
    BY <1>1, CallsTyped DEF Operations
  <1>4. Opening \in Seq(Calls) /\ Leads(e, Nothing, Opening, u)
    BY OpenedLeads
  <1> HIDE DEF u, v
  <1>5. /\ ask \in Seq(Calls) /\ Leads(e, u, ask, v)
        /\ answers \in Seq(Calls) /\ Leads(e, v, answers, w)
    <2> HIDE DEF w
    <2>1. QED
      BY <1>2, <1>3, OneCall, LoopLeads
  <1> HIDE DEF ask, answers
  <1>6. /\ Leads(e, Nothing, (Opening \o ask) \o answers, w)
        /\ (Opening \o ask) \o answers \in Seq(Calls)
    BY <1>4, <1>5, LeadsFar
  <1>7. Freed(e, ((Opening \o ask) \o answers) \o Closing)
    BY <1>1, <1>6, ClosedAfter
  <1>8. QED
    BY <1>7, Zenon DEF AnswerLatency, ask, answers

LEMMA RecoverLatencyLeads ==
    ASSUME NEW e, e.again, e.unset, NEW left \in BOOLEAN, left = e.compress
    PROVE  Freed(e, RecoverLatency)
  <1> DEFINE u == Has(TRUE, TRUE, FALSE, FALSE, 1, 0)
             v == Has(TRUE, TRUE, TRUE, FALSE, 1, Load)
             w == Has(TRUE, TRUE, TRUE, TRUE, 1, Load)
             x == Has(TRUE, TRUE, left, TRUE, 1, Load)
             once == <<Ask(Load, 0), Call("answer")>>
             again == Loop(Call("recover"))
  <1>1. Load \in Nat /\ 0 \in Nat /\ Load + 0 = Load
    BY CallersAssumption
  <1>2. /\ u \in Views /\ v \in Views /\ w \in Views /\ x \in Views
        /\ Pass(e, u, Ask(Load, 0), v) /\ Pass(e, v, Call("answer"), w)
        /\ Pass(e, w, Call("recover"), x) /\ Pass(e, x, Call("recover"), x)
    BY <1>1, CallsPass
  <1>3. Ask(Load, 0) \in Calls /\ Call("answer") \in Calls /\ Call("recover") \in Calls
    BY <1>1, CallsTyped DEF Operations
  <1>4. Opening \in Seq(Calls) /\ Leads(e, Nothing, Opening, u)
    BY OpenedLeads
  <1> HIDE DEF u, v, w
  <1>5. /\ once \in Seq(Calls) /\ Leads(e, u, once, w)
        /\ again \in Seq(Calls) /\ Leads(e, w, again, x)
    <2> HIDE DEF x
    <2>1. QED
      BY <1>2, <1>3, TwoCalls, LoopLeads
  <1> HIDE DEF once, again
  <1>6. /\ Leads(e, Nothing, (Opening \o once) \o again, x)
        /\ (Opening \o once) \o again \in Seq(Calls)
    BY <1>4, <1>5, LeadsFar
  <1>7. Freed(e, ((Opening \o once) \o again) \o Closing)
    BY <1>1, <1>6, ClosedAfter
  <1>8. QED
    BY <1>7, Zenon DEF RecoverLatency, once, again

\* The databases of distributional PIR set their batch ...
LEMMA DpirLeads ==
    ASSUME NEW e, NEW left \in BOOLEAN, left = e.compress, NEW ns \in Asked(Load)
    PROVE  Freed(e, Dpir(ns))
  <1> DEFINE u1 == Has(TRUE, FALSE, FALSE, FALSE, 1, 0)
             u2 == Has(TRUE, FALSE, FALSE, FALSE, Load, 0)
             u3 == Has(TRUE, TRUE, FALSE, FALSE, Load, 0)
             u4 == Has(TRUE, TRUE, left, TRUE, Load, Load)
             head == <<Call("makeServer"), SetTo(Load), Call("initClient")>>
             rounds == InTurn([r \in 1..Rounds |-> Round(ns[r], Load)], 3)
  <1>1. Load \in Nat /\ Load <= Load
    BY CallersAssumption
  <1>2. /\ u1 \in Views /\ u2 \in Views /\ u3 \in Views
        /\ Pass(e, Nothing, Call("makeServer"), u1) /\ Pass(e, u1, SetTo(Load), u2)
        /\ Pass(e, u2, Call("initClient"), u3)
    BY <1>1, CallsPass DEF Nothing
  <1>3. Call("makeServer") \in Calls /\ SetTo(Load) \in Calls /\ Call("initClient") \in Calls
    BY <1>1, CallsTyped DEF Operations
  <1>4. rounds \in Seq(Calls) /\ Leads(e, u3, rounds, u4)
    BY <1>1, RoundsLead
  <1> HIDE DEF u1, u2, u3, rounds
  <1>5. head \in Seq(Calls) /\ Leads(e, Nothing, head, u3)
    BY <1>2, <1>3, NothingIsView, ThreeCalls, Zenon
  <1> HIDE DEF head
  <1>6. Leads(e, Nothing, head \o rounds, u4) /\ head \o rounds \in Seq(Calls)
    BY <1>4, <1>5, LeadsOn
  <1>7. Freed(e, (head \o rounds) \o Closing)
    BY <1>1, <1>6, ClosedAfter
  <1>8. QED
    BY <1>7, Zenon DEF Dpir, head, rounds

\* ... and buckets of batch PIR do not.
LEMMA BucketLeads ==
    ASSUME NEW e, e.unset, NEW left \in BOOLEAN, left = e.compress, NEW ns \in Asked(P)
    PROVE  Freed(e, Bucket(ns)) /\ Freed(e, DpirBucket(ns))
  <1> DEFINE u == Has(TRUE, TRUE, FALSE, FALSE, 1, 0)
             v == Has(TRUE, TRUE, left, TRUE, 1, P)
             spare == <<Call("spareContext")>>
             rounds == InTurn([r \in 1..Rounds |-> Round(ns[r], P)], 3)
  <1>1. P \in Nat
    BY CallersAssumption
  <1>2. Opening \in Seq(Calls) /\ Leads(e, Nothing, Opening, u)
    BY OpenedLeads
  <1>3. rounds \in Seq(Calls) /\ Leads(e, u, rounds, v)
    BY <1>1, RoundsLead
  <1> HIDE DEF u, rounds
  <1>4. Leads(e, Nothing, Opening \o rounds, v) /\ Opening \o rounds \in Seq(Calls)
    BY <1>2, <1>3, LeadsOn
  <1>5. Freed(e, (Opening \o rounds) \o Closing)
    BY <1>1, <1>4, ClosedAfter
  <1>6. Freed(e, Bucket(ns))
    BY <1>5, Zenon DEF Bucket, rounds
  <1>7. spare \in Seq(Calls) /\ Leads(e, Nothing, spare, Nothing)
    <2>1. Pass(e, Nothing, Call("spareContext"), Nothing)
      BY CallsPass DEF Nothing
    <2>2. Call("spareContext") \in Calls
      BY CallsTyped DEF Operations
    <2>3. QED
      BY <2>1, <2>2, NothingIsView, OneCall
  <1> HIDE DEF spare
  <1>8. PICK w \in Views : Leads(e, Nothing, Bucket(ns), w) /\ Through(e, w)
    BY <1>6 DEF Freed
  <1>9. Leads(e, Nothing, spare \o Bucket(ns), w) /\ spare \o Bucket(ns) \in Seq(Calls)
    BY <1>6, <1>7, <1>8, LeadsOn DEF Freed
  <1>10. Freed(e, spare \o Bucket(ns))
    BY <1>8, <1>9 DEF Freed
  <1>11. QED
    BY <1>6, <1>10, Zenon DEF DpirBucket, spare

\* Nor do the benchmarks of batch PIR, one of which drops its secrets ...
LEMMA PbcBenchLeads ==
    ASSUME NEW e, e.unset, e.drops, NEW ns \in Asked(P)
    PROVE  Freed(e, PbcBench(ns))
  <1> DEFINE u == Has(TRUE, TRUE, FALSE, FALSE, 1, 0)
             v == Has(TRUE, TRUE, TRUE, FALSE, 1, P)
             w == Has(TRUE, TRUE, TRUE, TRUE, 1, P)
             round(r) == <<Ask(ns[r], P - ns[r]), Call("answer")>>
             rounds == [r \in 1..Rounds |-> round(r)]
             calls == InTurn([r \in 1..Rounds |-> <<Ask(ns[r], P - ns[r]), Call("answer")>>], 2)
  <1>1. P \in Nat
    BY CallersAssumption
  <1>2. u \in Views /\ v \in Views /\ w \in Views
    BY <1>1, CallsPass
  <1>3. ASSUME NEW r \in 1..Rounds
        PROVE  /\ round(r) \in Seq(Calls) /\ Len(round(r)) = 2
               /\ Leads(e, u, round(r), w) /\ Leads(e, w, round(r), w)
    <2>1. ns[r] \in Nat /\ P - ns[r] \in Nat /\ ns[r] + (P - ns[r]) = P
      BY <1>1 DEF Asked
    <2>2. /\ Pass(e, u, Ask(ns[r], P - ns[r]), v) /\ Pass(e, w, Ask(ns[r], P - ns[r]), v)
          /\ Pass(e, v, Call("answer"), w)
      BY <1>1, <2>1, CallsPass
    <2>3. Ask(ns[r], P - ns[r]) \in Calls /\ Call("answer") \in Calls
      BY <2>1, CallsTyped DEF Operations
    <2> HIDE DEF u, v, w
    <2>4. /\ round(r) \in Seq(Calls)
          /\ Leads(e, u, round(r), w) /\ Leads(e, w, round(r), w)
      BY <1>2, <2>2, <2>3, TwoCalls, Zenon
    <2>5. Len(round(r)) = 2
      OBVIOUS
    <2>6. QED
      BY <2>4, <2>5
  <1>4. Opening \in Seq(Calls) /\ Leads(e, Nothing, Opening, u)
    BY OpenedLeads
  <1> HIDE DEF u
  <1>5. calls \in Seq(Calls) /\ Leads(e, u, calls, w)
    <2> HIDE DEF w, round
    <2>1. /\ rounds \in [1..Rounds -> Seq(Calls)]
          /\ \A r \in 1..Rounds :
               Len(rounds[r]) = 2 /\ Leads(e, u, rounds[r], w) /\ Leads(e, w, rounds[r], w)
      BY <1>3
    <2> HIDE DEF rounds
    <2>2. InTurn(rounds, 2) \in Seq(Calls) /\ Leads(e, u, InTurn(rounds, 2), w)
      BY <1>2, <2>1, SameInTurn
    <2>3. QED
      BY <2>2 DEF rounds, round
  <1> HIDE DEF calls
  <1>6. Leads(e, Nothing, Opening \o calls, w) /\ Opening \o calls \in Seq(Calls)
    BY <1>4, <1>5, LeadsOn
  <1>7. Freed(e, (Opening \o calls) \o Closing)
    BY <1>1, <1>6, ClosedAfter
  <1>8. QED
    BY <1>7, Zenon DEF PbcBench, calls

\* ... and the other of which asks for dummies only, which have no keys, of one
\* database after the other.
LEMMA DummyBenchLeads ==
    ASSUME NEW e, e.unset, NEW a \in BOOLEAN, NEW room \in Nat, NEW asked \in Nat
    PROVE  /\ DummyBench \in Seq(Calls)
           /\ Leads(e, Has(FALSE, FALSE, FALSE, a, room, asked), DummyBench, Has(TRUE, TRUE, FALSE, TRUE, 1, P))
  <1> DEFINE u1 == Has(FALSE, FALSE, FALSE, a, room, asked)
             u2 == Has(TRUE, TRUE, FALSE, a, 1, asked)
             u3 == Has(TRUE, TRUE, FALSE, FALSE, 1, P)
             u4 == Has(TRUE, TRUE, FALSE, TRUE, 1, P)
             spare == <<Call("spareContext")>>
             ask == <<Ask(0, P)>>
             answers == Loop(Call("answer"))
  <1>1. P \in Nat /\ 0 \in Nat
    BY CallersAssumption
  <1>2. u1 \in Views /\ u2 \in Views /\ u3 \in Views /\ u4 \in Views
    BY <1>1, CallsPass
  <1>3. /\ Pass(e, u1, Call("spareContext"), u1) /\ Pass(e, u2, Ask(0, P), u3)
        /\ Pass(e, u3, Call("answer"), u4) /\ Pass(e, u4, Call("answer"), u4)
    BY <1>1, CallsPass
  <1>4. Call("spareContext") \in Calls /\ Ask(0, P) \in Calls /\ Call("answer") \in Calls
    BY <1>1, CallsTyped DEF Operations
  <1>5. Opening \in Seq(Calls) /\ Leads(e, u1, Opening, u2)
    BY OpeningLeads
  <1> HIDE DEF u1, u2, u3, u4
  <1>6. /\ spare \in Seq(Calls) /\ Leads(e, u1, spare, u1)
        /\ ask \in Seq(Calls) /\ Leads(e, u2, ask, u3)
        /\ answers \in Seq(Calls) /\ Leads(e, u3, answers, u4)
    BY <1>2, <1>3, <1>4, OneCall, LoopLeads
  <1> HIDE DEF spare, ask, answers
  <1>7. /\ Leads(e, u1, (spare \o Opening) \o ask, u3)
        /\ (spare \o Opening) \o ask \in Seq(Calls)
    BY <1>5, <1>6, LeadsFar
  <1> DEFINE first == (spare \o Opening) \o ask
  <1>8. first \in Seq(Calls) /\ Leads(e, u1, first, u3)
    BY <1>7
  <1>9. DummyBench = first \o answers
    BY Zenon DEF DummyBench, spare, ask, answers
  <1> HIDE DEF first
  <1>10. Leads(e, u1, first \o answers, u4) /\ first \o answers \in Seq(Calls)
    BY <1>6, <1>8, LeadsOn
  <1>11. QED
    BY <1>9, <1>10 DEF u1, u4

LEMMA DpirBenchLeads ==
    ASSUME NEW e, e.unset
    PROVE  Freed(e, DpirBench)
  <1> DEFINE open == Has(TRUE, TRUE, FALSE, TRUE, 1, P)
             shut == Has(FALSE, FALSE, FALSE, TRUE, 1, P)
             half == Has(TRUE, FALSE, FALSE, TRUE, 1, P)
             last == <<Call("freeClient"), Call("freeServer")>>
  <1>1. P \in Nat /\ 1 \in Nat
    BY CallersAssumption
  <1>2. open \in Views /\ shut \in Views /\ half \in Views
    BY <1>1, CallsPass
  <1>3. /\ DummyBench \in Seq(Calls)
        /\ Leads(e, Nothing, DummyBench, open) /\ Leads(e, shut, DummyBench, open)
    BY <1>1, DummyBenchLeads DEF Nothing
  <1>4. Closing \in Seq(Calls) /\ Leads(e, open, Closing, shut)
    BY <1>1, ClosingLeads
  <1>5. Pass(e, open, Call("freeClient"), half) /\ Pass(e, half, Call("freeServer"), shut)
    BY <1>1, CallsPass
  <1>6. Call("freeClient") \in Calls /\ Call("freeServer") \in Calls
    BY CallsTyped DEF Operations
  <1>7. Through(e, shut)
    BY DEF Through, Has
  <1> HIDE DEF open, shut, half
  <1>8. last \in Seq(Calls) /\ Leads(e, open, last, shut)
    BY <1>2, <1>5, <1>6, TwoCalls
  <1> HIDE DEF last
  <1> DEFINE both == (DummyBench \o Closing) \o DummyBench
  <1>9. Leads(e, Nothing, both, open) /\ both \in Seq(Calls)
    BY <1>3, <1>4, LeadsFar
  <1>10. DpirBench = both \o last
    BY Zenon DEF DpirBench, last
  <1> HIDE DEF both
  <1>11. Leads(e, Nothing, both \o last, shut) /\ both \o last \in Seq(Calls)
    BY <1>8, <1>9, LeadsOn
  <1>12. QED
    BY <1>2, <1>7, <1>10, <1>11 DEF Freed

\* The benchmarks that free their secrets.
LEMMA QueryBenchLeads ==
    ASSUME NEW e
    PROVE  Freed(e, QueryBench)
  <1> DEFINE after(r) == Has(TRUE, TRUE, FALSE, FALSE, 1, r)
             round(r) == <<Ask(r, 0), Call("freeSecrets")>>
             at == [r \in 0..Rounds |-> after(r)]
             rounds == [r \in 1..Rounds |-> round(r)]
             calls == InTurn([r \in 1..Rounds |-> <<Ask(r, 0), Call("freeSecrets")>>], 2)
  <1>1. Rounds \in Nat /\ Rounds > 0 /\ 0 \in Nat
    BY CallersAssumption
  <1>2. ASSUME NEW r \in Nat PROVE after(r) \in Views
    BY CallsPass
  <1>3. ASSUME NEW r \in Nat, NEW n \in Nat
        PROVE  round(r) \in Seq(Calls) /\ Len(round(r)) = 2 /\ Leads(e, after(n), round(r), after(r))
    <2> DEFINE v == Has(TRUE, TRUE, TRUE, FALSE, 1, r)
               un == after(n)
               ur == after(r)
    <2>1. v \in Views /\ r + 0 = r /\ un \in Views /\ ur \in Views
      <3>1. v \in Views
        BY CallsPass
      <3>2. r + 0 = r
        OBVIOUS
      <3>3. QED
        BY <1>2, <3>1, <3>2
    <2>2. Pass(e, un, Ask(r, 0), v) /\ Pass(e, v, Call("freeSecrets"), ur)
      BY <1>1, <2>1, CallsPass
    <2>3. Ask(r, 0) \in Calls /\ Call("freeSecrets") \in Calls
      BY <1>1, CallsTyped DEF Operations
    <2> HIDE DEF v, un, ur
    <2>4. round(r) \in Seq(Calls) /\ Leads(e, un, round(r), ur)
      BY <2>1, <2>2, <2>3, TwoCalls, Zenon
    <2>5. Len(round(r)) = 2
      OBVIOUS
    <2>6. QED
      BY <2>4, <2>5 DEF un, ur
  <1>4. Opening \in Seq(Calls) /\ Leads(e, Nothing, Opening, after(0))
    BY OpenedLeads
  <1>5. calls \in Seq(Calls) /\ Leads(e, after(0), calls, after(Rounds))
    <2> HIDE DEF after, round
    <2>1. /\ at \in [0..Rounds -> Views] /\ at[0] = after(0) /\ at[Rounds] = after(Rounds)
          /\ \A r \in 1..Rounds : at[r] = after(r) /\ at[r - 1] = after(r - 1)
      BY <1>1, <1>2
    <2>2. /\ rounds \in [1..Rounds -> Seq(Calls)]
          /\ \A r \in 1..Rounds : rounds[r] = round(r)
      BY <1>3
    <2>3. ASSUME NEW r \in 1..Rounds
          PROVE  Len(rounds[r]) = 2 /\ Leads(e, at[r - 1], rounds[r], at[r])
      <3>1. r \in Nat /\ r - 1 \in Nat
        BY <1>1
      <3>2. Len(round(r)) = 2 /\ Leads(e, after(r - 1), round(r), after(r))
        BY <1>3, <3>1
      <3> HIDE DEF at, rounds
      <3>3. QED
        BY <2>1, <2>2, <3>2
    <2> HIDE DEF at, rounds
    <2>4. InTurn(rounds, 2) \in Seq(Calls) /\ Leads(e, at[0], InTurn(rounds, 2), at[Rounds])
      BY <2>1, <2>2, <2>3, InTurnLeads
    <2>5. QED
      BY <2>1, <2>4 DEF rounds, round
  <1> HIDE DEF calls
  <1>6. Leads(e, Nothing, Opening \o calls, after(Rounds)) /\ Opening \o calls \in Seq(Calls)
    <2> HIDE DEF after
    <2>1. QED
      BY <1>4, <1>5, LeadsOn
  <1>7. Freed(e, (Opening \o calls) \o Closing)
    BY <1>1, <1>6, ClosedAfter
  <1>8. QED
    BY <1>7, Zenon DEF QueryBench, calls

LEMMA TputLeads ==
    ASSUME NEW e, NEW a \in BOOLEAN, NEW room \in Nat, NEW asked \in Nat, NEW k \in Nat
    PROVE  /\ Tput(k) \in Seq(Calls)
           /\ Leads(e, Has(TRUE, TRUE, FALSE, a, room, asked), Tput(k), Has(TRUE, TRUE, FALSE, TRUE, k, k))
  <1> DEFINE u1 == Has(TRUE, TRUE, FALSE, a, room, asked)
             u2 == Has(TRUE, TRUE, TRUE, FALSE, room, k)
             u3 == Has(TRUE, TRUE, FALSE, FALSE, room, k)
             u4 == Has(TRUE, TRUE, FALSE, FALSE, k, k)
             u5 == Has(TRUE, TRUE, FALSE, TRUE, k, k)
             head == <<Ask(k, 0), Call("freeSecrets"), SetTo(k)>>
             answers == Loop(Call("answer"))
  <1>1. u1 \in Views /\ u2 \in Views /\ u3 \in Views /\ u4 \in Views /\ u5 \in Views
    BY CallsPass
  <1>2. /\ Pass(e, u1, Ask(k, 0), u2) /\ Pass(e, u2, Call("freeSecrets"), u3)
        /\ Pass(e, u3, SetTo(k), u4) /\ Pass(e, u4, Call("answer"), u5)
        /\ Pass(e, u5, Call("answer"), u5)
    <2>1. 0 \in Nat /\ k + 0 = k /\ k <= k
      OBVIOUS
    <2>2. QED
      BY <2>1, CallsPass
  <1>3. /\ Ask(k, 0) \in Calls /\ Call("freeSecrets") \in Calls
        /\ SetTo(k) \in Calls /\ Call("answer") \in Calls
    BY CallsTyped DEF Operations
  <1> HIDE DEF u1, u2, u3, u4, u5
  <1>4. head \in Seq(Calls) /\ Leads(e, u1, head, u4)
    BY <1>1, <1>2, <1>3, ThreeCalls, Zenon
  <1>5. answers \in Seq(Calls) /\ Leads(e, u4, answers, u5)
    BY <1>1, <1>2, <1>3, LoopLeads
  <1>6. Tput(k) = head \o answers
    BY DEF Tput
  <1> HIDE DEF head, answers
  <1>7. Leads(e, u1, head \o answers, u5) /\ head \o answers \in Seq(Calls)
    BY <1>4, <1>5, LeadsOn
  <1>8. QED
    BY <1>6, <1>7 DEF u1, u5

LEMMA ThroughputBenchLeads ==
    ASSUME NEW e
    PROVE  Freed(e, ThroughputBench)
  <1> DEFINE none == Has(TRUE, TRUE, FALSE, FALSE, 1, 0)
             one == Has(TRUE, TRUE, FALSE, TRUE, 1, 1)
             full == Has(TRUE, TRUE, FALSE, TRUE, Load, Load)
  <1>1. Load \in Nat /\ 1 \in Nat /\ 0 \in Nat
    BY CallersAssumption
  <1>2. /\ Tput(1) \in Seq(Calls) /\ Tput(Load) \in Seq(Calls)
        /\ Leads(e, none, Tput(1), one) /\ Leads(e, one, Tput(Load), full)
    BY <1>1, TputLeads
  <1>3. Opening \in Seq(Calls) /\ Leads(e, Nothing, Opening, none)
    BY OpenedLeads
  <1> HIDE DEF none, one
  <1>4. /\ Leads(e, Nothing, (Opening \o Tput(1)) \o Tput(Load), full)
        /\ (Opening \o Tput(1)) \o Tput(Load) \in Seq(Calls)
    BY <1>2, <1>3, LeadsFar
  <1>5. Freed(e, ((Opening \o Tput(1)) \o Tput(Load)) \o Closing)
    BY <1>1, <1>4, ClosedAfter
  <1>6. QED
    BY <1>5, Zenon DEF ThroughputBench

\* Answers to a client of the service, which recovers from them or not.
LEMMA AnswerRoundsLead ==
    ASSUME NEW e, e.service, e.compress, e.compress \in BOOLEAN, NEW compresses \in BOOLEAN
    PROVE  /\ AnswerRounds(compresses) \in Seq(Calls)
           /\ Leads(e, Has(TRUE, TRUE, TRUE, FALSE, Load, Load), AnswerRounds(compresses),
                    Has(TRUE, TRUE, TRUE, TRUE, Load, Load))
  <1> DEFINE u == Has(TRUE, TRUE, TRUE, FALSE, Load, Load)
             v == Has(TRUE, TRUE, TRUE, TRUE, Load, Load)
             round == <<Call("answer"), Call("recover")>>
             rounds == [r \in 1..Rounds |-> round]
  <1>1. Load \in Nat /\ Load <= Load
    BY CallersAssumption
  <1>2. /\ u \in Views /\ v \in Views
        /\ Pass(e, u, Call("answer"), v) /\ Pass(e, v, Call("answer"), v)
    BY <1>1, CallsPass
  <1>3. Pass(e, v, Call("recover"), v)
    <2>1. PICK left \in BOOLEAN : left = e.compress /\ left = TRUE
      OBVIOUS
    <2>2. Pass(e, v, Call("recover"), Has(TRUE, TRUE, left, TRUE, Load, Load))
      BY <1>1, <2>1, CallsPass
    <2>3. QED
      BY <2>1, <2>2
  <1>4. Call("answer") \in Calls /\ Call("recover") \in Calls
    BY CallsTyped DEF Operations
  <1> HIDE DEF u, v
  <1>5. CASE compresses
    <2>1. /\ round \in Seq(Calls) /\ Len(round) = 2
          /\ Leads(e, u, round, v) /\ Leads(e, v, round, v)
      <3>1. Len(round) = 2
        OBVIOUS
      <3>2. QED
        BY <1>2, <1>3, <1>4, <3>1, TwoCalls, Zenon
    <2> HIDE DEF round
    <2>2. /\ rounds \in [1..Rounds -> Seq(Calls)]
          /\ \A r \in 1..Rounds : Len(rounds[r]) = 2 /\ Leads(e, u, rounds[r], v) /\ Leads(e, v, rounds[r], v)
      BY <2>1
    <2> HIDE DEF rounds
    <2>3. InTurn(rounds, 2) \in Seq(Calls) /\ Leads(e, u, InTurn(rounds, 2), v)
      BY <1>2, <2>2, SameInTurn
    <2>4. AnswerRounds(compresses) = InTurn(rounds, 2)
      BY <1>5 DEF AnswerRounds, rounds, round
    <2>5. QED
      BY <2>3, <2>4 DEF u, v
  <1>6. CASE ~compresses
    <2>1. Loop(Call("answer")) \in Seq(Calls) /\ Leads(e, u, Loop(Call("answer")), v)
      BY <1>2, <1>4, LoopLeads
    <2>2. AnswerRounds(compresses) = Loop(Call("answer"))
      BY <1>6 DEF AnswerRounds
    <2>3. QED
      BY <2>1, <2>2 DEF u, v
  <1>7. QED
    BY <1>5, <1>6

\* A client of the service, whatever was left by the one before, and whatever
\* its search for the capacity leaves.
LEMMA SessionLeads ==
    ASSUME NEW e, e.service, e.compress, e.compress \in BOOLEAN, NEW compresses \in BOOLEAN,
           NEW s \in BOOLEAN, NEW k \in BOOLEAN, NEW a \in BOOLEAN, NEW room \in Nat, NEW asked \in Nat,
           NEW search \in Seq(Calls), NEW a2 \in BOOLEAN, NEW room2 \in Nat,
           Leads(e, Has(TRUE, TRUE, TRUE, TRUE, Load, Load), search, Has(TRUE, TRUE, TRUE, a2, room2, Load))
    PROVE  /\ Session(compresses, search) \in Seq(Calls)
           /\ Leads(e, Has(s, FALSE, k, a, room, asked), Session(compresses, search),
                    Has(TRUE, FALSE, TRUE, a2, room2, Load))
  <1> DEFINE u1 == Has(s, FALSE, k, a, room, asked)
             u2 == Has(TRUE, FALSE, k, a, 1, asked)
             u3 == Has(TRUE, FALSE, k, a, Load, asked)
             u4 == Has(TRUE, TRUE, k, a, Load, asked)
             u5 == Has(TRUE, TRUE, TRUE, FALSE, Load, Load)
             u6 == Has(TRUE, TRUE, TRUE, TRUE, Load, Load)
             u7 == Has(TRUE, TRUE, TRUE, a2, room2, Load)
             u8 == Has(TRUE, FALSE, TRUE, a2, room2, Load)
             head == <<Call("makeServer"), SetTo(Load), Call("initClient"), Ask(Load, 0)>>
             rounds == AnswerRounds(compresses)
             last == <<Call("freeClient")>>
  <1>0. Load \in Nat /\ 0 \in Nat /\ Load + 0 = Load
    BY CallersAssumption
  <1>1. /\ u1 \in Views /\ u2 \in Views /\ u3 \in Views /\ u4 \in Views
        /\ u5 \in Views /\ u6 \in Views /\ u7 \in Views /\ u8 \in Views
    BY <1>0, CallsPass
  <1>2. /\ Pass(e, u1, Call("makeServer"), u2) /\ Pass(e, u2, SetTo(Load), u3)
        /\ Pass(e, u3, Call("initClient"), u4) /\ Pass(e, u4, Ask(Load, 0), u5)
    <2>1. Pass(e, u1, Call("makeServer"), u2)
      <3>1. FALSE \in BOOLEAN /\ (s => e.service)
        BY Zenon
      <3>2. QED
        BY <3>1, CallsPass, Zenon
    <2>2. Pass(e, u2, SetTo(Load), u3)
      BY <1>0, CallsPass
    <2>3. Pass(e, u3, Call("initClient"), u4)
      BY <1>0, CallsPass
    <2>4. Pass(e, u4, Ask(Load, 0), u5)
      BY <1>0, CallsPass
    <2>5. QED
      BY <2>1, <2>2, <2>3, <2>4, Zenon
  <1>3. Pass(e, u7, Call("freeClient"), u8)
    BY <1>0, CallsPass
  <1>4. /\ Call("makeServer") \in Calls /\ Call("initClient") \in Calls /\ SetTo(Load) \in Calls
        /\ Ask(Load, 0) \in Calls /\ Call("freeClient") \in Calls
    BY <1>0, CallsTyped DEF Operations
  <1>5. Leads(e, u6, search, u7)
    OBVIOUS
  <1>6. rounds \in Seq(Calls) /\ Leads(e, u5, rounds, u6)
    BY AnswerRoundsLead
  <1> HIDE DEF u1, u2, u3, u4, u5, u6, u7, u8
  <1>7. head \in Seq(Calls) /\ Leads(e, u1, head, u5)
    BY <1>1, <1>2, <1>4, FourCalls, Zenon
  <1>8. last \in Seq(Calls) /\ Leads(e, u7, last, u8)
    BY <1>1, <1>3, <1>4, OneCall, Zenon
  <1>9. Session(compresses, search) = ((head \o rounds) \o search) \o last
    BY Zenon DEF Session
  <1> HIDE DEF head, rounds, last
  <1> DEFINE first == (head \o rounds) \o search
  <1>10. Leads(e, u1, first, u7) /\ first \in Seq(Calls)
    BY <1>5, <1>6, <1>7, LeadsFar
  <1> HIDE DEF first
  <1>11. Leads(e, u1, first \o last, u8) /\ first \o last \in Seq(Calls)
    BY <1>8, <1>10, LeadsOn
  <1>12. QED
    BY <1>9, <1>11 DEF u1, u8, first

LEMMA ServiceLeads ==
    ASSUME NEW e, e.service, e.compress, e.compress \in BOOLEAN, NEW compresses \in BOOLEAN
    PROVE  /\ Freed(e, Searched(compresses))
           /\ Freed(e, Searched(FALSE) \o Session(compresses, <<>>))
  <1> DEFINE full == Has(TRUE, TRUE, TRUE, TRUE, Load, Load)
             after == Has(TRUE, TRUE, TRUE, FALSE, 0, Load)
             first == Has(TRUE, FALSE, TRUE, FALSE, 0, Load)
             second == Has(TRUE, FALSE, TRUE, TRUE, Load, Load)
  <1>0. Load \in Nat /\ 0 \in Nat
    BY CallersAssumption
  <1>1. full \in Views /\ after \in Views /\ first \in Views /\ second \in Views
    BY <1>0, CallsPass
  <1>2. Pass(e, full, Call("capacity"), after)
    BY <1>0, CallsPass
  <1>3. Call("capacity") \in Calls
    BY CallsTyped DEF Operations
  <1>4. <<Call("capacity")>> \in Seq(Calls) /\ Leads(e, full, <<Call("capacity")>>, after)
    <2> HIDE DEF full, after
    <2>1. QED
      BY <1>1, <1>2, <1>3, OneCall, Zenon
  <1>5. <<>> \in Seq(Calls) /\ Leads(e, full, <<>>, full)
    <2> HIDE DEF full
    <2>1. QED
      BY <1>1, NoCall
  <1>6. ASSUME NEW c \in BOOLEAN
        PROVE  Searched(c) \in Seq(Calls) /\ Leads(e, Nothing, Searched(c), first)
    <2> DEFINE search == <<Call("capacity")>>
    <2>1. search \in Seq(Calls) /\ Leads(e, full, search, after)
      BY <1>4
    <2> HIDE DEF search
    <2>2. Session(c, search) \in Seq(Calls) /\ Leads(e, Nothing, Session(c, search), first)
      BY <1>0, <2>1, SessionLeads DEF Nothing
    <2>3. QED
      BY <2>2, Zenon DEF Searched, search
  <1>7. /\ Session(compresses, <<>>) \in Seq(Calls)
        /\ Leads(e, first, Session(compresses, <<>>), second)
    <2> DEFINE search == <<>>
    <2>1. search \in Seq(Calls) /\ Leads(e, full, search, full)
      BY <1>5
    <2> HIDE DEF search
    <2>2. Session(compresses, search) \in Seq(Calls) /\ Leads(e, first, Session(compresses, search), second)
      BY <1>0, <2>1, SessionLeads
    <2>3. QED
      BY <2>2 DEF search
  <1>8. Through(e, first) /\ Through(e, second)
    BY DEF Through, Has
  <1> HIDE DEF full, after, first, second
  <1>9. /\ Leads(e, Nothing, Searched(FALSE) \o Session(compresses, <<>>), second)
        /\ Searched(FALSE) \o Session(compresses, <<>>) \in Seq(Calls)
    <2>1. Searched(FALSE) \in Seq(Calls) /\ Leads(e, Nothing, Searched(FALSE), first)
      BY <1>6, Zenon
    <2>2. QED
      BY <1>7, <2>1, LeadsOn, Zenon
  <1>10. QED
    BY <1>1, <1>6, <1>8, <1>9 DEF Freed

\* Every caller makes its calls with what they need, or takes its liberties.
LEMMA PlansLead ==
    ASSUME CallersInit
    PROVE  Freed(Env, plan)
  <1>1. /\ caller \in DOMAIN Plans /\ plan \in Plans[caller] /\ hasGpu \in BOOLEAN
        /\ compressHint = (caller = "service")
    BY DEF CallersInit
  <1>2. /\ Env.gpu = hasGpu /\ Env.compress = compressHint /\ Env.service = (caller = "service")
        /\ Env.unset = (caller \in SetsNoBatch) /\ Env.drops = (caller \in DropsSecrets)
        /\ Env.again = (caller = "recoverLatency")
    BY DEF Env
  <1>3. PICK left \in BOOLEAN : left = Env.compress
    BY <1>1, <1>2
  <1>4. CASE caller = "lheTest"
    <2>1. plan = LheTest
      BY <1>1, <1>4 DEF Plans
    <2>2. QED
      BY <1>3, <2>1, LheTestLeads
  <1>5. CASE caller = "queryLatency"
    <2>1. plan = QueryLatency /\ Env.drops
      BY <1>1, <1>2, <1>5 DEF Plans, DropsSecrets
    <2>2. QED
      BY <2>1, QueryLatencyLeads
  <1>6. CASE caller = "answerLatency"
    <2>1. plan = AnswerLatency /\ Env.drops /\ Env.unset
      BY <1>1, <1>2, <1>6 DEF Plans, DropsSecrets, SetsNoBatch
    <2>2. QED
      BY <2>1, AnswerLatencyLeads
  <1>7. CASE caller = "recoverLatency"
    <2>1. plan = RecoverLatency /\ Env.again /\ Env.unset
      BY <1>1, <1>2, <1>7 DEF Plans, SetsNoBatch
    <2>2. QED
      BY <1>3, <2>1, RecoverLatencyLeads
  <1>8. CASE caller = "dpir"
    <2>1. PICK ns \in Asked(Load) : plan = Dpir(ns)
      BY <1>1, <1>8 DEF Plans
    <2>2. QED
      BY <1>3, <2>1, DpirLeads
  <1>9. CASE caller = "bucket"
    <2>1. PICK ns \in Asked(P) : plan = Bucket(ns) \/ plan = DpirBucket(ns)
      BY <1>1, <1>9 DEF Plans
    <2>2. Env.unset
      BY <1>2, <1>9 DEF SetsNoBatch
    <2>3. QED
      BY <1>3, <2>1, <2>2, BucketLeads
  <1>10. CASE caller = "pbcBench"
    <2>1. PICK ns \in Asked(P) : plan = PbcBench(ns)
      BY <1>1, <1>10 DEF Plans
    <2>2. Env.unset /\ Env.drops
      BY <1>2, <1>10 DEF SetsNoBatch, DropsSecrets
    <2>3. QED
      BY <2>1, <2>2, PbcBenchLeads
  <1>11. CASE caller = "dpirBench"
    <2>1. plan = DpirBench /\ Env.unset
      BY <1>1, <1>2, <1>11 DEF Plans, SetsNoBatch
    <2>2. QED
      BY <2>1, DpirBenchLeads
  <1>12. CASE caller = "queryBench"
    <2>1. plan = QueryBench
      BY <1>1, <1>12 DEF Plans
    <2>2. QED
      BY <2>1, QueryBenchLeads
  <1>13. CASE caller = "throughputBench"
    <2>1. plan = ThroughputBench
      BY <1>1, <1>13 DEF Plans
    <2>2. QED
      BY <2>1, ThroughputBenchLeads
  <1>14. CASE caller = "service"
    <2>1. PICK compresses \in BOOLEAN :
              \/ plan = Searched(compresses)
              \/ plan = Searched(FALSE) \o Session(compresses, <<>>)
      BY <1>1, <1>14, Zenon DEF Plans
    <2>2. Env.service /\ Env.compress /\ Env.compress \in BOOLEAN
      BY <1>1, <1>2, <1>14
    <2>3. QED
      BY <2>1, <2>2, ServiceLeads
  <1>15. QED
    BY <1>1, <1>4, <1>5, <1>6, <1>7, <1>8, <1>9, <1>10, <1>11, <1>12, <1>13, <1>14 DEF Plans

-----------------------------------------------------------------------------
(* The heap *)

ObjectKinds == {"serverCtx", "spareCtx", "gpu", "ctx", "initKey", "a", "key", "ct", "pt"}
Object == [kind : ObjectKinds, number : Nat]

\* Nothing was misused but by recovering again, and numbers are taken in order.
Sound(h) ==
    /\ h \in [live : SUBSET Object, made : Nat, misused : BOOLEAN]
    /\ h.misused => caller = "recoverLatency"
    /\ \A o \in h.live : o.number <= h.made

\* Objects made anew are not those there were.
LEMMA Fresh ==
    ASSUME NEW h, Sound(h), NEW kind \in ObjectKinds, NEW k \in Nat,
           NEW objects, objects = Objects(kind, h, k)
    PROVE  /\ Sound(New(h, objects))
           /\ New(h, objects).live = h.live \cup objects
           /\ New(h, objects).made = h.made + k
           /\ objects \subseteq Object
           /\ \A o \in objects : o.kind = kind /\ h.made < o.number /\ o.number <= h.made + k
           /\ \A i \in 1..k : [kind |-> kind, number |-> h.made + i] \in objects
  <1> DEFINE nth(i) == [kind |-> kind, number |-> h.made + i]
             at == [i \in 1..k |-> nth(i)]
  <1>1. h.made \in Nat /\ objects = {nth(i) : i \in 1..k}
    BY DEF Sound, Objects
  <1>2. \A i \in 1..k : nth(i) \in Object /\ nth(i).kind = kind /\ nth(i).number = h.made + i
    BY <1>1 DEF Object
  <1>3. at \in Bijection(1..k, objects)
    <2>1. at \in [1..k -> objects]
      BY <1>1
    <2>2. \A i, j \in 1..k : at[i] = at[j] => i = j
      <3> SUFFICES ASSUME NEW i \in 1..k, NEW j \in 1..k, nth(i) = nth(j) PROVE i = j
        OBVIOUS
      <3>1. h.made + i = h.made + j
        BY <1>2
      <3>2. QED
        BY <1>1, <3>1
    <2>3. \A o \in objects : \E i \in 1..k : at[i] = o
      BY <1>1
    <2> HIDE DEF at, nth
    <2>4. QED
      BY <2>1, <2>2, <2>3 DEF Bijection, Injection, Surjection, IsInjective
  <1>4. Cardinality(objects) = k
    <2>1. IsFiniteSet(1..k) /\ Cardinality(1..k) = k
      <3>1. 1 \in Int /\ k \in Int /\ (IF 1 > k THEN 0 ELSE k - 1 + 1) = k
        OBVIOUS
      <3>2. QED
        BY <3>1, FS_Interval
    <2>2. ExistsBijection(1..k, objects)
      BY <1>3 DEF ExistsBijection
    <2>3. QED
      BY <2>1, <2>2, FS_Bijection
  <1>5. New(h, objects) = [live |-> h.live \cup objects, made |-> h.made + k, misused |-> h.misused]
    BY <1>4 DEF New, Heap
  <1>6. objects \subseteq Object
    BY <1>1, <1>2
  <1>7. \A o \in objects : o.kind = kind /\ h.made < o.number /\ o.number <= h.made + k
    BY <1>1, <1>2
  <1>8. \A i \in 1..k : nth(i) \in objects
    BY <1>1
  <1> HIDE DEF nth, at
  <1>9. Sound(New(h, objects))
    <2> DEFINE n == New(h, objects)
    <2>1. n.live = h.live \cup objects /\ n.made = h.made + k /\ n.misused = h.misused
      BY <1>5
    <2>2. /\ n.live \subseteq Object /\ n.made \in Nat /\ n.misused \in BOOLEAN
          /\ n.misused => caller = "recoverLatency"
      BY <1>1, <1>6, <2>1 DEF Sound
    <2>3. \A o \in n.live : o.number <= n.made
      <3>1. \A o \in h.live : o.number \in Nat /\ o.number <= h.made
        BY DEF Sound, Object
      <3>2. QED
        BY <1>1, <1>7, <2>1, <3>1
    <2>4. n = [live |-> n.live, made |-> n.made, misused |-> n.misused]
      BY <1>5
    <2> HIDE DEF n
    <2>5. Sound(n)
      BY <2>1, <2>2, <2>3, <2>4 DEF Sound
    <2>6. QED
      BY <2>5 DEF n
  <1>10. New(h, objects).live = h.live \cup objects /\ New(h, objects).made = h.made + k
    BY <1>5
  <1>11. QED
    BY <1>6, <1>7, <1>8, <1>9, <1>10 DEF nth

\* Live objects can be used, and freed.
LEMMA Live ==
    ASSUME NEW h, Sound(h), NEW objects, objects \subseteq h.live
    PROVE  /\ Use(h, objects) = h
           /\ Sound(Release(h, objects))
           /\ Release(h, objects).live = h.live \ objects
           /\ Release(h, objects).made = h.made
  <1>1. h = [live |-> h.live, made |-> h.made, misused |-> h.misused] /\ h.misused \in BOOLEAN
    BY DEF Sound
  <1>2. Use(h, objects) = h
    <2>1. (h.misused \/ ~(objects \subseteq h.live)) = h.misused
      BY <1>1
    <2>2. QED
      BY <1>1, <2>1 DEF Use, Heap
  <1>3. Release(h, objects) = [live |-> h.live \ objects, made |-> h.made, misused |-> h.misused]
    BY <1>2 DEF Release, Heap
  <1>4. QED
    BY <1>2, <1>3 DEF Sound

\* One who recovers again frees what is not live.
LEMMA FreedAgain ==
    ASSUME NEW h, Sound(h), NEW objects, caller = "recoverLatency"
    PROVE  /\ Sound(Release(h, objects))
           /\ Release(h, objects).live = h.live \ objects
           /\ Release(h, objects).made = h.made
  <1>1. PICK misused \in BOOLEAN : misused = Use(h, objects).misused
    BY DEF Use, Heap, Sound
  <1>2. Release(h, objects) = [live |-> h.live \ objects, made |-> h.made, misused |-> misused]
    BY <1>1 DEF Release, Heap
  <1>3. QED
    BY <1>2 DEF Sound

\* And one kind after another.
LEMMA LiveBoth ==
    ASSUME NEW h, Sound(h), NEW s, NEW t, s \cup t \subseteq h.live, s \cap t = {}
    PROVE  /\ Sound(Release(Release(h, s), t))
           /\ Release(Release(h, s), t).live = h.live \ (s \cup t)
           /\ Release(Release(h, s), t).made = h.made
  <1>1. /\ Sound(Release(h, s)) /\ Release(h, s).live = h.live \ s
        /\ Release(h, s).made = h.made
    BY Live
  <1>2. t \subseteq Release(h, s).live
    BY <1>1
  <1>3. /\ Sound(Release(Release(h, s), t)) /\ Release(Release(h, s), t).live = (h.live \ s) \ t
        /\ Release(Release(h, s), t).made = h.made
    BY <1>1, <1>2, Live
  <1>4. QED
    BY <1>3

-----------------------------------------------------------------------------
(* Who holds what *)

Holder == [ctx : SUBSET Object, polysA : SUBSET Object]
Device == [a : {"zeros", "database"}, room : Nat, outCols : Nat]
Server == [made : BOOLEAN, ctx : SUBSET Object, gpu : SUBSET Object, device : Device]
Secret == [dummy : BOOLEAN, key : SUBSET Object]

HeldBy(c) == c.ctx \cup c.polysA
ServerObjects == server.ctx \cup server.gpu
Keys == UNION {secrets[i].key : i \in DOMAIN secrets}

Numbered(objects, kind) == \A o \in objects : o.kind = kind /\ o.number <= heap.made

Settings ==
    /\ hasGpu \in BOOLEAN /\ mode \in {"None", "Hybrid"} /\ compressHint \in BOOLEAN
    /\ compressHint => mode = "None"

Memory ==
    /\ Sound(heap)
    /\ server \in Server
    /\ Numbered(server.ctx, "serverCtx") /\ Numbered(server.gpu, "gpu")
    /\ client \in Holder /\ Numbered(client.ctx, "ctx") /\ Numbered(client.polysA, "a")
    /\ searcher \in Holder /\ Numbered(searcher.ctx, "ctx") /\ Numbered(searcher.polysA, "a")

\* A dummy has no key, and only the hybrid mode has any.
Secrets ==
    /\ secrets \in Seq(Secret) /\ queries = Len(secrets)
    /\ Numbered(Keys, "key")
    /\ \A i \in DOMAIN secrets : secrets[i].dummy \/ mode = "None" => secrets[i].key = {}

Answers ==
    /\ answer.of \in Nat /\ answer.count = IF hasGpu THEN Less(answer.of, 1) ELSE answer.of
    /\ answer.within \in BOOLEAN /\ answer.served \in BOOLEAN
    /\ (answer.within /\ answer.served) \/ (hasGpu /\ caller \in SetsNoBatch)

\* The client of a search is there during the search, and no other's.
Searching ==
    /\ searcher # NoClient => plan # <<>> /\ Head(plan).op = "capacity"
    /\ HeldBy(searcher) \subseteq heap.live
    /\ HeldBy(searcher) \cap HeldBy(client) = {}

\* What may be left when all callers are through.
Permitted(o) ==
    \/ o.kind \in {"initKey", "spareCtx"}
    \/ o.kind = "key" /\ (hasGpu \/ caller \in DropsSecrets)
    \/ o.kind \in {"serverCtx", "gpu"} /\ caller = "service"

\* A server's device has the database, and the room a caller counts on, which
\* is not known during a search.
Equipped(s) ==
    s.server =>
        /\ hasGpu <=> server.gpu # {}
        /\ hasGpu => server.device.a = "database" /\ server.device.outCols = server.device.room
        /\ hasGpu /\ searcher = NoClient => s.room <= server.device.room

HeldIsLive(s) ==
    /\ s.server => ServerObjects \subseteq heap.live
    /\ s.client => HeldBy(client) \subseteq heap.live
    /\ s.keys => Keys \subseteq heap.live

\* Someone has what is live, but what may be left.
LiveIsHeld(s) ==
    \A o \in heap.live :
        \/ Permitted(o)
        \/ s.server /\ o \in ServerObjects
        \/ s.client /\ o \in HeldBy(client)
        \/ s.keys /\ o \in Keys
        \/ o \in HeldBy(searcher)

AskedAs(s) == queries = s.asked /\ (s.answered /\ searcher = NoClient => answer.of = queries)

Sees(s) == s \in Views /\ Equipped(s) /\ HeldIsLive(s) /\ LiveIsHeld(s) /\ AskedAs(s)

\* What holds between the calls of a caller that has s ...
Holds(s) == Settings /\ compressHint = (caller = "service") /\ Memory /\ Secrets /\ Answers /\ Searching /\ Sees(s)

\* ... which leads its calls to the end.
OnTheWay ==
    /\ plan \in Seq(Calls)
    /\ \E s, w \in Views : Holds(s) /\ Leads(Env, s, plan, w) /\ Through(Env, w)

IInv == SearchInv /\ OnTheWay

-----------------------------------------------------------------------------
(* What an action leaves as it was *)

\* Objects keep their kinds and numbers, whatever is made.
LEMMA MemoryAfter ==
    ASSUME Memory, Sound(heap'), heap.made <= heap'.made, caller' = caller,
           server' \in Server, client' \in Holder, searcher' \in Holder,
           \A o \in server'.ctx : o \in server.ctx \/ (o.kind = "serverCtx" /\ o.number <= heap'.made),
           \A o \in server'.gpu : o \in server.gpu \/ (o.kind = "gpu" /\ o.number <= heap'.made),
           \A o \in client'.ctx : o \in client.ctx \/ (o.kind = "ctx" /\ o.number <= heap'.made),
           \A o \in client'.polysA : o \in client.polysA \/ (o.kind = "a" /\ o.number <= heap'.made),
           \A o \in searcher'.ctx : o \in searcher.ctx \/ (o.kind = "ctx" /\ o.number <= heap'.made),
           \A o \in searcher'.polysA : o \in searcher.polysA \/ (o.kind = "a" /\ o.number <= heap'.made)
    PROVE  Memory'
  <1>1. heap.made \in Nat /\ heap'.made \in Nat
    BY DEF Memory, Sound
  <1>2. ASSUME NEW o \in Object, o.number <= heap.made PROVE o.number <= heap'.made
    <2>1. o.number \in Nat
      BY DEF Object
    <2>2. QED
      BY <1>1, <1>2, <2>1
  <1>3. /\ server.ctx \subseteq Object /\ server.gpu \subseteq Object
        /\ client.ctx \subseteq Object /\ client.polysA \subseteq Object
        /\ searcher.ctx \subseteq Object /\ searcher.polysA \subseteq Object
    BY DEF Memory, Server, Holder
  <1>4. Numbered(server.ctx, "serverCtx")' /\ Numbered(server.gpu, "gpu")'
    BY <1>2, <1>3 DEF Memory, Numbered
  <1>5. Numbered(client.ctx, "ctx")' /\ Numbered(client.polysA, "a")'
    BY <1>2, <1>3 DEF Memory, Numbered
  <1>6. Numbered(searcher.ctx, "ctx")' /\ Numbered(searcher.polysA, "a")'
    BY <1>2, <1>3 DEF Memory, Numbered
  <1>7. Sound(heap)'
    BY DEF Sound
  <1>8. QED
    BY <1>4, <1>5, <1>6, <1>7 DEF Memory

LEMMA SameHeap ==
    ASSUME Memory, heap' = heap
    PROVE  Sound(heap') /\ heap.made <= heap'.made
  <1>1. Sound(heap)
    BY DEF Memory
  <1>2. heap.made \in Nat
    BY <1>1 DEF Sound
  <1>3. QED
    BY <1>1, <1>2

\* Secrets and answers stay those of the same queries.
LEMMA SecretsKept ==
    ASSUME Memory, Secrets, Sound(heap'), heap.made <= heap'.made, UNCHANGED <<secrets, queries, mode>>
    PROVE  Secrets' /\ Keys' = Keys
  <1>1. Keys' = Keys
    BY DEF Keys
  <1>2. Keys \subseteq Object
    <2> SUFFICES ASSUME NEW i \in DOMAIN secrets PROVE secrets[i].key \subseteq Object
      BY DEF Keys
    <2>1. secrets[i] \in Secret
      BY DEF Secrets
    <2>2. QED
      BY <2>1 DEF Secret
  <1>3. heap.made \in Nat /\ heap'.made \in Nat /\ \A o \in Object : o.number \in Nat
    BY DEF Memory, Sound, Object
  <1>4. Numbered(Keys, "key")'
    BY <1>1, <1>2, <1>3 DEF Secrets, Numbered
  <1>5. QED
    BY <1>1, <1>4 DEF Secrets

LEMMA AnswersKept == ASSUME Answers, UNCHANGED <<answer, hasGpu, caller>> PROVE Answers'
  BY DEF Answers

\* Holders of different kinds share no objects.
LEMMA HeldApart ==
    ASSUME Memory, Secrets
    PROVE  /\ server.ctx \cap server.gpu = {} /\ client.ctx \cap client.polysA = {}
           /\ searcher.ctx \cap searcher.polysA = {}
           /\ ServerObjects \cap HeldBy(client) = {} /\ ServerObjects \cap HeldBy(searcher) = {}
           /\ ServerObjects \cap Keys = {}
           /\ Keys \cap HeldBy(client) = {} /\ Keys \cap HeldBy(searcher) = {}
           /\ \A o \in ServerObjects : o.kind \in {"serverCtx", "gpu"}
           /\ \A o \in Keys : o.kind = "key"
  <1>1. /\ \A o \in server.ctx : o.kind = "serverCtx"
        /\ \A o \in server.gpu : o.kind = "gpu"
        /\ \A o \in client.ctx : o.kind = "ctx"
        /\ \A o \in client.polysA : o.kind = "a"
        /\ \A o \in searcher.ctx : o.kind = "ctx"
        /\ \A o \in searcher.polysA : o.kind = "a"
        /\ \A o \in Keys : o.kind = "key"
    BY DEF Memory, Secrets, Numbered
  <1>2. QED
    BY <1>1 DEF ServerObjects, HeldBy

\* Nobody searches between calls.
LEMMA NobodySearches ==
    ASSUME searcher = NoClient, UNCHANGED searcher
    PROVE  /\ HeldBy(searcher) = {} /\ HeldBy(searcher)' = {} /\ Searching'
           /\ searcher \in Holder /\ searcher' \in Holder
  <1>1. HeldBy(searcher) = {} /\ HeldBy(searcher)' = {}
    BY DEF HeldBy, NoClient
  <1>2. Searching'
    BY <1>1 DEF Searching, NoClient
  <1>3. searcher \in Holder
    BY DEF Holder, NoClient
  <1>4. QED
    BY <1>1, <1>2, <1>3

\* A batch set changes the room of the device only.
LEMMA BatchedServer ==
    ASSUME server \in Server, hasGpu \in BOOLEAN, hasGpu <=> server.gpu # {}, NEW n \in Nat
    PROVE  /\ Batched(n) \in Server /\ Batched(n).ctx = server.ctx /\ Batched(n).gpu = server.gpu
           /\ hasGpu => /\ Batched(n).device.a = server.device.a
                        /\ Batched(n).device.room = n /\ Batched(n).device.outCols = n
  <1>1. server = [made |-> server.made, ctx |-> server.ctx, gpu |-> server.gpu, device |-> server.device]
    BY DEF Server
  <1>2. SetBatchOf(server.device, n) \in Device
    BY DEF Server, Device, SetBatchOf
  <1>3. CASE server.gpu = {}
    BY <1>3 DEF Batched
  <1>4. CASE server.gpu # {}
    <2>1. Batched(n) = [made |-> server.made, ctx |-> server.ctx, gpu |-> server.gpu,
                        device |-> SetBatchOf(server.device, n)]
      BY <1>1, <1>4 DEF Batched
    <2>2. QED
      BY <1>2, <2>1 DEF Server, SetBatchOf
  <1>5. QED
    BY <1>3, <1>4

-----------------------------------------------------------------------------
(* One call after the other *)

LEMMA MakeServerHolds ==
    ASSUME NEW s, Holds(s), NEW u \in Views, NEW call, call.op = "makeServer",
           Pass(Env, s, call, u), searcher = NoClient, MakeServer, UNCHANGED callers
    PROVE  Holds(u)'
  <1> USE DEF Holds
  <1>1. /\ s.server => caller = "service"
        /\ u = Has(TRUE, s.client, s.keys, s.answered, 1, s.asked)
    BY DEF Pass, Env
  <1>2. /\ u.server = TRUE /\ u.client = s.client /\ u.keys = s.keys
        /\ u.answered = s.answered /\ u.room = 1 /\ u.asked = s.asked
    BY <1>1 DEF Has
  <1> DEFINE ctx == Objects("serverCtx", heap, 1)
             h1 == New(heap, ctx)
             gpu == IF hasGpu THEN Objects("gpu", h1, 1) ELSE {}
             h2 == New(h1, gpu)
  <1>3. /\ Sound(h1) /\ h1.live = heap.live \cup ctx /\ h1.made = heap.made + 1
        /\ ctx \subseteq Object
        /\ \A o \in ctx : o.kind = "serverCtx" /\ o.number <= h1.made
    <2>1. Sound(heap) /\ "serverCtx" \in ObjectKinds /\ 1 \in Nat
      BY DEF Memory, ObjectKinds
    <2> HIDE DEF ctx
    <2>2. QED
      BY <2>1, Fresh DEF ctx
  <1>4. Use(h1, ctx) = h1
    <2> HIDE DEF h1, ctx
    <2>1. QED
      BY <1>3, Live
  <1>5. PICK k \in Nat : gpu = Objects("gpu", h1, k) /\ (k = 0 \/ k = 1)
    <2>1. CASE hasGpu
      BY <2>1
    <2>2. CASE ~hasGpu
      <3>1. Objects("gpu", h1, 0) = {}
        BY DEF Objects
      <3>2. QED
        BY <2>2, <3>1
    <2>3. QED
      BY <2>1, <2>2
  <1>6. /\ Sound(h2) /\ h2.live = h1.live \cup gpu /\ h2.made = h1.made + k
        /\ gpu \subseteq Object
        /\ \A o \in gpu : o.kind = "gpu" /\ o.number <= h2.made
        /\ hasGpu <=> gpu # {}
    <2>1. "gpu" \in ObjectKinds
      BY DEF ObjectKinds
    <2>2. hasGpu <=> gpu # {}
      <3>1. Objects("gpu", h1, 1) # {}
        <4>1. 1 \in 1..1
          OBVIOUS
        <4>2. QED
          BY <4>1 DEF Objects
      <3>2. QED
        BY <3>1 DEF Settings
    <2> HIDE DEF h1, gpu
    <2>3. QED
      BY <1>3, <1>5, <2>1, <2>2, Fresh
  <1>7. /\ heap' = h2
        /\ server' = [made |-> TRUE, ctx |-> ctx, gpu |-> gpu,
                      device |-> IF hasGpu THEN ForQueries(SetA(Allocated(N))) ELSE Allocated(0)]
        /\ UNCHANGED <<setting, client, secrets, queries, answer>>
    BY <1>4 DEF MakeServer
  <1> HIDE DEF ctx, gpu, h1, h2
  <1>8. /\ heap'.live = heap.live \cup ctx \cup gpu /\ heap.made <= heap'.made
        /\ \A o \in ctx : o.number <= heap'.made
        /\ \A o \in gpu : o.number <= heap'.made
    <2>1. heap.made \in Nat /\ \A o \in ctx : o.number \in Nat
      BY <1>3 DEF Memory, Sound, Object
    <2>2. QED
      BY <1>3, <1>6, <1>7, <2>1
  <1>9. /\ server'.device \in Device
        /\ hasGpu => server'.device = [a |-> "database", room |-> 1, outCols |-> 1]
    BY <1>7, MemoryAssumption DEF ForQueries, SetA, Allocated, Device
  <1>10. server' \in Server /\ server'.ctx = ctx /\ server'.gpu = gpu
    BY <1>3, <1>6, <1>7, <1>9 DEF Server
  <1>11. Memory'
    BY <1>3, <1>6, <1>7, <1>8, <1>10, MemoryAfter, NobodySearches DEF Memory, callers
  <1>12. Secrets' /\ Keys' = Keys
    BY <1>6, <1>7, <1>8, SecretsKept DEF setting
  <1>13. Answers' /\ Settings' /\ (compressHint = (caller = "service"))'
    BY <1>7, AnswersKept DEF setting, callers, Settings
  <1>14. Searching' /\ HeldBy(searcher) = {}
    BY NobodySearches DEF callers
  <1>15. Equipped(u)'
    BY <1>2, <1>6, <1>7, <1>9, <1>10 DEF Equipped, setting, Settings
  <1>16. HeldIsLive(u)'
    BY <1>2, <1>7, <1>8, <1>10, <1>12 DEF HeldIsLive, ServerObjects, HeldBy, Sees
  <1>17. LiveIsHeld(u)'
    <2> SUFFICES ASSUME NEW o \in heap'.live
                 PROVE  \/ Permitted(o)'
                        \/ o \in ServerObjects'
                        \/ s.client /\ o \in HeldBy(client)'
                        \/ s.keys /\ o \in Keys'
      BY <1>2 DEF LiveIsHeld
    <2>1. CASE o \in ctx \cup gpu
      BY <1>10, <2>1 DEF ServerObjects
    <2>2. CASE o \in heap.live
      <3>1. \/ Permitted(o)
            \/ s.server /\ o \in ServerObjects
            \/ s.client /\ o \in HeldBy(client)
            \/ s.keys /\ o \in Keys
        BY <1>14, <2>2 DEF Sees, LiveIsHeld
      <3>2. s.server /\ o \in ServerObjects => Permitted(o)
        BY <1>1, HeldApart DEF Permitted
      <3>3. Permitted(o) => Permitted(o)'
        BY <1>7 DEF Permitted, setting, callers
      <3>4. QED
        BY <1>7, <1>12, <3>1, <3>2, <3>3 DEF HeldBy
    <2>3. QED
      BY <1>8, <2>1, <2>2
  <1>18. AskedAs(u)'
    BY <1>2, <1>7 DEF AskedAs, callers, Sees
  <1>19. QED
    BY <1>11, <1>12, <1>13, <1>14, <1>15, <1>16, <1>17, <1>18 DEF Sees

LEMMA SetBatchHolds ==
    ASSUME NEW s, Holds(s), NEW u \in Views, NEW call \in Calls, call.op = "setBatch",
           Pass(Env, s, call, u), searcher = NoClient, SetBatch(call.n), UNCHANGED callers
    PROVE  Holds(u)'
  <1> USE DEF Holds
  <1>1. s.server /\ u = Has(s.server, s.client, s.keys, s.answered, call.n, s.asked)
    BY DEF Pass
  <1>2. /\ u.server = s.server /\ u.client = s.client /\ u.keys = s.keys
        /\ u.answered = s.answered /\ u.room = call.n /\ u.asked = s.asked
    BY <1>1 DEF Has
  <1>3. heap' = heap
    <2>1. server.gpu \subseteq heap.live /\ Sound(heap)
      BY <1>1 DEF Sees, HeldIsLive, ServerObjects, Memory
    <2>2. QED
      BY <2>1, Live DEF SetBatch
  <1>4. /\ server' \in Server /\ server'.ctx = server.ctx /\ server'.gpu = server.gpu
        /\ hasGpu => /\ server'.device.a = server.device.a
                     /\ server'.device.room = call.n /\ server'.device.outCols = call.n
    <2>1. server \in Server /\ hasGpu \in BOOLEAN /\ (hasGpu <=> server.gpu # {}) /\ call.n \in Nat
      BY <1>1 DEF Sees, Equipped, Calls, Memory, Settings
    <2>2. server' = Batched(call.n)
      BY DEF SetBatch
    <2> HIDE DEF Holds
    <2>3. QED
      BY <2>1, <2>2, BatchedServer
  <1> HIDE DEF Holds
  <1>5. /\ hasGpu' = hasGpu /\ mode' = mode /\ compressHint' = compressHint
        /\ client' = client /\ secrets' = secrets /\ queries' = queries /\ answer' = answer
        /\ caller' = caller /\ searcher' = searcher
    BY DEF SetBatch, setting, callers
  <1>6. Memory'
    <2>1. Memory /\ searcher' \in Holder /\ client \in Holder
      BY <1>5, NobodySearches DEF Holds, Memory
    <2>2. Sound(heap') /\ heap.made <= heap'.made
      BY <1>3, <2>1, SameHeap
    <2>3. QED
      BY <1>4, <1>5, <2>1, <2>2, MemoryAfter
  <1> USE DEF Holds
  <1>7. Secrets' /\ Keys' = Keys
    BY <1>3, <1>5, SameHeap, SecretsKept
  <1>8. Answers' /\ Settings' /\ (compressHint = (caller = "service"))'
    BY <1>5, AnswersKept DEF Settings
  <1>9. Searching'
    BY <1>5, NobodySearches
  <1>10. Equipped(u)'
    <2>1. call.n \in Nat
      BY DEF Calls
    <2>2. (hasGpu <=> server.gpu # {}) /\ (hasGpu => server.device.a = "database")
      BY <1>1 DEF Equipped, Sees
    <2> HIDE DEF Holds
    <2>3. hasGpu' <=> server'.gpu # {}
      BY <1>4, <1>5, <2>2
    <2>4. hasGpu' => /\ server'.device.a = "database" /\ server'.device.outCols = server'.device.room
                     /\ u.room <= server'.device.room
      BY <1>2, <1>4, <1>5, <2>1, <2>2
    <2>5. QED
      BY <2>3, <2>4 DEF Equipped
  <1>11. HeldIsLive(u)'
    BY <1>2, <1>3, <1>4, <1>5, <1>7 DEF HeldIsLive, ServerObjects, HeldBy, Sees
  <1>12. LiveIsHeld(u)'
    BY <1>2, <1>3, <1>4, <1>5, <1>7 DEF LiveIsHeld, ServerObjects, HeldBy, Sees, Permitted
  <1>13. AskedAs(u)'
    BY <1>2, <1>5 DEF AskedAs, Sees
  <1>14. QED
    BY <1>6, <1>7, <1>8, <1>9, <1>10, <1>11, <1>12, <1>13 DEF Sees

\* What a client is made of is new, but for the key that nobody frees.
LEMMA ClientMade ==
    ASSUME NEW h, Sound(h), mode \in {"None", "Hybrid"}, NEW made, made = ClientObjects(h)
    PROVE  /\ Sound(made.heap) /\ h.made <= made.heap.made
           /\ made.client \in Holder /\ made.client # NoClient
           /\ h.live \subseteq made.heap.live /\ HeldBy(made.client) \subseteq made.heap.live
           /\ \A o \in made.heap.live : o \in h.live \/ o \in HeldBy(made.client) \/ o.kind = "initKey"
           /\ \A o \in made.client.ctx :
                o.kind = "ctx" /\ h.made < o.number /\ o.number <= made.heap.made
           /\ \A o \in made.client.polysA :
                o.kind = "a" /\ h.made < o.number /\ o.number <= made.heap.made
  <1> DEFINE ctx == Objects("ctx", h, 1)
             h1 == New(h, ctx)
             key == IF mode = "Hybrid" THEN Objects("initKey", h1, 1) ELSE {}
             h2 == New(h1, key)
             polysA == IF mode = "Hybrid" THEN Objects("a", h2, NumA) ELSE {}
             h3 == New(h2, polysA)
  <1>1. NumA \in Nat
    BY MemoryAssumption DEF NumA
  <1>2. "ctx" \in ObjectKinds /\ "initKey" \in ObjectKinds /\ "a" \in ObjectKinds
    BY DEF ObjectKinds
  <1>3. /\ Sound(h1) /\ h1.live = h.live \cup ctx /\ h1.made = h.made + 1 /\ ctx \subseteq Object
        /\ \A o \in ctx : o.kind = "ctx" /\ h.made < o.number /\ o.number <= h.made + 1
    <2> HIDE DEF ctx
    <2>1. QED
      BY <1>2, Fresh DEF ctx
  <1>4. ctx # {}
    <2>1. 1 \in 1..1
      OBVIOUS
    <2>2. QED
      BY <2>1 DEF Objects
  <1>5. PICK k \in Nat : key = Objects("initKey", h1, k)
    <2>1. Objects("initKey", h1, 0) = {}
      BY DEF Objects
    <2>2. QED
      BY <2>1
  <1>6. /\ Sound(h2) /\ h2.live = h1.live \cup key /\ h2.made = h1.made + k /\ key \subseteq Object
        /\ \A o \in key : o.kind = "initKey"
    <2>1. "initKey" \in ObjectKinds /\ Sound(h1)
      BY <1>2, <1>3
    <2> HIDE DEF h1, key
    <2>2. QED
      BY <1>5, <2>1, Fresh
  <1>7. PICK n \in Nat : polysA = Objects("a", h2, n)
    <2>1. Objects("a", h2, 0) = {}
      BY DEF Objects
    <2>2. QED
      BY <1>1, <2>1
  <1>8. /\ Sound(h3) /\ h3.live = h2.live \cup polysA /\ h3.made = h2.made + n /\ polysA \subseteq Object
        /\ \A o \in polysA : o.kind = "a" /\ h2.made < o.number /\ o.number <= h2.made + n
    <2>1. "a" \in ObjectKinds /\ Sound(h2)
      BY <1>2, <1>6
    <2> HIDE DEF h2, polysA
    <2>2. QED
      BY <1>7, <2>1, Fresh
  <1>9. Use(h3, ctx \cup key) = h3
    <2> HIDE DEF ctx, h1, key, h2, polysA, h3
    <2>1. QED
      BY <1>3, <1>6, <1>8, Live
  <1>10. made = [heap |-> h3, client |-> [ctx |-> ctx, polysA |-> polysA]]
    BY <1>9 DEF ClientObjects
  <1> HIDE DEF ctx, h1, key, h2, polysA, h3
  <1>11. /\ made.heap = h3 /\ made.client = [ctx |-> ctx, polysA |-> polysA]
         /\ made.client.ctx = ctx /\ made.client.polysA = polysA
    BY <1>10
  <1>12. h.made \in Nat /\ \A o \in Object : o.number \in Nat
    BY DEF Sound, Object
  <1>13. /\ \A o \in ctx : h.made < o.number /\ o.number <= h3.made
         /\ \A o \in polysA : h.made < o.number /\ o.number <= h3.made
         /\ h.made <= h3.made
    BY <1>3, <1>6, <1>8, <1>12
  <1>14. made.client \in Holder /\ made.client # NoClient
    BY <1>3, <1>4, <1>8, <1>11 DEF Holder, NoClient
  <1>15. h3.live = h.live \cup ctx \cup key \cup polysA
    BY <1>3, <1>6, <1>8
  <1>16. QED
    BY <1>3, <1>6, <1>8, <1>11, <1>13, <1>14, <1>15 DEF HeldBy

\* A server keeps its room.
LEMMA StillEquipped ==
    ASSUME NEW s, NEW u, Equipped(s), u.server => s.server, u.room = s.room,
           UNCHANGED <<server, hasGpu>>, searcher = NoClient
    PROVE  Equipped(u)'
  <1>1. s.server => /\ hasGpu <=> server.gpu # {}
                    /\ hasGpu => server.device.a = "database" /\ server.device.outCols = server.device.room
                    /\ hasGpu => s.room <= server.device.room
    BY DEF Equipped
  <1>2. QED
    BY <1>1 DEF Equipped

LEMMA SpareContextHolds ==
    ASSUME NEW s, Holds(s), NEW u \in Views, NEW call, call.op = "spareContext",
           Pass(Env, s, call, u), searcher = NoClient, SpareContext, UNCHANGED callers
    PROVE  Holds(u)'
  <1> DEFINE ctx == Objects("spareCtx", heap, 1)
             h1 == New(heap, ctx)
  <1>1. /\ u.server = s.server /\ u.client = s.client /\ u.keys = s.keys
        /\ u.answered = s.answered /\ u.room = s.room /\ u.asked = s.asked
    BY DEF Pass, Has
  <1>2. /\ hasGpu' = hasGpu /\ mode' = mode /\ compressHint' = compressHint
        /\ server' = server /\ client' = client /\ secrets' = secrets /\ queries' = queries
        /\ answer' = answer /\ caller' = caller /\ searcher' = searcher
    BY DEF SpareContext, setting, callers
  <1>3. /\ Settings /\ compressHint = (caller = "service") /\ Memory /\ Secrets /\ Answers
        /\ Equipped(s) /\ HeldIsLive(s) /\ LiveIsHeld(s) /\ AskedAs(s)
    BY DEF Holds, Sees
  <1>4. /\ Sound(h1) /\ h1.live = heap.live \cup ctx /\ h1.made = heap.made + 1
        /\ \A o \in ctx : o.kind = "spareCtx"
    <2>1. Sound(heap) /\ "spareCtx" \in ObjectKinds /\ 1 \in Nat
      BY <1>3 DEF Memory, ObjectKinds
    <2> HIDE DEF ctx
    <2>2. QED
      BY <2>1, Fresh DEF ctx
  <1>5. heap' = h1
    <2>1. heap' = Use(h1, ctx)
      BY DEF SpareContext
    <2> HIDE DEF h1, ctx
    <2>2. QED
      BY <1>4, <2>1, Live
  <1> HIDE DEF h1, ctx
  <1>6. /\ Sound(heap') /\ heap.made <= heap'.made /\ heap.live \subseteq heap'.live
        /\ \A o \in heap'.live : o \in heap.live \/ o.kind = "spareCtx"
        /\ server \in Server /\ client \in Holder
    BY <1>3, <1>4, <1>5 DEF Memory, Sound
  <1>7. Memory'
    BY <1>2, <1>3, <1>6, MemoryAfter, NobodySearches
  <1>8. Secrets' /\ Keys' = Keys
    BY <1>2, <1>3, <1>6, SecretsKept
  <1>9. Answers' /\ Settings' /\ (compressHint = (caller = "service"))'
    BY <1>2, <1>3, AnswersKept DEF Settings
  <1>10. Searching'
    BY <1>2, NobodySearches
  <1>11. Equipped(u)'
    BY <1>1, <1>2, <1>3, StillEquipped
  <1>12. ServerObjects' = ServerObjects /\ HeldBy(client)' = HeldBy(client) /\ HeldBy(searcher)' = HeldBy(searcher)
    BY <1>2 DEF ServerObjects, HeldBy
  <1>13. HeldIsLive(u)'
    BY <1>1, <1>3, <1>6, <1>8, <1>12 DEF HeldIsLive
  <1>14. LiveIsHeld(u)'
    <2> SUFFICES ASSUME NEW o \in heap'.live
                 PROVE  \/ Permitted(o)'
                        \/ s.server /\ o \in ServerObjects'
                        \/ s.client /\ o \in HeldBy(client)'
                        \/ s.keys /\ o \in Keys'
                        \/ o \in HeldBy(searcher)'
      BY <1>1 DEF LiveIsHeld
    <2>1. CASE o.kind = "spareCtx"
      BY <2>1 DEF Permitted
    <2>2. CASE o \in heap.live
      <3>1. \/ Permitted(o)
            \/ s.server /\ o \in ServerObjects
            \/ s.client /\ o \in HeldBy(client)
            \/ s.keys /\ o \in Keys
            \/ o \in HeldBy(searcher)
        BY <1>3, <2>2 DEF LiveIsHeld
      <3>2. Permitted(o) => Permitted(o)'
        BY <1>2 DEF Permitted
      <3>3. QED
        BY <1>8, <1>12, <3>1, <3>2
    <2>3. QED
      BY <1>6, <2>1, <2>2
  <1>15. AskedAs(u)'
    BY <1>1, <1>2, <1>3 DEF AskedAs
  <1>16. QED
    BY <1>7, <1>8, <1>9, <1>10, <1>11, <1>13, <1>14, <1>15 DEF Holds, Sees

LEMMA InitClientHolds ==
    ASSUME NEW s, Holds(s), NEW u \in Views, NEW call, call.op = "initClient",
           Pass(Env, s, call, u), searcher = NoClient, InitClient, UNCHANGED callers
    PROVE  Holds(u)'
  <1>1. ~s.client /\ u = Has(s.server, TRUE, s.keys, s.answered, s.room, s.asked)
    BY DEF Pass
  <1>2. /\ u.server = s.server /\ u.client = TRUE /\ u.keys = s.keys
        /\ u.answered = s.answered /\ u.room = s.room /\ u.asked = s.asked
    BY <1>1 DEF Has
  <1>3. /\ hasGpu' = hasGpu /\ mode' = mode /\ compressHint' = compressHint
        /\ server' = server /\ secrets' = secrets /\ queries' = queries /\ answer' = answer
        /\ caller' = caller /\ searcher' = searcher
    BY DEF InitClient, setting, callers
  <1>4. /\ Settings /\ compressHint = (caller = "service") /\ Memory /\ Secrets /\ Answers
        /\ Equipped(s) /\ HeldIsLive(s) /\ LiveIsHeld(s) /\ AskedAs(s)
    BY DEF Holds, Sees
  <1>5. Sound(heap) /\ server \in Server /\ mode \in {"None", "Hybrid"}
    BY <1>4 DEF Memory, Settings
  <1>6. /\ Sound(heap') /\ heap.made <= heap'.made /\ client' \in Holder
        /\ heap.live \subseteq heap'.live /\ HeldBy(client') \subseteq heap'.live
        /\ \A o \in heap'.live : o \in heap.live \/ o \in HeldBy(client') \/ o.kind = "initKey"
        /\ \A o \in client'.ctx : o.kind = "ctx" /\ o.number <= heap'.made
        /\ \A o \in client'.polysA : o.kind = "a" /\ o.number <= heap'.made
    <2> DEFINE made == ClientObjects(heap)
    <2>1. heap' = made.heap /\ client' = made.client
      BY DEF InitClient
    <2> HIDE DEF made
    <2>2. QED
      BY <1>5, <2>1, ClientMade DEF made
  <1>7. Memory'
    BY <1>3, <1>4, <1>5, <1>6, MemoryAfter, NobodySearches
  <1>8. Secrets' /\ Keys' = Keys
    BY <1>3, <1>4, <1>6, SecretsKept
  <1>9. Answers' /\ Settings' /\ (compressHint = (caller = "service"))'
    BY <1>3, <1>4, AnswersKept DEF Settings
  <1>10. Searching' /\ HeldBy(searcher) = {}
    BY <1>3, NobodySearches
  <1>11. Equipped(u)'
    BY <1>2, <1>3, <1>4, StillEquipped
  <1>12. HeldIsLive(u)'
    BY <1>2, <1>3, <1>4, <1>6, <1>8 DEF HeldIsLive, ServerObjects, HeldBy
  <1>13. LiveIsHeld(u)'
    <2> SUFFICES ASSUME NEW o \in heap'.live
                 PROVE  \/ Permitted(o)'
                        \/ s.server /\ o \in ServerObjects'
                        \/ o \in HeldBy(client)'
                        \/ s.keys /\ o \in Keys'
      BY <1>2 DEF LiveIsHeld
    <2>1. CASE o \in HeldBy(client')
      BY <2>1 DEF HeldBy
    <2>2. CASE o.kind = "initKey"
      BY <2>2 DEF Permitted
    <2>3. CASE o \in heap.live
      <3>1. Permitted(o) \/ (s.server /\ o \in ServerObjects) \/ (s.keys /\ o \in Keys)
        BY <1>1, <1>4, <1>10, <2>3 DEF LiveIsHeld
      <3>2. Permitted(o) => Permitted(o)'
        BY <1>3 DEF Permitted
      <3>3. ServerObjects' = ServerObjects
        BY <1>3 DEF ServerObjects
      <3>4. QED
        BY <1>8, <3>1, <3>2, <3>3
    <2>4. QED
      BY <1>6, <2>1, <2>2, <2>3
  <1>14. AskedAs(u)'
    BY <1>2, <1>3, <1>4 DEF AskedAs
  <1>15. QED
    BY <1>7, <1>8, <1>9, <1>10, <1>11, <1>12, <1>13, <1>14 DEF Holds, Sees

\* Only the hybrid mode has keys.
LEMMA NoKeys ==
    ASSUME Secrets, mode = "None"
    PROVE  Keys = {}
  <1>1. \A i \in DOMAIN secrets : secrets[i].key = {}
    BY DEF Secrets
  <1>2. QED
    BY <1>1 DEF Keys

LEMMA QueryNoneHolds ==
    ASSUME NEW s, Holds(s), NEW u \in Views, NEW call \in Calls, call.op = "query",
           Pass(Env, s, call, u), searcher = NoClient, mode = "None",
           QueryNone(call.n, call.dummies), UNCHANGED callers
    PROVE  Holds(u)'
  <1>1. PICK keys \in BOOLEAN :
            s.client /\ u = Has(s.server, s.client, keys, FALSE, s.room, call.n + call.dummies)
    BY DEF Pass
  <1>2. /\ u.server = s.server /\ u.client = s.client
        /\ u.answered = FALSE /\ u.room = s.room /\ u.asked = call.n + call.dummies
    BY <1>1 DEF Has
  <1>3. /\ hasGpu' = hasGpu /\ mode' = mode /\ compressHint' = compressHint
        /\ heap' = heap /\ server' = server /\ client' = client /\ answer' = answer
        /\ caller' = caller /\ searcher' = searcher
    BY DEF QueryNone, setting, callers
  <1>4. /\ Settings /\ compressHint = (caller = "service") /\ Memory /\ Secrets /\ Answers
        /\ Equipped(s) /\ HeldIsLive(s) /\ LiveIsHeld(s) /\ AskedAs(s)
    BY DEF Holds, Sees
  <1>5. PICK n \in Nat : n = call.n + call.dummies
    BY DEF Calls
  <1>6. /\ secrets' \in Seq(Secret) /\ Len(secrets') = n
        /\ \A i \in DOMAIN secrets' : secrets'[i].key = {}
    <2> DEFINE new(i) == [dummy |-> i > call.n, key |-> {}]
    <2>1. secrets' = [i \in 1..n |-> new(i)]
      BY <1>5 DEF QueryNone
    <2>2. \A i \in 1..n : new(i) \in Secret /\ new(i).key = {}
      BY DEF Secret
    <2> HIDE DEF new
    <2>3. QED
      BY <2>1, <2>2
  <1>7. queries' = n
    BY <1>5 DEF QueryNone
  <1>8. Keys' = {}
    BY <1>6 DEF Keys
  <1>9. Secrets'
    BY <1>6, <1>7, <1>8 DEF Secrets, Numbered
  <1>10. Sound(heap') /\ heap.made <= heap'.made
    BY <1>3, <1>4, SameHeap
  <1>11. server \in Server /\ client \in Holder
    BY <1>4 DEF Memory
  <1>12. Memory'
    BY <1>3, <1>4, <1>10, <1>11, MemoryAfter, NobodySearches
  <1>13. Answers' /\ Settings' /\ (compressHint = (caller = "service"))'
    BY <1>3, <1>4, AnswersKept DEF Settings
  <1>14. Searching'
    BY <1>3, NobodySearches
  <1>15. Equipped(u)'
    BY <1>2, <1>3, <1>4, StillEquipped
  <1>16. ServerObjects' = ServerObjects /\ HeldBy(client)' = HeldBy(client) /\ HeldBy(searcher)' = HeldBy(searcher)
    BY <1>3 DEF ServerObjects, HeldBy
  <1>17. HeldIsLive(u)'
    BY <1>2, <1>3, <1>4, <1>8, <1>16 DEF HeldIsLive
  <1>18. LiveIsHeld(u)'
    <2> SUFFICES ASSUME NEW o \in heap'.live
                 PROVE  \/ Permitted(o)'
                        \/ s.server /\ o \in ServerObjects'
                        \/ s.client /\ o \in HeldBy(client)'
                        \/ o \in HeldBy(searcher)'
      BY <1>2 DEF LiveIsHeld
    <2>1. \/ Permitted(o)
          \/ s.server /\ o \in ServerObjects
          \/ s.client /\ o \in HeldBy(client)
          \/ o \in HeldBy(searcher)
      BY <1>3, <1>4, NoKeys DEF LiveIsHeld
    <2>2. Permitted(o) => Permitted(o)'
      BY <1>3 DEF Permitted
    <2>3. QED
      BY <1>16, <2>1, <2>2
  <1>19. AskedAs(u)'
    BY <1>2, <1>5, <1>7 DEF AskedAs
  <1>20. QED
    BY <1>9, <1>12, <1>13, <1>14, <1>15, <1>17, <1>18, <1>19 DEF Holds, Sees

\* Of a query in hybrid mode its keys are left.
LEMMA KeysMade ==
    ASSUME Sound(heap), NEW k \in Nat, NEW d \in Nat,
           client.ctx \cup client.polysA \subseteq heap.live, QueryHybrid(k, d)
    PROVE  /\ Sound(heap') /\ heap.made <= heap'.made
           /\ heap'.live = heap.live \cup Objects("key", heap, k)
           /\ Objects("key", heap, k) \subseteq Object
           /\ \A o \in Objects("key", heap, k) : o.kind = "key" /\ o.number <= heap'.made
  <1> DEFINE keys == Objects("key", heap, k)
             h1 == New(heap, keys)
             cts == Objects("ct", h1, k * NumA)
             h2 == New(h1, cts)
             pts == Objects("pt", h2, k * NumA)
             h3 == New(h2, pts)
  <1>1. PICK n \in Nat : n = k * NumA
    <2>1. NumA \in Nat
      BY MemoryAssumption DEF NumA
    <2>2. k * NumA \in Nat
      BY <2>1
    <2>3. QED
      BY <2>2
  <1>2. "key" \in ObjectKinds /\ "ct" \in ObjectKinds /\ "pt" \in ObjectKinds
    BY DEF ObjectKinds
  <1>3. /\ Sound(h1) /\ h1.live = heap.live \cup keys /\ h1.made = heap.made + k /\ keys \subseteq Object
        /\ \A o \in keys : o.kind = "key" /\ heap.made < o.number /\ o.number <= heap.made + k
    <2>1. "key" \in ObjectKinds /\ keys = Objects("key", heap, k)
      BY <1>2
    <2> HIDE DEF keys
    <2>2. QED
      BY <2>1, Fresh
  <1>4. /\ Sound(h2) /\ h2.live = h1.live \cup cts /\ h2.made = h1.made + n
        /\ \A o \in cts : h1.made < o.number /\ o.number <= h1.made + n
    <2>1. cts = Objects("ct", h1, n) /\ "ct" \in ObjectKinds /\ Sound(h1)
      BY <1>1, <1>2, <1>3
    <2> HIDE DEF h1, cts
    <2>2. QED
      BY <2>1, Fresh
  <1>5. /\ Sound(h3) /\ h3.live = h2.live \cup pts /\ h3.made = h2.made + n
        /\ \A o \in pts : h2.made < o.number /\ o.number <= h2.made + n
    <2>1. pts = Objects("pt", h2, n) /\ "pt" \in ObjectKinds /\ Sound(h2)
      BY <1>1, <1>2, <1>4
    <2> HIDE DEF h2, pts
    <2>2. QED
      BY <2>1, Fresh
  <1>6. heap' = Release(Release(Use(h3, keys \cup cts \cup pts), pts), cts)
    <2>1. Use(h1, client.ctx \cup client.polysA) = h1
      <3> HIDE DEF h1, keys
      <3>1. client.ctx \cup client.polysA \subseteq h1.live
        BY <1>3
      <3>2. QED
        BY <1>3, <3>1, Live
    <2>2. QED
      BY <2>1, Zenon DEF QueryHybrid
  <1> HIDE DEF keys, h1, cts, h2, pts, h3
  <1>7. Use(h3, keys \cup cts \cup pts) = h3
    BY <1>3, <1>4, <1>5, Live
  <1>8. heap.made \in Nat /\ \A o \in Object : o.number \in Nat
    BY DEF Sound, Object
  <1>9. /\ \A o \in h1.live : o \in Object /\ o.number <= h1.made
        /\ \A o \in h2.live : o \in Object /\ o.number <= h2.made
    BY <1>3, <1>4 DEF Sound
  <1>10. pts \cap cts = {} /\ pts \cap h1.live = {} /\ cts \cap h1.live = {}
    <2>1. pts \cap h2.live = {}
      <3> SUFFICES ASSUME NEW o \in pts, o \in h2.live PROVE FALSE
        OBVIOUS
      <3>1. o.number \in Nat /\ o.number <= h2.made /\ h2.made < o.number /\ h2.made \in Nat
        BY <1>1, <1>3, <1>4, <1>5, <1>8, <1>9
      <3>2. QED
        BY <3>1
    <2>2. cts \cap h1.live = {}
      <3> SUFFICES ASSUME NEW o \in cts, o \in h1.live PROVE FALSE
        OBVIOUS
      <3>1. o.number \in Nat /\ o.number <= h1.made /\ h1.made < o.number /\ h1.made \in Nat
        BY <1>1, <1>3, <1>4, <1>8, <1>9
      <3>2. QED
        BY <3>1
    <2>3. QED
      BY <1>4, <2>1, <2>2
  <1>11. /\ Sound(heap') /\ heap'.live = h3.live \ (pts \cup cts) /\ heap'.made = h3.made
    <2>1. pts \cup cts \subseteq h3.live
      BY <1>4, <1>5
    <2>2. heap' = Release(Release(h3, pts), cts)
      BY <1>6, <1>7
    <2>3. QED
      BY <1>5, <1>10, <2>1, <2>2, LiveBoth
  <1>12. heap'.live = heap.live \cup keys
    BY <1>3, <1>4, <1>5, <1>10, <1>11
  <1>13. heap.made <= heap'.made /\ \A o \in keys : o.number <= heap'.made
    BY <1>3, <1>4, <1>5, <1>8, <1>11
  <1>14. QED
    BY <1>3, <1>11, <1>12, <1>13 DEF keys

\* And its secrets have these keys.
LEMMA SecretsMade ==
    ASSUME NEW k \in Nat, NEW d \in Nat, QueryHybrid(k, d), Objects("key", heap, k) \subseteq Object
    PROVE  /\ secrets' \in Seq(Secret) /\ Len(secrets') = k + d /\ queries' = k + d
           /\ \A i \in DOMAIN secrets' : secrets'[i].dummy => secrets'[i].key = {}
           /\ Keys' = Objects("key", heap, k)
  <1> DEFINE key(i) == [kind |-> "key", number |-> heap.made + i]
             real(i) == [dummy |-> FALSE, key |-> {key(i)}]
             dummy == [dummy |-> TRUE, key |-> {}]
             first == [i \in 1..k |-> real(i)]
             second == [i \in 1..d |-> dummy]
  <1>1. secrets' = first \o second /\ queries' = k + d
    BY Zenon DEF QueryHybrid
  <1>2. Objects("key", heap, k) = {key(i) : i \in 1..k}
    BY DEF Objects
  <1>3. \A i \in 1..k : real(i) \in Secret /\ real(i).key = {key(i)} /\ real(i).dummy = FALSE
    <2> HIDE DEF key
    <2>1. QED
      BY <1>2 DEF Secret
  <1>4. dummy \in Secret /\ dummy.key = {}
    BY DEF Secret
  <1> HIDE DEF key, real, dummy
  <1>5. /\ first \in Seq(Secret) /\ Len(first) = k /\ \A i \in 1..k : first[i] = real(i)
        /\ second \in Seq(Secret) /\ Len(second) = d /\ \A i \in 1..d : second[i] = dummy
    BY <1>3, <1>4
  <1> HIDE DEF first, second
  <1>6. /\ secrets' \in Seq(Secret) /\ Len(secrets') = k + d
        /\ \A i \in 1..k + d : secrets'[i] = IF i <= k THEN real(i) ELSE dummy
    <2>1. /\ secrets' \in Seq(Secret) /\ Len(secrets') = k + d
          /\ \A i \in 1..k + d : secrets'[i] = IF i <= k THEN first[i] ELSE second[i - k]
      BY <1>1, <1>5, SMTT(60)
    <2>2. ASSUME NEW i \in 1..k + d, ~(i <= k) PROVE i - k \in 1..d
      BY <2>2
    <2>3. \A i \in 1..k + d : i <= k => i \in 1..k
      OBVIOUS
    <2>4. QED
      BY <1>5, <2>1, <2>2, <2>3, Zenon
  <1>7. DOMAIN secrets' = 1..k + d
    BY <1>6
  <1>8. \A i \in 1..k + d : secrets'[i].dummy => secrets'[i].key = {}
    <2> SUFFICES ASSUME NEW i \in 1..k + d, secrets'[i].dummy PROVE secrets'[i].key = {}
      OBVIOUS
    <2>1. CASE i <= k
      BY <1>3, <1>6, <2>1
    <2>2. CASE ~(i <= k)
      BY <1>4, <1>6, <2>2
    <2>3. QED
      BY <2>1, <2>2
  <1>9. Keys' = {key(i) : i \in 1..k}
    <2>1. ASSUME NEW x \in Keys' PROVE \E i \in 1..k : x = key(i)
      <3>1. PICK i \in 1..k + d : x \in secrets'[i].key
        BY <1>7, <2>1 DEF Keys
      <3>2. CASE i <= k
        <4>1. i \in 1..k
          BY <3>2
        <4>2. QED
          BY <1>3, <1>6, <3>1, <3>2, <4>1
      <3>3. CASE ~(i <= k)
        BY <1>4, <1>6, <3>1, <3>3
      <3>4. QED
        BY <3>2, <3>3
    <2>2. ASSUME NEW i \in 1..k PROVE key(i) \in Keys'
      <3>1. i \in 1..k + d /\ i <= k
        OBVIOUS
      <3>2. key(i) \in secrets'[i].key
        BY <1>3, <1>6, <3>1
      <3>3. QED
        BY <1>7, <3>1, <3>2 DEF Keys
    <2>3. QED
      BY <2>1, <2>2
  <1>10. QED
    BY <1>1, <1>2, <1>6, <1>7, <1>8, <1>9

LEMMA QueryHybridHolds ==
    ASSUME NEW s, Holds(s), NEW u \in Views, NEW call \in Calls, call.op = "query",
           Pass(Env, s, call, u), searcher = NoClient, mode = "Hybrid",
           QueryHybrid(call.n, call.dummies), UNCHANGED callers
    PROVE  Holds(u)'
  <1> DEFINE made == Objects("key", heap, call.n)
  <1>1. PICK keys \in BOOLEAN :
            /\ s.client /\ (s.keys => Env.compress \/ Env.drops) /\ (keys \/ call.n = 0)
            /\ u = Has(s.server, s.client, keys, FALSE, s.room, call.n + call.dummies)
    BY DEF Pass
  <1>2. /\ u.server = s.server /\ u.client = s.client /\ u.keys = keys
        /\ u.answered = FALSE /\ u.room = s.room /\ u.asked = call.n + call.dummies
    BY <1>1 DEF Has
  <1>3. /\ hasGpu' = hasGpu /\ mode' = mode /\ compressHint' = compressHint
        /\ server' = server /\ client' = client /\ answer' = answer
        /\ caller' = caller /\ searcher' = searcher
    BY DEF QueryHybrid, setting, callers
  <1>4. /\ Settings /\ compressHint = (caller = "service") /\ Memory /\ Secrets /\ Answers
        /\ Equipped(s) /\ HeldIsLive(s) /\ LiveIsHeld(s) /\ AskedAs(s)
    BY DEF Holds, Sees
  <1>5. call.n \in Nat /\ call.dummies \in Nat
    BY DEF Calls
  <1>6. s.keys => \A o \in Keys : Permitted(o)
    <2>1. s.keys => caller \in DropsSecrets
      BY <1>1, <1>4 DEF Env, Settings
    <2>2. QED
      BY <1>4, <2>1, HeldApart DEF Permitted
  <1>7. Sound(heap) /\ server \in Server /\ client \in Holder
    BY <1>4 DEF Memory
  <1>8. /\ Sound(heap') /\ heap.made <= heap'.made /\ heap'.live = heap.live \cup made
        /\ made \subseteq Object
        /\ \A o \in made : o.kind = "key" /\ o.number <= heap'.made
    <2>1. client.ctx \cup client.polysA \subseteq heap.live
      BY <1>1, <1>4 DEF HeldIsLive, HeldBy
    <2>2. QED
      BY <1>5, <1>7, <2>1, KeysMade
  <1>9. /\ secrets' \in Seq(Secret) /\ Len(secrets') = call.n + call.dummies
        /\ queries' = call.n + call.dummies
        /\ \A i \in DOMAIN secrets' : secrets'[i].dummy => secrets'[i].key = {}
        /\ Keys' = made
    BY <1>5, <1>8, SecretsMade
  <1> HIDE DEF made
  <1>10. Secrets'
    BY <1>3, <1>8, <1>9 DEF Secrets, Numbered
  <1>11. Memory'
    BY <1>3, <1>4, <1>7, <1>8, MemoryAfter, NobodySearches
  <1>12. Answers' /\ Settings' /\ (compressHint = (caller = "service"))'
    BY <1>3, <1>4, AnswersKept DEF Settings
  <1>13. Searching'
    BY <1>3, NobodySearches
  <1>14. Equipped(u)'
    BY <1>2, <1>3, <1>4, StillEquipped
  <1>15. ServerObjects' = ServerObjects /\ HeldBy(client)' = HeldBy(client) /\ HeldBy(searcher)' = HeldBy(searcher)
    BY <1>3 DEF ServerObjects, HeldBy
  <1>16. HeldIsLive(u)'
    BY <1>2, <1>4, <1>8, <1>9, <1>15 DEF HeldIsLive
  <1>17. LiveIsHeld(u)'
    <2> SUFFICES ASSUME NEW o \in heap'.live
                 PROVE  \/ Permitted(o)'
                        \/ s.server /\ o \in ServerObjects'
                        \/ s.client /\ o \in HeldBy(client)'
                        \/ u.keys /\ o \in Keys'
                        \/ o \in HeldBy(searcher)'
      BY <1>2 DEF LiveIsHeld
    <2>1. CASE o \in made
      <3>1. u.keys
        <4>1. call.n # 0
          BY <2>1 DEF made, Objects
        <4>2. QED
          BY <1>1, <1>2, <4>1
      <3>2. QED
        BY <1>9, <2>1, <3>1
    <2>2. CASE o \in heap.live
      <3>1. \/ Permitted(o)
            \/ s.server /\ o \in ServerObjects
            \/ s.client /\ o \in HeldBy(client)
            \/ o \in HeldBy(searcher)
        BY <1>4, <1>6, <2>2 DEF LiveIsHeld
      <3>2. Permitted(o) => Permitted(o)'
        BY <1>3 DEF Permitted
      <3>3. QED
        BY <1>15, <3>1, <3>2
    <2>3. QED
      BY <1>8, <2>1, <2>2
  <1>18. AskedAs(u)'
    BY <1>2, <1>9 DEF AskedAs
  <1>19. QED
    BY <1>10, <1>11, <1>12, <1>13, <1>14, <1>16, <1>17, <1>18 DEF Holds, Sees

\* What an answer is to, on a device that has the room.
LEMMA AnswerIs ==
    ASSUME Settings, NEW device, NEW k \in Nat, server'.device = device,
           hasGpu => /\ device.a = "database" /\ device.room \in Nat
                     /\ k <= device.room \/ caller \in SetsNoBatch
                     /\ device.outCols = device.room,
           answer' = AnswerTo(server', k), hasGpu' = hasGpu, caller' = caller
    PROVE  Answers' /\ answer'.of = k
  <1>1. hasGpu /\ caller \notin SetsNoBatch => Within(device, k) /\ Served(device, k)
    <2> SUFFICES ASSUME hasGpu, caller \notin SetsNoBatch PROVE Within(device, k) /\ Served(device, k)
      OBVIOUS
    <2>1. /\ device.a = "database" /\ device.room \in Nat /\ k <= device.room
          /\ device.outCols = device.room /\ mode \in {"None", "Hybrid"}
      BY DEF Settings
    <2>2. QED
      BY <2>1, RoomForAll
  <1>2. answer' = [count |-> IF hasGpu THEN Less(k, 1) ELSE k, of |-> k,
                   within |-> ~hasGpu \/ Within(device, k), served |-> ~hasGpu \/ Served(device, k)]
    BY DEF AnswerTo
  <1>3. /\ answer'.of = k /\ answer'.count = IF hasGpu THEN Less(k, 1) ELSE k
        /\ answer'.within = (~hasGpu \/ Within(device, k))
        /\ answer'.served = (~hasGpu \/ Served(device, k))
    BY <1>2
  <1>4. Within(device, k) \in BOOLEAN /\ Served(device, k) \in BOOLEAN
    BY Zenon DEF Within, Served
  <1>5. answer'.within \in BOOLEAN /\ answer'.served \in BOOLEAN
    <2>1. (~hasGpu \/ Within(device, k)) \in BOOLEAN /\ (~hasGpu \/ Served(device, k)) \in BOOLEAN
      BY Zenon
    <2>2. QED
      BY <1>3, <2>1, Zenon
  <1>6. (answer'.within /\ answer'.served) \/ (hasGpu /\ caller \in SetsNoBatch)
    BY <1>1, <1>3
  <1>7. Answers'
    BY <1>3, <1>5, <1>6 DEF Answers
  <1>8. QED
    BY <1>3, <1>7

LEMMA AnswerHolds ==
    ASSUME NEW s, Holds(s), NEW u \in Views, NEW call \in Calls, call.op = "answer",
           Pass(Env, s, call, u), searcher = NoClient, Answer, UNCHANGED callers
    PROVE  Holds(u)'
  <1>1. /\ s.server /\ (Env.gpu => s.asked <= s.room \/ Env.unset)
        /\ u = Has(s.server, s.client, s.keys, TRUE, s.room, s.asked)
    BY DEF Pass
  <1>2. /\ u.server = s.server /\ u.client = s.client /\ u.keys = s.keys
        /\ u.answered = TRUE /\ u.room = s.room /\ u.asked = s.asked
    BY <1>1 DEF Has
  <1>3. /\ hasGpu' = hasGpu /\ mode' = mode /\ compressHint' = compressHint
        /\ server' = server /\ client' = client /\ secrets' = secrets /\ queries' = queries
        /\ caller' = caller /\ searcher' = searcher
    BY DEF Answer, setting, callers
  <1>4. /\ Settings /\ compressHint = (caller = "service") /\ Memory /\ Secrets /\ Answers
        /\ Equipped(s) /\ HeldIsLive(s) /\ LiveIsHeld(s) /\ AskedAs(s) /\ s \in Views
    BY DEF Holds, Sees
  <1>5. heap' = heap
    <2>1. AnswerUses(server) \subseteq heap.live /\ Sound(heap)
      BY <1>1, <1>4 DEF HeldIsLive, ServerObjects, AnswerUses, Memory
    <2>2. QED
      BY <2>1, Live DEF Answer
  <1>6. Sound(heap') /\ heap.made <= heap'.made
    BY <1>4, <1>5, SameHeap
  <1>7. server \in Server /\ client \in Holder
    BY <1>4 DEF Memory
  <1>8. Memory'
    BY <1>3, <1>4, <1>6, <1>7, MemoryAfter, NobodySearches
  <1>9. Secrets' /\ Keys' = Keys
    BY <1>3, <1>4, <1>6, SecretsKept
  <1>10. Answers' /\ answer'.of = queries
    <2>1. queries \in Nat /\ queries = s.asked /\ s.room \in Nat
      BY <1>4 DEF AskedAs, Views
    <2>2. hasGpu => /\ server.device.a = "database" /\ server.device.outCols = server.device.room
                    /\ server.device.room \in Nat /\ s.room <= server.device.room
      BY <1>1, <1>4, <1>7 DEF Equipped, Server, Device
    <2>3. hasGpu => queries <= server.device.room \/ caller \in SetsNoBatch
      <3>1. Env.gpu = hasGpu /\ Env.unset = (caller \in SetsNoBatch)
        BY DEF Env
      <3>2. hasGpu => s.asked <= s.room \/ caller \in SetsNoBatch
        BY <1>1, <3>1, Zenon
      <3>3. s.asked \in Nat
        BY <1>4 DEF Views
      <3>4. QED
        BY <2>1, <2>2, <3>2, <3>3
    <2>4. answer' = AnswerTo(server', queries)
      BY <1>3 DEF Answer
    <2>5. QED
      BY <1>3, <1>4, <2>1, <2>2, <2>3, <2>4, AnswerIs
  <1>11. Settings' /\ (compressHint = (caller = "service"))'
    BY <1>3, <1>4 DEF Settings
  <1>12. Searching'
    BY <1>3, NobodySearches
  <1>13. Equipped(u)'
    BY <1>2, <1>3, <1>4, StillEquipped
  <1>14. ServerObjects' = ServerObjects /\ HeldBy(client)' = HeldBy(client) /\ HeldBy(searcher)' = HeldBy(searcher)
    BY <1>3 DEF ServerObjects, HeldBy
  <1>15. HeldIsLive(u)'
    BY <1>2, <1>4, <1>5, <1>9, <1>14 DEF HeldIsLive
  <1>16. LiveIsHeld(u)'
    <2>1. \A o : Permitted(o) => Permitted(o)'
      BY <1>3 DEF Permitted
    <2>2. QED
      BY <1>2, <1>4, <1>5, <1>9, <1>14, <2>1 DEF LiveIsHeld
  <1>17. AskedAs(u)'
    BY <1>2, <1>3, <1>4, <1>10 DEF AskedAs
  <1>18. QED
    BY <1>8, <1>9, <1>10, <1>11, <1>12, <1>13, <1>15, <1>16, <1>17 DEF Holds, Sees

\* Calls that only use and free what there is.
LEMMA OnlyFreed ==
    ASSUME NEW s, Holds(s), NEW u \in Views, searcher = NoClient, UNCHANGED callers,
           UNCHANGED <<setting, server, client, secrets, queries, answer>>,
           Sound(heap'), heap'.made = heap.made, heap'.live \subseteq heap.live,
           u.server => s.server, u.client => s.client, u.keys => s.keys,
           u.room = s.room, u.asked = s.asked, u.answered => s.answered,
           u.server => ServerObjects \subseteq heap'.live,
           u.client => HeldBy(client) \subseteq heap'.live,
           u.keys => Keys \subseteq heap'.live,
           s.server /\ ~u.server => \A o \in ServerObjects : o \in heap'.live => Permitted(o),
           s.client /\ ~u.client => HeldBy(client) \cap heap'.live = {},
           s.keys /\ ~u.keys => \A o \in Keys : o \in heap'.live => Permitted(o)
    PROVE  Holds(u)'
  <1>1. /\ hasGpu' = hasGpu /\ mode' = mode /\ compressHint' = compressHint
        /\ server' = server /\ client' = client /\ secrets' = secrets /\ queries' = queries
        /\ answer' = answer /\ caller' = caller /\ searcher' = searcher
    BY DEF setting, callers
  <1>2. /\ Settings /\ compressHint = (caller = "service") /\ Memory /\ Secrets /\ Answers
        /\ Equipped(s) /\ HeldIsLive(s) /\ LiveIsHeld(s) /\ AskedAs(s)
    BY DEF Holds, Sees
  <1>3. server \in Server /\ client \in Holder /\ heap.made <= heap'.made
    BY <1>2 DEF Memory, Sound
  <1>4. Memory'
    BY <1>1, <1>2, <1>3, MemoryAfter, NobodySearches
  <1>5. Secrets' /\ Keys' = Keys
    BY <1>1, <1>2, <1>3, SecretsKept
  <1>6. Answers' /\ Settings' /\ (compressHint = (caller = "service"))'
    BY <1>1, <1>2, AnswersKept DEF Settings
  <1>7. Searching' /\ HeldBy(searcher) = {}
    BY <1>1, NobodySearches
  <1>8. Equipped(u)'
    BY <1>1, <1>2, StillEquipped
  <1>9. ServerObjects' = ServerObjects /\ HeldBy(client)' = HeldBy(client)
    BY <1>1 DEF ServerObjects, HeldBy
  <1>10. HeldIsLive(u)'
    BY <1>5, <1>9 DEF HeldIsLive
  <1>11. LiveIsHeld(u)'
    <2> SUFFICES ASSUME NEW o \in heap'.live
                 PROVE  \/ Permitted(o)'
                        \/ u.server /\ o \in ServerObjects'
                        \/ u.client /\ o \in HeldBy(client)'
                        \/ u.keys /\ o \in Keys'
      BY DEF LiveIsHeld
    <2>1. \/ Permitted(o)
          \/ s.server /\ o \in ServerObjects
          \/ s.client /\ o \in HeldBy(client)
          \/ s.keys /\ o \in Keys
      BY <1>2, <1>7 DEF LiveIsHeld
    <2>2. Permitted(o) => Permitted(o)'
      BY <1>1 DEF Permitted
    <2>3. QED
      BY <1>5, <1>9, <2>1, <2>2
  <1>12. AskedAs(u)'
    BY <1>1, <1>2 DEF AskedAs
  <1>13. QED
    BY <1>4, <1>5, <1>6, <1>7, <1>8, <1>10, <1>11, <1>12 DEF Holds, Sees

LEMMA FreeServerHolds ==
    ASSUME NEW s, Holds(s), NEW u \in Views, NEW call \in Calls, call.op = "freeServer",
           Pass(Env, s, call, u), searcher = NoClient, FreeServer, UNCHANGED callers
    PROVE  Holds(u)'
  <1>1. s.server /\ u = Has(FALSE, s.client, s.keys, s.answered, s.room, s.asked)
    BY DEF Pass
  <1>2. /\ u.server = FALSE /\ u.client = s.client /\ u.keys = s.keys
        /\ u.answered = s.answered /\ u.room = s.room /\ u.asked = s.asked
    BY <1>1 DEF Has
  <1>3. Memory /\ Secrets /\ HeldIsLive(s)
    BY DEF Holds, Sees
  <1>4. server.ctx \cup server.gpu \subseteq heap.live /\ Sound(heap)
    BY <1>1, <1>3 DEF HeldIsLive, ServerObjects, Memory
  <1>5. server.ctx \cap server.gpu = {}
    BY <1>3, HeldApart
  <1>6. /\ Sound(heap') /\ heap'.made = heap.made
        /\ heap'.live = heap.live \ (server.ctx \cup server.gpu)
    BY <1>4, <1>5, LiveBoth DEF FreeServer
  <1>7. heap'.live = heap.live \ ServerObjects
    BY <1>6 DEF ServerObjects
  <1>8. UNCHANGED <<setting, server, client, secrets, queries, answer>>
    BY DEF FreeServer
  <1>9. s.client => HeldBy(client) \subseteq heap'.live
    BY <1>3, <1>7, HeldApart DEF HeldIsLive
  <1>10. s.keys => Keys \subseteq heap'.live
    BY <1>3, <1>7, HeldApart DEF HeldIsLive
  <1>11. QED
    BY <1>2, <1>6, <1>7, <1>8, <1>9, <1>10, OnlyFreed

LEMMA FreeClientHolds ==
    ASSUME NEW s, Holds(s), NEW u \in Views, NEW call \in Calls, call.op = "freeClient",
           Pass(Env, s, call, u), searcher = NoClient, FreeClient, UNCHANGED callers
    PROVE  Holds(u)'
  <1>1. s.client /\ u = Has(s.server, FALSE, s.keys, s.answered, s.room, s.asked)
    BY DEF Pass
  <1>2. /\ u.server = s.server /\ u.client = FALSE /\ u.keys = s.keys
        /\ u.answered = s.answered /\ u.room = s.room /\ u.asked = s.asked
    BY <1>1 DEF Has
  <1>3. Memory /\ Secrets /\ HeldIsLive(s)
    BY DEF Holds, Sees
  <1>4. client.ctx \cup client.polysA \subseteq heap.live /\ Sound(heap)
    BY <1>1, <1>3 DEF HeldIsLive, HeldBy, Memory
  <1>5. client.ctx \cap client.polysA = {}
    BY <1>3, HeldApart
  <1>6. /\ Sound(heap') /\ heap'.made = heap.made
        /\ heap'.live = heap.live \ (client.ctx \cup client.polysA)
    BY <1>4, <1>5, LiveBoth DEF FreeClient
  <1>7. heap'.live = heap.live \ HeldBy(client)
    BY <1>6 DEF HeldBy
  <1>8. UNCHANGED <<setting, server, client, secrets, queries, answer>>
    BY DEF FreeClient
  <1>9. s.server => ServerObjects \subseteq heap'.live
    BY <1>3, <1>7, HeldApart DEF HeldIsLive
  <1>10. s.keys => Keys \subseteq heap'.live
    BY <1>3, <1>7, HeldApart DEF HeldIsLive
  <1>11. QED
    BY <1>2, <1>6, <1>7, <1>8, <1>9, <1>10, OnlyFreed

LEMMA FreeSecretsHolds ==
    ASSUME NEW s, Holds(s), NEW u \in Views, NEW call \in Calls, call.op = "freeSecrets",
           Pass(Env, s, call, u), searcher = NoClient, FreeSecrets, UNCHANGED callers
    PROVE  Holds(u)'
  <1>1. s.keys /\ u = Has(s.server, s.client, FALSE, s.answered, s.room, s.asked)
    BY DEF Pass
  <1>2. /\ u.server = s.server /\ u.client = s.client /\ u.keys = FALSE
        /\ u.answered = s.answered /\ u.room = s.room /\ u.asked = s.asked
    BY <1>1 DEF Has
  <1>3. Memory /\ Secrets /\ HeldIsLive(s)
    BY DEF Holds, Sees
  <1>4. Keys \subseteq heap.live /\ Sound(heap)
    BY <1>1, <1>3 DEF HeldIsLive, Memory
  <1>5. heap' = Release(heap, Keys)
    BY DEF FreeSecrets, Keys
  <1>6. Sound(heap') /\ heap'.made = heap.made /\ heap'.live = heap.live \ Keys
    BY <1>4, <1>5, Live
  <1>7. UNCHANGED <<setting, server, client, secrets, queries, answer>>
    BY DEF FreeSecrets
  <1>8. s.server => ServerObjects \subseteq heap'.live
    BY <1>3, <1>6, HeldApart DEF HeldIsLive
  <1>9. s.client => HeldBy(client) \subseteq heap'.live
    BY <1>3, <1>6, HeldApart DEF HeldIsLive
  <1>10. QED
    BY <1>2, <1>6, <1>7, <1>8, <1>9, OnlyFreed

\* On a CPU all answers are recovered from, on a GPU at most one.
LEMMA RecoverHolds ==
    ASSUME NEW s, Holds(s), NEW u \in Views, NEW call \in Calls, call.op = "recover",
           Pass(Env, s, call, u), searcher = NoClient, Recover, UNCHANGED callers
    PROVE  Holds(u)'
  <1> DEFINE recovered == {i \in 1..answer.count : ~secrets[i].dummy}
             keys == UNION {secrets[i].key : i \in recovered}
             used == IF mode = "Hybrid" /\ recovered # {} THEN client.ctx ELSE {}
  <1>1. /\ s.client /\ (s.keys \/ Env.again) /\ s.answered
        /\ u = Has(s.server, s.client, Env.compress, s.answered, s.room, s.asked)
    BY DEF Pass
  <1>2. /\ u.server = s.server /\ u.client = s.client /\ u.keys = compressHint
        /\ u.answered = s.answered /\ u.room = s.room /\ u.asked = s.asked
    BY <1>1 DEF Has, Env
  <1>3. /\ Settings /\ compressHint = (caller = "service") /\ Memory /\ Secrets /\ Answers
        /\ HeldIsLive(s) /\ AskedAs(s)
    BY DEF Holds, Sees
  <1>4. (s.keys => Keys \subseteq heap.live) /\ Sound(heap) /\ used \subseteq heap.live
    BY <1>1, <1>3 DEF HeldIsLive, Memory, HeldBy
  <1>5. Use(heap, used) = heap
    <2> HIDE DEF used
    <2>1. QED
      BY <1>4, Live
  <1>6. /\ answer.of = queries /\ queries = Len(secrets) /\ queries \in Nat
        /\ DOMAIN secrets = 1..queries
    <2>1. answer.of = queries
      BY <1>1, <1>3 DEF AskedAs
    <2>2. secrets \in Seq(Secret) /\ queries = Len(secrets)
      BY <1>3 DEF Secrets
    <2>3. QED
      BY <2>1, <2>2
  <1>7. answer.count \in Nat /\ answer.count <= queries /\ (~hasGpu => answer.count = queries)
    BY <1>3, <1>6 DEF Answers, Less
  <1>8. keys \subseteq Keys
    BY <1>6, <1>7 DEF Keys
  <1>9. ~hasGpu => Keys \subseteq keys
    <2> SUFFICES ASSUME ~hasGpu, NEW x \in Keys PROVE x \in keys
      OBVIOUS
    <2>1. PICK i \in 1..queries : x \in secrets[i].key
      BY <1>6 DEF Keys
    <2>2. ~secrets[i].dummy
      BY <1>3, <1>6, <2>1 DEF Secrets
    <2>3. i \in recovered
      BY <1>7, <2>2
    <2>4. QED
      BY <2>1, <2>3
  <1>10. heap' = IF compressHint THEN heap ELSE Release(heap, keys)
    BY <1>5, Zenon DEF Recover
  <1>11. UNCHANGED <<setting, server, client, secrets, queries, answer>>
    BY DEF Recover
  <1> HIDE DEF recovered, keys, used
  <1>12. CASE compressHint /\ s.keys
    <2>1. heap' = heap
      BY <1>10, <1>12
    <2>2. Sound(heap') /\ heap'.made = heap.made /\ heap'.live = heap.live
      BY <1>4, <2>1
    <2>3. /\ s.server => ServerObjects \subseteq heap'.live
          /\ s.client => HeldBy(client) \subseteq heap'.live
          /\ Keys \subseteq heap'.live
      BY <1>3, <1>4, <1>12, <2>2 DEF HeldIsLive
    <2>4. QED
      BY <1>2, <1>11, <1>12, <2>2, <2>3, OnlyFreed
  <1>13. ASSUME ~compressHint, Sound(Release(heap, keys)),
                Release(heap, keys).made = heap.made, Release(heap, keys).live = heap.live \ keys
         PROVE  Holds(u)'
    <2>1. Sound(heap') /\ heap'.made = heap.made /\ heap'.live = heap.live \ keys
      BY <1>10, <1>13
    <2>2. /\ s.server => ServerObjects \subseteq heap'.live
          /\ s.client => HeldBy(client) \subseteq heap'.live
      BY <1>3, <1>8, <2>1, HeldApart DEF HeldIsLive
    <2>3. \A o \in Keys : o \in heap'.live => Permitted(o)
      BY <1>3, <1>9, <2>1, HeldApart DEF Permitted
    <2>4. QED
      BY <1>2, <1>11, <1>13, <2>1, <2>2, <2>3, OnlyFreed
  <1>14. CASE ~compressHint /\ s.keys
    <2>1. keys \subseteq heap.live
      BY <1>4, <1>8, <1>14
    <2>2. QED
      BY <1>4, <1>13, <1>14, <2>1, Live
  <1>15. CASE ~s.keys
    <2>1. caller = "recoverLatency" /\ ~compressHint
      BY <1>1, <1>3, <1>15 DEF Env
    <2>2. QED
      BY <1>4, <1>13, <2>1, FreedAgain
  <1>16. QED
    BY <1>12, <1>14, <1>15

-----------------------------------------------------------------------------
(* The search *)

LEMMA NobodyHolds == searcher = NoClient => HeldBy(searcher) = {}
  BY DEF HeldBy, NoClient

LEMMA StartSearchHolds ==
    ASSUME NEW s, Holds(s), StartSearch
    PROVE  Holds(s)'
  <1>1. /\ Settings /\ compressHint = (caller = "service") /\ Memory /\ Secrets /\ Answers
        /\ Equipped(s) /\ HeldIsLive(s) /\ LiveIsHeld(s) /\ AskedAs(s) /\ s \in Views
    BY DEF Holds, Sees
  <1>2. /\ hasGpu' = hasGpu /\ mode' = mode /\ compressHint' = compressHint
        /\ server' = server /\ client' = client /\ secrets' = secrets /\ queries' = queries
        /\ answer' = answer /\ caller' = caller /\ plan' = plan
        /\ searcher = NoClient
    BY DEF StartSearch, setting
  <1>3. plan # <<>> /\ Head(plan).op = "capacity"
    BY DEF StartSearch, Calling
  <1>4. /\ Sound(heap) /\ server \in Server /\ client \in Holder /\ mode \in {"None", "Hybrid"}
        /\ \A o \in HeldBy(client) : o.number <= heap.made
    BY <1>1 DEF Memory, Settings, Numbered, HeldBy
  <1>5. /\ Sound(heap') /\ heap.made <= heap'.made /\ searcher' \in Holder /\ searcher' # NoClient
        /\ heap.live \subseteq heap'.live /\ HeldBy(searcher') \subseteq heap'.live
        /\ \A o \in heap'.live : o \in heap.live \/ o \in HeldBy(searcher') \/ o.kind = "initKey"
        /\ \A o \in searcher'.ctx : o.kind = "ctx" /\ heap.made < o.number /\ o.number <= heap'.made
        /\ \A o \in searcher'.polysA : o.kind = "a" /\ heap.made < o.number /\ o.number <= heap'.made
    <2> DEFINE made == ClientObjects(heap)
    <2>1. heap' = made.heap /\ searcher' = made.client
      BY DEF StartSearch
    <2> HIDE DEF made
    <2>2. QED
      BY <1>4, <2>1, ClientMade DEF made
  <1>6. Memory'
    BY <1>1, <1>2, <1>4, <1>5, MemoryAfter
  <1>7. Secrets' /\ Keys' = Keys
    BY <1>1, <1>2, <1>5, SecretsKept
  <1>8. Answers' /\ Settings' /\ (compressHint = (caller = "service"))'
    BY <1>1, <1>2, AnswersKept DEF Settings
  <1>9. HeldBy(searcher)' \cap HeldBy(client)' = {}
    <2> SUFFICES ASSUME NEW o \in HeldBy(searcher'), o \in HeldBy(client) PROVE FALSE
      BY <1>2 DEF HeldBy
    <2>1. heap.made < o.number
      BY <1>5 DEF HeldBy
    <2>2. o.number <= heap.made
      BY <1>4
    <2>3. o.number \in Nat /\ heap.made \in Nat
      BY <1>4 DEF HeldBy, Holder, Object, Sound
    <2>4. QED
      BY <2>1, <2>2, <2>3
  <1>10. Searching'
    BY <1>2, <1>3, <1>5, <1>9 DEF Searching, HeldBy
  <1>11. Equipped(s)'
    BY <1>1, <1>2, <1>5 DEF Equipped
  <1>12. ServerObjects' = ServerObjects /\ HeldBy(client)' = HeldBy(client)
    BY <1>2 DEF ServerObjects, HeldBy
  <1>13. HeldIsLive(s)'
    BY <1>1, <1>5, <1>7, <1>12 DEF HeldIsLive
  <1>14. LiveIsHeld(s)'
    <2> SUFFICES ASSUME NEW o \in heap'.live
                 PROVE  \/ Permitted(o)'
                        \/ s.server /\ o \in ServerObjects'
                        \/ s.client /\ o \in HeldBy(client)'
                        \/ s.keys /\ o \in Keys'
                        \/ o \in HeldBy(searcher')
      BY DEF LiveIsHeld, HeldBy
    <2>1. CASE o.kind = "initKey"
      BY <2>1 DEF Permitted
    <2>2. CASE o \in heap.live
      <3>1. \/ Permitted(o)
            \/ s.server /\ o \in ServerObjects
            \/ s.client /\ o \in HeldBy(client)
            \/ s.keys /\ o \in Keys
        BY <1>1, <1>2, <2>2, NobodyHolds DEF LiveIsHeld
      <3>2. Permitted(o) => Permitted(o)'
        BY <1>2 DEF Permitted
      <3>3. QED
        BY <1>7, <1>12, <3>1, <3>2
    <2>3. QED
      BY <1>5, <2>1, <2>2
  <1>15. AskedAs(s)'
    BY <1>1, <1>2, <1>5 DEF AskedAs
  <1>16. QED
    BY <1>1, <1>6, <1>7, <1>8, <1>10, <1>11, <1>13, <1>14, <1>15 DEF Holds, Sees

\* Each size tried has its batch set before it is answered.
LEMMA TryHolds ==
    ASSUME NEW s, Holds(s), s.server, batchSize \in Nat, TryMemory
    PROVE  /\ server' \in Server /\ server'.ctx = server.ctx /\ server'.gpu = server.gpu
           /\ hasGpu <=> server'.gpu # {}
           /\ hasGpu => /\ server'.device.a = "database" /\ server'.device.room = batchSize
                        /\ server'.device.outCols = server'.device.room
           /\ hasGpu' = hasGpu /\ mode' = mode /\ compressHint' = compressHint
           /\ client' = client /\ secrets' = secrets /\ queries' = queries /\ caller' = caller
           /\ Answers' /\ Settings' /\ (compressHint = (caller = "service"))'
           /\ Use(heap, AnswerUses(server)) = heap /\ ServerObjects' = ServerObjects
           /\ HeldBy(client)' = HeldBy(client) /\ Keys' = Keys
  <1>1. /\ Settings /\ compressHint = (caller = "service") /\ Memory /\ Equipped(s) /\ HeldIsLive(s)
    BY DEF Holds, Sees
  <1>2. /\ hasGpu' = hasGpu /\ mode' = mode /\ compressHint' = compressHint
        /\ client' = client /\ secrets' = secrets /\ queries' = queries /\ caller' = caller
    BY DEF TryMemory, setting
  <1>3. /\ server \in Server /\ hasGpu \in BOOLEAN /\ (hasGpu <=> server.gpu # {})
        /\ (hasGpu => server.device.a = "database")
    BY <1>1 DEF Memory, Settings, Equipped
  <1>4. server' = Batched(batchSize) /\ answer' = AnswerTo(server', batchSize)
    BY DEF TryMemory
  <1>5. /\ server' \in Server /\ server'.ctx = server.ctx /\ server'.gpu = server.gpu
        /\ hasGpu => /\ server'.device.a = "database" /\ server'.device.room = batchSize
                     /\ server'.device.outCols = server'.device.room
    BY <1>3, <1>4, BatchedServer
  <1>6. Answers'
    <2>1. hasGpu => /\ server'.device.a = "database" /\ server'.device.outCols = server'.device.room
                    /\ server'.device.room \in Nat /\ batchSize <= server'.device.room
      BY <1>5
    <2>2. QED
      BY <1>1, <1>2, <1>4, <2>1, AnswerIs
  <1>7. Settings' /\ (compressHint = (caller = "service"))'
    BY <1>1, <1>2 DEF Settings
  <1>8. Use(heap, AnswerUses(server)) = heap
    <2>1. AnswerUses(server) \subseteq heap.live /\ Sound(heap)
      BY <1>1 DEF HeldIsLive, ServerObjects, AnswerUses, Memory
    <2>2. QED
      BY <2>1, Live
  <1>9. ServerObjects' = ServerObjects /\ HeldBy(client)' = HeldBy(client) /\ Keys' = Keys
    BY <1>2, <1>5 DEF ServerObjects, HeldBy, Keys
  <1>10. QED
    BY <1>2, <1>3, <1>5, <1>6, <1>7, <1>8, <1>9

LEMMA GoOnHolds ==
    ASSUME NEW s, Holds(s), s.server, batchSize \in Nat, GoOn
    PROVE  Holds(s)'
  <1>1. /\ Memory /\ Secrets /\ Searching
        /\ HeldIsLive(s) /\ LiveIsHeld(s) /\ AskedAs(s) /\ s \in Views
    BY DEF Holds, Sees
  <1>2. TryMemory /\ searcher # NoClient
    BY DEF GoOn, TryMemory
  <1>3. /\ server' \in Server /\ server'.ctx = server.ctx /\ server'.gpu = server.gpu
        /\ hasGpu <=> server'.gpu # {}
        /\ hasGpu => /\ server'.device.a = "database" /\ server'.device.outCols = server'.device.room
        /\ hasGpu' = hasGpu /\ mode' = mode /\ compressHint' = compressHint
        /\ client' = client /\ secrets' = secrets /\ queries' = queries /\ caller' = caller
        /\ Answers' /\ Settings' /\ (compressHint = (caller = "service"))'
        /\ Use(heap, AnswerUses(server)) = heap /\ ServerObjects' = ServerObjects
        /\ HeldBy(client)' = HeldBy(client) /\ Keys' = Keys
    BY <1>2, TryHolds
  <1>4. heap' = heap /\ searcher' = searcher /\ plan' = plan
    BY <1>3 DEF GoOn
  <1>5. Sound(heap') /\ heap.made <= heap'.made /\ client \in Holder /\ searcher \in Holder
    BY <1>1, <1>4, SameHeap DEF Memory
  <1>6. Memory'
    BY <1>1, <1>3, <1>4, <1>5, MemoryAfter
  <1>7. Secrets'
    BY <1>1, <1>3, <1>5, SecretsKept
  <1>8. HeldBy(searcher)' = HeldBy(searcher)
    BY <1>4 DEF HeldBy
  <1>9. Searching'
    BY <1>1, <1>3, <1>4, <1>8 DEF Searching
  <1>10. Equipped(s)'
    BY <1>2, <1>3, <1>4 DEF Equipped
  <1>11. HeldIsLive(s)'
    BY <1>1, <1>3, <1>4 DEF HeldIsLive
  <1>12. LiveIsHeld(s)'
    <2>1. \A o : Permitted(o) => Permitted(o)'
      BY <1>3 DEF Permitted
    <2>2. QED
      BY <1>1, <1>3, <1>4, <1>8, <2>1 DEF LiveIsHeld
  <1>13. AskedAs(s)'
    BY <1>1, <1>2, <1>3, <1>4 DEF AskedAs
  <1>14. QED
    BY <1>1, <1>3, <1>6, <1>7, <1>9, <1>10, <1>11, <1>12, <1>13 DEF Holds, Sees

LEMMA EndSearchHolds ==
    ASSUME NEW s, Holds(s), NEW u \in Views, NEW call, call.op = "capacity",
           Pass(Env, s, call, u), batchSize \in Nat, EndSearch
    PROVE  Holds(u)'
  <1>1. s.server /\ u = Has(s.server, s.client, s.keys, FALSE, 0, s.asked)
    BY DEF Pass
  <1>2. /\ u.server = s.server /\ u.client = s.client /\ u.keys = s.keys
        /\ u.answered = FALSE /\ u.room = 0 /\ u.asked = s.asked
    BY <1>1 DEF Has
  <1>3. /\ Memory /\ Secrets /\ Searching
        /\ HeldIsLive(s) /\ LiveIsHeld(s) /\ AskedAs(s) /\ s \in Views
    BY DEF Holds, Sees
  <1>4. TryMemory /\ searcher' = NoClient
    BY DEF EndSearch
  <1>5. /\ server' \in Server /\ server'.ctx = server.ctx /\ server'.gpu = server.gpu
        /\ hasGpu <=> server'.gpu # {}
        /\ hasGpu => /\ server'.device.a = "database" /\ server'.device.room = batchSize
                     /\ server'.device.outCols = server'.device.room
        /\ hasGpu' = hasGpu /\ mode' = mode /\ compressHint' = compressHint
        /\ client' = client /\ secrets' = secrets /\ queries' = queries /\ caller' = caller
        /\ Answers' /\ Settings' /\ (compressHint = (caller = "service"))'
        /\ Use(heap, AnswerUses(server)) = heap /\ ServerObjects' = ServerObjects
        /\ HeldBy(client)' = HeldBy(client) /\ Keys' = Keys
    BY <1>1, <1>4, TryHolds
  <1>6. heap' = Release(Release(heap, searcher.ctx), searcher.polysA)
    BY <1>5 DEF EndSearch
  <1>7. /\ Sound(heap) /\ client \in Holder /\ searcher.ctx \cap searcher.polysA = {}
        /\ searcher.ctx \cup searcher.polysA \subseteq heap.live
    BY <1>3, HeldApart DEF Memory, Searching, HeldBy
  <1>8. /\ Sound(heap') /\ heap'.made = heap.made
        /\ heap'.live = heap.live \ (searcher.ctx \cup searcher.polysA)
    BY <1>6, <1>7, LiveBoth
  <1>9. heap'.live = heap.live \ HeldBy(searcher) /\ heap.made <= heap'.made
    BY <1>7, <1>8 DEF HeldBy, Sound
  <1>10. HeldBy(searcher') = {} /\ searcher' \in Holder /\ searcher'.ctx = {} /\ searcher'.polysA = {}
    BY <1>4 DEF HeldBy, NoClient, Holder
  <1>11. Memory'
    BY <1>3, <1>5, <1>7, <1>8, <1>9, <1>10, MemoryAfter
  <1>12. Secrets'
    BY <1>3, <1>5, <1>8, <1>9, SecretsKept
  <1>13. Searching'
    BY <1>4, <1>10 DEF Searching, HeldBy
  <1>14. Equipped(u)'
    BY <1>2, <1>5 DEF Equipped
  <1>15. HeldIsLive(u)'
    <2>1. /\ ServerObjects \cap HeldBy(searcher) = {} /\ Keys \cap HeldBy(searcher) = {}
          /\ HeldBy(searcher) \cap HeldBy(client) = {}
      BY <1>3, HeldApart DEF Searching
    <2>2. QED
      BY <1>2, <1>3, <1>5, <1>9, <2>1 DEF HeldIsLive
  <1>16. LiveIsHeld(u)'
    <2> SUFFICES ASSUME NEW o \in heap'.live
                 PROVE  \/ Permitted(o)'
                        \/ s.server /\ o \in ServerObjects'
                        \/ s.client /\ o \in HeldBy(client)'
                        \/ s.keys /\ o \in Keys'
      BY <1>2 DEF LiveIsHeld
    <2>1. \/ Permitted(o)
          \/ s.server /\ o \in ServerObjects
          \/ s.client /\ o \in HeldBy(client)
          \/ s.keys /\ o \in Keys
      BY <1>3, <1>9 DEF LiveIsHeld
    <2>2. Permitted(o) => Permitted(o)'
      BY <1>5 DEF Permitted
    <2>3. QED
      BY <1>5, <2>1, <2>2
  <1>17. AskedAs(u)'
    BY <1>2, <1>3, <1>5 DEF AskedAs
  <1>18. QED
    BY <1>5, <1>11, <1>12, <1>13, <1>14, <1>15, <1>16, <1>17 DEF Holds, Sees

-----------------------------------------------------------------------------
(* The specification *)

\* At first nobody has anything.
LEMMA NothingHolds == CallersInit => Holds(Nothing)
  <1> SUFFICES ASSUME CallersInit PROVE Holds(Nothing)
    OBVIOUS
  <1>1. /\ hasGpu \in BOOLEAN /\ compressHint = (caller = "service")
        /\ caller \in DOMAIN Plans /\ mode \in Modes[caller]
        /\ heap = [live |-> {}, made |-> 0, misused |-> FALSE]
        /\ server = NoServer /\ client = NoClient /\ searcher = NoClient
        /\ secrets = <<>> /\ queries = 0
        /\ answer = [count |-> 0, of |-> 0, within |-> TRUE, served |-> TRUE]
    BY DEF CallersInit
  <1>2. Settings
    <2>1. mode \in IF caller = "service" THEN {"None"}
                   ELSE IF caller \in {"recoverLatency", "bucket", "pbcBench", "dpirBench"} THEN {"Hybrid"}
                   ELSE {"None", "Hybrid"}
      BY <1>1 DEF Modes
    <2>2. QED
      BY <1>1, <2>1 DEF Settings
  <1>3. Sound(heap) /\ heap.live = {} /\ heap.made = 0
    BY <1>1 DEF Sound
  <1>4. server \in Server /\ server.ctx = {} /\ server.gpu = {}
    BY <1>1 DEF Server, NoServer, Device, Allocated
  <1>5. NoClient \in Holder /\ NoClient.ctx = {} /\ NoClient.polysA = {}
    BY DEF Holder, NoClient
  <1>6. Memory
    BY <1>1, <1>3, <1>4, <1>5 DEF Memory, Numbered
  <1>7. secrets \in Seq(Secret) /\ Len(secrets) = 0 /\ DOMAIN secrets = {} /\ Keys = {}
    BY <1>1 DEF Keys
  <1>8. Secrets
    BY <1>1, <1>7 DEF Secrets, Numbered
  <1>9. Answers
    BY <1>1 DEF Answers, Less
  <1>10. Searching
    BY <1>1, <1>5 DEF Searching, HeldBy
  <1>11. /\ Nothing \in Views /\ Nothing.server = FALSE /\ Nothing.client = FALSE
         /\ Nothing.keys = FALSE /\ Nothing.answered = FALSE /\ Nothing.asked = 0
    BY DEF Nothing, Has, Views
  <1>12. Sees(Nothing)
    BY <1>1, <1>3, <1>11 DEF Sees, Equipped, HeldIsLive, LiveIsHeld, AskedAs
  <1>13. QED
    BY <1>1, <1>2, <1>6, <1>8, <1>9, <1>10, <1>12 DEF Holds

LEMMA CallersStart == CallersInit => IInv
  <1> SUFFICES ASSUME CallersInit PROVE IInv
    OBVIOUS
  <1>1. SearchInv
    BY SearchInit DEF CallersInit
  <1>2. Holds(Nothing) /\ Freed(Env, plan)
    BY NothingHolds, PlansLead
  <1>3. Nothing \in Views
    BY DEF Nothing, Has, Views
  <1>4. OnTheWay
    BY <1>2, <1>3 DEF OnTheWay, Freed
  <1>5. QED
    BY <1>1, <1>4 DEF IInv

\* A call made as the plan says is one the caller has what it needs for.
LEMMA CallsFit ==
    ASSUME OnTheWay, plan # <<>>, plan' = Tail(plan), UNCHANGED <<hasGpu, compressHint, caller>>,
           \A s, u \in Views :
                Holds(s) /\ Pass(Env, s, Head(plan), u) /\ Head(plan) \in Calls => Holds(u)'
    PROVE  OnTheWay'
  <1>1. PICK s \in Views, w \in Views : Holds(s) /\ Leads(Env, s, plan, w) /\ Through(Env, w)
    BY DEF OnTheWay
  <1>2. plan \in Seq(Calls)
    BY DEF OnTheWay
  <1>3. Head(plan) \in Calls /\ Tail(plan) \in Seq(Calls)
    BY <1>2, LeadsRest, <1>1
  <1>4. PICK u \in Views : Pass(Env, s, Head(plan), u) /\ Leads(Env, u, Tail(plan), w)
    BY <1>1, <1>2, LeadsRest
  <1>5. Holds(u)'
    BY <1>1, <1>3, <1>4
  <1>6. Env' = Env
    BY DEF Env
  <1>7. Leads(Env, u, plan, w)' /\ Through(Env, w)'
    <2>1. Leads(Env', u, plan', w) /\ Through(Env', w)
      BY <1>1, <1>4, <1>6
    <2>2. QED
      BY <2>1 DEF Leads, Through, Pass
  <1>8. QED
    BY <1>3, <1>5, <1>7 DEF OnTheWay

\* Nobody searches while another call is made.
LEMMA StepFits ==
    ASSUME NEW op, op # "capacity", NEW s, Holds(s), Calling(op)
    PROVE  searcher = NoClient /\ Head(plan).op = op
  BY DEF Calling, Holds, Searching

\* What there is to search with is there as long as the search goes on.
LEMMA SearchStays ==
    ASSUME OnTheWay, plan' = plan, UNCHANGED <<hasGpu, compressHint, caller>>,
           \A s, u \in Views : Holds(s) /\ (Pass(Env, s, Head(plan), u) \/ plan = <<>>) => Holds(s)'
    PROVE  OnTheWay'
  <1>1. PICK s \in Views, w \in Views : Holds(s) /\ Leads(Env, s, plan, w) /\ Through(Env, w)
    BY DEF OnTheWay
  <1>2. plan \in Seq(Calls)
    BY DEF OnTheWay
  <1>3. Holds(s)'
    <2>1. CASE plan = <<>>
      BY <1>1, <2>1
    <2>2. CASE plan # <<>>
      <3>1. PICK u \in Views : Pass(Env, s, Head(plan), u)
        BY <1>1, <1>2, <2>2, LeadsRest
      <3>2. QED
        BY <1>1, <3>1
    <2>3. QED
      BY <2>1, <2>2
  <1>4. Env' = Env
    BY DEF Env
  <1>5. Leads(Env, s, plan, w)' /\ Through(Env, w)'
    <2>1. Leads(Env', s, plan', w) /\ Through(Env', w)
      BY <1>1, <1>4
    <2>2. QED
      BY <2>1 DEF Leads, Through, Pass
  <1>6. QED
    BY <1>1, <1>2, <1>3, <1>5 DEF OnTheWay

\* The search is one of BatchCapacity, which other calls leave alone.
LEMMA SearchGoesOn == SearchInv /\ [CallersNext]_allVars => SearchInv'
  <1> SUFFICES ASSUME SearchInv, [CallersNext]_allVars PROVE [Next]_vars
    BY SearchNext
  <1>1. CASE UNCHANGED allVars
    BY <1>1, Zenon DEF allVars
  <1>2. ASSUME NEW op, NEW ACTION action, Step(op, action) PROVE UNCHANGED vars
    BY <1>2, Zenon DEF Step
  <1>3. CASE StartSearch
    BY <1>3, Zenon DEF StartSearch
  <1>4. CASE GoOn
    BY <1>4, Zenon DEF GoOn, Next
  <1>5. CASE EndSearch
    BY <1>5, Zenon DEF EndSearch, Next
  <1>6. QED
    BY <1>1, <1>2, <1>3, <1>4, <1>5, Zenon DEF CallersNext

\* Calls keep the setting and the caller.
LEMMA CallKept ==
    ASSUME NEW op, NEW ACTION action, Step(op, action), UNCHANGED setting
    PROVE  /\ plan # <<>> /\ plan' = Tail(plan) /\ Head(plan).op = op
           /\ UNCHANGED <<hasGpu, compressHint, caller>> /\ UNCHANGED callers
  BY Zenon DEF Step, Calling, Return, callers, setting

LEMMA CallStays ==
    ASSUME OnTheWay, NEW op, op # "capacity", NEW ACTION action, Step(op, action), UNCHANGED setting,
           \A s, u \in Views :
                /\ Holds(s) /\ Pass(Env, s, Head(plan), u) /\ Head(plan) \in Calls
                /\ Head(plan).op = op /\ searcher = NoClient /\ UNCHANGED callers
                => Holds(u)'
    PROVE  OnTheWay'
  <1>1. /\ plan # <<>> /\ plan' = Tail(plan) /\ Head(plan).op = op
        /\ UNCHANGED <<hasGpu, compressHint, caller>> /\ UNCHANGED callers
    BY CallKept
  <1>2. \A s : Holds(s) => searcher = NoClient
    BY <1>1, StepFits DEF Calling
  <1>3. \A s, u \in Views :
            Holds(s) /\ Pass(Env, s, Head(plan), u) /\ Head(plan) \in Calls => Holds(u)'
    BY <1>1, <1>2
  <1>4. QED
    BY <1>1, <1>3, CallsFit

LEMMA SettingKept ==
    /\ MakeServer => UNCHANGED setting
    /\ SpareContext => UNCHANGED setting
    /\ InitClient => UNCHANGED setting
    /\ \A n : SetBatch(n) => UNCHANGED setting
    /\ \A n, d : Query(n, d) => UNCHANGED setting
    /\ Answer => UNCHANGED setting
    /\ Recover => UNCHANGED setting
    /\ FreeSecrets => UNCHANGED setting
    /\ FreeServer => UNCHANGED setting
    /\ FreeClient => UNCHANGED setting
  BY Zenon DEF MakeServer, SpareContext, InitClient, SetBatch, Query, QueryHybrid, QueryNone, Answer, Recover,
     FreeSecrets, FreeServer, FreeClient, setting

\* Every step leaves a caller with what its plan needs.
LEMMA StaysOnTheWay == SearchInv /\ OnTheWay /\ [CallersNext]_allVars => OnTheWay'
  <1> SUFFICES ASSUME SearchInv, OnTheWay, [CallersNext]_allVars PROVE OnTheWay'
    OBVIOUS
  <1>0. batchSize \in Nat
    BY DEF SearchInv, TypeOK
  <1>1. CASE Step("makeServer", MakeServer)
    <2>1. MakeServer
      BY <1>1 DEF Step
    <2>2. QED
      BY <1>1, <2>1, SettingKept, CallStays, MakeServerHolds
  <1>2. CASE Step("initClient", InitClient)
    <2>1. InitClient
      BY <1>2 DEF Step
    <2>2. QED
      BY <1>2, <2>1, SettingKept, CallStays, InitClientHolds
  <1>3. CASE Step("setBatch", SetBatch(Head(plan).n))
    <2>1. SetBatch(Head(plan).n)
      BY <1>3 DEF Step
    <2>2. QED
      BY <1>3, <2>1, SettingKept, CallStays, SetBatchHolds
  <1>4. CASE Step("query", Query(Head(plan).n, Head(plan).dummies))
    <2>1. Query(Head(plan).n, Head(plan).dummies)
      BY <1>4 DEF Step
    <2>2. ASSUME NEW s \in Views, NEW u \in Views, Holds(s), Pass(Env, s, Head(plan), u),
                 Head(plan) \in Calls, Head(plan).op = "query", searcher = NoClient,
                 UNCHANGED callers
          PROVE  Holds(u)'
      <3>1. CASE mode = "Hybrid" /\ QueryHybrid(Head(plan).n, Head(plan).dummies)
        BY <2>2, <3>1, QueryHybridHolds
      <3>2. CASE mode = "None" /\ QueryNone(Head(plan).n, Head(plan).dummies)
        BY <2>2, <3>2, QueryNoneHolds
      <3>3. QED
        BY <2>1, <3>1, <3>2, Zenon DEF Query
    <2>3. QED
      BY <1>4, <2>1, <2>2, SettingKept, CallStays
  <1>5. CASE Step("answer", Answer)
    <2>1. Answer
      BY <1>5 DEF Step
    <2>2. QED
      BY <1>5, <2>1, SettingKept, CallStays, AnswerHolds
  <1>6. CASE Step("recover", Recover)
    <2>1. Recover
      BY <1>6 DEF Step
    <2>2. QED
      BY <1>6, <2>1, SettingKept, CallStays, RecoverHolds
  <1>7. CASE Step("freeSecrets", FreeSecrets)
    <2>1. FreeSecrets
      BY <1>7 DEF Step
    <2>2. QED
      BY <1>7, <2>1, SettingKept, CallStays, FreeSecretsHolds
  <1>8. CASE Step("freeServer", FreeServer)
    <2>1. FreeServer
      BY <1>8 DEF Step
    <2>2. QED
      BY <1>8, <2>1, SettingKept, CallStays, FreeServerHolds
  <1>9. CASE Step("freeClient", FreeClient)
    <2>1. FreeClient
      BY <1>9 DEF Step
    <2>2. QED
      BY <1>9, <2>1, SettingKept, CallStays, FreeClientHolds
  <1>10. CASE StartSearch
    <2>1. plan' = plan /\ UNCHANGED <<hasGpu, compressHint, caller>>
      BY <1>10 DEF StartSearch, setting
    <2>2. QED
      BY <1>10, <2>1, SearchStays, StartSearchHolds
  <1>11. CASE GoOn
    <2>1. /\ plan' = plan /\ UNCHANGED <<hasGpu, compressHint, caller>>
          /\ plan # <<>> /\ Head(plan).op = "capacity"
      BY <1>11 DEF GoOn, TryMemory, Calling, setting
    <2>2. \A s, u \in Views : Holds(s) /\ (Pass(Env, s, Head(plan), u) \/ plan = <<>>) => Holds(s)'
      <3> SUFFICES ASSUME NEW s \in Views, NEW u \in Views, Holds(s), Pass(Env, s, Head(plan), u)
                   PROVE  Holds(s)'
        BY <2>1
      <3>1. s.server
        BY <2>1 DEF Pass
      <3>2. QED
        BY <1>0, <1>11, <3>1, GoOnHolds
    <2>3. QED
      BY <2>1, <2>2, SearchStays
  <1>12. CASE EndSearch
    <2>1. /\ plan' = Tail(plan) /\ UNCHANGED <<hasGpu, compressHint, caller>>
          /\ plan # <<>> /\ Head(plan).op = "capacity"
      BY <1>12 DEF EndSearch, TryMemory, Calling, Return, setting
    <2>2. QED
      BY <1>0, <1>12, <2>1, CallsFit, EndSearchHolds
  <1>13. CASE UNCHANGED allVars
    <2>1. /\ hasGpu' = hasGpu /\ mode' = mode /\ compressHint' = compressHint
          /\ heap' = heap /\ server' = server /\ client' = client /\ secrets' = secrets
          /\ queries' = queries /\ answer' = answer
          /\ plan' = plan /\ caller' = caller /\ searcher' = searcher
      BY <1>13 DEF allVars, setting, memory, callers
    <2>2. ASSUME NEW s, Holds(s) PROVE Holds(s)'
      BY <2>1, <2>2 DEF Holds, Settings, Memory, Numbered, Secrets, Keys, Answers, Searching,
         HeldBy, Sees, Equipped, HeldIsLive, LiveIsHeld, Permitted, ServerObjects, AskedAs, Sound
    <2>3. QED
      BY <2>1, <2>2, SearchStays
  <1>14. CASE Step("spareContext", SpareContext)
    <2>1. SpareContext
      BY <1>14 DEF Step
    <2>2. QED
      BY <1>14, <2>1, SettingKept, CallStays, SpareContextHolds
  <1>15. QED
    BY <1>1, <1>2, <1>3, <1>4, <1>5, <1>6, <1>7, <1>8, <1>9, <1>10, <1>11, <1>12, <1>13, <1>14, Zenon
       DEF CallersNext

LEMMA CallersStep == IInv /\ [CallersNext]_allVars => IInv'
  BY SearchGoesOn, StaysOnTheWay DEF IInv

\* The inductive invariant holds whoever calls.
LEMMA AlwaysOnTheWay == CallersSpec => []IInv
  BY CallersStart, CallersStep, PTL DEF CallersSpec

\* Safety of memory, for callers of every size of database and number of
\* queries: nothing is used or freed after it was freed but keys by the one that
\* recovers again, and no query is written past the buffer of a GPU but by those
\* that set no batch.
THEOREM NothingMisused == CallersSpec => []MemorySafe
  <1>1. IInv => MemorySafe
    BY DEF IInv, OnTheWay, Holds, Memory, Sound, Answers, MemorySafe
  <1>2. QED
    BY <1>1, AlwaysOnTheWay, PTL

\* Queries asked of a GPU are all multiplied by the whole database, for sizes of
\* database that no ciphertext divides too, and whatever the search for the
\* capacity set before, but for callers that set no batch for several queries.
THEOREM AllAnswered == CallersSpec => []AnswersWhole
  <1>1. IInv => AnswersWhole
    BY DEF IInv, OnTheWay, Holds, Answers, AnswersWhole
  <1>2. QED
    BY <1>1, AlwaysOnTheWay, PTL

\* A caller that is through has leaked nothing but the objects that Reclaimed
\* names, of which keys only if it has a GPU or drops its secrets.
THEOREM NothingLeaked == CallersSpec => []Reclaimed
  <1>1. ASSUME IInv, plan = <<>>, NEW object \in heap.live
        PROVE  Permitted(object)
    <2>1. PICK s \in Views, w \in Views : Holds(s) /\ Leads(Env, s, plan, w) /\ Through(Env, w)
      BY <1>1 DEF IInv, OnTheWay
    <2>2. s = w
      BY <1>1, <2>1 DEF Leads
    <2>3. /\ s.server => caller = "service"
          /\ ~s.client
          /\ s.keys => compressHint \/ caller \in DropsSecrets
      BY <2>1, <2>2 DEF Through, Env
    <2>4. /\ Settings /\ Memory /\ Secrets /\ Searching /\ LiveIsHeld(s)
      BY <2>1 DEF Holds, Sees
    <2>5. HeldBy(searcher) = {}
      BY <1>1, <2>4, NobodyHolds DEF Searching
    <2>6. s.keys => \A o \in Keys : Permitted(o)
      <3>1. CASE compressHint
        BY <2>4, <3>1, NoKeys DEF Settings
      <3>2. CASE caller \in DropsSecrets
        BY <2>4, <3>2, HeldApart DEF Permitted
      <3>3. QED
        BY <2>3, <3>1, <3>2
    <2>7. \A o \in ServerObjects : o.kind \in {"serverCtx", "gpu"}
      BY <2>4, HeldApart
    <2>8. QED
      BY <1>1, <2>3, <2>4, <2>5, <2>6, <2>7 DEF LiveIsHeld, Permitted
  <1>2. IInv => Reclaimed
    BY <1>1 DEF Reclaimed, Permitted
  <1>3. QED
    BY <1>2, AlwaysOnTheWay, PTL

\* The search that a session makes is as exact as one alone, and no smaller
\* size than one is tried.
THEOREM SearchOfCallers == CallersSpec => [](CapacityExact /\ SizesPositive)
  <1>1. IInv => CapacityExact /\ SizesPositive
    BY DEF IInv, SearchInv, TypeOK, ByHundreds, ByTens, ByOnes, Behind, NoGuess, Answered,
       CapacityExact, SizesPositive
  <1>2. QED
    BY <1>1, AlwaysOnTheWay, PTL

=============================================================================
