--------------------------- MODULE LheScheme_proofs ---------------------------
(***************************************************************************)
(* Lemmas on loops that append what they keep, and what Recover returns of *)
(* a batch with dummies behind the real queries, for batches of any size.  *)
(***************************************************************************)
EXTENDS LheScheme, Functions, SequenceTheorems, WellFoundedInduction, TLAPS

-----------------------------------------------------------------------------
(* Induction, over a set of numbers *)

\* Of a set of natural numbers one is the least.
LEMMA LeastNumber ==
    ASSUME NEW T \in SUBSET Nat, NEW t \in T
    PROVE  \E n \in T : \A m \in T : n <= m
  <1>1. PICK n \in T : \A m \in T : ~(<<m, n>> \in OpToRel(<, Nat))
    BY NatLessThanWellFounded, WFMin
  <1>2. OpToRel(<, Nat) = {mn \in Nat \X Nat : mn[1] < mn[2]}
    BY Zenon DEF OpToRel
  <1>3. ASSUME NEW m \in T PROVE n <= m
    <2>1. ~(<<m, n>> \in {mn \in Nat \X Nat : mn[1] < mn[2]})
      BY <1>1, <1>2, Zenon
    <2>2. QED
      BY <2>1
  <1>4. QED
    BY <1>3

\* A set of numbers up to k with 0 and every successor has all of them.
LEMMA UpTo ==
    ASSUME NEW k \in Nat, NEW T, 0 \in T, \A n \in 0..k - 1 : n \in T => n + 1 \in T
    PROVE  0..k \subseteq T
  <1> SUFFICES ASSUME NEW t \in (0..k) \ T PROVE FALSE
    OBVIOUS
  <1> DEFINE Missing == {n \in 0..k : n \notin T}
  <1>1. PICK n \in Missing : \A m \in Missing : n <= m
    <2>1. Missing \in SUBSET Nat /\ t \in Missing
      OBVIOUS
    <2> HIDE DEF Missing
    <2>2. QED
      BY <2>1, LeastNumber
  <1>2. n - 1 \in 0..k - 1 /\ n - 1 \in T
    BY <1>1
  <1>3. QED
    BY <1>1, <1>2

\* Of a set of numbers up to m one is the largest.
LEMMA GreatestNumber ==
    ASSUME NEW m \in Nat, NEW J \in SUBSET (1..m), NEW i \in J
    PROVE  \E j \in J : \A k \in J : k <= j
  <1> DEFINE T == {m - j : j \in J}
  <1>1. T \in SUBSET Nat /\ m - i \in T
    OBVIOUS
  <1> HIDE DEF T
  <1>2. PICK n \in T : \A t \in T : n <= t
    BY <1>1, LeastNumber
  <1>3. PICK j \in J : n = m - j
    BY <1>2 DEF T
  <1>4. \A k \in J : m - k \in T
    BY DEF T
  <1>5. \A k \in J : k <= j
    BY <1>2, <1>3, <1>4
  <1>6. QED
    BY <1>5

-----------------------------------------------------------------------------
(* Arithmetic: row k \div c and column k % c are the place of entry k *)

LEMMA PlaceOfEntry ==
    ASSUME NEW c \in Nat, c > 0, NEW k \in Nat
    PROVE  /\ k \div c \in Nat /\ k % c \in 0..c - 1
           /\ (k \div c) * c + (k % c) = k
  <1>1. k % c \in 0..c - 1 /\ k \div c \in Int
    OBVIOUS
  <1>2. k = c * (k \div c) + (k % c)
    OBVIOUS
  <1>3. k \div c >= 0
    OBVIOUS
  <1>4. QED
    BY <1>1, <1>2, <1>3

\* An earlier entry is in no later row.
LEMMA RowsGrow ==
    ASSUME NEW c \in Nat, c > 0, NEW k \in Nat, NEW n \in Nat, k <= n
    PROVE  k \div c <= n \div c
  <1> DEFINE p == k \div c
             q == n \div c
  <1>1. p \in Nat /\ q \in Nat /\ p * c <= k /\ n < q * c + c
    <2>1. /\ p \in Nat /\ k % c \in 0..c - 1 /\ p * c + (k % c) = k
          /\ q \in Nat /\ n % c \in 0..c - 1 /\ q * c + (n % c) = n
      BY PlaceOfEntry
    <2> HIDE DEF p, q
    <2>2. p * c \in Nat /\ q * c \in Nat
      BY <2>1
    <2>3. QED
      BY <2>1, <2>2
  <1> HIDE DEF p, q
  <1>2. SUFFICES ASSUME p > q PROVE FALSE
    BY <1>1 DEF p, q
  <1>3. p - (q + 1) \in Nat
    BY <1>1, <1>2
  <1>4. p * c = q * c + c + (p - (q + 1)) * c
    BY <1>1
  <1>5. (p - (q + 1)) * c \in Nat
    BY <1>3
  <1>6. q * c \in Nat /\ p * c \in Nat
    BY <1>1
  <1>7. QED
    BY <1>1, <1>4, <1>5, <1>6

-----------------------------------------------------------------------------
(* Loops that append what they keep *)

\* What has been kept after i rounds, as a function of what was before.
After(s, keep, f, i) ==
    IF i = 0 THEN <<>> ELSE IF keep[i] THEN Append(f[i - 1], s[i]) ELSE f[i - 1]

\* The loop does have a result after each round ...
LEMMA LoopExists ==
    ASSUME NEW s, NEW keep, NEW k \in Nat
    PROVE  \E f : f = [i \in 0..k |-> After(s, keep, f, i)]
  <1> DEFINE Good(n) == \E f : f = [i \in 0..n |-> After(s, keep, f, i)]
             T == {n \in 0..k : Good(n)}
  <1>1. Good(0)
    <2> DEFINE f == [i \in 0..0 |-> <<>>]
    <2>1. f = [i \in 0..0 |-> After(s, keep, f, i)]
      BY DEF After
    <2>2. QED
      BY <2>1
  <1>2. ASSUME NEW n \in 0..k - 1, Good(n) PROVE Good(n + 1)
    <2>1. PICK f : f = [i \in 0..n |-> After(s, keep, f, i)]
      BY <1>2
    <2> DEFINE g == [i \in 0..n + 1 |-> IF i <= n THEN f[i] ELSE After(s, keep, f, i)]
    <2>2. ASSUME NEW i \in 0..n + 1 PROVE g[i] = After(s, keep, g, i)
      <3>1. CASE i = 0
        BY <2>1, <3>1 DEF After
      <3>2. CASE i # 0
        <4>1. i - 1 \in 0..n /\ g[i - 1] = f[i - 1]
          BY <3>2
        <4>2. After(s, keep, g, i) = After(s, keep, f, i)
          BY <4>1 DEF After
        <4>3. i <= n => f[i] = After(s, keep, f, i)
          BY <2>1
        <4>4. QED
          BY <4>2, <4>3
      <3>3. QED
        BY <3>1, <3>2
    <2>3. g = [i \in 0..n + 1 |-> After(s, keep, g, i)]
      BY <2>2
    <2>4. QED
      BY <2>3
  <1> HIDE DEF Good
  <1>3. 0 \in T /\ \A n \in 0..k - 1 : n \in T => n + 1 \in T
    BY <1>1, <1>2
  <1>4. 0..k \subseteq T
    BY <1>3, UpTo
  <1>5. Good(k)
    BY <1>4
  <1>6. QED
    BY <1>5 DEF Good

\* ... and Filtered is the last of them.
LEMMA FilteredLoop ==
    ASSUME NEW S, NEW s \in Seq(S), NEW keep
    PROVE  \E f : /\ Filtered(s, keep) = f[Len(s)]
                  /\ \A i \in 0..Len(s) : f[i] = After(s, keep, f, i)
  <1> DEFINE F == CHOOSE f : f = [i \in 0..Len(s) |-> After(s, keep, f, i)]
  <1>1. F = [i \in 0..Len(s) |-> After(s, keep, F, i)]
    BY LoopExists
  <1>2. Filtered(s, keep) = F[Len(s)]
    BY DEF Filtered, After
  <1> HIDE DEF F
  <1>3. QED
    BY <1>1, <1>2

\* The range of a sequence, and what it is a sequence of.
LEMMA SeqRange ==
    ASSUME NEW S, NEW s \in Seq(S)
    PROVE  /\ Range(s) = {s[i] : i \in 1..Len(s)}
           /\ \A i \in 1..Len(s) : s[i] \in Range(s) /\ s[i] \in S
           /\ \A T : Range(s) \subseteq T => s \in Seq(T)
  <1>1. DOMAIN s = 1..Len(s) /\ Len(s) \in Nat
    OBVIOUS
  <1>2. Range(s) = {s[i] : i \in 1..Len(s)}
    BY <1>1 DEF Range
  <1>3. \A i \in 1..Len(s) : s[i] \in Range(s) /\ s[i] \in S
    BY <1>2
  <1>4. ASSUME NEW T, Range(s) \subseteq T PROVE s \in Seq(T)
    <2>1. s = [i \in 1..Len(s) |-> s[i]] /\ \A i \in 1..Len(s) : s[i] \in T
      BY <1>3, <1>4
    <2>2. s \in [1..Len(s) -> T]
      BY <2>1, Zenon
    <2>3. QED
      BY <1>1, <2>2
  <1>5. QED
    BY <1>2, <1>3, <1>4

\* Appending to a sequence adds an element to its range.
LEMMA AppendRange ==
    ASSUME NEW S, NEW t \in Seq(S), NEW x \in S
    PROVE  Append(t, x) \in Seq(S) /\ Range(Append(t, x)) = Range(t) \cup {x}
  <1> DEFINE u == Append(t, x)
  <1>1. /\ u \in Seq(S) /\ DOMAIN t = 1..Len(t) /\ DOMAIN u = 1..Len(t) + 1
        /\ \A j \in 1..Len(t) : u[j] = t[j]
        /\ u[Len(t) + 1] = x
    OBVIOUS
  <1> HIDE DEF u
  <1>2. \A j \in DOMAIN u : j \in DOMAIN t \/ j = Len(t) + 1
    BY <1>1
  <1>3. Len(t) + 1 \in DOMAIN u /\ \A j \in DOMAIN t : j \in DOMAIN u /\ u[j] = t[j]
    BY <1>1
  <1>4. Range(u) \subseteq Range(t) \cup {x}
    BY <1>1, <1>2, <1>3, Zenon DEF Range
  <1>5. Range(t) \cup {x} \subseteq Range(u)
    BY <1>1, <1>3, Zenon DEF Range
  <1>6. QED
    BY <1>1, <1>4, <1>5 DEF u

\* What a loop keeps of the first n elements.
Picked(s, keep, n) == {s[i] : i \in {j \in 1..n : keep[j]}}

\* What a loop keeps is a sequence no longer than what it goes through, of
\* exactly the elements to be kept.
LEMMA FilteredKeeps ==
    ASSUME NEW S, NEW s \in Seq(S), NEW keep
    PROVE  /\ Filtered(s, keep) \in Seq(S)
           /\ Len(Filtered(s, keep)) <= Len(s)
           /\ Range(Filtered(s, keep)) = Picked(s, keep, Len(s))
  <1>1. PICK f : /\ Filtered(s, keep) = f[Len(s)]
                 /\ \A i \in 0..Len(s) : f[i] = After(s, keep, f, i)
    BY FilteredLoop
  <1> DEFINE Kept(n) == {s[i] : i \in {j \in 1..n : keep[j]}}
             Good(n) == f[n] \in Seq(S) /\ Len(f[n]) <= n /\ Range(f[n]) = Kept(n)
             T == {n \in 0..Len(s) : Good(n)}
  <1>2. Good(0)
    <2>1. f[0] = <<>>
      BY <1>1 DEF After
    <2>2. Kept(0) = {} /\ Range(<<>>) = {}
      BY DEF Range
    <2>3. QED
      BY <2>1, <2>2
  <1>3. ASSUME NEW n \in 0..Len(s) - 1, Good(n) PROVE Good(n + 1)
    <2>1. f[n + 1] = IF keep[n + 1] THEN Append(f[n], s[n + 1]) ELSE f[n]
      BY <1>1 DEF After
    <2>2. s[n + 1] \in S
      OBVIOUS
    <2>3. CASE keep[n + 1]
      <3>1. f[n + 1] = Append(f[n], s[n + 1])
        BY <2>1, <2>3
      <3>2. f[n + 1] \in Seq(S) /\ Range(f[n + 1]) = Range(f[n]) \cup {s[n + 1]}
        BY <3>1, <2>2, <1>3, AppendRange
      <3>3. Len(f[n + 1]) <= n + 1
        BY <3>1, <2>2, <1>3
      <3>4. Kept(n + 1) = Kept(n) \cup {s[n + 1]}
        BY <2>3
      <3>5. QED
        BY <1>3, <3>2, <3>3, <3>4
    <2>4. CASE ~keep[n + 1]
      <3>1. f[n + 1] = f[n]
        BY <2>1, <2>4
      <3>2. Kept(n + 1) = Kept(n)
        BY <2>4
      <3>3. Len(f[n]) \in Nat
        BY <1>3
      <3> HIDE DEF Kept
      <3>4. QED
        BY <1>3, <3>1, <3>2, <3>3
    <2>5. QED
      BY <2>3, <2>4
  <1> HIDE DEF Good
  <1>4. 0 \in T /\ \A n \in 0..Len(s) - 1 : n \in T => n + 1 \in T
    BY <1>2, <1>3
  <1>5. Len(s) \in Nat
    OBVIOUS
  <1>6. 0..Len(s) \subseteq T
    BY <1>4, <1>5, UpTo
  <1>7. Good(Len(s))
    BY <1>5, <1>6
  <1>8. QED
    BY <1>1, <1>7 DEF Good, Picked

\* A loop that keeps the first k elements returns them in order.
LEMMA FilteredPrefix ==
    ASSUME NEW S, NEW s \in Seq(S), NEW k \in 0..Len(s),
           NEW keep, \A i \in 1..Len(s) : keep[i] <=> i <= k
    PROVE  Filtered(s, keep) = [j \in 1..k |-> s[j]]
  <1>1. PICK f : /\ Filtered(s, keep) = f[Len(s)]
                 /\ \A i \in 0..Len(s) : f[i] = After(s, keep, f, i)
    BY FilteredLoop
  <1> DEFINE First(n) == [j \in 1..(IF n < k THEN n ELSE k) |-> s[j]]
             Good(n) == f[n] = First(n)
             T == {n \in 0..Len(s) : Good(n)}
  <1>2. Good(0)
    BY <1>1 DEF After
  <1>3. ASSUME NEW n \in 0..Len(s) - 1, Good(n) PROVE Good(n + 1)
    <2>1. f[n + 1] = IF keep[n + 1] THEN Append(f[n], s[n + 1]) ELSE f[n]
      BY <1>1 DEF After
    <2>2. n + 1 \in 1..Len(s)
      OBVIOUS
    <2>3. CASE n < k
      <3>1. keep[n + 1]
        BY <2>2, <2>3
      <3>2. f[n + 1] = Append(First(n), s[n + 1])
        BY <2>1, <3>1, <1>3
      <3>3. First(n) \in Seq(S) /\ Len(First(n)) = n /\ s[n + 1] \in S
        BY <2>3
      <3>4. Append(First(n), s[n + 1]) = First(n + 1)
        BY <2>3, <3>3
      <3>5. QED
        BY <3>2, <3>4
    <2>4. CASE n >= k
      <3>1. ~keep[n + 1]
        BY <2>2, <2>4
      <3>2. f[n + 1] = f[n]
        BY <2>1, <3>1
      <3>3. First(n + 1) = First(n)
        BY <2>4
      <3>4. QED
        BY <1>3, <3>2, <3>3
    <2>5. QED
      BY <2>3, <2>4
  <1> HIDE DEF Good
  <1>4. 0 \in T /\ \A n \in 0..Len(s) - 1 : n \in T => n + 1 \in T
    BY <1>2, <1>3
  <1>5. Len(s) \in Nat
    OBVIOUS
  <1>6. 0..Len(s) \subseteq T
    BY <1>4, <1>5, UpTo
  <1>7. Good(Len(s))
    BY <1>5, <1>6
  <1>8. First(Len(s)) = [j \in 1..k |-> s[j]]
    OBVIOUS
  <1>9. QED
    BY <1>1, <1>7, <1>8 DEF Good

-----------------------------------------------------------------------------
(* Query, Answer and Recover with dummies behind the real queries *)

\* A function on 1..n is a sequence.
LEMMA FunctionIsSeq ==
    ASSUME NEW S, NEW n \in Nat, NEW f \in [1..n -> S]
    PROVE  f \in Seq(S) /\ Len(f) = n /\ DOMAIN f = 1..n
  OBVIOUS

\* Dummies follow the real queries.
LEMMA BatchOfQueries ==
    ASSUME NEW columns \in Seq(Nat), NEW dummies \in Nat
    PROVE  /\ QueriesFor(columns, dummies) \in Seq(Int)
           /\ Len(QueriesFor(columns, dummies)) = Len(columns) + dummies
           /\ \A j \in 1..Len(columns) + dummies :
                QueriesFor(columns, dummies)[j] = IF j <= Len(columns) THEN columns[j] ELSE Dummy
  <1> DEFINE fill == [j \in 1..dummies |-> Dummy]
  <1>1. columns \in Seq(Int) /\ Len(columns) \in Nat
    BY SeqMonotonic, LenProperties
  <1>2. fill \in Seq(Int) /\ Len(fill) = dummies /\ \A j \in 1..dummies : fill[j] = Dummy
    <2>1. fill \in [1..dummies -> Int]
      BY DEF Dummy
    <2>2. QED
      BY <2>1, FunctionIsSeq
  <1>3. QueriesFor(columns, dummies) = columns \o fill
    BY DEF QueriesFor
  <1> HIDE DEF fill
  <1>4. /\ columns \o fill \in Seq(Int) /\ Len(columns \o fill) = Len(columns) + dummies
        /\ \A j \in 1..Len(columns) + dummies :
              (columns \o fill)[j] = IF j <= Len(columns) THEN columns[j] ELSE fill[j - Len(columns)]
    BY <1>1, <1>2, ConcatProperties
  <1>5. \A j \in 1..Len(columns) + dummies :
           ~(j <= Len(columns)) => j - Len(columns) \in 1..dummies
    BY <1>1
  <1>6. QED
    BY <1>2, <1>3, <1>4, <1>5

\* The real queries' secrets have a key, the dummies' none.
LEMMA BatchOfSecrets ==
    ASSUME NEW columns \in Seq(Nat), NEW dummies \in Nat,
           NEW j \in 1..Len(columns) + dummies
    PROVE  SecretsFor(columns, dummies)[j] <=> j <= Len(columns)
  <1> DEFINE left == [i \in DOMAIN columns |-> TRUE]
             right == [i \in 1..dummies |-> FALSE]
  <1>1. /\ left \in Seq(BOOLEAN) /\ Len(left) = Len(columns) /\ Len(columns) \in Nat
        /\ right \in Seq(BOOLEAN) /\ Len(right) = dummies
    <2>1. Len(columns) \in Nat /\ DOMAIN columns = 1..Len(columns)
      OBVIOUS
    <2>2. left \in [1..Len(columns) -> BOOLEAN] /\ right \in [1..dummies -> BOOLEAN]
      BY <2>1
    <2>3. QED
      BY <2>1, <2>2, FunctionIsSeq
  <1>2. (left \o right)[j] = IF j <= Len(columns) THEN left[j] ELSE right[j - Len(columns)]
    <2> HIDE DEF left, right
    <2>1. \A i \in 1..Len(left) + Len(right) :
            (left \o right)[i] = IF i <= Len(left) THEN left[i] ELSE right[i - Len(left)]
      BY <1>1, ConcatProperties
    <2>2. j \in 1..Len(left) + Len(right)
      BY <1>1
    <2>3. QED
      BY <1>1, <2>1, <2>2
  <1>3. CASE j <= Len(columns)
    <2>1. left[j] = TRUE
      BY <1>3
    <2>2. QED
      BY <1>2, <1>3, <2>1, Zenon DEF SecretsFor
  <1>4. CASE ~(j <= Len(columns))
    <2>1. j - Len(columns) \in 1..dummies
      BY <1>1, <1>4
    <2>2. right[j - Len(columns)] = FALSE
      BY <2>1
    <2>3. QED
      BY <1>2, <1>4, <2>2, Zenon DEF SecretsFor
  <1>5. QED
    BY <1>3, <1>4

\* How many columns Recover gets out of a batch with so many real queries: on
\* a GPU there is one answer, and no more than one is looked at.
Recoverable(gpu, real) == IF gpu /\ real > 1 THEN 1 ELSE real

\* Recover returns the columns asked for, in the order they were, and nothing
\* of the dummies.
LEMMA RecoversColumns ==
    ASSUME NEW columns \in Seq(Nat), NEW dummies \in Nat, NEW value, NEW gpu \in BOOLEAN,
           gpu => Len(columns) + dummies > 0
    PROVE  Recovered(SecretsFor(columns, dummies),
                     AnswersTo(QueriesFor(columns, dummies), gpu, value), gpu)
             = [j \in 1..Recoverable(gpu, Len(columns)) |-> value[columns[j]]]
  <1> DEFINE n == Len(columns) + dummies
             queries == QueriesFor(columns, dummies)
             secrets == SecretsFor(columns, dummies)
             products == [j \in DOMAIN queries |->
                            IF queries[j] = Dummy THEN Noise ELSE value[queries[j]]]
             looked == IF gpu THEN [i \in 1..1 |-> products[i]] ELSE products
             k == Recoverable(gpu, Len(columns))
  <1> HIDE DEF products, looked, k
  <1>1. \A j \in 1..n : secrets[j] <=> j <= Len(columns)
    BY BatchOfSecrets
  <1>2. /\ queries \in Seq(Int) /\ Len(queries) = n
        /\ \A j \in 1..n : queries[j] = IF j <= Len(columns) THEN columns[j] ELSE Dummy
    BY BatchOfQueries
  <1> HIDE DEF queries, secrets
  <1>3. Len(columns) \in Nat /\ n \in Nat /\ Len(columns) <= n
    OBVIOUS
  <1>4. DOMAIN queries = 1..n
    <2> HIDE DEF n
    <2>1. QED
      BY <1>2
  <1> USE DEF products, looked, k
  <1>5. DOMAIN products = 1..n /\ \A j \in 1..Len(columns) : products[j] = value[columns[j]]
    <2>1. \A j \in 1..Len(columns) : columns[j] \in Nat
      OBVIOUS
    <2>2. \A j \in 1..Len(columns) : j \in 1..n /\ queries[j] = columns[j] /\ queries[j] # Dummy
      BY <1>2, <1>3, <2>1 DEF Dummy
    <2>3. QED
      BY <1>4, <2>2
  <1>6. Recovered(secrets, AnswersTo(queries, gpu, value), gpu) = Filtered(looked, secrets)
    <2>1. CASE gpu
      BY <2>1 DEF Recovered, AnswersTo
    <2>2. CASE ~gpu
      BY <2>2 DEF Recovered, AnswersTo
    <2>3. QED
      BY <2>1, <2>2
  <1> HIDE DEF products
  <1> DEFINE S == {looked[j] : j \in 1..n}
  <1>7. looked \in Seq(S) /\ Len(looked) = IF gpu THEN 1 ELSE n
    <2>1. CASE gpu
      <3>1. looked = [i \in 1..1 |-> products[i]] /\ looked[1] \in S
        BY <2>1
      <3>2. QED
        BY <2>1, <3>1
    <2>2. CASE ~gpu
      <3>1. looked = products /\ DOMAIN looked = 1..n /\ n \in Nat
        BY <2>2, <1>5, <1>3
      <3>2. looked = [j \in 1..n |-> looked[j]]
        BY <1>5, <2>2 DEF products
      <3>3. \A j \in 1..n : looked[j] \in S
        OBVIOUS
      <3> HIDE DEF looked, S, n
      <3>4. QED
        BY <3>1, <3>2, <3>3, <2>2
    <2>3. QED
      BY <2>1, <2>2
  <1>8. k \in 0..Len(looked) /\ k <= Len(columns) /\ \A j \in 1..k : looked[j] = value[columns[j]]
    BY <1>5, <1>3, <1>7 DEF Recoverable
  <1>9. \A j \in 1..Len(looked) : secrets[j] <=> j <= k
    BY <1>1, <1>3, <1>7 DEF Recoverable
  <1> HIDE DEF looked, k, S, n
  <1>10. Filtered(looked, secrets) = [j \in 1..k |-> looked[j]]
    <2>1. looked \in Seq(S) /\ k \in 0..Len(looked)
      BY <1>7, <1>8
    <2>2. \A keep : (\A i \in 1..Len(looked) : keep[i] <=> i <= k)
             => Filtered(looked, keep) = [j \in 1..k |-> looked[j]]
      BY <2>1, FilteredPrefix
    <2>3. QED
      BY <2>2, <1>9, Zenon
  <1>11. QED
    BY <1>6, <1>8, <1>10 DEF queries, secrets, k

\* The local scheme's Recover does the same.
LEMMA LocalRecoversColumns ==
    ASSUME NEW columns \in Seq(Nat), NEW dummies \in Nat, NEW value
    PROVE  LocalRecovered(LocalSecretsFor(columns, dummies), value)
             = [j \in 1..Len(columns) |-> value[columns[j]]]
  <1> DEFINE secrets == LocalSecretsFor(columns, dummies)
             keep == [j \in DOMAIN secrets |-> secrets[j] # Dummy]
  <1>1. secrets = QueriesFor(columns, dummies)
    BY DEF LocalSecretsFor, QueriesFor
  <1> HIDE DEF keep
  <1>2. /\ secrets \in Seq(Int) /\ Len(secrets) = Len(columns) + dummies
        /\ \A j \in 1..Len(columns) + dummies :
             secrets[j] = IF j <= Len(columns) THEN columns[j] ELSE Dummy
    BY <1>1, BatchOfQueries
  <1> HIDE DEF secrets
  <1> USE DEF keep
  <1>3. \A j \in 1..Len(secrets) : keep[j] <=> j <= Len(columns)
    <2>1. ASSUME NEW j \in 1..Len(secrets) PROVE keep[j] <=> j <= Len(columns)
      <3>1. keep[j] = (secrets[j] # Dummy)
        BY <1>2
      <3> HIDE DEF keep
      <3>2. CASE j <= Len(columns)
        <4>1. secrets[j] = columns[j] /\ columns[j] \in Nat
          BY <1>2, <3>2
        <4>2. secrets[j] # Dummy
          BY <4>1 DEF Dummy
        <4>3. QED
          BY <3>1, <3>2, <4>2, Zenon
      <3>3. CASE ~(j <= Len(columns))
        BY <1>2, <3>1, <3>3
      <3>4. QED
        BY <3>2, <3>3
    <2>2. QED
      BY <2>1
  <1>4. Len(columns) \in 0..Len(secrets)
    BY <1>2
  <1> HIDE DEF keep
  <1>5. Filtered(secrets, keep) = [j \in 1..Len(columns) |-> secrets[j]]
    BY <1>2, <1>3, <1>4, FilteredPrefix
  <1>6. \A j \in 1..Len(columns) : secrets[j] = columns[j]
    BY <1>2
  <1>7. QED
    BY <1>5, <1>6 DEF LocalRecovered, secrets, keep

===============================================================================
