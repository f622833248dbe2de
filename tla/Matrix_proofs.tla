---------------------------- MODULE Matrix_proofs ----------------------------
(***************************************************************************)
(* Proofs about the matrices databases are in.  PackingDims keeps its      *)
(* promises for every table of moduli, every number and size of buckets    *)
(* and every budget.  In a matrix of any shape NewDB has room for every    *)
(* entry, and no entry disturbs another.                                   *)
(***************************************************************************)
EXTENDS Packing, Lhe, FiniteSetTheorems, WellFoundedInduction, TLAPS

-----------------------------------------------------------------------------
(* Arithmetic.                                                             *)

\* Division with remainder.
LEMMA DivModFacts ==
    ASSUME NEW a \in Nat, NEW b \in Nat, b > 0
    PROVE  /\ a \div b \in Nat /\ a % b \in 0..b - 1
           /\ a = b * (a \div b) + (a % b)
  <1>1. a % b \in 0..b - 1 /\ a \div b \in Int
    OBVIOUS
  <1>2. a = b * (a \div b) + (a % b)
    OBVIOUS
  <1>3. a \div b >= 0
    OBVIOUS
  <1>4. QED
    BY <1>1, <1>2, <1>3

\* A product of naturals grows with each factor.
LEMMA TimesMonotone ==
    ASSUME NEW b \in Nat, NEW c \in Nat, NEW d \in Nat, c < d
    PROVE  b * d >= b * c + b
  <1>1. d - (c + 1) \in Nat
    OBVIOUS
  <1>2. b * d = b * (c + 1) + b * (d - (c + 1))
    BY <1>1
  <1>3. b * (d - (c + 1)) >= 0
    BY <1>1
  <1>4. QED
    BY <1>2, <1>3

\* A multiple leaves no remainder.
LEMMA MultipleMod ==
    ASSUME NEW b \in Positive, NEW c \in Nat
    PROVE  (b * c) % b = 0
  <1> DEFINE d == (b * c) \div b
             r == (b * c) % b
  <1>1. b \in Nat /\ b > 0 /\ b * c \in Nat
    BY DEF Positive
  <1>2. d \in Nat /\ r \in 0..b - 1 /\ b * c = b * d + r
    BY <1>1, DivModFacts
  <1> HIDE DEF d, r
  <1>3. ASSUME c < d PROVE FALSE
    BY <1>1, <1>2, <1>3, TimesMonotone
  <1>4. ASSUME d < c PROVE FALSE
    BY <1>1, <1>2, <1>4, TimesMonotone
  <1>5. c = d
    BY <1>2, <1>3, <1>4
  <1>6. r = 0
    BY <1>1, <1>2, <1>5
  <1>7. QED
    BY <1>6 DEF r

\* Rounding up covers what is divided ...
LEMMA CeilDivCovers ==
    ASSUME NEW a \in Nat, NEW b \in Positive
    PROVE  CeilDiv(a, b) \in Nat /\ b * CeilDiv(a, b) >= a
  <1> DEFINE x == a + b - 1
  <1>1. b \in Nat /\ b > 0 /\ x \in Nat
    BY DEF Positive
  <1>2. x \div b \in Nat /\ x = b * (x \div b) + (x % b) /\ x % b \in 0..b - 1
    BY <1>1, DivModFacts
  <1>3. QED
    BY <1>1, <1>2 DEF CeilDiv

\* ... and no more than it must.
LEMMA CeilDivLeast ==
    ASSUME NEW a \in Nat, NEW b \in Positive, NEW c \in Nat, a <= b * c
    PROVE  CeilDiv(a, b) <= c
  <1> DEFINE x == a + b - 1
             q == x \div b
  <1>1. b \in Nat /\ b > 0 /\ x \in Nat
    BY DEF Positive
  <1>2. q \in Nat /\ b * q <= x
    BY <1>1, DivModFacts
  <1>4. ASSUME q >= c + 1 PROVE FALSE
    <2>1. b * q >= b * c + b
      BY <1>1, <1>2, <1>4, TimesMonotone
    <2>2. QED
      BY <1>1, <1>2, <2>1
  <1>5. QED
    BY <1>2, <1>4 DEF CeilDiv

\* What rounding up to a multiple yields, and that it is the least multiple.
LEMMA RoundUpCovers ==
    ASSUME NEW a \in Nat, NEW b \in Positive
    PROVE  RoundUp(a, b) \in Nat /\ RoundUp(a, b) >= a /\ RoundUp(a, b) % b = 0
  <1>1. CeilDiv(a, b) \in Nat /\ b * CeilDiv(a, b) >= a
    BY CeilDivCovers
  <1>2. b \in Nat /\ b > 0
    BY DEF Positive
  <1>3. (b * CeilDiv(a, b)) % b = 0
    BY <1>1, MultipleMod
  <1>4. QED
    BY <1>1, <1>2, <1>3 DEF RoundUp

\* Every natural number has a square root, rounded down.
LEMMA SquareRootExists ==
    ASSUME NEW x \in Nat
    PROVE  \E r \in 0..x : r * r <= x /\ x < (r + 1) * (r + 1)
  <1> DEFINE Above == {r \in Nat : x < (r + 1) * (r + 1)}
  <1>1. x \in Above
    <2>1. (x + 1) * (x + 1) = x * x + x + x + 1 /\ x * x \in Nat
      OBVIOUS
    <2>2. QED
      BY <2>1
  <1>2. PICK r \in Above : \A s \in Above : s >= r
    <2>1. PICK r \in Above : \A s \in Above : ~(<<s, r>> \in OpToRel(<, Nat))
      BY <1>1, NatLessThanWellFounded, WFMin
    <2>2. OpToRel(<, Nat) = {ss \in Nat \X Nat : ss[1] < ss[2]}
      BY Zenon DEF OpToRel
    <2>3. ASSUME NEW s \in Above PROVE ~(s < r)
      <3>1. ~(<<s, r>> \in {ss \in Nat \X Nat : ss[1] < ss[2]})
        BY <2>1, <2>2, Zenon
      <3>2. QED
        BY <3>1
    <2>4. QED
      BY <2>3
  <1>4. r * r <= x
    <2>1. CASE r = 0
      BY <2>1
    <2>2. CASE r > 0
      <3>1. r - 1 \in Nat /\ r - 1 \notin Above
        BY <2>2, <1>2
      <3>2. QED
        BY <3>1
    <2>3. QED
      BY <2>1, <2>2
  <1>5. r <= x
    BY <1>1, <1>2
  <1>6. QED
    BY <1>4, <1>5

\* The square root of a positive number is positive.
LEMMA SquareRootType ==
    ASSUME NEW x \in Nat
    PROVE  SquareRoot(x) \in Nat /\ (x > 0 => SquareRoot(x) > 0)
  <1>1. /\ SquareRoot(x) \in 0..x
        /\ x < (SquareRoot(x) + 1) * (SquareRoot(x) + 1)
    BY SquareRootExists DEF SquareRoot
  <1>2. SquareRoot(x) = 0 => x < 1
    BY <1>1
  <1>3. QED
    BY <1>1, <1>2

-----------------------------------------------------------------------------
(* The shapes the Approx functions return.                                 *)

Typed(shape) == shape \in [rows : Nat \cup {NoRows}, cols : Nat, option : Options]

Supported(shape) == shape.cols <= Cutoff[shape.option]

Good(entries, shape) ==
    /\ shape.rows \in Nat /\ shape.cols \in Positive
    /\ \E c \in Nat : shape.rows = Width[shape.option] * c
    /\ shape.rows * shape.cols >= entries * Width[shape.option]

\* The elements of the entries, for each option.
LEMMA OptionType ==
    ASSUME NEW entries \in Nat, NEW k \in Options
    PROVE  /\ Cutoff[k] \in Positive /\ Width[k] \in Positive
           /\ entries * Width[k] \in Nat
           /\ entries > 0 => entries * Width[k] > 0
  <1>1. Cutoff[k] \in Positive /\ Width[k] \in Positive
    BY PackingAssumption DEF Options
  <1>2. entries > 0 => entries * Width[k] > 0
    BY <1>1 DEF Positive
  <1>3. QED
    BY <1>1, <1>2 DEF Positive

\* The columns that go with a number of rows that entries are not cut at.
LEMMA ColsForRows ==
    ASSUME NEW entries \in Nat, entries > 0, NEW k \in Options, NEW c \in Nat, c > 0
    PROVE  LET rows == Width[k] * c
           IN Typed(Shape(rows, CeilDiv(entries * Width[k], rows), k))
                /\ Good(entries, Shape(rows, CeilDiv(entries * Width[k], rows), k))
  <1> DEFINE w == Width[k]
             size == entries * w
             rows == w * c
             wide == CeilDiv(size, rows)
  <1>1. w \in Nat /\ w > 0 /\ size \in Nat /\ size > 0
    BY OptionType DEF Positive
  <1> HIDE DEF w, size
  <1>2. rows \in Nat /\ rows > 0 /\ rows \in Positive
    BY <1>1 DEF Positive
  <1> HIDE DEF rows
  <1>3. wide \in Nat /\ rows * wide >= size
    BY <1>1, <1>2, CeilDivCovers
  <1>4. wide > 0
    BY <1>1, <1>2, <1>3
  <1> HIDE DEF wide
  <1>5. Typed(Shape(rows, wide, k))
    BY <1>2, <1>3 DEF Typed, Shape
  <1>6. Good(entries, Shape(rows, wide, k))
    BY <1>2, <1>3, <1>4 DEF Good, Shape, Positive, rows, size, w
  <1>7. QED
    BY <1>5, <1>6 DEF wide, rows, size, w

\* The shape as square as can be.
LEMMA SquareGood ==
    ASSUME NEW entries \in Nat, NEW shape \in ApproxSquareDims(entries)
    PROVE  entries > 0 /\ Typed(shape) /\ Supported(shape) /\ Good(entries, shape)
  <1>1. PICK k \in Options : /\ entries > 0
                             /\ shape = SquareShape(entries, k)
                             /\ shape.cols <= Cutoff[k]
    BY DEF ApproxSquareDims, First
  <1> DEFINE root == SquareRoot(entries * Width[k])
             c == CeilDiv(root, Width[k])
  <1>2. root \in Nat /\ root > 0 /\ Width[k] \in Positive
    BY <1>1, OptionType, SquareRootType
  <1>3. c \in Nat /\ Width[k] * c >= root
    BY <1>2, CeilDivCovers
  <1>4. c > 0
    BY <1>2, <1>3 DEF Positive
  <1>5. shape = Shape(Width[k] * c, CeilDiv(entries * Width[k], Width[k] * c), k)
    BY <1>1 DEF SquareShape, SquareRows, RoundUp
  <1> HIDE DEF c
  <1>6. Typed(shape) /\ Good(entries, shape)
    BY <1>1, <1>3, <1>4, <1>5, ColsForRows
  <1>7. shape.option = k
    BY <1>5 DEF Shape
  <1>8. QED
    BY <1>1, <1>6, <1>7 DEF Supported

\* The shape that keeps to a number of columns.
LEMMA ColGood ==
    ASSUME NEW entries \in Nat, NEW maxCols \in Nat,
           NEW shape \in ApproxColConstraint(entries, maxCols)
    PROVE  /\ Typed(shape) /\ Supported(shape) /\ shape.cols <= maxCols
           /\ maxCols > 0 => Good(entries, shape)
  <1>1. PICK square \in ApproxSquareDims(entries) :
           \/ square.cols <= maxCols /\ shape = square
           \/ \E k \in Options : maxCols <= Cutoff[k] /\ shape = ColShape(entries, maxCols, k)
    BY DEF ApproxColConstraint, First
  <1>2. CASE square.cols <= maxCols /\ shape = square
    BY <1>2, SquareGood
  <1>3. ASSUME NEW k \in Options, maxCols <= Cutoff[k], shape = ColShape(entries, maxCols, k)
        PROVE  /\ Typed(shape) /\ Supported(shape) /\ shape.cols <= maxCols
               /\ maxCols > 0 => Good(entries, shape)
    <2>1. shape.cols = maxCols /\ shape.option = k
      BY <1>3 DEF ColShape, Shape
    <2>2. CASE maxCols = 0
      BY <1>3, <2>1, <2>2 DEF Typed, Supported, ColShape, Shape
    <2>3. CASE maxCols > 0
      <3> DEFINE w == Width[k]
                 size == entries * w
                 needed == CeilDiv(size, maxCols)
                 c == CeilDiv(needed, w)
      <3>1. w \in Positive /\ w \in Nat /\ w > 0 /\ size \in Nat /\ maxCols \in Positive
        BY <2>3, OptionType DEF Positive
      <3> HIDE DEF w, size
      <3>2. needed \in Nat /\ maxCols * needed >= size
        BY <3>1, CeilDivCovers
      <3> HIDE DEF needed
      <3>3. c \in Nat /\ w * c >= needed /\ w * c \in Nat
        BY <3>1, <3>2, CeilDivCovers
      <3>4. shape = Shape(w * c, maxCols, k)
        BY <1>3, <2>3 DEF ColShape, RoundUp, c, needed, size, w
      <3> HIDE DEF c
      <3>5. (w * c) * maxCols >= size
        <4>1. w * c - needed \in Nat
          BY <3>2, <3>3
        <4>2. (w * c) * maxCols = maxCols * needed + (w * c - needed) * maxCols
          BY <3>2, <3>3, <4>1
        <4>3. (w * c - needed) * maxCols >= 0
          BY <4>1
        <4>4. QED
          BY <3>1, <3>2, <3>3, <4>2, <4>3
      <3>6. Typed(shape) /\ Supported(shape)
        BY <1>3, <3>3, <3>4 DEF Typed, Supported, Shape
      <3>7. Good(entries, shape)
        BY <3>1, <3>3, <3>4, <3>5 DEF Good, Shape, size, w
      <3>8. QED
        BY <2>1, <3>6, <3>7
    <2>4. QED
      BY <2>2, <2>3
  <1>4. QED
    BY <1>1, <1>2, <1>3

\* The shape that keeps to a number of rows.
LEMMA RowGood ==
    ASSUME NEW entries \in Nat, NEW maxRows \in Nat,
           NEW shape \in ApproxRowConstraint(entries, maxRows)
    PROVE  Typed(shape) /\ Supported(shape) /\ Good(entries, shape) /\ shape.rows <= maxRows
  <1>1. PICK square \in ApproxSquareDims(entries) :
           \/ square.rows <= maxRows /\ shape = square
           \/ \E k \in Options : /\ maxRows >= Width[k]
                                 /\ shape = RowShape(entries, maxRows, k)
                                 /\ shape.cols <= Cutoff[k]
    BY DEF ApproxRowConstraint, First
  <1>2. CASE square.rows <= maxRows /\ shape = square
    BY <1>2, SquareGood
  <1>3. ASSUME NEW k \in Options, maxRows >= Width[k],
               shape = RowShape(entries, maxRows, k), shape.cols <= Cutoff[k]
        PROVE  Typed(shape) /\ Supported(shape) /\ Good(entries, shape) /\ shape.rows <= maxRows
    <2> DEFINE w == Width[k]
               c == maxRows \div w
    <2>1. w \in Nat /\ w > 0 /\ entries > 0
      BY OptionType, SquareGood, <1>1 DEF Positive
    <2>2. c \in Nat /\ maxRows = w * c + (maxRows % w) /\ maxRows % w \in 0..w - 1
      BY <2>1, DivModFacts
    <2>3. c > 0
      BY <1>3, <2>1, <2>2
    <2>4. shape = Shape(w * c, CeilDiv(entries * w, w * c), k)
      BY <1>3 DEF RowShape, RoundDown
    <2> HIDE DEF c
    <2>5. Typed(shape) /\ Good(entries, shape)
      BY <2>1, <2>2, <2>3, <2>4, ColsForRows
    <2>6. shape.rows = w * c /\ shape.option = k
      BY <2>4 DEF Shape
    <2>7. QED
      BY <1>3, <2>1, <2>2, <2>5, <2>6 DEF Supported
  <1>4. QED
    BY <1>1, <1>2, <1>3

-----------------------------------------------------------------------------
(* The loop over the buckets.                                              *)

\* What the buckets took and what they left is the shares of those packed.
Accounting ==
    IF method = "Balanced" THEN used = 0
    ELSE used + free = Share * (Len(sizes) - Cardinality(todo))

ShapesGood ==
    \A i \in DOMAIN dims : Supported(dims[i]) /\ (Affordable => Good(sizes[i], dims[i]))

IInv == TypeOK /\ Accounting /\ ShapesGood

\* A share is a natural number, and positive where there is enough for all.
LEMMA ShareType ==
    ASSUME TypeOK
    PROVE  /\ Len(sizes) \in Nat /\ Len(sizes) > 0 /\ Share \in Nat
           /\ Len(sizes) * Share <= budget
           /\ budget >= Len(sizes) => Share > 0
  <1>1. Len(sizes) \in Nat /\ Len(sizes) > 0 /\ budget \in Nat
    BY DEF TypeOK
  <1> DEFINE x == Len(sizes)
  <1>2. /\ Share \in Nat /\ budget % x \in 0..x - 1
        /\ budget = x * Share + (budget % x)
    BY <1>1, DivModFacts DEF Share
  <1>3. budget >= x => Share > 0
    <2>1. Share = 0 => x * Share = 0
      BY <1>1
    <2>2. QED
      BY <1>1, <1>2, <2>1
  <1>4. QED
    BY <1>1, <1>2, <1>3

\* The buckets are finitely many, and those not packed are among them.
LEMMA TodoFinite ==
    ASSUME TypeOK
    PROVE  /\ IsFiniteSet(todo)
           /\ Cardinality(todo) \in Nat /\ Cardinality(todo) <= Len(sizes)
           /\ Cardinality(Buckets) = Len(sizes)
  <1>1. Buckets = 1..Len(sizes) /\ Len(sizes) \in Nat
    BY DEF Buckets, TypeOK
  <1>2. IsFiniteSet(Buckets) /\ Cardinality(Buckets) = Len(sizes)
    <2>1. \A x \in Nat : IsFiniteSet(1..x) /\ Cardinality(1..x) = x
      BY FS_Interval
    <2>2. QED
      BY <1>1, <2>1, Zenon
  <1>3. todo \in SUBSET Buckets
    BY DEF TypeOK
  <1>4. QED
    BY <1>2, <1>3, FS_Subset, FS_CardinalityType

\* What a bucket is given is supported by its modulus, holds the bucket, and
\* takes no more of the budget than there is for it.
LEMMA ShapeGiven ==
    ASSUME TypeOK, NEW i \in todo, NEW shape \in Shapes(i)
    PROVE  /\ Typed(shape) /\ Supported(shape)
           /\ Affordable => Good(sizes[i], shape)
           /\ Taken(shape) \in Nat
           /\ method # "Balanced" => Taken(shape) <= MaxOf
  <1>1. sizes[i] \in Nat /\ MaxOf \in Nat /\ Share \in Nat /\ free \in Nat
    BY ShareType DEF TypeOK, Buckets, MaxOf
  <1>2. CASE method = "Balanced"
    <2>1. shape \in ApproxSquareDims(sizes[i])
      BY <1>2 DEF Shapes
    <2>2. QED
      BY <1>1, <1>2, <2>1, SquareGood DEF Taken
  <1>3. CASE method = "Comm"
    <2>1. shape \in ApproxColConstraint(sizes[i], MaxOf)
      BY <1>3 DEF Shapes
    <2>2. Affordable => MaxOf > 0
      BY <1>1, <1>3, ShareType DEF Affordable, MaxOf
    <2>3. Taken(shape) = shape.cols
      BY <1>3 DEF Taken
    <2>4. QED
      BY <1>1, <2>1, <2>2, <2>3, ColGood DEF Typed
  <1>4. CASE method = "Storage"
    <2>1. shape \in ApproxRowConstraint(sizes[i], MaxOf)
      BY <1>4 DEF Shapes
    <2>2. Taken(shape) = shape.rows
      BY <1>4 DEF Taken
    <2>3. QED
      BY <1>1, <2>1, <2>2, RowGood DEF Good
  <1>5. QED
    BY <1>2, <1>3, <1>4 DEF TypeOK

\* Nothing is packed, taken or left at first.
LEMMA IInvInit == PackingInit => IInv
  <1> SUFFICES ASSUME PackingInit PROVE IInv
    OBVIOUS
  <1>1. DOMAIN dims = {} /\ todo = Buckets /\ used = 0 /\ free = 0
    BY DEF PackingInit
  <1>2. sizes \in Seq(Nat) \ {<<>>} /\ budget \in Nat
    BY PackingAssumption DEF PackingInit
  <1>3. dims \in [Buckets \ todo -> [rows : Nat \cup {NoRows}, cols : Nat, option : Options]]
    BY <1>1 DEF PackingInit
  <1>4. TypeOK
    <2>1. method \in {"Balanced", "Comm", "Storage"} /\ free \in Nat /\ used \in Nat
      BY <1>1 DEF PackingInit
    <2>2. failed \in BOOLEAN
      BY Zenon DEF PackingInit
    <2>3. QED
      BY <1>1, <1>2, <1>3, <2>1, <2>2 DEF TypeOK
  <1>5. Accounting
    BY <1>1, <1>4, TodoFinite, ShareType DEF Accounting
  <1>6. ShapesGood
    BY <1>1 DEF ShapesGood
  <1>7. QED
    BY <1>4, <1>5, <1>6 DEF IInv

\* A bucket packed moves its share from what is left to what is taken.
LEMMA IInvNext == IInv /\ [PackingNext]_packing => IInv'
  <1> SUFFICES ASSUME IInv, [PackingNext]_packing PROVE IInv'
    OBVIOUS
  <1>1. CASE Pack
    <2>1. PICK i \in todo : \E shape \in Shapes(i) :
            /\ todo' = todo \ {i}
            /\ dims' = [j \in DOMAIN dims \cup {i} |-> IF j = i THEN shape ELSE dims[j]]
            /\ free' = Left(shape)
            /\ used' = used + Taken(shape)
      BY <1>1 DEF Pack, Smallest
    <2>2. PICK shape \in Shapes(i) :
            /\ todo' = todo \ {i}
            /\ dims' = [j \in DOMAIN dims \cup {i} |-> IF j = i THEN shape ELSE dims[j]]
            /\ free' = Left(shape)
            /\ used' = used + Taken(shape)
      BY <2>1
    <2>3. UNCHANGED <<method, sizes, budget, failed>>
      BY <1>1 DEF Pack, inputs
    <2>4. /\ Typed(shape) /\ Supported(shape)
          /\ Affordable => Good(sizes[i], shape)
          /\ Taken(shape) \in Nat
          /\ method # "Balanced" => Taken(shape) <= MaxOf
      BY ShapeGiven DEF IInv
    <2>5. Share' = Share /\ Buckets' = Buckets /\ Affordable' = Affordable
      BY <2>3 DEF Share, Buckets, Affordable
    <2>6. free' \in Nat /\ (method # "Balanced" => free' = Share + free - Taken(shape))
      BY <2>2, <2>4, ShareType DEF IInv, TypeOK, Left, MaxOf
    <2>7. DOMAIN dims' = Buckets \ todo' /\ i \in Buckets
      BY <2>2 DEF IInv, TypeOK
    <2>8. dims' \in [Buckets \ todo' -> [rows : Nat \cup {NoRows}, cols : Nat, option : Options]]
      BY <2>2, <2>4, <2>7 DEF IInv, TypeOK, Typed
    <2>9. TypeOK'
      BY <2>2, <2>3, <2>4, <2>5, <2>6, <2>8 DEF IInv, TypeOK
    <2>10. Accounting'
      <3> DEFINE x == Len(sizes)
                 m == Cardinality(todo)
      <3>1. m \in Nat /\ x \in Nat /\ m <= x /\ Share \in Nat
        BY TodoFinite, ShareType DEF IInv
      <3>2. Cardinality(todo') = m - 1
        BY <2>2, TodoFinite, FS_RemoveElement DEF IInv
      <3>3. CASE method = "Balanced"
        BY <2>2, <2>3, <3>3 DEF IInv, Accounting, Taken
      <3>4. CASE method # "Balanced"
        <4>1. used + free = Share * (x - m) /\ used \in Nat /\ free \in Nat
          BY <3>4 DEF IInv, Accounting, TypeOK
        <4>2. used' + free' = Share * (x - m) + Share
          <5>1. used' = used + Taken(shape) /\ free' = Share + free - Taken(shape)
            BY <2>2, <2>6, <3>4
          <5>2. used' + free' = used + free + Share
            BY <2>4, <3>1, <4>1, <5>1
          <5>3. QED
            BY <4>1, <5>2, Zenon
        <4>3. x - (m - 1) = (x - m) + 1 /\ x - m \in Nat
          BY <3>1
        <4>4. \A a, k \in Nat : a * (k + 1) = a * k + a
          OBVIOUS
        <4>5. QED
          <5>1. Share * (x - (m - 1)) = Share * (x - m) + Share
            BY <3>1, <4>3, <4>4
          <5>2. QED
            BY <2>3, <2>5, <3>2, <3>4, <4>2, <5>1 DEF Accounting
      <3>5. QED
        BY <3>3, <3>4
    <2>11. ShapesGood'
      <3>1. ASSUME NEW j \in DOMAIN dims'
            PROVE  Supported(dims'[j]) /\ (Affordable => Good(sizes[j], dims'[j]))
        BY <2>2, <2>4, <3>1 DEF IInv, ShapesGood
      <3>2. QED
        BY <2>3, <2>5, <3>1 DEF ShapesGood, Supported, Good
    <2>12. QED
      BY <2>9, <2>10, <2>11 DEF IInv
  <1>2. CASE Panic
    <2>1. UNCHANGED <<method, sizes, budget, todo, dims, free, used>> /\ failed' \in BOOLEAN
      BY <1>2 DEF Panic, inputs
    <2>2. QED
      BY <2>1 DEF IInv, TypeOK, Accounting, ShapesGood, Share, Buckets, Affordable,
                  Supported, Good
  <1>3. CASE UNCHANGED packing
    BY <1>3 DEF packing, inputs, IInv, TypeOK, Accounting, ShapesGood, Share, Buckets, Affordable,
                Supported, Good
  <1>4. QED
    BY <1>1, <1>2, <1>3 DEF PackingNext

\* The invariant holds throughout.
LEMMA IInvHolds == PackingSpec => []IInv
  BY IInvInit, IInvNext, PTL DEF PackingSpec

\* Type correctness; in particular what is left, an unsigned number in the
\* code, never wraps around.
THEOREM TypeCorrect == PackingSpec => []TypeOK
  <1>1. IInv => TypeOK
    BY DEF IInv
  <1>2. QED
    BY <1>1, IInvHolds, PTL

\* All buckets together stay within the columns, or the rows, of the original.
THEOREM Budget == PackingSpec => []WithinBudget
  <1>1. IInv => WithinBudget
    <2> SUFFICES ASSUME IInv PROVE used <= budget
      BY DEF WithinBudget
    <2> DEFINE x == Len(sizes)
               m == Cardinality(todo)
    <2>1. /\ m \in Nat /\ x \in Nat /\ m <= x /\ Share \in Nat /\ x * Share <= budget
          /\ used \in Nat /\ free \in Nat /\ budget \in Nat
      BY TodoFinite, ShareType DEF IInv, TypeOK
    <2>2. CASE method = "Balanced"
      BY <2>1, <2>2 DEF IInv, Accounting
    <2>3. CASE method # "Balanced"
      <3>1. used + free = Share * (x - m)
        BY <2>3 DEF IInv, Accounting
      <3>2. Share * (x - m) = x * Share - Share * m /\ Share * m >= 0
        BY <2>1
      <3>3. QED
        BY <2>1, <3>1, <3>2
    <2>4. QED
      BY <2>2, <2>3
  <1>2. QED
    BY <1>1, IInvHolds, PTL

\* crypto.NewContext accepts the shape of every bucket.
THEOREM ModulusFitsAlways == PackingSpec => []ModulusFits
  <1>1. IInv => ModulusFits
    BY DEF IInv, ShapesGood, Supported, ModulusFits
  <1>2. QED
    BY <1>1, IInvHolds, PTL

\* Every bucket fits its matrix, in whole entries.
THEOREM Holds == PackingSpec => []HoldsBucket
  <1>1. IInv => HoldsBucket
    <2> SUFFICES ASSUME IInv, Affordable, NEW i \in DOMAIN dims
                 PROVE  LET width == Width[dims[i].option]
                        IN /\ dims[i].rows * dims[i].cols >= sizes[i] * width
                           /\ dims[i].rows % width = 0
      BY DEF HoldsBucket
    <2>1. Good(sizes[i], dims[i]) /\ dims[i].option \in Options
      BY DEF IInv, ShapesGood, TypeOK
    <2>2. Width[dims[i].option] \in Positive
      BY <2>1, OptionType
    <2>3. QED
      BY <2>1, <2>2, MultipleMod DEF Good
  <1>2. QED
    BY <1>1, IInvHolds, PTL

\* The database newDBInfo lays out for a bucket has no more rows than counted.
THEOREM Suffices == PackingSpec => []RowsSuffice
  <1>1. IInv => RowsSuffice
    <2> SUFFICES ASSUME IInv, Affordable, NEW i \in DOMAIN dims
                 PROVE  DbRows(sizes[i], dims[i].cols, dims[i].option) <= dims[i].rows
      BY DEF RowsSuffice
    <2> DEFINE k == dims[i].option
               w == Width[k]
               size == sizes[i] * w
               wide == dims[i].cols
               rows == dims[i].rows
               needed == CeilDiv(size, wide)
    <2>1. Good(sizes[i], dims[i]) /\ k \in Options /\ sizes[i] \in Nat
      BY DEF IInv, ShapesGood, TypeOK, Buckets
    <2>2. w \in Positive /\ w \in Nat /\ size \in Nat
      BY <2>1, OptionType DEF Positive
    <2>3. /\ rows \in Nat /\ wide \in Positive /\ wide \in Nat
          /\ size <= rows * wide
      BY <2>1 DEF Good, Positive
    <2>4. PICK c \in Nat : rows = w * c
      BY <2>1 DEF Good
    <2> HIDE DEF size, wide, rows, w, k
    <2>5. needed \in Nat /\ needed <= rows
      <3>1. rows * wide = wide * rows
        BY <2>3
      <3>2. QED
        BY <2>2, <2>3, <3>1, CeilDivLeast, CeilDivCovers
    <2> HIDE DEF needed
    <2>6. CeilDiv(needed, w) <= c /\ CeilDiv(needed, w) \in Nat
      BY <2>2, <2>4, <2>5, CeilDivLeast, CeilDivCovers
    <2>7. w * CeilDiv(needed, w) <= w * c
      <3>1. c - CeilDiv(needed, w) \in Nat
        BY <2>6
      <3>2. w * c = w * CeilDiv(needed, w) + w * (c - CeilDiv(needed, w))
        BY <2>2, <2>6, <3>1
      <3>3. w * (c - CeilDiv(needed, w)) >= 0
        BY <2>2, <3>1
      <3>4. QED
        BY <2>2, <2>6, <3>2, <3>3
    <2>8. QED
      BY <2>4, <2>7 DEF DbRows, RoundUp, needed, size, wide, rows, w, k
  <1>2. QED
    BY <1>1, IInvHolds, PTL

\* Some option that will do is the first.
LEMMA FirstExists ==
    ASSUME NEW S, S \subseteq Options, S # {}
    PROVE  First(S) # {}
  <1>1. S \subseteq Nat
    BY PackingAssumption DEF Options
  <1>2. PICK k \in S : \A j \in S : ~(<<j, k>> \in OpToRel(<, Nat))
    BY <1>1, NatLessThanWellFounded, WFMin
  <1>3. OpToRel(<, Nat) = {ss \in Nat \X Nat : ss[1] < ss[2]}
    BY Zenon DEF OpToRel
  <1>4. ASSUME NEW j \in S PROVE k <= j
    <2>1. ~(<<j, k>> \in {ss \in Nat \X Nat : ss[1] < ss[2]})
      BY <1>2, <1>3, Zenon
    <2>2. QED
      BY <1>1, <2>1
  <1>5. QED
    BY <1>4 DEF First

\* A limit on columns is met by the modulus of the square shape, if by none
\* before it.
LEMMA ColAsSquare ==
    ASSUME NEW entries \in Nat, NEW maxCols \in Nat,
           ApproxColConstraint(entries, maxCols) = {}
    PROVE  ApproxSquareDims(entries) = {}
  <1> SUFFICES ASSUME NEW square \in ApproxSquareDims(entries) PROVE FALSE
    OBVIOUS
  <1> DEFINE options == {k \in Options : maxCols <= Cutoff[k]}
             shapes == {ColShape(entries, maxCols, k) : k \in First(options)}
  <1>1. (IF square.cols <= maxCols THEN {square} ELSE shapes) \subseteq {}
    BY DEF ApproxColConstraint
  <1>2. ~(square.cols <= maxCols) /\ shapes = {}
    BY <1>1
  <1>3. square.option \in options
    <2>1. square.option \in Options /\ square.cols \in Nat /\ square.cols <= Cutoff[square.option]
      BY SquareGood DEF Typed, Supported
    <2>2. Cutoff[square.option] \in Nat
      BY <2>1, OptionType DEF Positive
    <2>3. QED
      BY <1>2, <2>1, <2>2
  <1>4. First(options) # {}
    BY <1>3, FirstExists
  <1>5. QED
    BY <1>2, <1>4

\* Where buckets of some sizes can be packed into square matrices, PackingDims
\* packs them within the columns of the original.
THEOREM CommSucceeds == PackingSpec => []CommFailsOnlyAsSquare
  <1>1. PackingInit => CommFailsOnlyAsSquare
    BY DEF PackingInit, CommFailsOnlyAsSquare
  <1>2. TypeOK /\ CommFailsOnlyAsSquare /\ [PackingNext]_packing => CommFailsOnlyAsSquare'
    <2> SUFFICES ASSUME TypeOK, CommFailsOnlyAsSquare, [PackingNext]_packing PROVE CommFailsOnlyAsSquare'
      OBVIOUS
    <2>1. CASE Panic
      <3> SUFFICES ASSUME method = "Comm"
                   PROVE  \E i \in Buckets : ApproxSquareDims(sizes[i]) = {}
        BY <2>1 DEF Panic, inputs, CommFailsOnlyAsSquare, Buckets
      <3>1. PICK i \in todo : Shapes(i) = {}
        BY <2>1 DEF Panic, Smallest
      <3>2. ApproxColConstraint(sizes[i], MaxOf) = {}
        BY <3>1 DEF Shapes
      <3>3. i \in Buckets /\ sizes[i] \in Nat /\ MaxOf \in Nat
        BY ShareType DEF TypeOK, Buckets, MaxOf
      <3>4. QED
        BY <3>2, <3>3, ColAsSquare
    <2>2. CASE Pack \/ UNCHANGED packing
      <3>1. UNCHANGED <<method, sizes, failed>>
        BY <2>2 DEF Pack, inputs, packing
      <3>2. QED
        BY <3>1 DEF CommFailsOnlyAsSquare, Buckets
    <2>3. QED
      BY <2>1, <2>2 DEF PackingNext
  <1>3. QED
    BY <1>1, <1>2, TypeCorrect, PTL DEF PackingSpec

-----------------------------------------------------------------------------
(* The database: the invariant.                                            *)

\* What is queried or packed is of the constants' formats and sizes.
DatabaseType ==
    /\ format \in Formats /\ n \in Counts /\ cols \in Widths
    /\ packed \in 0..n
    /\ DOMAIN db = Database!Matrix

\* The elements of the entries packed so far are where a client reads them.
EntriesInPlace ==
    \A i \in 0..packed - 1 : \A j \in 0..Database!Ne - 1 :
        Database!Read(i, j) = Database!Element(Database!Value(data[i]), j)

DatabaseInv == DatabaseType /\ EntriesInPlace

\* What reading back an entry is besides: its elements, put together, make its
\* limbs again.  This is arithmetic of one entry.
ElementsMakeEntry ==
    \A i \in 0..n - 1 :
        Database!Reconstructed([j \in 0..Database!Ne - 1 |->
            Database!Element(Database!Value(data[i]), j)]) = data[i]

\* An entry takes some elements, and the matrix has a column.
LEMMA DatabaseSizes ==
    ASSUME DatabaseType
    PROVE  Database!Ne \in Positive /\ n \in Positive /\ cols \in Positive
  <1>1. n \in Positive /\ cols \in Positive
    BY LheAssumption DEF DatabaseType, Positive
  <1>2. format \in Formats /\ format.bits \in Nat
    BY LheAssumption DEF DatabaseType
  <1>3. \E w \in 1..format.bits :
          /\ 2^format.bits <= format.p^w
          /\ \A v \in 1..w - 1 : format.p^v < 2^format.bits
    BY <1>2, ElementsAssumption, Zenon
  <1>4. Database!Ne \in 1..format.bits
    BY <1>3 DEF Database!Ne
  <1>5. QED
    BY <1>1, <1>2, <1>4 DEF Positive

\* A quotient is the only number that times the divisor leaves less than it.
LEMMA QuotientIs ==
    ASSUME NEW w \in Positive, NEW a \in Nat, NEW b \in Nat, NEW j \in 0..w - 1, NEW k \in 0..w - 1,
           w * a + j = w * b + k
    PROVE  a = b /\ j = k
  <1>1. w \in Nat /\ j \in Nat /\ k \in Nat /\ j < w /\ k < w
    BY DEF Positive
  <1>2. ASSUME a < b PROVE FALSE
    BY <1>1, <1>2, TimesMonotone
  <1>3. ASSUME b < a PROVE FALSE
    BY <1>1, <1>3, TimesMonotone
  <1>4. a = b
    BY <1>2, <1>3
  <1>5. QED
    BY <1>1, <1>4

-----------------------------------------------------------------------------
(* The cells of entries.                                                   *)

\* An entry's row group is one of the matrix.
LEMMA GroupInside ==
    ASSUME NEW i \in Nat, NEW m \in Nat, NEW c \in Positive, NEW w \in Positive, i < m
    PROVE  (i \div c) + 1 <= CeilDiv(CeilDiv(m * w, c), w)
  <1> DEFINE g == i \div c
             rows == CeilDiv(m * w, c)
             groups == CeilDiv(rows, w)
  <1>1. c \in Nat /\ c > 0 /\ w \in Nat /\ w > 0 /\ m * w \in Nat
    BY DEF Positive
  <1>2. g \in Nat /\ c * g <= i
    BY <1>1, DivModFacts
  <1>3. rows \in Nat /\ c * rows >= m * w
    BY <1>1, CeilDivCovers
  <1>4. groups \in Nat /\ w * groups >= rows
    BY <1>3, CeilDivCovers
  <1> HIDE DEF g, rows, groups
  <1>5. ASSUME groups <= g PROVE FALSE
    <2>1. w * g >= w * groups
      <3>1. w * g = w * groups + w * (g - groups) /\ g - groups \in Nat
        BY <1>1, <1>2, <1>4, <1>5
      <3>2. w * (g - groups) >= 0
        BY <1>1, <3>1
      <3>3. QED
        BY <1>1, <1>2, <1>4, <3>1, <3>2
    <2>2. rows <= w * g /\ w * g \in Nat
      BY <1>1, <1>2, <1>3, <1>4, <2>1
    <2>3. c * rows <= c * (w * g)
      <3>1. c * (w * g) = c * rows + c * (w * g - rows) /\ w * g - rows \in Nat
        BY <1>1, <1>3, <2>2
      <3>2. c * (w * g - rows) >= 0
        BY <1>1, <3>1
      <3>3. QED
        BY <1>1, <1>3, <2>2, <3>1, <3>2
    <2>4. c * (w * g) = w * (c * g)
      BY <1>1, <1>2
    <2>5. w * (c * g) <= w * i
      <3>1. w * i = w * (c * g) + w * (i - c * g) /\ i - c * g \in Nat
        BY <1>1, <1>2
      <3>2. w * (i - c * g) >= 0
        BY <1>1, <3>1
      <3>3. QED
        BY <1>1, <1>2, <3>1, <3>2
    <2>6. w * m >= w * i + w
      BY <1>1, TimesMonotone
    <2>7. {c * rows, w * (c * g), w * i, m * w} \subseteq Nat /\ m * w = w * m
      BY <1>1, <1>2, <1>3
    <2>8. c * rows <= w * i
      BY <2>3, <2>4, <2>5, <2>7
    <2>9. m * w <= w * i
      BY <1>3, <2>7, <2>8
    <2>10. QED
      BY <1>1, <2>6, <2>7, <2>9
  <1>6. QED
    BY <1>2, <1>4, <1>5 DEF g, groups, rows

\* The cells of an entry are in the matrix.
LEMMA CellsInside ==
    ASSUME DatabaseType, NEW i \in 0..n - 1
    PROVE  Database!CellsOf(i) \subseteq Database!Matrix
  <1> DEFINE w == Database!Ne
             g == i \div cols
             groups == CeilDiv(CeilDiv(n * w, cols), w)
  <1>1. w \in Nat /\ w > 0 /\ n \in Nat /\ cols \in Nat /\ cols > 0 /\ i \in Nat /\ i < n
    BY DatabaseSizes DEF Positive
  <1>2. g \in Nat /\ i % cols \in 0..cols - 1
    BY <1>1, DivModFacts
  <1>3. g + 1 <= groups
    BY <1>1, DatabaseSizes, GroupInside
  <1>4. groups \in Nat
    <2>1. CeilDiv(n * w, cols) \in Nat
      BY <1>1, DatabaseSizes, CeilDivCovers
    <2>2. QED
      BY <2>1, DatabaseSizes, CeilDivCovers
  <1>5. Database!Height = w * groups
    BY DEF Database!Height, Database!CeilDiv, CeilDiv
  <1> HIDE DEF w, g, groups
  <1>6. w * groups \in Nat /\ g * w \in Nat /\ g * w + w <= w * groups
    <2>1. w * groups \in Nat /\ g * w \in Nat /\ g * w = w * g
      BY <1>1, <1>2, <1>4
    <2>2. w * groups >= w * g + w
      BY <1>1, <1>2, <1>3, <1>4, TimesMonotone
    <2>3. QED
      BY <1>1, <2>1, <2>2
  <1>7. ASSUME NEW j \in 0..w - 1 PROVE Database!Cell(i, j) \in Database!Matrix
    <2>1. g * w + j \in 0..w * groups - 1
      BY <1>1, <1>6
    <2>2. QED
      BY <1>2, <1>5, <2>1 DEF Database!Cell, Database!Matrix, g, w
  <1>8. QED
    BY <1>7 DEF Database!CellsOf, w

\* No two entries have a cell in common, and no two elements of one.
LEMMA CellsApart ==
    ASSUME DatabaseType, NEW i \in Nat, NEW k \in Nat,
           NEW j \in 0..Database!Ne - 1, NEW l \in 0..Database!Ne - 1,
           Database!Cell(i, j) = Database!Cell(k, l)
    PROVE  i = k /\ j = l
  <1> DEFINE w == Database!Ne
             a == i \div cols
             b == k \div cols
  <1>1. w \in Positive /\ w \in Nat /\ cols \in Nat /\ cols > 0
    BY DatabaseSizes DEF Positive
  <1>2. a \in Nat /\ b \in Nat
    BY <1>1, DivModFacts
  <1>3. a * w + j = b * w + l /\ i % cols = k % cols
    BY DEF Database!Cell
  <1>4. i = cols * a + (i % cols) /\ k = cols * b + (k % cols)
    BY <1>1, DivModFacts
  <1>5. j \in 0..w - 1 /\ l \in 0..w - 1
    OBVIOUS
  <1> HIDE DEF w, a, b
  <1>6. w * a + j = w * b + l
    BY <1>1, <1>2, <1>3, <1>5
  <1>7. a = b /\ j = l
    BY <1>1, <1>2, <1>5, <1>6, QuotientIs
  <1>8. QED
    BY <1>3, <1>4, <1>7

\* A client reads an element where NewDB puts it.
LEMMA ReadsCell ==
    ASSUME DatabaseType, NEW i \in Nat, NEW j \in 0..Database!Ne - 1
    PROVE  Database!Read(i, j) = db[Database!Cell(i, j)]
  <1>1. Database!Ne \in Nat /\ i \div cols \in Nat
    BY DatabaseSizes, DivModFacts DEF Positive
  <1>2. Database!Ne * (i \div cols) = (i \div cols) * Database!Ne
    BY <1>1
  <1>3. QED
    BY <1>2 DEF Database!Read, Database!Cell

-----------------------------------------------------------------------------
(* The database: the invariant holds.                                      *)

LEMMA DatabaseInvInit == Init => DatabaseInv
  <1> SUFFICES ASSUME Init PROVE DatabaseInv
    OBVIOUS
  <1>1. format \in Formats /\ n \in Counts /\ cols \in Widths /\ packed = 0
    BY LheAssumption DEF Init, Database!Init
  <1>2. DOMAIN db = Database!Matrix
    BY DEF Init, Database!Init
  <1>3. packed \in 0..n /\ 0..packed - 1 = {}
    BY <1>1, LheAssumption
  <1>4. QED
    BY <1>1, <1>2, <1>3 DEF DatabaseInv, DatabaseType, EntriesInPlace

\* Operators of the database whose parameters stay.
LEMMA ShapeStays ==
    ASSUME UNCHANGED <<format, n, cols, data>>
    PROVE  /\ Database!Ne' = Database!Ne /\ Database!Matrix' = Database!Matrix
           /\ \A i, j : Database!Cell(i, j)' = Database!Cell(i, j)
           /\ \A i, j : Database!Element(Database!Value(data[i]), j)'
                          = Database!Element(Database!Value(data[i]), j)
  <1>1. Database!Ne' = Database!Ne
    BY DEF Database!Ne
  <1>2. Database!Matrix' = Database!Matrix
    BY <1>1 DEF Database!Matrix, Database!Height, Database!CeilDiv
  <1>3. \A i, j : Database!Cell(i, j)' = Database!Cell(i, j)
    BY <1>1 DEF Database!Cell
  <1>4. \A limbs : Database!Value(limbs)' = Database!Value(limbs)
    BY DEF Database!Value, Database!NumLimbs, Database!Shift, Database!CeilDiv
  <1>5. \A i, j : Database!Element(Database!Value(data[i]), j)'
                   = Database!Element(Database!Value(data[i]), j)
    BY <1>4 DEF Database!Element
  <1>6. QED
    BY <1>1, <1>2, <1>3, <1>5

\* NewDB's loop: an entry's elements go to its own cells, and all others stay.
LEMMA PackKeeps ==
    ASSUME DatabaseInv, Database!PackEntry
    PROVE  DatabaseInv'
  <1>1. /\ packed < n /\ packed' = packed + 1 /\ UNCHANGED <<format, n, cols, data>>
        /\ db' = [c \in DOMAIN db |->
              IF \E j \in 0..Database!Ne - 1 : c = Database!Cell(packed, j)
              THEN Database!Element(Database!Value(data[packed]),
                                    CHOOSE j \in 0..Database!Ne - 1 : c = Database!Cell(packed, j))
              ELSE db[c]]
    BY DEF Database!PackEntry, Database!inputs
  <1>2. DatabaseType /\ packed \in Nat /\ n \in Nat /\ packed + 1 \in 0..n
    BY <1>1, DatabaseSizes DEF DatabaseInv, DatabaseType, Positive
  <1>3. DatabaseType'
    BY <1>1, <1>2, ShapeStays DEF DatabaseType
  <1>4. ASSUME NEW i \in 0..packed, NEW j \in 0..Database!Ne - 1
        PROVE  db'[Database!Cell(i, j)] = Database!Element(Database!Value(data[i]), j)
    <2>1. i \in Nat /\ i \in 0..n - 1
      BY <1>1, <1>2
    <2>2. Database!Cell(i, j) \in DOMAIN db
      BY <1>2, <2>1, CellsInside DEF DatabaseType, Database!CellsOf
    <2>3. CASE i = packed
      <3>1. (CHOOSE l \in 0..Database!Ne - 1 : Database!Cell(i, j) = Database!Cell(i, l)) = j
        BY <1>2, <2>1, CellsApart
      <3>2. QED
        BY <1>1, <2>2, <2>3, <3>1
    <2>4. CASE i # packed
      <3>1. i \in 0..packed - 1
        BY <1>2, <2>4
      <3>2. ~ \E l \in 0..Database!Ne - 1 : Database!Cell(i, j) = Database!Cell(packed, l)
        BY <1>2, <2>1, <2>4, CellsApart
      <3>3. db'[Database!Cell(i, j)] = db[Database!Cell(i, j)]
        BY <1>1, <2>2, <3>2
      <3>4. db[Database!Cell(i, j)] = Database!Read(i, j)
        BY <1>2, <2>1, ReadsCell
      <3>5. QED
        BY <3>1, <3>3, <3>4 DEF DatabaseInv, EntriesInPlace
    <2>5. QED
      BY <2>3, <2>4
  <1>5. EntriesInPlace'
    <2> SUFFICES ASSUME NEW i \in 0..packed' - 1, NEW j \in 0..Database!Ne' - 1
                 PROVE  (Database!Read(i, j) = Database!Element(Database!Value(data[i]), j))'
      BY DEF EntriesInPlace
    <2>1. i \in 0..packed /\ i \in Nat /\ j \in 0..Database!Ne - 1
      BY <1>1, <1>2, ShapeStays
    <2>2. Database!Read(i, j)' = db'[Database!Cell(i, j)']
      <3>1. (Database!Ne \in Nat /\ cols \in Nat /\ cols > 0)'
        BY <1>1, <1>2, ShapeStays, DatabaseSizes DEF Positive
      <3>2. (i \div cols)' \in Nat
        BY <2>1, <3>1, DivModFacts
      <3>3. (Database!Ne * (i \div cols))' = ((i \div cols) * Database!Ne)'
        BY <3>1, <3>2
      <3>4. QED
        BY <3>3 DEF Database!Read, Database!Cell
    <2>3. Database!Cell(i, j)' = Database!Cell(i, j)
      BY <1>1, ShapeStays
    <2>4. Database!Element(Database!Value(data[i]), j)' = Database!Element(Database!Value(data[i]), j)
      BY <1>1, ShapeStays
    <2>5. db'[Database!Cell(i, j)] = Database!Element(Database!Value(data[i]), j)
      BY <1>4, <2>1
    <2>6. QED
      BY <2>2, <2>3, <2>4, <2>5
  <1>6. QED
    BY <1>3, <1>5 DEF DatabaseInv

LEMMA DatabaseInvNext == DatabaseInv /\ [Next]_vars => DatabaseInv'
  <1>1. ASSUME DatabaseInv, UNCHANGED databaseVars PROVE DatabaseInv'
    <2>1. UNCHANGED <<format, n, cols, data, db, packed>>
      BY <1>1 DEF databaseVars
    <2>2. DatabaseType'
      BY <1>1, <2>1, ShapeStays DEF DatabaseInv, DatabaseType
    <2>3. EntriesInPlace'
      <3> SUFFICES ASSUME NEW i \in 0..packed' - 1, NEW j \in 0..Database!Ne' - 1
                   PROVE  (Database!Read(i, j) = Database!Element(Database!Value(data[i]), j))'
        BY DEF EntriesInPlace
      <3>1. i \in 0..packed - 1 /\ j \in 0..Database!Ne - 1
        BY <2>1, ShapeStays
      <3>2. Database!Read(i, j)' = Database!Read(i, j)
        BY <2>1, ShapeStays DEF Database!Read
      <3>3. Database!Element(Database!Value(data[i]), j)' = Database!Element(Database!Value(data[i]), j)
        BY <2>1, ShapeStays
      <3>4. QED
        BY <1>1, <3>1, <3>2, <3>3 DEF DatabaseInv, EntriesInPlace
    <2>4. QED
      BY <2>2, <2>3 DEF DatabaseInv
  <1>2. RunScheme \/ UNCHANGED vars => UNCHANGED databaseVars
    BY DEF RunScheme, vars
  <1>3. DatabaseInv /\ PackEntry => DatabaseInv'
    BY PackKeeps DEF PackEntry
  <1>4. QED
    BY <1>1, <1>2, <1>3 DEF Next

\* While entries are packed, and while the database is queried, those packed are
\* where a client reads them: NewDB never writes over an entry, nor the query over
\* the database.
THEOREM PackedStay == Spec => []DatabaseInv
  BY DatabaseInvInit, DatabaseInvNext, PTL DEF Spec

\* newDBInfo makes room for all elements of all entries, whatever the number of
\* entries, their width and the columns, in rows of whole entries.
THEOREM EnoughRoom == Spec => []HasRoom
  <1>1. ASSUME DatabaseInv PROVE HasRoom
    <2>1. DatabaseType
      BY <1>1 DEF DatabaseInv
    <2>2. Database!Inside
      BY <2>1, CellsInside DEF Database!Inside, Database!Entries
    <2>3. Database!Height % Database!Ne = 0
      <3> DEFINE w == Database!Ne
                 groups == CeilDiv(CeilDiv(n * w, cols), w)
      <3>1. w \in Positive /\ cols \in Positive /\ n * w \in Nat
        BY <2>1, DatabaseSizes DEF Positive
      <3>2. groups \in Nat
        <4>1. CeilDiv(n * w, cols) \in Nat
          BY <3>1, CeilDivCovers
        <4>2. QED
          BY <3>1, <4>1, CeilDivCovers
      <3>3. Database!Height = w * groups
        BY DEF Database!Height, Database!CeilDiv, CeilDiv
      <3> HIDE DEF w, groups
      <3>4. (w * groups) % w = 0
        BY <3>1, <3>2, MultipleMod
      <3>5. QED
        BY <3>3, <3>4 DEF w
    <2>4. QED
      BY <2>2, <2>3 DEF HasRoom, Database!HasRoom
  <1>2. QED
    BY <1>1, PackedStay, PTL

\* An entry packed reads back as its limbs, whatever was packed after it, if the
\* elements of an entry make its limbs: nothing that happens to the matrix
\* comes between.
THEOREM PackedReadBack == Spec => [](ElementsMakeEntry => RoundTrip)
  <1>1. ASSUME DatabaseInv, ElementsMakeEntry PROVE RoundTrip
    <2> SUFFICES ASSUME NEW i \in 0..packed - 1 PROVE Database!ReconstructElem(i) = data[i]
      BY DEF RoundTrip, Database!RoundTrip
    <2>1. i \in 0..n - 1
      BY <1>1, DatabaseSizes DEF DatabaseInv, DatabaseType, Positive
    <2>2. [j \in 0..Database!Ne - 1 |-> Database!Read(i, j)]
          = [j \in 0..Database!Ne - 1 |-> Database!Element(Database!Value(data[i]), j)]
      BY <1>1 DEF DatabaseInv, EntriesInPlace
    <2>3. QED
      BY <1>1, <2>1, <2>2 DEF ElementsMakeEntry, Database!ReconstructElem
  <1>2. QED
    BY <1>1, PackedStay, PTL

=============================================================================
