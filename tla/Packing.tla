------------------------------- MODULE Packing -------------------------------
(***************************************************************************)
(* PackingDims of batching/bucketing.go: the shape of the matrix each      *)
(* bucket is packed into and its plaintext modulus.  Buckets are taken in  *)
(* order of size; under Comm each may use its share of the columns of the  *)
(* original matrix and what the buckets before it left, under Storage the  *)
(* same of the rows.                                                       *)
(*                                                                         *)
(* A modulus is known by its place in the table of options: Cutoff is the  *)
(* number of columns it supports, Width the Z_p elements an entry takes.   *)
(* Sizes are in entries and rows in Z_p elements.  float64 is exact on the *)
(* integers that occur.                                                    *)
(***************************************************************************)
EXTENDS Integers, Sequences, FiniteSets

CONSTANTS
    Cutoff, Width,
    BucketSizes,   \* the sequences of bucket sizes
    Budgets        \* columns, or encoded rows, of the original matrix

Positive == Nat \ {0}

ASSUME PackingAssumption ==
    /\ Cutoff \in Seq(Positive) /\ Width \in Seq(Positive)
    /\ Len(Width) = Len(Cutoff)
    /\ BucketSizes \subseteq Seq(Nat) \ {<<>>}
    /\ Budgets \subseteq Nat

Options == 1..Len(Cutoff)

VARIABLES
    method, sizes, budget,   \* fixed: what PackingDims was called with
    todo,    \* buckets without a shape yet
    dims,    \* the shapes of the others
    free,    \* what the buckets packed so far left of their shares
    used,    \* history: what they took
    failed   \* PackingDims panicked

inputs == <<method, sizes, budget>>
packing == <<inputs, todo, dims, free, used, failed>>

-----------------------------------------------------------------------------
CeilDiv(a, b) == (a + b - 1) \div b
RoundUp(a, b) == b * CeilDiv(a, b)
RoundDown(a, b) == b * (a \div b)
SquareRoot(n) == CHOOSE r \in 0..n : r * r <= n /\ n < (r + 1) * (r + 1)

\* The first option that will do, if there is one.
First(options) == {k \in options : \A j \in options : k <= j}

Shape(rows, cols, k) == [rows |-> rows, cols |-> cols, option |-> k]

\* An empty bucket gives 0/0 columns, which is more than any cutoff.
SquareRows(entries, k) == RoundUp(SquareRoot(entries * Width[k]), Width[k])
SquareShape(entries, k) ==
    LET rows == SquareRows(entries, k)
    IN Shape(rows, CeilDiv(entries * Width[k], rows), k)

\* The Approx functions: the shape returned, in a set that is empty where the
\* code panics.
ApproxSquareDims(entries) ==
    {SquareShape(entries, k) : k \in
        First({k \in Options : entries > 0 /\ SquareShape(entries, k).cols <= Cutoff[k]})}

\* Rows for no columns are a division by 0, and no size of anything.
NoRows == -1

\* Mutant: the rows are not rounded up to whole entries.
ColShapeUnrounded(entries, cols, k) ==
    Shape(IF cols = 0 THEN NoRows ELSE CeilDiv(entries * Width[k], cols), cols, k)

ColShape(entries, cols, k) ==
    Shape(IF cols = 0 THEN NoRows ELSE RoundUp(CeilDiv(entries * Width[k], cols), Width[k]),
          cols, k)

\* Mutant: the cutoff is not looked at.
ApproxColAnyOption(entries, maxCols) ==
    UNION {IF square.cols <= maxCols THEN {square}
           ELSE {ColShape(entries, maxCols, k) : k \in First(Options)} :
                square \in ApproxSquareDims(entries)}

ApproxColConstraint(entries, maxCols) ==
    UNION {IF square.cols <= maxCols THEN {square}
           ELSE {ColShape(entries, maxCols, k) : k \in
                    First({k \in Options : maxCols <= Cutoff[k]})} :
                square \in ApproxSquareDims(entries)}

\* Mutant: the rows are not rounded down to whole entries.
RowShapeUnrounded(entries, maxRows, k) ==
    Shape(maxRows, CeilDiv(entries * Width[k], maxRows), k)

\* With less than one row of entries there is a division by 0 here too, and
\* more columns than any cutoff.
RowShape(entries, maxRows, k) ==
    LET rows == RoundDown(maxRows, Width[k])
    IN Shape(rows, CeilDiv(entries * Width[k], rows), k)

ApproxRowConstraint(entries, maxRows) ==
    UNION {IF square.rows <= maxRows THEN {square}
           ELSE {RowShape(entries, maxRows, k) : k \in
                    First({k \in Options : /\ maxRows >= Width[k]
                                           /\ RowShape(entries, maxRows, k).cols <= Cutoff[k]})} :
                square \in ApproxSquareDims(entries)}

-----------------------------------------------------------------------------
Buckets == DOMAIN sizes

\* A bucket's own share, and with it what is left of the others'.
Share == budget \div Len(sizes)
MaxOf == Share + free

PackingInit ==
    /\ method \in {"Balanced", "Comm", "Storage"}
    /\ sizes \in BucketSizes
    /\ budget \in Budgets
    /\ todo = Buckets
    /\ dims = [i \in {} |-> 0]
    /\ free = 0 /\ used = 0
    /\ failed = FALSE

Running == ~failed /\ todo # {}

\* The loop goes through the buckets by size, equal ones in any order.
Smallest == {i \in todo : \A j \in todo : sizes[i] <= sizes[j]}

Shapes(i) ==
    CASE method = "Balanced" -> ApproxSquareDims(sizes[i])
      [] method = "Comm" -> ApproxColConstraint(sizes[i], MaxOf)
      [] method = "Storage" -> ApproxRowConstraint(sizes[i], MaxOf)

\* What the shape takes of the budget.
Taken(shape) == CASE method = "Balanced" -> 0
                  [] method = "Comm" -> shape.cols
                  [] method = "Storage" -> shape.rows

\* Mutants: what was left before is counted twice, or forgotten.
LeftTwice(shape) == IF method = "Balanced" THEN free ELSE MaxOf + free - Taken(shape)
LeftOfShare(shape) == IF method = "Balanced" THEN free ELSE Share - Taken(shape)

Left(shape) == IF method = "Balanced" THEN free ELSE MaxOf - Taken(shape)

Pack ==
    /\ Running
    /\ \E i \in Smallest : \E shape \in Shapes(i) :
        /\ todo' = todo \ {i}
        /\ dims' = [j \in DOMAIN dims \cup {i} |-> IF j = i THEN shape ELSE dims[j]]
        /\ free' = Left(shape)
        /\ used' = used + Taken(shape)
    /\ UNCHANGED <<inputs, failed>>

Panic ==
    /\ Running
    /\ \E i \in Smallest : Shapes(i) = {}
    /\ failed' = TRUE
    /\ UNCHANGED <<inputs, todo, dims, free, used>>

PackingNext == Pack \/ Panic

PackingSpec == PackingInit /\ [][PackingNext]_packing

-----------------------------------------------------------------------------
\* The state's types.  `free' is a natural number: what is left, an unsigned
\* difference in the code, never wraps around.
TypeOK ==
    /\ method \in {"Balanced", "Comm", "Storage"}
    /\ sizes \in Seq(Nat) \ {<<>>}
    /\ budget \in Nat
    /\ todo \subseteq Buckets
    /\ dims \in [Buckets \ todo -> [rows : Nat \cup {NoRows}, cols : Nat, option : Options]]
    /\ free \in Nat /\ used \in Nat
    /\ failed \in BOOLEAN

\* Comm keeps the columns, and so the communication, and Storage the rows of
\* all buckets together to those of the original matrix.
WithinBudget == used <= budget

\* The columns of a bucket's matrix are as many as its modulus supports, or
\* crypto.NewContext would panic on it (CheckParams).
ModulusFits == \A i \in DOMAIN dims : dims[i].cols <= Cutoff[dims[i].option]

\* Every bucket can have a column of its own.
Affordable == method = "Comm" => budget >= Len(sizes)

\* The matrix has room for its bucket, and an entry of several elements is not
\* cut at its last row.
HoldsBucket ==
    Affordable => \A i \in DOMAIN dims :
        LET width == Width[dims[i].option]
        IN /\ dims[i].rows * dims[i].cols >= sizes[i] * width
           /\ dims[i].rows % width = 0

\* newDBInfo derives the rows again, from the columns alone: never more than
\* were counted here.
DbRows(entries, cols, k) == RoundUp(CeilDiv(entries * Width[k], cols), Width[k])
RowsSuffice ==
    Affordable => \A i \in DOMAIN dims :
        DbRows(sizes[i], dims[i].cols, dims[i].option) <= dims[i].rows

\* A limit on columns never makes PackingDims fail where it would not without.
CommFailsOnlyAsSquare ==
    failed /\ method = "Comm" => \E i \in Buckets : ApproxSquareDims(sizes[i]) = {}
==============================================================================
