----------------------------- MODULE LheDatabase -----------------------------
(***************************************************************************)
(* The database of lhe/database.go: entries of several limbs are packed    *)
(* into Z_p elements, stacked in a column of a matrix, and read back.      *)
(*                                                                         *)
(* A bignum is an integer.  p is at most 2^LimbBits, as in the tables of   *)
(* parameters, so that an entry no wider than p has a single limb.         *)
(***************************************************************************)
EXTENDS Integers, FiniteSets

CONSTANTS
    LimbBits,     \* bits of a limb: 32
    Formats,      \* the values of bitsPer and p considered
    Counts,       \* numbers of entries
    Widths,       \* numbers of columns
    MaxBits       \* bound on the size of the data in bits

VARIABLES
    format, n, cols,
    data,          \* the limbs of each entry, most significant first
    db,            \* the matrix, a value for each cell <<row, column>>
    packed         \* entries NewDB is done with

inputs == <<format, n, cols, data>>
vars == <<inputs, db, packed>>

-----------------------------------------------------------------------------
(* newDBInfo *)

CeilDiv(a, b) == (a + b - 1) \div b

NumLimbs == CeilDiv(format.bits, LimbBits)
FinalBits == format.bits - (NumLimbs - 1) * LimbBits

\* ceil(bitsPer / log2 p): the elements that can take any entry.
Ne == CHOOSE w \in 1..format.bits :
        /\ 2^format.bits <= format.p^w
        /\ \A v \in 1..w - 1 : format.p^v < 2^format.bits

\* Mutant: the rows are not rounded up to whole entries.
HeightUnrounded == CeilDiv(n * Ne, cols)

Height == Ne * CeilDiv(CeilDiv(n * Ne, cols), Ne)

Entries == 0..n - 1
Matrix == (0..Height - 1) \X (0..cols - 1)

-----------------------------------------------------------------------------
(* NewDB and ReconstructElem *)

LimbSpace(k) == 0..2^(IF k = NumLimbs - 1 THEN FinalBits ELSE LimbBits) - 1
Limbs == {limbs \in [0..NumLimbs - 1 -> 0..2^LimbBits - 1] :
             \A k \in 0..NumLimbs - 1 : limbs[k] \in LimbSpace(k)}

Shift(j) == LET left == format.bits - LimbBits * (j + 1)
            IN IF left < LimbBits THEN left ELSE LimbBits

Value(limbs) ==
    LET upTo[k \in 0..NumLimbs - 1] ==
            IF k = 0 THEN limbs[0] ELSE upTo[k - 1] * 2^Shift(k - 1) + limbs[k]
    IN upTo[NumLimbs - 1]

\* Mutant: the elements are in the opposite order.
ElementBigEndian(value, j) == (value \div format.p^(Ne - 1 - j)) % format.p

Element(value, j) == (value \div format.p^j) % format.p

Cell(i, j) == <<(i \div cols) * Ne + j, i % cols>>
CellsOf(i) == {Cell(i, j) : j \in 0..Ne - 1}

\* ReconstructElem, from least to most significant element.
Reconstructed(elements) ==
    LET from[j \in 0..Ne] == IF j = Ne THEN 0 ELSE elements[j] + format.p * from[j + 1]
    IN [k \in 0..NumLimbs - 1 |->
          IF k = NumLimbs - 1 THEN from[0] % 2^FinalBits
          ELSE (from[0] \div 2^(FinalBits + LimbBits * (NumLimbs - 2 - k))) % 2^LimbBits]

\* Where a client reads: one query yields one column, and of it Ne rows.
Read(i, j) == db[<<Ne * (i \div cols) + j, i % cols>>]

ReconstructElem(i) == Reconstructed([j \in 0..Ne - 1 |-> Read(i, j)])

-----------------------------------------------------------------------------
Init ==
    /\ format \in Formats /\ n \in Counts /\ cols \in Widths
    /\ n * format.bits <= MaxBits /\ data \in [Entries -> Limbs]
    /\ db = [c \in Matrix |-> 0]
    /\ packed = 0

\* Whether every cell is one of the matrix; Set panics otherwise.
Inside == \A i \in Entries : CellsOf(i) \subseteq Matrix

\* NewDB's loop, one entry: as many elements as an entry takes.
PackEntry ==
    /\ packed < n
    /\ db' = [c \in DOMAIN db |->
          IF \E j \in 0..Ne - 1 : c = Cell(packed, j)
          THEN Element(Value(data[packed]), CHOOSE j \in 0..Ne - 1 : c = Cell(packed, j))
          ELSE db[c]]
    /\ packed' = packed + 1
    /\ UNCHANGED inputs

Next == PackEntry

Spec == Init /\ [][Next]_vars

-----------------------------------------------------------------------------
(* Properties *)

\* An entry packed reads back as its limbs, whatever was packed after it.
RoundTrip ==
    \A i \in 0..packed - 1 : ReconstructElem(i) = data[i]

\* newDBInfo makes room for all elements of all entries, and the rows are of
\* whole entries, as the columns of a query's answer are read.
HasRoom == Inside /\ Height % Ne = 0

==============================================================================
