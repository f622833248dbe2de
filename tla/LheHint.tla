------------------------------- MODULE LheHint -------------------------------
(***************************************************************************)
(* The public matrix A of the LHE scheme and the hint, which is the        *)
(* database times A.  Server and client expand A from one seed, each for   *)
(* itself.  In mode None its elements are read from a buffered PRG; in     *)
(* mode Hybrid what is read are seeds of polynomials of Z_q[x]/(x^N + 1),  *)
(* and A is the matrix of multiplication by them, N columns of the         *)
(* database to each; SEAL's switch of the modulus is noise.                *)
(*                                                                         *)
(* A unit of the PRG is an element, or a word of a seed.                   *)
(***************************************************************************)
EXTENDS Integers, Sequences, SequencesExt

CONSTANTS
    Q,                \* the ciphertext modulus
    N,                \* degree of the ring, and length of a secret
    BlockUnits,       \* units of an AES block
    BufUnits,         \* units of the buffer of a BufPRGReader
    SeedLen,          \* words of a seed (SealSeedLength: 8)
    Cipher(_),        \* the block of a counter, a sequence of units
    Expand(_)         \* the coefficients of the polynomial of a seed

ASSUME HintAssumption ==
    /\ {Q, N, BlockUnits, BufUnits, SeedLen} \subseteq Nat \ {0}
    /\ BufUnits % BlockUnits = 0

SumOf(f) == FoldFunction(LAMBDA x, sum : x + sum, 0, f)

Less(a, b) == IF a < b THEN a ELSE b
CeilOf(a, b) == (a + b - 1) \div b

-----------------------------------------------------------------------------
(* rand.go: a PRGReader behind a buffer.  A read is [prg, units]. *)

NewBufPRG == [ctr |-> 0, buf |-> <<>>]

\* PRGReader.Read: whole blocks; the rest of the last one is lost.
PrgRead(prg, n) ==
    [prg   |-> [prg EXCEPT !.ctr = @ + CeilOf(n, BlockUnits)],
     units |-> [i \in 1..n |-> Cipher(prg.ctr + CeilOf(i, BlockUnits))[((i - 1) % BlockUnits) + 1]]]

\* bufio.Reader.Read: what is buffered, or one read of the PRG, which is past
\* the buffer when as much as a buffer is asked for.
BufRead(prg, n) ==
    IF prg.buf = <<>> /\ n >= BufUnits
    THEN PrgRead(prg, n)
    ELSE LET filled == IF prg.buf # <<>> THEN prg
                       ELSE LET r == PrgRead(prg, BufUnits) IN [r.prg EXCEPT !.buf = r.units]
             k == Less(n, Len(filled.buf))
         IN [prg   |-> [filled EXCEPT !.buf = SubSeq(@, k + 1, Len(@))],
             units |-> SubSeq(filled.buf, 1, k)]

\* io.ReadFull: each of the reads it may take gives at least a unit.
ReadFull(prg, n) ==
    LET after[i \in 0..n] ==
            IF i = 0 THEN [prg |-> prg, units |-> <<>>]
            ELSE LET sofar == after[i - 1]
                     r == BufRead(sofar.prg, n - Len(sofar.units))
                 IN IF Len(sofar.units) = n THEN sofar
                    ELSE [prg |-> r.prg, units |-> sofar.units \o r.units]
    IN after[n]

-----------------------------------------------------------------------------
(* The matrix A of a database of M columns, on either side *)

\* An element of row j, column k.
AsMatrix(units, M) == [jk \in (0..M - 1) \X (0..N - 1) |-> units[jk[1] * N + jk[2] + 1]]

\* The server's Rand, and what MulSeededLeft multiplies by on the client, from
\* its one source.
RandA(M) == AsMatrix(ReadFull(NewBufPRG, M * N).units, M)

SeededA(M) == AsMatrix(ReadFull(NewBufPRG, N * M).units, M)

NumA(M) == CeilOf(M, N)

\* SampleSEALSeeds, a word at a time, for the polynomials of GenASeeds.
Seeds(M) ==
    LET words[i \in 0..SeedLen * NumA(M)] ==
            IF i = 0 THEN [prg |-> NewBufPRG, units |-> <<>>]
            ELSE LET r == ReadFull(words[i - 1].prg, 1)
                 IN [prg |-> r.prg, units |-> words[i - 1].units \o r.units]
    IN [j \in 0..NumA(M) - 1 |-> SubSeq(words[SeedLen * NumA(M)].units, j * SeedLen + 1, (j + 1) * SeedLen)]

PolysA(M) == [j \in 0..NumA(M) - 1 |-> Expand(Seeds(M)[j])]

-----------------------------------------------------------------------------
(* Polynomials modulo x^N + 1, coefficients from 0 to N - 1 *)

PolyMul(a, b) ==
    [k \in 0..N - 1 |->
        SumOf([i \in 0..N - 1 |->
                 IF i <= k THEN a[i] * b[k - i] ELSE -(a[i] * b[N + k - i])]) % Q]

\* a_transpose: a(1/x).  Mutant: the coefficients are not negated.
TransposePositive(a) == [i \in 0..N - 1 |-> IF i = 0 THEN a[0] ELSE a[N - i]]
Transpose(a) == [i \in 0..N - 1 |-> IF i = 0 THEN a[0] ELSE (Q - a[N - i]) % Q]

\* Samples of the j-th of the ciphertexts that M elements are spread over.
Samples(j, M) == Less(M - j * N, N)

\* Elements j * N on of a row, as a polynomial.
RowPoly(row, j, M) == [z \in 0..N - 1 |-> IF z < Samples(j, M) THEN row[j * N + z] ELSE 0]

\* A row of the hint: Mul by A, or mul_matrix_As.
HintRowNone(row, M) ==
    LET A == RandA(M) IN [k \in 0..N - 1 |-> SumOf([j \in 0..M - 1 |-> row[j] * A[<<j, k>>]]) % Q]

HintRowHybrid(row, M) ==
    LET polys == PolysA(M)
        products == [j \in 0..NumA(M) - 1 |-> PolyMul(RowPoly(row, j, M), Transpose(polys[j]))]
    IN [k \in 0..N - 1 |-> SumOf([j \in 0..NumA(M) - 1 |-> products[j][k]]) % Q]

HintRow(mode, row, M) == IF mode = "None" THEN HintRowNone(row, M) ELSE HintRowHybrid(row, M)

-----------------------------------------------------------------------------
(* What a client multiplies by its secret: all of A, or each polynomial *)

MaskNone(secret, M) ==
    LET A == SeededA(M) IN [j \in 1..M |-> SumOf([k \in 0..N - 1 |-> A[<<j - 1, k>>] * secret[k]]) % Q]

\* A ciphertext is as long as the part of the input it is for.
MaskPiece(secret, j, M) ==
    LET product == PolyMul(PolysA(M)[j], secret)
    IN [k \in 1..Less((j + 1) * N, M) - j * N |-> product[k - 1]]

MaskHybrid(secret, M) == [j \in 1..NumA(M) |-> MaskPiece(secret, j - 1, M)]

==============================================================================
