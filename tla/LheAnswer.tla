------------------------------ MODULE LheAnswer ------------------------------
(***************************************************************************)
(* The LHE scheme on a CPU, in numbers, for one database and one query:    *)
(* the server makes the hint and squishes its matrix, several elements to  *)
(* a word; the client masks a unit vector; the server multiplies word by   *)
(* word, in blocks of rows; the client subtracts its token and rounds the  *)
(* noise away.                                                             *)
(*                                                                         *)
(* In Hybrid mode a query is several ciphertexts, each of N elements or,   *)
(* the last, what is left; SEAL's scale is another and its noise the same. *)
(* The kernel reads rows past the end of the matrix when its last block is *)
(* not full: such a word is any of `Junk` each time.                       *)
(***************************************************************************)
EXTENDS LheHint, FiniteSetsExt

CONSTANTS
    Basis,       \* bits of an element in a word (BASIS_32: 10)
    Ratio,       \* elements in a word (COMPRESSION_32: 3)
    Ratio64,     \* elements in a 64-bit word (COMPRESSION_64: 2)
    Block,       \* rows multiplied at a time: 8
    Secrets, Noises, Junk

VARIABLES
    set, rows, cols, db,   \* not changed here: parameters, and the packed database
    hint,                  \* a row for each of the database, of N elements
    squishing, words,      \* of DBInfo, and the matrix the server keeps
    col, secret, mask, query, \* the column asked for, A times the secret, the query
    row, out,              \* the product: rows done, and their sums
    result, phase

given == <<set, rows, cols, db>>
asked == <<col, secret, mask, query>>
kept == <<hint, squishing, words>>
vars == <<given, kept, asked, row, out, result, phase>>

-----------------------------------------------------------------------------
CanSquish == set.p <= 2^Basis
NumWords == (cols + Ratio - 1) \div Ratio

\* A word's elements: the last may have room for more.
Places(w) == {k \in 0..Ratio - 1 : Ratio * w + k < cols}

\* Mutant: the first element is in the high bits.
WordHighFirst(r, w) ==
    SumOf([k \in Places(w) |->
            db[<<r, Ratio * w + k>>] * 2^((Ratio - 1 - k) * Basis)])

\* Squish, one word.
Word(r, w) ==
    SumOf([k \in Places(w) |->
            db[<<r, Ratio * w + k>>] * 2^(k * Basis)])

\* Zeros that make a query as long as a row of words unpacked; none without
\* squishing.  Mutant: also where it is so already.
PaddingAlways == IF squishing = 0 THEN 0 ELSE squishing - (cols % squishing)

Padding == IF squishing # 0 /\ cols % squishing # 0 THEN squishing - (cols % squishing) ELSE 0

Zeros(k) == [j \in 1..k |-> 0]

\* What a plaintext is multiplied by: Delta, rounded down, or SEAL's q/p,
\* rounded to the nearest.
Delta == Q \div set.p
Scale == IF set.mode = "None" THEN Delta ELSE (Q + set.p \div 2) \div set.p

\* Mutant: the quotient is rounded down.
RoundDown(x) ==
    IF set.mode = "None" THEN (x \div Delta) % set.p ELSE ((x * set.p) \div Q) % set.p

Round(x) ==
    IF set.mode = "None" THEN ((x + Delta \div 2) \div Delta) % set.p
    ELSE ((x * set.p + Q \div 2) \div Q) % set.p

-----------------------------------------------------------------------------
Init ==
    /\ hint = <<>> /\ squishing = 0 /\ words = <<>>
    /\ col = 0 /\ secret = <<>> /\ mask = <<>> /\ query = <<>>
    /\ row = 0 /\ out = <<>>
    /\ result = <<>>
    /\ phase = "hint"

\* MakeSimpleServer: the hint is of the matrix as it was packed.
MakeHint ==
    /\ phase = "hint"
    /\ hint' = [r \in 0..rows - 1 |-> HintRow(set.mode, [j \in 0..cols - 1 |-> db[<<r, j>>]], cols)]
    /\ phase' = "squish"
    /\ UNCHANGED <<given, squishing, words, asked, row, out, result>>

\* It ends with Squish, where elements are small enough.
Squish ==
    /\ phase = "squish"
    /\ squishing' = IF CanSquish THEN Ratio ELSE 0
    /\ words' = IF CanSquish
                THEN [c \in (0..rows - 1) \X (0..NumWords - 1) |-> Word(c[1], c[2])]
                ELSE db
    /\ phase' = "query"
    /\ UNCHANGED <<given, hint, asked, row, out, result>>

\* The client's query: the j-th element masked, with noise and the input's.
Masked(j, e) == (mask'[j] + e + (IF j - 1 = col' THEN Scale ELSE 0)) % Q

\* One vector, padded by the client ...
QueryNone ==
    /\ phase = "query" /\ set.mode = "None"
    /\ col' \in 0..cols - 1 /\ secret' \in Secrets
    /\ mask' = MaskNone(secret', cols)
    /\ \E noise \in [1..cols -> Noises] :
        query' = [j \in 1..cols |-> Masked(j, noise[j])] \o Zeros(Padding)
    /\ phase' = "extract"
    /\ UNCHANGED <<given, kept, row, out, result>>

\* ... or a sequence of ciphertexts.
QueryHybrid ==
    /\ phase = "query" /\ set.mode = "Hybrid"
    /\ col' \in 0..cols - 1 /\ secret' \in Secrets
    /\ LET pieces == MaskHybrid(secret', cols)
       IN /\ mask' = FlattenSeq(pieces)
          /\ \E noise \in [1..cols -> Noises] :
              query' = [j \in 1..NumA(cols) |->
                          [k \in 1..Len(pieces[j]) |-> Masked((j - 1) * N + k, noise[(j - 1) * N + k])]]
    /\ phase' = "extract"
    /\ UNCHANGED <<given, kept, row, out, result>>

\* Answer begins: ciphertexts are put together and padded.
Vector ==
    IF set.mode = "None" THEN query
    ELSE FlattenSeq([j \in 1..Len(query) |-> SubSeq(query[j], 1, Samples(j - 1, cols))]) \o Zeros(Padding)

\* Then dimensions are compared.  MulVec lets a query be longer than a row by up
\* to two.
Extract ==
    /\ phase = "extract"
    /\ query' = Vector
    /\ out' = [r \in 0..rows + (IF squishing # 0 THEN Block ELSE 0) - 1 |-> 0]
    /\ phase' = IF \/ squishing # 0 /\ NumWords * Ratio = Len(query')
                   \/ squishing = 0 /\ Len(query') \in cols..cols + 2
                THEN "multiply" ELSE "panic"
    /\ UNCHANGED <<given, kept, col, secret, mask, row, result>>

\* Elements the kernel takes out of each word.  That for ciphertexts of 64 bits
\* takes two out of a 32-bit word.
Unpacked == IF set.elem = 32 THEN Ratio ELSE Ratio64

\* A word times the elements of the query that are next.
WordProduct(word, w) ==
    SumOf([k \in 0..Unpacked - 1 |->
            ((word \div 2^(k * Basis)) % 2^Basis) * query[Unpacked * w + k + 1]])

\* matMulVecPacked, one block of rows.
MulVecPacked ==
    /\ phase = "multiply" /\ squishing # 0 /\ row < rows
    /\ \E junk \in Junk :
        out' = [r \in DOMAIN out |->
            IF r \notin row..row + Block - 1 THEN out[r]
            ELSE SumOf([w \in 0..NumWords - 1 |->
                         WordProduct(IF r < rows THEN words[<<r, w>>] ELSE junk, w)]) % Q]
    /\ row' = row + Block
    /\ UNCHANGED <<given, kept, asked, result, phase>>

\* matMulVec, one row.
MulVec ==
    /\ phase = "multiply" /\ squishing = 0 /\ row < rows
    /\ out' = [out EXCEPT ![row] =
                 SumOf([j \in 1..cols |-> words[<<row, j - 1>>] * query[j]]) % Q]
    /\ row' = row + 1
    /\ UNCHANGED <<given, kept, asked, result, phase>>

\* Hint times secret.
Token(r) == SumOf([k \in 0..N - 1 |-> hint[r][k] * secret[k]]) % Q

\* Without the rows added for the kernel.
Recover ==
    /\ phase = "multiply" /\ row >= rows
    /\ result' = [r \in 0..rows - 1 |-> Round((out[r] - Token(r)) % Q)]
    /\ phase' = "done"
    /\ UNCHANGED <<given, kept, asked, row, out>>

Next == MakeHint \/ Squish \/ QueryNone \/ QueryHybrid \/ Extract \/ MulVecPacked \/ MulVec \/ Recover

-----------------------------------------------------------------------------
(* Properties *)

\* Hint times secret is the database times what masks the query: server and
\* client expand the same matrix from the seed, and multiplying a row by it from
\* the left is multiplying by polynomials transposed.
TokenExact ==
    phase \in {"extract", "multiply"} => \A r \in 0..rows - 1 :
        Token(r) = SumOf([j \in 1..cols |-> db[<<r, j - 1>>] * mask[j]]) % Q

\* Client and server pad a query alike, so that it always fits the words.
DimensionsAgree == phase # "panic"

\* MulVecPacked gives what the plain product of the unsquished matrix does (as
\* testMulPacked has it), whatever is behind the matrix in memory.
ProductExact ==
    phase = "multiply" => \A r \in 0..rows - 1 : r < row =>
        out[r] = SumOf([j \in 1..cols |-> db[<<r, j - 1>>] * query[j]]) % Q

\* The noise that rounding takes away, a half of Delta but for the rounding of
\* the scale itself.
NoiseBound == 2 * cols * (set.p - 1) * Max({0} \cup {n : n \in Noises}) + set.p < Delta

==============================================================================
