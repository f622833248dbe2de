--------------------------------- MODULE Lhe ---------------------------------
(***************************************************************************)
(* The LHE scheme from entries to entries: a database is packed into a     *)
(* matrix (LheDatabase), the server makes the hint of it, a client queries *)
(* a column and decrypts it (LheAnswer over LheHint), and the entries in   *)
(* that column are put together again from their rows.                     *)
(***************************************************************************)
EXTENDS LheHint

CONSTANTS
    LimbBits, Counts, Widths, MaxBits,
    Basis, Ratio, Ratio64, Block, Secrets, Noises, Junk,
    Formats,     \* of the databases that are packed
    Settings,    \* bits of a ciphertext's elements and mode, of those then queried
    Queried      \* format, setting, number of entries and columns, and values of those

VARIABLES
    format, n, cols, data, db, packed,
    hint, squishing, words, col, secret, mask, query, row, out, result, phase,
    setting      \* NotQueried, or how the database is queried

databaseVars == <<format, n, cols, data, db, packed>>
answerVars == <<hint, squishing, words, col, secret, mask, query, row, out, result, phase>>
vars == <<databaseVars, answerVars, setting>>

Database == INSTANCE LheDatabase

set == [elem |-> setting.elem, mode |-> setting.mode, p |-> format.p]
Rows == Database!Height
Answer == INSTANCE LheAnswer WITH rows <- Rows

NotQueried == [elem |-> 0, mode |-> "None"]

ASSUME LheAssumption ==
    /\ LimbBits \in Nat \ {0} /\ MaxBits \in Nat
    /\ Counts \subseteq Nat \ {0} /\ Widths \subseteq Nat \ {0}
    /\ Formats \subseteq [bits : Nat \ {0}, p : 2..2^LimbBits]
    /\ {Basis, Ratio, Ratio64, Block} \subseteq Nat \ {0}
    /\ Secrets \subseteq [0..N - 1 -> Int] /\ Noises \subseteq Int /\ Junk \subseteq Nat
    /\ Settings \subseteq [elem : {32, 64}, mode : {"None", "Hybrid"}]
    /\ \A s \in Queried :
        /\ s.format \in Formats /\ s.setting \in Settings
        /\ s.n \in Counts /\ s.cols \in Widths
        /\ s.format.bits <= LimbBits /\ s.values \in [0..s.n - 1 -> 0..2^s.format.bits - 1]

\* A number of elements takes any entry: so with every p > 1, as p^bits is no
\* less than 2^bits.  For the proofs, which know nothing of powers.
ASSUME ElementsAssumption ==
    \A f \in Formats : \E w \in 1..f.bits :
        2^f.bits <= f.p^w /\ \A v \in 1..w - 1 : f.p^v < 2^f.bits

\* The limbs of a value of one limb.
OneLimb(value) == [k \in {0} |-> value]

-----------------------------------------------------------------------------
\* Any small database, only packed, or one of those queried.
Init ==
    /\ \/ Database!Init /\ setting = NotQueried
       \/ \E s \in Queried :
            /\ format = s.format /\ n = s.n /\ cols = s.cols /\ setting = s.setting
            /\ data = [i \in 0..s.n - 1 |-> OneLimb(s.values[i])]
            /\ db = [c \in Database!Matrix |-> 0] /\ packed = 0
    /\ Answer!Init

\* NewDB's loop
PackEntry ==
    /\ Database!PackEntry
    /\ UNCHANGED <<answerVars, setting>>

\* Once it is done, MakeSimpleServer goes on, and then a query.
RunScheme ==
    /\ packed = n /\ setting # NotQueried
    /\ UNCHANGED <<databaseVars, setting>>
    /\ Answer!Next

Next == PackEntry \/ RunScheme

Spec == Init /\ [][Next]_vars

-----------------------------------------------------------------------------
(* Properties *)

\* Of the parts: see LheDatabase, and LheAnswer once there is a query.
RoundTrip == Database!RoundTrip
HasRoom == Database!HasRoom

TokenExact == packed = n /\ setting # NotQueried => Answer!TokenExact
DimensionsAgree == Answer!DimensionsAgree
ProductExact == packed = n /\ setting # NotQueried => Answer!ProductExact

\* An entry's elements, from the column decrypted: Ne rows from its row group on.
Retrieved(i, j) == result[Database!Ne * (i \div cols) + j]

\* A client that asks for the column of an entry gets the entry back, whatever
\* the noise and the secret, from the rows that ReconstructElem is given.
RetrievesEntry ==
    phase = "done" /\ Answer!NoiseBound =>
        \A i \in 0..n - 1 : i % cols = col =>
            LET value == Database!Reconstructed([j \in 0..Database!Ne - 1 |-> Retrieved(i, j)])
            IN value = data[i]
==============================================================================
