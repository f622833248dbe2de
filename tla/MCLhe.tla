-------------------------------- MODULE MCLhe --------------------------------
EXTENDS Lhe, Sequences

\* Limbs of three bits: entries of part of a limb to three limbs, of moduli that
\* fill an element of two bits, do not divide Q, or are too large to squish.
MCFormats == [bits : {1, 2, 3, 4, 5, 7}, p : 2..5]

MCNoises == {-1, 1}
MCSecrets == {[k \in 0..N - 1 |-> s[k + 1]] : s \in {<<1, -1, 1>>, <<0, 2, -1>>}}

MCCipher(ctr) == <<(97 * ctr + 31) % Q, (151 * ctr * ctr + 200) % Q>>
MCExpand(seed) == [k \in 0..N - 1 |-> (seed[1] * (k + 3) + seed[2] * (k * k + 1)) % Q]

\* The kernels used: that for 64 bits is never used with a squished matrix.
MCSettings == [elem : {32, 64}, mode : {"None", "Hybrid"}]

\* Rows that fill a block or do not, columns that fill a word or do not, entries
\* of one element or of two.
QueriedWith(formats, settings) ==
    UNION {{[format |-> f, setting |-> s, n |-> k, cols |-> w,
             values |-> [i \in 0..k - 1 |-> (a * i + a + 1) % 2^f.bits]] :
                f \in formats, s \in settings, a \in {1, 2}} : k \in {3, 4}, w \in 2..4}

MCQueried ==
    {q \in QueriedWith([bits : {2, 3}, p : {3, 4, 5}], MCSettings) :
        q.setting.elem = 64 => q.format.p > 2^Basis}
MCQueried64 ==
    {q \in QueriedWith([bits : {2, 3}, p : {3, 4, 5}], MCSettings) :
        q.setting.elem = 64 /\ q.format.p <= 2^Basis}
==============================================================================
