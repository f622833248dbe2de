---------------------------- MODULE PbcGetBuckets ----------------------------
(***************************************************************************)
(* getBuckets of batching/pbc/common.go for one key.  The key is hashed    *)
(* with a one-byte nonce again and again until numChoices distinct buckets *)
(* have come up.  SHA-256 is any function of the nonce: `digest' is chosen *)
(* once, in Init, because the hash of a key never changes.                 *)
(***************************************************************************)
EXTENDS PbcMode, FiniteSets

CONSTANTS
    NonceSpace,  \* values of the nonce, a byte in the code (256)
    BatchSizes   \* batch sizes the bucket count is derived from

ASSUME GetBucketsAssumption ==
    /\ NonceSpace \in Nat \ {0}
    /\ BatchSizes \subseteq Nat \ {0}

VARIABLES
    numBuckets,  \* fixed, as mode is: its number of buckets for the batch size
    digest,      \* fixed: the candidate bucket each nonce yields
    nonce,
    buckets      \* the choices found, in order

choosing == <<mode, numBuckets, digest, nonce, buckets>>

Nonces == 0..NonceSpace - 1
Candidates == 0..numBuckets - 1

ChoosingInit ==
    /\ mode \in Mode
    /\ \E batchSize \in BatchSizes : numBuckets = NumBuckets(mode, batchSize)
    /\ digest \in [Nonces -> Candidates]
    /\ nonce = 0
    /\ buckets = <<>>

Done == Len(buckets) = NumChoices(mode)

\* Mutant: the nonce is not incremented.
NextCandidateSame == ~Done /\ nonce' = nonce

\* buf[8] = nonce; ...; nonce += 1, which wraps at the end of the byte.
NextCandidate == ~Done /\ nonce' = (nonce + 1) % NonceSpace

\* Mutant: a new choice goes to the front.
AcceptFront ==
    /\ NextCandidate
    /\ digest[nonce] \notin Range(buckets)
    /\ buckets' = <<digest[nonce]>> \o buckets
    /\ UNCHANGED <<mode, numBuckets, digest>>

Accept ==
    /\ NextCandidate
    /\ digest[nonce] \notin Range(buckets)
    /\ buckets' = Append(buckets, digest[nonce])
    /\ UNCHANGED <<mode, numBuckets, digest>>

Skip ==
    /\ NextCandidate
    /\ digest[nonce] \in Range(buckets)
    /\ UNCHANGED <<mode, numBuckets, digest, buckets>>

ChoosingNext == Accept \/ Skip

ChoosingSpec == ChoosingInit /\ [][ChoosingNext]_choosing

\* A sequential loop: it goes on until it is done.
ChoosingFairSpec == ChoosingSpec /\ WF_choosing(ChoosingNext)

-----------------------------------------------------------------------------
\* Buckets the nonces up to n yield.
SeenBy(n) == {digest[m] : m \in 0..n}

\* The nonce that brings the k-th new bucket.
NonceOf(k) == CHOOSE n \in Nonces :
    Cardinality(SeenBy(n)) = k /\ \A m \in 0..n - 1 : Cardinality(SeenBy(m)) < k

\* The hash of the key yields as many buckets as there are choices to make.
Enough == Cardinality(SeenBy(NonceSpace - 1)) >= NumChoices(mode)

\* The choices are the first distinct buckets of the nonces in order, and so a
\* function of the key, and the same one choice first whatever the mode.  The
\* server computes them in EncodeDB and the client again in GenSchedule: the
\* client finds an entry only if both come to the same list.
FirstDistinctInOrder ==
    buckets = [k \in 1..Len(buckets) |-> digest[NonceOf(k)]]

\* Where choices enough exist the loop ends.
FindsThem == Enough => <>Done

\* common.go:130: `Generate numChoices bucket choices for each index'.
AlwaysGenerates == <>Done
==============================================================================
