----------------------------- MODULE PbcSchedule -----------------------------
(***************************************************************************)
(* GenSchedule of batching/pbc/common.go: the client assigns each index it *)
(* wants to a bucket.  Plain hashing appends the key to its one bucket or, *)
(* when P keys are there, drops it.  Cuckoo hashing moves keys between     *)
(* their D buckets: `hand' is the key the current call of cuckooInsert     *)
(* holds and no bucket has, `depth' is that call's depth.  A step is one   *)
(* key placed, moved or dropped.                                           *)
(***************************************************************************)
EXTENDS PbcMode, FiniteSets

CONSTANTS
    Keys,     \* database indices
    NoKey,    \* `hand' between insertions
    Buckets,  \* bucket numbers
    Batches   \* the index sequences a caller may ask for

ASSUME ScheduleAssumption ==
    /\ NoKey \notin Keys
    /\ Batches \subseteq Seq(Keys)

VARIABLES
    choices,   \* fixed, as mode is: getBuckets of every key
    indices,   \* fixed: the batch asked for
    pos,       \* position in indices of the next key to insert
    schedule,  \* the keys of each bucket, <<>> for one absent from the Go map
    hand, depth,
    result     \* "running", or what GenSchedule returned: "nil" or "schedule"

inputs == <<mode, choices, indices>>
vars == <<mode, choices, indices, pos, schedule, hand, depth, result>>

\* The state's types: an eviction always finds a key to take.
TypeOK ==
    /\ mode \in Mode
    /\ choices \in [Keys -> ChoiceLists(mode, Buckets)]
    /\ indices \in Seq(Keys)
    /\ pos \in 1..Len(indices) + 1
    /\ schedule \in [Buckets -> Seq(Keys)]
    /\ hand \in (IF mode = "Cuckoo" THEN Keys ELSE {}) \cup {NoKey}
    /\ depth \in 0..MAX_CUCKOO_ITERS
    /\ result \in {"running", "nil", "schedule"}

-----------------------------------------------------------------------------
Start ==
    /\ pos = 1
    /\ schedule = [b \in Buckets |-> <<>>]
    /\ hand = NoKey
    /\ depth = 0
    /\ result = "running"

Init ==
    /\ mode \in Mode
    /\ choices \in [Keys -> ChoiceLists(mode, Buckets)]
    /\ indices \in Batches
    /\ Start

\* The next key of the batch, still to be inserted.
Pending == result = "running" /\ hand = NoKey /\ pos <= Len(indices)

FirstChoice(key) == choices[key][1]

HashPlace ==
    /\ Pending /\ mode = "Hash"
    /\ LET key == indices[pos]
           b == FirstChoice(key)
       IN /\ Len(schedule[b]) < P
          /\ schedule' = [schedule EXCEPT ![b] = Append(@, key)]
    /\ pos' = pos + 1
    /\ UNCHANGED <<inputs, hand, depth, result>>

HashDrop ==
    /\ Pending /\ mode = "Hash"
    /\ Len(schedule[FirstChoice(indices[pos])]) >= P
    /\ pos' = pos + 1
    /\ UNCHANGED <<inputs, schedule, hand, depth, result>>

\* GenSchedule calls cuckooInsert for the next key.
CuckooTake ==
    /\ Pending /\ mode = "Cuckoo"
    /\ hand' = indices[pos]
    /\ depth' = 0
    /\ pos' = pos + 1
    /\ UNCHANGED <<inputs, schedule, result>>

Inserting == result = "running" /\ hand # NoKey

EmptyChoices == {j \in 1..D : schedule[choices[hand][j]] = <<>>}

\* Mutant: `for bucket := range choices[key]', which ranges over positions.
CuckooPlaceByPosition ==
    /\ Inserting /\ depth < MAX_CUCKOO_ITERS
    /\ \E j \in 1..D :
        /\ schedule[j - 1] = <<>>
        /\ schedule' = [schedule EXCEPT ![j - 1] = <<hand>>]
    /\ hand' = NoKey
    /\ UNCHANGED <<inputs, pos, depth, result>>

\* The first empty candidate takes the key, in the order of the choices.
CuckooPlace ==
    /\ Inserting /\ depth < MAX_CUCKOO_ITERS
    /\ \E j \in EmptyChoices :
        /\ \A i \in EmptyChoices : j <= i
        /\ schedule' = [schedule EXCEPT ![choices[hand][j]] = <<hand>>]
    /\ hand' = NoKey
    /\ UNCHANGED <<inputs, pos, depth, result>>

\* Mutants of an eviction, as functions of the bucket: the key evicted is
\* forgotten, or the key in hand not put in its place.
Evicting(b, newHand, newKeys, newDepth) ==
    /\ hand' = newHand
    /\ schedule' = [schedule EXCEPT ![b] = newKeys]
    /\ depth' = newDepth
    /\ UNCHANGED <<inputs, pos, result>>

CanEvict == Inserting /\ depth < MAX_CUCKOO_ITERS /\ EmptyChoices = {}

CuckooEvictForgets == CanEvict /\ \E j \in 1..D :
    Evicting(choices[hand][j], NoKey, <<hand>>, depth + 1)
CuckooEvictKeeps == CanEvict /\ \E j \in 1..D :
    LET b == choices[hand][j] IN Evicting(b, schedule[b][1], schedule[b], depth + 1)

\* Mutant: cuckooInsert calls itself with `depth' for `depth+1'.
CuckooEvictSameDepth == CanEvict /\ \E j \in 1..D :
    LET b == choices[hand][j] IN Evicting(b, schedule[b][1], <<hand>>, depth)

\* With no empty candidate a random one gives its key up to the next call.
CuckooEvict ==
    /\ Inserting /\ depth < MAX_CUCKOO_ITERS
    /\ EmptyChoices = {}
    /\ \E j \in 1..D :
        LET b == choices[hand][j]
        IN /\ hand' = schedule[b][1]
           /\ schedule' = [schedule EXCEPT ![b] = <<hand>>]
    /\ depth' = depth + 1
    /\ UNCHANGED <<inputs, pos, result>>

\* Mutant: GenSchedule does not look at what cuckooInsert returns.
CuckooGiveUpUnnoticed ==
    /\ Inserting /\ depth >= MAX_CUCKOO_ITERS
    /\ result' = "schedule"
    /\ UNCHANGED <<inputs, pos, schedule, hand, depth>>

CuckooGiveUp ==
    /\ Inserting /\ depth >= MAX_CUCKOO_ITERS
    /\ result' = "nil"
    /\ UNCHANGED <<inputs, pos, schedule, hand, depth>>

Return ==
    /\ result = "running" /\ hand = NoKey /\ pos > Len(indices)
    /\ result' = "schedule"
    /\ UNCHANGED <<inputs, pos, schedule, hand, depth>>

Next == HashPlace \/ HashDrop \/ CuckooTake \/ CuckooPlace \/ CuckooEvict
           \/ CuckooGiveUp \/ Return

\* GenSchedule is one sequential call: it takes its next step until it returns.
Spec == Init /\ [][Next]_vars

FairSpec == Spec /\ WF_vars(Next)

-----------------------------------------------------------------------------
Occupied == {b \in Buckets : schedule[b] # <<>>}
Scheduled == UNION {Range(schedule[b]) : b \in Buckets}
Taken == {indices[i] : i \in 1..pos - 1}

\* A key is only ever scheduled in one of its own choices: Client.Query reads
\* mapping[key][bucket], which has no entry for any other bucket.
ScheduledAtAChoice ==
    \A b \in Buckets : \A key \in Range(schedule[b]) : b \in Range(choices[key])

\* Evictions lose nothing.  A key GenSchedule has gone past is in the schedule
\* or in hand, but for the one loss the code means: under plain hashing, a key
\* whose bucket already holds P others.
NoKeyLost ==
    \A i \in 1..pos - 1 :
        LET key == indices[i]
        IN \/ key \in Scheduled \cup {hand}
           \/ mode = "Hash" /\ Len(schedule[FirstChoice(key)]) = P

\* Nothing is scheduled that was not asked for.
OnlyRequested == Scheduled \cup ({hand} \ {NoKey}) \subseteq Taken

\* Client.Query computes queriesPer - len(inputs) in uint64 and asks for that
\* many dummies: a bucket with more keys than its queries would wrap around.
FitsQueriesPer == \A b \in Buckets : Len(schedule[b]) <= NumQueriesPer(mode)

\* A key of a batch without repetitions is held in one place: a bucket's one
\* slot, or the hand.  Otherwise evicting it once would leave a second copy
\* that takes another key's bucket.
HeldOnce ==
    IsInjective(indices) =>
        /\ \A b, c \in Buckets : \A i \in DOMAIN schedule[b], j \in DOMAIN schedule[c] :
                schedule[b][i] = schedule[c][j] => b = c /\ i = j
        /\ hand \notin Scheduled

\* A cuckoo schedule of a batch without repetitions has a bucket per key
\* (pbc_test.go requires len(schedule) = batchSize of every schedule returned).
CuckooServesAll ==
    mode = "Cuckoo" /\ result = "schedule" /\ IsInjective(indices)
        => Cardinality(Occupied) = Len(indices)

\* A bucket once used is never empty again, whatever is evicted: the recursion
\* of cuckooInsert depends on schedule[replaceIdx][0] being there.
OccupiedStays == [][Occupied \subseteq Occupied']_vars

\* GenSchedule returns, however the evictions go.
Returns == <>(result # "running")
=============================================================================
