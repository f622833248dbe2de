------------------------------ MODULE Pbc_proofs ------------------------------
(***************************************************************************)
(* Proofs about the batch codes.  GenSchedule: for every number of buckets,*)
(* every D, P and MAX_CUCKOO_ITERS, every batch and every outcome of the   *)
(* hash function.  getBuckets: for every hash function, size of the nonce  *)
(* and number of choices, the list it builds is a function of the key      *)
(* alone, and one GenSchedule takes.                                       *)
(***************************************************************************)
EXTENDS PbcSchedule, PbcGetBuckets, FiniteSetTheorems, TLAPS

\* Every choice of a key is a bucket, and a key has a first choice.
LEMMA ChoiceIsBucket ==
    ASSUME TypeOK, NEW key \in Keys, NEW j \in 1..NumChoices(mode)
    PROVE  choices[key][j] \in Buckets /\ choices[key][j] \in Range(choices[key])
  BY DEF TypeOK, ChoiceLists, Range

\* The one bucket plain hashing gives a key is a bucket, and among its choices.
LEMMA FirstChoiceIsBucket ==
    ASSUME TypeOK, NEW key \in Keys
    PROVE  FirstChoice(key) \in Buckets /\ FirstChoice(key) \in Range(choices[key])
  <1>1. 1 \in 1..NumChoices(mode)
    BY ModeAssumption DEF TypeOK, Mode, NumChoices
  <1>2. QED
    BY <1>1, ChoiceIsBucket DEF FirstChoice

\* While a key is in hand under cuckoo hashing, its D choices are buckets.
LEMMA CuckooChoice ==
    ASSUME TypeOK, mode = "Cuckoo", hand \in Keys, NEW j \in 1..D
    PROVE  choices[hand][j] \in Buckets /\ choices[hand][j] \in Range(choices[hand])
  BY ChoiceIsBucket DEF NumChoices

\* A bucket that is not empty has a first key.
LEMMA FirstKey ==
    ASSUME NEW s \in Seq(Keys), s # <<>>
    PROVE  1 \in DOMAIN s /\ s[1] \in Keys /\ Len(s) >= 1
  OBVIOUS

-----------------------------------------------------------------------------
\* Type correctness: positions, buckets and depth stay in range, and an
\* eviction always finds a key to take in hand.
THEOREM TypeCorrect == Spec => []TypeOK
  <1>1. Init => TypeOK
    BY ModeAssumption, ScheduleAssumption DEF Init, Start, TypeOK
  <1>2. TypeOK /\ [Next]_vars => TypeOK'
    <2> SUFFICES ASSUME TypeOK, [Next]_vars PROVE TypeOK'
      OBVIOUS
    <2> USE ModeAssumption, ScheduleAssumption
    <2>1. CASE HashPlace
      <3>1. indices[pos] \in Keys
        BY <2>1 DEF HashPlace, Pending, TypeOK
      <3>2. FirstChoice(indices[pos]) \in Buckets
        BY <3>1, FirstChoiceIsBucket
      <3>3. QED
        BY <2>1, <3>1, <3>2 DEF HashPlace, Pending, TypeOK, inputs
    <2>2. CASE HashDrop
      BY <2>2 DEF HashDrop, Pending, TypeOK, inputs
    <2>3. CASE CuckooTake
      BY <2>3 DEF CuckooTake, Pending, TypeOK, inputs
    <2>4. CASE CuckooPlace
      <3>1. PICK b : schedule' = [schedule EXCEPT ![b] = <<hand>>]
        BY <2>4 DEF CuckooPlace
      <3>2. <<hand>> \in Seq(Keys)
        BY <2>4 DEF CuckooPlace, Inserting, TypeOK
      <3>3. schedule' \in [Buckets -> Seq(Keys)]
        BY <3>1, <3>2 DEF TypeOK
      <3>4. QED
        BY <2>4, <3>3 DEF CuckooPlace, TypeOK, inputs
    <2>5. CASE CuckooEvict
      <3>1. mode = "Cuckoo" /\ hand \in Keys /\ <<hand>> \in Seq(Keys)
        BY <2>5 DEF CuckooEvict, Inserting, TypeOK
      <3>2. PICK j \in 1..D :
               /\ hand' = schedule[choices[hand][j]][1]
               /\ schedule' = [schedule EXCEPT ![choices[hand][j]] = <<hand>>]
        BY <2>5 DEF CuckooEvict
      <3>3. choices[hand][j] \in Buckets /\ schedule[choices[hand][j]] # <<>>
        BY <2>5, <3>1, CuckooChoice DEF CuckooEvict, EmptyChoices
      <3>4. hand' \in Keys
        BY <3>2, <3>3, FirstKey DEF TypeOK
      <3>5. schedule' \in [Buckets -> Seq(Keys)]
        BY <3>1, <3>2 DEF TypeOK
      <3>6. QED
        BY <2>5, <3>1, <3>4, <3>5 DEF CuckooEvict, TypeOK, inputs
    <2>6. CASE CuckooGiveUp
      BY <2>6 DEF CuckooGiveUp, TypeOK, inputs
    <2>7. CASE Return
      BY <2>7 DEF Return, TypeOK, inputs
    <2>8. CASE UNCHANGED vars
      BY <2>8 DEF vars, TypeOK
    <2>9. QED
      BY <2>1, <2>2, <2>3, <2>4, <2>5, <2>6, <2>7, <2>8 DEF Next
  <1>3. QED
    BY <1>1, <1>2, PTL DEF Spec

-----------------------------------------------------------------------------
(* What each action does to the schedule.                                  *)

\* The keys of a bucket with one key.
LEMMA RangeSingleton ==
    ASSUME NEW key \in Keys
    PROVE  <<key>> \in Seq(Keys) /\ Range(<<key>>) = {key}
  BY DEF Range

\* Appending a key to a bucket adds it to the keys of the bucket.
LEMMA RangeAppend ==
    ASSUME NEW s \in Seq(Keys), NEW key \in Keys
    PROVE  Append(s, key) \in Seq(Keys) /\ Range(Append(s, key)) = Range(s) \cup {key}
  <1>1. Append(s, key) \in Seq(Keys) /\ Len(Append(s, key)) = Len(s) + 1
    OBVIOUS
  <1>2. ASSUME NEW x \in Range(s) PROVE x \in Range(Append(s, key))
    <2>1. PICK i \in 1..Len(s) : s[i] = x
      BY <1>2 DEF Range
    <2>2. Append(s, key)[i] = x /\ i \in DOMAIN Append(s, key)
      BY <2>1
    <2>3. QED
      BY <2>2 DEF Range
  <1>3. key \in Range(Append(s, key))
    <2>1. Append(s, key)[Len(s) + 1] = key /\ Len(s) + 1 \in DOMAIN Append(s, key)
      OBVIOUS
    <2>2. QED
      BY <2>1 DEF Range
  <1>4. Range(Append(s, key)) \subseteq Range(s) \cup {key}
    BY DEF Range
  <1>5. QED
    BY <1>1, <1>2, <1>3, <1>4

\* Plain hashing appends the next key of the batch to its first choice, which
\* has fewer than P keys.
LEMMA HashPlaceEffect ==
    ASSUME TypeOK, HashPlace
    PROVE  /\ mode = "Hash" /\ pos \in 1..Len(indices) /\ pos' = pos + 1
           /\ hand = NoKey /\ hand' = NoKey /\ UNCHANGED inputs
           /\ \E b \in Buckets, key \in Keys :
                /\ key = indices[pos] /\ b = FirstChoice(key) /\ b \in Range(choices[key])
                /\ Len(schedule[b]) < P
                /\ schedule' = [schedule EXCEPT ![b] = Append(schedule[b], key)]
  <1>1. pos \in 1..Len(indices) /\ indices[pos] \in Keys
    BY DEF HashPlace, Pending, TypeOK
  <1>2. FirstChoice(indices[pos]) \in Buckets
           /\ FirstChoice(indices[pos]) \in Range(choices[indices[pos]])
    BY <1>1, FirstChoiceIsBucket
  <1>3. QED
    BY <1>1, <1>2 DEF HashPlace, Pending

\* An insertion that ends puts the key in hand in an empty bucket of its own.
LEMMA CuckooPlaceEffect ==
    ASSUME TypeOK, CuckooPlace
    PROVE  /\ mode = "Cuckoo" /\ hand \in Keys /\ <<hand>> \in Seq(Keys)
           /\ hand' = NoKey /\ UNCHANGED <<inputs, pos>>
           /\ \E b \in Buckets : /\ b \in Range(choices[hand])
                                 /\ schedule[b] = <<>>
                                 /\ schedule' = [schedule EXCEPT ![b] = <<hand>>]
  <1>1. mode = "Cuckoo" /\ hand \in Keys
    BY DEF CuckooPlace, Inserting, TypeOK
  <1>2. PICK j \in 1..D : /\ schedule[choices[hand][j]] = <<>>
                          /\ schedule' = [schedule EXCEPT ![choices[hand][j]] = <<hand>>]
    BY DEF CuckooPlace, EmptyChoices
  <1>3. QED
    BY <1>1, <1>2, CuckooChoice, RangeSingleton DEF CuckooPlace

\* An eviction swaps the key in hand with the first key of one of its choices.
LEMMA CuckooEvictEffect ==
    ASSUME TypeOK, CuckooEvict
    PROVE  /\ mode = "Cuckoo" /\ hand \in Keys /\ <<hand>> \in Seq(Keys)
           /\ UNCHANGED <<inputs, pos>>
           /\ \E b \in Buckets : /\ b \in Range(choices[hand])
                                 /\ schedule[b] # <<>> /\ hand' = schedule[b][1]
                                 /\ schedule' = [schedule EXCEPT ![b] = <<hand>>]
  <1>1. mode = "Cuckoo" /\ hand \in Keys
    BY DEF CuckooEvict, Inserting, TypeOK
  <1>2. PICK j \in 1..D :
           /\ hand' = schedule[choices[hand][j]][1]
           /\ schedule' = [schedule EXCEPT ![choices[hand][j]] = <<hand>>]
    BY DEF CuckooEvict
  <1>3. schedule[choices[hand][j]] # <<>>
    BY DEF CuckooEvict, EmptyChoices
  <1>4. QED
    BY <1>1, <1>2, <1>3, CuckooChoice, RangeSingleton DEF CuckooEvict

\* The other steps change no bucket.
LEMMA ScheduleKept ==
    ASSUME HashDrop \/ CuckooTake \/ CuckooGiveUp \/ Return \/ UNCHANGED vars
    PROVE  UNCHANGED <<inputs, schedule>>
  BY DEF HashDrop, CuckooTake, CuckooGiveUp, Return, vars, inputs

-----------------------------------------------------------------------------
\* Every key of the schedule sits in one of its own bucket choices.
THEOREM Placement == Spec => []ScheduledAtAChoice
  <1>1. Init => ScheduledAtAChoice
    BY DEF Init, Start, ScheduledAtAChoice, Range
  <1>2. TypeOK /\ ScheduledAtAChoice /\ [Next]_vars => ScheduledAtAChoice'
    <2> SUFFICES ASSUME TypeOK, ScheduledAtAChoice, [Next]_vars,
                        NEW c \in Buckets, NEW key \in Range(schedule'[c])
                 PROVE  c \in Range(choices'[key])
      BY DEF ScheduledAtAChoice
    <2>1. CASE HashPlace
      <3>1. PICK b \in Buckets, k \in Keys :
               /\ b \in Range(choices[k])
               /\ schedule' = [schedule EXCEPT ![b] = Append(schedule[b], k)]
        BY <2>1, HashPlaceEffect
      <3>2. choices' = choices
        BY <2>1, HashPlaceEffect DEF inputs
      <3>3. key \in Range(schedule[c]) \/ (c = b /\ key = k)
        BY <3>1, RangeAppend DEF TypeOK
      <3>4. QED
        BY <3>1, <3>2, <3>3 DEF ScheduledAtAChoice
    <2>2. ASSUME NEW b \in Buckets, hand \in Keys, b \in Range(choices[hand]),
                 choices' = choices,
                 schedule' = [schedule EXCEPT ![b] = <<hand>>]
          PROVE  c \in Range(choices'[key])
      <3>1. key \in Range(schedule[c]) \/ (c = b /\ key = hand)
        BY <2>2, RangeSingleton DEF TypeOK
      <3>2. QED
        BY <2>2, <3>1 DEF ScheduledAtAChoice
    <2>3. CASE CuckooPlace
      BY <2>2, <2>3, CuckooPlaceEffect DEF inputs
    <2>4. CASE CuckooEvict
      BY <2>2, <2>4, CuckooEvictEffect DEF inputs
    <2>5. CASE UNCHANGED <<inputs, schedule>>
      BY <2>5 DEF ScheduledAtAChoice, inputs
    <2>6. QED
      BY <2>1, <2>3, <2>4, <2>5, ScheduleKept DEF Next
  <1>3. QED
    BY <1>1, <1>2, TypeCorrect, PTL DEF Spec

\* No bucket is given more keys than it answers queries, so the count of
\* dummies Client.Query computes never wraps around.
THEOREM QueriesFit == Spec => []FitsQueriesPer
  <1>1. Init => FitsQueriesPer
    BY ModeAssumption DEF Init, Start, FitsQueriesPer, NumQueriesPer
  <1>2. TypeOK /\ FitsQueriesPer /\ [Next]_vars => FitsQueriesPer'
    <2> SUFFICES ASSUME TypeOK, FitsQueriesPer, [Next]_vars, NEW c \in Buckets
                 PROVE  Len(schedule'[c]) <= NumQueriesPer(mode')
      BY DEF FitsQueriesPer
    <2> USE ModeAssumption
    <2>1. CASE HashPlace
      <3>1. PICK b \in Buckets, k \in Keys :
               /\ Len(schedule[b]) < P
               /\ schedule' = [schedule EXCEPT ![b] = Append(schedule[b], k)]
        BY <2>1, HashPlaceEffect
      <3>2. mode = "Hash" /\ mode' = mode
        BY <2>1, HashPlaceEffect DEF inputs
      <3>3. Len(schedule'[b]) = Len(schedule[b]) + 1
        BY <3>1 DEF TypeOK
      <3>4. c # b => schedule'[c] = schedule[c]
        BY <3>1 DEF TypeOK
      <3>5. QED
        BY <3>1, <3>2, <3>3, <3>4 DEF FitsQueriesPer, NumQueriesPer, TypeOK
    <2>2. ASSUME NEW b \in Buckets, mode = "Cuckoo", mode' = mode,
                 schedule' = [schedule EXCEPT ![b] = <<hand>>]
          PROVE  Len(schedule'[c]) <= NumQueriesPer(mode')
      BY <2>2 DEF FitsQueriesPer, NumQueriesPer, TypeOK
    <2>3. CASE CuckooPlace
      BY <2>2, <2>3, CuckooPlaceEffect DEF inputs
    <2>4. CASE CuckooEvict
      BY <2>2, <2>4, CuckooEvictEffect DEF inputs
    <2>5. CASE UNCHANGED <<inputs, schedule>>
      BY <2>5 DEF FitsQueriesPer, inputs
    <2>6. QED
      BY <2>1, <2>3, <2>4, <2>5, ScheduleKept DEF Next
  <1>3. QED
    BY <1>1, <1>2, TypeCorrect, PTL DEF Spec

-----------------------------------------------------------------------------
(* Conservation: the keys of the schedule, and the one in hand.            *)

\* How the steps that fill a bucket change the keys that are scheduled.
LEMMA AppendAddsOne ==
    ASSUME TypeOK, NEW b \in Buckets, NEW key \in Keys,
           schedule' = [schedule EXCEPT ![b] = Append(schedule[b], key)]
    PROVE  Scheduled' = Scheduled \cup {key}
  <1>1. /\ Range(schedule'[b]) = Range(schedule[b]) \cup {key}
        /\ \A c \in Buckets \ {b} : Range(schedule'[c]) = Range(schedule[c])
    BY RangeAppend DEF TypeOK
  <1>2. Scheduled \cup {key} \subseteq Scheduled'
    BY <1>1 DEF Scheduled
  <1>3. Scheduled' \subseteq Scheduled \cup {key}
    BY <1>1 DEF Scheduled
  <1>4. QED
    BY <1>2, <1>3

\* Putting the key in hand in a cuckoo bucket loses at most the key there.
LEMMA ReplaceSwapsOne ==
    ASSUME TypeOK, FitsQueriesPer, mode = "Cuckoo", NEW b \in Buckets, hand \in Keys,
           schedule' = [schedule EXCEPT ![b] = <<hand>>]
    PROVE  /\ hand \in Scheduled'
           /\ Scheduled' \subseteq Scheduled \cup {hand}
           /\ schedule[b] = <<>> => Scheduled \subseteq Scheduled'
           /\ schedule[b] # <<>> => Scheduled \subseteq Scheduled' \cup {schedule[b][1]}
  <1>1. \A c \in Buckets : Range(schedule'[c]) = IF c = b THEN {hand} ELSE Range(schedule[c])
    BY RangeSingleton DEF TypeOK
  <1>2. schedule[b] = <<>> => Range(schedule[b]) = {}
    BY DEF Range
  <1>3. Len(schedule[b]) <= 1 /\ schedule[b] \in Seq(Keys)
    BY DEF FitsQueriesPer, NumQueriesPer, TypeOK
  <1>4. schedule[b] # <<>> => Range(schedule[b]) = {schedule[b][1]}
    BY <1>3 DEF Range
  <1>5. QED
    BY <1>1, <1>2, <1>4 DEF Scheduled

\* A key GenSchedule went past is scheduled, in hand, or was dropped by plain
\* hashing from a bucket that is full and stays so.
THEOREM Conservation == Spec => []NoKeyLost
  <1>1. Init => NoKeyLost
    BY DEF Init, Start, NoKeyLost
  <1>2. TypeOK /\ FitsQueriesPer /\ NoKeyLost /\ [Next]_vars => NoKeyLost'
    <2> SUFFICES ASSUME TypeOK, FitsQueriesPer, NoKeyLost, [Next]_vars,
                        NEW i \in 1..pos' - 1, NEW key, key = indices'[i]
                 PROVE  \/ key \in Scheduled' \cup {hand'}
                        \/ mode' = "Hash" /\ Len(schedule'[choices'[key][1]]) = P
      BY DEF NoKeyLost, FirstChoice
    <2> DEFINE Kept == \/ key \in Scheduled \cup {hand}
                       \/ mode = "Hash" /\ Len(schedule[choices[key][1]]) = P
    <2> USE ModeAssumption
    <2>1. CASE HashPlace
      <3>1. PICK b \in Buckets, k \in Keys :
               /\ k = indices[pos] /\ Len(schedule[b]) < P
               /\ schedule' = [schedule EXCEPT ![b] = Append(schedule[b], k)]
        BY <2>1, HashPlaceEffect
      <3>2. Scheduled' = Scheduled \cup {k}
        BY <3>1, AppendAddsOne
      <3>3. UNCHANGED inputs /\ hand' = hand /\ pos' = pos + 1
        BY <2>1, HashPlaceEffect
      <3>4. i = pos \/ i \in 1..pos - 1
        BY <3>3 DEF TypeOK
      <3>5. CASE i = pos
        BY <3>1, <3>2, <3>3, <3>5 DEF inputs
      <3>6. CASE i \in 1..pos - 1
        <4>1. Kept
          BY <3>3, <3>6 DEF NoKeyLost, FirstChoice, inputs
        <4>2. \A c : c # b => schedule'[c] = schedule[c]
          BY <3>1 DEF TypeOK
        <4>3. QED
          BY <4>1, <4>2, <3>1, <3>2, <3>3 DEF inputs
      <3>7. QED
        BY <3>4, <3>5, <3>6
    <2>2. CASE HashDrop
      <3>1. /\ UNCHANGED <<inputs, schedule, hand>> /\ pos' = pos + 1
            /\ mode = "Hash" /\ pos \in 1..Len(indices)
            /\ Len(schedule[FirstChoice(indices[pos])]) >= P
        BY <2>2 DEF HashDrop, Pending, TypeOK
      <3>2. Len(schedule[FirstChoice(indices[pos])]) = P
        <4>1. FirstChoice(indices[pos]) \in Buckets
          BY <3>1, FirstChoiceIsBucket DEF TypeOK
        <4>2. QED
          BY <3>1, <4>1 DEF FitsQueriesPer, NumQueriesPer, TypeOK
      <3>3. i = pos \/ i \in 1..pos - 1
        BY <3>1 DEF TypeOK
      <3>4. QED
        BY <3>1, <3>2, <3>3 DEF NoKeyLost, FirstChoice, Scheduled, inputs
    <2>3. CASE CuckooTake
      <3>1. /\ UNCHANGED <<inputs, schedule>> /\ pos' = pos + 1
            /\ hand = NoKey /\ hand' = indices[pos] /\ pos \in 1..Len(indices)
        BY <2>3 DEF CuckooTake, Pending, TypeOK
      <3>2. i = pos \/ i \in 1..pos - 1
        BY <3>1 DEF TypeOK
      <3>3. i \in 1..pos - 1 => key \in Keys
        BY <3>1 DEF TypeOK, inputs
      <3>4. QED
        BY <3>1, <3>2, <3>3, ScheduleAssumption DEF NoKeyLost, FirstChoice, Scheduled, inputs
    <2>4. CASE CuckooPlace
      <3>1. /\ mode = "Cuckoo" /\ hand \in Keys
            /\ UNCHANGED <<inputs, pos>>
        BY <2>4, CuckooPlaceEffect
      <3>2. PICK b \in Buckets : /\ schedule[b] = <<>>
                                 /\ schedule' = [schedule EXCEPT ![b] = <<hand>>]
        BY <2>4, CuckooPlaceEffect
      <3>3. Scheduled \cup {hand} \subseteq Scheduled'
        BY <3>1, <3>2, ReplaceSwapsOne
      <3>4. Kept
        BY <3>1 DEF NoKeyLost, FirstChoice, inputs
      <3>5. QED
        BY <3>1, <3>3, <3>4
    <2>5. CASE CuckooEvict
      <3>1. /\ mode = "Cuckoo" /\ hand \in Keys
            /\ UNCHANGED <<inputs, pos>>
        BY <2>5, CuckooEvictEffect
      <3>2. PICK b \in Buckets : /\ schedule[b] # <<>> /\ hand' = schedule[b][1]
                                 /\ schedule' = [schedule EXCEPT ![b] = <<hand>>]
        BY <2>5, CuckooEvictEffect
      <3>3. Scheduled \cup {hand} \subseteq Scheduled' \cup {hand'}
        BY <3>1, <3>2, ReplaceSwapsOne
      <3>4. Kept
        BY <3>1 DEF NoKeyLost, FirstChoice, inputs
      <3>5. QED
        BY <3>1, <3>3, <3>4
    <2>6. CASE CuckooGiveUp \/ Return \/ UNCHANGED vars
      <3>1. UNCHANGED <<inputs, pos, schedule, hand>>
        BY <2>6 DEF CuckooGiveUp, Return, vars, inputs
      <3>2. QED
        BY <3>1 DEF NoKeyLost, FirstChoice, Scheduled, inputs
    <2>7. QED
      BY <2>1, <2>2, <2>3, <2>4, <2>5, <2>6 DEF Next
  <1>3. QED
    BY <1>1, <1>2, TypeCorrect, QueriesFit, PTL DEF Spec

\* The schedule and the hand hold only keys the caller asked for.
THEOREM Requested == Spec => []OnlyRequested
  <1>1. Init => OnlyRequested
    BY DEF Init, Start, OnlyRequested, Scheduled, Range
  <1>2. TypeOK /\ FitsQueriesPer /\ OnlyRequested /\ [Next]_vars => OnlyRequested'
    <2> SUFFICES ASSUME TypeOK, FitsQueriesPer, OnlyRequested, [Next]_vars
                 PROVE  OnlyRequested'
      OBVIOUS
    <2>1. Taken \subseteq Taken'
      BY DEF Next, HashPlace, HashDrop, CuckooTake, CuckooPlace, CuckooEvict,
             CuckooGiveUp, Return, vars, inputs, Taken, TypeOK
    <2>2. CASE HashPlace
      <3>1. PICK b \in Buckets, k \in Keys :
               /\ k = indices[pos]
               /\ schedule' = [schedule EXCEPT ![b] = Append(schedule[b], k)]
        BY <2>2, HashPlaceEffect
      <3>2. Scheduled' = Scheduled \cup {k} /\ hand' = NoKey
        BY <2>2, <3>1, AppendAddsOne, HashPlaceEffect
      <3>3. k \in Taken'
        BY <2>2, <3>1, HashPlaceEffect DEF Taken, inputs, TypeOK
      <3>4. QED
        BY <2>1, <3>2, <3>3 DEF OnlyRequested
    <2>3. CASE CuckooTake
      <3>1. hand' \in Taken' /\ Scheduled' = Scheduled
        BY <2>3 DEF CuckooTake, Pending, Taken, TypeOK, inputs, Scheduled
      <3>2. QED
        BY <2>1, <3>1 DEF OnlyRequested
    <2>4. CASE CuckooPlace
      <3>1. PICK b \in Buckets : schedule' = [schedule EXCEPT ![b] = <<hand>>]
        BY <2>4, CuckooPlaceEffect
      <3>2. /\ Scheduled' \subseteq Scheduled \cup {hand}
            /\ hand \in Keys /\ hand' = NoKey
        BY <2>4, <3>1, CuckooPlaceEffect, ReplaceSwapsOne
      <3>3. QED
        BY <2>1, <3>2, ScheduleAssumption DEF OnlyRequested
    <2>5. CASE CuckooEvict
      <3>1. PICK b \in Buckets : /\ schedule[b] # <<>> /\ hand' = schedule[b][1]
                                 /\ schedule' = [schedule EXCEPT ![b] = <<hand>>]
        BY <2>5, CuckooEvictEffect
      <3>2. Scheduled' \subseteq Scheduled \cup {hand} /\ hand \in Keys
        BY <2>5, <3>1, CuckooEvictEffect, ReplaceSwapsOne
      <3>3. hand' \in Scheduled
        BY <3>1, FirstKey DEF Scheduled, Range, TypeOK
      <3>4. QED
        BY <2>1, <3>2, <3>3, ScheduleAssumption DEF OnlyRequested
    <2>6. CASE HashDrop \/ CuckooGiveUp \/ Return \/ UNCHANGED vars
      <3>1. Scheduled' = Scheduled /\ hand' = hand
        BY <2>6 DEF HashDrop, CuckooGiveUp, Return, vars, Scheduled
      <3>2. QED
        BY <2>1, <3>1 DEF OnlyRequested
    <2>7. QED
      BY <2>2, <2>3, <2>4, <2>5, <2>6 DEF Next
  <1>3. QED
    BY <1>1, <1>2, TypeCorrect, QueriesFit, PTL DEF Spec

\* A key of a batch without repetitions is held in one place only.
THEOREM OneHolder == Spec => []HeldOnce
  <1> DEFINE Holds(k, b, i) == i \in DOMAIN schedule[b] /\ schedule[b][i] = k
  <1>1. Init => HeldOnce
    <2> SUFFICES ASSUME Init PROVE HeldOnce
      OBVIOUS
    <2>1. \A b \in Buckets : DOMAIN schedule[b] = {}
      BY DEF Init, Start
    <2>2. Scheduled = {}
      BY <2>1 DEF Scheduled, Range
    <2>3. QED
      BY <2>1, <2>2 DEF HeldOnce
  <1>2. TypeOK /\ FitsQueriesPer /\ OnlyRequested /\ HeldOnce /\ [Next]_vars => HeldOnce'
    <2> SUFFICES ASSUME TypeOK, FitsQueriesPer, OnlyRequested, HeldOnce, [Next]_vars,
                        IsInjective(indices), indices' = indices
                 PROVE  HeldOnce'
      BY DEF Next, HashPlace, HashDrop, CuckooTake, CuckooPlace, CuckooEvict,
             CuckooGiveUp, Return, vars, inputs, HeldOnce
    <2> USE ScheduleAssumption
    <2> DEFINE Once == \A b, c \in Buckets :
                          \A i \in DOMAIN schedule'[b], j \in DOMAIN schedule'[c] :
                              schedule'[b][i] = schedule'[c][j] => b = c /\ i = j
    <2>1. Once /\ hand' \notin Scheduled' => HeldOnce'
      BY DEF HeldOnce
    <2>2. Scheduled \subseteq Keys
      BY DEF Scheduled, Range, TypeOK
    <2>3. ASSUME Pending PROVE indices[pos] \in Keys /\ indices[pos] \notin Scheduled
      <3>1. indices[pos] \notin Taken
        BY <2>3 DEF Pending, Taken, TypeOK, IsInjective
      <3>2. QED
        BY <2>3, <3>1 DEF OnlyRequested, Pending, TypeOK
    <2>4. CASE HashPlace
      <3>1. PICK b \in Buckets, k \in Keys :
               /\ k = indices[pos]
               /\ schedule' = [schedule EXCEPT ![b] = Append(schedule[b], k)]
        BY <2>4, HashPlaceEffect
      <3>2. k \notin Scheduled
        BY <2>3, <2>4, <3>1 DEF HashPlace
      <3>3. hand' = NoKey /\ Scheduled' \subseteq Keys
        <4>1. hand' = NoKey
          BY <2>4, HashPlaceEffect
        <4>2. Scheduled' = Scheduled \cup {k}
          BY <3>1, AppendAddsOne
        <4>3. QED
          BY <2>2, <4>1, <4>2
      <3>4. \A c \in Buckets : \A i \in DOMAIN schedule'[c] :
               c # b \/ i # Len(schedule[b]) + 1 => Holds(schedule'[c][i], c, i)
        BY <3>1 DEF TypeOK
      <3>5. schedule'[b][Len(schedule[b]) + 1] = k
        BY <3>1 DEF TypeOK
      <3>6. \A c \in Buckets : \A i : ~Holds(k, c, i)
        BY <3>2 DEF Scheduled, Range
      <3>7. Once
        BY <3>4, <3>5, <3>6 DEF HeldOnce
      <3>8. QED
        BY <2>1, <3>3, <3>7
    <2>5. ASSUME NEW b \in Buckets, hand \in Keys, mode = "Cuckoo",
                 schedule' = [schedule EXCEPT ![b] = <<hand>>]
          PROVE  Once
      <3>1. \A c \in Buckets : c # b => schedule'[c] = schedule[c]
        BY <2>5 DEF TypeOK
      <3>2. DOMAIN schedule'[b] = {1} /\ schedule'[b][1] = hand
        BY <2>5 DEF TypeOK
      <3>3. \A c \in Buckets : \A i : ~Holds(hand, c, i)
        BY DEF HeldOnce, Scheduled, Range
      <3>4. QED
        BY <3>1, <3>2, <3>3 DEF HeldOnce
    <2>6. CASE CuckooPlace
      <3>1. PICK b \in Buckets : schedule' = [schedule EXCEPT ![b] = <<hand>>]
        BY <2>6, CuckooPlaceEffect
      <3>2. /\ hand \in Keys /\ mode = "Cuckoo" /\ hand' = NoKey
            /\ Scheduled' \subseteq Keys
        BY <2>2, <2>6, <3>1, CuckooPlaceEffect, ReplaceSwapsOne
      <3>3. QED
        BY <2>1, <2>5, <3>1, <3>2
    <2>7. CASE CuckooEvict
      <3>1. PICK b \in Buckets : /\ schedule[b] # <<>> /\ hand' = schedule[b][1]
                                 /\ schedule' = [schedule EXCEPT ![b] = <<hand>>]
        BY <2>7, CuckooEvictEffect
      <3>2. hand \in Keys /\ mode = "Cuckoo"
        BY <2>7, CuckooEvictEffect
      <3>3. 1 \in DOMAIN schedule[b] /\ hand' \in Scheduled
        BY <3>1, FirstKey DEF Scheduled, Range, TypeOK
      <3>4. \A c \in Buckets : c # b => schedule'[c] = schedule[c]
        BY <3>1 DEF TypeOK
      <3>5. \A c \in Buckets : \A i \in DOMAIN schedule'[c] : schedule'[c][i] # hand'
        <4>1. DOMAIN schedule'[b] = {1} /\ schedule'[b][1] = hand
          BY <3>1 DEF TypeOK
        <4>2. hand # hand'
          BY <3>3 DEF HeldOnce
        <4>3. QED
          BY <3>1, <3>3, <3>4, <4>1, <4>2 DEF HeldOnce
      <3>6. hand' \notin Scheduled'
        BY <3>5 DEF Scheduled, Range
      <3>7. QED
        BY <2>1, <2>5, <3>1, <3>2, <3>6
    <2>8. CASE CuckooTake
      <3>1. schedule' = schedule /\ hand' = indices[pos] /\ Pending
        BY <2>8 DEF CuckooTake
      <3>2. QED
        BY <2>1, <2>3, <3>1 DEF HeldOnce, Scheduled
    <2>9. CASE HashDrop \/ CuckooGiveUp \/ Return \/ UNCHANGED vars
      <3>1. schedule' = schedule /\ hand' = hand
        BY <2>9 DEF HashDrop, CuckooGiveUp, Return, vars
      <3>2. QED
        BY <2>1, <3>1 DEF HeldOnce, Scheduled
    <2>10. QED
      BY <2>4, <2>6, <2>7, <2>8, <2>9 DEF Next
  <1>3. QED
    BY <1>1, <1>2, TypeCorrect, QueriesFit, Requested, PTL DEF Spec

\* GenSchedule returns a schedule only when every key was dealt with.
Finished == result = "schedule" => hand = NoKey /\ pos = Len(indices) + 1

\* A schedule is returned only after the last key, with none in hand.
LEMMA FinishedInv == Spec => []Finished
  <1>1. Init => Finished
    BY DEF Init, Start, Finished
  <1>2. TypeOK /\ Finished /\ [Next]_vars => Finished'
    BY DEF TypeOK, Finished, Next, HashPlace, HashDrop, CuckooTake, CuckooPlace,
           CuckooEvict, CuckooGiveUp, Return, Pending, Inserting, vars, inputs
  <1>3. QED
    BY <1>1, <1>2, TypeCorrect, PTL DEF Spec

\* A cuckoo schedule has a bucket for each key of a batch without repetitions:
\* the bucket of a key is a bijection from the batch to the buckets in use.
THEOREM ServesAll == Spec => []CuckooServesAll
  <1>1. TypeOK /\ FitsQueriesPer /\ NoKeyLost /\ OnlyRequested /\ HeldOnce /\ Finished
            => CuckooServesAll
    <2> SUFFICES ASSUME TypeOK, FitsQueriesPer, NoKeyLost, OnlyRequested, HeldOnce, Finished,
                        mode = "Cuckoo", result = "schedule", IsInjective(indices)
                 PROVE  Cardinality(Occupied) = Len(indices)
      BY DEF CuckooServesAll
    <2> DEFINE n == Len(indices)
               f == [i \in 1..n |-> CHOOSE b \in Buckets : indices[i] \in Range(schedule[b])]
    <2>1. n \in Nat /\ \A i \in 1..n : indices[i] \in Keys
      BY DEF TypeOK
    <2>2. \A i \in 1..n : \E b \in Buckets : indices[i] \in Range(schedule[b])
      BY <2>1, ScheduleAssumption DEF NoKeyLost, Finished, Scheduled
    <2>3. \A i \in 1..n : f[i] \in Buckets /\ indices[i] \in Range(schedule[f[i]])
      BY <2>2
    <2>4. DOMAIN f = 1..n
      OBVIOUS
    <2> HIDE DEF f
    <2>5. \A b \in Buckets : schedule[b] # <<>> =>
             DOMAIN schedule[b] = {1} /\ Range(schedule[b]) = {schedule[b][1]}
      BY DEF FitsQueriesPer, NumQueriesPer, TypeOK, Range
    <2>6. \A i \in 1..n : f[i] \in Occupied
      BY <2>3 DEF Occupied, Range
    <2>7. ASSUME NEW i \in 1..n, NEW j \in 1..n, f[i] = f[j] PROVE i = j
      <3>1. \A m \in 1..n : Range(schedule[f[m]]) = {schedule[f[m]][1]}
        BY <2>3, <2>5, <2>6 DEF Occupied
      <3>2. \A m \in 1..n : indices[m] = schedule[f[m]][1]
        BY <2>3, <3>1
      <3>3. indices[i] = indices[j]
        BY <2>7, <3>2
      <3>4. DOMAIN indices = 1..n
        BY DEF TypeOK
      <3>5. QED
        BY <3>3, <3>4 DEF IsInjective
    <2>8. ASSUME NEW b \in Occupied PROVE \E i \in 1..n : f[i] = b
      <3>1. b \in Buckets /\ schedule[b] # <<>> /\ 1 \in DOMAIN schedule[b]
        BY <2>5 DEF Occupied
      <3>2. schedule[b][1] \in Keys /\ schedule[b][1] \in Scheduled
        BY <3>1, FirstKey DEF Scheduled, Range, TypeOK
      <3>3. PICK i \in 1..n : indices[i] = schedule[b][1]
        BY <3>2 DEF OnlyRequested, Taken, Finished
      <3>4. PICK j \in DOMAIN schedule[f[i]] : schedule[f[i]][j] = schedule[b][1]
        BY <2>3, <3>3 DEF Range
      <3>5. f[i] = b
        BY <2>3, <3>1, <3>4 DEF HeldOnce
      <3>6. QED
        BY <3>5
    <2>9. f \in [1..n -> Occupied]
      <3>1. f = [i \in 1..n |-> f[i]]
        BY DEF f
      <3>2. QED
        BY <2>6, <3>1
    <2> HIDE DEF n
    <2>10. f \in Bijection(1..n, Occupied)
      BY <2>9, <2>7, <2>8 DEF Bijection, Injection, Surjection, IsInjective
    <2>11. IsFiniteSet(1..n) /\ Cardinality(1..n) = n
      BY <2>1, FS_Interval
    <2>12. Cardinality(Occupied) = n
      BY <2>10, <2>11, FS_Bijection DEF ExistsBijection
    <2>13. QED
      BY <2>12 DEF n
  <1>2. QED
    BY <1>1, TypeCorrect, QueriesFit, Conservation, Requested, OneHolder, FinishedInv, PTL

\* A bucket once used is never empty again.
THEOREM NeverEmptied == Spec => OccupiedStays
  <1>1. TypeOK /\ [Next]_vars => (Occupied \subseteq Occupied')
    <2> SUFFICES ASSUME TypeOK, [Next]_vars, NEW c \in Buckets, schedule[c] # <<>>
                 PROVE  schedule'[c] # <<>>
      BY DEF Occupied
    <2>1. CASE HashPlace
      <3>1. PICK b \in Buckets, k \in Keys :
               schedule' = [schedule EXCEPT ![b] = Append(schedule[b], k)]
        BY <2>1, HashPlaceEffect
      <3>2. QED
        BY <3>1 DEF TypeOK
    <2>2. CASE CuckooPlace
      BY <2>2, CuckooPlaceEffect DEF TypeOK
    <2>3. CASE CuckooEvict
      <3>1. PICK b \in Buckets : schedule' = [schedule EXCEPT ![b] = <<hand>>]
        BY <2>3, CuckooEvictEffect
      <3>2. QED
        BY <3>1 DEF TypeOK
    <2>4. CASE UNCHANGED <<inputs, schedule>>
      BY <2>4
    <2>5. QED
      BY <2>1, <2>2, <2>3, <2>4, ScheduleKept DEF Next
  <1>2. QED
    BY <1>1, TypeCorrect, PTL DEF Spec, OccupiedStays

-----------------------------------------------------------------------------
(* getBuckets: the inductive invariant *)

ChoosingTypes ==
    digest \in [Nonces -> Candidates] /\ nonce \in Nonces /\ buckets \in Seq(Candidates)

\* What has been found are the buckets of the nonces so far, of all of them
\* once the nonce has wrapped around.
FoundSoFar == Range(buckets) \in {SeenBy(nonce - 1), SeenBy(NonceSpace - 1)}

\* Nonce n brings the k-th new bucket.
Brings(n, k) == Cardinality(SeenBy(n)) = k /\ \A m \in 0..n - 1 : Cardinality(SeenBy(m)) < k

\* No choice is repeated, and each came with the nonce that brings it.
InOrder ==
    /\ Cardinality(Range(buckets)) = Len(buckets)
    /\ \A k \in 1..Len(buckets) : \E n \in Nonces : Brings(n, k) /\ buckets[k] = digest[n]

ChoosingInv == ChoosingTypes /\ FoundSoFar /\ InOrder

-----------------------------------------------------------------------------
(* The buckets seen up to a nonce *)

LEMMA SeenIsFinite ==
    ASSUME NEW n \in Int
    PROVE  IsFiniteSet(SeenBy(n)) /\ Cardinality(SeenBy(n)) \in Nat
  <1>1. IsFiniteSet(0..n)
    BY FS_Interval
  <1> DEFINE at == [m \in 0..n |-> digest[m]]
  <1>2. at \in Surjection(0..n, SeenBy(n))
    BY DEF Surjection, SeenBy
  <1> HIDE DEF at
  <1>3. QED
    BY <1>1, <1>2, FS_Surjection, FS_CardinalityType

LEMMA SeenGrows ==
    ASSUME NEW m \in Int, NEW n \in Int, m <= n
    PROVE  SeenBy(m) \subseteq SeenBy(n) /\ Cardinality(SeenBy(m)) <= Cardinality(SeenBy(n))
  <1>1. SeenBy(m) \subseteq SeenBy(n)
    BY DEF SeenBy
  <1>2. QED
    BY <1>1, SeenIsFinite, FS_Subset

\* One nonce more adds its bucket.
LEMMA SeenNext ==
    ASSUME NEW n \in Nat
    PROVE  SeenBy(n) = SeenBy(n - 1) \cup {digest[n]} /\ SeenBy(0 - 1) = {}
  BY DEF SeenBy

\* No two nonces bring the same bucket.
LEMMA BroughtOnce ==
    ASSUME NEW k, NEW n \in Nonces, Brings(n, k)
    PROVE  NonceOf(k) = n
  <1>1. ASSUME NEW m \in Nonces, Brings(m, k) PROVE m = n
    <2>1. m \in Nat /\ n \in Nat /\ Cardinality(SeenBy(m)) = k /\ Cardinality(SeenBy(n)) = k
      BY <1>1, GetBucketsAssumption DEF Nonces, Brings
    <2>2. k \in Nat
      BY <2>1, SeenIsFinite
    <2>3. ASSUME m < n PROVE FALSE
      BY <2>1, <2>2, <2>3 DEF Brings
    <2>4. ASSUME n < m PROVE FALSE
      BY <1>1, <2>1, <2>2, <2>4 DEF Brings
    <2>5. QED
      BY <2>1, <2>3, <2>4
  <1>2. NonceOf(k) = CHOOSE m \in Nonces : Brings(m, k)
    BY DEF NonceOf, Brings
  <1>3. QED
    BY <1>1, <1>2, Zenon

-----------------------------------------------------------------------------
(* The invariant is inductive *)

LEMMA ChoosingInvInit == ChoosingInit => ChoosingInv
  <1> SUFFICES ASSUME ChoosingInit PROVE ChoosingInv
    OBVIOUS
  <1>1. ChoosingTypes
    BY GetBucketsAssumption DEF ChoosingInit, ChoosingTypes, Nonces
  <1>2. Range(buckets) = {} /\ SeenBy(nonce - 1) = {}
    BY DEF ChoosingInit, Range, SeenBy
  <1>3. FoundSoFar
    BY <1>2 DEF FoundSoFar
  <1>4. InOrder
    <2>1. Len(buckets) = 0 /\ 1..Len(buckets) = {}
      BY DEF ChoosingInit
    <2>2. Cardinality(Range(buckets)) = 0
      BY <1>2, FS_EmptySet
    <2>3. QED
      BY <2>1, <2>2 DEF InOrder
  <1>5. QED
    BY <1>1, <1>3, <1>4 DEF ChoosingInv

\* The next nonce, and what has been seen before it.
LEMMA NextNonce ==
    ASSUME ChoosingInv, NextCandidate
    PROVE  /\ nonce' \in Nonces /\ nonce \in Nat /\ NonceSpace \in Nat
           /\ \/ nonce' - 1 = nonce
              \/ nonce' = 0 /\ nonce = NonceSpace - 1
  <1>1. nonce \in Nat /\ NonceSpace \in Nat /\ NonceSpace > 0 /\ nonce < NonceSpace
    BY GetBucketsAssumption DEF ChoosingInv, ChoosingTypes, Nonces
  <1>2. nonce' = (nonce + 1) % NonceSpace
    BY DEF NextCandidate
  <1>3. CASE nonce + 1 < NonceSpace
    <2>1. (nonce + 1) % NonceSpace = nonce + 1
      BY <1>1, <1>3
    <2>2. QED
      BY <1>1, <1>2, <1>3, <2>1 DEF Nonces
  <1>4. CASE nonce + 1 = NonceSpace
    <2>1. (nonce + 1) % NonceSpace = 0
      BY <1>1, <1>4
    <2>2. QED
      BY <1>1, <1>2, <1>4, <2>1 DEF Nonces
  <1>5. QED
    BY <1>1, <1>3, <1>4

LEMMA AcceptKeeps == ChoosingInv /\ Accept => ChoosingInv'
  <1> SUFFICES ASSUME ChoosingInv, Accept PROVE ChoosingInv'
    OBVIOUS
  <1> DEFINE new == digest[nonce]
  <1>1. /\ NextCandidate /\ new \notin Range(buckets) /\ buckets' = Append(buckets, new)
        /\ UNCHANGED <<mode, numBuckets, digest>>
    BY DEF Accept
  <1>2. digest \in [Nonces -> Candidates] /\ nonce \in Nonces /\ buckets \in Seq(Candidates)
    BY DEF ChoosingInv, ChoosingTypes
  <1>3. /\ nonce' \in Nonces /\ nonce \in Nat /\ NonceSpace \in Nat /\ nonce <= NonceSpace - 1
        /\ \/ nonce' - 1 = nonce
           \/ nonce' = 0 /\ nonce = NonceSpace - 1
    BY <1>1, <1>2, NextNonce DEF Nonces
  <1>4. new \in Candidates
    BY <1>2
  <1>5. \A n : SeenBy(n)' = SeenBy(n)
    BY <1>1 DEF SeenBy
  <1>6. SeenBy(nonce) = SeenBy(nonce - 1) \cup {new}
    BY <1>3, SeenNext
  <1>7. Range(buckets) = SeenBy(nonce - 1)
    <2>1. new \in SeenBy(NonceSpace - 1)
      BY <1>3 DEF SeenBy
    <2>2. QED
      BY <1>1, <2>1 DEF ChoosingInv, FoundSoFar
  <1>8. /\ buckets' \in Seq(Candidates) /\ Len(buckets') = Len(buckets) + 1 /\ Len(buckets) \in Nat
        /\ \A k \in 1..Len(buckets) : buckets'[k] = buckets[k]
        /\ buckets'[Len(buckets) + 1] = new
    BY <1>1, <1>2, <1>4
  <1>9. Range(buckets') = SeenBy(nonce)
    <2>1. DOMAIN buckets = 1..Len(buckets) /\ DOMAIN buckets' = 1..Len(buckets) + 1
      BY <1>2, <1>8
    <2>2. Range(buckets') = Range(buckets) \cup {new}
      BY <1>8, <2>1 DEF Range
    <2>3. QED
      BY <1>6, <1>7, <2>2
  <1> HIDE DEF new
  <1>10. ChoosingTypes'
    BY <1>1, <1>2, <1>3, <1>8 DEF ChoosingTypes, Candidates
  <1>11. FoundSoFar'
    BY <1>3, <1>5, <1>9 DEF FoundSoFar
  <1>12. Cardinality(SeenBy(nonce - 1)) = Len(buckets)
    BY <1>7 DEF ChoosingInv, InOrder
  <1>13. Cardinality(SeenBy(nonce)) = Len(buckets) + 1
    <2>1. IsFiniteSet(SeenBy(nonce - 1)) /\ new \notin SeenBy(nonce - 1)
      BY <1>1, <1>3, <1>7, SeenIsFinite
    <2>2. QED
      BY <1>6, <1>12, <2>1, FS_AddElement
  <1>14. Brings(nonce, Len(buckets) + 1)
    <2> SUFFICES ASSUME NEW m \in 0..nonce - 1 PROVE Cardinality(SeenBy(m)) < Len(buckets) + 1
      BY <1>13 DEF Brings
    <2>1. Cardinality(SeenBy(m)) \in Nat /\ Cardinality(SeenBy(m)) <= Len(buckets)
      <3>1. m \in Int /\ nonce - 1 \in Int /\ m <= nonce - 1
        BY <1>3
      <3>2. QED
        BY <1>12, <3>1, SeenIsFinite, SeenGrows
    <2>2. Len(buckets) \in Nat
      BY <1>8
    <2>3. QED
      BY <2>1, <2>2
  <1>15. InOrder'
    <2>1. Cardinality(Range(buckets')) = Len(buckets')
      BY <1>8, <1>9, <1>13
    <2>2. ASSUME NEW k \in 1..Len(buckets')
          PROVE  \E n \in Nonces : Brings(n, k) /\ buckets'[k] = digest[n]
      <3>1. CASE k = Len(buckets) + 1
        BY <1>2, <1>8, <1>14, <3>1 DEF new
      <3>2. CASE k \in 1..Len(buckets)
        BY <1>8, <3>2 DEF ChoosingInv, InOrder
      <3>3. QED
        BY <1>8, <3>1, <3>2
    <2>3. \A n, k : Brings(n, k)' = Brings(n, k)
      BY <1>5 DEF Brings, SeenBy
    <2>4. QED
      BY <1>1, <2>1, <2>2, <2>3 DEF InOrder, Brings
  <1>16. QED
    BY <1>10, <1>11, <1>15 DEF ChoosingInv

\* The order the choices came in depends on the hash and on the list alone.
LEMMA OrderStays ==
    ASSUME InOrder, UNCHANGED <<mode, numBuckets, digest, buckets>>
    PROVE  InOrder'
  <1>1. \A n : SeenBy(n)' = SeenBy(n)
    BY DEF SeenBy
  <1>2. \A n, k : Brings(n, k)' = Brings(n, k)
    BY <1>1 DEF Brings
  <1>3. QED
    BY <1>2 DEF InOrder

LEMMA SkipKeeps == ChoosingInv /\ Skip => ChoosingInv'
  <1> SUFFICES ASSUME ChoosingInv, Skip PROVE ChoosingInv'
    OBVIOUS
  <1>1. /\ NextCandidate /\ digest[nonce] \in Range(buckets)
        /\ UNCHANGED <<mode, numBuckets, digest, buckets>>
    BY DEF Skip
  <1>2. /\ nonce' \in Nonces /\ nonce \in Nat /\ NonceSpace \in Nat
        /\ \/ nonce' - 1 = nonce
           \/ nonce' = 0 /\ nonce = NonceSpace - 1
    BY <1>1, NextNonce
  <1>3. ChoosingTypes'
    BY <1>1, <1>2 DEF ChoosingInv, ChoosingTypes, Candidates
  <1>4. Range(buckets) = SeenBy(nonce - 1) => Range(buckets) = SeenBy(nonce)
    <2>1. SeenBy(nonce) = SeenBy(nonce - 1) \cup {digest[nonce]}
      BY <1>2, SeenNext
    <2>2. QED
      BY <1>1, <2>1
  <1>5. Range(buckets) \in {SeenBy(nonce), SeenBy(NonceSpace - 1)}
    BY <1>4 DEF ChoosingInv, FoundSoFar
  <1>6. \A n : SeenBy(n)' = SeenBy(n)
    BY <1>1 DEF SeenBy
  <1>7. FoundSoFar'
    BY <1>1, <1>2, <1>5, <1>6 DEF FoundSoFar
  <1>8. InOrder'
    BY <1>1, OrderStays DEF ChoosingInv
  <1>9. QED
    BY <1>3, <1>7, <1>8 DEF ChoosingInv

LEMMA ChoosingInvariance == ChoosingSpec => []ChoosingInv
  <1>1. ChoosingInv /\ UNCHANGED choosing => ChoosingInv'
    <2> SUFFICES ASSUME ChoosingInv, UNCHANGED choosing PROVE ChoosingInv'
      OBVIOUS
    <2>1. UNCHANGED <<mode, numBuckets, digest, buckets>> /\ nonce' = nonce
      BY DEF choosing
    <2>2. ChoosingTypes'
      BY <2>1 DEF ChoosingInv, ChoosingTypes, Candidates
    <2>3. FoundSoFar'
      BY <2>1 DEF ChoosingInv, FoundSoFar, SeenBy
    <2>4. InOrder'
      BY <2>1, OrderStays DEF ChoosingInv
    <2>5. QED
      BY <2>2, <2>3, <2>4 DEF ChoosingInv
  <1>2. ChoosingInv /\ [ChoosingNext]_choosing => ChoosingInv'
    BY <1>1, AcceptKeeps, SkipKeeps DEF ChoosingNext
  <1>3. QED
    BY <1>2, ChoosingInvInit, PTL DEF ChoosingSpec

-----------------------------------------------------------------------------
(* getBuckets: what it returns *)

\* The choices are the first distinct buckets of the nonces in order, for every
\* hash function: server and client, who compute them apart, get the same.
THEOREM ChoicesAreTheKeys == ChoosingSpec => []FirstDistinctInOrder
  <1>1. ASSUME ChoosingInv PROVE FirstDistinctInOrder
    <2>1. buckets = [k \in 1..Len(buckets) |-> buckets[k]]
      BY <1>1 DEF ChoosingInv, ChoosingTypes
    <2>2. \A k \in 1..Len(buckets) : buckets[k] = digest[NonceOf(k)]
      BY <1>1, BroughtOnce DEF ChoosingInv, InOrder
    <2>3. QED
      BY <2>1, <2>2, Zenon DEF FirstDistinctInOrder
  <1>2. QED
    BY <1>1, ChoosingInvariance, PTL

\* A finished list is one GenSchedule takes: NumChoices(mode) different buckets
\* of the batch code (ChoiceLists, the choices PbcSchedule schedules with).
THEOREM ChoiceListsFound == ChoosingSpec => [](Done => buckets \in ChoiceLists(mode, Candidates))
  <1>1. ASSUME ChoosingInv, Done PROVE buckets \in ChoiceLists(mode, Candidates)
    <2> DEFINE places == 1..Len(buckets)
    <2>1. Len(buckets) \in Nat /\ buckets \in [places -> Candidates] /\ DOMAIN buckets = places
      BY <1>1 DEF ChoosingInv, ChoosingTypes
    <2>2. Range(buckets) = {buckets[k] : k \in places}
      BY <2>1 DEF Range
    <2>3. buckets \in Surjection(places, Range(buckets))
      BY <2>1, <2>2 DEF Surjection
    <2>4. IsFiniteSet(places) /\ Cardinality(places) = Len(buckets)
      BY <2>1, FS_Interval
    <2>5. IsFiniteSet(Range(buckets)) /\ Cardinality(Range(buckets)) = Cardinality(places)
      BY <1>1, <2>3, <2>4, FS_Surjection DEF ChoosingInv, InOrder
    <2>6. buckets \in Injection(places, Range(buckets))
      BY <2>3, <2>4, <2>5, FS_SurjSameCardinalityImpliesInj
    <2>7. IsInjective(buckets)
      BY <2>1, <2>6 DEF Injection, IsInjective
    <2>8. QED
      BY <1>1, <2>1, <2>7 DEF Done, ChoiceLists
  <1>2. QED
    BY <1>1, ChoosingInvariance, PTL
=============================================================================
