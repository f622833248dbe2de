---------------------------- MODULE BatchCapacity ----------------------------
(***************************************************************************)
(* BatchCapacityRPC of service/pir_server.go: the search, by hundreds,     *)
(* then tens, then ones, for the largest batch the server answers in the   *)
(* time allowed.  Timing is noisy: a batch of up to `low' queries is always*)
(* measured in time, one of more than `high' never, one between as it may  *)
(* happen.  low = high = 0 is also what the code sees when no answer was   *)
(* timed before: the average is then 0/0 and no comparison with it holds.  *)
(***************************************************************************)
EXTENDS Integers

CONSTANT MaxFit   \* bound on `high'

ASSUME MaxFitAssumption == MaxFit \in Nat

VARIABLES
    low, high,       \* fixed: what the server can do
    batchSize,       \* the size to try next
    bestGuess,
    hundreds, tens,  \* whether the search by hundreds, by tens, is over
    serverBatch,     \* the size the server was last set up for
    response         \* BatchCapacity, or Unanswered

vars == <<low, high, batchSize, bestGuess, hundreds, tens, serverBatch, response>>
limits == <<low, high>>

Unanswered == -1

\* The state's types: no size is below 0.
TypeOK ==
    /\ low \in Nat /\ high \in Nat /\ low <= high
    /\ batchSize \in Nat /\ bestGuess \in Nat /\ serverBatch \in Nat
    /\ hundreds \in BOOLEAN /\ tens \in BOOLEAN
    /\ response \in Nat \cup {Unanswered}

Init ==
    /\ high \in 0..MaxFit /\ low \in 0..high
    /\ batchSize = 100 /\ bestGuess = 100
    /\ hundreds = FALSE /\ tens = FALSE
    /\ serverBatch = 1
    /\ response = Unanswered

\* Time five rounds of answers to batchSize queries.
Try == response = Unanswered /\ serverBatch' = batchSize

\* elapsed < allowedTime
InTime == Try /\ batchSize <= high
\* elapsed >= allowedTime
TooSlow == Try /\ batchSize > low

\* Mutant: no branch for steps of one.
AdvanceNoOnes ==
    /\ InTime
    /\ bestGuess' = batchSize
    /\ batchSize' = batchSize + (IF ~hundreds THEN 100 ELSE IF ~tens THEN 10 ELSE 0)
    /\ UNCHANGED <<limits, hundreds, tens, response>>

Advance ==
    /\ InTime
    /\ bestGuess' = batchSize
    /\ batchSize' = batchSize + (IF ~hundreds THEN 100 ELSE IF ~tens THEN 10 ELSE 1)
    /\ UNCHANGED <<limits, hundreds, tens, response>>

\* Mutant: back by the step just made, so that an overshoot of the first size
\* leaves no query at all.
HundredsOverAll ==
    /\ TooSlow /\ ~hundreds
    /\ batchSize' = batchSize - 100
    /\ hundreds' = TRUE
    /\ UNCHANGED <<limits, bestGuess, tens, response>>

HundredsOver ==
    /\ TooSlow /\ ~hundreds
    /\ batchSize' = batchSize - 90
    /\ hundreds' = TRUE
    /\ UNCHANGED <<limits, bestGuess, tens, response>>

\* Mutant: one size too few is taken back.
TensOverShort ==
    /\ TooSlow /\ hundreds /\ ~tens
    /\ batchSize' = batchSize - 8
    /\ tens' = TRUE
    /\ UNCHANGED <<limits, bestGuess, hundreds, response>>

TensOver ==
    /\ TooSlow /\ hundreds /\ ~tens
    /\ batchSize' = batchSize - 9
    /\ tens' = TRUE
    /\ UNCHANGED <<limits, bestGuess, hundreds, response>>

\* The response is set to batchSize, and after the loop to bestGuess instead.
Finish ==
    /\ TooSlow /\ hundreds /\ tens
    /\ response' = bestGuess
    /\ UNCHANGED <<limits, batchSize, bestGuess, hundreds, tens>>

Next == Advance \/ HundredsOver \/ TensOver \/ Finish

\* One handler, running alone until it has answered.
Spec == Init /\ [][Next]_vars

-----------------------------------------------------------------------------
Answered == response # Unanswered

\* Where the server can take any batch in time, the capacity found is one it
\* was measured to take and no smaller than what it always takes: the search
\* skips no size on the way down from one step to the next.
CapacityExact == Answered /\ low > 0 => low <= response /\ response <= high

\* The sizes are uint64: subtracting 90 or 9 never goes below one query.
SizesPositive == batchSize >= 1

==============================================================================
