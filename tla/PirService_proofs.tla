--------------------------- MODULE PirService_proofs ---------------------------
(***************************************************************************)
(* Proofs about the service for every set of clients, of shapes and of     *)
(* users of the HC server, and every number of rounds: what a client that  *)
(* runs alone is served, and what it takes to make the server panic.       *)
(***************************************************************************)
EXTENDS PirService, FiniteSetTheorems, TLAPS

-----------------------------------------------------------------------------
(* The inductive invariants *)

Steps == {"off", "install", "reset", "hint", "hcInit", "query", "hcQuery", "answer", "wait",
          "recover", "capacity", "search", "done", "panic"}

Types ==
    /\ driver \in Drivers /\ shapeOf \in [driver.clients -> Shapes]
    /\ timed \in Nat /\ numIters \in Nat /\ crashed \in BOOLEAN
    /\ pc \in [Clients -> Steps]
    /\ hintPc \in [Clients -> {"idle", "call", "done"}]
    /\ pirPc \in [Clients -> AnswerSteps \cup {"idle", "done"}]
    /\ loaded \in [Clients -> Nat] /\ iter \in [Clients -> Nat] /\ tries \in [Clients -> Nat]
    /\ DOMAIN params = Clients /\ DOMAIN keys = Clients
    /\ DOMAIN answer = Clients /\ DOMAIN average = Clients

\* Only clients of the driver run, and the goroutines of Client.Answer only
\* while the client waits for them.
Started ==
    \A c \in Clients :
        /\ pc[c] # "off" => c \in driver.clients
        /\ pc[c] # "wait" => hintPc[c] = "idle" /\ pirPc[c] = "idle"
        /\ pc[c] = "wait" => hintPc[c] # "idle" /\ pirPc[c] # "idle"

\* Where a client is after each of its calls that set something up.
Installed == {"reset", "hint", "hcInit", "query", "hcQuery", "answer", "wait", "recover",
              "capacity", "search"}
Batched == Installed \ {"reset"}
HasParams == Batched \ {"hint"}
HasHint == HasParams \ {"hcInit"}
Queried == HasHint \ {"query"}
Asking == {"answer", "wait", "recover"}

\* Answers that are in totalTime, and in numIters, of those asked for.
TimedOf(c) == IF pirPc[c] \in {"compute", "time", "timeStore"} THEN iter[c] - 1 ELSE iter[c]
CountedOf(c) == IF pirPc[c] \in AnswerSteps THEN iter[c] - 1 ELSE iter[c]

\* What there is of a client that runs alone, at each point it may be.
ServedAlone(c) ==
    /\ pc[c] \in Installed => db = shapeOf[c]
    /\ pc[c] \in Batched \ {"search"} => batch = c
    /\ pc[c] \in HasParams => params[c] = shapeOf[c]
    /\ pc[c] \in Queried => queries = Own(c)
    /\ c \in UsesHint /\ pc[c] \in HasHint => hcHint = shapeOf[c]
    /\ c \in UsesHint /\ pc[c] \in Queried \ {"hcQuery"} => hcQueries = c
    /\ pc[c] \in {"off", "install", "reset"} => iter[c] = 0
    /\ pc[c] \in Batched => timed = TimedOf(c) /\ numIters = CountedOf(c)
    /\ pirPc[c] # "idle" => iter[c] # 0
    /\ iter[c] <= Iters
    /\ pirPc[c] = "timeStore" => loaded[c] = timed
    /\ pirPc[c] = "countStore" => loaded[c] = numIters
    /\ pc[c] = "recover" => answer[c] = Own(c) /\ keys[c] = Own(c)
    /\ pc[c] = "wait" /\ pirPc[c] # "compute" => answer[c] = Own(c)
    /\ c \in UsesHint /\ hintPc[c] = "done" => keys[c] = Own(c)
    /\ average[c] \in {None, <<Iters, Iters>>}

Alone ==
    OneAtATime =>
        /\ ~crashed
        /\ \A c, d \in Running : c = d
        /\ \A c \in Clients : ServedAlone(c)

\* All clients ask for databases of one shape.
OneShape == \A c, d \in driver.clients : shapeOf[c] = shapeOf[d]

\* What clients at once can rely on then: whoever set it, it has that shape.
SameShape ==
    OneShape =>
        /\ ~crashed
        /\ \A c \in driver.clients :
            /\ db # None => db = shapeOf[c]
            /\ queries # None => queries.shape = shapeOf[c]
            /\ pc[c] \in Installed => db # None
            /\ pc[c] \in HasParams => params[c] = shapeOf[c]
            /\ pc[c] \in Queried => queries # None

IInv == Types /\ Started /\ Alone /\ SameShape

-----------------------------------------------------------------------------
(* Types and the goroutines of Client.Answer *)

\* Each step keeps every variable within its type.
LEMMA TypesStep ==
    ASSUME Types, NEW c \in Clients, Client(c), UNCHANGED inputs
    PROVE  Types'
  <1> USE ServiceAssumption DEF Types, Steps, AnswerSteps, Step,
          pirVars, hcVars, goroutines, received, counts, inputs
  <1>1. CASE Start(c)
    BY <1>1 DEF Start
  <1>2. CASE InstallDb(c)
    BY <1>2 DEF InstallDb
  <1>3. CASE ResetMetrics(c)
    BY <1>3 DEF ResetMetrics
  <1>4. CASE ReplyHint(c)
    BY <1>4 DEF ReplyHint
  <1>5. CASE HcClientInit(c)
    BY <1>5 DEF HcClientInit
  <1>6. CASE Query(c)
    BY <1>6 DEF Query, Batch
  <1>7. CASE HcQuery(c)
    BY <1>7 DEF HcQuery
  <1>8. CASE AskAnswers(c)
    BY <1>8 DEF AskAnswers
  <1>9. CASE FetchToken(c)
    BY <1>9 DEF FetchToken
  <1>10. CASE ComputeAnswer(c)
    BY <1>10 DEF ComputeAnswer, Fits
  <1>11. CASE ComputePanics(c)
    BY <1>11 DEF ComputePanics, Fits
  <1>12. CASE LoadTime(c)
    BY <1>12 DEF LoadTime, Load
  <1>13. CASE StoreTime(c)
    BY <1>13 DEF StoreTime, Store
  <1>14. CASE LoadIter(c)
    BY <1>14 DEF LoadIter, Load
  <1>15. CASE StoreIter(c)
    BY <1>15 DEF StoreIter, Store
  <1>16. CASE Join(c)
    BY <1>16 DEF Join
  <1>17. CASE Recover(c)
    BY <1>17 DEF Recover
  <1>18. CASE AskCapacity(c)
    BY <1>18 DEF AskCapacity
  <1>19. CASE MakeDummies(c)
    BY <1>19 DEF MakeDummies
  <1>20. CASE TrySize(c)
    BY <1>20 DEF TrySize
  <1>21. CASE ReplyCapacity(c)
    BY <1>21 DEF ReplyCapacity
  <1>22. CASE CallFails(c)
    BY <1>22 DEF CallFails
  <1>23. QED
    BY <1>1, <1>2, <1>3, <1>4, <1>5, <1>6, <1>7, <1>8, <1>9, <1>10, <1>11, <1>12, <1>13, <1>14, <1>15, <1>16, <1>17, <1>18, <1>19, <1>20, <1>21, <1>22 DEF Client

\* Whoever is not off was started by the driver, and only Client.Answer has its
\* two goroutines.
LEMMA StartedStep ==
    ASSUME Types, Started, NEW c \in Clients, Client(c), UNCHANGED inputs
    PROVE  Started'
  <1> USE DEF Types, Steps, AnswerSteps, Started, Step,
          pirVars, hcVars, goroutines, received, counts, inputs
  <1>1. CASE Start(c)
    BY <1>1 DEF Start
  <1>2. CASE InstallDb(c)
    BY <1>2 DEF InstallDb
  <1>3. CASE ResetMetrics(c)
    BY <1>3 DEF ResetMetrics
  <1>4. CASE ReplyHint(c)
    BY <1>4 DEF ReplyHint
  <1>5. CASE HcClientInit(c)
    BY <1>5 DEF HcClientInit
  <1>6. CASE Query(c)
    BY <1>6 DEF Query, Batch
  <1>7. CASE HcQuery(c)
    BY <1>7 DEF HcQuery
  <1>8. CASE AskAnswers(c)
    BY <1>8 DEF AskAnswers
  <1>9. CASE FetchToken(c)
    BY <1>9 DEF FetchToken
  <1>10. CASE ComputeAnswer(c)
    BY <1>10 DEF ComputeAnswer, Fits
  <1>11. CASE ComputePanics(c)
    BY <1>11 DEF ComputePanics, Fits
  <1>12. CASE LoadTime(c)
    BY <1>12 DEF LoadTime, Load
  <1>13. CASE StoreTime(c)
    BY <1>13 DEF StoreTime, Store
  <1>14. CASE LoadIter(c)
    BY <1>14 DEF LoadIter, Load
  <1>15. CASE StoreIter(c)
    BY <1>15 DEF StoreIter, Store
  <1>16. CASE Join(c)
    BY <1>16 DEF Join
  <1>17. CASE Recover(c)
    BY <1>17 DEF Recover
  <1>18. CASE AskCapacity(c)
    BY <1>18 DEF AskCapacity
  <1>19. CASE MakeDummies(c)
    BY <1>19 DEF MakeDummies
  <1>20. CASE TrySize(c)
    BY <1>20 DEF TrySize
  <1>21. CASE ReplyCapacity(c)
    BY <1>21 DEF ReplyCapacity
  <1>22. CASE CallFails(c)
    BY <1>22 DEF CallFails
  <1>23. QED
    BY <1>1, <1>2, <1>3, <1>4, <1>5, <1>6, <1>7, <1>8, <1>9, <1>10, <1>11, <1>12, <1>13, <1>14, <1>15, <1>16, <1>17, <1>18, <1>19, <1>20, <1>21, <1>22 DEF Client

-----------------------------------------------------------------------------
(* A client alone *)

\* A step of one client leaves the others where they are, with what they have
\* counted.
LEMMA OthersWait ==
    ASSUME Types, NEW c \in Clients, Client(c), NEW d \in Clients, d # c
    PROVE  /\ pc'[d] = pc[d] /\ hintPc'[d] = hintPc[d] /\ pirPc'[d] = pirPc[d]
           /\ iter'[d] = iter[d] /\ average'[d] = average[d]
  <1> USE DEF Types, Step, goroutines, received, counts
  <1>1. CASE Start(c)
    BY <1>1 DEF Start
  <1>2. CASE InstallDb(c)
    BY <1>2 DEF InstallDb
  <1>3. CASE ResetMetrics(c)
    BY <1>3 DEF ResetMetrics
  <1>4. CASE ReplyHint(c)
    BY <1>4 DEF ReplyHint
  <1>5. CASE HcClientInit(c)
    BY <1>5 DEF HcClientInit
  <1>6. CASE Query(c)
    BY <1>6 DEF Query, Batch
  <1>7. CASE HcQuery(c)
    BY <1>7 DEF HcQuery
  <1>8. CASE AskAnswers(c)
    BY <1>8 DEF AskAnswers
  <1>9. CASE FetchToken(c)
    BY <1>9 DEF FetchToken
  <1>10. CASE ComputeAnswer(c)
    BY <1>10 DEF ComputeAnswer, Fits
  <1>11. CASE ComputePanics(c)
    BY <1>11 DEF ComputePanics, Fits
  <1>12. CASE LoadTime(c)
    BY <1>12 DEF LoadTime, Load
  <1>13. CASE StoreTime(c)
    BY <1>13 DEF StoreTime, Store
  <1>14. CASE LoadIter(c)
    BY <1>14 DEF LoadIter, Load
  <1>15. CASE StoreIter(c)
    BY <1>15 DEF StoreIter, Store
  <1>16. CASE Join(c)
    BY <1>16 DEF Join
  <1>17. CASE Recover(c)
    BY <1>17 DEF Recover
  <1>18. CASE AskCapacity(c)
    BY <1>18 DEF AskCapacity
  <1>19. CASE MakeDummies(c)
    BY <1>19 DEF MakeDummies
  <1>20. CASE TrySize(c)
    BY <1>20 DEF TrySize
  <1>21. CASE ReplyCapacity(c)
    BY <1>21 DEF ReplyCapacity
  <1>22. CASE CallFails(c)
    BY <1>22 DEF CallFails
  <1>23. QED
    BY <1>1, <1>2, <1>3, <1>4, <1>5, <1>6, <1>7, <1>8, <1>9, <1>10, <1>11, <1>12, <1>13, <1>14, <1>15, <1>16, <1>17, <1>18, <1>19, <1>20, <1>21, <1>22 DEF Client

\* Where clients run one at a time, the one that takes a step is the only one
\* that runs, before and after.
LEMMA RunsAlone ==
    ASSUME Types, Started, Alone, OneAtATime, NEW c \in Clients, Client(c), UNCHANGED inputs,
           NEW d \in Clients, d # c
    PROVE  pc[d] \in {"off", "done", "panic"}
  <1>1. CASE Start(c)
    <2>1. IsFiniteSet(Running) /\ Cardinality(Running) < 1
      <3>1. Running \subseteq Clients
        BY DEF Running
      <3>2. QED
        BY <1>1, <3>1, ServiceAssumption, FS_Subset DEF Start, OneAtATime
    <2>2. Running = {}
      BY <2>1, FS_CardinalityType, FS_EmptySet
    <2>3. QED
      BY <2>2 DEF Running
  <1>2. CASE ~Start(c)
    <2>1. pc[c] \notin {"off", "done", "panic"}
      BY <1>2 DEF Client, Types, Started, Alone, Step, AnswerSteps,
         InstallDb, ResetMetrics, ReplyHint, HcClientInit, Query, HcQuery, AskAnswers, FetchToken,
         ComputeAnswer, ComputePanics, LoadTime, StoreTime, LoadIter, StoreIter, Load, Store,
         Join, Recover, AskCapacity, MakeDummies, TrySize, ReplyCapacity, CallFails
    <2>2. QED
      BY <2>1 DEF Alone, Running
  <1>3. QED
    BY <1>1, <1>2

\* What is promised of a client that does not run is only that its counts are
\* in order.
LEMMA AtRest ==
    ASSUME Types, Started, NEW d \in Clients, pc[d] \in {"off", "done", "panic"}
    PROVE  ServedAlone(d) <=>
             /\ pc[d] = "off" => iter[d] = 0
             /\ iter[d] <= Iters
             /\ average[d] \in {None, <<Iters, Iters>>}
  BY DEF Started, ServedAlone, Installed, Batched, HasParams, HasHint, Queried

\* The steps of a client that runs alone serve it.
LEMMA ServedStep ==
    ASSUME Types, Started, Alone, OneAtATime, NEW c \in Clients, Client(c), UNCHANGED inputs
    PROVE  ServedAlone(c)' /\ ~crashed'
  <1>1. ServedAlone(c) /\ ~crashed
    BY DEF Alone
  <1>2. shapeOf' = shapeOf /\ driver' = driver
    BY DEF inputs
  <1> USE <1>1, <1>2, ServiceAssumption DEF Types, Started, ServedAlone, Steps, AnswerSteps, Step,
          Installed, Batched, HasParams, HasHint, Queried, TimedOf, CountedOf, Own,
          pirVars, hcVars, goroutines, received, counts
  <1>3. CASE Start(c)
    BY <1>3 DEF Start
  <1>4. CASE InstallDb(c)
    BY <1>4 DEF InstallDb
  <1>5. CASE ResetMetrics(c)
    BY <1>5 DEF ResetMetrics
  <1>6. CASE ReplyHint(c)
    BY <1>6 DEF ReplyHint
  <1>7. CASE HcClientInit(c)
    BY <1>7 DEF HcClientInit
  <1>8. CASE Query(c)
    BY <1>8 DEF Query, Batch
  <1>9. CASE HcQuery(c)
    BY <1>9 DEF HcQuery
  <1>10. CASE AskAnswers(c)
    BY <1>10 DEF AskAnswers
  <1>11. CASE FetchToken(c)
    BY <1>11 DEF FetchToken
  <1>12. CASE ComputeAnswer(c)
    BY <1>12 DEF ComputeAnswer, Fits
  <1>13. CASE ComputePanics(c)
    <2>1. shapeOf[c] \in Shapes /\ Own(c) \in [client : Clients, shape : Shapes]
      BY <1>13 DEF ComputePanics
    <2>2. Fits
      BY <1>13, <2>1 DEF Fits, ComputePanics
    <2>3. QED
      BY <1>13, <2>2 DEF ComputePanics
  <1>14. CASE LoadTime(c)
    BY <1>14 DEF LoadTime, Load
  <1>15. CASE StoreTime(c)
    BY <1>15 DEF StoreTime, Store
  <1>16. CASE LoadIter(c)
    BY <1>16 DEF LoadIter, Load
  <1>17. CASE StoreIter(c)
    BY <1>17 DEF StoreIter, Store
  <1>18. CASE Join(c)
    BY <1>18 DEF Join
  <1>19. CASE Recover(c)
    BY <1>19 DEF Recover
  <1>20. CASE AskCapacity(c)
    BY <1>20 DEF AskCapacity
  <1>21. CASE MakeDummies(c)
    BY <1>21 DEF MakeDummies
  <1>22. CASE TrySize(c)
    BY <1>22 DEF TrySize
  <1>23. CASE ReplyCapacity(c)
    BY <1>23 DEF ReplyCapacity
  <1>24. CASE CallFails(c)
    BY <1>24 DEF CallFails
  <1>25. QED
    BY <1>3, <1>4, <1>5, <1>6, <1>7, <1>8, <1>9, <1>10, <1>11, <1>12, <1>13, <1>14, <1>15, <1>16, <1>17, <1>18, <1>19, <1>20, <1>21, <1>22, <1>23, <1>24 DEF Client

\* Clients one at a time are each served, and the server goes on.
LEMMA AloneStep ==
    ASSUME Types, Started, Alone, NEW c \in Clients, Client(c), UNCHANGED inputs
    PROVE  Alone'
  <1> SUFFICES ASSUME OneAtATime PROVE Alone'
    BY DEF Alone, OneAtATime, inputs
  <1>1. Types' /\ Started'
    BY TypesStep, StartedStep
  <1>2. ASSUME NEW d \in Clients, d # c
        PROVE  pc'[d] \in {"off", "done", "panic"} /\ ServedAlone(d)'
    <2>1. pc[d] \in {"off", "done", "panic"} /\ pc'[d] = pc[d]
      BY <1>2, RunsAlone, OthersWait
    <2>2. ServedAlone(d)
      BY DEF Alone
    <2>3. /\ pc[d] = "off" => iter[d] = 0
          /\ iter[d] <= Iters
          /\ average[d] \in {None, <<Iters, Iters>>}
      BY <2>1, <2>2, AtRest
    <2>4. iter'[d] = iter[d] /\ average'[d] = average[d]
      BY <1>2, OthersWait
    <2>5. QED
      BY <1>1, <2>1, <2>3, <2>4 DEF Started, ServedAlone, Installed, Batched, HasParams, HasHint, Queried
  <1>3. ServedAlone(c)' /\ ~crashed'
    BY ServedStep
  <1>4. \A a, b \in Running' : a = b
    BY <1>2 DEF Running
  <1>5. QED
    BY <1>2, <1>3, <1>4 DEF Alone

-----------------------------------------------------------------------------
(* Clients at once, with databases of one shape *)

\* Steps that leave what clients share, and do not go past a call that sets it,
\* keep SameShape; the others set what has the one shape.
LEMMA SameShapeStep ==
    ASSUME Types, Started, SameShape, NEW c \in Clients, Client(c), UNCHANGED inputs
    PROVE  SameShape'
  <1> SUFFICES ASSUME OneShape PROVE SameShape'
    BY DEF SameShape, OneShape, inputs
  <1>1. shapeOf' = shapeOf /\ driver' = driver
    BY DEF inputs
  <1>2. pc'[c] # "off" => c \in driver.clients
    BY <1>1, StartedStep DEF Started
  <1>3. \A d \in driver.clients : d \in Clients /\ shapeOf[d] \in Shapes /\ shapeOf[d] # None
    BY ServiceAssumption DEF Types
  <1> USE <1>1, <1>2, <1>3, ServiceAssumption DEF Types, Started, OneShape, SameShape, Steps, AnswerSteps, Step,
          Installed, Batched, HasParams, HasHint, Queried,
          pirVars, hcVars, goroutines, received, counts
  <1>4. CASE Start(c)
    BY <1>4 DEF Start
  <1>5. CASE InstallDb(c)
    BY <1>5 DEF InstallDb
  <1>6. CASE ResetMetrics(c)
    BY <1>6 DEF ResetMetrics
  <1>7. CASE ReplyHint(c)
    BY <1>7 DEF ReplyHint
  <1>8. CASE HcClientInit(c)
    BY <1>8 DEF HcClientInit
  <1>9. CASE Query(c)
    BY <1>9 DEF Query, Batch
  <1>10. CASE HcQuery(c)
    BY <1>10 DEF HcQuery
  <1>11. CASE AskAnswers(c)
    BY <1>11 DEF AskAnswers
  <1>12. CASE FetchToken(c)
    BY <1>12 DEF FetchToken
  <1>13. CASE ComputeAnswer(c)
    BY <1>13 DEF ComputeAnswer, Fits
  <1>14. CASE ComputePanics(c)
    BY <1>14 DEF ComputePanics, Fits
  <1>15. CASE LoadTime(c)
    BY <1>15 DEF LoadTime, Load
  <1>16. CASE StoreTime(c)
    BY <1>16 DEF StoreTime, Store
  <1>17. CASE LoadIter(c)
    BY <1>17 DEF LoadIter, Load
  <1>18. CASE StoreIter(c)
    BY <1>18 DEF StoreIter, Store
  <1>19. CASE Join(c)
    BY <1>19 DEF Join
  <1>20. CASE Recover(c)
    BY <1>20 DEF Recover
  <1>21. CASE AskCapacity(c)
    BY <1>21 DEF AskCapacity
  <1>22. CASE MakeDummies(c)
    BY <1>22 DEF MakeDummies
  <1>23. CASE TrySize(c)
    BY <1>23 DEF TrySize
  <1>24. CASE ReplyCapacity(c)
    BY <1>24 DEF ReplyCapacity
  <1>25. CASE CallFails(c)
    BY <1>25 DEF CallFails
  <1>26. QED
    BY <1>4, <1>5, <1>6, <1>7, <1>8, <1>9, <1>10, <1>11, <1>12, <1>13, <1>14, <1>15, <1>16, <1>17, <1>18, <1>19, <1>20, <1>21, <1>22, <1>23, <1>24, <1>25 DEF Client

-----------------------------------------------------------------------------
(* The theorems *)

\* Nothing is shared, and nobody runs, to begin with.
LEMMA IInvInit == Init => IInv
  <1> SUFFICES ASSUME Init PROVE IInv
    OBVIOUS
  <1>1. Types
    BY ServiceAssumption DEF Init, Types, Steps
  <1>2. Started
    BY DEF Init, Started
  <1>3. Alone
    <2>1. Running = {} /\ ~crashed
      BY DEF Init, Running
    <2>2. ASSUME NEW c \in Clients PROVE ServedAlone(c)
      BY ServiceAssumption, <1>1, <1>2, AtRest DEF Init
    <2>3. QED
      BY <2>1, <2>2 DEF Alone
  <1>4. SameShape
    BY ServiceAssumption, <1>1 DEF Init, Types, SameShape, Installed, Batched, HasParams, HasHint, Queried
  <1>5. QED
    BY <1>1, <1>2, <1>3, <1>4 DEF IInv

\* Each part of the invariant is kept by every step, the last two by means of
\* the first two.
LEMMA IInvNext == IInv /\ [Next]_vars => IInv'
  <1> SUFFICES ASSUME IInv, [Next]_vars PROVE IInv'
    OBVIOUS
  <1>1. CASE Next
    <2>1. PICK c \in Clients : Client(c) /\ UNCHANGED inputs
      BY <1>1 DEF Next
    <2>2. QED
      BY <2>1, TypesStep, StartedStep, AloneStep, SameShapeStep DEF IInv
  <1>2. CASE UNCHANGED vars
    BY <1>2 DEF vars, pirVars, hcVars, clientVars, inputs, goroutines, received, counts,
       IInv, Types, Started, Alone, SameShape, OneAtATime, OneShape, ServedAlone, Running,
       TimedOf, CountedOf, Own
  <1>3. QED
    BY <1>1, <1>2

\* The invariant of the service holds throughout.
LEMMA IInvHolds == Spec => []IInv
  BY IInvInit, IInvNext, PTL DEF Spec

\* What AnswerRPC reads is all of the client it answers, where clients run one
\* at a time: its database, its batch size and its queries, set by three calls.
THEOREM AnswersOwn == Spec => []AnswersCaller
  <1>1. IInv => AnswersCaller
    BY DEF IInv, Types, Started, Alone, ServedAlone, AnswersCaller, Installed, Batched, HasParams,
       HasHint, Queried
  <1>2. QED
    BY <1>1, IInvHolds, PTL

\* Answers and tokens that a client alone recovers from are of its own queries
\* on its own database, in every round.
THEOREM TokensOwn == Spec => []DecryptsOwn
  <1>1. IInv => DecryptsOwn
    BY DEF IInv, Alone, ServedAlone, DecryptsOwn
  <1>2. QED
    BY <1>1, IInvHolds, PTL

\* BatchCapacityRPC never averages over no answers, or over another client's,
\* where clients run one at a time.
THEOREM AverageOwn == Spec => []AverageOverOwn
  <1>1. IInv => AverageOverOwn
    BY DEF IInv, Alone, ServedAlone, AverageOverOwn
  <1>2. QED
    BY <1>1, IInvHolds, PTL

\* However many clients run at once, and however their calls interleave, a
\* handler only panics for two clients with databases of different shapes.
THEOREM PanicsOnlyMixed == Spec => []PanicNeedsTwoShapes
  <1>1. IInv => PanicNeedsTwoShapes
    BY DEF IInv, Alone, SameShape, OneShape, PanicNeedsTwoShapes
  <1>2. QED
    BY <1>1, IInvHolds, PTL

===============================================================================
