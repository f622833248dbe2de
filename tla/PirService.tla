------------------------------ MODULE PirService ------------------------------
(***************************************************************************)
(* The end-to-end service (service/): clients, one PIR server and one hint *)
(* compression (HC) server.  Each server keeps one database and one batch  *)
(* of queries, for whoever set them last.  net/rpc runs every call in a    *)
(* goroutine of its own and the handlers take no lock, so a handler is a   *)
(* sequence of steps, one per access to what the handlers share (adjacent  *)
(* stores are one), and steps of several handlers interleave.  A client's  *)
(* main goroutine waits for each call; Client.Answer has two calls under   *)
(* way at once.                                                            *)
(*                                                                         *)
(* A database is known by its shape, which is all a client chooses; shapes *)
(* that differ have different numbers of (packed) columns.  A token is what*)
(* decrypts the answers to one client's queries on one database.           *)
(***************************************************************************)
EXTENDS Integers, FiniteSets

CONSTANTS
    Clients,
    Shapes,      \* database shapes
    UsesHint,    \* the clients started with an HC address (no -hint_ms)
    None,        \* nothing there yet (a nil pointer or an empty batch)
    Iters,       \* answers a client asks for with one batch of queries (15)
    MaxTries,    \* bound on the sizes the capacity search tries
    Drivers      \* clients started, and how many run at a time (run_e2e.py: 1)

ASSUME ServiceAssumption ==
    /\ IsFiniteSet(Clients) /\ UsesHint \subseteq Clients
    /\ None \notin Shapes \cup Clients \cup [client : Clients, shape : Shapes]
    /\ Iters \in Nat \ {0} /\ MaxTries \in Nat \ {0}
    /\ Drivers \subseteq [clients : SUBSET Clients, limit : Nat \ {0}]

VARIABLES
    \* PIR server
    db,          \* shape of s.Server's database
    batch,       \* whose batch size s.Server is set for, or that of a search
    queries,     \* s.queries: the client and the shape they were made for
    timed,       \* answers summed in totalTime
    numIters,
    crashed,     \* a handler panicked and took the process with it
    \* HC server and its process
    hcHint,      \* shape of the database whose hint was set
    hcQueries,   \* client whose queries were set
    driver,      \* fixed: what starts the clients
    \* clients
    shapeOf,     \* fixed: the shape each client's parameters ask for
    pc,          \* where the main goroutine is
    hintPc, pirPc,  \* where the two goroutines of Client.Answer are
    loaded,      \* what the handler last loaded of totalTime or numIters
    params,      \* shape in the parameters received from the PIR server
    keys,        \* what the secrets hold: the client's own keys, or a token
    answer,      \* the PIR answers received
    iter,        \* answers asked for so far
    tries,       \* sizes tried by the capacity search
    average      \* totalTime and numIters as BatchCapacityRPC read them

pirVars == <<db, batch, queries, timed, numIters, crashed>>
hcVars == <<hcHint, hcQueries>>
goroutines == <<hintPc, pirPc, loaded>>
received == <<params, keys, answer>>
counts == <<iter, tries, average>>
inputs == <<driver, shapeOf>>
clientVars == <<inputs, pc, goroutines, received, counts>>
vars == <<pirVars, hcVars, clientVars>>

Batch(c) == [client |-> c, shape |-> params[c]]

\* The goroutine that calls Server.AnswerRPC, and that call.
AnswerSteps == {"compute", "time", "timeStore", "count", "countStore"}

Init ==
    /\ db = None /\ batch = None /\ queries = None /\ timed = 0 /\ numIters = 0
    /\ crashed = FALSE
    /\ hcHint = None /\ hcQueries = None
    /\ driver \in Drivers
    /\ shapeOf \in [driver.clients -> Shapes]
    /\ pc = [c \in Clients |-> "off"]
    /\ hintPc = [c \in Clients |-> "idle"] /\ pirPc = [c \in Clients |-> "idle"]
    /\ loaded = [c \in Clients |-> 0]
    /\ params = [c \in Clients |-> None]
    /\ keys = [c \in Clients |-> None] /\ answer = [c \in Clients |-> None]
    /\ iter = [c \in Clients |-> 0] /\ tries = [c \in Clients |-> 0]
    /\ average = [c \in Clients |-> None]

Running == {c \in Clients : pc[c] \notin {"off", "done", "panic"}}

Step(c, from, to) == pc[c] = from /\ pc' = [pc EXCEPT ![c] = to]

Alive == ~crashed

-----------------------------------------------------------------------------
\* MakeClient and Server.ClientInitRPC.
Start(c) ==
    /\ c \in driver.clients /\ Cardinality(Running) < driver.limit
    /\ Step(c, "off", "install")
    /\ UNCHANGED <<pirVars, hcVars, goroutines, received, counts>>

\* Mutants: the server in place is used again, or freed before the new one is
\* made.
InstallDbOnce(c) ==
    /\ Alive /\ Step(c, "install", "reset")
    /\ db' = IF db = None THEN shapeOf[c] ELSE db
    /\ UNCHANGED <<batch, queries, timed, numIters, crashed, hcVars>>
    /\ UNCHANGED <<goroutines, received, counts>>
InstallDbFreesFirst(c) ==
    /\ Alive /\ Step(c, "install", IF db = None THEN "reset" ELSE "install")
    /\ db' = IF db = None THEN shapeOf[c] ELSE None
    /\ UNCHANGED <<batch, queries, timed, numIters, crashed, hcVars>>
    /\ UNCHANGED <<goroutines, received, counts>>

\* s.Server = randInstance(...)
InstallDb(c) ==
    /\ Alive /\ Step(c, "install", "reset")
    /\ db' = shapeOf[c]
    /\ UNCHANGED <<batch, queries, timed, numIters, crashed, hcVars>>
    /\ UNCHANGED <<goroutines, received, counts>>

\* Mutant: the metrics go on from one client to the next.
ResetMetricsNot(c) ==
    /\ Alive /\ Step(c, "reset", "hint")
    /\ batch' = c
    /\ UNCHANGED <<db, queries, timed, numIters, crashed, hcVars, goroutines, received, counts>>

\* SetBatch and the metrics; s.queries keeps the last client's.
ResetMetrics(c) ==
    /\ Alive /\ Step(c, "reset", "hint")
    /\ batch' = c /\ timed' = 0 /\ numIters' = 0
    /\ UNCHANGED <<db, queries, crashed, hcVars, goroutines, received, counts>>

\* response.Params = s.Hint(), of whatever s.Server is by now.
ReplyHint(c) ==
    /\ Alive /\ Step(c, "hint", IF c \in UsesHint THEN "hcInit" ELSE "query")
    /\ params' = [params EXCEPT ![c] = db]
    /\ UNCHANGED <<pirVars, hcVars, keys, answer, goroutines, counts>>

\* Mutant: only a new HC server gets the hint.
HcClientInitOnce(c) ==
    /\ Step(c, "hcInit", "query")
    /\ hcHint' = (IF hcHint = None THEN params[c] ELSE hcHint) /\ hcQueries' = None
    /\ UNCHANGED <<pirVars, goroutines, received, counts>>

\* HCServer.ClientInitRPC: a new HC process session or a reset of the one
\* there is, then SetHint.  Either way its queries are gone.
HcClientInit(c) ==
    /\ Step(c, "hcInit", "query")
    /\ hcHint' = params[c] /\ hcQueries' = None
    /\ UNCHANGED <<pirVars, goroutines, received, counts>>

\* Client.Query and Server.QueryRPC: the secrets hold the client's keys.
Query(c) ==
    /\ Alive /\ Step(c, "query", IF c \in UsesHint THEN "hcQuery" ELSE "answer")
    /\ queries' = Batch(c)
    /\ keys' = [keys EXCEPT ![c] = None]
    /\ UNCHANGED <<db, batch, timed, numIters, crashed, hcVars>>
    /\ UNCHANGED <<params, answer, goroutines, counts>>

\* The rest of Client.Query and HCServer.QueryRPC.
HcQuery(c) ==
    /\ Step(c, "hcQuery", "answer")
    /\ hcQueries' = c
    /\ UNCHANGED <<pirVars, hcHint, goroutines, received, counts>>

-----------------------------------------------------------------------------
\* Mutant: wg.Done only after a call to the HC server.
AskAnswersDoneOnCall(c) ==
    /\ iter[c] < Iters
    /\ Step(c, "answer", "wait")
    /\ hintPc' = [hintPc EXCEPT ![c] = IF c \in UsesHint THEN "call" ELSE "idle"]
    /\ pirPc' = [pirPc EXCEPT ![c] = "compute"]
    /\ iter' = [iter EXCEPT ![c] = @ + 1]
    /\ UNCHANGED <<pirVars, hcVars, tries, average, loaded, received>>

\* Client.Answer starts its two goroutines.
AskAnswers(c) ==
    /\ iter[c] < Iters
    /\ Step(c, "answer", "wait")
    /\ hintPc' = [hintPc EXCEPT ![c] = IF c \in UsesHint THEN "call" ELSE "done"]
    /\ pirPc' = [pirPc EXCEPT ![c] = "compute"]
    /\ iter' = [iter EXCEPT ![c] = @ + 1]
    /\ UNCHANGED <<pirVars, hcVars, tries, average, loaded, received>>

\* One goroutine: HCServer.AnswerRPC, Recover, and SetInner on every key.
FetchToken(c) ==
    /\ hintPc[c] = "call"
    /\ hcHint # None /\ hcQueries # None
    /\ hintPc' = [hintPc EXCEPT ![c] = "done"]
    /\ keys' = [keys EXCEPT ![c] = [client |-> hcQueries, shape |-> hcHint]]
    /\ UNCHANGED <<pirVars, hcVars, pc, pirPc, params, answer, loaded, counts>>

\* MulVecPacked panics unless the queries are as long as the database has
\* columns.
Fits == db # None /\ queries # None /\ queries.shape = db

\* The other: Server.AnswerRPC computes the answers ...
ComputeAnswer(c) ==
    /\ Alive /\ pirPc[c] = "compute" /\ Fits
    /\ pirPc' = [pirPc EXCEPT ![c] = "time"]
    /\ answer' = [answer EXCEPT ![c] = [client |-> queries.client, shape |-> db]]
    /\ UNCHANGED <<pirVars, hcVars, pc, hintPc, params, keys, loaded, counts>>

\* ... or brings the server down ...
ComputePanics(c) ==
    /\ Alive /\ pirPc[c] = "compute" /\ ~Fits
    /\ crashed' = TRUE
    /\ UNCHANGED <<db, batch, queries, timed, numIters, hcVars, pc, goroutines, received, counts>>

\* ... and adds to totalTime and to numIters, each a load and then a store:
\* what another handler stores in between is lost.
Load(c, from, to, value) ==
    /\ Alive /\ pirPc[c] = from
    /\ pirPc' = [pirPc EXCEPT ![c] = to]
    /\ loaded' = [loaded EXCEPT ![c] = value]
    /\ UNCHANGED <<pirVars, hcVars, pc, hintPc, received, counts>>

LoadTime(c) == Load(c, "time", "timeStore", timed)
LoadIter(c) == Load(c, "count", "countStore", numIters)

Store(c, from, to) ==
    /\ Alive /\ pirPc[c] = from
    /\ pirPc' = [pirPc EXCEPT ![c] = to]
    /\ loaded' = [loaded EXCEPT ![c] = 0]
    /\ UNCHANGED <<db, batch, queries, crashed, hcVars, pc, hintPc, received, counts>>

StoreTime(c) == Store(c, "timeStore", "count") /\ timed' = loaded[c] + 1 /\ UNCHANGED numIters
StoreIter(c) == Store(c, "countStore", "done") /\ numIters' = loaded[c] + 1 /\ UNCHANGED timed

\* wg.Wait
Join(c) ==
    /\ hintPc[c] = "done" /\ pirPc[c] = "done"
    /\ Step(c, "wait", IF c \in UsesHint THEN "recover" ELSE "answer")
    /\ hintPc' = [hintPc EXCEPT ![c] = "idle"] /\ pirPc' = [pirPc EXCEPT ![c] = "idle"]
    /\ UNCHANGED <<pirVars, hcVars, loaded, received, counts>>

\* Recover subtracts the tokens from the answers; the keys keep the tokens for
\* the next round.
Recover(c) ==
    /\ Step(c, "recover", "answer")
    /\ UNCHANGED <<pirVars, hcVars, goroutines, received, counts>>

-----------------------------------------------------------------------------
\* GetBatchCapacity and Server.BatchCapacityRPC, once all answers are in: the
\* average over the answers timed ...
AskCapacity(c) ==
    /\ Alive /\ iter[c] = Iters
    /\ Step(c, "answer", "capacity")
    /\ average' = [average EXCEPT ![c] = <<timed, numIters>>]
    /\ UNCHANGED <<pirVars, hcVars, iter, tries, goroutines, received>>

\* ... queries made for the parameters of s.Server at that moment ...
MakeDummies(c) ==
    /\ Alive /\ Step(c, "capacity", "search")
    /\ params' = [params EXCEPT ![c] = db]
    /\ UNCHANGED <<pirVars, hcVars, keys, answer, goroutines, counts>>

\* ... then, for each size tried, SetBatch and the timed answers, of whatever
\* s.Server is by then.  Module BatchCapacity has the search itself.
TrySize(c) ==
    /\ Alive /\ pc[c] = "search" /\ tries[c] < MaxTries
    /\ tries' = [tries EXCEPT ![c] = @ + 1]
    /\ batch' = None
    /\ crashed' = (db # params[c])
    /\ UNCHANGED <<db, queries, timed, numIters, hcVars, pc, iter, average, goroutines, received>>

ReplyCapacity(c) ==
    /\ Alive /\ tries[c] > 0
    /\ Step(c, "search", "done")
    /\ UNCHANGED <<pirVars, hcVars, goroutines, received, counts>>

\* A call in progress when the server goes down, or made after, is an error,
\* on which the client panics.
CallFails(c) ==
    /\ crashed
    /\ \/ pc[c] \in {"install", "reset", "hint", "query", "capacity", "search"}
       \/ pc[c] = "answer" /\ iter[c] = Iters
       \/ pirPc[c] \in AnswerSteps
    /\ pc' = [pc EXCEPT ![c] = "panic"]
    /\ hintPc' = [hintPc EXCEPT ![c] = "idle"] /\ pirPc' = [pirPc EXCEPT ![c] = "idle"]
    /\ UNCHANGED <<pirVars, hcVars, loaded, received, counts>>

Client(c) ==
    \/ Start(c) \/ InstallDb(c) \/ ResetMetrics(c) \/ ReplyHint(c) \/ HcClientInit(c)
    \/ Query(c) \/ HcQuery(c)
    \/ AskAnswers(c) \/ FetchToken(c)
    \/ ComputeAnswer(c) \/ ComputePanics(c)
    \/ LoadTime(c) \/ StoreTime(c) \/ LoadIter(c) \/ StoreIter(c)
    \/ Join(c) \/ Recover(c)
    \/ AskCapacity(c) \/ MakeDummies(c) \/ TrySize(c) \/ ReplyCapacity(c)
    \/ CallFails(c)

Next == \E c \in Clients : Client(c) /\ UNCHANGED inputs

\* Every goroutine that can go on does, and the driver starts every client.
Spec == Init /\ [][Next]_vars
FairSpec == Spec /\ \A c \in Clients : WF_vars(Client(c) /\ UNCHANGED inputs)

-----------------------------------------------------------------------------
Own(c) == [client |-> c, shape |-> shapeOf[c]]

OneAtATime == driver.limit = 1

\* What AnswerRPC is about to read, set by three calls at different times, is
\* all of the client it answers: its database, batch size and queries.
AnswersCaller ==
    OneAtATime => \A c \in Clients : pirPc[c] = "compute" =>
        db = shapeOf[c] /\ batch = c /\ queries = Own(c)

\* The answers a client recovers from and the tokens it subtracts belong
\* together: its own queries, on its own database, in every round.
DecryptsOwn ==
    OneAtATime => \A c \in Clients : pc[c] = "recover" =>
        answer[c] = Own(c) /\ keys[c] = Own(c)

\* The average BatchCapacityRPC takes is over the answers to this client alone
\* and never over none of them.
AverageOverOwn ==
    OneAtATime => \A c \in Clients : average[c] # None => average[c] = <<Iters, Iters>>

\* The server only panics for two clients at once, with databases of different
\* shapes, however the calls interleave.
PanicNeedsTwoShapes ==
    crashed => ~OneAtATime /\ \E c, d \in driver.clients : shapeOf[c] # shapeOf[d]

\* Every client comes to an end: no call waits for ever.  Where clients run one
\* at a time it is the regular end, and no panic.
AllEnd ==
    <>(\A c \in driver.clients : pc[c] \in {"done"} \cup (IF OneAtATime THEN {} ELSE {"panic"}))

===============================================================================
