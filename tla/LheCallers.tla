----------------------------- MODULE LheCallers -----------------------------
(***************************************************************************)
(* Who makes, uses and frees clients and servers of the LHE scheme, and in *)
(* which order: tests, benchmarks, the databases of distributional PIR,    *)
(* the buckets of batch PIR, and the PIR service, whose search for the     *)
(* batch capacity (BatchCapacity) sets the batch for each size it tries    *)
(* and has a client of its own.                                            *)
(*                                                                         *)
(* A caller is the sequence of calls it makes: `plan' is what is left.     *)
(***************************************************************************)
EXTENDS LheMemory, BatchCapacity

CONSTANTS
    Load,     \* queries of a batch: 3 in the tests
    P,        \* queries of a bucket of batch PIR: 2
    Rounds    \* of a loop: 15 of a session, 50 of a test, b.N of a benchmark

ASSUME CallersAssumption == {Load, P, Rounds} \subseteq Nat \ {0}

VARIABLES
    plan,
    caller,      \* who makes the calls
    searcher     \* the client of BatchCapacityRPC

callers == <<caller, searcher>>
allVars == <<setting, memory, vars, plan, callers>>

Call(op) == [op |-> op, n |-> 0, dummies |-> 0]
SetTo(n) == [op |-> "setBatch", n |-> n, dummies |-> 0]
Ask(n, dummies) == [op |-> "query", n |-> n, dummies |-> dummies]

-----------------------------------------------------------------------------
\* A loop of one call, and one whose round r makes the k calls of rounds[r].
Loop(call) == [i \in 1..Rounds |-> call]
InTurn(rounds, k) == [i \in 1..k * Rounds |-> rounds[((i - 1) \div k) + 1][((i - 1) % k) + 1]]

Opening == <<Call("makeServer"), Call("initClient")>>
Closing == <<Call("freeServer"), Call("freeClient")>>

\* n queries, made up to k by dummies, are answered and recovered.
Round(n, k) == <<Ask(n, k - n), Call("answer"), Call("recover")>>

\* testLHEHelper
LheTest == Opening \o <<SetTo(Load)>> \o Round(Load, Load) \o Closing

\* bench of lhe_test.go: of queries, of answers, and of recovering, again and
\* again from the answers to the same queries.  It sets no batch and frees no
\* secrets.
QueryLatency == Opening \o Loop(Ask(Load, 0)) \o Closing
AnswerLatency == Opening \o <<Ask(Load, 0)>> \o Loop(Call("answer")) \o Closing
RecoverLatency ==
    Opening \o <<Ask(Load, 0), Call("answer")>> \o Loop(Call("recover")) \o Closing

\* A database of distributional PIR, asked ns[r] of at most Load indices.
Dpir(ns) ==
    <<Call("makeServer"), SetTo(Load), Call("initClient")>>
    \o InTurn([r \in 1..Rounds |-> Round(ns[r], Load)], 3) \o Closing

\* A bucket of batch PIR, whose batch nobody sets, and which has P queries
\* whatever is scheduled in it.
Bucket(ns) == Opening \o InTurn([r \in 1..Rounds |-> Round(ns[r], P)], 3) \o Closing

\* The same below dpir.MakeServer, which has a context of its own.
DpirBucket(ns) == <<Call("spareContext")>> \o Bucket(ns)

\* benchmarkPBC recovers nothing, and benchmarkDPIR, which asks two databases,
\* asks for nothing.
PbcBench(ns) ==
    Opening \o InTurn([r \in 1..Rounds |-> <<Ask(ns[r], P - ns[r]), Call("answer")>>], 2) \o Closing
DummyBench ==
    <<Call("spareContext")>> \o Opening \o <<Ask(0, P)>> \o Loop(Call("answer"))
DpirBench == DummyBench \o Closing \o DummyBench \o <<Call("freeClient"), Call("freeServer")>>

\* benchmarkQuery is run with more and more inputs, and frees all of a run's
\* secrets when it ends: the queries of a run are one call here.
QueryBench == Opening \o InTurn([r \in 1..Rounds |-> <<Ask(r, 0), Call("freeSecrets")>>], 2) \o Closing

\* benchmarkThroughput, for batches of growing sizes
Tput(k) == <<Ask(k, 0), Call("freeSecrets"), SetTo(k)>> \o Loop(Call("answer"))
ThroughputBench == Opening \o Tput(1) \o Tput(Load) \o Closing

\* A client of the PIR service: rounds of answers to the same queries, recovered
\* if it has a server to compress hints, and the search for the capacity.  There
\* is one search: a session after it ends before its own.
AnswerRounds(compresses) ==
    IF compresses THEN InTurn([r \in 1..Rounds |-> <<Call("answer"), Call("recover")>>], 2)
    ELSE Loop(Call("answer"))
Session(compresses, search) ==
    <<Call("makeServer"), SetTo(Load), Call("initClient"), Ask(Load, 0)>>
    \o AnswerRounds(compresses) \o search \o <<Call("freeClient")>>
Searched(compresses) == Session(compresses, <<Call("capacity")>>)

Asked(k) == [1..Rounds -> 0..k]

\* Everyone who makes a client and a server of the scheme, and what each may do.
Plans ==
    [lheTest |-> {LheTest},
     queryLatency |-> {QueryLatency},
     answerLatency |-> {AnswerLatency},
     recoverLatency |-> {RecoverLatency},
     dpir |-> {Dpir(ns) : ns \in Asked(Load)},
     bucket |-> {Bucket(ns) : ns \in Asked(P)} \cup {DpirBucket(ns) : ns \in Asked(P)},
     pbcBench |-> {PbcBench(ns) : ns \in Asked(P)},
     dpirBench |-> {DpirBench},
     queryBench |-> {QueryBench},
     throughputBench |-> {ThroughputBench},
     service |-> {Searched(compresses) : compresses \in BOOLEAN}
                 \cup {Searched(FALSE) \o Session(compresses, <<>>) : compresses \in BOOLEAN}]

\* The server of the service compresses hints, batch PIR and the benchmark of
\* recovering are made for the hybrid mode.
Modes ==
    [c \in DOMAIN Plans |->
        IF c = "service" THEN {"None"}
        ELSE IF c \in {"recoverLatency", "bucket", "pbcBench", "dpirBench"} THEN {"Hybrid"}
        ELSE {"None", "Hybrid"}]

CallersInit ==
    /\ hasGpu \in BOOLEAN
    /\ caller \in DOMAIN Plans /\ plan \in Plans[caller]
    /\ compressHint = (caller = "service")
    /\ mode \in Modes[caller]
    /\ Init
    /\ caller # "service" => high = 0
    /\ heap = [live |-> {}, made |-> 0, misused |-> FALSE]
    /\ server = NoServer /\ client = NoClient /\ searcher = NoClient
    /\ secrets = <<>> /\ queries = 0
    /\ answer = [count |-> 0, of |-> 0, within |-> TRUE, served |-> TRUE]

-----------------------------------------------------------------------------
Calling(op) == plan # <<>> /\ Head(plan).op = op
Return == plan' = Tail(plan)

\* A call that neither is nor touches a search.
Step(op, action) ==
    /\ Calling(op) /\ action /\ Return
    /\ UNCHANGED <<vars, callers>>

\* BatchCapacityRPC makes a client of its own ...
StartSearch ==
    /\ Calling("capacity") /\ searcher = NoClient
    /\ heap' = ClientObjects(heap).heap
    /\ searcher' = ClientObjects(heap).client
    /\ UNCHANGED <<setting, server, client, secrets, queries, answer, vars, plan, caller>>

\* ... sets the batch to each size it tries, and has that many dummies answered;
TryMemory ==
    /\ Calling("capacity") /\ searcher # NoClient
    /\ server' = Batched(batchSize)
    /\ answer' = AnswerTo(server', batchSize)
    /\ UNCHANGED <<setting, client, secrets, queries, caller>>

GoOn ==
    /\ TryMemory
    /\ Advance \/ HundredsOver \/ TensOver
    /\ heap' = Use(heap, AnswerUses(server))
    /\ UNCHANGED <<plan, searcher>>

\* its client is freed when it returns.
EndSearch ==
    /\ TryMemory
    /\ Finish
    /\ heap' = Release(Release(Use(heap, AnswerUses(server)), searcher.ctx), searcher.polysA)
    /\ searcher' = NoClient
    /\ Return

CallersNext ==
    \/ Step("spareContext", SpareContext)
    \/ Step("makeServer", MakeServer)
    \/ Step("initClient", InitClient)
    \/ Step("setBatch", SetBatch(Head(plan).n))
    \/ Step("query", Query(Head(plan).n, Head(plan).dummies))
    \/ Step("answer", Answer)
    \/ Step("recover", Recover)
    \/ Step("freeSecrets", FreeSecrets)
    \/ Step("freeServer", FreeServer)
    \/ Step("freeClient", FreeClient)
    \/ StartSearch \/ GoOn \/ EndSearch

CallersSpec == CallersInit /\ [][CallersNext]_allVars /\ WF_allVars(CallersNext)

-----------------------------------------------------------------------------
(* Properties *)

\* Callers that have more queries than one answered by a server whose batch
\* nobody set.
SetsNoBatch == {"answerLatency", "recoverLatency", "bucket", "pbcBench", "dpirBench"}

\* Callers that neither recover from some of their queries nor free the secrets.
DropsSecrets == {"queryLatency", "answerLatency", "pbcBench"}

\* No object is used or freed after it was freed, but by the benchmark that
\* recovers again from the same queries and so frees their keys again; and on a
\* GPU no query is written past the end of its buffer, but by callers that set
\* no batch for their queries, so that there is room for one.
MemorySafe ==
    /\ heap.misused => caller = "recoverLatency"
    /\ ~answer.within => hasGpu /\ caller \in SetsNoBatch

\* On a GPU each query of a batch is multiplied by the database from a column of
\* its own, which the product returned has, and which is there whatever size of
\* batch was set up before it, if the caller sets any.
AnswersWhole == answer.served \/ (hasGpu /\ caller \in SetsNoBatch)

\* When a caller is through, what was made for its queries, its clients and its
\* servers is freed, but for the key a client makes the polynomials with, a
\* context made for its parameters, keys of queries that a GPU's answer leaves
\* unrecovered or whose caller drops them, and servers of the service.
Reclaimed ==
    plan = <<>> => \A object \in heap.live :
        \/ object.kind \in {"initKey", "spareCtx"}
        \/ object.kind = "key" /\ (hasGpu \/ caller \in DropsSecrets)
        \/ object.kind \in {"serverCtx", "gpu"} /\ caller = "service"

\* Every caller gets through; the search it may make ends.
Returns == <>(plan = <<>>)

==============================================================================
