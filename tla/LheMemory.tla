------------------------------ MODULE LheMemory ------------------------------
(***************************************************************************)
(* What a client and a server of the LHE scheme keep outside of Go: SEAL's *)
(* objects, which someone must free once and nobody may use after, and the *)
(* buffers of a GPU, which are as wide as the batch set last.              *)
(*                                                                         *)
(* An object is a record of a kind and a number, `heap' what was done with *)
(* them.  Matrices are in Go's memory and not followed; of a query there   *)
(* is only where its elements go.  The kernels on the device are external. *)
(***************************************************************************)
EXTENDS Integers, Sequences, FiniteSets

CONSTANTS
    M, N,        \* columns of the database; elements of a ciphertext
    Squishing    \* elements of a word of the squished database (COMPRESSION_32: 3)

ASSUME MemoryAssumption == {M, N, Squishing} \subseteq Nat \ {0}

VARIABLES
    hasGpu, mode, compressHint,   \* gpu.UseGPU, and how the server is made
    heap,                         \* live objects, how many were made, whether one was misused
    server, client,               \* what each holds
    secrets,                      \* of the last query: the key of each, if any
    queries,                      \* how many the server is asked
    answer                        \* of the last Answer

setting == <<hasGpu, mode, compressHint>>
memory == <<heap, server, client, secrets, queries, answer>>

-----------------------------------------------------------------------------
(* The C functions: a `_new' gives an object, a `_free' takes it back. *)

Objects(kind, h, k) == {[kind |-> kind, number |-> h.made + i] : i \in 1..k}
Heap(live, made, misused) == [live |-> live, made |-> made, misused |-> misused]
New(h, objects) == Heap(h.live \cup objects, h.made + Cardinality(objects), h.misused)
Use(h, objects) == Heap(h.live, h.made, h.misused \/ ~(objects \subseteq h.live))
Release(h, objects) == Heap(h.live \ objects, h.made, Use(h, objects).misused)

-----------------------------------------------------------------------------
(* gpu.go: a context holds A, and room for columns of B and of the product. *)

\* NewContext and Allocate: all buffers anew, zero.
Allocated(n) == [a |-> "zeros", room |-> n, outCols |-> n]

\* SetBatch: all buffers but A anew.
SetBatchOf(device, n) == [a |-> device.a, room |-> n, outCols |-> n]

SetA(device) == [device EXCEPT !.a = "database"]

\* Mutant: the database is not copied again to the buffer made anew.
ForQueriesNoA(device) == Allocated(1)

\* What MakeSimpleServer leaves of the context the hint was computed with.
ForQueries(device) == SetA(Allocated(1))

NumA == (M + N - 1) \div N
Less(a, b) == IF a < b THEN a ELSE b

\* Mutant: every ciphertext is written in full.
PieceCellsFull(i, j) == i * M + j * N .. i * M + j * N + N - 1

\* ExtractLWECtGPU: where the j-th ciphertext of the i-th query goes.
PieceCells(i, j) ==
    LET samples == Less(M - j * N, N)
    IN i * M + j * N .. i * M + j * N + samples - 1

\* A query's vector is not padded for a GPU, nor is its database squished.
Padding == IF ~hasGpu /\ M % Squishing # 0 THEN Squishing - (M % Squishing) ELSE 0

\* Cells of B that the i-th query is written to.
QueryCells(i) ==
    IF mode = "None" THEN i * M .. i * M + (M + Padding) - 1
    ELSE UNION {PieceCells(i, j) : j \in 0..NumA - 1}

\* Whether k queries stay within the buffer ...
Within(device, k) == \A i \in 0..k - 1 : QueryCells(i) \subseteq 0..M * device.room - 1
\* ... and each has a column of its own, and the product all of them.
Served(device, k) ==
    /\ device.a = "database" /\ k <= device.outCols
    /\ \A i \in 0..k - 1 : QueryCells(i) = i * M .. (i + 1) * M - 1

-----------------------------------------------------------------------------
(* The server *)

NoServer == [made |-> FALSE, ctx |-> {}, gpu |-> {}, device |-> Allocated(0)]

\* crypto.NewContext, by the caller, and MakeSimpleServer.  A server there was
\* is forgotten, not freed.
MakeServer ==
    LET ctx == Objects("serverCtx", heap, 1)
        withCtx == Use(New(heap, ctx), ctx)
        gpu == IF hasGpu THEN Objects("gpu", withCtx, 1) ELSE {}
    IN /\ heap' = New(withCtx, gpu)
       /\ server' = [made |-> TRUE, ctx |-> ctx, gpu |-> gpu,
                     device |-> IF hasGpu THEN ForQueries(SetA(Allocated(N))) ELSE Allocated(0)]
       /\ UNCHANGED <<setting, client, secrets, queries, answer>>

\* A context made for its parameters only, which nobody keeps.
SpareContext ==
    LET ctx == Objects("spareCtx", heap, 1)
    IN /\ heap' = Use(New(heap, ctx), ctx)
       /\ UNCHANGED <<setting, server, client, secrets, queries, answer>>

\* SetBatch, as it leaves the server, which on a CPU it does not change.
Batched(n) == IF server.gpu = {} THEN server ELSE [server EXCEPT !.device = SetBatchOf(@, n)]

SetBatch(n) ==
    /\ heap' = Use(heap, server.gpu)
    /\ server' = Batched(n)
    /\ UNCHANGED <<setting, client, secrets, queries, answer>>

\* Server.Answer: on a GPU queries are copied to the columns of B, on a CPU each
\* is multiplied alone.
AnswerTo(s, k) ==
    [count |-> IF hasGpu THEN Less(k, 1) ELSE k,
     of |-> k,
     within |-> ~hasGpu \/ Within(s.device, k),
     served |-> ~hasGpu \/ Served(s.device, k)]

AnswerUses(s) == s.gpu \cup (IF mode = "Hybrid" THEN s.ctx ELSE {})

Answer ==
    /\ heap' = Use(heap, AnswerUses(server))
    /\ answer' = AnswerTo(server, queries)
    /\ UNCHANGED <<setting, server, client, secrets, queries>>

FreeServer ==
    /\ heap' = Release(Release(heap, server.ctx), server.gpu)
    /\ UNCHANGED <<setting, server, client, secrets, queries, answer>>

-----------------------------------------------------------------------------
(* The client *)

NoClient == [ctx |-> {}, polysA |-> {}]

\* Init: in Hybrid mode a key is made for the polynomials only, and never freed.
ClientObjects(h) ==
    LET ctx == Objects("ctx", h, 1)
        withCtx == New(h, ctx)
        key == IF mode = "Hybrid" THEN Objects("initKey", withCtx, 1) ELSE {}
        withKey == New(withCtx, key)
        polysA == IF mode = "Hybrid" THEN Objects("a", withKey, NumA) ELSE {}
    IN [heap |-> Use(New(withKey, polysA), ctx \cup key), client |-> [ctx |-> ctx, polysA |-> polysA]]

InitClient ==
    /\ heap' = ClientObjects(heap).heap
    /\ client' = ClientObjects(heap).client
    /\ UNCHANGED <<setting, server, secrets, queries, answer>>

\* Query and DummyQuery of Hybrid mode: for each input a key, and a ciphertext
\* and a plaintext for each polynomial; ciphertexts are freed when it returns.
\* A dummy has no key.  Mutant: ciphertexts are not freed.
QueryNoFree(k, dummies) ==
    LET keys == Objects("key", heap, k)
        withKeys == Use(New(heap, keys), client.ctx \cup client.polysA)
        cts == Objects("ct", withKeys, k * NumA)
    IN /\ heap' = New(withKeys, cts)
       /\ secrets' = [i \in 1..k |-> [dummy |-> FALSE, key |-> {[kind |-> "key", number |-> heap.made + i]}]]
                     \o [i \in 1..dummies |-> [dummy |-> TRUE, key |-> {}]]
       /\ queries' = k + dummies
       /\ UNCHANGED <<setting, server, client, answer>>

QueryHybrid(k, dummies) ==
    LET keys == Objects("key", heap, k)
        withKeys == Use(New(heap, keys), client.ctx \cup client.polysA)
        cts == Objects("ct", withKeys, k * NumA)
        withCts == New(withKeys, cts)
        pts == Objects("pt", withCts, k * NumA)
    IN /\ heap' = Release(Release(Use(New(withCts, pts), keys \cup cts \cup pts), pts), cts)
       /\ secrets' = [i \in 1..k |-> [dummy |-> FALSE, key |-> {[kind |-> "key", number |-> heap.made + i]}]]
                     \o [i \in 1..dummies |-> [dummy |-> TRUE, key |-> {}]]
       /\ queries' = k + dummies
       /\ UNCHANGED <<setting, server, client, answer>>

QueryNone(k, dummies) ==
    /\ heap' = heap
    /\ secrets' = [i \in 1..k + dummies |-> [dummy |-> i > k, key |-> {}]]
    /\ queries' = k + dummies
    /\ UNCHANGED <<setting, server, client, answer>>

Query(k, dummies) ==
    \/ mode = "Hybrid" /\ QueryHybrid(k, dummies)
    \/ mode = "None" /\ QueryNone(k, dummies)

\* Recover goes through the answers, of which a GPU gives one, and frees the
\* keys of those it recovered when it returns.
Recover ==
    LET recovered == {i \in 1..answer.count : ~secrets[i].dummy}
        keys == UNION {secrets[i].key : i \in recovered}
        used == Use(heap, IF mode = "Hybrid" /\ recovered # {} THEN client.ctx ELSE {})
    IN /\ heap' = IF compressHint THEN used ELSE Release(used, keys)
       /\ UNCHANGED <<setting, server, client, secrets, queries, answer>>

\* A benchmark frees the secrets it does not recover with.
FreeSecrets ==
    /\ heap' = Release(heap, UNION {secrets[i].key : i \in DOMAIN secrets})
    /\ UNCHANGED <<setting, server, client, secrets, queries, answer>>

FreeClient ==
    /\ heap' = Release(Release(heap, client.ctx), client.polysA)
    /\ UNCHANGED <<setting, server, client, secrets, queries, answer>>

==============================================================================
