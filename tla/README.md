# TLA+ models of CrowdSurf

CrowdSurf is a Go library for batch and distributional private information
retrieval (PIR) over linearly homomorphic encryption (LHE), with a service that
runs it end to end. This directory holds TLA+ models of the parts of it where
order, failure and boundaries decide correctness, the TLC configurations that
check them on small instances, and TLAPS proofs of the results that matter most
for every instance.

* Run a model: `tlc -config <X>.cfg <Module>.tla`. Check proofs: `tlapm <M>_proofs.tla`.
* `PROJECT.json` lists the runs, the code each definition stands for (`map`), a
  mutant of the code each property catches, the hazards and the theorems.

## 1. The system

Paths are relative to `src/`.

| Component | State it keeps | Operations | What makes it correct |
|---|---|---|---|
| **Batch code, bucket choices** `batching/pbc/common.go` | none (a function of the key) | `getBuckets`, `numBuckets`, `numChoices`, `numQueriesPer` | server and client derive the same list of distinct buckets; it always ends |
| **Batch code, schedule** `batching/pbc/common.go` | the map bucket -> keys while `GenSchedule` runs | `GenSchedule`, `cuckooInsert` | every key lands in a bucket of its own, evictions lose none, no bucket gets more keys than it answers queries |
| **Batch PIR** `batching/pbc/{client,server}.go` | server: one LHE server per bucket, index mapping; client: one LHE client per bucket, mode | `MakeServer`/`EncodeDB`, `Params`/`Hint`, `Init`, `Query`, `Answer`, `Recover` | what is delivered is the entry asked for; the shape of a batch does not depend on the indices |
| **Packing** `batching/bucketing.go` | the running budget of rows or columns | `PackingDims`, `Approx*` | each bucket fits its matrix; the totals stay within the budget of the method |
| **Distributional PIR** `batching/dpir` | server: popular and worst-case buckets; client: coin, schedule | `MakeServer`, `Query`, `Answer`, `Recover` | answers are paired with the right keys; the load per bucket is fixed |
| **LHE client/server** `lhe` (`simple_*`, `local`) | server: database, hint, batch size, device context; client: matrix seed; secrets | `Init`, `Query`, `Answer`, `Recover`, `SetBatch`, `Free` | answers and secrets correspond; a secret is used and freed once |
| **LHE database** `lhe/database.go` | the packed matrix and `DBInfo` | `NewDB`, `RandomDB`, `ReconstructElem` | reading an entry back gives the value packed |
| **PIR service** `service/pir_server.go`, `client.go` | server: `Server`, `queries`, `totalTime`, `numIters`; client: LHE client, secrets, queries | `ClientInitRPC`, `QueryRPC`, `AnswerRPC`, `BatchCapacityRPC` and the client's calls | an answer is to the caller's queries, on its database; timing is over the caller's answers; the server stays up |
| **Hint compression (HC) service** `service/hc_server.go`, `crypto/hint_compr_*` | one HC process per server, the hint and the queries it was sent | `ClientInitRPC`, `QueryRPC`, `AnswerRPC`; the socket protocol | the token returned belongs to the answers it decrypts |
| **Parameters** `crypto/params.go`, `constants.go` | tables | `CheckParams`, `NewParamsFixedP` | the modulus is small enough for the columns |
| **Matrices** `matrix` | dense and packed matrices | products, `Squish`, file I/O | dimensions agree; packing keeps elements apart |
| **GPU** `matrix/gpu` | buffers for A, B and the product on a device, the width of a batch | `NewContext`, `Allocate`, `SetBatch`, `SetA`, `SetB`, `GEMM` | a query has a column of its own within the buffer, and the database is in place |
| **Ring LWE, C kernels** `crypto/rlwe`, `matrix/*.c` | SEAL's objects, outside of Go's memory | `_new` and `_free` wrappers, hint, encryption, extraction | objects are freed once and not used after; the hint belongs to the masks |
| **Randomness** `crypto/rand` | a counter and a buffer | `Read` | both sides of a seed read the same stream |
| **Benchmarks, scripts** `benches`, `service/bin`, `service/*.py` | none | drivers | - |

How they interact:

* `MakeServer` of `pbc` calls `getBuckets` for every entry, `PackingDims` for the
  shapes and `lhe.NewDB` for each bucket. `Client.Query` calls `GenSchedule`,
  which calls `getBuckets` again, and reads `mapping` (sent with the hint) for
  each key in each bucket. The two sides never compare their choices.
* A service client holds two connections: to the PIR server and to the HC
  server. `Client.Answer` makes a call on each from two goroutines. `net/rpc`
  serves every connection from its own goroutine and every call in another, and
  the handlers share their server's fields without a lock. The HC server talks
  to one HC process over a socket, which keeps the last hint and queries; each
  client talks to a process of its own over another.
* Whoever makes a client or a server of the LHE scheme frees it, and `Recover`
  frees the keys that `Query` made, unless the hint is compressed. On a GPU
  someone must have called `SetBatch` with the number of queries that come.

Where it is hard: random evictions of bounded depth; positions paired between
three parties that never see each other's lists (dummies must come after real
queries, and `Recover` must drop exactly those); unsigned subtraction
(`queriesPer - len(inputs)`, `batchSize - 90`, `maxCols - cols`); handlers that
interleave on unlocked fields; averages over none; a field left at its zero
value that silently selects the other code.

## 2. Modules

| Module | Models | State | Actions |
|---|---|---|---|
| `PbcMode` | the two batch codes and their numbers (`D`, `P`, buckets, choices, queries) | `mode` | - |
| `PbcGetBuckets` | `getBuckets` for one key | `nonce`, `buckets`, the hash as a fixed function `digest` | `Accept`, `Skip`: one pass of the loop each |
| `PbcSchedule` | `GenSchedule` and `cuckooInsert` | the schedule, the key in hand, the depth of the recursion, the position in the batch | `HashPlace`, `HashDrop`, `CuckooTake`, `CuckooPlace`, `CuckooEvict`, `CuckooGiveUp`, `Return` |
| `BatchPir` | the batch PIR server and client; instantiates `PbcSchedule` for the call inside `Query` | server's buckets, mapping, columns; client's mode and schedule; queries, secrets, answers | one per operation; `EncodeDB` is a step per entry |
| `BatchRetrieval` | what batch PIR promises | wanted, results, done | `Deliver` |
| `LheScheme` | which answer of a batch belongs to which query, dummies behind real queries, on a CPU or a GPU, and with the local scheme; pure operators shared by `BatchPir` and `Dpir` | - | - |
| `Dpir` | the distributional PIR server and client, over `LheScheme` or over what `BatchRetrieval` promises | the two databases' parameters, the side of the coin, keys kept, secrets, queries, answers | `QueryLhe`, `QueryBatch`, `QueryPanics`, `Answer`, `RecoverLhe`, `RecoverBatch` |
| `Packing` | `PackingDims` and the `Approx*` functions | buckets left, the allowance left, the shapes | `Pack` (a bucket), `Panic` |
| `LheDatabase` | `newDBInfo`, `NewDB`, `ReconstructElem` | the matrix, entries packed | `PackEntry` |
| `LheHint` | the matrix A expanded from a seed on either side, the hint, and what masks a query; pure operators | - | - |
| `LheAnswer` | one LHE query in numbers, over `LheHint` | hint, packed words, query, sums | `MakeHint`, `Squish`, `QueryNone`, `QueryHybrid`, `Extract`, `MulVecPacked` (a block), `MulVec` (a row), `Recover` |
| `Lhe` | `LheDatabase` and then `LheAnswer` on what it packed | theirs | `PackEntry`, `RunScheme` |
| `LheMemory` | what clients and servers keep outside of Go: SEAL's objects and GPU buffers | live objects, what server and client hold, the keys of the last query, the last answer | one per operation: `MakeServer`, `SpareContext`, `SetBatch`, `Answer`, `FreeServer`, `InitClient`, `Query`, `Recover`, `FreeSecrets`, `FreeClient` |
| `LheCallers` | who calls these and in which order; `LheMemory` composed with `BatchCapacity` | who calls, the calls still to make | the above as the next call; `StartSearch`, `GoOn`, `EndSearch` |
| `BatchCapacity` | the search in `BatchCapacityRPC` | sizes, the two flags, the answer | `Advance`, `HundredsOver`, `TensOver`, `Finish` |
| `PirService` | the PIR and HC servers with their clients | servers' shared fields, where each client's goroutines are, what they received | one per step of a handler between two accesses to shared fields |
| `HintSession` | what the RPCs of the HC server promise | hint, queries, answers | `SetHint`, `SetQuery`, `Answer` |
| `HintSocket` | hint compression over sockets: clients, the HC server's handlers, the processes | where each goroutine is, bytes under way, what processes know | `WriteSize`, `WriteBody`, `ReadSize`, `ReadBody`, `ReadFails`, `CallFails`, `EnterInit`, `Start`, `ProcReads`, `ProcWrites` |
| `*_proofs` | TLAPS proofs | | |
| `MC*` | values of constants for TLC | | |

How state and actions correspond to the code:

* **`PbcSchedule`**. `schedule[b] = <<>>` is a bucket absent from the Go map.
  `hand` and `depth` are the arguments of the current call of `cuckooInsert`;
  between calls `hand = NoKey`. The code tests the depth first, then looks for
  an empty candidate in order (`CuckooPlace` takes the first), and only then
  picks a random one (`\E j`). At `MAX_CUCKOO_ITERS` the call returns nil and so
  does `GenSchedule`. What a hash function yields is a constant function
  `choices`, chosen in `Init` among all lists of distinct buckets.
* **`BatchPir`**. `encoded` is the loop variable of `EncodeDB`, and `mapping`
  records, as there, the length of each bucket before the entry is appended.
  `Pack` gives each matrix any number of columns up to a bound, so it covers
  every outcome of `PackingDims`. Queries are columns: encryption is exact and
  an answer is the selected column, cell by cell, padding included. `Recover`
  is `SimpleClient.Recover` (`LheScheme`: keep the answers with a real secret)
  followed by `Client.Recover` (the j-th with the j-th key). `ParamsMode` is the zero mode:
  `Server.Params` does not set the field.
* **`Dpir`**. The coin is a free choice of the bucket, so every `Alpha` is
  covered. `MakeServer` takes a prefix of the matrix for the popular database;
  the two have any numbers of columns. A GPU returns all columns of a batch in
  one answer (`AnswersTo`), and `Recovered` loops over answers as the code does;
  the local scheme's `LocalRecovered` loops over secrets, `nil` for a dummy. Its
  entries are of one limb and one element here (see section 4).
  Batch PIR behind a database is `BatchRetrieval!Deliver`, which `BatchPir` is
  shown to implement: this composition stands for the whole stack.
* **`Packing`**. The table of moduli is a constant function from cutoffs to
  widths, and elements per entry are a constant of each option, so any
  `pMod32`-like table is covered. The budget is an unsigned number that must not
  go below 0; here it is an integer, and `TypeOK` says that it does not.
* **`LheDatabase`**. A bignum is an integer. Entries are functions from limbs to
  values; `Ne` is defined by what it must do, be the least number of elements
  that can take any entry, which is what `ceil(bits / log2 p)` computes.
  `Read` is what a client of a query's column can index.
* **`LheHint`**, **`LheAnswer`**, **`Lhe`**. A 32-bit word of three 10-bit
  elements is a word of three 2-bit elements; q is 2^8 and a block 2 rows. A is
  not any matrix but what each side expands from the seed: the server with one
  read of a buffered PRG for the whole matrix, or a read for each word of a
  seed; the client with a read of its own. The PRG loses the rest of a block at
  the end of a read, and the buffer hands out what it has, so that reads cut
  differently need not agree; `io.ReadFull` over them is modelled read by read.
  In Hybrid mode the hint is the row times the transposes of the polynomials,
  negacyclic, and the mask the polynomials times the secret, as `hybrid.cpp` has
  them; the last ciphertext is of what is left. The cipher, and the expansion of
  a polynomial from its seed, are constant functions. In None mode both sides make one
  read of as many bytes of one source (`Rand`, `MulSeededLeft`), so that
  they expand one A is plain there; it is in Hybrid mode that `TokenExact` compares
  two ways of multiplying, by transposes and not. So the algebra of LWE is
  in the model and its security is not. Memory behind the matrix, which the
  kernel reads in its last block, is `Junk`. `Lhe` lets a database be packed and
  then queried: `RetrievesEntry` is from the limbs of an entry to its limbs.
* **`LheMemory`**, **`LheCallers`**. An object is a record with a number; `Use`
  and `Release` of one that is not live is remembered as `misused`. Of a query
  there is the set of cells of the GPU's B that it is written to, from the same
  expressions in M and N as in `Answer` and `ExtractLWECtGPU`. `defer`s run where
  the function returns: ciphertexts are freed at the end of `Query`, keys at
  the end of `Recover`. `Plans` has everyone in the repository who makes a
  client and a server of the scheme, each as the calls it makes: the test of
  `lhe_test.go` and its three benchmarks (of queries, of answers, and of
  recovering, which recovers again and again from the same answers), `dpir`, the
  buckets of `pbc`, which answer P queries each and whose batch nobody sets, the
  benchmarks of batch codes and of distributional PIR, of queries and of
  throughput, and the service, where `BatchCapacityRPC` sets the batch for every
  size it tries. Where `dpir` makes a context for the parameters only, and
  drops it, that is `SpareContext`. Left out are the benchmark of preprocessing,
  which has contexts but no client, and `StopServer`. Some of these callers break
  what the others keep; the properties name them (`SetsNoBatch`, `DropsSecrets`
  and `recoverLatency`; findings 7 and 8).
* **`BatchCapacity`**. `low` and `high` bound the noise of a measurement: up to
  `low` queries always finish in time, more than `high` never do, and between
  them either may happen each time. Every branch of the loop is an action.
* **`PirService`**. Databases are known by their shape, as that is what a client
  chooses. Each handler is cut where it reads or writes what handlers share:
  `InstallDb`, `ResetMetrics` and `ReplyHint` are `ClientInitRPC`; `LoadTime` to
  `StoreIter` are the two `+=` of `AnswerRPC`, a load and a store each, so lost
  updates are behaviours of the model. A panic in a handler takes the server's
  process down (`crashed`); a call to a server that is down makes the client
  panic. `Drivers` are the clients started and how many of them run at a time:
  `service/run_e2e.py:163-184` runs them one after the other; two at once is what
  the server's goroutines allow.
* **`HintSocket`**. A stream is a sequence of units, a message's size and its
  bytes; `SendBytes` is two writes and `RecvBytes` a read of the size and then
  reads of what has arrived, up to a buffer and to what is left. `pc` walks
  through the calls of `MakeClient`, `Query` and `Answer` and into the handlers
  they call; the handlers share the connection `session`. What the processes do
  with a message is external: the least that answers what the Go side sends and
  waits for. Bytes that make no sense to them stop them, and the reader on the
  other side then fails. A call keeps the connection it began with (`conn`, of
  `Calling`): `NewServer` its own, the others the session's. So of two first
  `ClientInitRPC`s at once each writes to a connection of its own, and the one that
  assigns `s.Server` last has the session. `overlapped` remembers that two handlers
  have been on the HC server's connection at a time (`InHandler`: a `ClientInitRPC`
  from its start, the others from what they write first), which nothing in
  `HCServer` prevents. It is a history variable: no step depends on it, and after
  it no property says anything. `conn` is read by steps, but records only what
  a call found when it began.

## 3. Runs

| Run | Question | Instance | Result |
|---|---|---|---|
| `MCPbcSchedule` | Does `GenSchedule` lose, duplicate or misplace a key, or overfill a bucket? Does it return? | 4 keys, 3 buckets, every batch of 1 to 4 keys with repetitions, every hash function, D = P = 2, depth 3, both codes | holds |
| `MCPbcGetBuckets` | Are the choices a function of the key, in order, and found before the nonce wraps? | 5 nonces, D = 3, batch sizes 1 to 3, every hash function | holds |
| `MCPbcGetBucketsBatch1` | Does it always end? | batch size 1: two buckets, three choices | **violated** (finding 1) |
| `MCBatchPir` | Is every entry delivered the right one, are misses only those a full bucket explains, does the shape hide the indices, is it an implementation of `BatchRetrieval`? | 4 entries, batch size 2, three batches, up to 2 columns, a cuckoo server and its clients, every hash function that leaves no bucket empty | holds |
| `MCBatchPirCuckooTest` | Does a cuckoo server serve every index? | as above | **violated** (finding 2) |
| `MCDpir` | Does either side of the coin deliver what its database has, each entry its own value? Is a batch within the load answered? | 5 entries, cutoffs 1 to 3, loads 2 and 3, every batch of up to 3 indices, up to 2 columns each, each of the three kinds of PIR behind each database, on a CPU | holds |
| `MCLhe` | Do entries read back as packed? Do hint and mask belong together, is the packed product exact, does a query fit, and is the entry asked for the one that comes out? | packing: every database of up to 9 bits, limbs of 3 bits, entries of 1 to 7 bits, p from 2 to 5. Queries: q = 256, N = 3, p = 3, 4, 5, entries of 2 and 3 bits (1 or 2 elements), 3 or 4 of them in 2 to 4 columns, both modes, blocks of 2 rows, 32-bit ciphertexts, and 64-bit ones unsquished | holds |
| `MCLheAnswer64` | Is the packed product exact for 64-bit ciphertexts? | the same, squished | **violated** (finding 3) |
| `MCPacking` | Does the greedy division keep within its budget, and does every shape hold its bucket under its modulus? | up to three buckets, three moduli, all three ways of packing, eight budgets | holds |
| `MCPirService` | Are answers, tokens and timings the caller's own, and does every call end? When can the server panic? | three clients one after the other as the script runs them, or two at once; with and without HC; two shapes, two rounds | holds |
| `MCLheCallers` | Who uses what was freed, frees it twice, leaves it, or writes past the GPU's buffer? For whom has each query of a batch its column? Does the search end, with a capacity the server has? | everyone in `Plans`: M = 4, N = 3 (two polynomials, the second of one column), batches of up to 3, P = 2, loops of 2 rounds, CPU and GPU, both modes where the code has both; every low = high <= 112, and every 0 <= low <= high <= 112 in the first session on a CPU that compresses hints | holds for all but those named: on a GPU, callers that set no batch write past the buffer; `recoverLatency` frees keys again; `queryLatency`, `answerLatency` and `pbcBench` leave keys (findings 7, 8) |
| `MCHintSocket` | Do messages keep their order and bounds whatever the reads and writes are cut into? Are calls what `HintSession` says? What can end a program, and does everyone return? | two clients one after the other with two rounds, or at once with one; two keys each; sizes of 2 units, messages of 1 to 3, a buffer of 2; processes that write in any pieces | holds |

Why the bounds are enough. For the schedule, three buckets of two choices are
the smallest graph in which an eviction can walk a cycle and in which four keys
cannot fit, so each of "placed at once", "placed after evictions", "gives up"
and "dropped" occurs, each with and without repeated keys; keys are symmetric
since nothing compares them. The nonce space of 5 leaves room for repeats
before, between and after the three choices and for wrapping. In `BatchPir` four
entries in three buckets give buckets of one to four entries, with up to
two columns hence full, partial and padded rows. In `Dpir` a batch of three
against loads of two and three is below, at and over the load, with popular,
unpopular and repeated indices in every order. In `Packing` three buckets are
enough for ties, for a largest and a smallest, and for an allowance that is used
up before the last; the theorems cover the rest. Limbs of three bits give entries
of a part of a limb, whole limbs, and a last limb of either kind; p = 3 is no
power of two, p = 4 fills an element of a word, p = 5 cannot be squished, and 3
and 5 do not divide q. 2, 3 and 4 columns leave one place
free, none and two in a word; they fill a polynomial of three coefficients in
part, exactly, and beyond, so that there is a second one; rows of one and two
groups of one or two elements are odd and even in a block. A buffer of the PRG
of two units is refilled within each matrix, between seeds and within one.
`MaxFit` = 112 passes through
all three rounds of the search and back; the theorem covers the rest. In
`LheCallers` a batch of three with a last ciphertext of one column has all kinds
of boundaries between queries and ciphertexts, and every order of a larger and a
smaller batch occurs: throughput goes from a batch of 1 to one of `Load`, the search
up and down. Two rounds of a loop show what one leaves to the next: a
second `Recover`, a key overwritten, a batch with other dummies. Noise matters to
the search alone, and the search is the same for every session, so one plan has it. In `HintSocket` a message is shorter than the buffer, as
long, or longer; every split of a read at a boundary between messages, within a
size and within a body occurs; two keys and two rounds show a token of one round
taken for one of the next. In the
service, two rounds show state carried from one to the next and three clients
show state carried from one client to the one after.

Bounds that are not in the code: `MaxCols`, `MaxBits`, `MaxFit`, the settings of `Queried`,
`MaxTries` (sizes tried in `PirService`, of which only the effect on shared state
matters there), `Rounds` and `Drivers`. `Iters` (15), `NonceSpace` (256), `D` (3), `P` (2),
`MAX_CUCKOO_ITERS` (500), `LimbBits` (32), `Basis` (10), `Ratio` (3),
`Block` (8), `SeedLen` (8), `BlockUnits` and `BufUnits` (16 and 8192 bytes),
`SizeLen` and `Buffer` (8 and 4096 bytes) are the code's constants with small
values.

Deadlock checking is off: each of these computations ends.

Fairness. `PbcSchedule`, `PbcGetBuckets`, `BatchPir`, `Dpir` and `LheCallers` are
sequential: a call takes its next step until it returns, which is weak fairness
of `Next`. `PirService` has weak fairness of each client's steps: the Go
scheduler runs every goroutine that can run, network calls return or fail, and
the driver starts each client in turn. `HintSocket` has the same of each client
and, of each process, that it goes on reading and writing what it can. No property needs an adversary to be kind:
random choices, noise and interleavings are unconstrained.

## 4. Findings

Each of these is shown by a run that TLC finds violated:

1. `batching/pbc/common.go:133`: `getBuckets` never ends for a batch of one under
   cuckoo hashing: there are ceil(1.5 * 1) = 2 buckets and 3 choices to find.
   Both are defaults of `benches/benches.go`.
2. `batching/pbc/server.go:69`: `Server.Params` leaves `Mode` out, so the client
   of a cuckoo server uses plain hashing and drops indices. `pbc_test.go:90-93`
   means to reject that for cuckoo but switches on the same unset field. With
   `ParamsMode` equal to `ServerMode` the property holds in this model.
3. `matrix/matrix64.c:100`: `matMul32VecPacked64` takes two elements from each
   word where `Squish` put three, so a 64-bit client of a squished database
   decrypts the wrong thing. `matrix_test.go:217-221` asks for the right product,
   of matrices of equal width only.

These are premises of properties that hold: without the premise they would not.

4. `service/pir_server.go:116`: a second client's `ClientInitRPC` between another
   client's `QueryRPC` and `AnswerRPC` changes the database under the queries;
   the product's assertion (`matrix/math.go:207-211`) then panics and stops the
   server. `PanicNeedsTwoShapes` says that this is the only way to it.
5. `service/pir_server.go:188`: the capacity search reports its first guess of
   100 when not one size was answered in time (or when no answer was timed
   before, which makes the allowed time NaN): `low > 0` in `CapacityExact`.
6. `lhe/simple_client.go:161`: on a GPU there is one answer for a batch, and
   `Recover` loops once for each answer, although its body is ready to take the
   i-th column: with `GPUs = {TRUE}` `LheServesAll` fails.
7. `pbc/server.go:48-61`: nobody calls `SetBatch` for the buckets of batch PIR, whose
   GPU buffers have room for one query, and P = 2 queries are asked of each
   (`common.go:21`, `client.go:70`). So it is in the benchmarks of batch codes and of
   distributional PIR, and `bench` of `lhe/lhe_test.go:148-188` sets no batch for
   its three queries. All are in the run, as `SetsNoBatch`: on a GPU they write past
   the buffer, and the product has no column for their second query.
   `MemorySafe` and `AnswersWhole` except them, on a GPU, by name; with any one of
   the exceptions taken out TLC finds the property violated.
8. `lhe/simple_client.go:172`: `Recover` frees the keys of a Hybrid query, so a
   second `Recover` with the same secrets frees them again. The
   benchmarks of recovering (`lhe/lhe_test.go:180-186`, `229-235`) do so for b.N
   rounds: `recoverLatency` in the run, excepted in `MemorySafe`, which is violated
   without that. The opposite are callers that neither recover nor free: the
   benchmarks of queries and of answers (`lhe/lhe_test.go:169-179`) and that of
   batch codes (`benches/batching_pbc.go:48-66`) leave the keys of every query, on a
   CPU too (`DropsSecrets`); the benchmark of distributional PIR asks dummies only,
   which have none. On a GPU only the first query's key is freed
   (see 6). The key that `Init` makes for the polynomials never is
   (`simple_client.go:50`), nor is the context `dpir/server.go:53` makes for the
   parameters of batch PIR; the service forgets the server it replaces
   (`pir_server.go:86`). `Reclaimed` names these, and each is needed.
9. `crypto/hint_compr/socket.go:55`: a size that comes in two reads ends the
   program. A write of eight bytes to a Unix socket is read whole unless the
   buffer is full; `wholeSizes` says whether it is, and `FatalHasCause` and
   `CallsReturn` name it.
10. `service/hc_server.go:72-83`: handlers share the socket without a lock, and
   another client's `ClientInitRPC` between a `QueryRPC` and an `AnswerRPC` takes
   the queries away. `ImplementsSession` and `FatalHasCause` hold until two
   handlers have been on the connection at a time. What mixes from then on (two
   messages' bytes, or a message of one reply read by another) is in the model, and
   nothing is said of it.
11. `lhe/local.go:75`: `Ne` of a local database is the number of limbs, while the
   matrix has the limbs of an entry next to each other in a row: with entries of
   several limbs the local scheme reads other elements. `Dpir` has local entries
   of one.
12. `batching/bucketing.go:91`: with a budget of fewer columns than buckets a
   share is 0 columns, and the shape returned holds nothing: `Affordable`.

Read and not modelled: `lhe/database.go:124-129`, where `RandomDB` means to "zero
out any overflow columns" and zeroes the last row only; nothing calls `RandomDB`.

## 5. Proofs

`Pbc_proofs`, of the schedule, for every set of keys and buckets, every D, P and
`MAX_CUCKOO_ITERS`, every batch and every hash function:

* `TypeCorrect`: the type invariant is inductive. The one step that is not
  immediate is an eviction: the bucket is not empty, so `schedule[b][1]` exists.
* `Placement`, `QueriesFit`: each inductive over the type invariant. An eviction
  keeps `Placement` because the evicted key's new bucket is one of its own
  choices, and `QueriesFit` because it replaces a single key by a single key.
* `Conservation`: inductive over `QueriesFit`, which is what makes the key
  evicted the only key its bucket held; a dropped key's bucket stays full.
* `Requested`, then `OneHolder`: a key taken in hand is new to the schedule only
  because everything scheduled comes from earlier positions of a batch without
  repetitions. So `OneHolder` is inductive relative to `Requested`.
* `ServesAll`: the four together with "a schedule is returned only after the last
  key" make *the bucket of a key* a bijection between the batch and the
  buckets in use, whence the cardinality.
* `NeverEmptied`: an action property, from the type invariant alone.

`Requested` (`OnlyRequested`) is proved and not among the runs: `HeldOnce` breaks
wherever it does.

`Matrix_proofs`, of `Packing`, for every table of moduli, list of bucket sizes and
budget: a bucket may take its equal share and what the buckets before it left of
theirs. A shape never takes more than it is allowed, so what is left never goes
below zero (`TypeCorrect`), and the totals stay within the budget (`Budget`): the
invariant says that what was taken and what is left are together the shares of
the buckets packed so far. What a returned shape satisfies
(`ModulusFitsAlways`, `Holds`, `Suffices`) is proved of each `Approx*` function
first and lifted to the loop. `CommSucceeds` (`CommFailsOnlyAsSquare`: a limit on
columns never makes packing fail where it would not without) is proved and not
among the runs. The lemmas on rounding are arithmetic with one
exception: that a first option exists, and with it the square root, is by the
least element of a set of natural numbers, from the well-foundedness of <.

`Matrix_proofs`, of `LheDatabase` as `Lhe` runs it, for every format, number of
entries and columns. An entry's cells are a run of elements down one column; that
a run is inside the matrix (`GroupInside`, `CellsInside`), and that two runs share
no cell (`CellsApart`), is arithmetic of quotients and remainders. So packing an
entry leaves the elements of those before it where a client reads them
(`EntriesInPlace`, the invariant, with `DatabaseType`), and querying leaves the
database alone (`PackedStay`). `EnoughRoom` is `HasRoom`. `PackedReadBack` is
`RoundTrip`, given that the elements of one entry make its limbs
(`ElementsMakeEntry`): digits of a number in base p, put together again, which is
induction over recursive functions and is left to TLC, with all of `RoundTrip`.
The provers know nothing of powers, so that some number of elements takes any
entry is an assumption on the formats (`ElementsAssumption`), true of every p > 1.

`Pbc_proofs`, of the choices, for every hash function, nonce space and batch size:
the list found is the first distinct buckets of the nonces *in order*
(`ChoicesAreTheKeys`). The invariant says what "in order" means at a nonce in the
middle: what is in the list is what the nonces so far gave (`FoundSoFar`), and of
two buckets of the list the earlier one has the earlier first nonce (`InOrder`).
`ChoiceListsFound` connects this to the schedule: a finished list is among the
lists that `PbcSchedule` and `BatchPir` schedule with.

`LheScheme_proofs` has no theorem of a specification but the lemmas the next two
rest on: what the loops of `Recover` keep (`Recovers`, `LocalRecovers`), when
answers and secrets are laid out with dummies behind real queries. The loops go
through sequences; that the k-th value kept belongs to the k-th real query is by
the least counterexample, a set of numbers, so without induction over data.

`Dpir_proofs`, for every database, cutoff, loads, batch and coin. `IInv` follows a
batch through the calls: keys kept are indices the database has, secrets and
queries are of those keys with dummies behind them (`Queried`), answers are of the
queries (`Answered`), values are of the keys (`Delivered`). `ServesAll`:
every index asked for that the database has is delivered, if `Recover` looks at
every answer (`AllLookedAt`: not so on a GPU, finding 6). `RetrievalImplemented`:
the LHE scheme, the local scheme and whatever implements `BatchRetrieval` behind
either database again implement it. On a GPU this needs batches that are not
empty; the theorem says so.

`BatchPir_proofs`, for every number of entries, hash function, shape of the
matrices and batch, and both modes. `IInv` first follows `EncodeDB`: places in a
bucket are different for different entries and in order (`Places`), and
`MappingLocates` is inductive over that. Then the schedule as the steps of
`PbcSchedule` that `BatchPir` takes leave it (`Scheduling`, `Counted`, `Placed`,
`Excess`: a key that has no place left behind a full bucket of its own), and then
the calls as in `Dpir`. `Located`, `ShapeHidden` and `MissesExplained` follow, and
`RetrievalImplemented`, the safety part of `BatchRetrieval`: together with `Dpir`'s
theorem this is the chain from entries encoded to values delivered.

`PirService_proofs`, for any number of clients, rounds and databases. Nothing about
a client's answers is inductive by itself: between two calls anyone may write to
the servers. `Alone` says what a client can rely on at each point of its
goroutines if no other is running: from `InstallDb` on the server has its
database, from `Query` on its queries, and so on to the token; `Started` says that
only running clients are past their start. Hence `AnswersOwn`, `TokensOwn` and
`AverageOwn`, whose hypothesis (one client at a time) is that of the script. For
clients at once `SameShape` suffices: if all have databases of one shape then so
have the server's queries, and no handler panics (`PanicsOnlyMixed`).

`LheCallers_proofs`, for every size of database, ciphertext, word and batch, every
`low <= high`, with a GPU and without, and every caller in `Plans`, with the exceptions
the properties name. First the
search: neither `CapacityExact` nor `SizesPositive` is inductive. `SearchInv` adds,
for each round, how far the best guess is behind the size to try (100, 10 or 1), or
that there has been no guess and the server was already too slow for the size
before. `Exact` and `NoUnderflow` follow, and `SearchOfCallers` for the search a
session makes among its other calls. Then the memory: whether an object a call uses
is live depends on all the calls before it. What a caller *has* at a point (a
server, a client, keys, an answer, room on the GPU for so many queries) is a
*view*; `Pass` says what each call needs of a view and leaves of it, and
`PlansLead` that the calls of every caller, whatever the batches, go from nothing to
nothing in such steps: this is where `SetTo(Load)` before `Ask(Load, 0)` matters. What
a caller may do that others may not is in `Env` (ask more than it set a batch for,
on a GPU; drop secrets; recover again), and no other caller's plan leads without. The
invariant `OnTheWay` is that the caller has a view, that the rest of its plan leads
from there to the end, and that the memory is as the view says (`Holds`): what is
held is live (`HeldIsLive`), what is live is held or may be left (`LiveIsHeld`), the
device has the room (`Equipped`). It needs besides that objects have numbers of
their own and kinds by holder, or releasing one holder's objects could release
another's. There is one lemma per call. `NothingMisused`, `AllAnswered` and
`NothingLeaked` follow; `RoomForAll`, on which the second rests, is that the
ciphertexts of a query tile its column whether or not `N` divides `M`.

`HintSocket_proofs`, for any clients, lengths of messages and of their size, buffer,
keys of a client, rounds, and drivers: clients one after the other or together,
processes that write a size whole or in pieces. What `RecvBytes` relies on is
spread over both ends of a connection: a message is told from the next only by
counting, so nothing about one end is inductive by itself. The invariant is
stated of a *line*, a connection with the bytes under way on it and the process at
its end, and says for each point of a client which line is in which condition:
`Sending` (what is under way to the process is a `Chain` of whole messages, each
one the process takes in the state the ones before leave it in, and behind it this
one or its size), `Awaited` and `Receiving` (what comes back is a chain that goes
on with the unit the reader counts to, and ends with the last message of the
reply), and in each of them `Fed` (the process makes sense of what it reads
next). `OwnLine` gives each client's own connection its condition, `HcLine` the
HC server's, by the one handler that is on it; `Alone` adds, for clients one at a
time, whose hint and queries it holds. Lemmas on `Piece`, `Chain` and `Linked` say
what a write puts behind a chain, what a read of any number of units takes off it,
and that a body is whole exactly when the count says so; a lemma for each
kind of step of a line follows, then one for each action. Everything holds *until
handlers overlap*: `IInv` is `overlapped \/ (Good /\ Kept)`, and `Good` contains
`FatalHasCause`, since a program that ends is where the argument would stop. `Kept`
is that a call under way has the connection one begun now would have, so that
up to there it does not matter that a call keeps its own.
`SocketFatalHasCause` and `SocketTokensInOrder` follow, and `SocketImplementsSession`:
a step of a process that has taken in a message is the call of `HintSession` the
message belongs to, the last unit of an answer read is `Answer`, and every other
step leaves what `HintSession` sees alone.

Assumptions used: the ASSUMEs on the constants in the modules, which TLC also
evaluates.

Only model-checked: liveness (`Returns`, `FindsThem`, `WithinLoadAnswered`,
`AllEnd`, `CallsReturn`, and that `BatchPir` delivers *eventually*). Of `Lhe`,
the arithmetic of one entry (see above), `TokenExact`, `DimensionsAgree`,
`ProductExact` and `RetrievesEntry`: these are about powers of two and sums that
are folds over matrices, and what a fold computes for every input is induction
over data.

## 6. Not modelled

* The Gaussian sampler (`crypto/lwe`) and security: noise is any of a set, a
  secret one of a few. SEAL's own arithmetic (number-theoretic transforms,
  switching of moduli) is multiplication modulo x^N + 1 and noise. `Lhe` has the
  numbers of a query; every other module takes encryption as exact.
* Products on a GPU (`matrix/gpu`): kernels and copies to a device. Of the GPU
  path there is what it does to a batch of answers (`LheScheme`), and its buffers
  (`LheMemory`).
* `CheckParams`, element-wise operations of matrices, file formats, byte counts,
  scripts, and of the benchmarks all but the calls they make (`LheCallers`).
* The HC processes are outside this repository (`external/`); `HintSocket` has
  the least that the Go side needs of them.

## 7. Plan

Done, in this order: the schedule and its proofs; the choices; batch PIR over
them; the service; the capacity search and its proof; packing and its proofs;
the database; one query in numbers; distributional PIR over the LHE scheme and
batch PIR; the matrix A and the hint, and a query from entries to entries; hint
compression over sockets as an implementation of the session `PirService` uses;
keys, ciphertexts and GPU buffers under all their callers; the local scheme.
Proofs followed: of the choices, the loops of `Recover`, distributional and batch
PIR with their refinements, the service, the memory under all callers, hint
compression over sockets with its refinement, and the packing of entries. Left:

1. The parameter check (`CheckParams`) against what `Packing` returns, and the
   matrix of `dpir`'s full database, whose row count is reduced before it
   reaches `PackingDims` as a budget.
