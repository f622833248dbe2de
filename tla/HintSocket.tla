------------------------------ MODULE HintSocket ------------------------------
(***************************************************************************)
(* Hint compression as the service does it (crypto/hint_compr/,            *)
(* service/hc_server.go and the HC half of service/client.go): Go programs *)
(* talk to C++ processes, which do the cryptography, over Unix sockets.  A *)
(* message is two writes, its size and its bytes; a read returns what has  *)
(* arrived, up to what it asks for.  The handlers of the HC server share   *)
(* one connection and take no lock.                                        *)
(*                                                                         *)
(* A byte stream is a sequence of units, some bytes of a message each.     *)
(* The processes are not in this repository: they are modelled from what   *)
(* the Go side sends and waits for, and read and write whole messages.     *)
(***************************************************************************)
EXTENDS Integers, Sequences, FiniteSets

CONSTANTS
    Clients, None,
    Batch,       \* keys of a client
    SizeLen,     \* units of the size of a message (8 bytes)
    Length,      \* units of the messages of each kind
    Buffer,      \* units read at a time (4096 bytes)
    Drivers      \* clients, how many run at a time, answers each asks for (15),
                 \* and how processes write

\* Of the messages; "garbled" is what units that are none are taken for.
Kinds == {"newClient", "dims", "reset", "hint", "params", "key", "queries", "ask",
          "answer", "token", "garbled"}

ASSUME SocketAssumption ==
    /\ None \notin Clients \cup Nat
    /\ {Batch, SizeLen, Buffer} \subseteq Nat \ {0}
    /\ Length \in [Kinds -> Nat \ {0}]
    /\ Drivers \subseteq
          [clients : SUBSET Clients, limit : Nat \ {0}, iters : Nat \ {0}, wholeSizes : BOOLEAN]

VARIABLES
    driver,      \* fixed; wholeSizes: a process writes a size in one piece
    \* HC server
    session,     \* s.Server: the connection, named by the client it was made for
    served,      \* the connection the process accepted
    down,        \* log.Fatal ended the HC server
    overlapped,  \* two of its handlers have used a connection at a time
    \* goroutines: a client's own, and that of its call
    pc,
    conn,        \* the connection of a call to the HC server in progress
    count,       \* keys sent or tokens received so far
    iter,
    wrote,       \* the size of the message to send is written
    got,         \* units of the message being received
    size,        \* its size, None before it is read
    received,    \* the last message of each kind
    tokens,      \* the tokens of a round
    \* connections
    toProc, toGo,   \* bytes under way to a process, and from it
    proc,        \* the process's state
    out          \* the units it has yet to write

hcVars == <<session, served, down>>
wires == <<toProc, toGo, proc, out>>
reading == <<got, size>>
client == <<pc, count, iter, wrote, reading, received, tokens>>
vars == <<driver, overlapped, conn, hcVars, client, wires>>

-----------------------------------------------------------------------------
(* Messages and connections *)

Conns == {"hc", "own"} \X Clients

Msg(kind, hint, keys, i) == [kind |-> kind, hint |-> hint, keys |-> keys, i |-> i]

\* Units i to j of a message: its size, and after it its bytes.
Piece(m, i, j) == [x \in 1..j - i + 1 |-> <<m, i + x - 1>>]
Total(m) == SizeLen + Length[m.kind]
SizeOf(m) == Piece(m, 1, SizeLen)
BodyOf(m) == Piece(m, SizeLen + 1, Total(m))
Frame(m) == Piece(m, 1, Total(m))

\* Whether units are a size, and whether they are all of a message's bytes.
IsSize(units) == units # <<>> /\ units = SizeOf(units[1][1])
IsBody(units) == units # <<>> /\ units = BodyOf(units[1][1])

Prefix(s, k) == SubSeq(s, 1, k)
Rest(s, k) == SubSeq(s, k + 1, Len(s))
Least(S) == CHOOSE n \in S : \A k \in S : n <= k

-----------------------------------------------------------------------------
(* What a client and the handlers of its calls do, in order *)

SendSteps == {"newClient", "reset", "dims", "hint", "recvParams", "key", "setQuery", "ask", "recover"}
RecvSteps == {"params", "queries", "answer", "token"}

\* On the HC server's connection.
Handler == {"init", "reset", "dims", "hint", "params", "setQuery", "ask", "answer"}

\* Clients in a call of NewServer, Reset, SetHint, SetQuery or Answer.
Calling == {c \in Clients : \/ pc[c] \in {"dims", "params", "answer"}
                            \/ pc[c] \in {"reset", "hint", "setQuery", "ask"} /\ wrote[c]}

\* NewServer makes a connection, the other calls take the session's, and keep it.
Chosen(c) == <<"hc", IF session = None THEN c ELSE session>>
Conn(c) == IF pc[c] \notin Handler THEN <<"own", c>>
           ELSE IF c \in Calling THEN conn[c] ELSE Chosen(c)

\* The message a client is about to send.
Outgoing(c) ==
    CASE pc[c] \in {"newClient", "reset", "dims", "ask"} -> Msg(pc[c], None, None, 0)
      [] pc[c] = "hint"       -> Msg("hint", c, None, 0)
      [] pc[c] = "recvParams" -> received[c].params
      [] pc[c] = "key"        -> Msg("key", None, c, count[c] + 1)
      [] pc[c] = "setQuery"   -> received[c].queries
      [] pc[c] = "recover"    -> received[c].answer

\* Mutants: one key too few; the handler does not wait for the parameters.
AfterKeyShort(c) == IF count[c] + 2 < Batch THEN "key" ELSE "queries"

AfterHintUnread == "recvParams"
AfterHint == "params"
AfterKey(c) == IF count[c] + 1 < Batch THEN "key" ELSE "queries"
AfterToken(c) ==
    IF count[c] + 1 < Batch THEN "token" ELSE IF iter[c] < driver.iters THEN "ask" ELSE "done"

AfterSend(c) ==
    CASE pc[c] = "newClient"  -> "init"
      [] pc[c] = "reset"      -> "dims"
      [] pc[c] = "dims"       -> "hint"
      [] pc[c] = "hint"       -> AfterHint
      [] pc[c] = "recvParams" -> "key"
      [] pc[c] = "key"        -> AfterKey(c)
      [] pc[c] = "setQuery"   -> "ask"
      [] pc[c] = "ask"        -> "answer"
      [] pc[c] = "recover"    -> "token"

AfterRecv(c) ==
    CASE pc[c] = "params"  -> "recvParams"
      [] pc[c] = "queries" -> "setQuery"
      [] pc[c] = "answer"  -> "recover"
      [] pc[c] = "token"   -> AfterToken(c)

Running == {c \in Clients : pc[c] \notin {"off", "done", "panic"}}

\* Clients whose handler is under way: that of ClientInitRPC from its start, the
\* others from what they write first.
InHandler == {c \in Clients : \/ pc[c] \in {"reset", "dims", "hint", "params", "answer"}
                              \/ pc[c] \in {"setQuery", "ask"} /\ wrote[c]}

Goto(c, step) == pc' = [pc EXCEPT ![c] = step]

\* A reply that is not set is empty.
Nothing == [kind \in RecvSteps |-> Msg(kind, None, None, 0)]
NewProc == [at |-> "dims", hint |-> None, keys |-> None, n |-> 0]

Init ==
    /\ driver \in Drivers
    /\ session = None /\ served = None /\ down = FALSE /\ overlapped = FALSE
    /\ pc = [c \in Clients |-> "off"] /\ conn = [c \in Clients |-> None]
    /\ count = [c \in Clients |-> 0] /\ iter = [c \in Clients |-> 0]
    /\ wrote = [c \in Clients |-> FALSE]
    /\ got = [c \in Clients |-> <<>>] /\ size = [c \in Clients |-> None]
    /\ received = [c \in Clients |-> Nothing] /\ tokens = [c \in Clients |-> <<>>]
    /\ toProc = [k \in Conns |-> <<>>] /\ toGo = [k \in Conns |-> <<>>]
    /\ proc = [k \in Conns |-> NewProc] /\ out = [k \in Conns |-> <<>>]

\* run_e2e.py: a client's HC process, and the client.
Start(c) ==
    /\ c \in driver.clients /\ pc[c] = "off" /\ Cardinality(Running) < driver.limit
    /\ Goto(c, "newClient")
    /\ UNCHANGED <<session, served, down, count, iter, wrote, reading, received, tokens, wires>>

\* ClientInitRPC begins: a session there is is reset, else one is made.
EnterInit(c) ==
    /\ ~down /\ pc[c] = "init"
    /\ Goto(c, IF session # None THEN "reset" ELSE "dims")
    /\ served' = IF session = None /\ served = None THEN c ELSE served
    /\ UNCHANGED <<session, down, count, iter, wrote, reading, received, tokens, wires>>

-----------------------------------------------------------------------------
(* SendBytes and RecvBytes *)

CanRun(c) == pc[c] \in Handler => ~down

WriteSize(c) ==
    /\ CanRun(c) /\ pc[c] \in SendSteps /\ ~wrote[c]
    /\ toProc' = [toProc EXCEPT ![Conn(c)] = @ \o SizeOf(Outgoing(c))]
    /\ wrote' = [wrote EXCEPT ![c] = TRUE]
    /\ UNCHANGED <<hcVars, pc, count, iter, reading, received, tokens, toGo, proc, out>>

WriteBody(c) ==
    /\ CanRun(c) /\ pc[c] \in SendSteps /\ wrote[c]
    /\ toProc' = [toProc EXCEPT ![Conn(c)] = @ \o BodyOf(Outgoing(c))]
    /\ wrote' = [wrote EXCEPT ![c] = FALSE]
    /\ session' = IF pc[c] = "dims" /\ Conn(c) = <<"hc", c>> THEN c ELSE session
    /\ count' = [count EXCEPT ![c] = IF AfterSend(c) = "key" /\ pc[c] = "key" THEN @ + 1 ELSE 0]
    /\ iter' = [iter EXCEPT ![c] = IF pc[c] = "ask" THEN @ + 1 ELSE @]
    /\ tokens' = [tokens EXCEPT ![c] = IF pc[c] = "recover" THEN <<>> ELSE @]
    /\ Goto(c, AfterSend(c))
    /\ UNCHANGED <<served, down, reading, received, toGo, proc, out>>

\* log.Fatal ends the program it is called in.
Fatal(c) ==
    IF pc[c] \in Handler
    THEN down' = TRUE /\ UNCHANGED pc
    ELSE Goto(c, "panic") /\ UNCHANGED down

\* The size must be read at once.  One that is none is any number.
ReadSize(c) ==
    LET arrived == toGo[Conn(c)]
        n == Least({SizeLen, Len(arrived)})
    IN /\ CanRun(c) /\ pc[c] \in RecvSteps /\ size[c] = None /\ n > 0
       /\ toGo' = [toGo EXCEPT ![Conn(c)] = Rest(arrived, n)]
       /\ IF n < SizeLen
          THEN Fatal(c) /\ UNCHANGED size
          ELSE /\ \E s \in IF IsSize(Prefix(arrived, n)) THEN {Length[arrived[1][1].kind]}
                           ELSE {Length[kind] : kind \in DOMAIN Length} :
                    size' = [size EXCEPT ![c] = s]
               /\ UNCHANGED <<pc, down>>
       /\ UNCHANGED <<session, served, count, iter, wrote, got, received, tokens, toProc, proc, out>>

\* Mutants: a read that takes a full buffer whatever is left; a message is what
\* the first read returns.
ReadAtMostBuffer(c) == Buffer
CompleteOnRead(c, units) == TRUE

ReadAtMost(c) == Least({Buffer, size[c] - Len(got[c])})
Complete(c, units) == Len(units) >= size[c]

\* One read of the message's bytes; with the last the message is there.
ReadBody(c) ==
    LET arrived == toGo[Conn(c)]
        n == Least({ReadAtMost(c), Len(arrived)})
        units == got[c] \o Prefix(arrived, n)
        m == IF IsBody(units) THEN units[1][1] ELSE Msg("garbled", None, None, 0)
    IN /\ CanRun(c) /\ pc[c] \in RecvSteps /\ size[c] # None /\ n > 0
       /\ toGo' = [toGo EXCEPT ![Conn(c)] = Rest(arrived, n)]
       /\ IF ~Complete(c, units)
          THEN /\ got' = [got EXCEPT ![c] = units]
               /\ UNCHANGED <<pc, count, size, received, tokens>>
          ELSE /\ got' = [got EXCEPT ![c] = <<>>] /\ size' = [size EXCEPT ![c] = None]
               /\ received' = [received EXCEPT ![c][pc[c]] = m]
               /\ tokens' = [tokens EXCEPT ![c] = IF pc[c] = "token" THEN Append(@, m) ELSE @]
               /\ count' = [count EXCEPT ![c] = IF AfterRecv(c) = "token" /\ pc[c] = "token" THEN @ + 1 ELSE 0]
               /\ Goto(c, AfterRecv(c))
       /\ UNCHANGED <<session, served, down, iter, wrote, toProc, proc, out>>

\* The process is gone, and with it the connection.
ReadFails(c) ==
    /\ CanRun(c) /\ pc[c] \in RecvSteps /\ toGo[Conn(c)] = <<>>
    /\ proc[Conn(c)].at \in {"broken", "unset"}
    /\ Fatal(c)
    /\ UNCHANGED <<session, served, count, iter, wrote, reading, received, tokens, wires>>

\* The RPC fails when the HC server ends; the client panics.
CallFails(c) ==
    /\ down /\ pc[c] \in Handler
    /\ Goto(c, "panic")
    /\ UNCHANGED <<session, served, down, count, iter, wrote, reading, received, tokens, wires>>

-----------------------------------------------------------------------------
(* The processes *)

Served(k) == IF k[1] = "hc" THEN served = k[2] ELSE pc[k[2]] # "off"

\* What a process does with bytes that make no sense, or asked for an answer
\* before it has queries, is not known: it does no more.
Broken == [NewProc EXCEPT !.at = "broken"]
Stopped == {"broken", "unset"}

\* What the server's process makes of a message, and what it writes.
ServerReacts(p, m) ==
    CASE p.at = "dims" /\ m.kind = "dims" -> <<[p EXCEPT !.at = "hint"], <<>>>>
      [] p.at = "hint" /\ m.kind = "hint" ->
            <<[p EXCEPT !.at = "ready", !.hint = m.hint, !.keys = None],
              Frame(Msg("params", m.hint, None, 0))>>
      [] p.at = "ready" /\ m.kind = "reset" -> <<[p EXCEPT !.at = "dims"], <<>>>>
      [] p.at = "ready" /\ m.kind = "queries" -> <<[p EXCEPT !.keys = m.keys], <<>>>>
      [] p.at = "ready" /\ m.kind = "ask" /\ p.keys # None ->
            <<p, Frame(Msg("answer", p.hint, p.keys, 0))>>
      [] p.at = "ready" /\ m.kind = "ask" /\ p.keys = None -> <<[p EXCEPT !.at = "unset"], <<>>>>
      [] OTHER -> <<Broken, <<>>>>

\* The tokens of an answer, one behind the other.
Tokens(m) ==
    LET token(i) == Msg("token", m.hint, m.keys, i)
        length == Total(token(1))
    IN [x \in 1..Batch * length |-> <<token((x - 1) \div length + 1), ((x - 1) % length) + 1>>]

\* What a client's process does.
ClientReacts(p, m) ==
    CASE p.at = "dims" /\ m.kind = "newClient" -> <<[p EXCEPT !.at = "params"], <<>>>>
      [] p.at = "params" /\ m.kind = "params" -> <<[p EXCEPT !.at = "keys", !.hint = m.hint], <<>>>>
      [] p.at = "keys" /\ m.kind = "key" ->
            IF p.n + 1 < Batch THEN <<[p EXCEPT !.n = @ + 1], <<>>>>
            ELSE <<[p EXCEPT !.at = "ready", !.keys = m.keys], Frame(Msg("queries", None, m.keys, 0))>>
      [] p.at = "ready" /\ m.kind = "answer" -> <<p, Tokens(m)>>
      [] OTHER -> <<Broken, <<>>>>

Reacts(k, m) == IF k[1] = "hc" THEN ServerReacts(proc[k], m) ELSE ClientReacts(proc[k], m)

\* A process reads a message once it is all there, having written what it had to.
ProcReads(k) ==
    LET units == toProc[k]
        m == units[1][1]
        whole == Len(units) >= SizeLen /\ IsSize(Prefix(units, SizeLen))
        n == SizeLen + Length[m.kind]
        reacts == IF whole /\ IsBody(SubSeq(units, SizeLen + 1, n))
                  THEN Reacts(k, m)
                  ELSE <<Broken, <<>>>>
    IN /\ Served(k) /\ proc[k].at \notin Stopped /\ out[k] = <<>>
       /\ Len(units) >= SizeLen /\ (whole => Len(units) >= n)
       /\ toProc' = [toProc EXCEPT ![k] = IF whole THEN Rest(units, n) ELSE <<>>]
       /\ proc' = [proc EXCEPT ![k] = reacts[1]]
       /\ out' = [out EXCEPT ![k] = reacts[2]]
       /\ UNCHANGED <<hcVars, client, toGo>>

\* Size and bytes are a write each.  It may go in pieces, but that of a size does
\* not where sizes are whole.
ProcWrites(k) ==
    /\ out[k] # <<>>
    /\ LET first == out[k][1][2]
           left == (IF first <= SizeLen THEN SizeLen ELSE Total(out[k][1][1])) - first + 1
       IN \E n \in IF driver.wholeSizes /\ first = 1 THEN {SizeLen} ELSE 1..left :
            /\ toGo' = [toGo EXCEPT ![k] = @ \o Prefix(out[k], n)]
            /\ out' = [out EXCEPT ![k] = Rest(@, n)]
    /\ UNCHANGED <<hcVars, client, toProc, proc>>

-----------------------------------------------------------------------------
Client(c) ==
    \/ Start(c) \/ EnterInit(c)
    \/ WriteSize(c) \/ WriteBody(c) \/ ReadSize(c) \/ ReadBody(c)
    \/ ReadFails(c) \/ CallFails(c)

Process(k) == ProcReads(k) \/ ProcWrites(k)

Observed ==
    /\ overlapped' = (overlapped \/ \E c, d \in InHandler' : c # d)
    /\ conn' = [c \in Clients |-> IF c \in Calling' THEN Conn(c) ELSE None]
    /\ UNCHANGED driver

Next ==
    /\ (\E c \in Clients : Client(c)) \/ (\E k \in Conns : Process(k))
    /\ Observed

\* Goroutines and processes that can go on do.
Spec == Init /\ [][Next]_vars
FairSpec ==
    /\ Spec
    /\ \A c \in Clients : WF_vars(Client(c) /\ Observed)
    /\ \A k \in Conns : WF_vars(Process(k) /\ Observed)

-----------------------------------------------------------------------------
(* Properties *)

\* Handlers that do not overlap are atomic: with messages of two writes and
\* reads in pieces, the calls do what HintSession says, each in one step.
Atomic == INSTANCE HintSession WITH
    hint    <- IF served = None THEN None ELSE proc[<<"hc", served>>].hint,
    queries <- IF served = None THEN None ELSE proc[<<"hc", served>>].keys,
    answers <- [c \in Clients |->
                  LET a == received[c].answer
                  IN IF a = Nothing.answer THEN None ELSE [hint |-> a.hint, keys |-> a.keys]]

ImplementsSession == Atomic!Init /\ [][Atomic!Next \/ overlapped']_Atomic!vars

\* A program ends early only where handlers overlap, a size comes in pieces, or
\* another client's ClientInitRPC comes between a QueryRPC and an AnswerRPC:
\* RecvBytes never loses its place between messages sent back to back.
FatalHasCause ==
    down \/ (\E c \in Clients : pc[c] = "panic") =>
        \/ overlapped \/ ~driver.wholeSizes
        \/ driver.limit > 1 /\ \E k \in Conns : proc[k].at = "unset"

\* The i-th token is that of the i-th key and of the answer asked for last; of
\* clients one at a time, the client's own, on its own hint.
TokensInOrder ==
    ~overlapped => \A c \in {d \in Clients : pc[d] # "recover"} : LET a == received[c].answer IN
        /\ \A i \in DOMAIN tokens[c] : tokens[c][i] = Msg("token", a.hint, a.keys, i)
        /\ driver.limit = 1 /\ tokens[c] # <<>> => a.hint = c /\ a.keys = c

\* Clients one at a time are all served: neither side ever waits for the other
\* to write what it has written.
CallsReturn ==
    <>(driver.limit = 1 /\ driver.wholeSizes => \A c \in driver.clients : pc[c] = "done")

==============================================================================
