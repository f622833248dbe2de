-------------------------- MODULE HintSocket_proofs --------------------------
(***************************************************************************)
(* Proofs about the sockets of hint compression for any clients, lengths   *)
(* of messages, buffer and driver: the invariant, in terms of the state of *)
(* one connection; that every step keeps it; and with it that handlers     *)
(* that do not overlap do what HintSession says.                           *)
(***************************************************************************)
EXTENDS HintSocket, FiniteSetTheorems, SequenceTheorems, WellFoundedInduction, TLAPS

-----------------------------------------------------------------------------
(* Types *)

Names == Clients \cup {None}
Msgs == [kind : Kinds, hint : Names, keys : Names, i : Nat]
Units == Msgs \X Nat
Procs == [at : {"dims", "params", "keys", "hint", "ready", "unset", "broken"},
          hint : Names, keys : Names, n : Nat]

Steps == SendSteps \cup RecvSteps \cup {"off", "init", "done", "panic"}

Types ==
    /\ driver \in Drivers
    /\ session \in Names /\ served \in Names /\ down \in BOOLEAN
    /\ pc \in [Clients -> Steps]
    /\ count \in [Clients -> Nat] /\ iter \in [Clients -> Nat]
    /\ wrote \in [Clients -> BOOLEAN]
    /\ got \in [Clients -> Seq(Units)] /\ size \in [Clients -> Nat \cup {None}]
    /\ received \in [Clients -> [RecvSteps -> Msgs]]
    /\ tokens \in [Clients -> Seq(Msgs)]
    /\ toProc \in [Conns -> Seq(Units)] /\ toGo \in [Conns -> Seq(Units)]
    /\ proc \in [Conns -> Procs] /\ out \in [Conns -> Seq(Units)]

-----------------------------------------------------------------------------
(* Connections.  A line is the state of one; its side says whose process is *)
(* at its end: a client's, the HC server's, or the HC server's of clients   *)
(* one at a time.                                                           *)

Line(k) ==
    [side   |-> IF k[1] = "own" THEN "own" ELSE IF driver.limit = 1 THEN "one" ELSE "hc",
     whole  |-> driver.wholeSizes,
     toProc |-> toProc[k], toGo |-> toGo[k], proc |-> proc[k], out |-> out[k]]

IsLine(l) ==
    /\ l.side \in {"own", "hc", "one"} /\ l.whole \in BOOLEAN /\ l.proc \in Procs
    /\ {l.toProc, l.toGo, l.out} \subseteq Seq(Units)

\* What a process can make sense of next.
Stage(p) ==
    <<p.at, IF p.at = "keys" THEN p.n ELSE IF p.at = "ready" /\ p.keys # None THEN 1 ELSE 0>>

\* Messages a process answers; its stage after the others, which is after what
\* they leave.
Asks(m) == m.kind \in {"hint", "ask", "answer"} \/ (m.kind = "key" /\ m.i = Batch)

StageAfter(m) ==
    CASE m.kind = "newClient" -> <<"params", 0>>
      [] m.kind = "params"  -> <<"keys", 0>>
      [] m.kind = "key"     -> <<"keys", m.i>>
      [] m.kind = "dims"    -> <<"hint", 0>>
      [] m.kind = "reset"   -> <<"dims", 0>>
      [] m.kind = "queries" -> <<"ready", 1>>
      [] OTHER -> <<"ready", 0>>

Takes(side, m, stage) ==
    IF side = "own"
    THEN \/ m.kind = "newClient" /\ stage = <<"dims", 0>>
         \/ m.kind = "params" /\ stage = <<"params", 0>>
         \/ m.kind = "key" /\ m.i \in 1..Batch /\ stage = <<"keys", m.i - 1>>
         \/ m.kind = "answer" /\ stage[1] = "ready"
    ELSE \/ m.kind = "dims" /\ stage = <<"dims", 0>>
         \/ m.kind = "hint" /\ m.hint \in Clients /\ stage = <<"hint", 0>>
         \/ m.kind = "reset" /\ stage[1] = "ready"
         \/ m.kind = "queries" /\ m.keys \in Clients /\ stage[1] = "ready"
         \/ m.kind = "ask" /\ stage[1] = "ready" /\ (side = "one" => stage[2] = 1)

\* Which message may come behind one: one the process takes then, and of what
\* it writes the next token.
Behind(way, m, next) ==
    IF way = "back" THEN next = Msg(m.kind, m.hint, m.keys, m.i + 1)
    ELSE ~Asks(m) /\ Takes(way, next, StageAfter(m))

Linked(way, u, v) ==
    \/ v[1] = u[1] /\ v[2] = u[2] + 1 /\ u[2] < Total(u[1])
    \/ u[2] = Total(u[1]) /\ v[2] = 1 /\ Behind(way, u[1], v[1])

\* Whole messages one behind the other, but for the beginning of the first and
\* the end of the last.
Chain(way, s) ==
    /\ \A x \in DOMAIN s : s[x][2] \in 1..Total(s[x][1])
    /\ \A x \in 1..Len(s) - 1 : Linked(way, s[x], s[x + 1])

End(s) == s[Len(s)]

\* What the process is sent makes sense to it.
Fed(l) ==
    /\ IsLine(l) /\ Chain(l.side, l.toProc)
    /\ l.toProc # <<>> => l.toProc[1][2] = 1 /\ Takes(l.side, l.toProc[1][1], Stage(l.proc))
    /\ l.proc.at # "broken"
    /\ l.side = "own" /\ l.proc.at \in {"dims", "params"} => l.proc.n = 0
    /\ l.side # "own" /\ l.proc.at = "ready" => l.proc.hint \in Clients

Fresh(l) == l.toProc = <<>> /\ l.toGo = <<>> /\ l.proc = NewProc /\ l.out = <<>>
Quiet(l) == l.toGo = <<>> /\ l.out = <<>>

\* m is to be sent, or its size is and its bytes are not.
Sending(l, m, begun) ==
    /\ Fed(l) /\ Quiet(l)
    /\ IF begun THEN l.toProc # <<>> /\ End(l.toProc) = <<m, SizeLen>>
       ELSE IF l.toProc = <<>> THEN Takes(l.side, m, Stage(l.proc))
       ELSE LET last == End(l.toProc)[1]
            IN /\ End(l.toProc)[2] = Total(last)
               /\ ~Asks(last) /\ Takes(l.side, m, StageAfter(last))

\* The process is still to read q, which it replies to.
Awaited(l, q) ==
    /\ Fed(l) /\ Quiet(l)
    /\ l.toProc # <<>> /\ End(l.toProc) = <<q, Total(q)>> /\ Asks(q)

Coming(l) == l.toGo \o l.out

\* What it writes goes on with unit x of m and ends with message f.
Replying(l, m, x, f) ==
    /\ Fed(l) /\ l.toProc = <<>> /\ l.proc.at = "ready"
    /\ Coming(l) # <<>> /\ Coming(l)[1] = <<m, x>> /\ Chain("back", Coming(l))
    /\ End(Coming(l)) = <<f, Total(f)>>
    /\ \A y \in DOMAIN Coming(l) : Coming(l)[y][1].i <= f.i

\* Of a size some units only are there.
SizeInPieces(l) ==
    \/ l.toGo # <<>> /\ End(l.toGo)[2] < SizeLen
    \/ l.out # <<>> /\ l.out[1][2] \in 2..SizeLen

\* Units the reader has of a message, and the next one.
Read(m, g, s, x) ==
    \/ s = None /\ g = <<>> /\ x = 1
    \/ /\ s = Length[m.kind] /\ Len(g) < s /\ g = Piece(m, SizeLen + 1, SizeLen + Len(g))
       /\ x = SizeLen + Len(g) + 1

\* A client waits for a reply to q, or has got to message m of it.
Receiving(l, q, m, f, g, s) ==
    /\ l.whole => ~SizeInPieces(l)
    /\ \/ Awaited(l, q) /\ s = None /\ g = <<>> /\ m.i <= 1
       \/ \E x \in 1..Total(m) : Replying(l, m, x, f) /\ Read(m, g, s, x)

\* What a process has yet to write ends with a message.
Ends(s) == s # <<>> => Chain("back", s) /\ End(s)[2] = Total(End(s)[1])

-----------------------------------------------------------------------------
(* Clients *)

NoMsg(kind) == Msg(kind, None, None, 0)
Token(c, i) == LET a == received[c]["answer"] IN Msg("token", a.hint, a.keys, i)

Hc == Line(<<"hc", served>>)

\* What a client that reads has asked last; what it gets next, and at last.
Question(c) ==
    CASE pc[c] = "params"  -> Msg("hint", c, None, 0)
      [] pc[c] = "queries" -> Msg("key", None, c, Batch)
      [] pc[c] = "answer"  -> NoMsg("ask")
      [] pc[c] = "token"   -> received[c]["answer"]

Incoming(c) ==
    CASE pc[c] = "params"  -> Msg("params", c, None, 0)
      [] pc[c] = "queries" -> Msg("queries", None, c, 0)
      [] pc[c] = "answer"  -> Msg("answer", Hc.proc.hint, Hc.proc.keys, 0)
      [] pc[c] = "token"   -> Token(c, count[c] + 1)

LastComing(c) == IF pc[c] = "token" THEN Token(c, Batch) ELSE Incoming(c)

Reading(c, l) == Receiving(l, Question(c), Incoming(c), LastComing(c), got[c], size[c])

\* A client's own process: while the HC server serves the client it is left
\* alone.
BeforeParams == {"init", "reset", "dims", "hint", "params"}
BeforeAnswer == {"setQuery", "ask", "answer"}

OwnLine(c) == LET l == Line(<<"own", c>>) IN
    /\ pc[c] = "off" => Fresh(l)
    /\ pc[c] \in {"newClient", "recvParams", "key", "recover"} => Sending(l, Outgoing(c), wrote[c])
    /\ pc[c] \in {"queries", "token"} => Reading(c, l)
    /\ pc[c] \in BeforeParams => Sending(l, NoMsg("params"), FALSE)
    /\ pc[c] \in BeforeAnswer => Sending(l, NoMsg("answer"), FALSE)

\* What a client has got so far.
Has(c) ==
    /\ count[c] < Batch
    /\ wrote[c] => pc[c] \in SendSteps \cup {"panic"}
    /\ received[c]["params"] \in {NoMsg("params"), Msg("params", c, None, 0)}
    /\ received[c]["queries"] \in {NoMsg("queries"), Msg("queries", None, c, 0)}
    /\ received[c]["answer"] \in
          {NoMsg("answer")} \cup {Msg("answer", h, q, 0) : h \in Clients, q \in Clients}
    /\ pc[c] = "recvParams" => received[c]["params"].hint = c
    /\ pc[c] = "setQuery" => received[c]["queries"].keys = c
    /\ pc[c] \notin RecvSteps \cup {"panic"} => size[c] = None /\ got[c] = <<>>

HasTokens(c) ==
    /\ pc[c] = "token" => Len(tokens[c]) = count[c]
    /\ pc[c] # "recover" => \A i \in DOMAIN tokens[c] : tokens[c][i] = Token(c, i)
    /\ pc[c] \in {"recover", "token"} \/ tokens[c] # <<>> => received[c]["answer"] # NoMsg("answer")

-----------------------------------------------------------------------------
(* The HC server *)

\* What the client whose handler uses the connection is about.
HandlerLine(c) ==
    /\ pc[c] \in SendSteps => Sending(Hc, Outgoing(c), wrote[c])
    /\ pc[c] = "params" =>
         Reading(c, Hc) /\ (Hc.toProc = <<>> => Hc.proc.hint = c /\ Hc.proc.keys = None)
    /\ pc[c] = "answer" =>
         \/ Reading(c, Hc) /\ (Hc.toProc = <<>> => Hc.proc.keys \in Clients)
         \/ Hc.side = "hc" /\ Hc.proc.at = "unset" /\ Hc.toProc = <<>> /\ Quiet(Hc)

Initialised == {"recvParams", "key", "queries", "setQuery", "ask", "answer", "recover", "token"}

HcLine ==
    /\ \A c \in Clients : c # served => Fresh(Line(<<"hc", c>>))
    /\ session \in {None, served}
    /\ served # None => Fed(Hc)
    /\ \A c \in Clients : pc[c] \in Initialised \/ c \in InHandler => served # None
    /\ ~down =>
        /\ InHandler = {} =>
             session = served /\ (served # None => Sending(Hc, NoMsg("reset"), FALSE))
        /\ \A c \in InHandler :
             /\ IF pc[c] = "dims" THEN session = None => served = c ELSE session = served
             /\ HandlerLine(c)

\* What is under way to it are queries, the client's, or requests for an answer.
Asked(c, s) ==
    \A x \in DOMAIN s : LET m == s[x][1]
                        IN m.kind \in {"queries", "ask"} /\ (m.kind = "queries" => m.keys = c)

\* Clients one at a time: the HC server's hint and queries are the client's.
Alone(c) ==
    /\ Hc.proc.hint = c /\ Hc.proc.keys \in {None, c} /\ Asked(c, Hc.toProc)
    /\ pc[c] \in {"recover", "token"} \/ (pc[c] = "ask" /\ ~wrote[c]) =>
         Sending(Hc, NoMsg("ask"), FALSE)

OneAtATime ==
    /\ \A c, d \in Running : c = d
    /\ \A c \in Clients : received[c]["answer"] \in {NoMsg("answer"), Msg("answer", c, c, 0)}
    /\ ~down => \A c \in Clients : pc[c] \in Initialised => Alone(c)

Good ==
    /\ Types
    /\ \A k \in Conns : Ends(out[k])
    /\ \A c, d \in InHandler : c = d
    /\ \A c \in Clients : Has(c) /\ HasTokens(c) /\ OwnLine(c)
    /\ HcLine
    /\ driver.limit = 1 => OneAtATime
    /\ FatalHasCause

\* A call under way has the connection that one begun now would have.
Kept == \A c \in Calling : conn[c] = Chosen(c)

IInv == overlapped \in BOOLEAN /\ (overlapped \/ (Good /\ Kept))

-----------------------------------------------------------------------------
(* Messages, and pieces of them *)

\* A message and its fields.
LEMMA MsgType ==
    ASSUME NEW kind \in Kinds, NEW hint \in Names, NEW keys \in Names, NEW i \in Nat
    PROVE  /\ Msg(kind, hint, keys, i) \in Msgs
           /\ Msg(kind, hint, keys, i).kind = kind /\ Msg(kind, hint, keys, i).hint = hint
           /\ Msg(kind, hint, keys, i).keys = keys /\ Msg(kind, hint, keys, i).i = i
  BY DEF Msg, Msgs

LEMMA MsgFields ==
    ASSUME NEW m \in Msgs
    PROVE  /\ m = Msg(m.kind, m.hint, m.keys, m.i)
           /\ m.kind \in Kinds /\ m.hint \in Names /\ m.keys \in Names /\ m.i \in Nat
  BY DEF Msg, Msgs

\* A message is longer than its size.
LEMMA TotalType ==
    ASSUME NEW m \in Msgs
    PROVE  /\ SizeLen \in Nat \ {0} /\ Length[m.kind] \in Nat \ {0}
           /\ Total(m) \in Nat /\ Total(m) = SizeLen + Length[m.kind] /\ Total(m) > SizeLen
  BY SocketAssumption, MsgFields DEF Total

\* The units of a piece of a message.
LEMMA PieceType ==
    ASSUME NEW m \in Msgs, NEW i \in Nat, NEW j \in Nat, i <= j + 1
    PROVE  /\ Piece(m, i, j) \in Seq(Units)
           /\ Len(Piece(m, i, j)) = j - i + 1
           /\ \A x \in 1..j - i + 1 : Piece(m, i, j)[x] = <<m, i + x - 1>>
  <1>1. \A x \in 1..j - i + 1 : <<m, i + x - 1>> \in Units
    BY DEF Units
  <1>2. j - i + 1 \in Nat
    OBVIOUS
  <1>3. QED
    BY <1>1, <1>2 DEF Piece

\* Two sequences with the same elements.
LEMMA SameUnits ==
    ASSUME NEW s \in Seq(Units), NEW t \in Seq(Units), Len(s) = Len(t),
           \A x \in 1..Len(s) : s[x] = t[x]
    PROVE  s = t
  BY SeqEqual

\* What is taken from the front of a sequence, and what is left of it.
LEMMA PrefixType ==
    ASSUME NEW s \in Seq(Units), NEW n \in 0..Len(s)
    PROVE  /\ Prefix(s, n) \in Seq(Units) /\ Len(Prefix(s, n)) = n
           /\ \A x \in 1..n : Prefix(s, n)[x] = s[x]
           /\ Rest(s, n) \in Seq(Units) /\ Len(Rest(s, n)) = Len(s) - n
           /\ \A x \in 1..Len(s) - n : Rest(s, n)[x] = s[n + x]
  <1>1. n \in Nat /\ Len(s) \in Nat /\ n <= Len(s)
    OBVIOUS
  <1>2. Prefix(s, n) = [x \in 1..n |-> s[x]]
    BY <1>1 DEF Prefix
  <1>3. Rest(s, n) = [x \in 1..Len(s) - n |-> s[n + x]]
    BY <1>1 DEF Rest
  <1>4. QED
    BY <1>1, <1>2, <1>3

\* Two sequences one behind the other.
LEMMA JoinType ==
    ASSUME NEW s \in Seq(Units), NEW t \in Seq(Units)
    PROVE  /\ s \o t \in Seq(Units) /\ Len(s \o t) = Len(s) + Len(t)
           /\ \A x \in 1..Len(s) : (s \o t)[x] = s[x]
           /\ \A x \in 1..Len(t) : (s \o t)[Len(s) + x] = t[x]
  OBVIOUS

\* What is taken from the front and what is left make the whole.
LEMMA PrefixRest ==
    ASSUME NEW s \in Seq(Units), NEW n \in 0..Len(s)
    PROVE  Prefix(s, n) \o Rest(s, n) = s
  <1>1. /\ Prefix(s, n) \in Seq(Units) /\ Len(Prefix(s, n)) = n
        /\ \A x \in 1..n : Prefix(s, n)[x] = s[x]
        /\ Rest(s, n) \in Seq(Units) /\ Len(Rest(s, n)) = Len(s) - n
        /\ \A x \in 1..Len(s) - n : Rest(s, n)[x] = s[n + x]
    BY PrefixType
  <1> DEFINE t == Prefix(s, n) \o Rest(s, n)
  <1>2. /\ t \in Seq(Units) /\ Len(t) = Len(s)
        /\ \A x \in 1..n : t[x] = Prefix(s, n)[x]
        /\ \A x \in 1..Len(s) - n : t[n + x] = Rest(s, n)[x]
    BY <1>1
  <1> HIDE DEF t
  <1>3. ASSUME NEW x \in 1..Len(s) PROVE t[x] = s[x]
    <2>1. CASE x \in 1..n
      BY <1>1, <1>2, <2>1
    <2>2. CASE x \notin 1..n
      <3>1. x - n \in 1..Len(s) - n /\ x = n + (x - n)
        BY <2>2
      <3>2. QED
        BY <1>1, <1>2, <3>1
    <2>3. QED
      BY <2>1, <2>2, Zenon
  <1>4. t = s
    BY <1>2, <1>3, SameUnits
  <1>5. QED
    BY <1>4 DEF t

-----------------------------------------------------------------------------
(* Chains *)

\* Of a set of numbers one is the least.
LEMMA LeastNumber ==
    ASSUME NEW T \in SUBSET Nat, NEW t \in T
    PROVE  \E n \in T : \A m \in T : n <= m
  <1>1. PICK n \in T : \A m \in T : ~(<<m, n>> \in OpToRel(<, Nat))
    BY NatLessThanWellFounded, WFMin
  <1>2. OpToRel(<, Nat) = {mn \in Nat \X Nat : mn[1] < mn[2]}
    BY Zenon DEF OpToRel
  <1>3. ASSUME NEW m \in T PROVE n <= m
    <2>1. ~(<<m, n>> \in {mn \in Nat \X Nat : mn[1] < mn[2]})
      BY <1>1, <1>2, Zenon
    <2>2. QED
      BY <2>1
  <1>4. QED
    BY <1>3

\* From its first unit on a chain has the units of one message until that ends.
LEMMA ChainStart ==
    ASSUME NEW way, NEW s \in Seq(Units), Chain(way, s), s # <<>>,
           NEW n \in 1..Len(s), s[1][2] + n - 1 <= Total(s[1][1])
    PROVE  \A x \in 1..n : s[x] = <<s[1][1], s[1][2] + x - 1>>
  <1> DEFINE m == s[1][1]
             p == s[1][2]
             Wrong == {x \in 1..n : s[x] # <<m, p + x - 1>>}
  <1>1. m \in Msgs /\ p \in Nat /\ s[1] = <<m, p>>
    BY DEF Units
  <1>2. SUFFICES ASSUME NEW w \in Wrong PROVE FALSE
    OBVIOUS
  <1> HIDE DEF m, p
  <1>3. PICK x \in Wrong : \A y \in Wrong : x <= y
    <2>1. Wrong \in SUBSET Nat
      OBVIOUS
    <2> HIDE DEF Wrong
    <2>2. QED
      BY <1>2, <2>1, LeastNumber
  <1>4. x \in 2..n
    BY <1>1, <1>3
  <1>5. x - 1 \in 1..Len(s) - 1 /\ s[x - 1] = <<m, p + x - 2>>
    <2>1. x - 1 \in 1..n /\ x - 1 \notin Wrong
      BY <1>3, <1>4
    <2>2. QED
      BY <1>1, <1>4, <2>1
  <1>6. Linked(way, s[x - 1], s[(x - 1) + 1])
    BY <1>5 DEF Chain
  <1>7. p + x - 2 < Total(m)
    <2>1. Total(m) \in Nat /\ p + n - 1 <= Total(m)
      BY <1>1, TotalType DEF m, p
    <2>2. QED
      BY <1>1, <1>4, <2>1
  <1>8. s[x] \in Units /\ (x - 1) + 1 = x
    BY <1>4
  <1>9. s[x][1] = m /\ s[x][2] = p + x - 1
    BY <1>1, <1>4, <1>5, <1>6, <1>7, <1>8, TotalType DEF Linked
  <1>10. QED
    BY <1>3, <1>8, <1>9 DEF Units

\* So its first units are a piece of that message.
LEMMA ChainPrefix ==
    ASSUME NEW way, NEW s \in Seq(Units), Chain(way, s), s # <<>>,
           NEW n \in 1..Len(s), s[1][2] + n - 1 <= Total(s[1][1])
    PROVE  Prefix(s, n) = Piece(s[1][1], s[1][2], s[1][2] + n - 1)
  <1> DEFINE m == s[1][1]
             p == s[1][2]
  <1>1. m \in Msgs /\ p \in Nat /\ n \in Nat /\ n >= 1 /\ n \in 0..Len(s)
    BY DEF Units
  <1>2. \A x \in 1..n : s[x] = <<m, p + x - 1>>
    BY ChainStart
  <1> HIDE DEF m, p
  <1>3. /\ Prefix(s, n) \in Seq(Units) /\ Len(Prefix(s, n)) = n
        /\ \A x \in 1..n : Prefix(s, n)[x] = s[x]
    BY <1>1, PrefixType
  <1> DEFINE j == p + n - 1
  <1>4. j \in Nat /\ p <= j + 1 /\ j - p + 1 = n
    BY <1>1
  <1> HIDE DEF j
  <1>5. /\ Piece(m, p, j) \in Seq(Units) /\ Len(Piece(m, p, j)) = n
        /\ \A x \in 1..n : Piece(m, p, j)[x] = <<m, p + x - 1>>
    <2>1. /\ Piece(m, p, j) \in Seq(Units) /\ Len(Piece(m, p, j)) = j - p + 1
          /\ \A x \in 1..j - p + 1 : Piece(m, p, j)[x] = <<m, p + x - 1>>
      BY <1>1, <1>4, PieceType
    <2>2. QED
      BY <1>4, <2>1
  <1>6. Prefix(s, n) = Piece(m, p, j)
    <2>1. Len(Prefix(s, n)) = Len(Piece(m, p, j))
      BY <1>3, <1>5
    <2>2. \A x \in 1..Len(Prefix(s, n)) : Prefix(s, n)[x] = Piece(m, p, j)[x]
      BY <1>2, <1>3, <1>5
    <2>3. QED
      BY <1>3, <1>5, <2>1, <2>2, SameUnits
  <1>7. QED
    BY <1>6 DEF m, p, j

\* What is left of a chain is one.
LEMMA ChainRest ==
    ASSUME NEW way, NEW s \in Seq(Units), Chain(way, s), NEW n \in 0..Len(s)
    PROVE  Chain(way, Rest(s, n))
  <1>1. /\ Rest(s, n) \in Seq(Units) /\ Len(Rest(s, n)) = Len(s) - n
        /\ \A x \in 1..Len(s) - n : Rest(s, n)[x] = s[n + x]
    BY PrefixType
  <1>2. ASSUME NEW x \in DOMAIN Rest(s, n)
        PROVE  Rest(s, n)[x][2] \in 1..Total(Rest(s, n)[x][1])
    <2>1. x \in 1..Len(s) - n /\ n + x \in DOMAIN s
      BY <1>1
    <2>2. QED
      BY <1>1, <2>1 DEF Chain
  <1>3. ASSUME NEW x \in 1..Len(Rest(s, n)) - 1
        PROVE  Linked(way, Rest(s, n)[x], Rest(s, n)[x + 1])
    <2>1. /\ n + x \in 1..Len(s) - 1 /\ (n + x) + 1 = n + (x + 1)
          /\ x \in 1..Len(s) - n /\ x + 1 \in 1..Len(s) - n
      BY <1>1
    <2>2. Linked(way, s[n + x], s[(n + x) + 1])
      BY <2>1 DEF Chain
    <2>3. QED
      BY <1>1, <2>1, <2>2
  <1>4. QED
    BY <1>2, <1>3 DEF Chain

\* Two chains are one where the second begins as the first may go on.
LEMMA ChainJoin ==
    ASSUME NEW way, NEW s \in Seq(Units), Chain(way, s), NEW t \in Seq(Units), Chain(way, t),
           s # <<>> /\ t # <<>> => Linked(way, End(s), t[1])
    PROVE  Chain(way, s \o t)
  <1> DEFINE u == s \o t
  <1>1. /\ u \in Seq(Units) /\ Len(u) = Len(s) + Len(t)
        /\ \A x \in 1..Len(s) : u[x] = s[x]
        /\ \A x \in 1..Len(t) : u[Len(s) + x] = t[x]
    OBVIOUS
  <1> HIDE DEF u
  <1>2. Len(s) \in Nat /\ Len(t) \in Nat /\ DOMAIN s = 1..Len(s) /\ DOMAIN t = 1..Len(t)
    OBVIOUS
  <1>3. ASSUME NEW x \in DOMAIN u PROVE u[x][2] \in 1..Total(u[x][1])
    <2>1. CASE x \in 1..Len(s)
      BY <1>1, <1>2, <2>1 DEF Chain
    <2>2. CASE x \notin 1..Len(s)
      <3>1. x - Len(s) \in 1..Len(t) /\ Len(s) + (x - Len(s)) = x
        BY <1>1, <1>2, <2>2
      <3>2. QED
        BY <1>1, <1>2, <3>1 DEF Chain
    <2>3. QED
      BY <2>1, <2>2
  <1>4. ASSUME NEW x \in 1..Len(u) - 1 PROVE Linked(way, u[x], u[x + 1])
    <2>1. CASE x < Len(s)
      <3>1. x \in 1..Len(s) - 1 /\ x \in 1..Len(s) /\ x + 1 \in 1..Len(s)
        BY <1>2, <2>1
      <3>2. QED
        BY <1>1, <3>1 DEF Chain
    <2>2. CASE x = Len(s)
      <3>1. s # <<>> /\ t # <<>> /\ x \in 1..Len(s) /\ 1 \in 1..Len(t)
        BY <1>1, <1>2, <2>2
      <3>2. u[x] = End(s) /\ u[x + 1] = t[1]
        BY <1>1, <2>2, <3>1 DEF End
      <3>3. QED
        BY <3>1, <3>2
    <2>3. CASE x > Len(s)
      <3> DEFINE y == x - Len(s)
      <3>1. y \in 1..Len(t) - 1 /\ y \in 1..Len(t) /\ y + 1 \in 1..Len(t)
            /\ Len(s) + y = x /\ Len(s) + (y + 1) = x + 1
        BY <1>1, <1>2, <2>3
      <3> HIDE DEF y
      <3>2. Linked(way, t[y], t[y + 1])
        BY <3>1 DEF Chain
      <3>3. QED
        BY <1>1, <3>1, <3>2
    <2>4. x < Len(s) \/ x = Len(s) \/ x > Len(s)
      <3>1. x \in Int /\ Len(s) \in Int
        OBVIOUS
      <3>2. QED
        BY <3>1
    <2>5. QED
      BY <2>1, <2>2, <2>3, <2>4, Zenon
  <1>5. QED
    BY <1>3, <1>4 DEF Chain, u

\* A piece of a message is a chain.
LEMMA ChainPiece ==
    ASSUME NEW way, NEW m \in Msgs, NEW i \in Nat, NEW j \in Nat, 1 <= i, i <= j, j <= Total(m)
    PROVE  /\ Chain(way, Piece(m, i, j)) /\ Piece(m, i, j) # <<>>
           /\ Piece(m, i, j)[1] = <<m, i>> /\ End(Piece(m, i, j)) = <<m, j>>
  <1> DEFINE s == Piece(m, i, j)
  <1>1. s \in Seq(Units) /\ Len(s) = j - i + 1 /\ \A x \in 1..j - i + 1 : s[x] = <<m, i + x - 1>>
    <2>1. i <= j + 1
      OBVIOUS
    <2>2. QED
      BY <2>1, PieceType
  <1> HIDE DEF s
  <1>2. Total(m) \in Nat
    BY TotalType
  <1>3. \A x \in DOMAIN s : s[x][2] \in 1..Total(s[x][1])
    BY <1>1, <1>2
  <1>4. ASSUME NEW x \in 1..Len(s) - 1 PROVE Linked(way, s[x], s[x + 1])
    <2>1. s[x] = <<m, i + x - 1>> /\ s[x + 1] = <<m, i + x>> /\ i + x - 1 < Total(m)
      BY <1>1, <1>2
    <2>2. QED
      BY <2>1 DEF Linked
  <1>5. s # <<>> /\ s[1] = <<m, i>> /\ s[Len(s)] = <<m, j>>
    <2>1. 1 \in 1..j - i + 1 /\ Len(s) \in 1..j - i + 1 /\ i + 1 - 1 = i /\ i + Len(s) - 1 = j
      BY <1>1
    <2>2. s # <<>>
      BY <1>1
    <2>3. s[1] = <<m, i>> /\ s[Len(s)] = <<m, j>>
      BY <1>1, <2>1, Zenon
    <2>4. QED
      BY <2>2, <2>3
  <1>6. QED
    BY <1>3, <1>4, <1>5 DEF Chain, End, s

\* The last unit of what is left, and of two sequences one behind the other.
LEMMA EndRest ==
    ASSUME NEW s \in Seq(Units), NEW n \in Nat, n < Len(s)
    PROVE  Rest(s, n) # <<>> /\ End(Rest(s, n)) = End(s) /\ Rest(s, n)[1] = s[n + 1]
  <1>1. n \in 0..Len(s) /\ Len(s) \in Nat
    OBVIOUS
  <1>2. /\ Rest(s, n) \in Seq(Units) /\ Len(Rest(s, n)) = Len(s) - n
        /\ \A x \in 1..Len(s) - n : Rest(s, n)[x] = s[n + x]
    BY <1>1, PrefixType
  <1>3. Len(s) - n \in 1..Len(s) - n /\ 1 \in 1..Len(s) - n /\ n + (Len(s) - n) = Len(s)
    BY <1>1
  <1>4. Rest(s, n)[Len(s) - n] = s[Len(s)] /\ Rest(s, n)[1] = s[n + 1]
    BY <1>2, <1>3
  <1>5. Rest(s, n) # <<>>
    BY <1>2, <1>3
  <1>6. QED
    BY <1>2, <1>4, <1>5 DEF End

LEMMA EndJoin ==
    ASSUME NEW s \in Seq(Units), NEW t \in Seq(Units), t # <<>>
    PROVE  s \o t # <<>> /\ End(s \o t) = End(t)
  <1> DEFINE u == s \o t
  <1>1. u \in Seq(Units) /\ Len(u) = Len(s) + Len(t) /\ \A x \in 1..Len(t) : u[Len(s) + x] = t[x]
    BY JoinType
  <1> HIDE DEF u
  <1>2. Len(s) \in Nat /\ Len(t) \in Nat /\ Len(t) > 0
    OBVIOUS
  <1>3. Len(t) \in 1..Len(t)
    BY <1>2
  <1>4. u[Len(u)] = t[Len(t)]
    BY <1>1, <1>3
  <1>5. u # <<>>
    BY <1>1, <1>2
  <1>6. QED
    BY <1>4, <1>5 DEF End, u

\* Three sequences one behind the other.
LEMMA JoinJoin ==
    ASSUME NEW s \in Seq(Units), NEW t \in Seq(Units), NEW u \in Seq(Units)
    PROVE  (s \o t) \o u = s \o (t \o u)
  BY ConcatAssociative

\* A sequence that is not empty has a first and a last unit.
LEMMA FirstLast ==
    ASSUME NEW s \in Seq(Units), s # <<>>
    PROVE  /\ Len(s) \in Nat \ {0} /\ s[1] \in Units /\ End(s) \in Units
           /\ s[1][1] \in Msgs /\ s[1][2] \in Nat /\ s[1] = <<s[1][1], s[1][2]>>
           /\ End(s)[1] \in Msgs /\ End(s)[2] \in Nat /\ End(s) = <<End(s)[1], End(s)[2]>>
  <1>1. Len(s) \in Nat \ {0} /\ s[1] \in Units /\ s[Len(s)] \in Units
    OBVIOUS
  <1>2. \A u \in Units : u[1] \in Msgs /\ u[2] \in Nat /\ u = <<u[1], u[2]>>
    BY DEF Units
  <1>3. QED
    BY <1>1, <1>2 DEF End

-----------------------------------------------------------------------------
(* The tokens: unit x of them is unit x % length of token x \div length *)

\* Quotient and remainder.
LEMMA Division ==
    ASSUME NEW a \in Nat, NEW n \in Nat \ {0}
    PROVE  a \div n \in Nat /\ a % n \in 0..n - 1 /\ a = n * (a \div n) + (a % n)
  OBVIOUS

\* Quotient and remainder are the only such numbers.
LEMMA DivisionUnique ==
    ASSUME NEW n \in Nat \ {0}, NEW q \in Nat, NEW r \in 0..n - 1,
           NEW p \in Nat, NEW t \in 0..n - 1, n * q + r = n * p + t
    PROVE  q = p /\ r = t
  <1>1. CASE q < p
    <2>1. n * (p - q) >= n
      BY <1>1
    <2>2. QED
      BY <2>1
  <1>2. CASE p < q
    <2>1. n * (q - p) >= n
      BY <1>2
    <2>2. QED
      BY <2>1
  <1>3. QED
    BY <1>1, <1>2

\* Those of the next number.
LEMMA DivisionNext ==
    ASSUME NEW n \in Nat \ {0}, NEW q \in Nat, NEW r \in 0..n - 1,
           NEW p \in Nat, NEW t \in 0..n - 1, n * p + t = n * q + r + 1
    PROVE  \/ r + 1 < n /\ p = q /\ t = r + 1
           \/ r + 1 = n /\ p = q + 1 /\ t = 0
  <1>1. CASE r + 1 < n
    <2>1. n * p + t = n * q + (r + 1) /\ r + 1 \in 0..n - 1
      BY <1>1
    <2>2. QED
      BY <1>1, <2>1, DivisionUnique
  <1>2. CASE r + 1 = n
    <2>1. n * p + t = n * (q + 1) + 0 /\ q + 1 \in Nat /\ 0 \in 0..n - 1
      BY <1>2
    <2>2. QED
      BY <1>2, <2>1, DivisionUnique
  <1>3. QED
    BY <1>1, <1>2

\* The tokens of an answer are a chain, from the first one to the last.
LEMMA TokensChain ==
    ASSUME NEW m \in Msgs
    PROVE  LET token(i) == Msg("token", m.hint, m.keys, i)
           IN /\ Tokens(m) \in Seq(Units) /\ Tokens(m) # <<>> /\ Chain("back", Tokens(m))
              /\ Tokens(m)[1] = <<token(1), 1>>
              /\ End(Tokens(m)) = <<token(Batch), Total(token(Batch))>>
              /\ \A x \in DOMAIN Tokens(m) : Tokens(m)[x][1].i <= Batch
  <1> DEFINE token(i) == Msg("token", m.hint, m.keys, i)
             n == Total(token(1))
             s == Tokens(m)
  <1>1. ASSUME NEW i \in Nat
        PROVE  /\ token(i) \in Msgs /\ Total(token(i)) = n /\ token(i).i = i
               /\ token(i + 1) = Msg(token(i).kind, token(i).hint, token(i).keys, token(i).i + 1)
    <2>1. "token" \in Kinds /\ m.hint \in Names /\ m.keys \in Names
      BY MsgFields DEF Kinds
    <2>2. /\ token(i) \in Msgs /\ token(i).kind = "token" /\ token(i).hint = m.hint
          /\ token(i).keys = m.keys /\ token(i).i = i
      BY <2>1, MsgType
    <2>3. token(1).kind = "token"
      BY <2>1, MsgType
    <2>4. QED
      BY <2>2, <2>3 DEF Total
  <1>2. n \in Nat \ {0} /\ Batch \in Nat \ {0}
    <2>1. n \in Nat /\ n > SizeLen /\ SizeLen \in Nat
      BY <1>1, TotalType
    <2>2. QED
      BY <2>1, SocketAssumption
  <1>3. s = [x \in 1..Batch * n |-> <<token(((x - 1) \div n) + 1), ((x - 1) % n) + 1>>]
    BY DEF Tokens
  <1> HIDE DEF token, n, s
  <1>4. Batch * n \in Nat \ {0}
    BY <1>2
  <1>5. ASSUME NEW x \in 1..Batch * n
        PROVE  /\ (x - 1) \div n \in 0..Batch - 1 /\ (x - 1) % n \in 0..n - 1
               /\ s[x] = <<token(((x - 1) \div n) + 1), ((x - 1) % n) + 1>>
    <2> DEFINE a == x - 1
    <2>1. a \in Nat /\ a < Batch * n
      BY <1>4
    <2> HIDE DEF a
    <2>2. a \div n \in Nat /\ a % n \in 0..n - 1 /\ a = n * (a \div n) + (a % n)
      BY <1>2, <2>1, Division
    <2>3. a \div n < Batch
      <3> DEFINE q == a \div n
      <3>1. q \in Nat /\ n * q <= a
        BY <1>2, <2>1, <2>2
      <3> HIDE DEF q
      <3>2. ASSUME q >= Batch PROVE FALSE
        <4>1. n * q >= n * Batch
          BY <1>2, <3>1, <3>2
        <4>2. QED
          BY <1>2, <2>1, <3>1, <4>1
      <3>3. QED
        BY <1>2, <3>1, <3>2 DEF q
    <2>4. QED
      BY <1>2, <1>3, <2>2, <2>3 DEF a
  <1>6. ASSUME NEW x \in 1..Batch * n
        PROVE  /\ s[x] \in Units /\ s[x][2] \in 1..Total(s[x][1]) /\ s[x][1].i <= Batch
    <2>1. ((x - 1) \div n) + 1 \in 1..Batch /\ ((x - 1) % n) + 1 \in 1..n
      BY <1>2, <1>5
    <2> DEFINE i == ((x - 1) \div n) + 1
               y == ((x - 1) % n) + 1
    <2>2. s[x] = <<token(i), y>>
      BY <1>5
    <2>3. i \in 1..Batch /\ y \in 1..n
      BY <2>1
    <2> HIDE DEF i, y
    <2>4. token(i) \in Msgs /\ Total(token(i)) = n /\ token(i).i = i
      BY <1>1, <1>2, <2>3
    <2>5. QED
      BY <1>2, <2>2, <2>3, <2>4 DEF Units
  <1>7. s \in Seq(Units) /\ Len(s) = Batch * n /\ DOMAIN s = 1..Batch * n
    BY <1>3, <1>4, <1>6
  <1>8. ASSUME NEW x \in 1..Len(s) - 1 PROVE Linked("back", s[x], s[x + 1])
    <2> DEFINE a == x - 1
               b == (x + 1) - 1
               i == (a \div n) + 1
               y == (a % n) + 1
    <2>1. x \in 1..Batch * n /\ x + 1 \in 1..Batch * n /\ a \in Nat /\ b \in Nat /\ b = a + 1
      BY <1>4, <1>7
    <2>2. /\ a \div n \in 0..Batch - 1 /\ a % n \in 0..n - 1
          /\ s[x] = <<token(i), y>>
          /\ s[x + 1] = <<token((b \div n) + 1), (b % n) + 1>>
      BY <1>5, <2>1
    <2> HIDE DEF a, b
    <2>3. \/ (a % n) + 1 < n /\ b \div n = a \div n /\ b % n = (a % n) + 1
          \/ (a % n) + 1 = n /\ b \div n = (a \div n) + 1 /\ b % n = 0
      <3> DEFINE q == a \div n
                 r == a % n
                 p == b \div n
                 t == b % n
      <3>1. q \in Nat /\ r \in 0..n - 1 /\ a = n * q + r
        BY <1>2, <2>1, Division
      <3>2. p \in Nat /\ t \in 0..n - 1 /\ b = n * p + t
        BY <1>2, <2>1, Division
      <3> HIDE DEF q, r, p, t
      <3>3. n * p + t = n * q + r + 1
        BY <1>2, <2>1, <3>1, <3>2
      <3>4. \/ r + 1 < n /\ p = q /\ t = r + 1
            \/ r + 1 = n /\ p = q + 1 /\ t = 0
        BY <1>2, <3>1, <3>2, <3>3, DivisionNext
      <3>5. QED
        BY <3>4 DEF q, r, p, t
    <2>4. i \in Nat /\ y \in Nat
      BY <1>2, <2>2
    <2>5. \/ y < n /\ s[x + 1] = <<token(i), y + 1>>
          \/ y = n /\ s[x + 1] = <<token(i + 1), 1>>
      BY <2>2, <2>3
    <2> HIDE DEF i, y
    <2>6. /\ token(i) \in Msgs /\ Total(token(i)) = n
          /\ token(i + 1) = Msg(token(i).kind, token(i).hint, token(i).keys, token(i).i + 1)
      BY <1>1, <2>4
    <2>7. s[x] = <<token(i), y>>
      BY <2>2 DEF i, y
    <2>8. QED
      BY <2>5, <2>6, <2>7 DEF Linked, Behind
  <1>9. s[1] = <<token(1), 1>>
    <2>1. 1 \in 1..Batch * n /\ 0 \div n = 0 /\ 0 % n = 0
      <3>1. 0 \div n \in Nat /\ 0 % n \in 0..n - 1 /\ 0 = n * (0 \div n) + (0 % n)
        BY <1>2, Division
      <3>2. n * (0 \div n) + (0 % n) = n * 0 + 0 /\ 0 \in 0..n - 1
        BY <1>2, <3>1
      <3>3. QED
        BY <1>2, <1>4, <3>1, <3>2, DivisionUnique
    <2>2. s[1] = <<token(((1 - 1) \div n) + 1), ((1 - 1) % n) + 1>>
      BY <1>5, <2>1
    <2>3. QED
      BY <2>1, <2>2
  <1>10. End(s) = <<token(Batch), n>>
    <2> DEFINE a == Batch * n - 1
    <2>1. Batch * n \in 1..Batch * n /\ a \in Nat
      BY <1>4
    <2>2. s[Batch * n] = <<token((a \div n) + 1), (a % n) + 1>>
      BY <1>5, <2>1
    <2>3. a = n * (Batch - 1) + (n - 1)
      BY <1>2
    <2> HIDE DEF a
    <2>4. a \div n \in Nat /\ a % n \in 0..n - 1 /\ a = n * (a \div n) + (a % n)
      BY <1>2, <2>1, Division
    <2>5. Batch - 1 \in Nat /\ n - 1 \in 0..n - 1
      BY <1>2
    <2>6. a \div n = Batch - 1 /\ a % n = n - 1
      BY <1>2, <2>3, <2>4, <2>5, DivisionUnique
    <2>7. QED
      BY <1>2, <1>7, <2>2, <2>6 DEF End
  <1>11. s # <<>>
    BY <1>4, <1>7
  <1>12. Chain("back", s)
    BY <1>6, <1>7, <1>8 DEF Chain
  <1>13. Total(token(Batch)) = n
    BY <1>1, <1>2
  <1>14. QED
    BY <1>6, <1>7, <1>9, <1>10, <1>11, <1>12, <1>13 DEF token, s

-----------------------------------------------------------------------------
(* Bytes a client sends *)

\* What a line consists of.
LEMMA LineType ==
    ASSUME NEW l, IsLine(l)
    PROVE  /\ l.toProc \in Seq(Units) /\ l.toGo \in Seq(Units) /\ l.out \in Seq(Units)
           /\ l.proc \in Procs /\ l.side \in {"own", "hc", "one"} /\ l.whole \in BOOLEAN
  BY DEF IsLine

\* l with other bytes under way to the process.
SameButToProc(l, n) ==
    n.side = l.side /\ n.whole = l.whole /\ n.toGo = l.toGo /\ n.proc = l.proc /\ n.out = l.out

\* A process that makes sense of what it is sent goes on to with units more that link.
LEMMA FedJoin ==
    ASSUME NEW l, Fed(l), NEW n, SameButToProc(l, n),
           NEW t \in Seq(Units), t # <<>>, Chain(l.side, t), n.toProc = l.toProc \o t,
           IF l.toProc = <<>> THEN t[1][2] = 1 /\ Takes(l.side, t[1][1], Stage(l.proc))
           ELSE Linked(l.side, End(l.toProc), t[1])
    PROVE  Fed(n) /\ n.toProc # <<>> /\ End(n.toProc) = End(t)
  <1> DEFINE s == l.toProc
  <1>1. IsLine(l) /\ s \in Seq(Units) /\ Chain(l.side, s)
    BY LineType DEF Fed
  <1>2. /\ n.toProc \in Seq(Units) /\ n.toProc # <<>> /\ End(n.toProc) = End(t)
    BY <1>1, JoinType, EndJoin
  <1>3. Chain(n.side, n.toProc)
    BY <1>1, ChainJoin DEF SameButToProc
  <1>4. IsLine(n)
    BY <1>1, <1>2 DEF IsLine, SameButToProc
  <1>5. n.toProc[1][2] = 1 /\ Takes(n.side, n.toProc[1][1], Stage(n.proc))
    <2>1. CASE s = <<>>
      <3>1. n.toProc = t
        BY <2>1
      <3>2. QED
        BY <2>1, <3>1 DEF SameButToProc
    <2>2. CASE s # <<>>
      <3>1. 1 \in 1..Len(s)
        BY <1>1, <2>2
      <3>2. n.toProc[1] = s[1]
        BY <1>1, <3>1, JoinType
      <3>3. QED
        BY <2>2, <3>2 DEF SameButToProc, Fed
    <2>3. QED
      BY <2>1, <2>2
  <1>6. QED
    BY <1>2, <1>3, <1>4, <1>5 DEF Fed, SameButToProc

\* The size of a message, its bytes, and the whole, as chains.
LEMMA SizeAndBody ==
    ASSUME NEW m \in Msgs, NEW way
    PROVE  /\ SizeOf(m) \in Seq(Units) /\ SizeOf(m) # <<>> /\ Chain(way, SizeOf(m))
           /\ SizeOf(m)[1] = <<m, 1>> /\ End(SizeOf(m)) = <<m, SizeLen>>
           /\ BodyOf(m) \in Seq(Units) /\ BodyOf(m) # <<>> /\ Chain(way, BodyOf(m))
           /\ BodyOf(m)[1] = <<m, SizeLen + 1>> /\ End(BodyOf(m)) = <<m, Total(m)>>
           /\ Frame(m) \in Seq(Units) /\ Frame(m) # <<>> /\ Chain(way, Frame(m))
           /\ Frame(m)[1] = <<m, 1>> /\ End(Frame(m)) = <<m, Total(m)>>
           /\ \A x \in DOMAIN Frame(m) : Frame(m)[x][1] = m
  <1>1. /\ SizeLen \in Nat /\ 1 <= SizeLen /\ Total(m) \in Nat /\ SizeLen < Total(m)
        /\ SizeLen + 1 \in Nat
    BY TotalType
  <1>2. ASSUME NEW i \in Nat, NEW j \in Nat, 1 <= i, i <= j, j <= Total(m)
        PROVE  /\ Piece(m, i, j) \in Seq(Units) /\ Piece(m, i, j) # <<>> /\ Chain(way, Piece(m, i, j))
               /\ Piece(m, i, j)[1] = <<m, i>> /\ End(Piece(m, i, j)) = <<m, j>>
               /\ \A x \in DOMAIN Piece(m, i, j) : Piece(m, i, j)[x][1] = m
    <2>1. /\ Chain(way, Piece(m, i, j)) /\ Piece(m, i, j) # <<>>
          /\ Piece(m, i, j)[1] = <<m, i>> /\ End(Piece(m, i, j)) = <<m, j>>
      BY <1>2, ChainPiece
    <2>2. Piece(m, i, j) \in Seq(Units)
      <3>1. i <= j + 1
        BY <1>2
      <3>2. QED
        BY <3>1, PieceType
    <2>3. \A x \in DOMAIN Piece(m, i, j) : Piece(m, i, j)[x][1] = m
      BY DEF Piece
    <2>4. QED
      BY <2>1, <2>2, <2>3
  <1>3. QED
    BY <1>1, <1>2 DEF SizeOf, BodyOf, Frame

\* The size of the message a client is to send.
LEMMA SendSize ==
    ASSUME NEW l, NEW m \in Msgs, Sending(l, m, FALSE),
           NEW n, SameButToProc(l, n), n.toProc = l.toProc \o SizeOf(m)
    PROVE  Sending(n, m, TRUE)
  <1> DEFINE t == SizeOf(m)
  <1>1. t \in Seq(Units) /\ t # <<>> /\ Chain(l.side, t) /\ t[1] = <<m, 1>> /\ End(t) = <<m, SizeLen>>
    BY SizeAndBody
  <1> HIDE DEF t
  <1>2. IF l.toProc = <<>> THEN t[1][2] = 1 /\ Takes(l.side, t[1][1], Stage(l.proc))
        ELSE Linked(l.side, End(l.toProc), t[1])
    <2>1. CASE l.toProc = <<>>
      BY <1>1, <2>1 DEF Sending
    <2>2. CASE l.toProc # <<>>
      <3> DEFINE last == End(l.toProc)[1]
      <3>1. /\ End(l.toProc)[2] = Total(last) /\ ~Asks(last)
            /\ Takes(l.side, m, StageAfter(last))
        BY <2>2 DEF Sending
      <3>2. l.side # "back"
        BY LineType DEF Sending, Fed
      <3>3. QED
        BY <1>1, <2>2, <3>1, <3>2 DEF Linked, Behind
    <2>3. QED
      BY <2>1, <2>2
  <1>3. Fed(l) /\ n.toProc = l.toProc \o t
    BY DEF Sending, t
  <1>4. Fed(n) /\ n.toProc # <<>> /\ End(n.toProc) = End(t)
    BY <1>1, <1>2, <1>3, FedJoin
  <1>5. QED
    BY <1>1, <1>4 DEF Sending, Quiet, SameButToProc

\* And its bytes: the message is under way.
LEMMA SendBody ==
    ASSUME NEW l, NEW m \in Msgs, Sending(l, m, TRUE),
           NEW n, SameButToProc(l, n), n.toProc = l.toProc \o BodyOf(m)
    PROVE  Fed(n) /\ Quiet(n) /\ n.toProc # <<>> /\ End(n.toProc) = <<m, Total(m)>>
  <1> DEFINE t == BodyOf(m)
  <1>1. /\ t \in Seq(Units) /\ t # <<>> /\ Chain(l.side, t) /\ t[1] = <<m, SizeLen + 1>>
        /\ End(t) = <<m, Total(m)>>
    BY SizeAndBody
  <1> HIDE DEF t
  <1>2. Fed(l) /\ Quiet(l) /\ l.toProc # <<>> /\ End(l.toProc) = <<m, SizeLen>>
    BY DEF Sending
  <1>3. Linked(l.side, End(l.toProc), t[1])
    BY <1>1, <1>2, TotalType DEF Linked
  <1>4. Fed(n) /\ n.toProc # <<>> /\ End(n.toProc) = End(t)
    BY <1>1, <1>2, <1>3, FedJoin DEF t
  <1>5. QED
    BY <1>1, <1>2, <1>4 DEF Quiet, SameButToProc

-----------------------------------------------------------------------------
(* What a process reads *)

\* With as many units as a whole message has in front there is one.
LEMMA FirstIsWhole ==
    ASSUME NEW way, NEW s \in Seq(Units), Chain(way, s), s # <<>>, s[1][2] = 1
    PROVE  LET m == s[1][1]
           IN /\ m \in Msgs
              /\ Len(s) >= SizeLen => IsSize(Prefix(s, SizeLen))
              /\ Len(s) >= Total(m) => IsBody(SubSeq(s, SizeLen + 1, Total(m)))
  <1> DEFINE m == s[1][1]
  <1>1. m \in Msgs /\ s[1] = <<m, 1>> /\ Len(s) \in Nat \ {0}
    BY FirstLast
  <1>2. SizeLen \in Nat /\ 1 <= SizeLen /\ Total(m) \in Nat /\ SizeLen < Total(m)
    BY <1>1, TotalType
  <1> HIDE DEF m
  <1>3. ASSUME Len(s) >= SizeLen PROVE IsSize(Prefix(s, SizeLen))
    <2>1. SizeLen \in 1..Len(s) /\ s[1][2] + SizeLen - 1 = SizeLen /\ SizeLen <= Total(s[1][1])
      BY <1>1, <1>2, <1>3
    <2>2. Prefix(s, SizeLen) = Piece(s[1][1], s[1][2], s[1][2] + SizeLen - 1)
      BY <2>1, ChainPrefix
    <2>3. Prefix(s, SizeLen) = SizeOf(m)
      BY <1>1, <2>1, <2>2 DEF SizeOf
    <2>4. SizeOf(m) # <<>> /\ SizeOf(m)[1] = <<m, 1>>
      BY <1>1, SizeAndBody
    <2>5. QED
      BY <2>3, <2>4 DEF IsSize
  <1>4. ASSUME Len(s) >= Total(m) PROVE IsBody(SubSeq(s, SizeLen + 1, Total(m)))
    <2> DEFINE b == SubSeq(s, SizeLen + 1, Total(m))
    <2>1. Total(m) \in 1..Len(s) /\ s[1][2] + Total(m) - 1 <= Total(s[1][1])
      BY <1>1, <1>2, <1>4
    <2>2. \A x \in 1..Total(m) : s[x] = <<s[1][1], s[1][2] + x - 1>>
      BY <2>1, ChainStart
    <2>3. \A x \in 1..Total(m) : s[x] = <<m, x>>
      BY <1>1, <2>2
    <2>4. b = [x \in 1..Total(m) - SizeLen |-> s[SizeLen + x]]
      BY <1>1, <1>2, <1>4, SMTT(30)
    <2> HIDE DEF b
    <2>5. ASSUME NEW x \in 1..Total(m) - SizeLen
          PROVE  s[SizeLen + x] = <<m, SizeLen + 1 + x - 1>>
      BY <1>2, <2>3
    <2>6. BodyOf(m) = [x \in 1..Total(m) - SizeLen |-> <<m, SizeLen + 1 + x - 1>>]
      <3>1. Total(m) - (SizeLen + 1) + 1 = Total(m) - SizeLen
        BY <1>2
      <3>2. QED
        BY <3>1 DEF BodyOf, Piece
    <2>7. b = BodyOf(m)
      BY <2>4, <2>5, <2>6, Zenon
    <2>8. BodyOf(m) # <<>> /\ BodyOf(m)[1] = <<m, SizeLen + 1>>
      BY <1>1, SizeAndBody
    <2>9. IsBody(b)
      BY <2>7, <2>8 DEF IsBody
    <2>10. QED
      BY <2>9 DEF b
  <1>5. QED
    BY <1>1, <1>3, <1>4 DEF m

\* Line l becomes n as the process reads the first message.
Reaction(side, p, m) == IF side = "own" THEN ClientReacts(p, m) ELSE ServerReacts(p, m)

Reads(l, n) ==
    LET m == l.toProc[1][1]
        r == Reaction(l.side, l.proc, m)
    IN /\ n.side = l.side /\ n.whole = l.whole /\ n.toGo = l.toGo
       /\ l.out = <<>> /\ l.toProc # <<>> /\ Len(l.toProc) >= Total(m)
       /\ n.toProc = Rest(l.toProc, Total(m))
       /\ n.proc = r[1] /\ n.out = r[2]

\* A process with some of its fields changed.
LEMMA AtAndFields ==
    ASSUME NEW p \in Procs, NEW h \in Names, NEW k \in Names
    PROVE  /\ LET q == [p EXCEPT !.at = "keys", !.hint = h]
              IN q \in Procs /\ q.at = "keys" /\ q.n = p.n
           /\ LET q == [p EXCEPT !.at = "ready", !.keys = k]
              IN q \in Procs /\ q.at = "ready"
           /\ LET q == [p EXCEPT !.at = "ready", !.hint = h, !.keys = k]
              IN q \in Procs /\ q.at = "ready" /\ q.hint = h /\ q.keys = k
  <1>1. LET q == [p EXCEPT !.at = "keys", !.hint = h]
        IN q \in Procs /\ q.at = "keys" /\ q.n = p.n
    BY DEF Procs
  <1>2. LET q == [p EXCEPT !.at = "ready", !.keys = k]
        IN q \in Procs /\ q.at = "ready"
    BY DEF Procs
  <1>3. LET q == [p EXCEPT !.at = "ready", !.hint = h, !.keys = k]
        IN q \in Procs /\ q.at = "ready" /\ q.hint = h /\ q.keys = k
    BY DEF Procs
  <1>4. QED
    BY <1>1, <1>2, <1>3

\* What a client's process does with what makes sense to it.
LEMMA ClientReactsTo ==
    ASSUME NEW p \in Procs, NEW m \in Msgs, Takes("own", m, Stage(p)),
           p.at \in {"dims", "params"} => p.n = 0
    PROVE  LET r == ClientReacts(p, m)
           IN /\ r[1] \in Procs /\ r[1].at # "broken"
              /\ r[1].at \in {"dims", "params"} => r[1].n = 0
              /\ IF Asks(m) THEN r[1].at = "ready"
                 ELSE Stage(r[1]) = StageAfter(m) /\ r[2] = <<>>
              /\ m.kind = "key" /\ m.i = Batch => r[2] = Frame(Msg("queries", None, m.keys, 0))
              /\ m.kind = "answer" => r[2] = Tokens(m)
  <1> DEFINE r == ClientReacts(p, m)
  <1>1. /\ m.keys \in Names /\ m.hint \in Names /\ m.i \in Nat /\ Batch \in Nat \ {0}
        /\ p.at \in {"dims", "params", "keys", "hint", "ready", "unset", "broken"}
        /\ p.hint \in Names /\ p.keys \in Names /\ p.n \in Nat
        /\ p = [at |-> p.at, hint |-> p.hint, keys |-> p.keys, n |-> p.n]
    BY MsgFields, SocketAssumption DEF Procs
  <1>2. CASE m.kind = "newClient"
    <2>1. p.at = "dims" /\ ~Asks(m) /\ StageAfter(m) = <<"params", 0>>
      BY <1>2 DEF Takes, Stage, Asks, StageAfter
    <2>2. r = <<[p EXCEPT !.at = "params"], <<>>>>
      BY <1>2, <2>1 DEF ClientReacts
    <2>3. r[1] = [at |-> "params", hint |-> p.hint, keys |-> p.keys, n |-> p.n] /\ r[2] = <<>>
      BY <1>1, <2>2
    <2>4. QED
      BY <1>1, <1>2, <2>1, <2>3 DEF Procs, Stage
  <1>3. CASE m.kind = "params"
    <2>1. p.at = "params" /\ ~Asks(m) /\ StageAfter(m) = <<"keys", 0>>
      BY <1>3 DEF Takes, Stage, Asks, StageAfter
    <2>2. r = <<[p EXCEPT !.at = "keys", !.hint = m.hint], <<>>>>
      BY <1>3, <2>1 DEF ClientReacts
    <2>3. r[1] = [p EXCEPT !.at = "keys", !.hint = m.hint] /\ r[2] = <<>>
      BY <2>2
    <2>4. r[1] \in Procs /\ r[1].at = "keys" /\ r[1].n = p.n
      <3> DEFINE q == [p EXCEPT !.at = "keys", !.hint = m.hint]
      <3>1. q \in Procs /\ q.at = "keys" /\ q.n = p.n
        BY <1>1, AtAndFields, ZenonT(40)
      <3> HIDE DEF q, r
      <3>2. r[1] = q
        BY <2>3 DEF q
      <3>3. QED
        BY <3>1, <3>2
    <2>5. QED
      BY <1>1, <1>3, <2>1, <2>3, <2>4 DEF Stage
  <1>4. CASE m.kind = "key"
    <2>1. p.at = "keys" /\ p.n = m.i - 1 /\ m.i \in 1..Batch
      BY <1>4 DEF Takes, Stage
    <2>2. r = IF p.n + 1 < Batch THEN <<[p EXCEPT !.n = @ + 1], <<>>>>
              ELSE <<[p EXCEPT !.at = "ready", !.keys = m.keys], Frame(Msg("queries", None, m.keys, 0))>>
      BY <1>4, <2>1 DEF ClientReacts
    <2>3. CASE p.n + 1 < Batch
      <3>1. r[1] = [at |-> p.at, hint |-> p.hint, keys |-> p.keys, n |-> p.n + 1] /\ r[2] = <<>>
        BY <1>1, <2>2, <2>3
      <3>2. ~Asks(m) /\ StageAfter(m) = <<"keys", m.i>> /\ p.n + 1 = m.i /\ m.i # Batch
        BY <1>1, <1>4, <2>1, <2>3 DEF Asks, StageAfter
      <3>3. QED
        BY <1>1, <1>4, <2>1, <3>1, <3>2 DEF Procs, Stage
    <2>4. CASE ~(p.n + 1 < Batch)
      <3>1. /\ r[1] = [p EXCEPT !.at = "ready", !.keys = m.keys]
            /\ r[2] = Frame(Msg("queries", None, m.keys, 0))
        BY <2>2, <2>4
      <3>2. Asks(m) /\ m.i = Batch
        BY <1>1, <1>4, <2>1, <2>4 DEF Asks
      <3>3. r[1] \in Procs /\ r[1].at = "ready"
        <4> DEFINE q == [p EXCEPT !.at = "ready", !.keys = m.keys]
        <4>1. q \in Procs /\ q.at = "ready"
          BY <1>1, AtAndFields, ZenonT(40)
        <4> HIDE DEF q, r
        <4>2. r[1] = q
          BY <3>1 DEF q
        <4>3. QED
          BY <4>1, <4>2
      <3>4. QED
        BY <1>1, <1>4, <3>1, <3>2, <3>3
    <2>5. QED
      BY <2>3, <2>4
  <1>5. CASE m.kind = "answer"
    <2>1. p.at = "ready" /\ Asks(m)
      BY <1>5 DEF Takes, Stage, Asks
    <2>2. r = <<p, Tokens(m)>>
      BY <1>5, <2>1 DEF ClientReacts
    <2>3. QED
      BY <1>5, <2>1, <2>2
  <1>6. QED
    BY <1>2, <1>3, <1>4, <1>5 DEF Takes

\* What the server's does.
LEMMA ServerReactsTo ==
    ASSUME NEW side \in {"hc", "one"}, NEW p \in Procs, NEW m \in Msgs, Takes(side, m, Stage(p)),
           p.at = "ready" => p.hint \in Clients
    PROVE  LET r == ServerReacts(p, m)
           IN /\ r[1] \in Procs /\ r[1].at # "broken"
              /\ r[1].at = "ready" => r[1].hint \in Clients
              /\ ~Asks(m) => Stage(r[1]) = StageAfter(m) /\ r[2] = <<>>
              /\ m.kind = "hint" =>
                   /\ r[1].at = "ready" /\ r[1].hint = m.hint /\ r[1].keys = None
                   /\ r[2] = Frame(Msg("params", m.hint, None, 0))
              /\ m.kind # "hint" => r[1].hint = p.hint
              /\ m.kind = "queries" => p.hint \in Clients /\ r[1].keys = m.keys
              /\ m.kind \notin {"hint", "queries"} => r[1].keys = p.keys
              /\ m.kind = "ask" =>
                   IF p.keys = None THEN r[1].at = "unset" /\ r[2] = <<>> /\ side = "hc"
                   ELSE r[1] = p /\ p.at = "ready" /\ r[2] = Frame(Msg("answer", p.hint, p.keys, 0))
              /\ m.kind \in {"dims", "hint", "reset", "queries", "ask"}
  <1> DEFINE r == ServerReacts(p, m)
  <1>1. /\ m.keys \in Names /\ m.hint \in Names /\ m.i \in Nat /\ None \notin Clients
        /\ p.at \in {"dims", "params", "keys", "hint", "ready", "unset", "broken"}
        /\ p.hint \in Names /\ p.keys \in Names /\ p.n \in Nat /\ None \in Names
        /\ p = [at |-> p.at, hint |-> p.hint, keys |-> p.keys, n |-> p.n]
    BY MsgFields, SocketAssumption DEF Procs, Names
  <1>2. CASE m.kind = "dims"
    <2>1. p.at = "dims" /\ ~Asks(m) /\ StageAfter(m) = <<"hint", 0>>
      BY <1>2 DEF Takes, Stage, Asks, StageAfter
    <2>2. r = <<[p EXCEPT !.at = "hint"], <<>>>>
      BY <1>2, <2>1 DEF ServerReacts
    <2>3. r[1] = [at |-> "hint", hint |-> p.hint, keys |-> p.keys, n |-> p.n] /\ r[2] = <<>>
      BY <1>1, <2>2
    <2>4. QED
      BY <1>1, <1>2, <2>1, <2>3 DEF Procs, Stage
  <1>3. CASE m.kind = "hint"
    <2>1. p.at = "hint" /\ Asks(m) /\ m.hint \in Clients
      BY <1>3 DEF Takes, Stage, Asks
    <2>2. r = <<[p EXCEPT !.at = "ready", !.hint = m.hint, !.keys = None],
                Frame(Msg("params", m.hint, None, 0))>>
      BY <1>3, <2>1 DEF ServerReacts
    <2>3. /\ r[1] = [p EXCEPT !.at = "ready", !.hint = m.hint, !.keys = None]
          /\ r[2] = Frame(Msg("params", m.hint, None, 0))
      BY <2>2
    <2>4. r[1] \in Procs /\ r[1].at = "ready" /\ r[1].hint = m.hint /\ r[1].keys = None
      <3> DEFINE q == [p EXCEPT !.at = "ready", !.hint = m.hint, !.keys = None]
      <3>1. q \in Procs /\ q.at = "ready" /\ q.hint = m.hint /\ q.keys = None
        BY <1>1, AtAndFields, ZenonT(40)
      <3> HIDE DEF q, r
      <3>2. r[1] = q
        BY <2>3 DEF q
      <3>3. QED
        BY <3>1, <3>2
    <2>5. QED
      BY <1>1, <1>3, <2>1, <2>3, <2>4
  <1>4. CASE m.kind = "reset"
    <2>1. p.at = "ready" /\ ~Asks(m) /\ StageAfter(m) = <<"dims", 0>>
      BY <1>4 DEF Takes, Stage, Asks, StageAfter
    <2>2. r = <<[p EXCEPT !.at = "dims"], <<>>>>
      BY <1>4, <2>1 DEF ServerReacts
    <2>3. r[1] = [at |-> "dims", hint |-> p.hint, keys |-> p.keys, n |-> p.n] /\ r[2] = <<>>
      BY <1>1, <2>2
    <2>4. QED
      BY <1>1, <1>4, <2>1, <2>3 DEF Procs, Stage
  <1>5. CASE m.kind = "queries"
    <2>1. p.at = "ready" /\ ~Asks(m) /\ StageAfter(m) = <<"ready", 1>> /\ m.keys \in Clients
      BY <1>5 DEF Takes, Stage, Asks, StageAfter
    <2>2. r = <<[p EXCEPT !.keys = m.keys], <<>>>>
      BY <1>5, <2>1 DEF ServerReacts
    <2>3. r[1] = [at |-> p.at, hint |-> p.hint, keys |-> m.keys, n |-> p.n] /\ r[2] = <<>>
      BY <1>1, <2>2
    <2>4. m.keys # None
      BY <1>1, <2>1
    <2>5. QED
      BY <1>1, <1>5, <2>1, <2>3, <2>4 DEF Procs, Stage
  <1>6. CASE m.kind = "ask"
    <2>1. p.at = "ready" /\ Asks(m) /\ (side = "one" => p.keys # None)
      BY <1>6 DEF Takes, Stage, Asks
    <2>2. CASE p.keys # None
      <3>1. r = <<p, Frame(Msg("answer", p.hint, p.keys, 0))>>
        BY <1>6, <2>1, <2>2 DEF ServerReacts
      <3>2. QED
        BY <1>6, <2>1, <2>2, <3>1
    <2>3. CASE p.keys = None
      <3>1. r = <<[p EXCEPT !.at = "unset"], <<>>>>
        BY <1>6, <2>1, <2>3 DEF ServerReacts
      <3>2. r[1] = [at |-> "unset", hint |-> p.hint, keys |-> p.keys, n |-> p.n] /\ r[2] = <<>>
        BY <1>1, <3>1
      <3>3. QED
        BY <1>1, <1>6, <2>1, <2>3, <3>2 DEF Procs
    <2>4. QED
      BY <2>2, <2>3
  <1>7. QED
    BY <1>2, <1>3, <1>4, <1>5, <1>6 DEF Takes

\* What either does.
LEMMA ReactsTo ==
    ASSUME NEW l, Fed(l), NEW m \in Msgs, Takes(l.side, m, Stage(l.proc))
    PROVE  LET r == Reaction(l.side, l.proc, m)
           IN /\ r[1] \in Procs /\ r[1].at # "broken"
              /\ l.side = "own" /\ r[1].at \in {"dims", "params"} => r[1].n = 0
              /\ l.side # "own" /\ r[1].at = "ready" => r[1].hint \in Clients
              /\ ~Asks(m) => Stage(r[1]) = StageAfter(m) /\ r[2] = <<>>
              /\ r[2] \in Seq(Units)
  <1> DEFINE p == l.proc
             r == Reaction(l.side, p, m)
  <1>1. p \in Procs /\ l.side \in {"own", "hc", "one"}
    BY LineType DEF Fed
  <1>2. /\ <<>> \in Seq(Units) /\ Tokens(m) \in Seq(Units)
        /\ \A o \in Msgs : Frame(o) \in Seq(Units)
    <2>1. ASSUME NEW o \in Msgs PROVE Frame(o) \in Seq(Units) /\ Chain("back", Frame(o))
      BY SizeAndBody
    <2>2. QED
      BY <2>1, TokensChain
  <1>3. CASE l.side = "own"
    <2>1. p.at \in {"dims", "params"} => p.n = 0
      BY <1>3 DEF Fed
    <2>2. r = ClientReacts(p, m)
      BY <1>3 DEF Reaction
    <2>3. /\ r[1] \in Procs /\ r[1].at # "broken"
          /\ r[1].at \in {"dims", "params"} => r[1].n = 0
          /\ ~Asks(m) => Stage(r[1]) = StageAfter(m) /\ r[2] = <<>>
          /\ m.kind = "key" /\ m.i = Batch => r[2] = Frame(Msg("queries", None, m.keys, 0))
          /\ m.kind = "answer" => r[2] = Tokens(m)
      BY <1>1, <1>3, <2>1, <2>2, ClientReactsTo
    <2>4. r[2] \in Seq(Units)
      <3>1. Msg("queries", None, m.keys, 0) \in Msgs
        BY MsgFields, MsgType DEF Kinds, Names
      <3>2. Asks(m) => m.kind = "answer" \/ (m.kind = "key" /\ m.i = Batch)
        BY <1>3 DEF Asks, Takes
      <3>3. QED
        BY <1>2, <2>3, <3>1, <3>2
    <2>5. QED
      BY <1>3, <2>3, <2>4
  <1>4. CASE l.side \in {"hc", "one"}
    <2>1. p.at = "ready" => p.hint \in Clients
      BY <1>4 DEF Fed
    <2>2. r = ServerReacts(p, m)
      BY <1>4 DEF Reaction
    <2>3. /\ r[1] \in Procs /\ r[1].at # "broken"
          /\ r[1].at = "ready" => r[1].hint \in Clients
          /\ ~Asks(m) => Stage(r[1]) = StageAfter(m) /\ r[2] = <<>>
          /\ m.kind = "hint" => r[2] = Frame(Msg("params", m.hint, None, 0))
          /\ m.kind = "ask" =>
               r[2] = <<>> \/ r[2] = Frame(Msg("answer", p.hint, p.keys, 0))
      BY <1>1, <1>4, <2>1, <2>2, ServerReactsTo
    <2>4. r[2] \in Seq(Units)
      <3>1. p.hint \in Names /\ p.keys \in Names
        BY <1>1 DEF Procs
      <3>2. Msg("params", m.hint, None, 0) \in Msgs /\ Msg("answer", p.hint, p.keys, 0) \in Msgs
        BY <3>1, MsgFields, MsgType DEF Kinds, Names
      <3>3. Asks(m) => m.kind = "hint" \/ m.kind = "ask"
        BY <1>4 DEF Asks, Takes
      <3>4. QED
        BY <1>2, <2>3, <3>2, <3>3
    <2>5. QED
      BY <1>4, <2>3, <2>4
  <1>5. QED
    BY <1>1, <1>3, <1>4

\* What is left for the process to read still makes sense to it.
LEMMA FedReads ==
    ASSUME NEW l, Fed(l), NEW n, Reads(l, n)
    PROVE  LET m == l.toProc[1][1]
           IN /\ m \in Msgs /\ Takes(l.side, m, Stage(l.proc)) /\ Fed(n)
              /\ IF n.toProc = <<>> THEN End(l.toProc) = <<m, Total(m)>>
                 ELSE ~Asks(m) /\ End(n.toProc) = End(l.toProc)
              /\ ~Asks(m) => Stage(n.proc) = StageAfter(m) /\ n.out = <<>>
  <1> DEFINE s == l.toProc
             m == s[1][1]
             r == Reaction(l.side, l.proc, m)
  <1>1. /\ n.side = l.side /\ n.whole = l.whole /\ n.toGo = l.toGo
        /\ s # <<>> /\ Len(s) >= Total(m) /\ n.toProc = Rest(s, Total(m))
        /\ n.proc = r[1] /\ n.out = r[2]
    BY DEF Reads
  <1>2. IsLine(l) /\ s \in Seq(Units) /\ Chain(l.side, s) /\ l.side \in {"own", "hc", "one"}
    BY LineType DEF Fed
  <1>3. m \in Msgs /\ s[1] = <<m, 1>> /\ Takes(l.side, m, Stage(l.proc)) /\ Len(s) \in Nat \ {0}
    BY <1>1, <1>2, FirstLast DEF Fed
  <1>4. Total(m) \in Nat \ {0}
    BY <1>3, TotalType
  <1>5. /\ r[1] \in Procs /\ r[1].at # "broken"
        /\ l.side = "own" /\ r[1].at \in {"dims", "params"} => r[1].n = 0
        /\ l.side # "own" /\ r[1].at = "ready" => r[1].hint \in Clients
        /\ ~Asks(m) => Stage(r[1]) = StageAfter(m) /\ r[2] = <<>>
        /\ r[2] \in Seq(Units)
    BY <1>3, ReactsTo
  <1> HIDE DEF m, r
  <1>6. s[Total(m)] = <<m, Total(m)>>
    <2>1. Total(m) \in 1..Len(s) /\ s[1][2] + Total(m) - 1 <= Total(s[1][1])
      BY <1>1, <1>3, <1>4
    <2>2. s[Total(m)] = <<s[1][1], s[1][2] + Total(m) - 1>>
      BY <1>1, <1>2, <2>1, ChainStart
    <2>3. QED
      BY <1>3, <1>4, <2>2
  <1>7. n.toProc \in Seq(Units) /\ Chain(l.side, n.toProc) /\ Len(n.toProc) = Len(s) - Total(m)
    <2>1. Total(m) \in 0..Len(s)
      BY <1>1, <1>3, <1>4
    <2>2. QED
      BY <1>1, <1>2, <2>1, PrefixType, ChainRest
  <1>8. IsLine(n)
    BY <1>1, <1>2, <1>5, <1>7 DEF IsLine
  <1>9. CASE n.toProc = <<>>
    <2>1. Len(s) = Total(m)
      BY <1>3, <1>4, <1>7, <1>9
    <2>2. End(s) = <<m, Total(m)>>
      BY <1>6, <2>1 DEF End
    <2>3. Fed(n)
      BY <1>1, <1>5, <1>7, <1>8, <1>9 DEF Fed
    <2>4. QED
      BY <1>1, <1>3, <1>5, <1>9, <2>2, <2>3 DEF m
  <1>10. CASE n.toProc # <<>>
    <2>1. Total(m) < Len(s) /\ Total(m) \in 1..Len(s) - 1
      <3>1. Len(n.toProc) # 0
        BY <1>7, <1>10
      <3>2. QED
        BY <1>1, <1>3, <1>4, <1>7, <3>1
    <2>2. n.toProc[1] = s[Total(m) + 1] /\ End(n.toProc) = End(s)
      BY <1>1, <1>2, <1>4, <2>1, EndRest
    <2>3. Linked(l.side, s[Total(m)], s[Total(m) + 1])
      BY <1>2, <2>1 DEF Chain
    <2>4. n.toProc[1][2] = 1 /\ Behind(l.side, m, n.toProc[1][1])
      BY <1>4, <1>6, <2>2, <2>3 DEF Linked
    <2>5. ~Asks(m) /\ Takes(l.side, n.toProc[1][1], StageAfter(m))
      BY <1>2, <2>4 DEF Behind
    <2>6. Fed(n)
      BY <1>1, <1>5, <1>7, <1>8, <2>4, <2>5 DEF Fed
    <2>7. QED
      BY <1>1, <1>3, <1>5, <1>10, <2>2, <2>5, <2>6 DEF m
  <1>11. QED
    BY <1>9, <1>10

\* A client that sends a message is not disturbed by the process that reads
\* those before it.
LEMMA SendingReads ==
    ASSUME NEW l, NEW m \in Msgs, NEW begun \in BOOLEAN, Sending(l, m, begun),
           NEW n, Reads(l, n)
    PROVE  Sending(n, m, begun)
  <1> DEFINE o == l.toProc[1][1]
  <1>1. Fed(l) /\ Quiet(l)
    BY DEF Sending
  <1>2. /\ o \in Msgs /\ Fed(n)
        /\ IF n.toProc = <<>> THEN End(l.toProc) = <<o, Total(o)>>
           ELSE ~Asks(o) /\ End(n.toProc) = End(l.toProc)
        /\ ~Asks(o) => Stage(n.proc) = StageAfter(o) /\ n.out = <<>>
    BY <1>1, FedReads
  <1>3. n.side = l.side /\ n.toGo = <<>> /\ l.toProc # <<>>
    BY <1>1 DEF Reads, Quiet
  <1> HIDE DEF o
  <1>4. CASE begun
    <2>1. End(l.toProc) = <<m, SizeLen>>
      BY <1>4 DEF Sending
    <2>2. n.toProc # <<>>
      <3>1. SizeLen \in Nat /\ Total(o) \in Nat /\ Total(o) > SizeLen
        BY <1>2, TotalType
      <3>2. <<o, Total(o)>> # <<m, SizeLen>>
        BY <3>1
      <3>3. QED
        BY <1>2, <2>1, <3>2
    <2>3. QED
      BY <1>2, <1>3, <1>4, <2>1, <2>2 DEF Sending, Quiet
  <1>5. CASE ~begun
    <2> DEFINE last == End(l.toProc)[1]
    <2>1. End(l.toProc)[2] = Total(last) /\ ~Asks(last) /\ Takes(l.side, m, StageAfter(last))
      BY <1>3, <1>5 DEF Sending
    <2>2. CASE n.toProc = <<>>
      <3>1. last = o
        BY <1>2, <2>2
      <3>2. n.out = <<>> /\ Takes(n.side, m, Stage(n.proc))
        BY <1>2, <1>3, <2>1, <3>1
      <3>3. QED
        BY <1>2, <1>3, <1>5, <2>2, <3>2 DEF Sending, Quiet
    <2>3. CASE n.toProc # <<>>
      <3>1. n.out = <<>> /\ End(n.toProc) = End(l.toProc)
        BY <1>2, <2>3
      <3>2. QED
        BY <1>2, <1>3, <1>5, <2>1, <2>3, <3>1 DEF Sending, Quiet
    <2>4. QED
      BY <2>2, <2>3
  <1>6. QED
    BY <1>4, <1>5

\* While a reply is awaited the process reads what is before the message that
\* asks for it, or that message, which is then the last.
LEMMA AwaitedReads ==
    ASSUME NEW l, NEW q \in Msgs, Awaited(l, q), NEW n, Reads(l, n)
    PROVE  \/ Awaited(n, q) /\ n.out = <<>>
           \/ Fed(n) /\ n.toProc = <<>> /\ n.toGo = <<>> /\ l.toProc[1][1] = q
  <1> DEFINE o == l.toProc[1][1]
  <1>1. /\ o \in Msgs /\ Fed(n)
        /\ IF n.toProc = <<>> THEN End(l.toProc) = <<o, Total(o)>>
           ELSE ~Asks(o) /\ End(n.toProc) = End(l.toProc)
        /\ ~Asks(o) => Stage(n.proc) = StageAfter(o) /\ n.out = <<>>
    BY FedReads DEF Awaited
  <1>2. n.toGo = <<>>
    BY DEF Reads, Awaited, Quiet
  <1> HIDE DEF o
  <1>3. CASE n.toProc = <<>>
    BY <1>1, <1>2, <1>3 DEF Awaited, o
  <1>4. CASE n.toProc # <<>>
    BY <1>1, <1>2, <1>4 DEF Awaited, Quiet
  <1>5. QED
    BY <1>3, <1>4

-----------------------------------------------------------------------------
(* Replies *)

\* A reply begins with the first unit of its first message.
LEMMA ReplyBegins ==
    ASSUME NEW n, Fed(n), n.toProc = <<>>, n.toGo = <<>>, n.proc.at = "ready",
           NEW m \in Msgs, NEW f \in Msgs, NEW q, n.out # <<>>, Chain("back", n.out),
           n.out[1] = <<m, 1>>, End(n.out) = <<f, Total(f)>>,
           \A x \in DOMAIN n.out : n.out[x][1].i <= f.i
    PROVE  Receiving(n, q, m, f, <<>>, None)
  <1>1. n.out \in Seq(Units)
    BY LineType DEF Fed
  <1>2. Coming(n) = n.out
    BY <1>1 DEF Coming
  <1>3. ~SizeInPieces(n)
    BY DEF SizeInPieces
  <1>4. Replying(n, m, 1, f)
    BY <1>2 DEF Replying
  <1>5. Read(m, <<>>, None, 1)
    BY DEF Read
  <1>6. 1 \in 1..Total(m)
    BY TotalType
  <1>7. QED
    BY <1>3, <1>4, <1>5, <1>6 DEF Receiving

\* A reply of one message.
LEMMA FrameBegins ==
    ASSUME NEW n, Fed(n), n.toProc = <<>>, n.toGo = <<>>, n.proc.at = "ready",
           NEW m \in Msgs, NEW q, n.out = Frame(m)
    PROVE  Receiving(n, q, m, m, <<>>, None)
  <1>1. /\ Frame(m) \in Seq(Units) /\ Frame(m) # <<>> /\ Chain("back", Frame(m))
        /\ Frame(m)[1] = <<m, 1>> /\ End(Frame(m)) = <<m, Total(m)>>
        /\ \A x \in DOMAIN Frame(m) : Frame(m)[x][1] = m
    BY SizeAndBody
  <1>2. \A x \in DOMAIN Frame(m) : Frame(m)[x][1].i <= m.i
    BY <1>1, MsgFields
  <1>3. QED
    BY <1>1, <1>2, ReplyBegins

\* A process reads only while it has not replied.
LEMMA ReceivingReads ==
    ASSUME NEW l, NEW q \in Msgs, NEW m, NEW f, NEW g, NEW s, Receiving(l, q, m, f, g, s),
           NEW n, Reads(l, n)
    PROVE  /\ Awaited(l, q) /\ s = None /\ g = <<>> /\ m.i <= 1
           /\ \/ Receiving(n, q, m, f, g, s) /\ n.toProc # <<>>
              \/ Fed(n) /\ n.toProc = <<>> /\ n.toGo = <<>> /\ l.toProc[1][1] = q
  <1>1. l.toProc # <<>>
    BY DEF Reads
  <1>2. Awaited(l, q) /\ s = None /\ g = <<>> /\ m.i <= 1
    BY <1>1 DEF Receiving, Replying
  <1>3. ASSUME Awaited(n, q) PROVE Receiving(n, q, m, f, g, s)
    <2>1. ~SizeInPieces(n)
      BY <1>3 DEF Awaited, Quiet, SizeInPieces
    <2>2. QED
      BY <1>2, <1>3, <2>1 DEF Receiving
  <1>4. QED
    BY <1>2, <1>3, AwaitedReads DEF Awaited

\* Line l becomes n as the process writes j units.
Writes(l, n, j) ==
    LET first == l.out[1][2]
        left == (IF first <= SizeLen THEN SizeLen ELSE Total(l.out[1][1])) - first + 1
    IN /\ n.side = l.side /\ n.whole = l.whole /\ n.toProc = l.toProc /\ n.proc = l.proc
       /\ l.out # <<>> /\ j \in IF l.whole /\ first = 1 THEN {SizeLen} ELSE 1..left
       /\ n.toGo = l.toGo \o Prefix(l.out, j) /\ n.out = Rest(l.out, j)

\* A chain that ends with a message has all of the message it begins with.
LEMMA ChainWhole ==
    ASSUME NEW way, NEW s \in Seq(Units), Chain(way, s), s # <<>>,
           NEW f \in Msgs, End(s) = <<f, Total(f)>>
    PROVE  s[1][2] \in 1..Total(s[1][1]) /\ Total(s[1][1]) - s[1][2] + 1 <= Len(s)
  <1> DEFINE m == s[1][1]
             p == s[1][2]
  <1>1. m \in Msgs /\ p \in Nat /\ Len(s) \in Nat \ {0} /\ s[1] = <<m, p>>
    BY FirstLast
  <1>2. p \in 1..Total(m)
    BY <1>1 DEF Chain
  <1>3. Total(m) \in Nat
    BY <1>1, TotalType
  <1>4. ASSUME Len(s) < Total(m) - p + 1 PROVE FALSE
    <2>1. Len(s) \in 1..Len(s) /\ p + Len(s) - 1 <= Total(m) /\ p + Len(s) - 1 < Total(m)
      BY <1>1, <1>3, <1>4
    <2>2. s[Len(s)] = <<m, p + Len(s) - 1>>
      BY <2>1, ChainStart
    <2>3. f = m /\ p + Len(s) - 1 = Total(m)
      BY <2>2 DEF End
    <2>4. QED
      BY <1>1, <1>3, <2>1, <2>3
  <1> HIDE DEF m, p
  <1>5. Total(m) - p + 1 <= Len(s)
    BY <1>1, <1>2, <1>3, <1>4
  <1>6. QED
    BY <1>2, <1>5 DEF m, p

\* What it has yet to write of a reply ends with a message too.
LEMMA OutIsChain ==
    ASSUME NEW l, NEW m, NEW x, NEW f, Replying(l, m, x, f), l.out # <<>>
    PROVE  /\ l.out \in Seq(Units) /\ l.toGo \in Seq(Units)
           /\ Chain("back", l.out) /\ End(l.out) = <<f, Total(f)>>
  <1>1. l.out \in Seq(Units) /\ l.toGo \in Seq(Units)
    BY LineType DEF Replying, Fed
  <1>2. Coming(l) = l.toGo \o l.out
    BY DEF Coming
  <1> DEFINE s == Coming(l)
             n == Len(l.toGo)
  <1>3. /\ s \in Seq(Units) /\ Len(s) = n + Len(l.out) /\ n \in Nat /\ Len(l.out) \in Nat
        /\ \A y \in 1..Len(l.out) : s[n + y] = l.out[y]
    <2>1. /\ l.toGo \o l.out \in Seq(Units)
          /\ Len(l.toGo \o l.out) = Len(l.toGo) + Len(l.out)
          /\ \A y \in 1..Len(l.out) : (l.toGo \o l.out)[Len(l.toGo) + y] = l.out[y]
      BY <1>1, JoinType
    <2>2. Len(l.toGo) \in Nat /\ Len(l.out) \in Nat
      BY <1>1
    <2> HIDE DEF Coming
    <2>3. QED
      BY <1>2, <2>1, <2>2, Zenon
  <1>4. Chain("back", s) /\ End(s) = <<f, Total(f)>>
    BY DEF Replying
  <1> HIDE DEF s, n
  <1>5. n \in 0..Len(s)
    BY <1>3
  <1>6. l.out = Rest(s, n)
    <2>1. /\ Rest(s, n) \in Seq(Units) /\ Len(Rest(s, n)) = Len(l.out)
          /\ \A y \in 1..Len(l.out) : Rest(s, n)[y] = l.out[y]
      <3>1. /\ Rest(s, n) \in Seq(Units) /\ Len(Rest(s, n)) = Len(s) - n
            /\ \A y \in 1..Len(s) - n : Rest(s, n)[y] = s[n + y]
        BY <1>3, <1>5, PrefixType
      <3>2. Len(s) - n = Len(l.out)
        BY <1>3
      <3>3. QED
        BY <1>3, <3>1, <3>2
    <2>2. QED
      BY <1>1, <2>1, SameUnits
  <1>7. Chain("back", l.out)
    BY <1>3, <1>4, <1>5, <1>6, ChainRest
  <1>8. End(l.out) = End(s)
    BY <1>1, <1>2, EndJoin DEF s
  <1>9. QED
    BY <1>1, <1>4, <1>7, <1>8

\* How many units a process writes, and where it is then.
LEMMA WrittenUnits ==
    ASSUME NEW way, NEW s \in Seq(Units), Chain(way, s), s # <<>>,
           NEW f \in Msgs, End(s) = <<f, Total(f)>>, NEW whole \in BOOLEAN,
           whole => s[1][2] \notin 2..SizeLen,
           NEW j, LET first == s[1][2]
                      left == (IF first <= SizeLen THEN SizeLen ELSE Total(s[1][1])) - first + 1
                  IN j \in IF whole /\ first = 1 THEN {SizeLen} ELSE 1..left
    PROVE  /\ j \in 1..Len(s)
           /\ whole => s[j][2] >= SizeLen /\ (j < Len(s) => s[j + 1][2] \notin 2..SizeLen)
  <1> DEFINE m == s[1][1]
             p == s[1][2]
             end == IF p <= SizeLen THEN SizeLen ELSE Total(m)
  <1>1. m \in Msgs /\ p \in Nat /\ Len(s) \in Nat \ {0} /\ s[1] = <<m, p>>
    BY FirstLast
  <1>2. p \in 1..Total(m) /\ Total(m) - p + 1 <= Len(s)
    BY ChainWhole
  <1>3. Total(m) \in Nat /\ SizeLen \in Nat \ {0} /\ SizeLen < Total(m)
    BY <1>1, TotalType
  <1>4. j \in IF whole /\ p = 1 THEN {SizeLen} ELSE 1..end - p + 1
    OBVIOUS
  <1> HIDE DEF m, p
  <1>5. j \in Nat /\ 1 <= j /\ p + j - 1 <= end /\ end <= Total(m) /\ end \in Nat
    BY <1>1, <1>2, <1>3, <1>4
  <1>6. j \in 1..Len(s)
    BY <1>1, <1>2, <1>3, <1>5
  <1>7. \A x \in 1..j : s[x] = <<m, p + x - 1>>
    <2>1. s[1][2] + j - 1 <= Total(s[1][1])
      BY <1>1, <1>2, <1>3, <1>5
    <2>2. \A x \in 1..j : s[x] = <<s[1][1], s[1][2] + x - 1>>
      BY <1>6, <2>1, ChainStart
    <2>3. QED
      BY <1>1, <2>2
  <1>8. s[j] = <<m, p + j - 1>>
    BY <1>5, <1>7
  <1>9. ASSUME whole PROVE p + j - 1 >= SizeLen
    <2>1. p = 1 \/ p > SizeLen
      BY <1>1, <1>2, <1>3, <1>9 DEF p
    <2>2. QED
      BY <1>1, <1>3, <1>4, <1>5, <1>9, <2>1
  <1>10. ASSUME whole, j < Len(s) PROVE s[j + 1][2] \notin 2..SizeLen
    <2>1. j \in 1..Len(s) - 1 /\ j + 1 \in 1..Len(s)
      BY <1>1, <1>5, <1>10
    <2>2. Linked(way, s[j], s[j + 1])
      BY <2>1 DEF Chain
    <2>3. s[j + 1][2] = p + j \/ s[j + 1][2] = 1
      BY <1>1, <1>5, <1>8, <2>2 DEF Linked
    <2>4. QED
      BY <1>1, <1>3, <1>5, <1>9, <1>10, <2>3
  <1>11. QED
    BY <1>6, <1>8, <1>9, <1>10

\* Wherever writes are cut what is coming stays the same.
LEMMA ReceivingWrites ==
    ASSUME NEW l, NEW q, NEW m, NEW f \in Msgs, NEW g, NEW s, Receiving(l, q, m, f, g, s),
           NEW n, NEW j, Writes(l, n, j)
    PROVE  Receiving(n, q, m, f, g, s) /\ n.toProc = <<>> /\ n.proc = l.proc
  <1>1. l.out # <<>>
    BY DEF Writes
  <1>2. PICK x \in 1..Total(m) : Replying(l, m, x, f) /\ Read(m, g, s, x)
    BY <1>1 DEF Receiving, Awaited, Quiet
  <1>3. /\ l.out \in Seq(Units) /\ l.toGo \in Seq(Units)
        /\ Chain("back", l.out) /\ End(l.out) = <<f, Total(f)>>
    BY <1>1, <1>2, OutIsChain
  <1>4. l.whole => ~SizeInPieces(l)
    BY DEF Receiving
  <1>5. l.whole \in BOOLEAN /\ IsLine(l) /\ l.toProc = <<>>
    BY <1>2, LineType DEF Replying, Fed
  <1>6. /\ j \in 1..Len(l.out)
        /\ l.whole => l.out[j][2] >= SizeLen /\ (j < Len(l.out) => l.out[j + 1][2] \notin 2..SizeLen)
    <2>1. l.whole => l.out[1][2] \notin 2..SizeLen
      BY <1>1, <1>4 DEF SizeInPieces
    <2>2. LET first == l.out[1][2]
              left == (IF first <= SizeLen THEN SizeLen ELSE Total(l.out[1][1])) - first + 1
          IN j \in IF l.whole /\ first = 1 THEN {SizeLen} ELSE 1..left
      BY DEF Writes
    <2>3. QED
      BY <1>1, <1>3, <1>5, <2>1, <2>2, WrittenUnits
  <1> DEFINE w == Prefix(l.out, j)
             r == Rest(l.out, j)
  <1>7. /\ w \in Seq(Units) /\ Len(w) = j /\ w[j] = l.out[j] /\ w # <<>>
        /\ r \in Seq(Units) /\ w \o r = l.out /\ Len(r) = Len(l.out) - j
        /\ j < Len(l.out) => r[1] = l.out[j + 1]
    <2>1. j \in 0..Len(l.out) /\ j \in 1..j /\ j \in Nat /\ Len(l.out) \in Nat
      BY <1>3, <1>6
    <2>2. /\ w \in Seq(Units) /\ Len(w) = j /\ w[j] = l.out[j]
          /\ r \in Seq(Units) /\ Len(r) = Len(l.out) - j
      BY <1>3, <2>1, PrefixType
    <2>3. w \o r = l.out
      BY <1>3, <2>1, PrefixRest
    <2>4. j < Len(l.out) => r[1] = l.out[j + 1]
      BY <1>3, <2>1, EndRest
    <2>5. w # <<>>
      BY <1>6, <2>2
    <2>6. QED
      BY <2>2, <2>3, <2>4, <2>5
  <1>8. /\ n.side = l.side /\ n.whole = l.whole /\ n.toProc = l.toProc /\ n.proc = l.proc
        /\ n.toGo = l.toGo \o w /\ n.out = r
    BY DEF Writes
  <1> HIDE DEF w, r
  <1>9. Coming(n) = Coming(l)
    <2>1. (l.toGo \o w) \o r = l.toGo \o (w \o r)
      <3>1. l.toGo \in Seq(Units) /\ w \in Seq(Units) /\ r \in Seq(Units)
        BY <1>3, <1>7
      <3>2. QED
        BY <3>1, JoinJoin
    <2>2. QED
      BY <1>7, <1>8, <2>1 DEF Coming
  <1>10. n.toGo \in Seq(Units) /\ End(n.toGo) = l.out[j] /\ n.toGo # <<>>
    <2>1. n.toGo \in Seq(Units) /\ End(n.toGo) = End(w) /\ n.toGo # <<>>
      BY <1>3, <1>7, <1>8, EndJoin, JoinType
    <2>2. QED
      BY <1>7, <2>1 DEF End
  <1>11. IsLine(n)
    BY <1>5, <1>7, <1>8, <1>10 DEF IsLine
  <1>12. Fed(n)
    BY <1>2, <1>5, <1>8, <1>11 DEF Replying, Fed
  <1>13. Replying(n, m, x, f)
    BY <1>2, <1>8, <1>9, <1>12 DEF Replying
  <1>14. ASSUME n.whole PROVE ~SizeInPieces(n)
    <2>1. l.out[j][2] >= SizeLen /\ (j < Len(l.out) => l.out[j + 1][2] \notin 2..SizeLen)
      BY <1>6, <1>8, <1>14
    <2>2. ~(End(n.toGo)[2] < SizeLen)
      <3>1. l.out[j] \in Units /\ SizeLen \in Nat
        BY <1>3, <1>6, SocketAssumption
      <3>2. l.out[j][2] \in Nat
        BY <3>1 DEF Units
      <3>3. QED
        BY <1>10, <2>1, <3>1, <3>2
    <2>3. n.out # <<>> => j < Len(l.out)
      BY <1>3, <1>6, <1>7, <1>8
    <2>4. QED
      BY <1>7, <1>8, <2>1, <2>2, <2>3 DEF SizeInPieces
  <1>15. QED
    BY <1>2, <1>5, <1>8, <1>13, <1>14 DEF Receiving

-----------------------------------------------------------------------------
(* What a client reads *)

\* The less of two numbers.
LEMMA LeastOf ==
    ASSUME NEW a \in Int, NEW b \in Int
    PROVE  Least({a, b}) = IF a <= b THEN a ELSE b
  <1> DEFINE c == IF a <= b THEN a ELSE b
  <1>1. c \in {a, b} /\ \A k \in {a, b} : c <= k
    OBVIOUS
  <1>2. \A n \in {a, b} : (\A k \in {a, b} : n <= k) => n = c
    OBVIOUS
  <1> HIDE DEF c
  <1>3. (CHOOSE n \in {a, b} : \A k \in {a, b} : n <= k) = c
    BY <1>1, <1>2
  <1>4. QED
    BY <1>3 DEF Least, c

\* Two pieces of a message, one behind the other.
LEMMA PieceJoin ==
    ASSUME NEW m \in Msgs, NEW i \in Nat, NEW j \in Nat, NEW k \in Nat, i <= j + 1, j <= k
    PROVE  Piece(m, i, j) \o Piece(m, j + 1, k) = Piece(m, i, k)
  <1> DEFINE s == Piece(m, i, j)
             t == Piece(m, j + 1, k)
             u == Piece(m, i, k)
  <1>1. s \in Seq(Units) /\ Len(s) = j - i + 1 /\ \A x \in 1..j - i + 1 : s[x] = <<m, i + x - 1>>
    BY PieceType
  <1>2. t \in Seq(Units) /\ Len(t) = k - j /\ \A x \in 1..k - j : t[x] = <<m, j + x>>
    <2>1. j + 1 \in Nat /\ j + 1 <= k + 1 /\ k - (j + 1) + 1 = k - j
      OBVIOUS
    <2>2. t \in Seq(Units) /\ Len(t) = k - j /\ \A x \in 1..k - j : t[x] = <<m, (j + 1) + x - 1>>
      <3> DEFINE h == j + 1
      <3>1. h \in Nat /\ h <= k + 1 /\ k - h + 1 = k - j
        BY <2>1
      <3> HIDE DEF h
      <3>2. /\ Piece(m, h, k) \in Seq(Units) /\ Len(Piece(m, h, k)) = k - h + 1
            /\ \A x \in 1..k - h + 1 : Piece(m, h, k)[x] = <<m, h + x - 1>>
        BY <3>1, PieceType, Zenon
      <3>3. QED
        BY <3>1, <3>2, Zenon DEF h, t
    <2>3. \A x \in 1..k - j : (j + 1) + x - 1 = j + x
      OBVIOUS
    <2> HIDE DEF t
    <2>4. QED
      BY <2>2, <2>3
  <1>3. u \in Seq(Units) /\ Len(u) = k - i + 1 /\ \A x \in 1..k - i + 1 : u[x] = <<m, i + x - 1>>
    <2>1. i <= k + 1
      OBVIOUS
    <2>2. QED
      BY <2>1, PieceType
  <1> HIDE DEF s, t, u
  <1>4. /\ s \o t \in Seq(Units) /\ Len(s \o t) = Len(s) + Len(t)
        /\ \A x \in 1..Len(s) : (s \o t)[x] = s[x]
        /\ \A x \in 1..Len(t) : (s \o t)[Len(s) + x] = t[x]
    BY <1>1, <1>2, JoinType
  <1>5. Len(s \o t) = Len(u)
    BY <1>1, <1>2, <1>3, <1>4
  <1>6. ASSUME NEW x \in 1..Len(s \o t) PROVE (s \o t)[x] = u[x]
    <2>1. x \in 1..k - i + 1
      BY <1>3, <1>5
    <2>2. CASE x \in 1..Len(s)
      BY <1>1, <1>3, <1>4, <2>1, <2>2
    <2>3. CASE x \notin 1..Len(s)
      <3> DEFINE y == x - Len(s)
      <3>1. y \in 1..Len(t) /\ y \in 1..k - j /\ Len(s) + y = x /\ j + y = i + x - 1
        BY <1>1, <1>2, <1>4, <2>3
      <3> HIDE DEF y
      <3>2. (s \o t)[x] = t[y] /\ t[y] = <<m, j + y>>
        BY <1>2, <1>4, <3>1
      <3>3. QED
        BY <1>3, <2>1, <3>1, <3>2
    <2>4. QED
      BY <2>2, <2>3
  <1>7. s \o t = u
    BY <1>3, <1>4, <1>5, <1>6, SameUnits
  <1>8. QED
    BY <1>7 DEF s, t, u

\* Line l becomes n as a client reads j units.
TakesOff(l, n, j) ==
    /\ n.side = l.side /\ n.whole = l.whole /\ n.toProc = l.toProc /\ n.proc = l.proc /\ n.out = l.out
    /\ j \in 1..Len(l.toGo) /\ n.toGo = Rest(l.toGo, j)

\* A read takes from what is coming, and leaves no size in pieces that was whole.
LEMMA TakesOffComing ==
    ASSUME NEW l, IsLine(l), NEW n, NEW j, TakesOff(l, n, j)
    PROVE  /\ IsLine(n) /\ Coming(l) \in Seq(Units) /\ j \in 1..Len(Coming(l))
           /\ Coming(n) = Rest(Coming(l), j) /\ Prefix(l.toGo, j) = Prefix(Coming(l), j)
           /\ SizeInPieces(n) => SizeInPieces(l)
           /\ Coming(n) = <<>> => n.toGo = <<>> /\ n.out = <<>>
  <1> DEFINE a == l.toGo
             b == l.out
             s == Coming(l)
  <1>1. a \in Seq(Units) /\ b \in Seq(Units) /\ s = a \o b
    BY LineType DEF Coming
  <1>2. /\ n.side = l.side /\ n.whole = l.whole /\ n.toProc = l.toProc /\ n.proc = l.proc
        /\ n.out = b /\ j \in 1..Len(a) /\ n.toGo = Rest(a, j)
    BY DEF TakesOff
  <1> HIDE DEF a, b, s
  <1>3. Len(a) \in Nat /\ Len(b) \in Nat /\ j \in Nat /\ j \in 0..Len(a)
    BY <1>1, <1>2
  <1>4. /\ s \in Seq(Units) /\ Len(s) = Len(a) + Len(b)
        /\ \A x \in 1..Len(a) : s[x] = a[x]
        /\ \A x \in 1..Len(b) : s[Len(a) + x] = b[x]
    BY <1>1, JoinType
  <1>5. j \in 1..Len(s) /\ j \in 0..Len(s)
    BY <1>2, <1>3, <1>4
  <1>6. /\ Rest(a, j) \in Seq(Units) /\ Len(Rest(a, j)) = Len(a) - j
        /\ \A x \in 1..Len(a) - j : Rest(a, j)[x] = a[j + x]
        /\ Prefix(a, j) \in Seq(Units) /\ Len(Prefix(a, j)) = j
        /\ \A x \in 1..j : Prefix(a, j)[x] = a[x]
    BY <1>1, <1>3, PrefixType
  <1>7. /\ Rest(s, j) \in Seq(Units) /\ Len(Rest(s, j)) = Len(s) - j
        /\ \A x \in 1..Len(s) - j : Rest(s, j)[x] = s[j + x]
        /\ Prefix(s, j) \in Seq(Units) /\ Len(Prefix(s, j)) = j
        /\ \A x \in 1..j : Prefix(s, j)[x] = s[x]
    BY <1>4, <1>5, PrefixType
  <1>8. Prefix(a, j) = Prefix(s, j)
    <2>1. \A x \in 1..j : x \in 1..Len(a)
      BY <1>2, <1>3
    <2>2. Len(Prefix(a, j)) = Len(Prefix(s, j)) /\ \A x \in 1..Len(Prefix(a, j)) : Prefix(a, j)[x] = Prefix(s, j)[x]
      BY <1>4, <1>6, <1>7, <2>1
    <2>3. QED
      BY <1>6, <1>7, <2>2, SameUnits
  <1>9. Rest(a, j) \o b = Rest(s, j)
    <2> DEFINE r == Rest(a, j)
               u == r \o b
               v == Rest(s, j)
    <2>1. r \in Seq(Units) /\ Len(r) = Len(a) - j /\ \A x \in 1..Len(a) - j : r[x] = a[j + x]
      BY <1>6
    <2>2. v \in Seq(Units) /\ Len(v) = Len(s) - j /\ \A x \in 1..Len(s) - j : v[x] = s[j + x]
      BY <1>7
    <2> HIDE DEF r, v
    <2>3. /\ u \in Seq(Units) /\ Len(u) = Len(r) + Len(b)
          /\ \A x \in 1..Len(r) : u[x] = r[x]
          /\ \A x \in 1..Len(b) : u[Len(r) + x] = b[x]
      BY <1>1, <2>1, JoinType
    <2> HIDE DEF u
    <2>4. Len(u) = Len(v)
      BY <1>3, <1>4, <2>1, <2>2, <2>3
    <2>5. ASSUME NEW x \in 1..Len(u) PROVE u[x] = v[x]
      <3>1. x \in Nat /\ x \in 1..Len(s) - j
        BY <2>2, <2>4
      <3>2. CASE x <= Len(a) - j
        <4>1. x \in 1..Len(r) /\ x \in 1..Len(a) - j /\ j + x \in 1..Len(a)
          BY <1>3, <2>1, <3>1, <3>2
        <4>2. QED
          BY <1>4, <2>1, <2>2, <2>3, <3>1, <4>1
      <3>3. CASE x > Len(a) - j
        <4> DEFINE y == x - (Len(a) - j)
        <4>1. y \in 1..Len(b) /\ Len(r) + y = x /\ Len(a) + y = j + x
          BY <1>3, <1>4, <2>1, <3>1, <3>3
        <4> HIDE DEF y
        <4>2. u[x] = b[y] /\ v[x] = s[j + x] /\ s[j + x] = b[y]
          BY <1>4, <2>2, <2>3, <3>1, <4>1
        <4>3. QED
          BY <4>2
      <3>4. QED
        BY <1>3, <3>1, <3>2, <3>3
    <2>6. u = v
      <3>1. \A x \in 1..Len(u) : u[x] = v[x]
        BY <2>5
      <3>2. QED
        BY <2>2, <2>3, <2>4, <3>1, SameUnits
    <2>7. QED
      BY <2>6 DEF u, v, r
  <1>10. Coming(n) = Rest(s, j)
    BY <1>2, <1>9 DEF Coming
  <1>11. SizeInPieces(n) => SizeInPieces(l)
    <2>1. ASSUME n.toGo # <<>> PROVE a # <<>> /\ End(n.toGo) = End(a)
      <3>1. j < Len(a)
        BY <1>2, <1>3, <1>6, <2>1
      <3>2. QED
        BY <1>1, <1>2, <1>3, <3>1, EndRest
    <2>2. n.out = l.out
      BY <1>2 DEF b
    <2>3. QED
      BY <2>1, <2>2 DEF SizeInPieces, a
  <1>12. Coming(n) = <<>> => n.toGo = <<>> /\ n.out = <<>>
    <2>1. Coming(n) = n.toGo \o n.out /\ n.toGo \in Seq(Units) /\ n.out \in Seq(Units)
      BY <1>1, <1>2, <1>6 DEF Coming
    <2> DEFINE c == n.toGo
               d == n.out
    <2>2. c \in Seq(Units) /\ d \in Seq(Units)
      BY <2>1
    <2> HIDE DEF c, d
    <2>3. c \o d = <<>> => c = <<>> /\ d = <<>>
      BY <2>2
    <2>4. QED
      BY <2>1, <2>3 DEF c, d
  <1>13. IsLine(n)
    BY <1>1, <1>2, <1>6 DEF IsLine, b
  <1>14. QED
    BY <1>4, <1>5, <1>8, <1>10, <1>11, <1>12, <1>13 DEF s, a

\* What is coming is a unit of a message.
LEMMA ReplyType ==
    ASSUME NEW l, NEW m, NEW x, NEW f, Replying(l, m, x, f)
    PROVE  m \in Msgs /\ x \in Nat /\ x \in 1..Total(m)
  <1> DEFINE s == Coming(l)
  <1>1. s # <<>> /\ s[1] = <<m, x>> /\ Chain("back", s)
    BY DEF Replying
  <1>2. s \in Seq(Units)
    BY LineType, JoinType DEF Replying, Fed, Coming
  <1> HIDE DEF s
  <1>3. s[1][1] = m /\ s[1][2] = x /\ s[1][1] \in Msgs /\ s[1][2] \in Nat
    BY <1>1, <1>2, FirstLast
  <1>4. s[1][2] \in 1..Total(s[1][1])
    BY <1>1, <1>2 DEF Chain
  <1>5. QED
    BY <1>3, <1>4

\* A client that reads no more than is left of a message gets the next piece of it.
LEMMA TakesPiece ==
    ASSUME NEW l, NEW m, NEW f, NEW x, Replying(l, m, x, f), NEW n, NEW j, TakesOff(l, n, j),
           x + j - 1 <= Total(m)
    PROVE  l.toGo[1] = <<m, x>> /\ Prefix(l.toGo, j) = Piece(m, x, x + j - 1)
  <1> DEFINE s == Coming(l)
  <1>1. Fed(l) /\ s # <<>> /\ s[1] = <<m, x>> /\ Chain("back", s)
    BY DEF Replying
  <1>2. IsLine(l) /\ l.toGo \in Seq(Units) /\ j \in 1..Len(l.toGo)
    BY <1>1, LineType DEF Fed, TakesOff
  <1>3. s \in Seq(Units) /\ j \in 1..Len(s) /\ Prefix(l.toGo, j) = Prefix(s, j)
    BY <1>2, TakesOffComing
  <1>4. l.toGo[1] = s[1]
    <2>1. l.out \in Seq(Units) /\ 1 \in 1..Len(l.toGo)
      BY <1>2, LineType
    <2>2. QED
      BY <1>2, <2>1, JoinType DEF Coming
  <1> HIDE DEF s
  <1>5. x \in Nat /\ j \in Nat
    BY <1>3, ReplyType
  <1>6. s[1][2] + j - 1 <= Total(s[1][1])
    BY <1>1, <1>5
  <1>7. Prefix(s, j) = Piece(m, x, x + j - 1)
    BY <1>1, <1>3, <1>6, ChainPrefix
  <1>8. QED
    BY <1>1, <1>3, <1>4, <1>7

\* The rest of the message is coming then; after its last unit the next message of
\* the reply, or nothing.
LEMMA TakesUnits ==
    ASSUME NEW l, NEW m, NEW f \in Msgs, NEW x, Replying(l, m, x, f), NEW n, NEW j, TakesOff(l, n, j),
           x + j - 1 <= Total(m)
    PROVE  /\ m \in Msgs /\ x \in 1..Total(m) /\ j \in Nat \ {0}
           /\ x + j <= Total(m) => Replying(n, m, x + j, f)
           /\ x + j - 1 = Total(m) =>
                IF m.i < f.i THEN Replying(n, Msg(m.kind, m.hint, m.keys, m.i + 1), 1, f)
                ELSE m.i = f.i /\ Quiet(n)
           /\ Fed(n) /\ n.toProc = <<>> /\ n.proc = l.proc /\ n.proc.at = "ready"
  <1> DEFINE s == Coming(l)
  <1>1. /\ Fed(l) /\ l.toProc = <<>> /\ l.proc.at = "ready"
        /\ s # <<>> /\ s[1] = <<m, x>> /\ Chain("back", s) /\ End(s) = <<f, Total(f)>>
        /\ \A y \in DOMAIN s : s[y][1].i <= f.i
    BY DEF Replying
  <1>2. IsLine(l) /\ l.toGo \in Seq(Units) /\ j \in 1..Len(l.toGo)
    BY <1>1, LineType DEF Fed, TakesOff
  <1>3. /\ IsLine(n) /\ s \in Seq(Units) /\ j \in 1..Len(s)
        /\ Coming(n) = Rest(s, j)
        /\ Coming(n) = <<>> => n.toGo = <<>> /\ n.out = <<>>
    BY <1>2, TakesOffComing
  <1> HIDE DEF s
  <1>5. m \in Msgs /\ x \in Nat /\ x \in 1..Total(m) /\ j \in Nat \ {0} /\ Len(s) \in Nat
    BY <1>3, ReplyType
  <1>6. Total(m) \in Nat
    BY <1>5, TotalType
  <1>7. /\ n.side = l.side /\ n.toProc = <<>> /\ n.proc = l.proc
    BY <1>1 DEF TakesOff
  <1>8. Fed(n)
    BY <1>1, <1>3, <1>7 DEF Fed
  <1>9. s[1][2] + j - 1 <= Total(s[1][1])
    BY <1>1, <1>5
  <1>11. s[j] = <<m, x + j - 1>>
    <2>1. \A y \in 1..j : s[y] = <<s[1][1], s[1][2] + y - 1>>
      BY <1>1, <1>3, <1>9, ChainStart
    <2>2. QED
      BY <1>1, <1>5, <2>1
  <1>12. j \in 0..Len(s) /\ Chain("back", Rest(s, j))
    BY <1>1, <1>3, ChainRest
  <1>13. ASSUME j < Len(s)
         PROVE  /\ Linked("back", s[j], s[j + 1]) /\ j + 1 \in DOMAIN s /\ s[j + 1][1].i <= f.i
                /\ \A o, y : s[j + 1] = <<o, y>> => Replying(n, o, y, f)
    <2>1. j \in 1..Len(s) - 1 /\ j + 1 \in DOMAIN s
      BY <1>3, <1>5, <1>13
    <2>2. Linked("back", s[j], s[j + 1]) /\ s[j + 1][1].i <= f.i
      BY <1>1, <2>1 DEF Chain
    <2>3. Rest(s, j) # <<>> /\ End(Rest(s, j)) = End(s) /\ Rest(s, j)[1] = s[j + 1]
      BY <1>3, <1>5, <1>13, EndRest
    <2>4. \A y \in DOMAIN Rest(s, j) : Rest(s, j)[y][1].i <= f.i
      <3>1. /\ Rest(s, j) \in Seq(Units) /\ Len(Rest(s, j)) = Len(s) - j
            /\ \A y \in 1..Len(s) - j : Rest(s, j)[y] = s[j + y]
        BY <1>3, <1>12, PrefixType
      <3>2. ASSUME NEW y \in 1..Len(s) - j PROVE Rest(s, j)[y][1].i <= f.i
        <4>1. j + y \in DOMAIN s
          BY <1>3, <1>5
        <4>2. QED
          BY <1>1, <3>1, <4>1
      <3>3. QED
        BY <3>1, <3>2
    <2>5. ASSUME NEW o, NEW y, s[j + 1] = <<o, y>> PROVE Replying(n, o, y, f)
      <3>1. Coming(n) # <<>> /\ Coming(n)[1] = <<o, y>> /\ Chain("back", Coming(n))
            /\ End(Coming(n)) = <<f, Total(f)>> /\ \A z \in DOMAIN Coming(n) : Coming(n)[z][1].i <= f.i
        BY <1>1, <1>3, <1>12, <2>3, <2>4, <2>5
      <3>2. QED
        BY <1>1, <1>7, <1>8, <3>1 DEF Replying
    <2>6. QED
      BY <2>1, <2>2, <2>5
  <1>14. ASSUME x + j <= Total(m) PROVE Replying(n, m, x + j, f)
    <2>1. j < Len(s)
      <3>1. Total(m) - x + 1 <= Len(s)
        BY <1>1, <1>3, ChainWhole
      <3>2. QED
        BY <1>5, <1>6, <1>14, <3>1
    <2>2. Linked("back", s[j], s[j + 1]) /\ s[j + 1] \in Units
      BY <1>3, <1>13, <2>1
    <2>3. s[j + 1] = <<m, x + j>>
      BY <1>5, <1>6, <1>11, <1>14, <2>2 DEF Linked, Units
    <2>4. QED
      BY <1>13, <2>1, <2>3
  <1>15. ASSUME x + j - 1 = Total(m)
         PROVE  IF m.i < f.i THEN Replying(n, Msg(m.kind, m.hint, m.keys, m.i + 1), 1, f)
                ELSE m.i = f.i /\ Quiet(n)
    <2>1. m.i \in Nat /\ f.i \in Nat
      BY <1>5, MsgFields
    <2>2. CASE j = Len(s)
      <3>1. m = f
        BY <1>1, <1>11, <2>2 DEF End
      <3>2. Coming(n) = <<>>
        <4>1. Rest(s, j) \in Seq(Units) /\ Len(Rest(s, j)) = Len(s) - j
          BY <1>3, <1>12, PrefixType
        <4>2. Len(s) - j = 0
          BY <1>5, <2>2
        <4>3. QED
          BY <1>3, <4>1, <4>2
      <3>3. QED
        BY <1>3, <2>1, <3>1, <3>2 DEF Quiet
    <2>3. CASE j < Len(s)
      <3>1. Linked("back", s[j], s[j + 1]) /\ s[j + 1] \in Units /\ s[j + 1][1].i <= f.i
        BY <1>3, <1>13, <2>3
      <3>2. s[j] = <<m, Total(m)>>
        BY <1>11, <1>15
      <3>3. s[j + 1][2] = 1 /\ s[j + 1][1] = Msg(m.kind, m.hint, m.keys, m.i + 1)
        BY <1>6, <3>1, <3>2 DEF Linked, Behind
      <3>4. s[j + 1] = <<Msg(m.kind, m.hint, m.keys, m.i + 1), 1>>
        BY <3>1, <3>3 DEF Units
      <3>5. m.i + 1 <= f.i
        BY <3>1, <3>3 DEF Msg
      <3>6. QED
        BY <1>13, <2>1, <2>3, <3>4, <3>5
    <2>4. QED
      BY <1>3, <1>5, <2>2, <2>3
  <1>16. QED
    BY <1>1, <1>5, <1>7, <1>8, <1>14, <1>15

\* Where a size comes whole it is there with its first unit.
LEMMA SizeIsThere ==
    ASSUME NEW l, NEW m, NEW f, Replying(l, m, 1, f), ~SizeInPieces(l), l.toGo # <<>>
    PROVE  SizeLen <= Len(l.toGo)
  <1> DEFINE a == l.toGo
             s == Coming(l)
  <1>1. IsLine(l) /\ a \in Seq(Units) /\ l.out \in Seq(Units) /\ s = a \o l.out
    BY LineType DEF Replying, Fed, Coming
  <1>2. s[1] = <<m, 1>> /\ Chain("back", s) /\ s # <<>>
    BY DEF Replying
  <1>3. /\ s \in Seq(Units) /\ Len(a) \in Nat \ {0}
        /\ \A y \in 1..Len(a) : s[y] = a[y] /\ y \in 1..Len(s)
    <2> DEFINE b == l.out
    <2> HIDE DEF a, b, s
    <2>1. s \in Seq(Units) /\ Len(s) = Len(a) + Len(b) /\ \A y \in 1..Len(a) : s[y] = a[y]
      <3>1. a \in Seq(Units) /\ b \in Seq(Units) /\ s = a \o b
        BY <1>1 DEF a, b, s
      <3>2. QED
        BY <3>1, JoinType
    <2>2. Len(a) \in Nat \ {0} /\ Len(b) \in Nat
      BY <1>1 DEF a, b
    <2>3. \A y \in 1..Len(a) : y \in 1..Len(s)
      BY <2>1, <2>2
    <2>4. QED
      BY <2>1, <2>2, <2>3
  <1>4. End(a)[2] >= SizeLen
    <2>1. End(a) \in Units /\ SizeLen \in Nat
      BY <1>1, FirstLast, SocketAssumption
    <2>2. ~(End(a)[2] < SizeLen)
      BY DEF SizeInPieces
    <2>3. QED
      BY <2>1, <2>2 DEF Units
  <1>5. m \in Msgs /\ SizeLen \in Nat /\ SizeLen < Total(m) /\ Total(m) \in Nat
    BY <1>2, <1>3, FirstLast, TotalType
  <1> HIDE DEF a, s
  <1>6. ASSUME Len(a) < SizeLen PROVE FALSE
    <2>1. Len(a) \in 1..Len(s) /\ s[1][2] + Len(a) - 1 <= Total(s[1][1])
      BY <1>2, <1>3, <1>5, <1>6
    <2>2. \A y \in 1..Len(a) : s[y] = <<s[1][1], s[1][2] + y - 1>>
      BY <1>2, <1>3, <2>1, ChainStart
    <2>3. Len(a) \in 1..Len(a)
      BY <1>3
    <2>4. s[Len(a)] = <<m, Len(a)>>
      <3>1. s[1][1] = m /\ s[1][2] = 1
        BY <1>2
      <3>2. s[Len(a)] = <<s[1][1], s[1][2] + Len(a) - 1>>
        BY <2>2, <2>3
      <3>3. 1 + Len(a) - 1 = Len(a)
        BY <2>3
      <3>4. QED
        BY <3>1, <3>2, <3>3
    <2>5. End(a) = <<m, Len(a)>>
      BY <1>3, <2>3, <2>4 DEF End
    <2>6. QED
      BY <1>3, <1>4, <1>5, <1>6, <2>5
  <1>7. QED
    BY <1>3, <1>5, <1>6 DEF a

\* The read of a size.
LEMMA ReadsSize ==
    ASSUME NEW l, NEW q, NEW m, NEW f \in Msgs, NEW g, Receiving(l, q, m, f, g, None), l.toGo # <<>>,
           NEW n, TakesOff(l, n, Least({SizeLen, Len(l.toGo)}))
    PROVE  LET j == Least({SizeLen, Len(l.toGo)})
           IN IF j < SizeLen THEN ~l.whole
              ELSE /\ j = SizeLen /\ IsSize(Prefix(l.toGo, j)) /\ l.toGo[1][1] = m
                   /\ Receiving(n, q, m, f, g, Length[m.kind])
  <1> DEFINE j == Least({SizeLen, Len(l.toGo)})
  <1>1. PICK x \in 1..Total(m) : Replying(l, m, x, f) /\ Read(m, g, None, x)
    BY DEF Receiving, Awaited, Quiet
  <1>2. IsLine(l) /\ l.toGo \in Seq(Units) /\ Len(l.toGo) \in Nat \ {0}
    <2>1. IsLine(l) /\ l.toGo \in Seq(Units)
      BY <1>1, LineType DEF Replying, Fed
    <2>2. QED
      BY <2>1
  <1>3. m \in Msgs /\ 1 \in 1..Total(m)
    BY <1>1, ReplyType, TotalType
  <1>4. /\ SizeLen \in Nat \ {0} /\ SizeLen < Total(m) /\ Total(m) \in Nat
        /\ Length[m.kind] \in Nat \ {0} /\ None \notin Nat /\ Total(m) = SizeLen + Length[m.kind]
    BY <1>3, TotalType, SocketAssumption
  <1>5. g = <<>> /\ x = 1
    BY <1>1, <1>4 DEF Read
  <1>6. /\ j = IF SizeLen <= Len(l.toGo) THEN SizeLen ELSE Len(l.toGo)
        /\ TakesOff(l, n, j)
    BY <1>2, <1>4, LeastOf
  <1> HIDE DEF j
  <1>7. ASSUME j < SizeLen PROVE ~l.whole
    <2>1. Len(l.toGo) < SizeLen
      BY <1>2, <1>4, <1>6, <1>7
    <2>2. SizeInPieces(l)
      BY <1>1, <1>2, <1>4, <1>5, <2>1, SizeIsThere
    <2>3. QED
      BY <2>2 DEF Receiving
  <1>8. ASSUME ~(j < SizeLen)
        PROVE  /\ j = SizeLen /\ IsSize(Prefix(l.toGo, j)) /\ l.toGo[1][1] = m
               /\ Receiving(n, q, m, f, g, Length[m.kind])
    <2>1. j = SizeLen /\ 1 + j - 1 <= Total(m) /\ 1 + j <= Total(m) /\ 1 + j - 1 = SizeLen
      BY <1>2, <1>4, <1>6, <1>8
    <2>2. /\ l.toGo[1] = <<m, 1>> /\ Prefix(l.toGo, j) = Piece(m, 1, 1 + j - 1)
          /\ Replying(n, m, 1 + j, f)
      <3>1. Replying(l, m, 1, f) /\ TakesOff(l, n, j) /\ 1 + j - 1 <= Total(m) /\ j \in Nat /\ 1 \in Nat
        BY <1>1, <1>4, <1>5, <1>6, <2>1
      <3>2. l.toGo[1] = <<m, 1>> /\ Prefix(l.toGo, j) = Piece(m, 1, 1 + j - 1)
        BY <3>1, TakesPiece
      <3>3. 1 + j <= Total(m) => Replying(n, m, 1 + j, f)
        BY <3>1, TakesUnits
      <3>4. QED
        BY <2>1, <3>2, <3>3
    <2>3. Prefix(l.toGo, j) = SizeOf(m)
      BY <2>1, <2>2 DEF SizeOf
    <2>4. SizeOf(m) # <<>> /\ SizeOf(m)[1] = <<m, 1>>
      BY <1>3, SizeAndBody
    <2>5. IsSize(Prefix(l.toGo, j))
      BY <2>3, <2>4 DEF IsSize
    <2>6. n.whole = l.whole /\ (SizeInPieces(n) => SizeInPieces(l))
      BY <1>2, <1>6, TakesOffComing DEF TakesOff
    <2>7. <<>> = Piece(m, SizeLen + 1, SizeLen + Len(<<>>))
      <3>1. SizeLen + 1 \in Nat /\ SizeLen + 0 \in Nat /\ SizeLen + 1 <= (SizeLen + 0) + 1
            /\ (SizeLen + 0) - (SizeLen + 1) + 1 = 0
        BY <1>4
      <3>2. Piece(m, SizeLen + 1, SizeLen + 0) \in Seq(Units) /\ Len(Piece(m, SizeLen + 1, SizeLen + 0)) = 0
        BY <1>3, <3>1, PieceType
      <3>3. QED
        BY <3>2
    <2>8. Read(m, g, Length[m.kind], 1 + j)
      BY <1>4, <1>5, <2>1, <2>7 DEF Read
    <2>9. 1 + j \in 1..Total(m)
      BY <1>4, <2>1
    <2>10. Receiving(n, q, m, f, g, Length[m.kind])
      <3>1. n.whole => ~SizeInPieces(n)
        BY <2>6 DEF Receiving
      <3>2. QED
        BY <2>2, <2>8, <2>9, <3>1 DEF Receiving
    <2>11. QED
      BY <2>1, <2>2, <2>5, <2>10
  <1>9. QED
    BY <1>7, <1>8 DEF j

\* A read of the bytes.  With the last the client has the message, and the next
\* of the reply is coming; after the last message nothing is.
LEMMA ReadsBody ==
    ASSUME NEW l, NEW q, NEW m, NEW f \in Msgs, NEW g \in Seq(Units), NEW s \in Nat,
           Receiving(l, q, m, f, g, s),
           NEW j \in Nat, j <= s - Len(g), NEW n, TakesOff(l, n, j)
    PROVE  LET u == g \o Prefix(l.toGo, j)
               next == Msg(m.kind, m.hint, m.keys, m.i + 1)
           IN /\ u \in Seq(Units) /\ Fed(n) /\ n.toProc = <<>> /\ n.proc = l.proc
              /\ n.proc.at = "ready"
              /\ IF ~(Len(u) >= s) THEN Receiving(n, q, m, f, u, s)
                 ELSE /\ IsBody(u) /\ u[1][1] = m
                      /\ IF m.i < f.i THEN \A o : Receiving(n, o, next, f, <<>>, None)
                         ELSE m.i = f.i /\ Quiet(n)
  <1> DEFINE t == Prefix(l.toGo, j)
             u == g \o t
             next == Msg(m.kind, m.hint, m.keys, m.i + 1)
  <1>1. None \notin Nat
    BY SocketAssumption
  <1>2. PICK x \in 1..Total(m) : Replying(l, m, x, f) /\ Read(m, g, s, x)
    BY <1>1 DEF Receiving
  <1>3. m \in Msgs /\ IsLine(l)
    BY <1>2, ReplyType DEF Replying, Fed
  <1>4. /\ SizeLen \in Nat \ {0} /\ SizeLen < Total(m) /\ Total(m) \in Nat
        /\ Length[m.kind] \in Nat \ {0} /\ Total(m) = SizeLen + Length[m.kind]
    BY <1>3, TotalType
  <1>5. /\ s = Length[m.kind] /\ Len(g) < s /\ g = Piece(m, SizeLen + 1, SizeLen + Len(g))
        /\ x = SizeLen + Len(g) + 1
    BY <1>1, <1>2 DEF Read
  <1>6. Len(g) \in Nat
    OBVIOUS
  <1>7. x + j - 1 = SizeLen + Len(g) + j /\ x + j - 1 <= Total(m) /\ j \in Nat
    BY <1>4, <1>5, <1>6
  <1>8. /\ j \in Nat \ {0} /\ t = Piece(m, x, x + j - 1)
        /\ x + j <= Total(m) => Replying(n, m, x + j, f)
        /\ x + j - 1 = Total(m) =>
             IF m.i < f.i THEN Replying(n, next, 1, f) ELSE m.i = f.i /\ Quiet(n)
        /\ Fed(n) /\ n.toProc = <<>> /\ n.proc = l.proc /\ n.proc.at = "ready"
    <2>1. Replying(l, m, x, f) /\ TakesOff(l, n, j) /\ x + j - 1 <= Total(m) /\ x \in Nat /\ j \in Nat
      BY <1>2, <1>7, ReplyType
    <2> HIDE DEF t, next
    <2>2. j \in Nat \ {0} /\ Fed(n)
      BY <2>1, TakesUnits
    <2>6. n.toProc = <<>> /\ n.proc = l.proc /\ n.proc.at = "ready"
      BY <2>1 DEF Replying, TakesOff
    <2>7. Prefix(l.toGo, j) = Piece(m, x, x + j - 1)
      BY <2>1, TakesPiece
    <2>3. x + j <= Total(m) => Replying(n, m, x + j, f)
      BY <2>1, TakesUnits
    <2>4. x + j - 1 = Total(m) =>
             IF m.i < f.i THEN Replying(n, Msg(m.kind, m.hint, m.keys, m.i + 1), 1, f)
             ELSE m.i = f.i /\ Quiet(n)
      BY <2>1, TakesUnits
    <2>5. QED
      BY <2>2, <2>3, <2>4, <2>6, <2>7 DEF t, next
  <1>9. n.whole => ~SizeInPieces(n)
    BY <1>3, TakesOffComing DEF Receiving, TakesOff
  <1> HIDE DEF t, next
  <1>10. u = Piece(m, SizeLen + 1, SizeLen + (Len(g) + j)) /\ u \in Seq(Units) /\ Len(u) = Len(g) + j
    <2> DEFINE a == SizeLen + 1
               b == SizeLen + Len(g)
               c == SizeLen + (Len(g) + j)
    <2>1. /\ a \in Nat /\ b \in Nat /\ c \in Nat /\ a <= b + 1 /\ b <= c /\ a <= c + 1
          /\ b + 1 = x /\ c = x + j - 1 /\ c - a + 1 = Len(g) + j
      BY <1>4, <1>5, <1>6, SMTT(30)
    <2> HIDE DEF a, b, c
    <2>2. Piece(m, a, b) \o Piece(m, b + 1, c) = Piece(m, a, c)
      <3>1. m \in Msgs /\ a \in Nat /\ b \in Nat /\ c \in Nat /\ a <= b + 1 /\ b <= c
        BY <1>3, <2>1
      <3>2. QED
        BY <3>1, PieceJoin, Zenon
    <2>3. g = Piece(m, a, b) /\ t = Piece(m, b + 1, c)
      BY <1>5, <1>8, <2>1 DEF a, b
    <2>4. u = Piece(m, a, c)
      BY <2>2, <2>3
    <2>5. Piece(m, a, c) \in Seq(Units) /\ Len(Piece(m, a, c)) = c - a + 1
      BY <1>3, <2>1, PieceType
    <2>6. QED
      BY <2>1, <2>4, <2>5 DEF a, c
  <1> HIDE DEF u
  <1>11. Total(m) = SizeLen + s /\ x = SizeLen + Len(g) + 1
    BY <1>4, <1>5
  <1>12. ASSUME ~(Len(u) >= s) PROVE Receiving(n, q, m, f, u, s)
    <2>1. Len(u) < s /\ x + j <= Total(m) /\ x + j \in 1..Total(m) /\ x + j = SizeLen + Len(u) + 1
      <3>1. Len(u) = Len(g) + j /\ j \in Nat \ {0} /\ s \in Nat
        BY <1>5, <1>8, <1>10
      <3>2. Len(u) < s
        BY <1>6, <1>12, <3>1
      <3>3. x + j = SizeLen + Len(u) + 1
        BY <1>4, <1>6, <1>11, <3>1
      <3>4. x + j <= Total(m) /\ x + j \in 1..Total(m)
        <4>1. Len(u) \in Nat /\ Len(u) + 1 <= s
          BY <3>1, <3>2
        <4>2. x + j = SizeLen + (Len(u) + 1)
          BY ONLY <1>4, <3>3, <4>1
        <4>3. QED
          BY ONLY <1>4, <1>11, <3>1, <4>1, <4>2
      <3>5. QED
        BY <3>2, <3>3, <3>4
    <2>2. u = Piece(m, SizeLen + 1, SizeLen + Len(u))
      BY <1>10
    <2>3. Read(m, u, s, x + j)
      BY <1>5, <2>1, <2>2 DEF Read
    <2>4. QED
      BY <1>8, <1>9, <2>1, <2>3 DEF Receiving
  <1>13. ASSUME Len(u) >= s
         PROVE  /\ IsBody(u) /\ u[1][1] = m
                /\ IF m.i < f.i THEN \A o : Receiving(n, o, next, f, <<>>, None)
                   ELSE m.i = f.i /\ Quiet(n)
    <2>1. Len(g) + j = s /\ SizeLen + (Len(g) + j) = Total(m) /\ x + j - 1 = Total(m)
      <3>1. Len(g) + j >= s
        BY <1>10, <1>13
      <3>2. Len(g) + j = s
        BY <1>6, <3>1
      <3>3. QED
        BY <1>4, <1>6, <1>11, <3>2
    <2>2. u = BodyOf(m)
      BY <1>10, <2>1 DEF BodyOf
    <2>3. BodyOf(m) # <<>> /\ BodyOf(m)[1] = <<m, SizeLen + 1>>
      BY <1>3, SizeAndBody
    <2>4. IsBody(u) /\ u[1][1] = m
      BY <2>2, <2>3 DEF IsBody
    <2>5. ASSUME m.i < f.i, NEW o PROVE Receiving(n, o, next, f, <<>>, None)
      <3>1. Replying(n, next, 1, f)
        BY <1>8, <2>1, <2>5
      <3>2. 1 \in 1..Total(next)
        BY <3>1, ReplyType
      <3>3. Read(next, <<>>, None, 1)
        BY DEF Read
      <3>4. QED
        BY <1>9, <3>1, <3>2, <3>3 DEF Receiving
    <2>6. QED
      BY <1>8, <2>1, <2>4, <2>5
  <1>14. QED
    BY <1>8, <1>10, <1>12, <1>13 DEF u, t, next

-----------------------------------------------------------------------------
(* The connections a step leaves alone, and the one it does not *)

\* A line is made of the variables of its connection.
LEMMA LineFields ==
    ASSUME NEW k
    PROVE  /\ Line(k).toProc = toProc[k] /\ Line(k).toGo = toGo[k]
           /\ Line(k).proc = proc[k] /\ Line(k).out = out[k] /\ Line(k).whole = driver.wholeSizes
           /\ Line(k).side = IF k[1] = "own" THEN "own" ELSE IF driver.limit = 1 THEN "one" ELSE "hc"
           /\ Line(k)'.toProc = toProc'[k] /\ Line(k)'.toGo = toGo'[k]
           /\ Line(k)'.proc = proc'[k] /\ Line(k)'.out = out'[k]
           /\ driver' = driver => Line(k)'.whole = Line(k).whole /\ Line(k)'.side = Line(k).side
  BY DEF Line

LEMMA SameLine ==
    ASSUME NEW k, driver' = driver, toProc'[k] = toProc[k], toGo'[k] = toGo[k],
           proc'[k] = proc[k], out'[k] = out[k]
    PROVE  Line(k)' = Line(k)
  BY DEF Line

\* The connections of a client.
LEMMA ConnsOf ==
    ASSUME NEW c \in Clients
    PROVE  <<"own", c>> \in Conns /\ <<"hc", c>> \in Conns
  BY DEF Conns

\* A message a client is to send.
LEMMA OutgoingType ==
    ASSUME Types, NEW c \in Clients, pc[c] \in SendSteps
    PROVE  Outgoing(c) \in Msgs
  <1>1. /\ None \in Names /\ c \in Names /\ 0 \in Nat /\ count[c] + 1 \in Nat
        /\ received[c] \in [RecvSteps -> Msgs]
    BY DEF Types, Names
  <1>2. \A kind \in Kinds, i \in Nat : \A h, q \in Names : Msg(kind, h, q, i) \in Msgs
    BY MsgType
  <1>3. received[c]["params"] \in Msgs /\ received[c]["queries"] \in Msgs /\ received[c]["answer"] \in Msgs
    BY <1>1 DEF RecvSteps
  <1>4. CASE pc[c] \in {"newClient", "reset", "dims", "ask"}
    BY <1>1, <1>2, <1>4 DEF Outgoing, Kinds
  <1>5. CASE pc[c] \in {"hint", "key"}
    BY <1>1, <1>2, <1>5 DEF Outgoing, Kinds
  <1>6. CASE pc[c] \in {"recvParams", "setQuery", "recover"}
    BY <1>3, <1>6 DEF Outgoing
  <1>7. QED
    BY <1>4, <1>5, <1>6 DEF SendSteps

-----------------------------------------------------------------------------
(* Steps of processes *)

\* Whatever a process is sent, it writes whole messages.
LEMMA ReactsType ==
    ASSUME NEW p \in Procs, NEW m \in Msgs
    PROVE  /\ ClientReacts(p, m)[1] \in Procs /\ ServerReacts(p, m)[1] \in Procs
           /\ ClientReacts(p, m)[2] \in Seq(Units) /\ Ends(ClientReacts(p, m)[2])
           /\ ServerReacts(p, m)[2] \in Seq(Units) /\ Ends(ServerReacts(p, m)[2])
           /\ Broken \in Procs /\ <<>> \in Seq(Units) /\ Ends(<<>>)
  <1>1. /\ m.keys \in Names /\ m.hint \in Names /\ m.i \in Nat /\ None \in Names
        /\ p.at \in {"dims", "params", "keys", "hint", "ready", "unset", "broken"}
        /\ p.hint \in Names /\ p.keys \in Names /\ p.n \in Nat
    BY MsgFields DEF Procs, Names
  <1>2. <<>> \in Seq(Units) /\ Ends(<<>>)
    BY DEF Ends
  <1>3. ASSUME NEW o \in Msgs PROVE Frame(o) \in Seq(Units) /\ Ends(Frame(o))
    <2>1. Frame(o) \in Seq(Units) /\ Chain("back", Frame(o)) /\ End(Frame(o)) = <<o, Total(o)>>
      BY SizeAndBody
    <2>2. QED
      BY <2>1 DEF Ends
  <1>4. Tokens(m) \in Seq(Units) /\ Ends(Tokens(m))
    <2> DEFINE o == Msg("token", m.hint, m.keys, Batch)
    <2>1. Tokens(m) \in Seq(Units) /\ Chain("back", Tokens(m)) /\ End(Tokens(m)) = <<o, Total(o)>>
      BY TokensChain
    <2>2. QED
      BY <2>1 DEF Ends
  <1>5. /\ Msg("params", m.hint, None, 0) \in Msgs /\ Msg("answer", p.hint, p.keys, 0) \in Msgs
        /\ Msg("queries", None, m.keys, 0) \in Msgs
    BY <1>1, MsgType DEF Kinds
  <1>6. Broken \in Procs
    BY <1>1 DEF Broken, NewProc, Procs
  <1>7. ClientReacts(p, m)[1] \in Procs
    <2>1. /\ [p EXCEPT !.at = "params"] \in Procs /\ [p EXCEPT !.n = p.n + 1] \in Procs
      BY <1>1 DEF Procs
    <2>2. [p EXCEPT !.at = "keys", !.hint = m.hint] \in Procs /\ [p EXCEPT !.at = "ready", !.keys = m.keys] \in Procs
      BY <1>1, AtAndFields, ZenonT(40)
    <2>3. QED
      BY <1>6, <2>1, <2>2, Zenon DEF ClientReacts
  <1>8. ServerReacts(p, m)[1] \in Procs
    <2>1. /\ [p EXCEPT !.at = "hint"] \in Procs /\ [p EXCEPT !.at = "dims"] \in Procs
          /\ [p EXCEPT !.at = "unset"] \in Procs /\ [p EXCEPT !.keys = m.keys] \in Procs
      BY <1>1 DEF Procs
    <2>2. [p EXCEPT !.at = "ready", !.hint = m.hint, !.keys = None] \in Procs
      BY <1>1, AtAndFields, ZenonT(40)
    <2>3. QED
      BY <1>6, <2>1, <2>2, Zenon DEF ServerReacts
  <1>9. ClientReacts(p, m)[2] \in Seq(Units) /\ Ends(ClientReacts(p, m)[2])
    BY <1>2, <1>3, <1>4, <1>5, Zenon DEF ClientReacts
  <1>10. ServerReacts(p, m)[2] \in Seq(Units) /\ Ends(ServerReacts(p, m)[2])
    BY <1>2, <1>3, <1>5, Zenon DEF ServerReacts
  <1>11. QED
    BY <1>2, <1>6, <1>7, <1>8, <1>9, <1>10

\* A process that reads touches its connection alone, and what it writes are
\* whole messages.
LEMMA ProcReadsTo ==
    ASSUME Types, \A k \in Conns : Ends(out[k]), NEW k \in Conns, ProcReads(k)
    PROVE  /\ proc[k].at \notin Stopped /\ out[k] = <<>> /\ Served(k)
           /\ UNCHANGED <<hcVars, client, toGo>>
           /\ \A j \in Conns : j # k => toProc'[j] = toProc[j] /\ proc'[j] = proc[j] /\ out'[j] = out[j]
           /\ toProc' \in [Conns -> Seq(Units)] /\ proc' \in [Conns -> Procs]
           /\ out' \in [Conns -> Seq(Units)] /\ \A j \in Conns : Ends(out'[j])
  <1> DEFINE units == toProc[k]
             m == units[1][1]
             whole == Len(units) >= SizeLen /\ IsSize(Prefix(units, SizeLen))
             n == SizeLen + Length[m.kind]
             r == IF whole /\ IsBody(SubSeq(units, SizeLen + 1, n)) THEN Reacts(k, m) ELSE <<Broken, <<>>>>
             rest == IF whole THEN Rest(units, n) ELSE <<>>
  <1>1. /\ Served(k) /\ proc[k].at \notin Stopped /\ out[k] = <<>>
        /\ Len(units) >= SizeLen /\ (whole => Len(units) >= n)
        /\ toProc' = [toProc EXCEPT ![k] = rest]
        /\ proc' = [proc EXCEPT ![k] = r[1]]
        /\ out' = [out EXCEPT ![k] = r[2]]
        /\ UNCHANGED <<hcVars, client, toGo>>
    BY DEF ProcReads
  <1>2. /\ units \in Seq(Units) /\ proc[k] \in Procs
        /\ toProc \in [Conns -> Seq(Units)] /\ proc \in [Conns -> Procs] /\ out \in [Conns -> Seq(Units)]
    BY DEF Types
  <1>3. units # <<>> /\ Len(units) \in Nat
    BY <1>1, <1>2, SocketAssumption
  <1>4. m \in Msgs
    BY <1>2, <1>3, FirstLast
  <1>5. n \in Nat
    BY <1>4, TotalType
  <1>6. r[1] \in Procs /\ r[2] \in Seq(Units) /\ Ends(r[2])
    <2>1. /\ ClientReacts(proc[k], m)[1] \in Procs /\ ServerReacts(proc[k], m)[1] \in Procs
          /\ ClientReacts(proc[k], m)[2] \in Seq(Units) /\ Ends(ClientReacts(proc[k], m)[2])
          /\ ServerReacts(proc[k], m)[2] \in Seq(Units) /\ Ends(ServerReacts(proc[k], m)[2])
          /\ Broken \in Procs /\ <<>> \in Seq(Units) /\ Ends(<<>>)
      BY <1>2, <1>4, ReactsType
    <2> HIDE DEF m
    <2>2. Reacts(k, m)[1] \in Procs /\ Reacts(k, m)[2] \in Seq(Units) /\ Ends(Reacts(k, m)[2])
      BY <2>1 DEF Reacts
    <2>3. <<Broken, <<>>>>[1] = Broken /\ <<Broken, <<>>>>[2] = <<>>
      OBVIOUS
    <2>4. r = Reacts(k, m) \/ r = <<Broken, <<>>>>
      OBVIOUS
    <2> HIDE DEF r
    <2>5. CASE r = Reacts(k, m)
      BY <2>2, <2>5
    <2>6. CASE r = <<Broken, <<>>>>
      BY <2>1, <2>3, <2>6
    <2>7. QED
      BY <2>4, <2>5, <2>6
  <1>7. rest \in Seq(Units)
    <2>1. whole => n \in 0..Len(units)
      BY <1>1, <1>3, <1>5
    <2>2. whole => Rest(units, n) \in Seq(Units)
      BY <1>2, <2>1, PrefixType
    <2> HIDE DEF whole
    <2>3. QED
      BY <2>2
  <1> HIDE DEF r, rest
  <1>8. /\ \A j \in Conns : j # k => toProc'[j] = toProc[j] /\ proc'[j] = proc[j] /\ out'[j] = out[j]
        /\ toProc' \in [Conns -> Seq(Units)] /\ proc' \in [Conns -> Procs] /\ out' \in [Conns -> Seq(Units)]
        /\ out'[k] = r[2]
    BY <1>1, <1>2, <1>6, <1>7
  <1>9. \A j \in Conns : Ends(out'[j])
    BY <1>6, <1>8
  <1>10. QED
    BY <1>1, <1>8, <1>9

\* What it is sent making sense to it, it reads the first message.
LEMMA ProcReadsLine ==
    ASSUME Types, \A k \in Conns : Ends(out[k]), NEW k \in Conns, ProcReads(k), Fed(Line(k)),
           driver' = driver
    PROVE  Reads(Line(k), Line(k)')
  <1> DEFINE units == toProc[k]
             m == units[1][1]
             whole == Len(units) >= SizeLen /\ IsSize(Prefix(units, SizeLen))
             n == SizeLen + Length[m.kind]
             r == IF whole /\ IsBody(SubSeq(units, SizeLen + 1, n)) THEN Reacts(k, m) ELSE <<Broken, <<>>>>
  <1>1. /\ out[k] = <<>> /\ Len(units) >= SizeLen /\ (whole => Len(units) >= n)
        /\ toProc' = [toProc EXCEPT ![k] = IF whole THEN Rest(units, n) ELSE <<>>]
        /\ proc' = [proc EXCEPT ![k] = r[1]]
        /\ out' = [out EXCEPT ![k] = r[2]]
        /\ toGo' = toGo
    BY DEF ProcReads
  <1>2. /\ units \in Seq(Units)
        /\ toProc \in [Conns -> Seq(Units)] /\ proc \in [Conns -> Procs] /\ out \in [Conns -> Seq(Units)]
    BY DEF Types
  <1>3. units # <<>>
    BY <1>1, <1>2, SocketAssumption
  <1>4. Line(k).toProc = units /\ Line(k).proc = proc[k] /\ Line(k).out = out[k]
    BY LineFields
  <1>5. units[1][2] = 1 /\ Chain(Line(k).side, units)
    BY <1>3, <1>4 DEF Fed
  <1>6. /\ m \in Msgs /\ whole
        /\ Len(units) >= Total(m) => IsBody(SubSeq(units, SizeLen + 1, Total(m)))
    BY <1>1, <1>2, <1>3, <1>5, FirstIsWhole
  <1>7. n = Total(m)
    BY DEF Total
  <1>8. r = Reacts(k, m) /\ Len(units) >= Total(m)
    BY <1>1, <1>6, <1>7
  <1>9. Reacts(k, m) = Reaction(Line(k).side, Line(k).proc, m)
    <2>1. k[1] \in {"hc", "own"}
      BY DEF Conns
    <2>2. Line(k).side = "own" <=> k[1] = "own"
      BY LineFields
    <2>3. QED
      BY <1>4, <2>1, <2>2 DEF Reacts, Reaction
  <1> HIDE DEF r
  <1>10. toProc'[k] = Rest(units, Total(m)) /\ proc'[k] = r[1] /\ out'[k] = r[2] /\ toGo'[k] = toGo[k]
    <2>1. toProc' = [toProc EXCEPT ![k] = Rest(units, n)]
      BY <1>1, <1>6
    <2>2. QED
      BY <1>1, <1>2, <1>7, <2>1
  <1>11. QED
    <2>1. /\ Line(k)'.toProc = toProc'[k] /\ Line(k)'.toGo = toGo'[k] /\ Line(k).toGo = toGo[k]
          /\ Line(k)'.proc = proc'[k] /\ Line(k)'.out = out'[k]
          /\ Line(k)'.whole = Line(k).whole /\ Line(k)'.side = Line(k).side
      BY LineFields
    <2>2. QED
      BY <1>1, <1>3, <1>4, <1>8, <1>9, <1>10, <2>1 DEF Reads

\* What is left of whole messages are whole messages.
LEMMA EndsRest ==
    ASSUME NEW s \in Seq(Units), Ends(s), NEW j \in 1..Len(s)
    PROVE  Ends(Rest(s, j))
  <1>1. s # <<>> /\ j \in 0..Len(s) /\ j \in Nat /\ Len(s) \in Nat
    OBVIOUS
  <1>2. Chain("back", Rest(s, j))
    BY <1>1, ChainRest DEF Ends
  <1>3. ASSUME Rest(s, j) # <<>> PROVE End(Rest(s, j)) = End(s)
    <2>1. Rest(s, j) \in Seq(Units) /\ Len(Rest(s, j)) = Len(s) - j
      BY <1>1, PrefixType
    <2>2. j < Len(s)
      BY <1>1, <1>3, <2>1
    <2>3. QED
      BY <1>1, <2>2, EndRest
  <1>4. QED
    BY <1>1, <1>2, <1>3 DEF Ends

\* A process that writes moves units of what it has to write to the client.
LEMMA ProcWritesTo ==
    ASSUME Types, \A k \in Conns : Ends(out[k]), NEW k \in Conns, ProcWrites(k), driver' = driver
    PROVE  /\ out[k] # <<>>
           /\ UNCHANGED <<hcVars, client, toProc, proc>>
           /\ \A j \in Conns : j # k => toGo'[j] = toGo[j] /\ out'[j] = out[j]
           /\ toGo' \in [Conns -> Seq(Units)] /\ out' \in [Conns -> Seq(Units)]
           /\ \A j \in Conns : Ends(out'[j])
           /\ \E j \in Nat : Writes(Line(k), Line(k)', j)
  <1> DEFINE first == out[k][1][2]
             left == (IF first <= SizeLen THEN SizeLen ELSE Total(out[k][1][1])) - first + 1
  <1>1. out[k] # <<>> /\ UNCHANGED <<hcVars, client, toProc, proc>>
    BY DEF ProcWrites
  <1>2. PICK n \in IF driver.wholeSizes /\ first = 1 THEN {SizeLen} ELSE 1..left :
           /\ toGo' = [toGo EXCEPT ![k] = toGo[k] \o Prefix(out[k], n)]
           /\ out' = [out EXCEPT ![k] = Rest(out[k], n)]
    BY DEF ProcWrites
  <1>3. /\ toProc \in [Conns -> Seq(Units)] /\ toGo \in [Conns -> Seq(Units)]
        /\ proc \in [Conns -> Procs] /\ out \in [Conns -> Seq(Units)] /\ out[k] \in Seq(Units)
    BY DEF Types
  <1>4. n \in 1..Len(out[k])
    <2> DEFINE s == out[k]
               f == End(s)[1]
               end == IF first <= SizeLen THEN SizeLen ELSE Total(s[1][1])
    <2>1. Chain("back", s) /\ s # <<>> /\ End(s)[2] = Total(f)
      BY <1>1 DEF Ends
    <2>2. f \in Msgs /\ End(s) = <<f, Total(f)>> /\ s[1][1] \in Msgs /\ first \in Nat /\ Len(s) \in Nat
      BY <1>3, <2>1, FirstLast
    <2>3. first \in 1..Total(s[1][1]) /\ Total(s[1][1]) - first + 1 <= Len(s)
      BY <1>3, <2>1, <2>2, ChainWhole
    <2>4. SizeLen \in Nat \ {0} /\ Total(s[1][1]) \in Nat /\ SizeLen < Total(s[1][1])
      BY <2>2, TotalType
    <2>5. first <= end /\ end <= Total(s[1][1]) /\ end \in Nat
      BY <2>2, <2>3, <2>4
    <2>6. n \in 1..end - first + 1
      <3>1. CASE driver.wholeSizes /\ first = 1
        BY <2>4, <3>1
      <3>2. CASE ~(driver.wholeSizes /\ first = 1)
        BY <3>2
      <3>3. QED
        BY <3>1, <3>2
    <2> HIDE DEF end, f
    <2>7. QED
      BY <2>2, <2>3, <2>4, <2>5, <2>6
  <1> DEFINE w == Prefix(out[k], n)
             r == Rest(out[k], n)
  <1>5. w \in Seq(Units) /\ r \in Seq(Units) /\ toGo[k] \in Seq(Units)
    <2>1. n \in 0..Len(out[k])
      BY <1>4
    <2>2. QED
      BY <1>3, <2>1, PrefixType
  <1>6. Ends(r)
    BY <1>3, <1>4, EndsRest
  <1>7. toGo[k] \o w \in Seq(Units)
    BY <1>5, JoinType
  <1>8. toGo' = [toGo EXCEPT ![k] = toGo[k] \o w] /\ out' = [out EXCEPT ![k] = r]
    BY <1>2
  <1> HIDE DEF w, r
  <1>9. /\ \A j \in Conns : j # k => toGo'[j] = toGo[j] /\ out'[j] = out[j]
        /\ out' \in [Conns -> Seq(Units)] /\ out'[k] = r
    BY <1>3, <1>5, <1>8
  <1>10. toGo' \in [Conns -> Seq(Units)] /\ toGo'[k] = toGo[k] \o w
    <2> DEFINE t == toGo[k] \o w
    <2>1. t \in Seq(Units) /\ toGo' = [toGo EXCEPT ![k] = t]
      BY <1>7, <1>8
    <2> HIDE DEF t
    <2>2. toGo' \in [Conns -> Seq(Units)] /\ toGo'[k] = t
      BY <1>3, <2>1
    <2>3. QED
      BY <2>2 DEF t
  <1>11. \A j \in Conns : Ends(out'[j])
    BY <1>6, <1>9
  <1>12. Writes(Line(k), Line(k)', n)
    <2>1. /\ Line(k)'.toProc = toProc'[k] /\ Line(k)'.toGo = toGo'[k] /\ Line(k).toGo = toGo[k]
          /\ Line(k).toProc = toProc[k] /\ Line(k).proc = proc[k] /\ Line(k).out = out[k]
          /\ Line(k)'.proc = proc'[k] /\ Line(k)'.out = out'[k] /\ Line(k).whole = driver.wholeSizes
          /\ Line(k)'.whole = Line(k).whole /\ Line(k)'.side = Line(k).side
      BY LineFields
    <2>2. n \in IF Line(k).whole /\ Line(k).out[1][2] = 1 THEN {SizeLen} ELSE 1..left
      BY <2>1
    <2>3. toProc'[k] = toProc[k] /\ proc'[k] = proc[k]
      BY <1>1
    <2> DEFINE l == Line(k)
               o == Line(k)'
    <2>4. /\ o.side = l.side /\ o.whole = l.whole /\ o.toProc = l.toProc /\ o.proc = l.proc
          /\ l.out # <<>> /\ o.toGo = l.toGo \o Prefix(l.out, n) /\ o.out = Rest(l.out, n)
      BY <1>1, <1>9, <1>10, <2>1, <2>3, Zenon DEF w, r
    <2>5. left = (IF l.out[1][2] <= SizeLen THEN SizeLen ELSE Total(l.out[1][1])) - l.out[1][2] + 1
      BY <2>1
    <2> HIDE DEF l, o
    <2>6. QED
      BY <2>2, <2>4, <2>5 DEF Writes, l, o
  <1>13. n \in Nat
    BY <1>4
  <1>14. QED
    BY <1>1, <1>9, <1>10, <1>11, <1>12, <1>13

-----------------------------------------------------------------------------
(* Clients a step leaves alone *)

Same(d) ==
    /\ pc'[d] = pc[d] /\ count'[d] = count[d] /\ wrote'[d] = wrote[d] /\ got'[d] = got[d]
    /\ size'[d] = size[d] /\ received'[d] = received[d] /\ tokens'[d] = tokens[d]

\* What a client sends, asks and gets next depends on its own state.
LEMMA SameMessages ==
    ASSUME NEW d, pc'[d] = pc[d], count'[d] = count[d], received'[d] = received[d]
    PROVE  /\ \A i : Token(d, i)' = Token(d, i)
           /\ pc[d] \in SendSteps => Outgoing(d)' = Outgoing(d)
           /\ pc[d] \in RecvSteps => Question(d)' = Question(d)
           /\ pc[d] \in RecvSteps \ {"answer"} =>
                Incoming(d)' = Incoming(d) /\ LastComing(d)' = LastComing(d)
  <1>1. pc'[d] = pc[d] /\ count'[d] = count[d] /\ received'[d] = received[d]
    OBVIOUS
  <1>2. \A i : Token(d, i)' = Token(d, i)
    BY <1>1 DEF Token
  <1>3. ASSUME pc[d] \in SendSteps PROVE Outgoing(d)' = Outgoing(d)
    <2>1. CASE pc[d] \in {"newClient", "reset", "dims", "ask"}
      BY <1>1, <2>1 DEF Outgoing
    <2>2. CASE pc[d] \in {"hint", "key"}
      BY <1>1, <2>2 DEF Outgoing
    <2>3. CASE pc[d] \in {"recvParams", "setQuery", "recover"}
      BY <1>1, <2>3 DEF Outgoing
    <2>4. QED
      BY <1>3, <2>1, <2>2, <2>3 DEF SendSteps
  <1>4. ASSUME pc[d] \in RecvSteps PROVE Question(d)' = Question(d)
    BY <1>1, <1>4 DEF Question, RecvSteps
  <1>5. ASSUME pc[d] \in RecvSteps \ {"answer"} PROVE Incoming(d)' = Incoming(d)
    BY <1>1, <1>2, <1>5 DEF Incoming, RecvSteps
  <1>6. ASSUME pc[d] \in RecvSteps \ {"answer"} PROVE LastComing(d)' = LastComing(d)
    BY <1>1, <1>2, <1>5, <1>6 DEF LastComing
  <1>7. QED
    BY <1>2, <1>3, <1>4, <1>5, <1>6

\* What holds of a client goes on to while it, its own process and its connection stay.
LEMMA OtherClient ==
    ASSUME NEW d \in Clients, Same(d), Line(<<"own", d>>)' = Line(<<"own", d>>),
           Has(d), HasTokens(d), OwnLine(d)
    PROVE  Has(d)' /\ HasTokens(d)' /\ OwnLine(d)'
  <1>1. /\ pc'[d] = pc[d] /\ count'[d] = count[d] /\ wrote'[d] = wrote[d] /\ got'[d] = got[d]
        /\ size'[d] = size[d] /\ received'[d] = received[d] /\ tokens'[d] = tokens[d]
    BY DEF Same
  <1>2. Has(d)'
    BY <1>1 DEF Has
  <1>3. HasTokens(d)'
    BY <1>1, SameMessages DEF HasTokens
  <1>4. OwnLine(d)'
    <2> DEFINE l == Line(<<"own", d>>)
    <2>1. l' = l
      OBVIOUS
    <2>2. Reading(d, l)' = Reading(d, l) \/ pc[d] \notin {"queries", "token"}
      <3>1. ASSUME pc[d] \in {"queries", "token"} PROVE Reading(d, l)' = Reading(d, l)
        <4>1. /\ Question(d)' = Question(d) /\ Incoming(d)' = Incoming(d)
              /\ LastComing(d)' = LastComing(d)
          BY <1>1, <3>1, SameMessages DEF RecvSteps
        <4> HIDE DEF l
        <4>2. QED
          BY <1>1, <2>1, <4>1 DEF Reading
      <3>2. QED
        BY <3>1
    <2>3. pc[d] \in {"newClient", "recvParams", "key", "recover"} => Outgoing(d)' = Outgoing(d)
      BY <1>1, SameMessages DEF SendSteps
    <2>4. QED
      BY <1>1, <2>1, <2>2, <2>3 DEF OwnLine
  <1>5. QED
    BY <1>2, <1>3, <1>4

LEMMA SameHandler ==
    ASSUME NEW d, Same(d), Hc' = Hc, HandlerLine(d)
    PROVE  HandlerLine(d)'
  <1>1. pc'[d] = pc[d] /\ wrote'[d] = wrote[d] /\ got'[d] = got[d] /\ size'[d] = size[d]
    BY DEF Same
  <1>2. pc[d] \in SendSteps => Outgoing(d)' = Outgoing(d)
    BY SameMessages DEF Same
  <1>3. pc[d] \in {"params", "answer"} => Reading(d, Hc)' = Reading(d, Hc)
    <2>1. ASSUME pc[d] \in {"params", "answer"}
          PROVE  Question(d)' = Question(d) /\ Incoming(d)' = Incoming(d) /\ LastComing(d)' = LastComing(d)
      <3>1. Question(d)' = Question(d)
        BY <2>1, SameMessages DEF RecvSteps, Same
      <3>2. Incoming(d)' = Incoming(d)
        BY <1>1, <2>1 DEF Incoming
      <3>3. QED
        BY <1>1, <2>1, <3>1, <3>2 DEF LastComing
    <2>2. QED
      BY <1>1, <2>1 DEF Reading
  <1>4. QED
    BY <1>1, <1>2, <1>3 DEF HandlerLine

\* A step that neither touches the HC server nor brings a client to it.
LEMMA HcUntouched ==
    ASSUME Types, HcLine, session' = session, served' = served, down' = down,
           \A d \in Clients : Line(<<"hc", d>>)' = Line(<<"hc", d>>),
           InHandler' = InHandler, \A d \in InHandler : Same(d),
           \A d \in Clients : pc'[d] \in Initialised => pc[d] \in Initialised
    PROVE  HcLine' /\ (served # None => Hc' = Hc)
  <1>1. served # None => Hc' = Hc
    BY DEF Types, Names, Hc
  <1>2. \A d \in InHandler : d \in Clients /\ served # None
    BY DEF HcLine, InHandler
  <1>3. /\ \A d \in Clients : d # served' => Fresh(Line(<<"hc", d>>)')
        /\ session' \in {None, served'}
        /\ served' # None => Fed(Hc')
        /\ \A d \in Clients : pc'[d] \in Initialised \/ d \in InHandler' => served' # None
    BY <1>1 DEF HcLine
  <1>4. ASSUME ~down', InHandler' = {}
        PROVE  session' = served' /\ (served' # None => Sending(Hc', NoMsg("reset"), FALSE))
    BY <1>1, <1>4 DEF HcLine
  <1>5. ASSUME ~down', NEW d \in InHandler'
        PROVE  /\ IF pc'[d] = "dims" THEN session' = None => served' = d ELSE session' = served'
               /\ HandlerLine(d)'
    <2>1. d \in InHandler /\ Hc' = Hc /\ Same(d)
      BY <1>1, <1>2, <1>5
    <2>2. HandlerLine(d) /\ IF pc[d] = "dims" THEN session = None => served = d ELSE session = served
      BY <1>5, <2>1 DEF HcLine
    <2>3. QED
      BY <2>1, <2>2, SameHandler DEF Same
  <1>6. QED
    BY <1>1, <1>3, <1>4, <1>5 DEF HcLine

\* Nobody uses the connection of a server that is down.
LEMMA HcDown ==
    ASSUME Types, HcLine, session' = session, served' = served, down',
           \A d \in Clients : Line(<<"hc", d>>)' = Line(<<"hc", d>>),
           InHandler' \subseteq InHandler,
           \A d \in Clients : pc'[d] \in Initialised => pc[d] \in Initialised
    PROVE  HcLine'
  <1>1. served # None => Hc' = Hc
    BY DEF Types, Names, Hc
  <1>2. QED
    BY <1>1 DEF HcLine

\* The HC server as it is for a client that runs alone.
LEMMA SameAlone ==
    ASSUME NEW c, Alone(c), Hc' = Hc,
           pc'[c] \in {"recover", "token"} \/ (pc'[c] = "ask" /\ ~wrote'[c]) =>
             pc[c] \in {"recover", "token"} \/ (pc[c] = "ask" /\ ~wrote[c])
    PROVE  Alone(c)'
  BY DEF Alone

\* A step in which no program ends early.
LEMMA NoneFails ==
    ASSUME FatalHasCause, ~overlapped, driver' = driver, down' => down,
           \A d \in Clients : pc'[d] = "panic" => pc[d] = "panic",
           \A k \in Conns : proc[k].at = "unset" => proc'[k].at = "unset"
    PROVE  FatalHasCause'
  BY DEF FatalHasCause

\* What is left to show of a step in which one client, or one of its process,
\* does something off the HC server's connection.
LEMMA OwnStep ==
    ASSUME Good, NEW c \in Clients, driver' = driver,
           UNCHANGED hcVars, \A d \in Clients \ {c} : Same(d),
           \A k \in Conns : k # <<"own", c>> => Line(k)' = Line(k),
           pc[c] \notin Handler \/ Same(c),
           pc'[c] \notin {"reset", "dims", "hint", "params", "answer"} \/ Same(c),
           pc'[c] \in {"setQuery", "ask"} => ~wrote'[c] \/ Same(c),
           pc'[c] \in Initialised => pc[c] \in Initialised,
           pc[c] \notin {"off", "done", "panic"} \/ Same(c),
           received'[c]["answer"] = received[c]["answer"],
           pc'[c] \in {"recover", "token", "ask"} => pc[c] \in {"recover", "token"} \/ Same(c),
           Types', \A k \in Conns : Ends(out'[k]), Has(c)', HasTokens(c)', OwnLine(c)', FatalHasCause'
    PROVE  Good'
  <1>1. \A d \in Clients : pc'[d] # pc[d] => d = c
    BY DEF Same
  <1>2. InHandler' = InHandler
    <2>1. ASSUME NEW d \in Clients PROVE d \in InHandler' <=> d \in InHandler
      <3>1. CASE Same(d)
        BY <3>1 DEF InHandler, Same
      <3>2. CASE ~Same(d)
        <4>1. d = c
          BY <3>2
        <4>2. c \notin InHandler
          BY <3>2, <4>1 DEF InHandler, Handler
        <4>3. c \notin InHandler'
          BY <3>2, <4>1 DEF InHandler
        <4>4. QED
          BY <4>1, <4>2, <4>3
      <3>3. QED
        BY <3>1, <3>2
    <2>2. \A d : d \in InHandler' => d \in Clients
      BY DEF InHandler
    <2>3. \A d : d \in InHandler => d \in Clients
      BY DEF InHandler
    <2>4. QED
      BY <2>1, <2>2, <2>3
  <1>3. \A d \in InHandler : Same(d)
    <2>1. c \in InHandler => Same(c)
      BY DEF InHandler, Handler
    <2>2. QED
      BY <2>1 DEF InHandler
  <1>4. \A d \in Clients : Line(<<"hc", d>>)' = Line(<<"hc", d>>)
    <2>1. \A d \in Clients : <<"hc", d>> \in Conns /\ <<"hc", d>> # <<"own", c>>
      BY ConnsOf
    <2>2. QED
      BY <2>1
  <1>6. HcLine' /\ (served # None => Hc' = Hc)
    <2>1. \A d \in Clients : pc'[d] \in Initialised => pc[d] \in Initialised
      BY <1>1
    <2>2. Types /\ HcLine /\ session' = session /\ served' = served /\ down' = down
      BY DEF Good, hcVars
    <2>3. QED
      BY <1>2, <1>3, <1>4, <2>1, <2>2, HcUntouched
  <1>7. \A d \in Clients : Has(d)' /\ HasTokens(d)' /\ OwnLine(d)'
    <2>1. ASSUME NEW d \in Clients, d # c PROVE Has(d)' /\ HasTokens(d)' /\ OwnLine(d)'
      <3>1. Same(d) /\ <<"own", d>> \in Conns /\ <<"own", d>> # <<"own", c>>
        BY <2>1, ConnsOf
      <3>2. Line(<<"own", d>>)' = Line(<<"own", d>>)
        BY <3>1
      <3>3. Has(d) /\ HasTokens(d) /\ OwnLine(d)
        BY DEF Good
      <3>4. QED
        BY <3>1, <3>2, <3>3, OtherClient
    <2>2. QED
      BY <2>1
  <1>8. ASSUME driver'.limit = 1 PROVE OneAtATime'
    <2>1. OneAtATime
      BY <1>8 DEF Good
    <2>2. \A d \in Clients : pc'[d] \notin {"off", "done", "panic"} => pc[d] \notin {"off", "done", "panic"}
      BY DEF Same
    <2>3. \A d, e \in Running' : d = e
      BY <2>1, <2>2 DEF OneAtATime, Running
    <2>4. \A d \in Clients : received'[d]["answer"] = received[d]["answer"]
      BY DEF Same
    <2>5. \A d \in Clients : received'[d]["answer"] \in {NoMsg("answer"), Msg("answer", d, d, 0)}
      BY <2>1, <2>4 DEF OneAtATime
    <2>6. ASSUME ~down', NEW d \in Clients, pc'[d] \in Initialised PROVE Alone(d)'
      <3>1. ~down /\ pc[d] \in Initialised
        BY <1>1, <2>6 DEF hcVars
      <3>2. Alone(d) /\ Hc' = Hc
        BY <1>6, <2>1, <3>1 DEF OneAtATime, HcLine, Good
      <3>3. pc'[d] \in {"recover", "token"} \/ (pc'[d] = "ask" /\ ~wrote'[d]) =>
              pc[d] \in {"recover", "token"} \/ (pc[d] = "ask" /\ ~wrote[d])
        BY DEF Same
      <3>4. QED
        BY <3>2, <3>3, SameAlone
    <2>7. QED
      BY <2>3, <2>5, <2>6 DEF OneAtATime
  <1>9. \A d, e \in InHandler' : d = e
    BY <1>2 DEF Good
  <1>10. QED
    BY <1>6, <1>7, <1>8, <1>9 DEF Good

-----------------------------------------------------------------------------
(* What clients write *)

\* WriteSize changes one connection, and one client.
LEMMA WriteSizeTo ==
    ASSUME Types, \A j \in Conns : Ends(out[j]), NEW c \in Clients, WriteSize(c), driver' = driver,
           NEW k, k = Conn(c)
    PROVE  /\ pc[c] \in SendSteps /\ ~wrote[c] /\ CanRun(c) /\ wrote'[c] = TRUE
           /\ UNCHANGED <<hcVars, pc, count, iter, got, size, received, tokens, proc, out>>
           /\ \A d \in Clients \ {c} : Same(d)
           /\ Types' /\ \A j \in Conns : Ends(out'[j])
           /\ \A j \in Conns : j # k => Line(j)' = Line(j)
           /\ k \in Conns => /\ SameButToProc(Line(k), Line(k)')
                             /\ Line(k)'.toProc = Line(k).toProc \o SizeOf(Outgoing(c))
  <1> DEFINE t == SizeOf(Outgoing(c))
  <1>1. /\ pc[c] \in SendSteps /\ ~wrote[c] /\ CanRun(c)
        /\ toProc' = [toProc EXCEPT ![k] = toProc[k] \o t]
        /\ wrote' = [wrote EXCEPT ![c] = TRUE]
        /\ UNCHANGED <<hcVars, pc, count, iter, reading, received, tokens, toGo, proc, out>>
    BY DEF WriteSize
  <1>2. got' = got /\ size' = size /\ session' = session /\ served' = served /\ down' = down
    BY <1>1 DEF reading, hcVars
  <1>3. t \in Seq(Units)
    BY <1>1, OutgoingType, SizeAndBody
  <1> HIDE DEF t
  <1>4. /\ toProc' \in [Conns -> Seq(Units)] /\ wrote' \in [Clients -> BOOLEAN] /\ wrote'[c] = TRUE
        /\ \A j \in Conns : j # k => toProc'[j] = toProc[j]
        /\ \A d \in Clients \ {c} : wrote'[d] = wrote[d]
    <2>1. toProc \in [Conns -> Seq(Units)] /\ wrote \in [Clients -> BOOLEAN]
      BY DEF Types
    <2>2. \A j \in Conns : toProc[j] \o t \in Seq(Units)
      BY <1>3, <2>1, JoinType
    <2> DEFINE u == toProc[k] \o t
    <2>3. toProc' = [toProc EXCEPT ![k] = u] /\ (k \in Conns => u \in Seq(Units))
      BY <1>1, <2>2
    <2> HIDE DEF u
    <2>4. QED
      BY <1>1, <2>1, <2>3
  <1>5. Types'
    BY <1>1, <1>2, <1>4 DEF Types
  <1>6. \A d \in Clients \ {c} : Same(d)
    BY <1>1, <1>2, <1>4 DEF Same
  <1>7. \A j \in Conns : j # k => Line(j)' = Line(j)
    BY <1>1, <1>4, SameLine
  <1>8. ASSUME k \in Conns
        PROVE  SameButToProc(Line(k), Line(k)') /\ Line(k)'.toProc = Line(k).toProc \o t
    <2>1. toProc'[k] = toProc[k] \o t
      BY <1>1, <1>8 DEF Types
    <2>2. /\ Line(k)'.toProc = toProc'[k] /\ Line(k)'.toGo = toGo'[k] /\ Line(k).toGo = toGo[k]
          /\ Line(k).toProc = toProc[k] /\ Line(k).proc = proc[k] /\ Line(k).out = out[k]
          /\ Line(k)'.proc = proc'[k] /\ Line(k)'.out = out'[k]
          /\ Line(k)'.whole = Line(k).whole /\ Line(k)'.side = Line(k).side
      BY LineFields
    <2>3. Line(k)'.toProc = Line(k).toProc \o t
      BY <2>1, <2>2, Zenon
    <2>4. SameButToProc(Line(k), Line(k)')
      BY <1>1, <2>2, Zenon DEF SameButToProc
    <2>5. QED
      BY <2>3, <2>4
  <1>9. QED
    BY <1>1, <1>2, <1>4, <1>5, <1>6, <1>7, <1>8 DEF t

\* WriteBody changes one connection, and one client.
LEMMA WriteBodyTo ==
    ASSUME Types, \A j \in Conns : Ends(out[j]), NEW c \in Clients, WriteBody(c), driver' = driver,
           NEW k, k = Conn(c)
    PROVE  /\ pc[c] \in SendSteps /\ wrote[c] /\ CanRun(c) /\ ~wrote'[c]
           /\ pc'[c] = AfterSend(c)
           /\ count'[c] = IF AfterSend(c) = "key" /\ pc[c] = "key" THEN count[c] + 1 ELSE 0
           /\ tokens'[c] = IF pc[c] = "recover" THEN <<>> ELSE tokens[c]
           /\ session' = IF pc[c] = "dims" /\ k = <<"hc", c>> THEN c ELSE session
           /\ UNCHANGED <<served, down, got, size, received, proc, out>>
           /\ \A d \in Clients \ {c} : Same(d)
           /\ Types' /\ \A j \in Conns : Ends(out'[j])
           /\ \A j \in Conns : j # k => Line(j)' = Line(j)
           /\ k \in Conns => /\ SameButToProc(Line(k), Line(k)')
                             /\ Line(k)'.toProc = Line(k).toProc \o BodyOf(Outgoing(c))
  <1> DEFINE t == BodyOf(Outgoing(c))
             n == IF AfterSend(c) = "key" /\ pc[c] = "key" THEN count[c] + 1 ELSE 0
             i == IF pc[c] = "ask" THEN iter[c] + 1 ELSE iter[c]
             r == IF pc[c] = "recover" THEN <<>> ELSE tokens[c]
  <1>1. /\ pc[c] \in SendSteps /\ wrote[c] /\ CanRun(c)
        /\ toProc' = [toProc EXCEPT ![k] = toProc[k] \o t]
        /\ wrote' = [wrote EXCEPT ![c] = FALSE]
        /\ session' = IF pc[c] = "dims" /\ k = <<"hc", c>> THEN c ELSE session
        /\ count' = [count EXCEPT ![c] = n]
        /\ iter' = [iter EXCEPT ![c] = i]
        /\ tokens' = [tokens EXCEPT ![c] = r]
        /\ pc' = [pc EXCEPT ![c] = AfterSend(c)]
        /\ UNCHANGED <<served, down, reading, received, toGo, proc, out>>
    BY DEF WriteBody, Goto
  <1>2. got' = got /\ size' = size
    BY <1>1 DEF reading
  <1>3. t \in Seq(Units)
    BY <1>1, OutgoingType, SizeAndBody
  <1>4. n \in Nat /\ i \in Nat /\ r \in Seq(Msgs)
    BY DEF Types
  <1>5. AfterSend(c) \in Steps
    <2>1. AfterHint \in Steps /\ AfterKey(c) \in Steps
      BY DEF AfterHint, AfterKey, Steps, SendSteps, RecvSteps
    <2>2. QED
      BY <1>1, <2>1 DEF AfterSend, Steps, SendSteps, RecvSteps
  <1> HIDE DEF t, n, i, r
  <1>6. /\ toProc' \in [Conns -> Seq(Units)]
        /\ \A j \in Conns : j # k => toProc'[j] = toProc[j]
    <2>1. toProc \in [Conns -> Seq(Units)]
      BY DEF Types
    <2>2. \A j \in Conns : toProc[j] \o t \in Seq(Units)
      BY <1>3, <2>1, JoinType
    <2> DEFINE u == toProc[k] \o t
    <2>3. toProc' = [toProc EXCEPT ![k] = u] /\ (k \in Conns => u \in Seq(Units))
      BY <1>1, <2>2
    <2> HIDE DEF u
    <2>4. QED
      BY <2>1, <2>3
  <1>7. /\ wrote' \in [Clients -> BOOLEAN] /\ ~wrote'[c]
        /\ count' \in [Clients -> Nat] /\ count'[c] = n
        /\ iter' \in [Clients -> Nat]
        /\ tokens' \in [Clients -> Seq(Msgs)] /\ tokens'[c] = r
        /\ pc' \in [Clients -> Steps] /\ pc'[c] = AfterSend(c)
        /\ session' \in Names
    BY <1>1, <1>4, <1>5 DEF Types, Names
  <1>8. Types'
    BY <1>1, <1>2, <1>6, <1>7 DEF Types
  <1>9. \A d \in Clients \ {c} : Same(d)
    BY <1>1, <1>2 DEF Same, Types
  <1>10. \A j \in Conns : j # k => Line(j)' = Line(j)
    BY <1>1, <1>6, SameLine
  <1>11. ASSUME k \in Conns
         PROVE  SameButToProc(Line(k), Line(k)') /\ Line(k)'.toProc = Line(k).toProc \o t
    <2>1. toProc'[k] = toProc[k] \o t
      BY <1>1, <1>11 DEF Types
    <2>2. /\ Line(k)'.toProc = toProc'[k] /\ Line(k)'.toGo = toGo'[k] /\ Line(k).toGo = toGo[k]
          /\ Line(k).toProc = toProc[k] /\ Line(k).proc = proc[k] /\ Line(k).out = out[k]
          /\ Line(k)'.proc = proc'[k] /\ Line(k)'.out = out'[k]
          /\ Line(k)'.whole = Line(k).whole /\ Line(k)'.side = Line(k).side
      BY LineFields
    <2>3. Line(k)'.toProc = Line(k).toProc \o t
      BY <2>1, <2>2, Zenon
    <2>4. SameButToProc(Line(k), Line(k)')
      BY <1>1, <2>2, Zenon DEF SameButToProc
    <2>5. QED
      BY <2>3, <2>4
  <1>12. QED
    BY <1>1, <1>2, <1>7, <1>8, <1>9, <1>10, <1>11 DEF t, n, r

-----------------------------------------------------------------------------
(* What clients read *)

\* log.Fatal ends the HC server in a handler, and the client elsewhere.
LEMMA FatalTo ==
    ASSUME Types, NEW c \in Clients, Fatal(c)
    PROVE  /\ pc' \in [Clients -> Steps] /\ down' \in BOOLEAN
           /\ \A d \in Clients \ {c} : pc'[d] = pc[d]
           /\ pc[c] \in Handler => down' /\ pc' = pc
           /\ pc[c] \notin Handler => pc'[c] = "panic" /\ down' = down
  BY DEF Fatal, Goto, Types, Steps

\* The line from which units are taken, and the others.
LEMMA TakesOffLine ==
    ASSUME Types, NEW k \in Conns, NEW j \in 1..Len(toGo[k]), driver' = driver,
           toGo' = [toGo EXCEPT ![k] = Rest(toGo[k], j)], UNCHANGED <<toProc, proc, out>>
    PROVE  /\ TakesOff(Line(k), Line(k)', j) /\ toGo' \in [Conns -> Seq(Units)]
           /\ \A i \in Conns : i # k => Line(i)' = Line(i)
  <1>1. toGo \in [Conns -> Seq(Units)] /\ toGo[k] \in Seq(Units)
    BY DEF Types
  <1>2. Rest(toGo[k], j) \in Seq(Units)
    <2>1. j \in 0..Len(toGo[k])
      BY <1>1
    <2>2. QED
      BY <1>1, <2>1, PrefixType
  <1> DEFINE r == Rest(toGo[k], j)
  <1>3. toGo' \in [Conns -> Seq(Units)] /\ toGo'[k] = r /\ \A i \in Conns : i # k => toGo'[i] = toGo[i]
    <2>1. r \in Seq(Units) /\ toGo' = [toGo EXCEPT ![k] = r]
      BY <1>2
    <2> HIDE DEF r
    <2>2. QED
      BY <1>1, <2>1
  <1>4. \A i \in Conns : i # k => Line(i)' = Line(i)
    BY <1>3, SameLine
  <1>5. TakesOff(Line(k), Line(k)', j)
    <2>1. /\ Line(k)'.toProc = toProc'[k] /\ Line(k)'.toGo = toGo'[k] /\ Line(k).toGo = toGo[k]
          /\ Line(k).toProc = toProc[k] /\ Line(k).proc = proc[k] /\ Line(k).out = out[k]
          /\ Line(k)'.proc = proc'[k] /\ Line(k)'.out = out'[k]
          /\ Line(k)'.whole = Line(k).whole /\ Line(k)'.side = Line(k).side
      BY LineFields
    <2>2. toProc'[k] = toProc[k] /\ proc'[k] = proc[k] /\ out'[k] = out[k]
      OBVIOUS
    <2>3. j \in 1..Len(Line(k).toGo)
      BY <2>1
    <2>4. Line(k)'.toGo = Rest(Line(k).toGo, j)
      BY <1>3, <2>1, Zenon
    <2>5. QED
      BY <2>1, <2>2, <2>3, <2>4, Zenon DEF TakesOff
  <1>6. QED
    BY <1>3, <1>4, <1>5

\* ReadSize takes units off one connection; a size that is one is what it says.
LEMMA ReadSizeTo ==
    ASSUME Types, NEW c \in Clients, ReadSize(c), driver' = driver, NEW k \in Conns, k = Conn(c)
    PROVE  LET n == Least({SizeLen, Len(toGo[k])})
           IN /\ pc[c] \in RecvSteps /\ CanRun(c) /\ size[c] = None /\ toGo[k] # <<>>
              /\ TakesOff(Line(k), Line(k)', n)
              /\ IF n < SizeLen THEN Fatal(c) /\ size' = size
                 ELSE /\ pc' = pc /\ down' = down
                      /\ IsSize(Prefix(toGo[k], n)) => size'[c] = Length[toGo[k][1][1].kind]
              /\ UNCHANGED <<session, served, count, iter, wrote, got, received, tokens, toProc, proc, out>>
              /\ \A d \in Clients \ {c} : Same(d)
              /\ Types' /\ \A j \in Conns : j # k => Line(j)' = Line(j)
  <1> DEFINE a == toGo[k]
             n == Least({SizeLen, Len(a)})
             S == IF IsSize(Prefix(a, n)) THEN {Length[a[1][1].kind]} ELSE {Length[kind] : kind \in DOMAIN Length}
  <1>1. /\ CanRun(c) /\ pc[c] \in RecvSteps /\ size[c] = None /\ n > 0
        /\ toGo' = [toGo EXCEPT ![k] = Rest(a, n)]
        /\ IF n < SizeLen
           THEN Fatal(c) /\ UNCHANGED size
           ELSE /\ \E s \in S : size' = [size EXCEPT ![c] = s]
                /\ UNCHANGED <<pc, down>>
        /\ UNCHANGED <<session, served, count, iter, wrote, got, received, tokens, toProc, proc, out>>
    BY DEF ReadSize
  <1>2. a \in Seq(Units) /\ Len(a) \in Nat /\ SizeLen \in Nat
    BY SocketAssumption DEF Types
  <1>3. n \in 1..Len(a) /\ a # <<>>
    <2>1. n = IF SizeLen <= Len(a) THEN SizeLen ELSE Len(a)
      BY <1>2, LeastOf
    <2> HIDE DEF n
    <2>2. n \in 1..Len(a)
      BY <1>1, <1>2, <2>1
    <2>3. QED
      BY <1>2, <2>2
  <1>4. S \subseteq Nat
    <2>1. a[1][1] \in Msgs
      BY <1>2, <1>3, FirstLast
    <2>2. Length[a[1][1].kind] \in Nat
      BY <2>1, TotalType
    <2>3. {Length[kind] : kind \in DOMAIN Length} \subseteq Nat
      BY SocketAssumption
    <2>4. QED
      BY <2>2, <2>3
  <1>5. IsSize(Prefix(a, n)) => S = {Length[a[1][1].kind]}
    OBVIOUS
  <1> HIDE DEF S
  <1>6. /\ TakesOff(Line(k), Line(k)', n) /\ toGo' \in [Conns -> Seq(Units)]
        /\ \A i \in Conns : i # k => Line(i)' = Line(i)
    <2> HIDE DEF n
    <2>1. UNCHANGED <<toProc, proc, out>>
      BY <1>1
    <2>2. QED
      BY <1>1, <1>3, <2>1, TakesOffLine
  <1> HIDE DEF a, n
  <1>7. CASE n < SizeLen
    <2>1. /\ pc' \in [Clients -> Steps] /\ down' \in BOOLEAN /\ size' = size
          /\ \A d \in Clients \ {c} : pc'[d] = pc[d]
      BY <1>1, <1>7, FatalTo
    <2>2. Types'
      BY <1>1, <1>6, <2>1 DEF Types
    <2>3. \A d \in Clients \ {c} : Same(d)
      BY <1>1, <2>1 DEF Same
    <2>4. QED
      BY <1>1, <1>3, <1>6, <1>7, <2>2, <2>3 DEF a, n
  <1>8. CASE ~(n < SizeLen)
    <2>1. PICK s \in S : size' = [size EXCEPT ![c] = s]
      BY <1>1, <1>8
    <2>2. size' \in [Clients -> Nat \cup {None}] /\ size'[c] = s /\ \A d \in Clients \ {c} : size'[d] = size[d]
      BY <1>4, <2>1 DEF Types
    <2>3. Types'
      BY <1>1, <1>6, <1>8, <2>2 DEF Types
    <2>4. \A d \in Clients \ {c} : Same(d)
      BY <1>1, <1>8, <2>2 DEF Same
    <2>5. IsSize(Prefix(a, n)) => size'[c] = Length[a[1][1].kind]
      BY <1>5, <2>1, <2>2
    <2>6. QED
      BY <1>1, <1>3, <1>6, <1>8, <2>3, <2>4, <2>5 DEF a, n
  <1>9. QED
    BY <1>7, <1>8

\* How many units a read of the bytes takes: of what is there no more than is
\* left of the message.
ToRead(c, a) == Least({ReadAtMost(c), Len(a)})

\* A read asks for no more than is left of the message.
LEMMA ToReadIs ==
    ASSUME NEW c, got[c] \in Seq(Units), size[c] \in Nat, Len(got[c]) < size[c], NEW a \in Seq(Units)
    PROVE  ToRead(c, a) \in 0..Len(a) /\ ToRead(c, a) <= size[c] - Len(got[c])
  <1> DEFINE b == size[c] - Len(got[c])
             r == ReadAtMost(c)
  <1>1. b \in Nat /\ Buffer \in Nat /\ Len(a) \in Nat
    BY SocketAssumption
  <1> HIDE DEF b
  <1>2. r = IF Buffer <= b THEN Buffer ELSE b
    BY <1>1, LeastOf DEF ReadAtMost, b
  <1> HIDE DEF r
  <1>3. r \in Nat /\ r <= b
    BY <1>1, <1>2
  <1>4. ToRead(c, a) = IF r <= Len(a) THEN r ELSE Len(a)
    BY <1>1, <1>3, LeastOf DEF ToRead, r
  <1>5. ToRead(c, a) \in 0..Len(a) /\ ToRead(c, a) <= b
    BY <1>1, <1>3, <1>4
  <1>6. QED
    BY <1>5 DEF b

\* ReadBody takes units off one connection; what is a message is received.
LEMMA ReadBodyTo ==
    ASSUME Types, NEW c \in Clients, ReadBody(c), driver' = driver, NEW k \in Conns, k = Conn(c),
           Len(got[c]) < size[c]
    PROVE  LET n == ToRead(c, toGo[k])
               units == got[c] \o Prefix(toGo[k], n)
           IN /\ pc[c] \in RecvSteps /\ CanRun(c) /\ size[c] \in Nat /\ toGo[k] # <<>>
              /\ n \in Nat /\ n <= size[c] - Len(got[c]) /\ TakesOff(Line(k), Line(k)', n)
              /\ IF ~(Len(units) >= size[c])
                 THEN got'[c] = units /\ UNCHANGED <<pc, count, size, received, tokens>>
                 ELSE /\ got'[c] = <<>> /\ size'[c] = None
                      /\ IsBody(units) =>
                           /\ received'[c] = [received[c] EXCEPT ![pc[c]] = units[1][1]]
                           /\ tokens'[c] = IF pc[c] = "token" THEN Append(tokens[c], units[1][1]) ELSE tokens[c]
                      /\ count'[c] = IF AfterRecv(c) = "token" /\ pc[c] = "token" THEN count[c] + 1 ELSE 0
                      /\ pc'[c] = AfterRecv(c)
              /\ UNCHANGED <<hcVars, iter, wrote, toProc, proc, out>>
              /\ \A d \in Clients \ {c} : Same(d)
              /\ Types' /\ \A j \in Conns : j # k => Line(j)' = Line(j)
  <1> DEFINE a == toGo[k]
             n == ToRead(c, a)
             units == got[c] \o Prefix(a, n)
             m == IF IsBody(units) THEN units[1][1] ELSE Msg("garbled", None, None, 0)
             i == IF AfterRecv(c) = "token" /\ pc[c] = "token" THEN count[c] + 1 ELSE 0
             r == [received[c] EXCEPT ![pc[c]] = m]
             t == IF pc[c] = "token" THEN Append(tokens[c], m) ELSE tokens[c]
  <1>1. /\ CanRun(c) /\ pc[c] \in RecvSteps /\ size[c] # None /\ n > 0
        /\ toGo' = [toGo EXCEPT ![k] = Rest(a, n)]
        /\ IF ~(Len(units) >= size[c])
           THEN /\ got' = [got EXCEPT ![c] = units]
                /\ UNCHANGED <<pc, count, size, received, tokens>>
           ELSE /\ got' = [got EXCEPT ![c] = <<>>] /\ size' = [size EXCEPT ![c] = None]
                /\ received' = [received EXCEPT ![c] = r]
                /\ tokens' = [tokens EXCEPT ![c] = t]
                /\ count' = [count EXCEPT ![c] = i]
                /\ pc' = [pc EXCEPT ![c] = AfterRecv(c)]
        /\ UNCHANGED <<session, served, down, iter, wrote, toProc, proc, out>>
    BY DEF ReadBody, Complete, ToRead, Goto
  <1>2. a \in Seq(Units) /\ got[c] \in Seq(Units) /\ size[c] \in Nat /\ Len(a) \in Nat
    BY <1>1 DEF Types
  <1>3. n \in 0..Len(a) /\ n <= size[c] - Len(got[c])
    BY <1>2, ToReadIs
  <1>4. n \in 1..Len(a) /\ a # <<>> /\ n \in Nat
    <2> HIDE DEF n
    <2>1. n \in 1..Len(a)
      BY <1>1, <1>2, <1>3
    <2>2. QED
      BY <1>2, <2>1
  <1>5. units \in Seq(Units)
    <2> DEFINE p == Prefix(a, n)
    <2>1. p \in Seq(Units)
      BY <1>2, <1>3, PrefixType
    <2> HIDE DEF p
    <2>2. got[c] \o p \in Seq(Units)
      BY <1>2, <2>1, JoinType
    <2>3. QED
      BY <2>2 DEF p
  <1>6. /\ TakesOff(Line(k), Line(k)', n) /\ toGo' \in [Conns -> Seq(Units)]
        /\ \A j \in Conns : j # k => Line(j)' = Line(j)
    <2> HIDE DEF n
    <2>1. UNCHANGED <<toProc, proc, out>>
      BY <1>1
    <2>2. QED
      BY <1>1, <1>4, <2>1, TakesOffLine
  <1> HIDE DEF a, n, units
  <1>7. m \in Msgs
    <2>1. IsBody(units) => units # <<>>
      BY DEF IsBody
    <2>2. IsBody(units) => units[1][1] \in Msgs
      BY <1>5, <2>1, FirstLast
    <2>3. Msg("garbled", None, None, 0) \in Msgs
      BY MsgType DEF Kinds, Names
    <2>4. QED
      BY <2>2, <2>3
  <1>8. IsBody(units) => m = units[1][1]
    OBVIOUS
  <1> HIDE DEF m
  <1>9. i \in Nat /\ r \in [RecvSteps -> Msgs] /\ t \in Seq(Msgs)
    <2>1. count[c] \in Nat /\ received[c] \in [RecvSteps -> Msgs] /\ tokens[c] \in Seq(Msgs)
      BY DEF Types
    <2>2. QED
      BY <1>1, <1>7, <2>1
  <1>10. AfterRecv(c) \in Steps
    <2>1. AfterToken(c) \in Steps
      BY DEF AfterToken, Steps, SendSteps, RecvSteps
    <2>2. QED
      BY <1>1, <2>1 DEF AfterRecv, Steps, SendSteps, RecvSteps
  <1>11. CASE ~(Len(units) >= size[c])
    <2>1. /\ got' = [got EXCEPT ![c] = units]
          /\ UNCHANGED <<pc, count, size, received, tokens>>
      BY <1>1, <1>11
    <2>2. /\ got' \in [Clients -> Seq(Units)] /\ got'[c] = units
          /\ \A d \in Clients \ {c} : got'[d] = got[d]
      BY <1>5, <2>1 DEF Types
    <2>3. Types'
      BY <1>1, <1>6, <2>1, <2>2 DEF Types
    <2>4. \A d \in Clients \ {c} : Same(d)
      BY <1>1, <2>1, <2>2 DEF Same
    <2>5. QED
      BY <1>1, <1>2, <1>3, <1>4, <1>6, <1>11, <2>1, <2>2, <2>3, <2>4 DEF a, n, units, hcVars
  <1>12. CASE Len(units) >= size[c]
    <2> HIDE DEF r, t, i
    <2>1. /\ got' = [got EXCEPT ![c] = <<>>] /\ size' = [size EXCEPT ![c] = None]
          /\ received' = [received EXCEPT ![c] = r]
          /\ tokens' = [tokens EXCEPT ![c] = t]
          /\ count' = [count EXCEPT ![c] = i]
          /\ pc' = [pc EXCEPT ![c] = AfterRecv(c)]
      BY <1>1, <1>12
    <2>2. /\ got' \in [Clients -> Seq(Units)] /\ got'[c] = <<>>
          /\ size' \in [Clients -> Nat \cup {None}] /\ size'[c] = None
          /\ received' \in [Clients -> [RecvSteps -> Msgs]] /\ received'[c] = r
          /\ tokens' \in [Clients -> Seq(Msgs)] /\ tokens'[c] = t
          /\ count' \in [Clients -> Nat] /\ count'[c] = i
          /\ pc' \in [Clients -> Steps] /\ pc'[c] = AfterRecv(c)
      BY <1>9, <1>10, <2>1 DEF Types
    <2>3. Types'
      BY <1>1, <1>6, <2>2 DEF Types
    <2>4. \A d \in Clients \ {c} : Same(d)
      BY <1>1, <2>1 DEF Same, Types
    <2>5. IsBody(units) =>
            /\ received'[c] = [received[c] EXCEPT ![pc[c]] = units[1][1]]
            /\ tokens'[c] = IF pc[c] = "token" THEN Append(tokens[c], units[1][1]) ELSE tokens[c]
      BY <1>8, <2>2 DEF r, t
    <2>6. count'[c] = IF AfterRecv(c) = "token" /\ pc[c] = "token" THEN count[c] + 1 ELSE 0
      BY <2>2 DEF i
    <2>7. QED
      BY <1>1, <1>2, <1>3, <1>4, <1>6, <1>12, <2>2, <2>3, <2>4, <2>5, <2>6 DEF a, n, units, hcVars
  <1>13. QED
    <2>1. Len(units) >= size[c] \/ ~(Len(units) >= size[c])
      OBVIOUS
    <2>2. QED
      BY <1>11, <1>12, <2>1

-----------------------------------------------------------------------------
(* Steps of a client and its own process *)

\* A client may send what the process takes after what it has been sent last.
LEMMA MaySend ==
    ASSUME NEW l, Fed(l), Quiet(l), NEW m,
           IF l.toProc = <<>> THEN Takes(l.side, m, Stage(l.proc))
           ELSE LET last == End(l.toProc)[1]
                IN /\ End(l.toProc)[2] = Total(last)
                   /\ ~Asks(last) /\ Takes(l.side, m, StageAfter(last))
    PROVE  Sending(l, m, FALSE)
  BY DEF Sending

\* Once it has asked it waits.
LEMMA Waits ==
    ASSUME NEW l, Fed(l), Quiet(l), l.toProc # <<>>, NEW q, End(l.toProc) = <<q, Total(q)>>, Asks(q),
           NEW m, m.i <= 1, NEW f
    PROVE  Receiving(l, q, m, f, <<>>, None)
  <1>1. Awaited(l, q)
    BY DEF Awaited
  <1>2. ~SizeInPieces(l)
    BY DEF Quiet, SizeInPieces
  <1>3. QED
    BY <1>1, <1>2 DEF Receiving

\* The names in a message do not matter for these.
LEMMA SendingOther ==
    ASSUME NEW l, NEW m, Sending(l, m, FALSE), m.kind \in {"params", "answer", "reset", "ask"},
           NEW o, o.kind = m.kind
    PROVE  Sending(l, o, FALSE)
  <1>1. \A stage : Takes(l.side, m, stage) => Takes(l.side, o, stage)
    BY DEF Takes
  <1>2. QED
    BY <1>1 DEF Sending

\* A process that is to be read from runs.
LEMMA ReceivingRuns ==
    ASSUME NEW l, NEW q, NEW m, NEW f, NEW g, NEW s, Receiving(l, q, m, f, g, s)
    PROVE  l.proc.at \notin Stopped
  <1>1. CASE Awaited(l, q)
    <2>1. Takes(l.side, l.toProc[1][1], Stage(l.proc))
      BY <1>1 DEF Awaited, Fed
    <2>2. Stage(l.proc)[1] = l.proc.at
      BY DEF Stage
    <2>3. l.proc.at \in {"dims", "params", "keys", "ready", "hint"}
      BY <2>1, <2>2 DEF Takes
    <2>4. QED
      BY <2>3 DEF Stopped
  <1>2. CASE ~Awaited(l, q)
    BY <1>2 DEF Receiving, Replying, Stopped
  <1>3. QED
    BY <1>1, <1>2

\* A new connection takes what is sent on it first.
LEMMA FreshSends ==
    ASSUME NEW k \in Conns, Fresh(Line(k)), driver \in Drivers
    PROVE  /\ k[1] = "own" => Sending(Line(k), NoMsg("newClient"), FALSE)
           /\ k[1] # "own" => Sending(Line(k), NoMsg("dims"), FALSE)
  <1> DEFINE l == Line(k)
  <1>1. l.toProc = <<>> /\ l.toGo = <<>> /\ l.proc = NewProc /\ l.out = <<>>
    BY DEF Fresh
  <1>2. l.side \in {"own", "hc", "one"} /\ (l.side = "own" <=> k[1] = "own")
    BY LineFields
  <1>3. l.whole \in BOOLEAN
    <2>1. l.whole = driver.wholeSizes
      BY LineFields
    <2>2. driver.wholeSizes \in BOOLEAN
      BY SocketAssumption
    <2>3. QED
      BY <2>1, <2>2
  <1>4. NewProc \in Procs /\ Stage(NewProc) = <<"dims", 0>> /\ NewProc.n = 0 /\ NewProc.at = "dims"
    BY DEF NewProc, Procs, Names, Stage
  <1> HIDE DEF l
  <1>5. IsLine(l)
    BY <1>1, <1>2, <1>3, <1>4 DEF IsLine
  <1>6. Fed(l) /\ Quiet(l)
    BY <1>1, <1>4, <1>5 DEF Fed, Quiet, Chain
  <1>7. NoMsg("newClient").kind = "newClient" /\ NoMsg("dims").kind = "dims"
    BY DEF NoMsg, Msg
  <1>8. IF k[1] = "own" THEN Takes(l.side, NoMsg("newClient"), Stage(l.proc))
        ELSE Takes(l.side, NoMsg("dims"), Stage(l.proc))
    BY <1>1, <1>2, <1>4, <1>7 DEF Takes
  <1>9. QED
    BY <1>1, <1>6, <1>8, MaySend DEF l

\* The size of a message to the client's own process.
LEMMA OwnWriteSize ==
    ASSUME Good, ~overlapped, NEW c \in Clients, WriteSize(c), pc[c] \notin Handler, driver' = driver
    PROVE  Good'
  <1> DEFINE k == <<"own", c>>
             l == Line(k)
  <1>1. k = Conn(c) /\ k \in Conns
    BY ConnsOf DEF Conn
  <1>2. Types /\ (\A j \in Conns : Ends(out[j])) /\ Has(c) /\ HasTokens(c) /\ OwnLine(c)
    BY DEF Good
  <1>3. /\ pc[c] \in SendSteps /\ ~wrote[c] /\ wrote'[c] = TRUE
        /\ UNCHANGED <<hcVars, pc, count, iter, got, size, received, tokens, proc, out>>
        /\ \A d \in Clients \ {c} : Same(d)
        /\ Types' /\ \A j \in Conns : Ends(out'[j])
        /\ \A j \in Conns : j # k => Line(j)' = Line(j)
        /\ SameButToProc(l, l') /\ l'.toProc = l.toProc \o SizeOf(Outgoing(c))
    BY <1>1, <1>2, WriteSizeTo
  <1>4. pc[c] \in {"newClient", "recvParams", "key", "recover"} /\ pc'[c] = pc[c]
    BY <1>3 DEF SendSteps, Handler
  <1>5. Outgoing(c)' = Outgoing(c) /\ \A i : Token(c, i)' = Token(c, i)
    BY <1>3, SameMessages
  <1>6. Sending(l', Outgoing(c)', TRUE)
    <2>1. Sending(l, Outgoing(c), FALSE)
      BY <1>2, <1>3, <1>4 DEF OwnLine, Types
    <2>2. Outgoing(c) \in Msgs
      BY <1>2, <1>3, OutgoingType
    <2> HIDE DEF l
    <2>3. QED
      BY <1>3, <1>5, <2>1, <2>2, SendSize
  <1>7. OwnLine(c)'
    BY <1>3, <1>4, <1>6 DEF OwnLine, BeforeParams, BeforeAnswer
  <1>8. Has(c)' /\ HasTokens(c)'
    BY <1>2, <1>3, <1>5 DEF Has, HasTokens
  <1>9. FatalHasCause'
    BY <1>3, NoneFails DEF Good, hcVars
  <1>10. QED
    <2>1. received'[c]["answer"] = received[c]["answer"] /\ pc'[c] \notin {"setQuery", "ask"}
      BY <1>3, <1>4
    <2>2. QED
      BY <1>3, <1>4, <1>7, <1>8, <1>9, <2>1, OwnStep

\* Its bytes: with the key or the answer behind it, or a reply to wait for.
LEMMA OwnWriteBody ==
    ASSUME Good, ~overlapped, NEW c \in Clients, WriteBody(c), pc[c] \notin Handler, driver' = driver
    PROVE  Good'
  <1> DEFINE k == <<"own", c>>
             l == Line(k)
             n == Line(k)'
             m == Outgoing(c)
  <1>1. k = Conn(c) /\ k \in Conns
    BY ConnsOf DEF Conn
  <1>2. /\ Types /\ (\A j \in Conns : Ends(out[j])) /\ Has(c) /\ HasTokens(c) /\ OwnLine(c)
        /\ Batch \in Nat \ {0} /\ count[c] \in Nat /\ count[c] < Batch
    <2>1. Types /\ (\A j \in Conns : Ends(out[j])) /\ Has(c) /\ HasTokens(c) /\ OwnLine(c)
      BY DEF Good
    <2>2. Batch \in Nat \ {0} /\ count[c] \in Nat /\ count[c] < Batch
      BY <2>1, SocketAssumption DEF Types, Has
    <2>3. QED
      BY <2>1, <2>2
  <1>3. /\ pc[c] \in SendSteps /\ wrote[c] /\ ~wrote'[c]
        /\ pc'[c] = AfterSend(c)
        /\ count'[c] = IF AfterSend(c) = "key" /\ pc[c] = "key" THEN count[c] + 1 ELSE 0
        /\ tokens'[c] = IF pc[c] = "recover" THEN <<>> ELSE tokens[c]
        /\ session' = IF pc[c] = "dims" /\ k = <<"hc", c>> THEN c ELSE session
        /\ UNCHANGED <<served, down, got, size, received, proc, out>>
        /\ \A d \in Clients \ {c} : Same(d)
        /\ Types' /\ \A j \in Conns : Ends(out'[j])
        /\ \A j \in Conns : j # k => Line(j)' = Line(j)
        /\ SameButToProc(l, n) /\ n.toProc = l.toProc \o BodyOf(m)
    BY <1>1, <1>2, WriteBodyTo
  <1>4. pc[c] \in {"newClient", "recvParams", "key", "recover"}
    BY <1>3 DEF SendSteps, Handler
  <1>5. m \in Msgs
    BY <1>2, <1>3, OutgoingType
  <1>6. Fed(n) /\ Quiet(n) /\ n.toProc # <<>> /\ End(n.toProc) = <<m, Total(m)>> /\ n.side = "own"
    <2>1. Sending(l, m, TRUE)
      BY <1>2, <1>3, <1>4 DEF OwnLine, Types
    <2>2. l.side = "own"
      BY LineFields
    <2> HIDE DEF l, n, m
    <2>3. QED
      BY <1>3, <1>5, <2>1, <2>2, SendBody DEF SameButToProc
  <1>7. size'[c] = None /\ got'[c] = <<>> /\ received'[c] = received[c] /\ wrote'[c] = FALSE
    <2>1. pc[c] \notin RecvSteps \cup {"panic"}
      BY <1>4 DEF RecvSteps
    <2>2. size[c] = None /\ got[c] = <<>>
      BY <1>2, <2>1 DEF Has
    <2>3. wrote'[c] \in BOOLEAN
      BY <1>3 DEF Types
    <2>4. QED
      BY <1>3, <2>2, <2>3
  <1> HIDE DEF n, m
  <1>8. ASSUME NEW o, ~Asks(m), Takes("own", o, StageAfter(m)) PROVE Sending(n, o, FALSE)
    <2>1. End(n.toProc)[1] = m /\ End(n.toProc)[2] = Total(m)
      BY <1>6
    <2>2. QED
      BY <1>6, <1>8, <2>1, MaySend
  <1>9. ASSUME Asks(m), NEW o, o.i <= 1, NEW f PROVE Receiving(n, m, o, f, <<>>, None)
    BY <1>6, <1>9, Waits
  <1>10. /\ pc[c] = "newClient" => pc'[c] = "init"
         /\ pc[c] = "recvParams" => pc'[c] = "key"
         /\ pc[c] = "key" => pc'[c] = IF count[c] + 1 < Batch THEN "key" ELSE "queries"
         /\ pc[c] = "recover" => pc'[c] = "token"
    BY <1>3 DEF AfterSend, AfterKey
  <1>11. ASSUME OwnLine(c)', Has(c)', HasTokens(c)' PROVE Good'
    <2>1. /\ pc'[c] \notin {"reset", "dims", "hint", "params", "answer", "setQuery", "ask", "panic"}
          /\ pc'[c] \in Initialised => pc[c] \in Initialised
          /\ pc'[c] \in {"recover", "token", "ask"} => pc[c] \in {"recover", "token"}
          /\ session' = session /\ pc[c] \notin {"off", "done", "panic"}
      BY <1>3, <1>4, <1>10 DEF Initialised
    <2>2. FatalHasCause'
      <3>1. \A d \in Clients : pc'[d] = "panic" => pc[d] = "panic"
        BY <1>3, <2>1 DEF Same
      <3>2. QED
        BY <1>3, <3>1, NoneFails DEF Good
    <2>3. QED
      BY <1>1, <1>3, <1>4, <1>7, <1>11, <2>1, <2>2, OwnStep DEF hcVars
  <1>12. HasTokens(c)' /\ Has(c)'
    <2>1. count'[c] < Batch
      BY <1>2, <1>3, <1>4, <1>10
    <2>2. Has(c)'
      BY <1>2, <1>3, <1>4, <1>7, <1>10, <2>1 DEF Has
    <2>3. HasTokens(c)'
      BY <1>2, <1>3, <1>4, <1>7, <1>10 DEF HasTokens, Token
    <2>4. QED
      BY <2>2, <2>3
  <1>13. CASE pc[c] = "newClient"
    <2>1. m = NoMsg("newClient") /\ pc'[c] = "init"
      BY <1>10, <1>13 DEF m, Outgoing, NoMsg
    <2>2. ~Asks(m) /\ StageAfter(m) = <<"params", 0>> /\ NoMsg("params").kind = "params"
      BY <2>1 DEF Asks, StageAfter, NoMsg, Msg
    <2>3. Sending(n, NoMsg("params"), FALSE)
      BY <1>8, <2>2 DEF Takes
    <2>4. QED
      BY <1>11, <1>12, <2>1, <2>3 DEF OwnLine, BeforeParams, BeforeAnswer, n
  <1>14. CASE pc[c] = "recvParams"
    <2>1. m = received[c]["params"] /\ pc'[c] = "key" /\ count'[c] = 0
      BY <1>3, <1>10, <1>14 DEF m, Outgoing
    <2>2. m.kind = "params"
      BY <1>2, <2>1 DEF Has, NoMsg, Msg
    <2>3. ~Asks(m) /\ StageAfter(m) = <<"keys", 0>>
      BY <2>2 DEF Asks, StageAfter
    <2>4. Outgoing(c)' = Msg("key", None, c, 1)
      BY <2>1 DEF Outgoing
    <2>5. Sending(n, Msg("key", None, c, 1), FALSE)
      <3>1. Takes("own", Msg("key", None, c, 1), <<"keys", 0>>)
        BY <1>2 DEF Takes, Msg
      <3>2. QED
        BY <1>8, <2>3, <3>1
    <2>6. QED
      BY <1>7, <1>11, <1>12, <2>1, <2>4, <2>5 DEF OwnLine, BeforeParams, BeforeAnswer, n
  <1>15. CASE pc[c] = "key"
    <2>1. m = Msg("key", None, c, count[c] + 1) /\ m.kind = "key" /\ m.i = count[c] + 1
      BY <1>15 DEF m, Outgoing, Msg
    <2>2. CASE count[c] + 1 < Batch
      <3>1. pc'[c] = "key" /\ count'[c] = count[c] + 1
        BY <1>3, <1>10, <1>15, <2>2
      <3>2. ~Asks(m) /\ StageAfter(m) = <<"keys", count[c] + 1>>
        BY <1>2, <2>1, <2>2 DEF Asks, StageAfter
      <3> DEFINE o == Msg("key", None, c, (count[c] + 1) + 1)
      <3>3. Outgoing(c)' = o
        BY <3>1 DEF Outgoing
      <3>4. Takes("own", o, <<"keys", count[c] + 1>>)
        <4>1. o.kind = "key" /\ o.i \in 1..Batch /\ o.i - 1 = count[c] + 1
          BY <1>2, <2>2 DEF Msg
        <4> HIDE DEF o
        <4>2. QED
          BY <4>1 DEF Takes
      <3> HIDE DEF o
      <3>5. Sending(n, o, FALSE)
        BY <1>8, <3>2, <3>4
      <3>6. QED
        BY <1>7, <1>11, <1>12, <3>1, <3>3, <3>5 DEF OwnLine, BeforeParams, BeforeAnswer, n
    <2>3. CASE ~(count[c] + 1 < Batch)
      <3>1. pc'[c] = "queries" /\ count[c] + 1 = Batch
        BY <1>2, <1>10, <1>15, <2>3
      <3> DEFINE o == Msg("queries", None, c, 0)
      <3>2. Asks(m) /\ o.i <= 1
        BY <2>1, <3>1 DEF Asks, Msg
      <3>3. Question(c)' = m /\ Incoming(c)' = o /\ LastComing(c)' = o
        BY <2>1, <3>1 DEF Question, Incoming, LastComing
      <3> HIDE DEF o
      <3>4. Receiving(n, m, o, o, <<>>, None)
        BY <1>9, <3>2
      <3>5. Reading(c, l)'
        BY <1>7, <3>3, <3>4 DEF Reading, n
      <3>6. QED
        BY <1>11, <1>12, <3>1, <3>5 DEF OwnLine, BeforeParams, BeforeAnswer
    <2>4. QED
      BY <2>2, <2>3
  <1>16. CASE pc[c] = "recover"
    <2>1. m = received[c]["answer"] /\ pc'[c] = "token" /\ count'[c] = 0
      BY <1>3, <1>10, <1>16 DEF m, Outgoing
    <2>2. m.kind = "answer"
      BY <1>2, <2>1 DEF Has, NoMsg, Msg
    <2> DEFINE o == Token(c, 0 + 1)'
               f == Token(c, Batch)'
    <2>3. Question(c)' = m /\ Incoming(c)' = o /\ LastComing(c)' = f
      BY <1>7, <2>1 DEF Question, Incoming, LastComing
    <2>4. Asks(m) /\ o.i <= 1
      BY <2>2 DEF Asks, Token, Msg
    <2> HIDE DEF o, f
    <2>5. Receiving(n, m, o, f, <<>>, None)
      BY <1>9, <2>4
    <2>6. Reading(c, l)'
      BY <1>7, <2>3, <2>5 DEF Reading, n
    <2>7. QED
      BY <1>11, <1>12, <2>1, <2>6 DEF OwnLine, BeforeParams, BeforeAnswer
  <1>17. QED
    BY <1>4, <1>13, <1>14, <1>15, <1>16

\* What a client that reads has asked, gets next and gets last are messages.
LEMMA ReadingMsgs ==
    ASSUME Types, NEW c \in Clients, pc[c] \in RecvSteps, pc[c] = "answer" => served # None
    PROVE  Question(c) \in Msgs /\ Incoming(c) \in Msgs /\ LastComing(c) \in Msgs
  <1>1. /\ None \in Names /\ c \in Names /\ 0 \in Nat /\ count[c] + 1 \in Nat /\ Batch \in Nat
        /\ received[c] \in [RecvSteps -> Msgs]
    <2>1. None \in Names /\ c \in Names /\ 0 \in Nat /\ Batch \in Nat
      BY SocketAssumption DEF Names
    <2>2. count[c] \in Nat /\ received[c] \in [RecvSteps -> Msgs]
      BY DEF Types
    <2>3. QED
      BY <2>1, <2>2
  <1>2. \A kind \in Kinds, i \in Nat : \A h, q \in Names : Msg(kind, h, q, i) \in Msgs
    BY MsgType
  <1>3. received[c]["answer"] \in Msgs
    BY <1>1 DEF RecvSteps
  <1>4. ASSUME NEW i \in Nat PROVE Token(c, i) \in Msgs
    BY <1>2, <1>3, MsgFields DEF Token, Kinds
  <1>5. CASE pc[c] = "params"
    BY <1>1, <1>2, <1>5 DEF Question, Incoming, LastComing, Kinds
  <1>6. CASE pc[c] = "queries"
    BY <1>1, <1>2, <1>6 DEF Question, Incoming, LastComing, Kinds
  <1>7. CASE pc[c] = "answer"
    <2>1. <<"hc", served>> \in Conns
      BY <1>7 DEF Types, Names, Conns
    <2>2. Hc.proc = proc[<<"hc", served>>]
      BY LineFields DEF Hc
    <2>3. Hc.proc.hint \in Names /\ Hc.proc.keys \in Names
      BY <2>1, <2>2 DEF Types, Procs
    <2>4. QED
      BY <1>1, <1>2, <1>7, <2>3 DEF Question, Incoming, LastComing, Kinds, NoMsg
  <1>8. CASE pc[c] = "token"
    BY <1>1, <1>3, <1>4, <1>8 DEF Question, Incoming, LastComing
  <1>9. QED
    BY <1>5, <1>6, <1>7, <1>8 DEF RecvSteps

\* The size of a message from its own process.
LEMMA OwnReadSize ==
    ASSUME Good, ~overlapped, NEW c \in Clients, ReadSize(c), pc[c] \notin Handler, driver' = driver
    PROVE  Good'
  <1> DEFINE k == <<"own", c>>
             l == Line(k)
             n == Line(k)'
             j == Least({SizeLen, Len(toGo[k])})
  <1>1. k = Conn(c) /\ k \in Conns
    BY ConnsOf DEF Conn
  <1>2. Types /\ Has(c) /\ HasTokens(c) /\ OwnLine(c)
    BY DEF Good
  <1>3. /\ pc[c] \in RecvSteps /\ size[c] = None /\ toGo[k] # <<>>
        /\ TakesOff(l, n, j)
        /\ IF j < SizeLen THEN Fatal(c) /\ size' = size
           ELSE /\ pc' = pc /\ down' = down
                /\ IsSize(Prefix(toGo[k], j)) => size'[c] = Length[toGo[k][1][1].kind]
        /\ UNCHANGED <<session, served, count, iter, wrote, got, received, tokens, toProc, proc, out>>
        /\ \A d \in Clients \ {c} : Same(d)
        /\ Types' /\ \A i \in Conns : i # k => Line(i)' = Line(i)
    BY <1>1, <1>2, ReadSizeTo
  <1>4. pc[c] \in {"queries", "token"}
    BY <1>3 DEF RecvSteps, Handler
  <1> DEFINE q == Question(c)
             m == Incoming(c)
             f == LastComing(c)
  <1>5. Receiving(l, q, m, f, got[c], None) /\ f \in Msgs
    BY <1>2, <1>3, <1>4, ReadingMsgs DEF OwnLine, Reading
  <1>6. l.toGo = toGo[k] /\ l.whole = driver.wholeSizes
    BY LineFields
  <1>7. IF j < SizeLen THEN ~l.whole
        ELSE /\ IsSize(Prefix(toGo[k], j)) /\ toGo[k][1][1] = m
             /\ Receiving(n, q, m, f, got[c], Length[m.kind])
    <2> HIDE DEF l, n, q, m, f
    <2>1. l.toGo # <<>> /\ TakesOff(l, n, Least({SizeLen, Len(l.toGo)})) /\ j = Least({SizeLen, Len(l.toGo)})
      BY <1>3, <1>6
    <2> HIDE DEF j
    <2>2. QED
      BY <1>5, <1>6, <2>1, ReadsSize
  <1> HIDE DEF l, n, j
  <1>8. ASSUME OwnLine(c)', Has(c)', HasTokens(c)', FatalHasCause', down' = down,
               pc'[c] = pc[c] \/ pc'[c] = "panic"
        PROVE  Good'
    <2>1. /\ pc'[c] \notin {"reset", "dims", "hint", "params", "answer", "setQuery", "ask"}
          /\ pc'[c] \in Initialised => pc[c] \in Initialised
          /\ pc'[c] \in {"recover", "token", "ask"} => pc[c] \in {"recover", "token"}
          /\ pc[c] \notin {"off", "done", "panic"} /\ received'[c]["answer"] = received[c]["answer"]
      BY <1>3, <1>4, <1>8 DEF Initialised
    <2>2. \A i \in Conns : Ends(out'[i])
      BY <1>3 DEF Good
    <2>3. QED
      BY <1>3, <1>8, <2>1, <2>2, OwnStep DEF hcVars
  <1>9. CASE j < SizeLen
    <2>1. pc'[c] = "panic" /\ down' = down
      BY <1>2, <1>3, <1>9, FatalTo
    <2>2. OwnLine(c)'
      BY <2>1 DEF OwnLine, BeforeParams, BeforeAnswer
    <2>3. Has(c)' /\ HasTokens(c)'
      BY <1>2, <1>3, <1>4, <2>1 DEF Has, HasTokens, Token, RecvSteps, SendSteps
    <2>4. FatalHasCause'
      BY <1>6, <1>7, <1>9 DEF FatalHasCause
    <2>5. QED
      BY <1>8, <2>1, <2>2, <2>3, <2>4
  <1>10. CASE ~(j < SizeLen)
    <2>1. pc' = pc /\ down' = down /\ size'[c] = Length[m.kind]
      BY <1>3, <1>7, <1>10
    <2>2. q' = q /\ m' = m /\ f' = f /\ \A i : Token(c, i)' = Token(c, i)
      BY <1>3, <1>4, <2>1, SameMessages DEF RecvSteps
    <2>3. Reading(c, Line(k))'
      <3>1. Receiving(n, q, m, f, got[c], Length[m.kind])
        BY <1>7, <1>10
      <3> HIDE DEF q, m, f
      <3>2. QED
        BY <1>3, <2>1, <2>2, <3>1 DEF Reading, n, q, m, f
    <2>4. OwnLine(c)'
      BY <1>4, <2>1, <2>3 DEF OwnLine, BeforeParams, BeforeAnswer
    <2>5. Has(c)' /\ HasTokens(c)'
      BY <1>2, <1>3, <1>4, <2>1, <2>2 DEF Has, HasTokens, RecvSteps
    <2>6. FatalHasCause'
      BY <1>3, <2>1, NoneFails DEF Good
    <2>7. QED
      BY <1>8, <2>1, <2>4, <2>5, <2>6
  <1>11. QED
    BY <1>9, <1>10

\* A client that reads the bytes of a message has read its size.
LEMMA ReceivingBody ==
    ASSUME NEW l, NEW q, NEW m, NEW f, NEW g, NEW s, Receiving(l, q, m, f, g, s), s # None
    PROVE  Len(g) < s
  BY DEF Receiving, Read

\* Its bytes: the queries, or the next token.
LEMMA OwnReadBody ==
    ASSUME Good, ~overlapped, NEW c \in Clients, ReadBody(c), pc[c] \notin Handler, driver' = driver
    PROVE  Good'
  <1> DEFINE k == <<"own", c>>
             l == Line(k)
             n == Line(k)'
             q == Question(c)
             m == Incoming(c)
             f == LastComing(c)
             j == ToRead(c, toGo[k])
             u == got[c] \o Prefix(toGo[k], j)
             next == Msg(m.kind, m.hint, m.keys, m.i + 1)
  <1>1. k = Conn(c) /\ k \in Conns
    BY ConnsOf DEF Conn
  <1>2. /\ Types /\ Has(c) /\ HasTokens(c) /\ OwnLine(c)
        /\ Batch \in Nat \ {0} /\ count[c] \in Nat /\ count[c] < Batch
    <2>1. Types /\ Has(c) /\ HasTokens(c) /\ OwnLine(c)
      BY DEF Good
    <2>2. Batch \in Nat \ {0} /\ count[c] \in Nat /\ count[c] < Batch
      BY <2>1, SocketAssumption DEF Types, Has
    <2>3. QED
      BY <2>1, <2>2
  <1>3. pc[c] \in {"queries", "token"} /\ size[c] # None
    BY DEF ReadBody, RecvSteps, Handler
  <1>4. Receiving(l, q, m, f, got[c], size[c]) /\ f \in Msgs /\ Len(got[c]) < size[c]
    <2>1. Receiving(l, q, m, f, got[c], size[c])
      BY <1>2, <1>3 DEF OwnLine, Reading
    <2>2. f \in Msgs
      BY <1>2, <1>3, ReadingMsgs DEF RecvSteps
    <2> HIDE DEF l, q, m, f
    <2>3. QED
      BY <1>3, <2>1, <2>2, ReceivingBody
  <1>5. /\ size[c] \in Nat /\ toGo[k] # <<>>
        /\ j \in Nat /\ j <= size[c] - Len(got[c]) /\ TakesOff(l, n, j)
        /\ IF ~(Len(u) >= size[c])
           THEN got'[c] = u /\ UNCHANGED <<pc, count, size, received, tokens>>
           ELSE /\ got'[c] = <<>> /\ size'[c] = None
                /\ IsBody(u) =>
                     /\ received'[c] = [received[c] EXCEPT ![pc[c]] = u[1][1]]
                     /\ tokens'[c] = IF pc[c] = "token" THEN Append(tokens[c], u[1][1]) ELSE tokens[c]
                /\ count'[c] = IF AfterRecv(c) = "token" /\ pc[c] = "token" THEN count[c] + 1 ELSE 0
                /\ pc'[c] = AfterRecv(c)
        /\ UNCHANGED <<hcVars, iter, wrote, toProc, proc, out>>
        /\ \A d \in Clients \ {c} : Same(d)
        /\ Types' /\ \A i \in Conns : i # k => Line(i)' = Line(i)
    BY <1>1, <1>2, <1>4, ReadBodyTo
  <1>6. l.toGo = toGo[k] /\ n.side = "own"
    <2>1. k[1] = "own"
      OBVIOUS
    <2>2. l.side = "own" /\ n.side = l.side /\ l.toGo = toGo[k]
      BY <2>1, LineFields
    <2>3. QED
      BY <2>2
  <1>7. /\ Fed(n) /\ n.toProc = <<>> /\ n.proc.at = "ready"
        /\ IF ~(Len(u) >= size[c]) THEN Receiving(n, q, m, f, u, size[c])
           ELSE /\ IsBody(u) /\ u[1][1] = m
                /\ IF m.i < f.i THEN \A o : Receiving(n, o, next, f, <<>>, None)
                   ELSE m.i = f.i /\ Quiet(n)
    <2> HIDE DEF l, n, q, m, f, j
    <2>1. got[c] \in Seq(Units) /\ size[c] \in Nat /\ j \in Nat /\ j <= size[c] - Len(got[c])
          /\ TakesOff(l, n, j) /\ u = got[c] \o Prefix(l.toGo, j)
      BY <1>2, <1>5, <1>6 DEF Types
    <2>2. LET v == got[c] \o Prefix(l.toGo, j)
              x == Msg(m.kind, m.hint, m.keys, m.i + 1)
          IN /\ v \in Seq(Units) /\ Fed(n) /\ n.toProc = <<>> /\ n.proc = l.proc
             /\ n.proc.at = "ready"
             /\ IF ~(Len(v) >= size[c]) THEN Receiving(n, q, m, f, v, size[c])
                ELSE /\ IsBody(v) /\ v[1][1] = m
                     /\ IF m.i < f.i THEN \A o : Receiving(n, o, x, f, <<>>, None)
                        ELSE m.i = f.i /\ Quiet(n)
      BY <1>4, <2>1, ReadsBody
    <2> HIDE DEF u
    <2>3. QED
      BY <2>1, <2>2
  <1>8. ~wrote[c] /\ ~wrote'[c] /\ wrote'[c] = FALSE
    <2>1. ~wrote[c]
      BY <1>2, <1>3 DEF Has, SendSteps
    <2>2. wrote[c] \in BOOLEAN /\ wrote' = wrote
      BY <1>2, <1>5 DEF Types
    <2>3. QED
      BY <2>1, <2>2
  <1> HIDE DEF l, n, j, u
  <1>9. ASSUME OwnLine(c)', Has(c)', HasTokens(c)', received'[c]["answer"] = received[c]["answer"],
               pc'[c] \in {"queries", "setQuery", "token", "ask", "done"},
               pc'[c] \in {"token", "ask"} => pc[c] = "token"
        PROVE  Good'
    <2>1. /\ pc'[c] \notin {"reset", "dims", "hint", "params", "answer"}
          /\ pc'[c] \in Initialised => pc[c] \in Initialised
          /\ pc'[c] \in {"recover", "token", "ask"} => pc[c] \in {"recover", "token"}
          /\ pc[c] \notin {"off", "done", "panic"}
      BY <1>3, <1>9 DEF Initialised
    <2>2. \A i \in Conns : Ends(out'[i])
      BY <1>5 DEF Good
    <2>3. FatalHasCause'
      <3>1. \A d \in Clients : pc'[d] = "panic" => pc[d] = "panic"
        BY <1>5, <1>9 DEF Same
      <3>2. QED
        BY <1>5, <3>1, NoneFails DEF Good, hcVars
    <2>4. QED
      BY <1>5, <1>8, <1>9, <2>1, <2>2, <2>3, OwnStep
  <1>10. CASE ~(Len(u) >= size[c])
    <2>1. got'[c] = u /\ UNCHANGED <<pc, count, size, received, tokens>>
      BY <1>5, <1>10
    <2>2. q' = q /\ m' = m /\ f' = f /\ \A i : Token(c, i)' = Token(c, i)
      BY <1>3, <2>1, SameMessages DEF RecvSteps
    <2>3. Reading(c, Line(k))'
      <3>1. Receiving(n, q, m, f, u, size[c])
        BY <1>7, <1>10
      <3> HIDE DEF q, m, f
      <3>2. QED
        BY <2>1, <2>2, <3>1 DEF Reading, n, q, m, f
    <2>4. OwnLine(c)'
      BY <1>3, <2>1, <2>3 DEF OwnLine, BeforeParams, BeforeAnswer
    <2>5. Has(c)' /\ HasTokens(c)'
      BY <1>2, <1>3, <1>8, <2>1, <2>2 DEF Has, HasTokens, RecvSteps
    <2>6. QED
      BY <1>3, <1>9, <2>1, <2>4, <2>5
  <1>11. CASE Len(u) >= size[c]
    <2>1. /\ got'[c] = <<>> /\ size'[c] = None /\ pc'[c] = AfterRecv(c)
          /\ received'[c] = [received[c] EXCEPT ![pc[c]] = m]
          /\ tokens'[c] = IF pc[c] = "token" THEN Append(tokens[c], m) ELSE tokens[c]
          /\ count'[c] = IF AfterRecv(c) = "token" /\ pc[c] = "token" THEN count[c] + 1 ELSE 0
          /\ IF m.i < f.i THEN \A o : Receiving(n, o, next, f, <<>>, None) ELSE m.i = f.i /\ Quiet(n)
      BY <1>5, <1>7, <1>11
    <2>2. received[c] \in [RecvSteps -> Msgs] /\ tokens[c] \in Seq(Msgs)
      BY <1>2 DEF Types
    <2>3. /\ received'[c]["answer"] = received[c]["answer"] /\ received'[c]["params"] = received[c]["params"]
          /\ \A i : Token(c, i)' = Token(c, i)
      <3>1. /\ received'[c]["answer"] = received[c]["answer"] /\ received'[c]["params"] = received[c]["params"]
        BY <1>3, <2>1, <2>2 DEF RecvSteps
      <3>2. QED
        BY <3>1 DEF Token
    <2>4. ASSUME Quiet(n) PROVE Sending(n, NoMsg("answer"), FALSE)
      <3>1. Stage(n.proc)[1] = "ready"
        BY <1>7 DEF Stage
      <3>2. Takes(n.side, NoMsg("answer"), Stage(n.proc))
        BY <1>6, <3>1 DEF Takes, NoMsg, Msg
      <3>3. QED
        BY <1>7, <2>4, <3>2, MaySend
    <2>5. CASE pc[c] = "queries"
      <3>1. /\ pc'[c] = "setQuery" /\ m = Msg("queries", None, c, 0) /\ m.i = 0 /\ f.i = 0 /\ m.keys = c
            /\ tokens'[c] = tokens[c] /\ count'[c] = 0
        BY <2>1, <2>5 DEF AfterRecv, Incoming, LastComing, Msg
      <3>2. Sending(n, NoMsg("answer"), FALSE)
        <4>1. ~(m.i < f.i)
          BY <3>1
        <4>2. QED
          BY <2>1, <2>4, <4>1
      <3>3. OwnLine(c)'
        BY <3>1, <3>2 DEF OwnLine, BeforeParams, BeforeAnswer, n
      <3>4. received'[c]["queries"] = m
        BY <2>1, <2>2, <2>5 DEF RecvSteps
      <3>5. Has(c)'
        BY <1>2, <1>8, <2>1, <2>3, <3>1, <3>4 DEF Has, RecvSteps
      <3>6. HasTokens(c)'
        BY <1>2, <2>3, <2>5, <3>1 DEF HasTokens
      <3>7. QED
        BY <1>9, <2>3, <3>1, <3>3, <3>5, <3>6
    <2>6. CASE pc[c] = "token"
      <3>1. /\ m = Token(c, count[c] + 1) /\ f = Token(c, Batch) /\ m.i = count[c] + 1 /\ f.i = Batch
            /\ next = Token(c, (count[c] + 1) + 1)
            /\ tokens'[c] = Append(tokens[c], m)
            /\ pc'[c] = AfterToken(c)
            /\ count'[c] = IF AfterToken(c) = "token" THEN count[c] + 1 ELSE 0
        BY <2>1, <2>6 DEF AfterRecv, Incoming, LastComing, Token, Msg
      <3>2. received'[c]["queries"] = received[c]["queries"]
        BY <2>1, <2>2, <2>6 DEF RecvSteps
      <3>3. Len(tokens[c]) = count[c] /\ received[c]["answer"] # NoMsg("answer")
            /\ \A i \in DOMAIN tokens[c] : tokens[c][i] = Token(c, i)
        BY <1>2, <2>6 DEF HasTokens
      <3>4. Len(tokens'[c]) = count[c] + 1 /\ \A i \in DOMAIN tokens'[c] : tokens'[c][i] = Token(c, i)
        <4> DEFINE t == tokens[c]
        <4>1. t \in Seq(Msgs) /\ Len(t) = count[c] /\ tokens'[c] = Append(t, m) /\ m = Token(c, Len(t) + 1)
              /\ \A i \in DOMAIN t : t[i] = Token(c, i)
          BY <2>2, <3>1, <3>3
        <4> HIDE DEF t, m
        <4>2. /\ Len(Append(t, m)) = Len(t) + 1 /\ DOMAIN Append(t, m) = 1..Len(t) + 1
              /\ \A i \in 1..Len(t) : Append(t, m)[i] = t[i]
              /\ Append(t, m)[Len(t) + 1] = m /\ DOMAIN t = 1..Len(t) /\ Len(t) \in Nat
          BY <4>1
        <4>3. \A i \in 1..Len(t) + 1 : i \in 1..Len(t) \/ i = Len(t) + 1
          BY <4>2
        <4>4. QED
          BY <4>1, <4>2, <4>3
      <3>5. CASE count[c] + 1 < Batch
        <4>1. pc'[c] = "token" /\ count'[c] = count[c] + 1
          BY <3>1, <3>5 DEF AfterToken
        <4>2. Receiving(n, received'[c]["answer"], next, f, <<>>, None)
          BY <2>1, <3>1, <3>5
        <4>3. Question(c)' = received'[c]["answer"] /\ Incoming(c)' = next /\ LastComing(c)' = f
          BY <2>3, <3>1, <4>1 DEF Question, Incoming, LastComing
        <4>4. Reading(c, Line(k))'
          <5> HIDE DEF m, f, next
          <5>1. QED
            BY <2>1, <4>2, <4>3 DEF Reading, n
        <4>5. OwnLine(c)'
          BY <4>1, <4>4 DEF OwnLine, BeforeParams, BeforeAnswer
        <4>6. Has(c)'
          BY <1>2, <1>8, <2>3, <3>2, <3>5, <4>1 DEF Has, RecvSteps
        <4>7. HasTokens(c)'
          BY <2>3, <3>3, <3>4, <4>1 DEF HasTokens
        <4>8. QED
          BY <1>9, <2>3, <2>6, <4>1, <4>5, <4>6, <4>7
      <3>6. CASE ~(count[c] + 1 < Batch)
        <4>1. pc'[c] \in {"ask", "done"} /\ count'[c] = 0 /\ ~(m.i < f.i)
          BY <3>1, <3>6 DEF AfterToken
        <4>2. Sending(n, NoMsg("answer"), FALSE)
          BY <2>1, <2>4, <4>1
        <4>3. OwnLine(c)'
          BY <4>1, <4>2 DEF OwnLine, BeforeParams, BeforeAnswer, n
        <4>4. Has(c)'
          BY <1>2, <1>8, <2>1, <2>3, <3>2, <4>1 DEF Has, RecvSteps
        <4>5. HasTokens(c)'
          BY <2>3, <3>3, <3>4, <4>1 DEF HasTokens
        <4>6. QED
          BY <1>9, <2>3, <2>6, <4>1, <4>3, <4>4, <4>5
      <3>7. QED
        BY <3>5, <3>6
    <2>7. QED
      BY <1>3, <2>5, <2>6
  <1>12. QED
    BY <1>10, <1>11

\* A client's own process never leaves it waiting.
LEMMA OwnReadFails ==
    ASSUME Good, NEW c \in Clients, ReadFails(c), pc[c] \notin Handler
    PROVE  FALSE
  <1> DEFINE k == <<"own", c>>
  <1>1. k = Conn(c) /\ OwnLine(c)
    BY DEF Conn, Good
  <1>2. pc[c] \in {"queries", "token"} /\ proc[k].at \in Stopped
    BY <1>1 DEF ReadFails, RecvSteps, Handler, Stopped
  <1>3. Receiving(Line(k), Question(c), Incoming(c), LastComing(c), got[c], size[c])
    BY <1>1, <1>2 DEF OwnLine, Reading
  <1>4. Line(k).proc = proc[k]
    BY LineFields
  <1>5. QED
    BY <1>2, <1>3, <1>4, ReceivingRuns

\* A client and its process start.
LEMMA OwnStart ==
    ASSUME Good, ~overlapped, NEW c \in Clients, Start(c), driver' = driver
    PROVE  Good'
  <1> DEFINE k == <<"own", c>>
  <1>1. Types /\ Has(c) /\ HasTokens(c) /\ OwnLine(c) /\ HcLine /\ k \in Conns
    BY ConnsOf DEF Good
  <1>2. /\ pc[c] = "off" /\ Cardinality(Running) < driver.limit
        /\ pc' = [pc EXCEPT ![c] = "newClient"]
        /\ session' = session /\ served' = served /\ down' = down
        /\ count' = count /\ iter' = iter /\ wrote' = wrote /\ got' = got /\ size' = size
        /\ received' = received /\ tokens' = tokens
        /\ toProc' = toProc /\ toGo' = toGo /\ proc' = proc /\ out' = out
    BY DEF Start, Goto, reading, wires
  <1>3. pc' \in [Clients -> Steps] /\ pc'[c] = "newClient" /\ \A d \in Clients \ {c} : pc'[d] = pc[d]
    BY <1>1, <1>2 DEF Types, Steps, SendSteps
  <1>4. Types'
    BY <1>1, <1>2, <1>3 DEF Types
  <1>5. \A j \in Conns : Line(j)' = Line(j)
    BY <1>2, SameLine
  <1>6. \A d \in Clients \ {c} : Same(d)
    BY <1>2, <1>3 DEF Same
  <1>7. InHandler' = InHandler /\ \A d \in InHandler : Same(d)
    <2>1. ASSUME NEW d \in Clients PROVE d \in InHandler' <=> d \in InHandler
      <3>1. CASE d = c
        BY <1>2, <1>3, <3>1 DEF InHandler
      <3>2. CASE d # c
        BY <1>6, <3>2 DEF InHandler, Same
      <3>3. QED
        BY <3>1, <3>2
    <2>2. \A d : (d \in InHandler' => d \in Clients) /\ (d \in InHandler => d \in Clients)
      BY DEF InHandler
    <2>3. c \notin InHandler
      BY <1>2 DEF InHandler
    <2>4. QED
      BY <1>6, <2>1, <2>2, <2>3
  <1>8. HcLine' /\ (served # None => Hc' = Hc)
    <2>1. \A d \in Clients : Line(<<"hc", d>>)' = Line(<<"hc", d>>)
      BY <1>5, ConnsOf
    <2>2. \A d \in Clients : pc'[d] \in Initialised => pc[d] \in Initialised
      BY <1>3 DEF Initialised
    <2>3. QED
      BY <1>1, <1>2, <1>7, <2>1, <2>2, HcUntouched
  <1>9. Has(c)' /\ HasTokens(c)' /\ OwnLine(c)'
    <2>1. \A i : Token(c, i)' = Token(c, i)
      BY <1>2 DEF Token
    <2>2. ~wrote[c] /\ wrote[c] \in BOOLEAN /\ wrote'[c] = wrote[c]
      BY <1>1, <1>2 DEF Has, Types, SendSteps
    <2>3. Has(c)'
      BY <1>1, <1>2, <1>3, <2>2 DEF Has, SendSteps, RecvSteps
    <2>4. HasTokens(c)'
      BY <1>1, <1>2, <1>3, <2>1 DEF HasTokens
    <2>5. Sending(Line(k), NoMsg("newClient"), FALSE)
      <3>1. Fresh(Line(k)) /\ driver \in Drivers /\ k[1] = "own"
        BY <1>1, <1>2 DEF OwnLine, Types
      <3>2. QED
        BY <1>1, <3>1, FreshSends
    <2>6. Outgoing(c)' = NoMsg("newClient") /\ wrote'[c] = FALSE
      BY <1>3, <2>2 DEF Outgoing, NoMsg
    <2>7. OwnLine(c)'
      BY <1>1, <1>3, <1>5, <2>5, <2>6 DEF OwnLine, BeforeParams, BeforeAnswer
    <2>8. QED
      BY <2>3, <2>4, <2>7
  <1>10. \A d \in Clients : Has(d)' /\ HasTokens(d)' /\ OwnLine(d)'
    <2>1. ASSUME NEW d \in Clients, d # c PROVE Has(d)' /\ HasTokens(d)' /\ OwnLine(d)'
      <3>1. Same(d) /\ Line(<<"own", d>>)' = Line(<<"own", d>>)
        BY <1>5, <1>6, <2>1, ConnsOf
      <3>2. QED
        BY <3>1, OtherClient DEF Good
    <2>2. QED
      BY <1>9, <2>1
  <1>11. ASSUME driver'.limit = 1 PROVE OneAtATime'
    <2>1. OneAtATime /\ driver.limit = 1
      BY <1>11 DEF Good
    <2>2. Running = {}
      <3>1. SUFFICES ASSUME NEW d \in Running PROVE FALSE
        OBVIOUS
      <3>2. Running = {d}
        BY <2>1 DEF OneAtATime
      <3>3. QED
        BY <1>2, <2>1, <3>2, FS_Singleton
    <2>3. \A d, e \in Running' : d = e
      <3>1. \A d \in Clients \ {c} : pc'[d] \in {"off", "done", "panic"}
        BY <1>3, <2>2 DEF Running
      <3>2. QED
        BY <3>1 DEF Running
    <2>4. \A d \in Clients : received'[d]["answer"] \in {NoMsg("answer"), Msg("answer", d, d, 0)}
      BY <1>2, <2>1 DEF OneAtATime
    <2>5. ASSUME ~down', NEW d \in Clients, pc'[d] \in Initialised PROVE Alone(d)'
      <3>1. d # c /\ Same(d) /\ pc[d] \in Initialised /\ ~down
        BY <1>2, <1>3, <1>6, <2>5 DEF Initialised
      <3>2. d \in Running
        BY <3>1 DEF Running, Initialised
      <3>3. QED
        BY <2>2, <3>2
    <2>6. QED
      BY <2>3, <2>4, <2>5 DEF OneAtATime
  <1>12. FatalHasCause'
    <2>1. \A d \in Clients : pc'[d] = "panic" => pc[d] = "panic"
      BY <1>3
    <2>2. QED
      BY <1>2, <2>1, NoneFails DEF Good
  <1>13. QED
    BY <1>2, <1>4, <1>7, <1>8, <1>10, <1>11, <1>12 DEF Good

\* A step of a process.
LEMMA ProcessTo ==
    ASSUME Types, \A j \in Conns : Ends(out[j]), NEW k \in Conns, Process(k), driver' = driver
    PROVE  /\ UNCHANGED <<hcVars, client>> /\ \A d \in Clients : Same(d)
           /\ \A j \in Conns : j # k => Line(j)' = Line(j)
           /\ Types' /\ \A j \in Conns : Ends(out'[j])
           /\ \A j \in Conns : proc[j].at = "unset" => proc'[j].at = "unset"
           /\ Fed(Line(k)) => Reads(Line(k), Line(k)') \/ \E j \in Nat : Writes(Line(k), Line(k)', j)
           /\ out[k] # <<>> \/ Served(k)
  <1>1. CASE ProcReads(k)
    <2>1. /\ proc[k].at \notin Stopped /\ Served(k)
          /\ UNCHANGED <<hcVars, client, toGo>>
          /\ \A j \in Conns : j # k => toProc'[j] = toProc[j] /\ proc'[j] = proc[j] /\ out'[j] = out[j]
          /\ toProc' \in [Conns -> Seq(Units)] /\ proc' \in [Conns -> Procs]
          /\ out' \in [Conns -> Seq(Units)] /\ \A j \in Conns : Ends(out'[j])
      BY <1>1, ProcReadsTo
    <2>2. /\ pc' = pc /\ count' = count /\ iter' = iter /\ wrote' = wrote /\ got' = got /\ size' = size
          /\ received' = received /\ tokens' = tokens
          /\ session' = session /\ served' = served /\ down' = down /\ toGo' = toGo
      BY <2>1 DEF hcVars, client, reading
    <2>3. Types'
      BY <2>1, <2>2 DEF Types
    <2>4. \A d \in Clients : Same(d)
      BY <2>2 DEF Same
    <2>5. \A j \in Conns : j # k => Line(j)' = Line(j)
      BY <2>1, <2>2, SameLine
    <2>6. \A j \in Conns : proc[j].at = "unset" => proc'[j].at = "unset"
      BY <2>1 DEF Stopped
    <2>7. Fed(Line(k)) => Reads(Line(k), Line(k)')
      BY <1>1, ProcReadsLine
    <2>8. QED
      BY <2>1, <2>3, <2>4, <2>5, <2>6, <2>7
  <1>2. CASE ProcWrites(k)
    <2>1. /\ out[k] # <<>>
          /\ UNCHANGED <<hcVars, client, toProc, proc>>
          /\ \A j \in Conns : j # k => toGo'[j] = toGo[j] /\ out'[j] = out[j]
          /\ toGo' \in [Conns -> Seq(Units)] /\ out' \in [Conns -> Seq(Units)]
          /\ \A j \in Conns : Ends(out'[j])
          /\ \E j \in Nat : Writes(Line(k), Line(k)', j)
      BY <1>2, ProcWritesTo
    <2>2. /\ pc' = pc /\ count' = count /\ iter' = iter /\ wrote' = wrote /\ got' = got /\ size' = size
          /\ received' = received /\ tokens' = tokens
          /\ session' = session /\ served' = served /\ down' = down /\ toProc' = toProc /\ proc' = proc
      BY <2>1 DEF hcVars, client, reading
    <2>3. Types'
      BY <2>1, <2>2 DEF Types
    <2>4. \A d \in Clients : Same(d)
      BY <2>2 DEF Same
    <2>5. \A j \in Conns : j # k => Line(j)' = Line(j)
      BY <2>1, <2>2, SameLine
    <2>6. QED
      BY <2>1, <2>2, <2>3, <2>4, <2>5
  <1>3. QED
    BY <1>1, <1>2 DEF Process

\* What a client that reads waits for is begun, or is not answered yet.
LEMMA ReceivingFed ==
    ASSUME NEW l, NEW q, NEW m, NEW f, NEW g, NEW s, Receiving(l, q, m, f, g, s)
    PROVE  Fed(l)
  BY DEF Receiving, Awaited, Replying

\* A client's process reads what it replies to.
LEMMA OwnReplies ==
    ASSUME Types, NEW c \in Clients, Has(c), pc[c] \in {"queries", "token"}, NEW l, Reading(c, l),
           l.side = "own", NEW n, Reads(l, n)
    PROVE  Receiving(n, Question(c), Incoming(c), LastComing(c), got[c], size[c])
  <1> DEFINE q == Question(c)
             m == Incoming(c)
             f == LastComing(c)
             p == l.proc
  <1>1. q \in Msgs /\ m \in Msgs /\ f \in Msgs
    BY ReadingMsgs DEF RecvSteps
  <1>2. Receiving(l, q, m, f, got[c], size[c])
    BY DEF Reading
  <1>3. /\ size[c] = None /\ got[c] = <<>> /\ m.i <= 1
        /\ \/ Receiving(n, q, m, f, got[c], size[c])
           \/ Fed(n) /\ n.toProc = <<>> /\ n.toGo = <<>> /\ l.toProc[1][1] = q
    <2> HIDE DEF q, m, f
    <2>1. QED
      BY <1>1, <1>2, ReceivingReads
  <1>4. SUFFICES ASSUME Fed(n), n.toProc = <<>>, n.toGo = <<>>, l.toProc[1][1] = q
                 PROVE  Receiving(n, q, m, f, <<>>, None)
    BY <1>3
  <1>5. Takes("own", q, Stage(p)) /\ n.proc = ClientReacts(p, q)[1] /\ n.out = ClientReacts(p, q)[2]
    <2> HIDE DEF q, m, f
    <2>1. Fed(l) /\ Reads(l, n)
      BY <1>2, ReceivingFed
    <2>2. Takes(l.side, q, Stage(p))
      BY <1>4, <2>1, FedReads
    <2>3. QED
      BY <1>4, <2>2 DEF Reads, Reaction
  <1>6. p \in Procs /\ (p.at \in {"dims", "params"} => p.n = 0)
    <2> HIDE DEF q, m, f
    <2>1. Fed(l)
      BY <1>2, ReceivingFed
    <2>2. QED
      BY <2>1, LineType DEF Fed
  <1>7. CASE pc[c] = "queries"
    <2>1. /\ q.kind = "key" /\ q.i = Batch /\ q.keys = c /\ Asks(q)
          /\ m = Msg("queries", None, c, 0) /\ f = m
      BY <1>7 DEF Question, Incoming, LastComing, Msg, Asks
    <2> HIDE DEF q, m, f
    <2>2. n.proc.at = "ready" /\ n.out = Frame(m)
      BY <1>1, <1>5, <1>6, <2>1, ClientReactsTo
    <2>3. QED
      BY <1>1, <1>4, <2>1, <2>2, FrameBegins
  <1>8. CASE pc[c] = "token"
    <2>1. /\ q = received[c]["answer"] /\ m = Msg("token", q.hint, q.keys, count[c] + 1)
          /\ f = Msg("token", q.hint, q.keys, Batch) /\ m.i = count[c] + 1 /\ f.i = Batch
      BY <1>8 DEF Question, Incoming, LastComing, Token, Msg
    <2>2. m = Msg("token", q.hint, q.keys, 1)
      <3>1. count[c] \in Nat
        BY DEF Types
      <3>2. count[c] + 1 = 1
        BY <1>3, <2>1, <3>1
      <3>3. QED
        BY <2>1, <3>2
    <2>3. q.kind = "answer"
      BY <2>1 DEF Has, NoMsg, Msg
    <2> HIDE DEF q, m, f
    <2>4. n.proc.at = "ready" /\ n.out = Tokens(q)
      BY <1>1, <1>5, <1>6, <2>3, ClientReactsTo DEF Asks
    <2>5. /\ n.out # <<>> /\ Chain("back", n.out) /\ n.out[1] = <<m, 1>> /\ End(n.out) = <<f, Total(f)>>
          /\ \A x \in DOMAIN n.out : n.out[x][1].i <= f.i
      BY <1>1, <2>1, <2>2, <2>4, TokensChain
    <2>6. QED
      BY <1>1, <1>4, <2>4, <2>5, ReplyBegins
  <1>9. QED
    BY <1>7, <1>8

\* A client's own process reads or writes.
LEMMA OwnProcess ==
    ASSUME Good, ~overlapped, NEW c \in Clients, Process(<<"own", c>>), driver' = driver
    PROVE  Good'
  <1> DEFINE k == <<"own", c>>
             l == Line(k)
             n == Line(k)'
  <1>1. Types /\ (\A j \in Conns : Ends(out[j])) /\ Has(c) /\ HasTokens(c) /\ OwnLine(c) /\ k \in Conns
    BY ConnsOf DEF Good
  <1>2. /\ UNCHANGED <<hcVars, client>> /\ \A d \in Clients : Same(d)
        /\ \A j \in Conns : j # k => Line(j)' = Line(j)
        /\ Types' /\ \A j \in Conns : Ends(out'[j])
        /\ \A j \in Conns : proc[j].at = "unset" => proc'[j].at = "unset"
        /\ Fed(l) => Reads(l, n) \/ \E j \in Nat : Writes(l, n, j)
        /\ out[k] # <<>> \/ Served(k)
    BY <1>1, ProcessTo
  <1>3. /\ pc'[c] = pc[c] /\ count'[c] = count[c] /\ wrote'[c] = wrote[c] /\ got'[c] = got[c]
        /\ size'[c] = size[c] /\ received'[c] = received[c] /\ tokens'[c] = tokens[c]
    BY <1>2 DEF Same
  <1>4. l.side = "own" /\ l.out = out[k]
    BY LineFields
  <1>5. Has(c)' /\ HasTokens(c)'
    <2>1. \A i : Token(c, i)' = Token(c, i)
      BY <1>3, SameMessages
    <2>2. QED
      BY <1>1, <1>3, <2>1 DEF Has, HasTokens
  <1> HIDE DEF l, n
  <1>6. ASSUME NEW m \in Msgs, NEW begun \in BOOLEAN, Sending(l, m, begun) PROVE Sending(n, m, begun)
    <2>1. Fed(l) /\ l.out = <<>>
      BY <1>6 DEF Sending, Quiet
    <2>2. Reads(l, n)
      BY <1>2, <2>1 DEF Writes
    <2>3. QED
      BY <1>6, <2>2, SendingReads
  <1>7. ASSUME pc[c] \in {"queries", "token"} PROVE Reading(c, Line(k))'
    <2>1. Reading(c, l) /\ Receiving(l, Question(c), Incoming(c), LastComing(c), got[c], size[c])
      BY <1>1, <1>7 DEF OwnLine, Reading, l
    <2>2. Question(c)' = Question(c) /\ Incoming(c)' = Incoming(c) /\ LastComing(c)' = LastComing(c)
      BY <1>3, <1>7, SameMessages DEF RecvSteps
    <2>3. LastComing(c) \in Msgs
      BY <1>1, <1>7, ReadingMsgs DEF RecvSteps
    <2>4. Receiving(n, Question(c), Incoming(c), LastComing(c), got[c], size[c])
      <3>1. CASE Reads(l, n)
        BY <1>1, <1>4, <1>7, <2>1, <3>1, OwnReplies
      <3>2. CASE \E j \in Nat : Writes(l, n, j)
        BY <2>1, <2>3, <3>2, ReceivingWrites
      <3>3. Fed(l)
        BY <2>1, ReceivingFed
      <3>4. QED
        BY <1>2, <3>1, <3>2, <3>3
    <2>5. QED
      BY <1>3, <2>2, <2>4 DEF Reading, n
  <1>8. OwnLine(c)'
    <2>1. pc[c] # "off"
      <3>1. ASSUME pc[c] = "off" PROVE FALSE
        <4>1. out[k] = <<>>
          BY <1>1, <1>4, <3>1 DEF OwnLine, Fresh, l
        <4>2. ~Served(k)
          BY <3>1 DEF Served
        <4>3. QED
          BY <1>2, <4>1, <4>2
      <3>2. QED
        BY <3>1
    <2>2. ASSUME pc[c] \in {"newClient", "recvParams", "key", "recover"}
          PROVE  Sending(n, Outgoing(c)', wrote'[c])
      <3>1. Sending(l, Outgoing(c), wrote[c]) /\ wrote[c] \in BOOLEAN
        BY <1>1, <2>2 DEF OwnLine, Types, l
      <3>2. Outgoing(c) \in Msgs
        BY <1>1, <2>2, OutgoingType DEF SendSteps
      <3>3. Outgoing(c)' = Outgoing(c)
        BY <1>3, <2>2, SameMessages DEF SendSteps
      <3>4. QED
        BY <1>3, <1>6, <3>1, <3>2, <3>3
    <2>3. NoMsg("params") \in Msgs /\ NoMsg("answer") \in Msgs
      BY MsgType DEF NoMsg, Kinds, Names
    <2>4. pc[c] \in BeforeParams => Sending(n, NoMsg("params"), FALSE)
      BY <1>1, <1>6, <2>3 DEF OwnLine, l
    <2>5. pc[c] \in BeforeAnswer => Sending(n, NoMsg("answer"), FALSE)
      BY <1>1, <1>6, <2>3 DEF OwnLine, l
    <2>6. QED
      BY <1>3, <1>7, <2>1, <2>2, <2>4, <2>5 DEF OwnLine, n
  <1>9. FatalHasCause'
    BY <1>2, NoneFails DEF Good, hcVars, client
  <1>10. QED
    <2>1. Same(c) /\ received'[c]["answer"] = received[c]["answer"] /\ pc'[c] = pc[c]
      BY <1>2, <1>3
    <2>2. UNCHANGED hcVars /\ \A d \in Clients \ {c} : Same(d)
      BY <1>2
    <2>3. QED
      BY <1>2, <1>5, <1>8, <1>9, <2>1, <2>2, OwnStep

-----------------------------------------------------------------------------
(* Steps on the HC server's connection *)

\* The client that acts there is alone in its handler.
LEMMA OnlyHandler ==
    ASSUME Good, NEW c \in Clients, \A d \in Clients \ {c} : Same(d),
           \A a, b \in InHandler' : a = b, c \in InHandler \/ c \in InHandler'
    PROVE  (\A d \in InHandler : d = c) /\ (\A d \in InHandler' : d = c)
  <1>1. \A d : (d \in InHandler => d \in Clients) /\ (d \in InHandler' => d \in Clients)
    BY DEF InHandler
  <1>2. \A d \in Clients \ {c} : d \in InHandler' <=> d \in InHandler
    BY DEF InHandler, Same
  <1>3. \A a, b \in InHandler : a = b
    BY DEF Good
  <1>4. QED
    BY <1>1, <1>2, <1>3

\* What is left to show of a step on the connection.
LEMMA HcStep ==
    ASSUME Good, NEW c \in Clients, driver' = driver, \A d \in Clients \ {c} : Same(d),
           \A d \in Clients : Line(<<"own", d>>)' = Line(<<"own", d>>),
           \A a, b \in InHandler' : a = b,
           Types', \A k \in Conns : Ends(out'[k]), Has(c)', HasTokens(c)', OwnLine(c)', HcLine',
           driver.limit = 1 => OneAtATime', FatalHasCause'
    PROVE  Good'
  <1>1. \A d \in Clients : Has(d)' /\ HasTokens(d)' /\ OwnLine(d)'
    <2>1. ASSUME NEW d \in Clients, d # c PROVE Has(d)' /\ HasTokens(d)' /\ OwnLine(d)'
      BY <2>1, OtherClient DEF Good
    <2>2. QED
      BY <2>1
  <1>2. driver'.limit = 1 => OneAtATime'
    OBVIOUS
  <1>3. QED
    BY <1>1, <1>2 DEF Good

\* It is the only client of those that run one at a time.
LEMMA HcAlone ==
    ASSUME OneAtATime, NEW c \in Clients, pc[c] \in Handler, \A d \in Clients \ {c} : Same(d),
           received'[c]["answer"] \in {NoMsg("answer"), Msg("answer", c, c, 0)},
           ~down' /\ pc'[c] \in Initialised => Alone(c)'
    PROVE  OneAtATime'
  <1>1. c \in Running
    BY DEF Running, Handler
  <1>2. \A d \in Clients \ {c} : pc'[d] \in {"off", "done", "panic"}
    BY <1>1 DEF OneAtATime, Running, Same
  <1>3. \A a, b \in Running' : a = b
    BY <1>2 DEF Running
  <1>4. \A d \in Clients : received'[d]["answer"] \in {NoMsg("answer"), Msg("answer", d, d, 0)}
    BY DEF OneAtATime, Same
  <1>5. \A d \in Clients : pc'[d] \in Initialised => d = c
    BY <1>2 DEF Initialised
  <1>6. QED
    BY <1>3, <1>4, <1>5 DEF OneAtATime

\* The connection after a step of the only client in a handler.
LEMMA HcUsed ==
    ASSUME Types, HcLine, NEW c \in Clients, \A d \in InHandler' : d = c,
           \A d \in Clients \ {c} : Same(d), served # None, served' = served,
           \A d \in Clients : d # served => Line(<<"hc", d>>)' = Line(<<"hc", d>>),
           session' \in {None, served}, Fed(Hc)',
           ~down' /\ c \notin InHandler' => session' = served /\ Sending(Hc, NoMsg("reset"), FALSE)',
           ~down' /\ c \in InHandler' =>
             /\ IF pc'[c] = "dims" THEN session' = None => served = c ELSE session' = served
             /\ HandlerLine(c)'
    PROVE  HcLine'
  <1>1. \A d \in Clients : d # served' => Fresh(Line(<<"hc", d>>)')
    BY DEF HcLine
  <1>2. ASSUME ~down', InHandler' = {}
        PROVE  session' = served' /\ (served' # None => Sending(Hc', NoMsg("reset"), FALSE))
    BY <1>2
  <1>3. ASSUME ~down', NEW d \in InHandler'
        PROVE  /\ IF pc'[d] = "dims" THEN session' = None => served' = d ELSE session' = served'
               /\ HandlerLine(d)'
    BY <1>3
  <1>4. QED
    BY <1>1, <1>2, <1>3 DEF HcLine

\* The client in a handler uses the connection the server's process accepted.
LEMMA ConnIs ==
    ASSUME Good, Kept, NEW c \in Clients, pc[c] \in Handler \ {"init"}, ~down, \A d \in InHandler : d = c
    PROVE  /\ Conn(c) = <<"hc", served>> /\ served \in Clients /\ <<"hc", served>> \in Conns
           /\ IF c \in InHandler
              THEN /\ IF pc[c] = "dims" THEN session = None => served = c ELSE session = served
                   /\ HandlerLine(c)
              ELSE session = served /\ Sending(Hc, NoMsg("reset"), FALSE)
  <1>1. HcLine /\ Types
    BY DEF Good
  <1>2. pc[c] \in Initialised \/ c \in InHandler
    BY DEF Initialised, Handler, InHandler
  <1>3. served # None /\ session \in {None, served} /\ served \in Clients
    BY <1>1, <1>2 DEF HcLine, Types, Names
  <1>4. IF c \in InHandler
        THEN /\ IF pc[c] = "dims" THEN session = None => served = c ELSE session = served
             /\ HandlerLine(c)
        ELSE session = served /\ Sending(Hc, NoMsg("reset"), FALSE)
    <2>1. c \notin InHandler => InHandler = {}
      OBVIOUS
    <2>2. QED
      BY <1>1, <1>3, <2>1 DEF HcLine
  <1>5. pc[c] = "dims" => c \in InHandler
    BY DEF InHandler
  <1>6. Conn(c) = <<"hc", served>>
    BY <1>3, <1>4, <1>5 DEF Conn, Kept, Chosen
  <1>7. QED
    BY <1>3, <1>4, <1>6, ConnsOf

\* A server that may be reset may be sent queries or asked.
LEMMA SendingReady ==
    ASSUME NEW l, l.side # "own", Sending(l, NoMsg("reset"), FALSE), NEW m,
           \/ m.kind = "queries" /\ m.keys \in Clients
           \/ m.kind = "ask" /\ l.side # "one"
    PROVE  Sending(l, m, FALSE)
  <1>1. NoMsg("reset").kind = "reset"
    BY DEF NoMsg, Msg
  <1>2. \A stage : Takes(l.side, NoMsg("reset"), stage) => Takes(l.side, m, stage)
    BY <1>1 DEF Takes
  <1>3. QED
    BY <1>2 DEF Sending

\* The line of the HC server, which is the same one as long as `served' is.
LEMMA HcIs ==
    ASSUME NEW k, k = <<"hc", served>>
    PROVE  /\ Hc = Line(k) /\ (served' = served => Hc' = Line(k)')
           /\ Hc.side # "own" /\ (Hc.side = "one" <=> driver.limit = 1) /\ Hc.whole = driver.wholeSizes
  BY DEF Hc, Line

\* A client stays where its own process is left alone.
LEMMA OwnLineStays ==
    ASSUME NEW c \in Clients, OwnLine(c), Line(<<"own", c>>)' = Line(<<"own", c>>),
           \/ pc[c] \in BeforeParams /\ pc'[c] \in BeforeParams
           \/ pc[c] \in BeforeAnswer /\ pc'[c] \in BeforeAnswer
           \/ pc'[c] \in {"panic", "done"}
    PROVE  OwnLine(c)'
  BY DEF OwnLine, BeforeParams, BeforeAnswer

\* ClientInitRPC begins: with a session, it goes on to the reset; without, it makes one.
LEMMA HcEnterInit ==
    ASSUME Good, ~overlapped, NEW c \in Clients, EnterInit(c), Observed, ~overlapped'
    PROVE  Good'
  <1>1. /\ Types /\ Has(c) /\ HasTokens(c) /\ OwnLine(c) /\ HcLine
        /\ driver' = driver /\ \A a, b \in InHandler' : a = b
    <2>1. driver' = driver /\ \A a, b \in InHandler' : a = b
      BY DEF Observed
    <2>2. QED
      BY <2>1 DEF Good
  <1>2. /\ ~down /\ pc[c] = "init"
        /\ pc' = [pc EXCEPT ![c] = IF session # None THEN "reset" ELSE "dims"]
        /\ served' = IF session = None /\ served = None THEN c ELSE served
        /\ session' = session /\ down' = down
        /\ count' = count /\ iter' = iter /\ wrote' = wrote /\ got' = got /\ size' = size
        /\ received' = received /\ tokens' = tokens
        /\ toProc' = toProc /\ toGo' = toGo /\ proc' = proc /\ out' = out
    BY DEF EnterInit, Goto, reading, wires
  <1>3. /\ pc' \in [Clients -> Steps] /\ pc'[c] = IF session # None THEN "reset" ELSE "dims"
        /\ \A d \in Clients \ {c} : pc'[d] = pc[d]
    BY <1>1, <1>2 DEF Types, Steps, SendSteps
  <1>4. Types'
    BY <1>1, <1>2, <1>3 DEF Types, Names
  <1>5. \A j \in Conns : Line(j)' = Line(j)
    BY <1>1, <1>2, SameLine
  <1>6. \A d \in Clients \ {c} : Same(d)
    BY <1>2, <1>3 DEF Same
  <1>7. c \notin InHandler /\ c \in InHandler'
    BY <1>2, <1>3 DEF InHandler
  <1>8. InHandler = {} /\ \A d \in InHandler' : d = c
    BY <1>1, <1>6, <1>7, OnlyHandler
  <1>9. session = served /\ (served # None => Sending(Hc, NoMsg("reset"), FALSE))
    BY <1>1, <1>2, <1>8 DEF HcLine
  <1>10. wrote'[c] = FALSE
    BY <1>1, <1>2 DEF Has, SendSteps, Types
  <1>11. HcLine'
    <2>1. CASE session # None
      <3>1. served # None /\ served' = served /\ served \in Clients
        BY <1>1, <1>2, <1>9, <2>1 DEF Types, Names
      <3>2. Hc' = Hc
        BY <1>5, <3>1, ConnsOf DEF Hc
      <3>3. Outgoing(c)' = NoMsg("reset") /\ pc'[c] = "reset"
        BY <1>3, <2>1 DEF Outgoing, NoMsg
      <3>4. HandlerLine(c)'
        BY <1>9, <1>10, <3>1, <3>2, <3>3 DEF HandlerLine
      <3>5. Fed(Hc)'
        BY <1>1, <3>1, <3>2 DEF HcLine
      <3>6. \A d \in Clients : d # served => Line(<<"hc", d>>)' = Line(<<"hc", d>>)
        BY <1>5, ConnsOf
      <3>7. QED
        BY <1>1, <1>2, <1>6, <1>7, <1>8, <1>9, <3>1, <3>3, <3>4, <3>5, <3>6, HcUsed
    <2>2. CASE session = None
      <3> DEFINE k == <<"hc", c>>
      <3>1. served = None /\ served' = c /\ pc'[c] = "dims" /\ session' = None /\ c # None
        BY <1>2, <1>3, <1>9, <2>2, SocketAssumption
      <3>2. \A d \in Clients : Line(<<"hc", d>>)' = Line(<<"hc", d>>) /\ Fresh(Line(<<"hc", d>>))
        BY <1>1, <1>5, <3>1, ConnsOf, SocketAssumption DEF HcLine
      <3>3. Hc' = Line(k)
        BY <3>1, <3>2 DEF Hc
      <3>4. Sending(Line(k), NoMsg("dims"), FALSE)
        BY <1>1, <3>2, FreshSends, ConnsOf DEF Types
      <3>5. Outgoing(c)' = NoMsg("dims")
        BY <3>1 DEF Outgoing, NoMsg
      <3>6. HandlerLine(c)'
        BY <1>10, <3>1, <3>3, <3>4, <3>5 DEF HandlerLine
      <3>7. Fed(Hc')
        BY <3>3, <3>4 DEF Sending
      <3>8. \A d \in Clients : d # served' => Fresh(Line(<<"hc", d>>)')
        BY <3>2
      <3>9. ASSUME NEW d \in InHandler'
            PROVE  /\ IF pc'[d] = "dims" THEN session' = None => served' = d ELSE session' = served'
                   /\ HandlerLine(d)'
        BY <1>8, <3>1, <3>6
      <3>10. InHandler' # {} /\ session' \in {None, served'} /\ served' # None
        BY <1>7, <3>1
      <3>11. QED
        BY <3>7, <3>8, <3>9, <3>10 DEF HcLine
    <2>3. QED
      BY <2>1, <2>2
  <1>12. Has(c)' /\ HasTokens(c)'
    <2>1. \A i : Token(c, i)' = Token(c, i)
      BY <1>2 DEF Token
    <2>2. Has(c)'
      BY <1>1, <1>2, <1>3, <1>10 DEF Has, RecvSteps
    <2>3. HasTokens(c)'
      BY <1>1, <1>2, <1>3, <2>1 DEF HasTokens
    <2>4. QED
      BY <2>2, <2>3
  <1>13. OwnLine(c)'
    BY <1>1, <1>2, <1>3, <1>5, OwnLineStays, ConnsOf DEF BeforeParams
  <1>14. ASSUME driver.limit = 1 PROVE OneAtATime'
    <2>1. OneAtATime /\ pc[c] \in Handler /\ pc'[c] \notin Initialised
      BY <1>2, <1>3, <1>14 DEF Good, Handler, Initialised
    <2>2. received'[c]["answer"] \in {NoMsg("answer"), Msg("answer", c, c, 0)}
      BY <1>2, <2>1 DEF OneAtATime
    <2>3. QED
      BY <1>6, <2>1, <2>2, HcAlone
  <1>15. FatalHasCause'
    <2>1. \A d \in Clients : pc'[d] = "panic" => pc[d] = "panic"
      BY <1>3
    <2>2. QED
      BY <1>1, <1>2, <2>1, NoneFails DEF Good
  <1>16. QED
    <2>1. (\A d \in Clients : Line(<<"own", d>>)' = Line(<<"own", d>>)) /\ \A k \in Conns : Ends(out'[k])
      BY <1>2, <1>5, ConnsOf DEF Good
    <2>2. QED
      BY <1>1, <1>4, <1>6, <1>11, <1>12, <1>13, <1>14, <1>15, <2>1, HcStep

\* Other connections stay as they are.
LEMMA HcOthers ==
    ASSUME NEW c \in Clients, NEW h, \A j \in Conns : j # <<"hc", h>> => Line(j)' = Line(j)
    PROVE  /\ Line(<<"own", c>>)' = Line(<<"own", c>>)
           /\ c # h => Line(<<"hc", c>>)' = Line(<<"hc", c>>)
  <1>1. <<"own", c>> # <<"hc", h>> /\ (c # h => <<"hc", c>> # <<"hc", h>>)
    OBVIOUS
  <1>2. QED
    BY <1>1, ConnsOf

\* Queries and requests for answers are all that is under way, with one more too.
LEMMA AskedSends ==
    ASSUME NEW c, NEW s \in Seq(Units), Asked(c, s), NEW m \in Msgs,
           m.kind \in {"queries", "ask"}, m.kind = "queries" => m.keys = c
    PROVE  Asked(c, s \o SizeOf(m)) /\ Asked(c, s \o BodyOf(m))
  <1>1. ASSUME NEW t \in Seq(Units), \A x \in DOMAIN t : t[x][1] = m
        PROVE  Asked(c, s \o t)
    <2> DEFINE u == s \o t
    <2>1. /\ Len(u) = Len(s) + Len(t) /\ u \in Seq(Units) /\ Len(s) \in Nat /\ Len(t) \in Nat
          /\ \A y \in 1..Len(s) : u[y] = s[y]
          /\ \A y \in 1..Len(t) : u[Len(s) + y] = t[y]
      BY <1>1, JoinType
    <2> HIDE DEF u
    <2>2. DOMAIN u = 1..Len(s) + Len(t)
      BY <2>1
    <2>3. ASSUME NEW x \in DOMAIN u
          PROVE  u[x][1].kind \in {"queries", "ask"} /\ (u[x][1].kind = "queries" => u[x][1].keys = c)
      <3>1. CASE x \in 1..Len(s)
        BY <2>1, <3>1 DEF Asked
      <3>2. CASE x \notin 1..Len(s)
        <4>1. x - Len(s) \in 1..Len(t) /\ Len(s) + (x - Len(s)) = x
          BY <2>1, <2>2, <3>2
        <4>2. u[x] = t[x - Len(s)] /\ t[x - Len(s)][1] = m
          BY <1>1, <2>1, <4>1
        <4>3. QED
          BY <4>2
      <3>3. QED
        BY <3>1, <3>2
    <2>4. QED
      BY <2>3 DEF Asked, u
  <1>2. SizeLen \in Nat \ {0} /\ Total(m) \in Nat /\ Total(m) > SizeLen
    BY TotalType
  <1>3. /\ SizeOf(m) \in Seq(Units) /\ Len(SizeOf(m)) = SizeLen - 1 + 1
        /\ \A x \in 1..SizeLen - 1 + 1 : SizeOf(m)[x] = <<m, 1 + x - 1>>
    <2>1. 1 <= SizeLen + 1 /\ SizeLen \in Nat
      BY <1>2
    <2>2. QED
      BY <2>1, PieceType DEF SizeOf
  <1>4. /\ BodyOf(m) \in Seq(Units) /\ Len(BodyOf(m)) = Total(m) - (SizeLen + 1) + 1
        /\ \A x \in 1..Total(m) - (SizeLen + 1) + 1 : BodyOf(m)[x] = <<m, SizeLen + 1 + x - 1>>
    <2>1. SizeLen + 1 <= Total(m) + 1 /\ SizeLen + 1 \in Nat
      BY <1>2
    <2>2. QED
      BY <1>2, <2>1, PieceType DEF BodyOf
  <1>5. \A x \in DOMAIN SizeOf(m) : SizeOf(m)[x][1] = m
    BY <1>3
  <1>6. \A x \in DOMAIN BodyOf(m) : BodyOf(m)[x][1] = m
    BY <1>4
  <1>7. QED
    BY <1>1, <1>3, <1>4, <1>5, <1>6

\* A handler begins a message to the server's process: if alone, it stays alone.
LEMMA HcWriteSize ==
    ASSUME Good, Kept, ~overlapped, NEW c \in Clients, WriteSize(c), pc[c] \in Handler, Observed, ~overlapped'
    PROVE  Good'
  <1> PICK k : k = <<"hc", served>>
    OBVIOUS
  <1> DEFINE m == Outgoing(c)
  <1>1. /\ Types /\ (\A j \in Conns : Ends(out[j])) /\ Has(c) /\ HasTokens(c) /\ OwnLine(c) /\ HcLine
        /\ driver' = driver /\ \A a, b \in InHandler' : a = b
    <2>1. driver' = driver /\ \A a, b \in InHandler' : a = b
      BY DEF Observed
    <2>2. QED
      BY <2>1 DEF Good
  <1>2. /\ pc[c] \in SendSteps /\ ~wrote[c] /\ CanRun(c) /\ wrote'[c] = TRUE
        /\ UNCHANGED <<hcVars, pc, count, iter, got, size, received, tokens, proc, out>>
        /\ \A d \in Clients \ {c} : Same(d)
        /\ Types' /\ \A j \in Conns : Ends(out'[j])
    <2> DEFINE k0 == Conn(c)
    <2>1. k0 = Conn(c)
      OBVIOUS
    <2> HIDE DEF k0
    <2>2. QED
      BY <1>1, <2>1, WriteSizeTo
  <1>3. ~down /\ pc[c] \in {"reset", "dims", "hint", "setQuery", "ask"}
    BY <1>2 DEF CanRun, SendSteps, Handler
  <1>4. c \in InHandler'
    BY <1>2, <1>3 DEF InHandler
  <1>5. (\A d \in InHandler : d = c) /\ (\A d \in InHandler' : d = c)
    BY <1>1, <1>2, <1>4, OnlyHandler
  <1>6. /\ Conn(c) = k /\ served \in Clients /\ k \in Conns
        /\ IF c \in InHandler
           THEN /\ IF pc[c] = "dims" THEN session = None => served = c ELSE session = served
                /\ HandlerLine(c)
           ELSE session = served /\ Sending(Hc, NoMsg("reset"), FALSE)
    <2>1. pc[c] \in Handler \ {"init"}
      BY <1>3 DEF Handler
    <2>2. QED
      BY <1>3, <1>5, <2>1, ConnIs
  <1>7. /\ \A j \in Conns : j # k => Line(j)' = Line(j)
        /\ SameButToProc(Line(k), Line(k)') /\ Line(k)'.toProc = Line(k).toProc \o SizeOf(m)
    BY <1>1, <1>6, WriteSizeTo
  <1>8. session' = session /\ served' = served /\ down' = down /\ pc' = pc
    BY <1>2 DEF hcVars
  <1>9. Hc = Line(k) /\ Hc' = Line(k)' /\ Hc.side # "own" /\ (Hc.side = "one" <=> driver.limit = 1)
    BY <1>8, HcIs
  <1>10. m \in Msgs /\ Outgoing(c)' = m /\ \A i : Token(c, i)' = Token(c, i)
    BY <1>1, <1>2, OutgoingType, SameMessages
  <1> HIDE DEF m
  <1>11. pc[c] \in {"setQuery", "ask"} =>
           /\ m.kind \in {"queries", "ask"} /\ (m.kind = "queries" <=> pc[c] = "setQuery")
           /\ m.kind = "queries" => m.keys = c
           /\ pc[c] = "ask" => m = NoMsg("ask")
    BY <1>1 DEF m, Outgoing, Has, NoMsg, Msg
  <1>12. Sending(Hc, m, FALSE)
    <2>1. CASE c \in InHandler
      <3>1. Sending(Hc, m, wrote[c]) /\ wrote[c] = FALSE
        BY <1>1, <1>2, <1>6, <2>1 DEF HandlerLine, Types, m
      <3>2. QED
        BY <3>1
    <2>2. CASE c \notin InHandler
      <3>1. pc[c] \in {"setQuery", "ask"}
        BY <1>3, <2>2 DEF InHandler
      <3>2. CASE pc[c] = "ask" /\ Hc.side = "one"
        <4>1. OneAtATime
          BY <1>9, <3>2 DEF Good
        <4>2. Alone(c)
          BY <1>3, <3>2, <4>1 DEF OneAtATime, Initialised
        <4>3. QED
          BY <1>2, <1>11, <3>2, <4>2 DEF Alone
      <3>3. CASE ~(pc[c] = "ask" /\ Hc.side = "one")
        <4>1. (m.kind = "queries" /\ m.keys \in Clients) \/ (m.kind = "ask" /\ Hc.side # "one")
          <5>1. CASE pc[c] = "setQuery"
            BY <1>11, <5>1
          <5>2. CASE pc[c] = "ask"
            BY <1>11, <3>3, <5>2
          <5>3. QED
            BY <3>1, <5>1, <5>2
        <4>2. QED
          BY <1>6, <1>9, <2>2, <4>1, SendingReady
      <3>4. QED
        BY <3>2, <3>3
    <2>3. QED
      BY <2>1, <2>2
  <1>13. Sending(Hc', m, TRUE)
    <2>1. SameButToProc(Hc, Hc') /\ Hc'.toProc = Hc.toProc \o SizeOf(m)
      BY <1>7, <1>9 DEF m
    <2>2. QED
      BY <1>10, <1>12, <2>1, SendSize
  <1>14. HandlerLine(c)'
    BY <1>2, <1>3, <1>8, <1>10, <1>13 DEF HandlerLine
  <1>15. \A d \in Clients : /\ Line(<<"own", d>>)' = Line(<<"own", d>>)
                            /\ d # served => Line(<<"hc", d>>)' = Line(<<"hc", d>>)
    BY <1>7, HcOthers
  <1>16. HcLine'
    <2>1. served # None /\ session' \in {None, served} /\ Fed(Hc)'
      BY <1>1, <1>6, <1>8, <1>13, SocketAssumption DEF HcLine, Sending
    <2>2. IF pc'[c] = "dims" THEN session' = None => served = c ELSE session' = served
      BY <1>3, <1>6, <1>8 DEF InHandler
    <2>3. QED
      BY <1>1, <1>2, <1>4, <1>5, <1>8, <1>14, <1>15, <2>1, <2>2, HcUsed
  <1>17. Has(c)' /\ HasTokens(c)'
    BY <1>1, <1>2, <1>3, <1>8, <1>10 DEF Has, HasTokens, SendSteps
  <1>18. OwnLine(c)'
    BY <1>1, <1>3, <1>8, <1>15, OwnLineStays DEF BeforeParams, BeforeAnswer
  <1>19. ASSUME driver.limit = 1 PROVE OneAtATime'
    <2>1. OneAtATime
      BY <1>19 DEF Good
    <2>2. received'[c]["answer"] \in {NoMsg("answer"), Msg("answer", c, c, 0)}
      BY <1>2, <2>1 DEF OneAtATime
    <2>3. ASSUME pc'[c] \in Initialised PROVE Alone(c)'
      <3>1. Alone(c) /\ pc[c] \in {"setQuery", "ask"}
        BY <1>3, <1>8, <2>1, <2>3 DEF OneAtATime, Initialised
      <3>2. Hc'.proc = Hc.proc /\ Hc'.toProc = Hc.toProc \o SizeOf(m)
        BY <1>7, <1>9 DEF SameButToProc, m
      <3>3. Asked(c, Hc'.toProc)
        <4>1. Asked(c, Hc.toProc) /\ Hc.toProc \in Seq(Units)
          BY <1>12, <3>1, LineType DEF Alone, Sending, Fed
        <4>2. m.kind \in {"queries", "ask"} /\ (m.kind = "queries" => m.keys = c)
          BY <1>11, <3>1
        <4>3. QED
          BY <1>10, <3>2, <4>1, <4>2, AskedSends
      <3>4. QED
        BY <1>2, <1>8, <3>1, <3>2, <3>3 DEF Alone
    <2>4. QED
      BY <1>2, <2>1, <2>2, <2>3, HcAlone
  <1>20. FatalHasCause'
    BY <1>1, <1>2, <1>8, NoneFails DEF Good
  <1>21. QED
    BY <1>1, <1>2, <1>15, <1>16, <1>17, <1>18, <1>19, <1>20, HcStep

\* A handler sends the bytes; with those of the queries QueryRPC returns.
LEMMA HcWriteBody ==
    ASSUME Good, Kept, ~overlapped, NEW c \in Clients, WriteBody(c), pc[c] \in Handler, Observed, ~overlapped'
    PROVE  Good'
  <1> PICK k : k = <<"hc", served>>
    OBVIOUS
  <1> DEFINE m == Outgoing(c)
             n == Line(k)'
  <1>1. /\ Types /\ (\A j \in Conns : Ends(out[j])) /\ Has(c) /\ HasTokens(c) /\ OwnLine(c) /\ HcLine
        /\ driver' = driver /\ \A a, b \in InHandler' : a = b
    <2>1. driver' = driver /\ \A a, b \in InHandler' : a = b
      BY DEF Observed
    <2>2. QED
      BY <2>1 DEF Good
  <1>2. /\ pc[c] \in SendSteps /\ wrote[c] /\ CanRun(c) /\ ~wrote'[c]
        /\ pc'[c] = AfterSend(c)
        /\ count'[c] = IF AfterSend(c) = "key" /\ pc[c] = "key" THEN count[c] + 1 ELSE 0
        /\ tokens'[c] = IF pc[c] = "recover" THEN <<>> ELSE tokens[c]
        /\ session' = IF pc[c] = "dims" /\ Conn(c) = <<"hc", c>> THEN c ELSE session
        /\ UNCHANGED <<served, down, got, size, received, proc, out>>
        /\ \A d \in Clients \ {c} : Same(d)
        /\ Types' /\ \A j \in Conns : Ends(out'[j])
    <2> DEFINE k0 == Conn(c)
    <2>1. k0 = Conn(c)
      OBVIOUS
    <2> HIDE DEF k0
    <2>2. QED
      BY <1>1, <2>1, WriteBodyTo
  <1>3. ~down /\ pc[c] \in {"reset", "dims", "hint", "setQuery", "ask"}
    BY <1>2 DEF CanRun, SendSteps, Handler
  <1>4. c \in InHandler
    BY <1>2, <1>3 DEF InHandler
  <1>5. (\A d \in InHandler : d = c) /\ (\A d \in InHandler' : d = c)
    BY <1>1, <1>2, <1>4, OnlyHandler
  <1>6. /\ k = Conn(c) /\ served \in Clients /\ k \in Conns
        /\ IF pc[c] = "dims" THEN session = None => served = c ELSE session = served
        /\ HandlerLine(c)
    <2>1. pc[c] \in Handler \ {"init"}
      BY <1>3 DEF Handler
    <2>2. QED
      BY <1>3, <1>4, <1>5, <2>1, ConnIs
  <1>7. /\ \A j \in Conns : j # k => Line(j)' = Line(j)
        /\ SameButToProc(Line(k), n) /\ n.toProc = Line(k).toProc \o BodyOf(m)
    BY <1>1, <1>6, WriteBodyTo
  <1>8. /\ pc[c] = "reset" => pc'[c] = "dims"
        /\ pc[c] = "dims" => pc'[c] = "hint"
        /\ pc[c] = "hint" => pc'[c] = "params"
        /\ pc[c] = "setQuery" => pc'[c] = "ask"
        /\ pc[c] = "ask" => pc'[c] = "answer"
    BY <1>2 DEF AfterSend, AfterHint
  <1>9. /\ served' = served /\ down' = down /\ session' = served /\ session' # None /\ count'[c] = 0
        /\ wrote'[c] = FALSE /\ tokens'[c] = tokens[c] /\ received'[c] = received[c]
        /\ size'[c] = None /\ got'[c] = <<>>
    <2>1. served # None /\ session \in {None, served}
      BY <1>1, <1>6, SocketAssumption DEF HcLine
    <2>2. session' = served
      BY <1>2, <1>3, <1>6, <2>1
    <2>3. wrote'[c] = FALSE
      BY <1>2 DEF Types
    <2>4. size[c] = None /\ got[c] = <<>>
      BY <1>1, <1>3 DEF Has, RecvSteps
    <2>5. QED
      BY <1>2, <1>3, <2>1, <2>2, <2>3, <2>4
  <1>10. Hc = Line(k) /\ Hc' = n /\ Hc.side # "own" /\ n.side = Hc.side /\ (Hc.side = "one" <=> driver.limit = 1)
    BY <1>7, <1>9, HcIs DEF SameButToProc
  <1>11. m \in Msgs /\ \A i : Token(c, i)' = Token(c, i)
    BY <1>1, <1>2, <1>9, OutgoingType DEF Token
  <1>12. /\ pc[c] \in {"reset", "dims", "ask"} => m = NoMsg(pc[c]) /\ m.kind = pc[c]
         /\ pc[c] = "hint" => m = Msg("hint", c, None, 0) /\ m.kind = "hint"
         /\ pc[c] = "setQuery" => m.kind = "queries" /\ m.keys = c
    BY <1>1 DEF Outgoing, Has, NoMsg, Msg
  <1> HIDE DEF m, n
  <1>13. Fed(n) /\ Quiet(n) /\ n.toProc # <<>> /\ End(n.toProc) = <<m, Total(m)>>
    <2>1. Sending(Hc, m, TRUE)
      BY <1>2, <1>6 DEF HandlerLine, m, Types
    <2>2. SameButToProc(Hc, n) /\ n.toProc = Hc.toProc \o BodyOf(m)
      BY <1>7, <1>10
    <2>3. QED
      BY <1>11, <2>1, <2>2, SendBody
  <1>14. ASSUME NEW o, ~Asks(m), Takes(n.side, o, StageAfter(m)) PROVE Sending(n, o, FALSE)
    <2>1. End(n.toProc)[1] = m /\ End(n.toProc)[2] = Total(m)
      BY <1>13
    <2>2. QED
      BY <1>13, <1>14, <2>1, MaySend
  <1>15. ASSUME Asks(m), NEW o, o.i <= 1, NEW f PROVE Receiving(n, m, o, f, <<>>, None)
    BY <1>13, <1>15, Waits
  <1>16. \A d \in Clients : /\ Line(<<"own", d>>)' = Line(<<"own", d>>)
                            /\ d # served => Line(<<"hc", d>>)' = Line(<<"hc", d>>)
    BY <1>6, <1>7, HcOthers
  <1>17. Has(c)' /\ HasTokens(c)' /\ OwnLine(c)'
    <2>1. Has(c)'
      BY <1>1, <1>3, <1>8, <1>9, SocketAssumption DEF Has
    <2>2. HasTokens(c)'
      BY <1>1, <1>3, <1>8, <1>9, <1>11 DEF HasTokens
    <2>3. OwnLine(c)'
      BY <1>1, <1>3, <1>8, <1>16, OwnLineStays DEF BeforeParams, BeforeAnswer
    <2>4. QED
      BY <2>1, <2>2, <2>3
  <1>18. FatalHasCause'
    <2>1. \A d \in Clients : pc'[d] = "panic" => pc[d] = "panic"
      BY <1>2, <1>3, <1>8 DEF Same
    <2>2. QED
      BY <1>1, <1>2, <1>9, <2>1, NoneFails DEF Good
  <1>19. ASSUME ~down' /\ c \notin InHandler' => Sending(Hc, NoMsg("reset"), FALSE)',
                ~down' /\ c \in InHandler' => HandlerLine(c)',
                driver.limit = 1 /\ pc'[c] \in Initialised => Alone(c)'
         PROVE  Good'
    <2>1. Fed(Hc)' /\ served # None
      BY <1>9, <1>10, <1>13
    <2>2. HcLine'
      BY <1>1, <1>2, <1>5, <1>9, <1>16, <1>19, <2>1, HcUsed
    <2>3. ASSUME driver.limit = 1 PROVE OneAtATime'
      <3>1. OneAtATime
        BY <2>3 DEF Good
      <3>2. received'[c]["answer"] \in {NoMsg("answer"), Msg("answer", c, c, 0)}
        BY <1>9, <3>1 DEF OneAtATime
      <3>3. QED
        BY <1>2, <1>19, <2>3, <3>1, <3>2, HcAlone
    <2>4. QED
      BY <1>1, <1>2, <1>16, <1>17, <1>18, <2>2, <2>3, HcStep
  <1>20. CASE pc[c] = "reset"
    <2>1. Takes(n.side, NoMsg("dims"), StageAfter(m)) /\ ~Asks(m)
      BY <1>10, <1>12, <1>20 DEF Takes, StageAfter, Asks, NoMsg, Msg
    <2>2. Sending(n, NoMsg("dims"), FALSE) /\ Outgoing(c)' = NoMsg("dims")
      BY <1>8, <1>14, <1>20, <2>1 DEF Outgoing, NoMsg
    <2>3. HandlerLine(c)' /\ c \in InHandler' /\ pc'[c] \notin Initialised
      BY <1>8, <1>9, <1>10, <1>20, <2>2 DEF HandlerLine, InHandler, Initialised
    <2>4. QED
      BY <1>19, <2>3
  <1>21. CASE pc[c] = "dims"
    <2>1. Takes(n.side, Msg("hint", c, None, 0), StageAfter(m)) /\ ~Asks(m)
      BY <1>10, <1>12, <1>21 DEF Takes, StageAfter, Asks, NoMsg, Msg
    <2>2. Sending(n, Msg("hint", c, None, 0), FALSE) /\ Outgoing(c)' = Msg("hint", c, None, 0)
      BY <1>8, <1>14, <1>21, <2>1 DEF Outgoing, NoMsg
    <2>3. HandlerLine(c)' /\ c \in InHandler' /\ pc'[c] \notin Initialised
      BY <1>8, <1>9, <1>10, <1>21, <2>2 DEF HandlerLine, InHandler, Initialised
    <2>4. QED
      BY <1>19, <2>3
  <1>22. CASE pc[c] = "hint"
    <2> DEFINE o == Msg("params", c, None, 0)
    <2>1. Asks(m) /\ o.i <= 1 /\ Question(c)' = m /\ Incoming(c)' = o /\ LastComing(c)' = o
      BY <1>8, <1>12, <1>22 DEF Asks, Question, Incoming, LastComing, Msg
    <2> HIDE DEF o
    <2>2. Receiving(n, m, o, o, <<>>, None)
      BY <1>15, <2>1
    <2>3. Reading(c, Hc)'
      BY <1>9, <1>10, <2>1, <2>2 DEF Reading
    <2>4. HandlerLine(c)' /\ c \in InHandler' /\ pc'[c] \notin Initialised
      BY <1>8, <1>10, <1>13, <1>22, <2>3 DEF HandlerLine, InHandler, Initialised, SendSteps
    <2>5. QED
      BY <1>19, <2>4
  <1>23. CASE pc[c] = "setQuery"
    <2>1. /\ ~Asks(m) /\ Takes(n.side, NoMsg("reset"), StageAfter(m)) /\ Takes(n.side, NoMsg("ask"), StageAfter(m))
      BY <1>10, <1>12, <1>23 DEF Takes, StageAfter, Asks, NoMsg, Msg
    <2>2. Sending(n, NoMsg("reset"), FALSE) /\ Sending(n, NoMsg("ask"), FALSE)
      BY <1>14, <2>1
    <2>3. c \notin InHandler'
      BY <1>8, <1>9, <1>23 DEF InHandler
    <2>4. ASSUME driver.limit = 1 PROVE Alone(c)'
      <3>1. Alone(c)
        BY <1>3, <1>23, <2>4 DEF Good, OneAtATime, Initialised
      <3>2. Hc'.proc = Hc.proc /\ Hc'.toProc = Hc.toProc \o BodyOf(m)
        BY <1>7, <1>10 DEF SameButToProc
      <3>3. Asked(c, Hc.toProc) /\ Hc.toProc \in Seq(Units)
        BY <1>1, <1>6, <1>9, <3>1, LineType DEF Alone, HcLine, Fed
      <3>4. Asked(c, Hc'.toProc)
        BY <1>11, <1>12, <1>23, <3>2, <3>3, AskedSends
      <3>5. QED
        BY <1>8, <1>10, <1>23, <2>2, <3>1, <3>2, <3>4 DEF Alone
    <2>5. QED
      BY <1>10, <1>19, <2>2, <2>3, <2>4
  <1>24. CASE pc[c] = "ask"
    <2> DEFINE o == Incoming(c)'
    <2>1. Asks(m) /\ o.i <= 1 /\ Question(c)' = m /\ LastComing(c)' = o
      BY <1>8, <1>12, <1>24 DEF Asks, Question, Incoming, LastComing, Msg
    <2> HIDE DEF o
    <2>2. Receiving(n, m, o, o, <<>>, None)
      BY <1>15, <2>1
    <2>3. Reading(c, Hc)'
      BY <1>9, <1>10, <2>1, <2>2 DEF Reading, o
    <2>4. HandlerLine(c)' /\ c \in InHandler'
      BY <1>8, <1>10, <1>13, <1>24, <2>3 DEF HandlerLine, InHandler, SendSteps
    <2>5. ASSUME driver.limit = 1 PROVE Alone(c)'
      <3>1. Alone(c)
        BY <1>3, <1>24, <2>5 DEF Good, OneAtATime, Initialised
      <3>2. Hc'.proc = Hc.proc /\ Hc'.toProc = Hc.toProc \o BodyOf(m)
        BY <1>7, <1>10 DEF SameButToProc
      <3>3. Asked(c, Hc.toProc) /\ Hc.toProc \in Seq(Units)
        BY <1>1, <1>6, <1>9, <3>1, LineType DEF Alone, HcLine, Fed
      <3>4. Asked(c, Hc'.toProc)
        <4>1. m.kind = "ask"
          BY <1>12, <1>24
        <4>2. QED
          BY <1>11, <3>2, <3>3, <4>1, AskedSends
      <3>5. QED
        BY <1>8, <1>24, <3>1, <3>2, <3>4 DEF Alone
    <2>6. QED
      BY <1>19, <2>4, <2>5
  <1>25. QED
    BY <1>3, <1>20, <1>21, <1>22, <1>23, <1>24

\* Reading what a process has written is nothing to the process.
LEMMA FedTakesOff ==
    ASSUME NEW l, Fed(l), NEW n, NEW j, TakesOff(l, n, j)
    PROVE  Fed(n) /\ n.toProc = l.toProc /\ n.proc = l.proc
  <1>1. IsLine(n)
    BY TakesOffComing DEF Fed
  <1>2. n.side = l.side /\ n.toProc = l.toProc /\ n.proc = l.proc
    BY DEF TakesOff
  <1>3. QED
    BY <1>1, <1>2 DEF Fed

\* A client that reads in a handler waits for a reply, and reads while there is one.
LEMMA HandlerReads ==
    ASSUME Types, NEW c \in Clients, HandlerLine(c), pc[c] \in {"params", "answer"}, Hc.toGo # <<>>
    PROVE  /\ Reading(c, Hc) /\ Hc.toProc = <<>>
           /\ pc[c] = "params" => Hc.proc.hint = c /\ Hc.proc.keys = None
           /\ pc[c] = "answer" => Hc.proc.keys \in Clients
  <1>1. Reading(c, Hc)
    BY DEF HandlerLine, Quiet
  <1>2. Hc.toProc = <<>>
    BY <1>1 DEF Reading, Receiving, Awaited, Replying, Quiet
  <1>3. pc[c] = "answer" => Hc.proc.keys \in Clients
    BY <1>2 DEF HandlerLine, Quiet
  <1>4. QED
    BY <1>1, <1>2, <1>3 DEF HandlerLine

\* A handler reads a size: of the reply to its own request.
LEMMA HcReadSize ==
    ASSUME Good, Kept, ~overlapped, NEW c \in Clients, ReadSize(c), pc[c] \in Handler, Observed, ~overlapped'
    PROVE  Good'
  <1> PICK k : k = <<"hc", served>>
    OBVIOUS
  <1> DEFINE n == Line(k)'
             q == Question(c)
             m == Incoming(c)
             f == LastComing(c)
             j == Least({SizeLen, Len(toGo[k])})
  <1>1. /\ Types /\ Has(c) /\ HasTokens(c) /\ OwnLine(c) /\ HcLine
        /\ driver' = driver /\ \A a, b \in InHandler' : a = b
    <2>1. driver' = driver /\ \A a, b \in InHandler' : a = b
      BY DEF Observed
    <2>2. QED
      BY <2>1 DEF Good
  <1>2. pc[c] \in {"params", "answer"} /\ ~down
    BY DEF ReadSize, CanRun, RecvSteps, Handler
  <1>3. c \in InHandler
    BY <1>2 DEF InHandler
  <1>4. \A d \in InHandler : d = c
    BY <1>3 DEF Good
  <1>5. k = Conn(c) /\ served \in Clients /\ k \in Conns /\ session = served /\ HandlerLine(c)
    <2>1. pc[c] \in Handler \ {"init"}
      BY <1>2 DEF Handler
    <2>2. QED
      BY <1>2, <1>3, <1>4, <2>1, ConnIs
  <1>6. /\ pc[c] \in RecvSteps /\ size[c] = None /\ toGo[k] # <<>>
        /\ TakesOff(Line(k), n, j)
        /\ IF j < SizeLen THEN Fatal(c) /\ size' = size
           ELSE /\ pc' = pc /\ down' = down
                /\ IsSize(Prefix(toGo[k], j)) => size'[c] = Length[toGo[k][1][1].kind]
        /\ UNCHANGED <<session, served, count, iter, wrote, got, received, tokens, toProc, proc, out>>
        /\ \A d \in Clients \ {c} : Same(d)
        /\ Types' /\ \A i \in Conns : i # k => Line(i)' = Line(i)
    BY <1>1, <1>5, ReadSizeTo
  <1>7. pc' = pc
    BY <1>1, <1>2, <1>6, FatalTo DEF Handler
  <1>8. c \in InHandler' /\ \A d \in InHandler' : d = c
    <2>1. c \in InHandler'
      BY <1>2, <1>7 DEF InHandler
    <2>2. QED
      BY <1>1, <2>1
  <1>9. /\ Hc = Line(k) /\ Hc' = n /\ Hc.side # "own" /\ Hc.whole = driver.wholeSizes
        /\ Hc.toGo = toGo[k]
    <2>1. Hc = Line(k) /\ Hc' = n /\ Hc.side # "own" /\ Hc.whole = driver.wholeSizes
      BY <1>6, HcIs
    <2>2. Line(k).toGo = toGo[k]
      BY LineFields
    <2>3. QED
      BY <2>1, <2>2
  <1>10. /\ Reading(c, Hc) /\ Hc.toProc = <<>>
         /\ pc[c] = "params" => Hc.proc.hint = c /\ Hc.proc.keys = None
         /\ pc[c] = "answer" => Hc.proc.keys \in Clients
    BY <1>1, <1>2, <1>5, <1>6, <1>9, HandlerReads
  <1>11. Fed(n) /\ n.toProc = <<>> /\ n.proc = Hc.proc
    <2>1. Fed(Hc)
      BY <1>10, ReceivingFed DEF Reading
    <2>2. QED
      BY <1>6, <1>9, <1>10, <2>1, FedTakesOff
  <1>12. Question(c)' = q /\ Incoming(c)' = m /\ LastComing(c)' = f
    <2>1. Question(c)' = q
      BY <1>6, <1>7, SameMessages
    <2>2. Incoming(c)' = m
      BY <1>2, <1>7, <1>9, <1>11 DEF Incoming
    <2>3. QED
      BY <1>2, <1>7, <2>1, <2>2 DEF LastComing
  <1>13. IF j < SizeLen THEN ~Hc.whole
         ELSE /\ IsSize(Prefix(toGo[k], j)) /\ toGo[k][1][1] = m
              /\ Receiving(n, q, m, f, got[c], Length[m.kind])
    <2>1. Receiving(Hc, q, m, f, got[c], None) /\ f \in Msgs
      BY <1>1, <1>5, <1>6, <1>10, ReadingMsgs, SocketAssumption DEF Reading
    <2> HIDE DEF n, q, m, f
    <2>2. Hc.toGo # <<>> /\ TakesOff(Hc, n, Least({SizeLen, Len(Hc.toGo)})) /\ j = Least({SizeLen, Len(Hc.toGo)})
      BY <1>6, <1>9
    <2> HIDE DEF j
    <2>3. LET i == Least({SizeLen, Len(Hc.toGo)})
          IN IF i < SizeLen THEN ~Hc.whole
             ELSE /\ i = SizeLen /\ IsSize(Prefix(Hc.toGo, i)) /\ Hc.toGo[1][1] = m
                  /\ Receiving(n, q, m, f, got[c], Length[m.kind])
      BY <2>1, <2>2, ReadsSize
    <2>4. Hc.toGo = toGo[k]
      BY <1>9
    <2>5. QED
      BY <2>2, <2>3, <2>4
  <1> HIDE DEF n, j, q, m, f
  <1>14. ~down' => HandlerLine(c)'
    <2>1. SUFFICES ASSUME ~down' PROVE HandlerLine(c)'
      OBVIOUS
    <2>2. ~(j < SizeLen)
      <3>1. Fatal(c) => down'
        BY <1>1, <1>2, FatalTo DEF Handler
      <3>2. QED
        BY <1>6, <2>1, <3>1
    <2>3. Receiving(n, q, m, f, got[c], size'[c])
      BY <1>6, <1>13, <2>2
    <2>4. Reading(c, Hc)'
      BY <1>6, <1>9, <1>12, <2>3 DEF Reading
    <2>5. QED
      BY <1>2, <1>7, <1>9, <1>10, <1>11, <2>4 DEF HandlerLine, SendSteps
  <1>15. \A d \in Clients : /\ Line(<<"own", d>>)' = Line(<<"own", d>>)
                            /\ d # served => Line(<<"hc", d>>)' = Line(<<"hc", d>>)
    BY <1>5, <1>6, HcOthers
  <1>16. HcLine'
    <2>1. Fed(Hc)' /\ served # None /\ session' = served /\ served' = served
      BY <1>5, <1>6, <1>9, <1>11, SocketAssumption
    <2>2. QED
      BY <1>1, <1>2, <1>6, <1>7, <1>8, <1>14, <1>15, <2>1, HcUsed
  <1>17. Has(c)' /\ HasTokens(c)' /\ OwnLine(c)'
    <2>1. \A i : Token(c, i)' = Token(c, i)
      BY <1>6 DEF Token
    <2>2. Has(c)' /\ HasTokens(c)'
      BY <1>1, <1>2, <1>6, <1>7, <2>1 DEF Has, HasTokens, RecvSteps
    <2>3. OwnLine(c)'
      BY <1>1, <1>2, <1>7, <1>15, OwnLineStays DEF BeforeParams, BeforeAnswer
    <2>4. QED
      BY <2>2, <2>3
  <1>18. ASSUME driver.limit = 1 PROVE OneAtATime'
    <2>1. OneAtATime
      BY <1>18 DEF Good
    <2>2. received'[c]["answer"] \in {NoMsg("answer"), Msg("answer", c, c, 0)}
      BY <1>6, <2>1 DEF OneAtATime
    <2>3. ASSUME pc'[c] \in Initialised PROVE Alone(c)'
      <3>1. Alone(c)
        BY <1>2, <1>7, <2>1, <2>3 DEF OneAtATime
      <3>2. QED
        BY <1>2, <1>7, <1>9, <1>10, <1>11, <3>1 DEF Alone
    <2>4. QED
      BY <1>6, <2>1, <2>2, <2>3, HcAlone
  <1>19. FatalHasCause'
    <2>1. CASE j < SizeLen
      BY <1>1, <1>9, <1>13, <2>1 DEF FatalHasCause
    <2>2. CASE ~(j < SizeLen)
      BY <1>1, <1>6, <1>7, <2>2, NoneFails DEF Good
    <2>3. QED
      BY <2>1, <2>2
  <1>20. QED
    <2>1. \A i \in Conns : Ends(out'[i])
      BY <1>6 DEF Good
    <2>2. QED
      BY <1>1, <1>6, <1>15, <1>16, <1>17, <1>18, <1>19, <2>1, HcStep

\* What a handler reads is its reply, and nothing is left behind it.
LEMMA HandlerReadsBody ==
    ASSUME Good, Kept, NEW c \in Clients, ReadBody(c), pc[c] \in Handler, driver' = driver,
           NEW k, k = <<"hc", served>>
    PROVE  LET n == Line(k)'
               m == Incoming(c)
               f == LastComing(c)
               u == got[c] \o Prefix(toGo[k], ToRead(c, toGo[k]))
           IN /\ served \in Clients /\ session = served /\ ~down
              /\ pc[c] = "params" => Hc.proc.hint = c /\ Hc.proc.keys = None
              /\ pc[c] = "answer" => Hc.proc.keys \in Clients
              /\ Fed(n) /\ n.toProc = <<>> /\ n.proc = Hc.proc /\ n.proc.at = "ready"
              /\ IF ~(Len(u) >= size[c])
                 THEN /\ got'[c] = u /\ UNCHANGED <<pc, count, size, received, tokens>>
                      /\ Receiving(n, Question(c), m, f, u, size[c])
                 ELSE /\ got'[c] = <<>> /\ size'[c] = None /\ pc'[c] = AfterRecv(c)
                      /\ received'[c] = [received[c] EXCEPT ![pc[c]] = m]
                      /\ tokens'[c] = tokens[c] /\ count'[c] = 0 /\ Quiet(n)
              /\ UNCHANGED <<hcVars, iter, wrote, toProc, proc, out>>
              /\ \A d \in Clients \ {c} : Same(d)
              /\ Types' /\ \A i \in Conns : i # k => Line(i)' = Line(i)
  <1> DEFINE n == Line(k)'
             q == Question(c)
             m == Incoming(c)
             f == LastComing(c)
             j == ToRead(c, toGo[k])
             u == got[c] \o Prefix(toGo[k], j)
             next == Msg(m.kind, m.hint, m.keys, m.i + 1)
  <1>1. Types
    BY DEF Good
  <1>2. pc[c] \in {"params", "answer"} /\ ~down /\ size[c] # None
    BY DEF ReadBody, CanRun, RecvSteps, Handler
  <1>3. c \in InHandler
    BY <1>2 DEF InHandler
  <1>4. \A d \in InHandler : d = c
    BY <1>3 DEF Good
  <1>5. k = Conn(c) /\ served \in Clients /\ k \in Conns /\ session = served /\ HandlerLine(c)
    <2>1. pc[c] \in Handler \ {"init"}
      BY <1>2 DEF Handler
    <2>2. QED
      BY <1>2, <1>3, <1>4, <2>1, ConnIs
  <1>6. Hc = Line(k) /\ Hc.side # "own" /\ Hc.toGo = toGo[k]
    <2>1. Hc = Line(k) /\ Hc.side # "own"
      BY HcIs
    <2>2. Line(k).toGo = toGo[k]
      BY LineFields
    <2>3. QED
      BY <2>1, <2>2
  <1>7. toGo[k] # <<>>
    <2>1. Least({ReadAtMost(c), Len(toGo[k])}) > 0
      BY <1>5 DEF ReadBody
    <2>2. toGo[k] \in Seq(Units) /\ Len(toGo[k]) \in Nat
      BY <1>1, <1>5 DEF Types
    <2>3. ReadAtMost(c) \in Int
      <3>1. size[c] - Len(got[c]) \in Int /\ Buffer \in Int
        BY <1>1, <1>2, SocketAssumption DEF Types
      <3>2. QED
        BY <3>1, LeastOf DEF ReadAtMost
    <2>4. QED
      BY <2>1, <2>2, <2>3, LeastOf
  <1>8. /\ Reading(c, Hc) /\ Hc.toProc = <<>>
        /\ pc[c] = "params" => Hc.proc.hint = c /\ Hc.proc.keys = None
        /\ pc[c] = "answer" => Hc.proc.keys \in Clients
    BY <1>1, <1>2, <1>5, <1>6, <1>7, HandlerReads
  <1>9. Receiving(Hc, q, m, f, got[c], size[c]) /\ f \in Msgs /\ Len(got[c]) < size[c]
    <2>1. Receiving(Hc, q, m, f, got[c], size[c])
      BY <1>8 DEF Reading
    <2>2. f \in Msgs
      BY <1>1, <1>2, <1>5, ReadingMsgs, SocketAssumption DEF RecvSteps
    <2> HIDE DEF q, m, f
    <2>3. QED
      BY <1>2, <2>1, <2>2, ReceivingBody
  <1>10. /\ size[c] \in Nat /\ j \in Nat /\ j <= size[c] - Len(got[c]) /\ TakesOff(Line(k), n, j)
         /\ IF ~(Len(u) >= size[c])
            THEN got'[c] = u /\ UNCHANGED <<pc, count, size, received, tokens>>
            ELSE /\ got'[c] = <<>> /\ size'[c] = None
                 /\ IsBody(u) =>
                      /\ received'[c] = [received[c] EXCEPT ![pc[c]] = u[1][1]]
                      /\ tokens'[c] = IF pc[c] = "token" THEN Append(tokens[c], u[1][1]) ELSE tokens[c]
                 /\ count'[c] = IF AfterRecv(c) = "token" /\ pc[c] = "token" THEN count[c] + 1 ELSE 0
                 /\ pc'[c] = AfterRecv(c)
         /\ UNCHANGED <<hcVars, iter, wrote, toProc, proc, out>>
         /\ \A d \in Clients \ {c} : Same(d)
         /\ Types' /\ \A i \in Conns : i # k => Line(i)' = Line(i)
    BY <1>1, <1>5, <1>9, ReadBodyTo
  <1>11. /\ Fed(n) /\ n.toProc = <<>> /\ n.proc = Hc.proc /\ n.proc.at = "ready"
         /\ IF ~(Len(u) >= size[c]) THEN Receiving(n, q, m, f, u, size[c])
            ELSE /\ IsBody(u) /\ u[1][1] = m
                 /\ IF m.i < f.i THEN \A o : Receiving(n, o, next, f, <<>>, None)
                    ELSE m.i = f.i /\ Quiet(n)
    <2> HIDE DEF n, q, m, f, j
    <2>1. got[c] \in Seq(Units) /\ size[c] \in Nat /\ j \in Nat /\ j <= size[c] - Len(got[c])
          /\ TakesOff(Hc, n, j) /\ u = got[c] \o Prefix(Hc.toGo, j)
      BY <1>1, <1>6, <1>10 DEF Types
    <2>2. LET v == got[c] \o Prefix(Hc.toGo, j)
              x == Msg(m.kind, m.hint, m.keys, m.i + 1)
          IN /\ v \in Seq(Units) /\ Fed(n) /\ n.toProc = <<>> /\ n.proc = Hc.proc
             /\ n.proc.at = "ready"
             /\ IF ~(Len(v) >= size[c]) THEN Receiving(n, q, m, f, v, size[c])
                ELSE /\ IsBody(v) /\ v[1][1] = m
                     /\ IF m.i < f.i THEN \A o : Receiving(n, o, x, f, <<>>, None)
                        ELSE m.i = f.i /\ Quiet(n)
      BY <1>9, <2>1, ReadsBody
    <2> HIDE DEF u
    <2>3. QED
      BY <2>1, <2>2
  <1>12. m.i = 0 /\ f.i = 0
    BY <1>2 DEF Incoming, LastComing, Msg
  <1> HIDE DEF n, q, m, f, j, u
  <1>13. CASE ~(Len(u) >= size[c])
    BY <1>2, <1>5, <1>8, <1>10, <1>11, <1>13 DEF n, q, m, f, j, u
  <1>14. CASE Len(u) >= size[c]
    <2>1. Quiet(n)
      <3>1. ~(m.i < f.i)
        BY <1>12
      <3>2. QED
        BY <1>11, <1>14, <3>1
    <2>2. /\ got'[c] = <<>> /\ size'[c] = None /\ pc'[c] = AfterRecv(c)
          /\ received'[c] = [received[c] EXCEPT ![pc[c]] = m]
          /\ tokens'[c] = tokens[c] /\ count'[c] = 0
      BY <1>2, <1>10, <1>11, <1>14
    <2>3. QED
      BY <1>2, <1>5, <1>8, <1>10, <1>11, <1>14, <2>1, <2>2 DEF n, q, m, f, j, u
  <1>15. QED
    BY <1>13, <1>14

\* A handler reads the bytes of its reply, with the last of which it returns.
LEMMA HcReadBody ==
    ASSUME Good, Kept, ~overlapped, NEW c \in Clients, ReadBody(c), pc[c] \in Handler, Observed, ~overlapped'
    PROVE  Good'
  <1> PICK k : k = <<"hc", served>>
    OBVIOUS
  <1> DEFINE n == Line(k)'
             q == Question(c)
             m == Incoming(c)
             f == LastComing(c)
             u == got[c] \o Prefix(toGo[k], ToRead(c, toGo[k]))
  <1>1. /\ Types /\ Has(c) /\ HasTokens(c) /\ OwnLine(c) /\ HcLine
        /\ driver' = driver /\ \A a, b \in InHandler' : a = b
    <2>1. driver' = driver /\ \A a, b \in InHandler' : a = b
      BY DEF Observed
    <2>2. QED
      BY <2>1 DEF Good
  <1>2. pc[c] \in {"params", "answer"} /\ ~down /\ size[c] # None
    BY DEF ReadBody, CanRun, RecvSteps, Handler
  <1>3. c \in InHandler
    BY <1>2 DEF InHandler
  <1>4. /\ served \in Clients /\ session = served /\ ~down
        /\ pc[c] = "params" => Hc.proc.hint = c /\ Hc.proc.keys = None
        /\ pc[c] = "answer" => Hc.proc.keys \in Clients
        /\ Fed(n) /\ n.toProc = <<>> /\ n.proc = Hc.proc /\ n.proc.at = "ready"
        /\ IF ~(Len(u) >= size[c])
           THEN /\ got'[c] = u /\ UNCHANGED <<pc, count, size, received, tokens>>
                /\ Receiving(n, q, m, f, u, size[c])
           ELSE /\ got'[c] = <<>> /\ size'[c] = None /\ pc'[c] = AfterRecv(c)
                /\ received'[c] = [received[c] EXCEPT ![pc[c]] = m]
                /\ tokens'[c] = tokens[c] /\ count'[c] = 0 /\ Quiet(n)
        /\ UNCHANGED <<hcVars, iter, wrote, toProc, proc, out>>
        /\ \A d \in Clients \ {c} : Same(d)
        /\ Types' /\ \A i \in Conns : i # k => Line(i)' = Line(i)
    BY <1>1, HandlerReadsBody
  <1>5. /\ session' = session /\ served' = served /\ down' = down
        /\ Hc = Line(k) /\ Hc' = n /\ n.side # "own" /\ (n.side = "one" <=> driver.limit = 1)
    <2>1. session' = session /\ served' = served /\ down' = down
      BY <1>4 DEF hcVars
    <2>2. Hc = Line(k) /\ Hc' = n /\ Hc.side # "own" /\ (Hc.side = "one" <=> driver.limit = 1)
      BY <2>1, HcIs
    <2>3. n.side = Hc.side
      BY <1>1, <2>2, LineFields
    <2>4. QED
      BY <2>1, <2>2, <2>3
  <1> HIDE DEF n, u
  <1>6. \A d \in Clients : /\ Line(<<"own", d>>)' = Line(<<"own", d>>)
                           /\ d # served => Line(<<"hc", d>>)' = Line(<<"hc", d>>)
    BY <1>4, HcOthers
  <1>7. ~wrote[c] /\ wrote'[c] = FALSE
    <2>1. ~wrote[c]
      BY <1>1, <1>2 DEF Has, SendSteps
    <2>2. wrote[c] \in BOOLEAN /\ wrote' = wrote
      BY <1>1, <1>4 DEF Types
    <2>3. QED
      BY <2>1, <2>2
  <1>8. ASSUME pc'[c] \in {"params", "answer", "recvParams", "recover"},
               c \notin InHandler' => Sending(n, NoMsg("reset"), FALSE),
               c \in InHandler' => HandlerLine(c)' /\ pc'[c] # "dims",
               Has(c)', HasTokens(c)', OwnLine(c)',
               driver.limit = 1 =>
                 /\ received'[c]["answer"] \in {NoMsg("answer"), Msg("answer", c, c, 0)}
                 /\ pc'[c] \in Initialised => Alone(c)'
        PROVE  Good'
    <2>1. \A d \in InHandler' : d = c
      BY <1>1, <1>3, <1>4, OnlyHandler
    <2>2. Fed(Hc)' /\ served # None
      BY <1>4, <1>5, SocketAssumption
    <2>3. HcLine'
      BY <1>1, <1>4, <1>5, <1>6, <1>8, <2>1, <2>2, HcUsed
    <2>4. driver.limit = 1 => OneAtATime'
      BY <1>4, <1>8, HcAlone DEF Good
    <2>5. FatalHasCause'
      <3>1. \A d \in Clients : pc'[d] = "panic" => pc[d] = "panic"
        BY <1>4, <1>8 DEF Same
      <3>2. QED
        BY <1>1, <1>4, <1>5, <3>1, NoneFails DEF Good
    <2>6. \A i \in Conns : Ends(out'[i])
      BY <1>4 DEF Good
    <2>7. QED
      BY <1>1, <1>4, <1>6, <1>8, <2>3, <2>4, <2>5, <2>6, HcStep
  <1>9. ASSUME driver.limit = 1
        PROVE  /\ OneAtATime /\ received[c]["answer"] \in {NoMsg("answer"), Msg("answer", c, c, 0)}
               /\ pc[c] = "answer" => Alone(c)
    BY <1>2, <1>9 DEF Good, OneAtATime, Initialised
  <1>10. CASE ~(Len(u) >= size[c])
    <2>1. got'[c] = u /\ UNCHANGED <<pc, count, size, received, tokens>>
      BY <1>4, <1>10
    <2>2. Question(c)' = q /\ Incoming(c)' = m /\ LastComing(c)' = f /\ \A i : Token(c, i)' = Token(c, i)
      <3>1. Question(c)' = q /\ \A i : Token(c, i)' = Token(c, i)
        BY <1>2, <2>1, SameMessages DEF RecvSteps
      <3>2. Incoming(c)' = m
        BY <1>2, <1>5, <1>4, <2>1 DEF Incoming
      <3>3. QED
        BY <1>2, <2>1, <3>1, <3>2 DEF LastComing
    <2>3. HandlerLine(c)'
      <3>1. Receiving(n, q, m, f, u, size[c])
        BY <1>4, <1>10
      <3> HIDE DEF q, m, f
      <3>2. Reading(c, Hc)'
        BY <1>5, <2>1, <2>2, <3>1 DEF Reading
      <3>3. QED
        BY <1>2, <1>4, <1>5, <2>1, <3>2 DEF HandlerLine, SendSteps
    <2>4. Has(c)' /\ HasTokens(c)'
      BY <1>1, <1>2, <1>7, <2>1, <2>2 DEF Has, HasTokens, RecvSteps
    <2>5. OwnLine(c)' /\ c \in InHandler' /\ pc'[c] = pc[c]
      BY <1>1, <1>2, <1>6, <2>1, OwnLineStays DEF BeforeParams, BeforeAnswer, InHandler
    <2>6. driver.limit = 1 /\ pc'[c] \in Initialised => Alone(c)'
      <3>1. ASSUME driver.limit = 1, pc[c] \in Initialised PROVE Alone(c)'
        <4>1. Alone(c) /\ pc[c] = "answer"
          BY <1>2, <1>9, <3>1 DEF Initialised
        <4>2. Hc' = n /\ n.toProc = <<>> /\ n.proc = Hc.proc /\ Asked(c, <<>>)
          BY <1>4, <1>5 DEF Asked
        <4>3. pc'[c] = "answer"
          BY <2>5, <4>1
        <4>4. QED
          BY <4>1, <4>2, <4>3 DEF Alone
      <3>2. QED
        BY <2>5, <3>1
    <2>7. QED
      BY <1>2, <1>8, <1>9, <2>1, <2>3, <2>4, <2>5, <2>6
  <1>11. CASE Len(u) >= size[c]
    <2>1. /\ got'[c] = <<>> /\ size'[c] = None /\ pc'[c] = AfterRecv(c)
          /\ received'[c] = [received[c] EXCEPT ![pc[c]] = m]
          /\ tokens'[c] = tokens[c] /\ count'[c] = 0 /\ Quiet(n)
      BY <1>4, <1>11
    <2>2. n.side # "own" /\ (n.side = "one" <=> driver.limit = 1)
      BY <1>5
    <2>3. Sending(n, NoMsg("reset"), FALSE)
      <3>1. Stage(n.proc)[1] = "ready"
        BY <1>4 DEF Stage
      <3>2. Takes(n.side, NoMsg("reset"), Stage(n.proc))
        BY <2>2, <3>1 DEF Takes, NoMsg, Msg
      <3>3. QED
        BY <1>4, <2>1, <3>2, MaySend
    <2>4. received[c] \in [RecvSteps -> Msgs]
      BY <1>1 DEF Types
    <2>5. CASE pc[c] = "params"
      <3>1. pc'[c] = "recvParams" /\ m = Msg("params", c, None, 0) /\ m.hint = c /\ m.kind = "params"
        BY <2>1, <2>5 DEF AfterRecv, Incoming, Msg
      <3>2. /\ received'[c]["params"] = m /\ received'[c]["queries"] = received[c]["queries"]
            /\ received'[c]["answer"] = received[c]["answer"]
        BY <2>1, <2>4, <2>5 DEF RecvSteps
      <3>3. c \notin InHandler'
        BY <3>1 DEF InHandler
      <3>4. OwnLine(c)'
        <4>1. Sending(Line(<<"own", c>>), NoMsg("params"), FALSE)
          BY <1>1, <2>5 DEF OwnLine, BeforeParams
        <4>2. Sending(Line(<<"own", c>>), m, FALSE)
          <5>1. NoMsg("params").kind = "params"
            BY DEF NoMsg, Msg
          <5> HIDE DEF m
          <5>2. QED
            BY <3>1, <4>1, <5>1, SendingOther
        <4>3. Outgoing(c)' = m
          BY <3>1, <3>2 DEF Outgoing
        <4>4. QED
          BY <1>6, <1>7, <3>1, <4>2, <4>3 DEF OwnLine, BeforeParams, BeforeAnswer
      <3>5. Has(c)'
        BY <1>1, <1>7, <2>1, <3>1, <3>2, SocketAssumption DEF Has, SendSteps
      <3>6. HasTokens(c)'
        BY <1>1, <2>1, <2>5, <3>1, <3>2 DEF HasTokens, Token
      <3>7. ASSUME driver.limit = 1 PROVE Alone(c)'
        BY <1>4, <1>5, <2>5, <3>1 DEF Alone, Asked
      <3>8. QED
        BY <1>8, <1>9, <2>3, <3>1, <3>2, <3>3, <3>4, <3>5, <3>6, <3>7
    <2>6. CASE pc[c] = "answer"
      <3>1. /\ pc'[c] = "recover" /\ m = Msg("answer", Hc.proc.hint, Hc.proc.keys, 0) /\ m.kind = "answer"
            /\ m.hint = Hc.proc.hint /\ m.keys = Hc.proc.keys
        BY <2>1, <2>6 DEF AfterRecv, Incoming, Msg
      <3>2. Hc.proc.hint \in Clients /\ Hc.proc.keys \in Clients
        BY <1>4, <2>2, <2>6 DEF Fed
      <3>3. /\ received'[c]["answer"] = m /\ received'[c]["queries"] = received[c]["queries"]
            /\ received'[c]["params"] = received[c]["params"]
        BY <2>1, <2>4, <2>6 DEF RecvSteps
      <3>4. c \notin InHandler'
        BY <3>1 DEF InHandler
      <3>5. OwnLine(c)'
        <4>1. Sending(Line(<<"own", c>>), NoMsg("answer"), FALSE)
          BY <1>1, <2>6 DEF OwnLine, BeforeAnswer
        <4>2. Sending(Line(<<"own", c>>), m, FALSE)
          <5>1. NoMsg("answer").kind = "answer"
            BY DEF NoMsg, Msg
          <5> HIDE DEF m
          <5>2. QED
            BY <3>1, <4>1, <5>1, SendingOther
        <4>3. Outgoing(c)' = m
          BY <3>1, <3>3 DEF Outgoing
        <4>4. QED
          BY <1>6, <1>7, <3>1, <4>2, <4>3 DEF OwnLine, BeforeParams, BeforeAnswer
      <3>6. Has(c)'
        BY <1>1, <1>7, <2>1, <3>1, <3>2, <3>3, SocketAssumption DEF Has, SendSteps
      <3>7. HasTokens(c)'
        <4>1. m # NoMsg("answer")
          BY <3>1, <3>2, SocketAssumption DEF NoMsg, Msg
        <4>2. QED
          BY <3>1, <3>3, <4>1 DEF HasTokens
      <3>8. ASSUME driver.limit = 1
            PROVE  /\ received'[c]["answer"] \in {NoMsg("answer"), Msg("answer", c, c, 0)}
                   /\ Alone(c)'
        <4>1. Alone(c)
          BY <1>9, <2>6, <3>8
        <4>2. Hc.proc.hint = c /\ Hc.proc.keys = c
          BY <3>2, <4>1, SocketAssumption DEF Alone
        <4>3. Stage(n.proc) = <<"ready", 1>>
          BY <1>4, <3>2, SocketAssumption DEF Stage
        <4>4. Takes(n.side, NoMsg("ask"), Stage(n.proc))
          BY <2>2, <4>3 DEF Takes, NoMsg, Msg
        <4>5. Sending(n, NoMsg("ask"), FALSE)
          BY <1>4, <2>1, <4>4, MaySend
        <4>6. Alone(c)'
          <5>1. Hc' = n /\ n.proc.hint = c /\ n.proc.keys = c /\ n.toProc = <<>>
            BY <1>5, <1>4, <4>2
          <5>2. Asked(c, <<>>)
            BY DEF Asked
          <5>3. QED
            BY <4>5, <5>1, <5>2 DEF Alone
        <4>7. QED
          BY <3>1, <3>3, <4>2, <4>6
      <3>9. QED
        BY <1>8, <2>3, <3>1, <3>4, <3>5, <3>6, <3>7, <3>8
    <2>7. QED
      BY <1>2, <2>5, <2>6
  <1>12. QED
    BY <1>10, <1>11

\* A step after which the server is down, and which leaves connections alone.
LEMMA HcDies ==
    ASSUME Good, NEW c \in Clients, pc[c] \in Handler, driver' = driver, down' = TRUE,
           pc' \in [Clients -> Steps], pc'[c] \in {pc[c], "panic"}, \A d \in Clients \ {c} : pc'[d] = pc[d],
           UNCHANGED <<session, served, count, iter, wrote, reading, received, tokens, wires>>,
           FatalHasCause'
    PROVE  Good'
  <1>1. Types /\ Has(c) /\ HasTokens(c) /\ OwnLine(c) /\ HcLine
    BY DEF Good
  <1>2. /\ session' = session /\ served' = served
        /\ count' = count /\ iter' = iter /\ wrote' = wrote /\ got' = got /\ size' = size
        /\ received' = received /\ tokens' = tokens
        /\ toProc' = toProc /\ toGo' = toGo /\ proc' = proc /\ out' = out
    BY DEF reading, wires
  <1>3. Types'
    BY <1>1, <1>2 DEF Types
  <1>4. \A j \in Conns : Line(j)' = Line(j)
    BY <1>2, SameLine
  <1>5. \A d \in Clients : /\ Line(<<"own", d>>)' = Line(<<"own", d>>)
                           /\ Line(<<"hc", d>>)' = Line(<<"hc", d>>)
    BY <1>4, ConnsOf
  <1>6. \A d \in Clients \ {c} : Same(d)
    BY <1>2 DEF Same
  <1>7. InHandler' \subseteq InHandler
    <2>1. ASSUME NEW d \in Clients, d \in InHandler' PROVE d \in InHandler
      <3>1. pc'[d] = pc[d] \/ pc'[d] = "panic"
        OBVIOUS
      <3>2. QED
        BY <1>2, <2>1, <3>1 DEF InHandler
    <2>2. \A d : d \in InHandler' => d \in Clients
      BY DEF InHandler
    <2>3. QED
      BY <2>1, <2>2
  <1>8. HcLine'
    <2>1. \A d \in Clients : pc'[d] \in Initialised => pc[d] \in Initialised
      <3>1. "panic" \notin Initialised
        BY DEF Initialised
      <3>2. \A d \in Clients : pc'[d] = pc[d] \/ pc'[d] = "panic"
        OBVIOUS
      <3>3. QED
        BY <3>1, <3>2
    <2>2. QED
      BY <1>1, <1>2, <1>5, <1>7, <2>1, HcDown
  <1>9. \A i : Token(c, i)' = Token(c, i)
    BY <1>2 DEF Token
  <1>10. Has(c)'
    <2>1. CASE pc'[c] = pc[c]
      BY <1>1, <1>2, <2>1 DEF Has
    <2>2. CASE pc'[c] = "panic"
      BY <1>1, <1>2, <2>2 DEF Has
    <2>3. QED
      BY <2>1, <2>2
  <1>11. HasTokens(c)'
    <2>1. CASE pc'[c] = pc[c]
      BY <1>1, <1>2, <1>9, <2>1 DEF HasTokens
    <2>2. CASE pc'[c] = "panic"
      BY <1>1, <1>2, <1>9, <2>2 DEF HasTokens, Handler
    <2>3. QED
      BY <2>1, <2>2
  <1>12. OwnLine(c)'
    <2>1. pc[c] \in BeforeParams \/ pc[c] \in BeforeAnswer
      BY DEF Handler, BeforeParams, BeforeAnswer
    <2>2. QED
      BY <1>1, <1>5, <2>1, OwnLineStays
  <1>13. ASSUME driver.limit = 1 PROVE OneAtATime'
    <2>1. OneAtATime
      BY <1>13 DEF Good
    <2>2. received'[c]["answer"] \in {NoMsg("answer"), Msg("answer", c, c, 0)}
      BY <1>2, <2>1 DEF OneAtATime
    <2>3. QED
      BY <1>6, <2>1, <2>2, HcAlone
  <1>14. (\A a, b \in InHandler' : a = b) /\ \A k \in Conns : Ends(out'[k])
    BY <1>2, <1>7 DEF Good
  <1>15. QED
    BY <1>3, <1>5, <1>6, <1>8, <1>10, <1>11, <1>12, <1>13, <1>14, HcStep

\* A handler waits in vain only for an answer to queries that are not there.
LEMMA HcReadFails ==
    ASSUME Good, Kept, ~overlapped, NEW c \in Clients, ReadFails(c), pc[c] \in Handler, driver' = driver
    PROVE  Good'
  <1> PICK k : k = <<"hc", served>>
    OBVIOUS
  <1>1. pc[c] \in {"params", "answer"} /\ ~down /\ Fatal(c)
        /\ UNCHANGED <<session, served, count, iter, wrote, reading, received, tokens, wires>>
        /\ proc[Conn(c)].at \in Stopped
    BY DEF ReadFails, CanRun, RecvSteps, Handler, Stopped
  <1>2. c \in InHandler
    BY <1>1 DEF InHandler
  <1>3. \A d \in InHandler : d = c
    BY <1>2 DEF Good
  <1>4. k = Conn(c) /\ k \in Conns /\ HandlerLine(c)
    <2>1. pc[c] \in Handler \ {"init"}
      BY <1>1 DEF Handler
    <2>2. QED
      BY <1>1, <1>2, <1>3, <2>1, ConnIs
  <1>5. Hc.proc = proc[k] /\ (Hc.side = "one" <=> driver.limit = 1)
    <2>1. Hc = Line(k) /\ (Hc.side = "one" <=> driver.limit = 1)
      BY HcIs
    <2>2. Line(k).proc = proc[k]
      BY LineFields
    <2>3. QED
      BY <2>1, <2>2
  <1>6. ~Reading(c, Hc)
    BY <1>1, <1>4, <1>5, ReceivingRuns DEF Reading
  <1>7. driver.limit # 1 /\ proc[k].at = "unset"
    BY <1>1, <1>4, <1>5, <1>6 DEF HandlerLine
  <1>8. driver.limit > 1
    <2>1. driver \in Drivers
      BY DEF Good, Types
    <2>2. driver.limit \in Nat \ {0}
      BY <2>1, SocketAssumption
    <2>3. QED
      BY <1>7, <2>2
  <1>9. pc' = pc /\ down' = TRUE
    <2>1. Types
      BY DEF Good
    <2>2. pc' = pc /\ down' /\ down' \in BOOLEAN
      BY <1>1, <2>1, FatalTo DEF Handler
    <2>3. QED
      BY <2>2
  <1>10. FatalHasCause'
    BY <1>1, <1>4, <1>7, <1>8 DEF FatalHasCause, wires
  <1>11. QED
    <2>1. pc' \in [Clients -> Steps] /\ pc'[c] \in {pc[c], "panic"} /\ \A d \in Clients \ {c} : pc'[d] = pc[d]
      BY <1>9 DEF Good, Types
    <2>2. QED
      BY <1>1, <1>9, <1>10, <2>1, HcDies

\* A client whose call fails uses the connection no more.
LEMMA HcCallFails ==
    ASSUME Good, ~overlapped, NEW c \in Clients, CallFails(c), driver' = driver
    PROVE  Good'
  <1>1. /\ down /\ pc[c] \in Handler /\ pc' = [pc EXCEPT ![c] = "panic"] /\ down' = down
        /\ UNCHANGED <<session, served, count, iter, wrote, reading, received, tokens, wires>>
    BY DEF CallFails, Goto
  <1>2. pc' \in [Clients -> Steps] /\ pc'[c] = "panic" /\ \A d \in Clients \ {c} : pc'[d] = pc[d]
    BY <1>1 DEF Good, Types, Steps
  <1>3. FatalHasCause'
    BY <1>1 DEF FatalHasCause, Good, wires
  <1>4. down' = TRUE
    BY <1>1 DEF Good, Types
  <1>5. QED
    BY <1>1, <1>2, <1>3, <1>4, HcDies

\* The server's process reads what it replies to, and answers once it has queries.
LEMMA HcReplies ==
    ASSUME Types, NEW c \in Clients, pc[c] \in {"params", "answer"}, served # None, NEW l, l = Hc,
           l.side # "own", Reading(c, l), NEW n, Reads(l, n),
           NEW m, pc[c] = "params" => m = Msg("params", c, None, 0),
           pc[c] = "answer" => m = Msg("answer", n.proc.hint, n.proc.keys, 0)
    PROVE  \/ /\ Receiving(n, Question(c), m, m, got[c], size[c])
              /\ n.toProc = <<>> /\ pc[c] = "params" => n.proc.hint = c /\ n.proc.keys = None
              /\ n.toProc = <<>> /\ pc[c] = "answer" => n.proc.keys \in Clients
           \/ pc[c] = "answer" /\ n.side = "hc" /\ n.proc.at = "unset" /\ n.toProc = <<>> /\ Quiet(n)
  <1> DEFINE q == Question(c)
             p == l.proc
  <1>1. q \in Msgs /\ Fed(l) /\ Receiving(l, q, Incoming(c), LastComing(c), got[c], size[c])
    <2>1. q \in Msgs
      BY ReadingMsgs DEF RecvSteps
    <2>2. Receiving(l, q, Incoming(c), LastComing(c), got[c], size[c])
      BY DEF Reading
    <2>3. QED
      BY <2>1, <2>2, ReceivingFed
  <1>2. /\ pc[c] = "params" => q.kind = "hint" /\ q.hint = c
        /\ pc[c] = "answer" => q.kind = "ask"
        /\ Asks(q)
    BY DEF Question, NoMsg, Msg, Asks
  <1>3. m.i = 0
    BY DEF Msg
  <1> HIDE DEF q
  <1>4. /\ Awaited(l, q) /\ size[c] = None /\ got[c] = <<>>
    BY <1>1, ReceivingReads
  <1>5. /\ Fed(n) /\ n.proc \in Procs /\ n.side = l.side
    BY <1>1, FedReads, LineType DEF Fed, Reads
  <1>6. CASE Awaited(n, q)
    <2>1. Receiving(n, q, m, m, <<>>, None)
      BY <1>3, <1>6, Waits DEF Awaited
    <2>2. n.toProc # <<>>
      BY <1>6 DEF Awaited
    <2>3. QED
      BY <1>4, <2>1, <2>2 DEF q
  <1>7. CASE n.toProc = <<>> /\ n.toGo = <<>> /\ l.toProc[1][1] = q
    <2>1. Takes(l.side, q, Stage(p)) /\ n.proc = ServerReacts(p, q)[1] /\ n.out = ServerReacts(p, q)[2]
      <3>1. Takes(l.side, q, Stage(p))
        BY <1>1, <1>7, FedReads
      <3>2. QED
        BY <1>7, <3>1 DEF Reads, Reaction
    <2>2. p \in Procs /\ l.side \in {"hc", "one"} /\ (p.at = "ready" => p.hint \in Clients)
      BY <1>1, LineType DEF Fed
    <2>3. CASE pc[c] = "params"
      <3>1. n.proc.at = "ready" /\ n.proc.hint = c /\ n.proc.keys = None /\ n.out = Frame(Msg("params", c, None, 0))
        BY <1>1, <1>2, <2>1, <2>2, <2>3, ServerReactsTo
      <3>2. m \in Msgs /\ n.out = Frame(m)
        BY <2>3, <3>1, MsgType DEF Kinds, Names
      <3>3. Receiving(n, q, m, m, <<>>, None)
        BY <1>5, <1>7, <3>1, <3>2, FrameBegins
      <3>4. QED
        BY <1>4, <2>3, <3>1, <3>3 DEF q
    <2>4. CASE pc[c] = "answer"
      <3>1. IF p.keys = None THEN n.proc.at = "unset" /\ n.out = <<>> /\ l.side = "hc"
            ELSE n.proc = p /\ p.at = "ready" /\ n.out = Frame(Msg("answer", p.hint, p.keys, 0))
        BY <1>1, <1>2, <2>1, <2>2, <2>4, ServerReactsTo
      <3>2. CASE p.keys = None
        BY <1>5, <1>7, <2>4, <3>1, <3>2 DEF Quiet
      <3>3. CASE p.keys # None
        <4>1. n.proc.at = "ready" /\ n.proc.hint \in Names /\ n.proc.keys \in Clients
          BY <1>5, <3>1, <3>3 DEF Procs, Names
        <4>2. n.proc.keys \in Names /\ "answer" \in Kinds /\ 0 \in Nat
          BY <4>1 DEF Names, Kinds
        <4>3. m \in Msgs
          BY <2>4, <4>1, <4>2, MsgType
        <4>4. n.out = Frame(m)
          BY <2>4, <3>1, <3>3
        <4>5. Receiving(n, q, m, m, <<>>, None)
          BY <1>5, <1>7, <4>1, <4>3, <4>4, FrameBegins
        <4>6. QED
          BY <1>4, <2>4, <4>1, <4>5 DEF q
      <3>4. QED
        BY <3>2, <3>3
    <2>5. QED
      BY <2>3, <2>4
  <1>8. QED
    <2>1. \/ Awaited(n, q) /\ n.out = <<>>
          \/ Fed(n) /\ n.toProc = <<>> /\ n.toGo = <<>> /\ l.toProc[1][1] = q
      BY <1>1, <1>4, AwaitedReads
    <2>2. QED
      BY <1>6, <1>7, <2>1

\* Queries and requests for answers are all that is left, with the first one read.
LEMMA AskedRest ==
    ASSUME NEW c, NEW s \in Seq(Units), Asked(c, s), NEW j \in 0..Len(s)
    PROVE  Asked(c, Rest(s, j))
  <1>1. /\ Rest(s, j) \in Seq(Units) /\ Len(Rest(s, j)) = Len(s) - j
        /\ \A x \in 1..Len(s) - j : Rest(s, j)[x] = s[j + x]
    BY PrefixType
  <1>2. \A x \in 1..Len(s) - j : j + x \in DOMAIN s
    OBVIOUS
  <1>3. DOMAIN Rest(s, j) = 1..Len(s) - j
    BY <1>1
  <1> DEFINE r == Rest(s, j)
  <1> HIDE DEF r
  <1>4. ASSUME NEW x \in DOMAIN r
        PROVE  r[x][1].kind \in {"queries", "ask"} /\ (r[x][1].kind = "queries" => r[x][1].keys = c)
    <2>1. j + x \in DOMAIN s /\ r[x] = s[j + x]
      BY <1>1, <1>2, <1>3 DEF r
    <2>2. QED
      BY <2>1, Zenon DEF Asked
  <1>5. Asked(c, r)
    BY <1>4, Zenon DEF Asked
  <1>6. QED
    BY <1>5 DEF r

\* What is left to show of a step of the server's process.
LEMMA HcProcessed ==
    ASSUME Good, ~overlapped, NEW d \in Clients, driver' = driver,
           UNCHANGED <<hcVars, client>>, \A c \in Clients : Same(c),
           \A j \in Conns : j # <<"hc", d>> => Line(j)' = Line(j),
           Types', \A j \in Conns : Ends(out'[j]),
           \A j \in Conns : proc[j].at = "unset" => proc'[j].at = "unset",
           HcLine', driver.limit = 1 => \A c \in Clients : ~down' /\ pc'[c] \in Initialised => Alone(c)'
    PROVE  Good'
  <1>1. /\ session' = session /\ served' = served /\ down' = down
        /\ pc' = pc /\ wrote' = wrote /\ received' = received
    BY DEF hcVars, client
  <1>2. \A c \in Clients : Line(<<"own", c>>)' = Line(<<"own", c>>)
    BY HcOthers
  <1>3. Has(d)' /\ HasTokens(d)' /\ OwnLine(d)'
    <2>1. Has(d) /\ HasTokens(d) /\ OwnLine(d)
      BY DEF Good
    <2>2. QED
      BY <1>2, <2>1, OtherClient
  <1>4. InHandler' = InHandler /\ Running' = Running
    BY <1>1 DEF InHandler, Running
  <1>5. \A a, b \in InHandler' : a = b
    BY <1>4 DEF Good
  <1>6. FatalHasCause'
    <2>1. FatalHasCause
      BY DEF Good
    <2>2. QED
      BY <1>1, <2>1, NoneFails
  <1>7. ASSUME driver.limit = 1 PROVE OneAtATime'
    <2>1. OneAtATime
      BY <1>7 DEF Good
    <2>2. QED
      BY <1>1, <1>4, <1>7, <2>1 DEF OneAtATime
  <1>8. QED
    BY <1>2, <1>3, <1>5, <1>6, <1>7, HcStep

\* Only the process that serves a connection does anything on it.
LEMMA HcServes ==
    ASSUME Good, NEW d \in Clients, Process(<<"hc", d>>), driver' = driver
    PROVE  served = d /\ served # None /\ Fed(Hc)
  <1> DEFINE k == <<"hc", d>>
  <1>1. Types /\ (\A j \in Conns : Ends(out[j])) /\ HcLine /\ k \in Conns
    BY ConnsOf DEF Good
  <1>2. out[k] # <<>> \/ Served(k)
    BY <1>1, ProcessTo
  <1>3. served = d
    <2>1. SUFFICES ASSUME served # d PROVE FALSE
      OBVIOUS
    <2>2. out[k] = <<>>
      BY <1>1, <2>1, LineFields DEF HcLine, Fresh
    <2>3. ~Served(k)
      BY <2>1 DEF Served
    <2>4. QED
      BY <1>2, <2>2, <2>3
  <1>4. QED
    BY <1>1, <1>3, SocketAssumption DEF HcLine

\* The HC server's process reads or writes.
LEMMA HcProcess ==
    ASSUME Good, ~overlapped, NEW d \in Clients, Process(<<"hc", d>>), driver' = driver
    PROVE  Good'
  <1> DEFINE k == <<"hc", d>>
             l == Line(k)
             n == Line(k)'
  <1>1. Types /\ (\A j \in Conns : Ends(out[j])) /\ HcLine /\ k \in Conns
    BY ConnsOf DEF Good
  <1>2. /\ UNCHANGED <<hcVars, client>> /\ \A c \in Clients : Same(c)
        /\ \A j \in Conns : j # k => Line(j)' = Line(j)
        /\ Types' /\ \A j \in Conns : Ends(out'[j])
        /\ \A j \in Conns : proc[j].at = "unset" => proc'[j].at = "unset"
        /\ Fed(l) => Reads(l, n) \/ \E j \in Nat : Writes(l, n, j)
    BY <1>1, ProcessTo
  <1>3. /\ session' = session /\ served' = served /\ down' = down
        /\ pc' = pc /\ wrote' = wrote /\ received' = received
    BY <1>2 DEF hcVars, client
  <1>4. served = d
    BY HcServes
  <1>5. /\ Hc = l /\ Hc' = n /\ l.side # "own" /\ (l.side = "one" <=> driver.limit = 1) /\ served # None
    BY <1>3, <1>4, HcIs, SocketAssumption
  <1>6. Fed(l)
    BY <1>1, <1>5 DEF HcLine
  <1>7. InHandler' = InHandler
    BY <1>3 DEF InHandler
  <1> HIDE DEF l, n
  <1>8. CASE Reads(l, n)
    <2>1. Fed(n)
      BY <1>6, <1>8, FedReads
    <2>2. ASSUME NEW m \in Msgs, NEW begun \in BOOLEAN, Sending(l, m, begun) PROVE Sending(n, m, begun)
      BY <1>8, <2>2, SendingReads
    <2>3. NoMsg("reset") \in Msgs /\ NoMsg("ask") \in Msgs
      BY MsgType DEF NoMsg, Kinds, Names
    <2>4. ASSUME ~down', NEW c \in InHandler'
          PROVE  /\ IF pc'[c] = "dims" THEN session' = None => served' = c ELSE session' = served'
                 /\ HandlerLine(c)'
      <3>1. c \in Clients /\ c \in InHandler /\ ~down
        BY <1>3, <1>7, <2>4 DEF InHandler
      <3>2. /\ IF pc[c] = "dims" THEN session = None => served = c ELSE session = served
            /\ HandlerLine(c) /\ Same(c)
        BY <1>1, <1>2, <3>1 DEF HcLine
      <3>3. HandlerLine(c)'
        <4>1. ASSUME pc[c] \in SendSteps PROVE Sending(n, Outgoing(c)', wrote'[c])
          <5>1. Sending(l, Outgoing(c), wrote[c]) /\ wrote[c] \in BOOLEAN
            BY <1>1, <1>5, <3>1, <3>2, <4>1 DEF HandlerLine, Types
          <5>2. Outgoing(c) \in Msgs /\ Outgoing(c)' = Outgoing(c)
            BY <1>1, <3>1, <3>2, <4>1, OutgoingType, SameMessages DEF Same
          <5>3. QED
            BY <1>3, <2>2, <5>1, <5>2
        <4>2. ASSUME pc[c] \in {"params", "answer"}
              PROVE  HandlerLine(c)'
          <5> DEFINE m == Incoming(c)'
          <5>1. Reading(c, l)
            <6>1. l.toProc # <<>> \/ ~Quiet(l)
              BY <1>8 DEF Reads
            <6>2. QED
              BY <1>5, <3>2, <4>2, <6>1 DEF HandlerLine
          <5>2. /\ pc[c] = "params" => m = Msg("params", c, None, 0)
                /\ pc[c] = "answer" => m = Msg("answer", n.proc.hint, n.proc.keys, 0)
            BY <1>3, <1>5 DEF Incoming
          <5>3. Question(c)' = Question(c) /\ LastComing(c)' = m
            <6>1. Question(c)' = Question(c)
              BY <3>2, <4>2, SameMessages DEF RecvSteps, Same
            <6>2. QED
              BY <1>3, <4>2, <6>1 DEF LastComing
          <5> HIDE DEF m
          <5>4. \/ /\ Receiving(n, Question(c), m, m, got[c], size[c])
                   /\ n.toProc = <<>> /\ pc[c] = "params" => n.proc.hint = c /\ n.proc.keys = None
                   /\ n.toProc = <<>> /\ pc[c] = "answer" => n.proc.keys \in Clients
                \/ pc[c] = "answer" /\ n.side = "hc" /\ n.proc.at = "unset" /\ n.toProc = <<>> /\ Quiet(n)
            <6>1. Types /\ c \in Clients /\ pc[c] \in {"params", "answer"} /\ served # None
                  /\ l = Hc /\ l.side # "own" /\ Reading(c, l) /\ Reads(l, n)
              BY <1>1, <1>5, <1>8, <3>1, <4>2, <5>1
            <6>2. QED
              BY ONLY <5>2, <6>1, HcReplies, ZenonT(40)
          <5>5. got'[c] = got[c] /\ size'[c] = size[c]
            BY <3>2 DEF Same
          <5>6. Receiving(n, Question(c), m, m, got[c], size[c]) => Reading(c, Hc)'
            BY <1>5, <5>3, <5>5 DEF Reading, m
          <5>7. QED
            BY <1>3, <1>5, <4>2, <5>4, <5>6 DEF HandlerLine, SendSteps
        <4>3. QED
          BY <1>3, <1>5, <4>1, <4>2 DEF HandlerLine
      <3>4. QED
        BY <1>3, <3>2, <3>3
    <2>5. HcLine'
      <3>1. \A c \in Clients : c # served' => Fresh(Line(<<"hc", c>>)')
        BY <1>1, <1>2, <1>3, <1>4, HcOthers DEF HcLine
      <3>2. ASSUME ~down', InHandler' = {}
            PROVE  session' = served' /\ (served' # None => Sending(Hc', NoMsg("reset"), FALSE))
        BY <1>1, <1>3, <1>5, <1>7, <2>2, <2>3, <3>2 DEF HcLine
      <3>3. session' \in {None, served'} /\ served' # None /\ Fed(Hc')
        BY <1>1, <1>3, <1>5, <2>1 DEF HcLine
      <3>4. QED
        BY <2>4, <3>1, <3>2, <3>3 DEF HcLine
    <2>6. ASSUME driver.limit = 1, ~down', NEW c \in Clients, pc'[c] \in Initialised PROVE Alone(c)'
      <3>1. Alone(c)
        BY <1>3, <2>6 DEF Good, OneAtATime
      <3> DEFINE m == l.toProc[1][1]
                 p == l.proc
      <3>2. m \in Msgs /\ Takes(l.side, m, Stage(p))
        BY <1>6, <1>8, FedReads
      <3>3. l.toProc \in Seq(Units) /\ l.toProc # <<>> /\ Asked(c, l.toProc)
        BY <1>5, <1>6, <1>8, <3>1, LineType DEF Alone, Fed, Reads
      <3>4. m.kind \in {"queries", "ask"} /\ (m.kind = "queries" => m.keys = c)
        <4>1. 1 \in DOMAIN l.toProc
          BY <3>3
        <4>2. QED
          BY <3>3, <4>1 DEF Asked
      <3>5. n.proc = ServerReacts(p, m)[1] /\ n.toProc = Rest(l.toProc, Total(m))
            /\ Total(m) \in 0..Len(l.toProc)
        <4>1. n.proc = Reaction(l.side, p, m)[1] /\ n.toProc = Rest(l.toProc, Total(m)) /\ Len(l.toProc) >= Total(m)
          BY <1>8 DEF Reads
        <4>2. Total(m) \in Nat /\ Len(l.toProc) \in Nat
          BY <3>2, <3>3, TotalType
        <4> HIDE DEF m, p
        <4>3. QED
          BY <1>5, <4>1, <4>2 DEF Reaction
      <3>6. p \in Procs /\ l.side \in {"hc", "one"} /\ (p.at = "ready" => p.hint \in Clients)
        BY <1>5, <1>6, LineType DEF Fed
      <3> HIDE DEF m, p
      <3>7. n.proc.hint = c /\ n.proc.keys \in {None, c}
        <4>1. p.hint = c /\ p.keys \in {None, c}
          BY <1>5, <3>1 DEF Alone, p
        <4>2. CASE m.kind = "queries"
          <5>1. n.proc.hint = p.hint /\ n.proc.keys = m.keys
            BY <3>2, <3>5, <3>6, <4>2, ServerReactsTo
          <5>2. QED
            BY <3>4, <4>1, <4>2, <5>1
        <4>3. CASE m.kind = "ask"
          <5>1. n.proc.hint = p.hint /\ n.proc.keys = p.keys
            BY <3>2, <3>5, <3>6, <4>3, ServerReactsTo
          <5>2. QED
            BY <4>1, <5>1
        <4>4. QED
          BY <3>4, <4>2, <4>3
      <3>8. Asked(c, n.toProc)
        BY <3>3, <3>5, AskedRest
      <3>9. pc'[c] \in {"recover", "token"} \/ (pc'[c] = "ask" /\ ~wrote'[c]) => Sending(n, NoMsg("ask"), FALSE)
        BY <1>3, <1>5, <2>2, <2>3, <3>1 DEF Alone
      <3>10. QED
        BY <1>5, <3>7, <3>8, <3>9 DEF Alone
    <2>7. QED
      BY <1>2, <2>5, <2>6, HcProcessed
  <1>9. CASE \E j \in Nat : Writes(l, n, j)
    <2>1. PICK j \in Nat : Writes(l, n, j)
      BY <1>9
    <2>2. /\ n.side = l.side /\ n.whole = l.whole /\ n.toProc = l.toProc /\ n.proc = l.proc
          /\ ~Quiet(l)
      BY <2>1 DEF Writes, Quiet
    <2>3. ASSUME NEW m, NEW begun, Sending(l, m, begun) PROVE FALSE
      BY <2>2, <2>3 DEF Sending
    <2>4. Fed(n)
      <3>1. n.toGo = toGo'[k] /\ n.out = out'[k]
        BY LineFields DEF n
      <3>2. {n.toGo, n.out} \subseteq Seq(Units)
        BY <1>1, <1>2, <3>1 DEF Types
      <3>3. IsLine(n)
        BY <1>6, <2>2, <3>2 DEF Fed, IsLine
      <3>4. QED
        BY <1>6, <2>2, <3>3 DEF Fed
    <2>5. ASSUME ~down', NEW c \in InHandler'
          PROVE  /\ IF pc'[c] = "dims" THEN session' = None => served' = c ELSE session' = served'
                 /\ HandlerLine(c)'
      <3>1. c \in Clients /\ c \in InHandler /\ ~down
        BY <1>3, <1>7, <2>5 DEF InHandler
      <3>2. /\ IF pc[c] = "dims" THEN session = None => served = c ELSE session = served
            /\ HandlerLine(c) /\ Same(c)
        BY <1>1, <1>2, <3>1 DEF HcLine
      <3>3. pc[c] \notin SendSteps
        BY <1>5, <2>3, <3>2 DEF HandlerLine
      <3>4. ASSUME pc[c] \in {"params", "answer"}
            PROVE  /\ Reading(c, Hc)'
                   /\ pc[c] = "params" => (n.toProc = <<>> => n.proc.hint = c /\ n.proc.keys = None)
                   /\ pc[c] = "answer" => (n.toProc = <<>> => n.proc.keys \in Clients)
        <4>1. /\ Reading(c, l)
              /\ pc[c] = "params" => (l.toProc = <<>> => l.proc.hint = c /\ l.proc.keys = None)
              /\ pc[c] = "answer" => (l.toProc = <<>> => l.proc.keys \in Clients)
          BY <1>5, <2>2, <3>2, <3>4 DEF HandlerLine
        <4>2. LastComing(c) \in Msgs
          BY <1>1, <1>5, <3>1, <3>4, ReadingMsgs DEF RecvSteps
        <4>3. Receiving(n, Question(c), Incoming(c), LastComing(c), got[c], size[c])
          BY <2>1, <4>1, <4>2, ReceivingWrites DEF Reading
        <4>4. Question(c)' = Question(c)
          BY <3>2, <3>4, SameMessages DEF RecvSteps, Same
        <4>5. Incoming(c)' = Incoming(c)
          BY <1>3, <1>5, <2>2, <3>4 DEF Incoming
        <4>6. LastComing(c)' = LastComing(c)
          BY <1>3, <3>4, <4>5 DEF LastComing
        <4>7. got'[c] = got[c] /\ size'[c] = size[c]
          BY <3>2 DEF Same
        <4>8. Reading(c, Hc)'
          BY <1>5, <4>3, <4>4, <4>5, <4>6, <4>7 DEF Reading
        <4>9. QED
          BY <2>2, <4>1, <4>8
      <3>5. HandlerLine(c)'
        BY <1>3, <1>5, <3>3, <3>4 DEF HandlerLine
      <3>6. QED
        BY <1>3, <3>2, <3>5
    <2>6. HcLine'
      <3>1. \A c \in Clients : c # served' => Fresh(Line(<<"hc", c>>)')
        BY <1>1, <1>2, <1>3, <1>4, HcOthers DEF HcLine
      <3>2. ~down' => InHandler' # {}
        BY <1>1, <1>3, <1>5, <1>7, <2>3 DEF HcLine
      <3>3. session' \in {None, served'} /\ served' # None /\ Fed(Hc')
        BY <1>1, <1>3, <1>5, <2>4 DEF HcLine
      <3>4. QED
        BY <2>5, <3>1, <3>2, <3>3 DEF HcLine
    <2>7. ASSUME driver.limit = 1, ~down', NEW c \in Clients, pc'[c] \in Initialised PROVE Alone(c)'
      <3>1. Alone(c)
        BY <1>3, <2>7 DEF Good, OneAtATime
      <3>2. QED
        BY <1>3, <1>5, <2>2, <2>3, <3>1 DEF Alone
    <2>8. QED
      BY <1>2, <2>6, <2>7, HcProcessed
  <1>10. QED
    BY <1>2, <1>6, <1>8, <1>9

-----------------------------------------------------------------------------
(* The invariant is inductive *)

\* Whatever a client does.
LEMMA ClientStep ==
    ASSUME Good, Kept, ~overlapped, NEW c \in Clients, Client(c), Observed, ~overlapped'
    PROVE  Good'
  <1>1. driver' = driver
    BY DEF Observed
  <1>2. CASE Start(c)
    BY <1>1, <1>2, OwnStart
  <1>3. CASE EnterInit(c)
    BY <1>3, HcEnterInit
  <1>4. CASE WriteSize(c)
    BY <1>1, <1>4, OwnWriteSize, HcWriteSize
  <1>5. CASE WriteBody(c)
    BY <1>1, <1>5, OwnWriteBody, HcWriteBody
  <1>6. CASE ReadSize(c)
    BY <1>1, <1>6, OwnReadSize, HcReadSize
  <1>7. CASE ReadBody(c)
    BY <1>1, <1>7, OwnReadBody, HcReadBody
  <1>8. CASE ReadFails(c)
    BY <1>1, <1>8, OwnReadFails, HcReadFails
  <1>9. CASE CallFails(c)
    BY <1>1, <1>9, HcCallFails
  <1>10. QED
    BY <1>2, <1>3, <1>4, <1>5, <1>6, <1>7, <1>8, <1>9 DEF Client

\* Whatever a process does.
LEMMA ProcessStep ==
    ASSUME Good, ~overlapped, NEW k \in Conns, Process(k), driver' = driver
    PROVE  Good'
  <1>1. CASE \E c \in Clients : k = <<"own", c>>
    BY <1>1, OwnProcess
  <1>2. CASE \E c \in Clients : k = <<"hc", c>>
    BY <1>2, HcProcess
  <1>3. QED
    BY <1>1, <1>2 DEF Conns

\* The initial states.
LEMMA GoodInit ==
    ASSUME Init
    PROVE  Good /\ overlapped = FALSE
  <1>1. driver \in Drivers /\ None \in Names /\ 0 \in Nat /\ <<>> \in Seq(Units) /\ <<>> \in Seq(Msgs)
    BY DEF Init, Names
  <1>2. NewProc \in Procs
    BY DEF NewProc, Procs, Names
  <1>3. Nothing \in [RecvSteps -> Msgs]
    <2>1. \A kind \in RecvSteps : Msg(kind, None, None, 0) \in Msgs
      BY MsgType DEF RecvSteps, Kinds, Names
    <2>2. QED
      BY <2>1 DEF Nothing
  <1>4. Types
    <2>1. "off" \in Steps
      BY DEF Steps
    <2>2. QED
      BY <1>1, <1>2, <1>3, <2>1 DEF Init, Types
  <1>5. \A k \in Conns : Ends(out[k])
    BY DEF Init, Ends
  <1>6. InHandler = {} /\ Running = {}
    BY DEF Init, InHandler, Running
  <1>7. \A k \in Conns : Fresh(Line(k))
    BY LineFields DEF Init, Fresh
  <1>8. ASSUME NEW c \in Clients PROVE Has(c) /\ HasTokens(c) /\ OwnLine(c)
    <2>1. pc[c] = "off" /\ count[c] = 0 /\ ~wrote[c] /\ got[c] = <<>> /\ size[c] = None /\ tokens[c] = <<>>
      BY DEF Init
    <2>2. \A kind \in RecvSteps : received[c][kind] = NoMsg(kind)
      BY DEF Init, Nothing, NoMsg
    <2>3. Has(c)
      BY <2>1, <2>2, SocketAssumption DEF Has, RecvSteps
    <2>4. HasTokens(c)
      BY <2>1 DEF HasTokens
    <2>5. Fresh(Line(<<"own", c>>))
      BY <1>7, ConnsOf
    <2>6. OwnLine(c)
      BY <2>1, <2>5 DEF OwnLine, BeforeParams, BeforeAnswer
    <2>7. QED
      BY <2>3, <2>4, <2>6
  <1>9. HcLine
    <2>1. \A c \in Clients : Fresh(Line(<<"hc", c>>))
      BY <1>7, ConnsOf
    <2>2. session = None /\ served = None /\ \A c \in Clients : pc[c] \notin Initialised
      BY DEF Init, Initialised
    <2>3. QED
      BY <1>6, <2>1, <2>2 DEF HcLine
  <1>10. OneAtATime
    <2>1. \A c \in Clients : received[c]["answer"] = NoMsg("answer") /\ pc[c] \notin Initialised
      BY DEF Init, Nothing, NoMsg, RecvSteps, Initialised
    <2>2. QED
      BY <1>6, <2>1 DEF OneAtATime
  <1>11. FatalHasCause
    BY DEF Init, FatalHasCause
  <1>12. overlapped = FALSE
    BY DEF Init
  <1>13. QED
    BY <1>4, <1>5, <1>6, <1>8, <1>9, <1>10, <1>11, <1>12 DEF Good

\* A step that changes nothing.
LEMMA GoodStays ==
    ASSUME Good, UNCHANGED vars
    PROVE  Good'
  <1>1. /\ driver' = driver /\ session' = session /\ served' = served /\ down' = down
        /\ overlapped' = overlapped
        /\ pc' = pc /\ count' = count /\ iter' = iter /\ wrote' = wrote /\ got' = got /\ size' = size
        /\ received' = received /\ tokens' = tokens
        /\ toProc' = toProc /\ toGo' = toGo /\ proc' = proc /\ out' = out
    BY DEF vars, hcVars, client, reading, wires
  <1>2. /\ \A k : Line(k)' = Line(k)
        /\ \A d \in Clients : Same(d)
        /\ InHandler' = InHandler /\ Running' = Running
    BY <1>1 DEF Line, Same, InHandler, Running
  <1>3. Types' /\ \A k \in Conns : Ends(out'[k])
    BY <1>1 DEF Good, Types
  <1>4. \A c \in Clients : Has(c)' /\ HasTokens(c)' /\ OwnLine(c)'
    BY <1>2, OtherClient DEF Good
  <1>5. HcLine'
    BY <1>1, <1>2, HcUntouched DEF Good, InHandler
  <1>6. ASSUME driver.limit = 1 PROVE OneAtATime'
    <2>1. OneAtATime /\ Hc' = Hc
      BY <1>1, <1>2, <1>6 DEF Good, Hc
    <2>2. ASSUME NEW c \in Clients, ~down', pc'[c] \in Initialised PROVE Alone(c)'
      BY <1>1, <2>1, <2>2, SameAlone DEF OneAtATime
    <2>3. QED
      BY <1>1, <1>2, <2>1, <2>2 DEF OneAtATime
  <1>7. FatalHasCause'
    BY <1>1 DEF Good, FatalHasCause
  <1>8. QED
    BY <1>1, <1>2, <1>3, <1>4, <1>5, <1>6, <1>7 DEF Good

\* A step of a client is no other's; it goes on in its call, or is in none; and
\* NewServer alone changes the session, at its end.
LEMMA OneMoves ==
    ASSUME Types, NEW c \in Clients, Client(c), Has(c)
    PROVE  /\ \A d \in Clients \ {c} : pc'[d] = pc[d]
           /\ c \in Calling' => pc[c] \in Handler
           /\ \/ session' = session
              \/ session' = c /\ Conn(c) = <<"hc", c>> /\ pc[c] = "dims" /\ pc'[c] = "hint" /\ ~wrote'[c]
  <1>1. pc \in [Clients -> Steps] /\ wrote \in [Clients -> BOOLEAN]
    BY DEF Types
  <1>2. CASE Start(c)
    BY <1>1, <1>2 DEF Start, Goto, Calling
  <1>3. CASE EnterInit(c)
    BY <1>1, <1>3 DEF EnterInit, Goto, Handler
  <1>4. CASE WriteSize(c)
    <2>1. pc' = pc /\ session' = session
      BY <1>4 DEF WriteSize, hcVars
    <2>2. QED
      BY <2>1 DEF Calling, Handler
  <1>5. CASE WriteBody(c)
    <2>1. /\ pc[c] \in SendSteps /\ pc' = [pc EXCEPT ![c] = AfterSend(c)]
          /\ wrote' = [wrote EXCEPT ![c] = FALSE]
          /\ session' = IF pc[c] = "dims" /\ Conn(c) = <<"hc", c>> THEN c ELSE session
      BY <1>5 DEF WriteBody, Goto
    <2>2. pc'[c] = AfterSend(c) /\ ~wrote'[c] /\ \A d \in Clients \ {c} : pc'[d] = pc[d]
      BY <1>1, <2>1
    <2>3. /\ pc[c] = "dims" => AfterSend(c) = "hint"
          /\ pc[c] \notin Handler => AfterSend(c) \in {"init", "key", "queries", "token"}
      BY <2>1 DEF AfterSend, AfterKey, SendSteps, Handler
    <2>4. QED
      BY <2>1, <2>2, <2>3 DEF Calling
  <1>6. CASE ReadSize(c)
    <2>1. (Fatal(c) \/ pc' = pc) /\ session' = session
      BY <1>6 DEF ReadSize
    <2>2. QED
      BY <1>1, <2>1 DEF Fatal, Goto, Calling, Handler
  <1>7. CASE ReadBody(c)
    <2>1. /\ pc[c] \in RecvSteps /\ wrote' = wrote /\ session' = session
          /\ pc' = pc \/ pc' = [pc EXCEPT ![c] = AfterRecv(c)]
      BY <1>7 DEF ReadBody, Goto
    <2>2. ~wrote'[c]
      BY <2>1 DEF Has, SendSteps, RecvSteps
    <2>3. AfterRecv(c) \notin {"dims", "params", "answer"}
      BY <2>1 DEF AfterRecv, AfterToken, RecvSteps
    <2>4. QED
      BY <1>1, <2>1, <2>2, <2>3 DEF Calling, Handler
  <1>8. CASE ReadFails(c)
    <2>1. Fatal(c) /\ session' = session
      BY <1>8 DEF ReadFails
    <2>2. QED
      BY <1>1, <2>1 DEF Fatal, Goto, Calling, Handler
  <1>9. CASE CallFails(c)
    BY <1>1, <1>9 DEF CallFails, Goto, Calling
  <1>10. QED
    BY <1>2, <1>3, <1>4, <1>5, <1>6, <1>7, <1>8, <1>9 DEF Client

\* A call keeps its connection, and no session is made while another call goes on.
LEMMA KeptStays ==
    ASSUME Good, Kept, Observed, ~overlapped', overlapped' \in BOOLEAN,
           (\E c \in Clients : Client(c)) \/ (\E k \in Conns : Process(k))
    PROVE  Kept'
  <1>1. \A d \in Clients : pc[d] \in Handler => Conn(d) = Chosen(d)
    BY DEF Conn, Kept
  <1>2. SUFFICES ASSUME NEW d \in Calling' PROVE conn'[d] = Chosen(d)'
    BY DEF Kept
  <1>3. /\ d \in Clients /\ pc'[d] \in Handler /\ conn'[d] = Conn(d)
        /\ d \in InHandler' /\ \A c \in InHandler' : c = d
    <2>1. d \in Clients /\ pc'[d] \in Handler /\ d \in InHandler'
      BY <1>2 DEF Calling, Handler, InHandler
    <2>2. QED
      BY <1>2, <2>1 DEF Observed
  <1>4. CASE \E k \in Conns : Process(k)
    <2>1. UNCHANGED <<hcVars, client>>
      BY <1>4 DEF Process, ProcReads, ProcWrites
    <2>2. pc' = pc /\ session' = session
      BY <2>1 DEF client, hcVars
    <2>3. QED
      BY <1>1, <1>3, <2>2 DEF Chosen
  <1>5. ASSUME NEW c \in Clients, Client(c) PROVE conn'[d] = Chosen(d)'
    <2>1. /\ \A e \in Clients \ {c} : pc'[e] = pc[e]
          /\ c \in Calling' => pc[c] \in Handler
          /\ \/ session' = session
             \/ session' = c /\ Conn(c) = <<"hc", c>> /\ pc[c] = "dims" /\ pc'[c] = "hint" /\ ~wrote'[c]
      BY <1>5, OneMoves DEF Good
    <2>2. pc[d] \in Handler
      BY <1>2, <1>3, <2>1
    <2>3. conn'[d] = Chosen(d)
      BY <1>1, <1>3, <2>2
    <2>4. CASE session' = session
      BY <2>3, <2>4 DEF Chosen
    <2>5. CASE session' # session
      <3>1. session' = c /\ Conn(c) = <<"hc", c>> /\ pc[c] = "dims" /\ pc'[c] = "hint" /\ ~wrote'[c]
        BY <2>1, <2>5
      <3>2. c \in InHandler' /\ c \notin Calling'
        BY <3>1 DEF InHandler, Calling
      <3>3. QED
        BY <1>2, <1>3, <3>2
    <2>6. QED
      BY <2>4, <2>5
  <1>6. QED
    BY <1>4, <1>5

\* The invariant holds initially.
THEOREM InvInit ==
    Init => IInv
  <1>1. Init => Kept
    BY DEF Init, Kept, Calling
  <1>2. QED
    BY <1>1, GoodInit DEF IInv

\* Every step keeps the invariant, until handlers overlap.
THEOREM InvNext ==
    IInv /\ [Next]_vars => IInv'
  <1>1. ASSUME IInv, Next PROVE IInv'
    <2>1. Observed /\ overlapped \in BOOLEAN /\ overlapped' \in BOOLEAN
      BY <1>1 DEF Next, Observed, IInv
    <2>2. CASE overlapped \/ overlapped'
      BY <2>1, <2>2 DEF Observed, IInv
    <2>3. CASE ~overlapped /\ ~overlapped'
      <3>1. Good /\ driver' = driver
        BY <1>1, <2>1, <2>3 DEF IInv, Observed
      <3>0. Kept
        BY <1>1, <2>3 DEF IInv
      <3>2. ASSUME NEW c \in Clients, Client(c) PROVE Good'
        BY <2>1, <2>3, <3>0, <3>1, <3>2, ClientStep
      <3>3. ASSUME NEW k \in Conns, Process(k) PROVE Good'
        BY <2>3, <3>1, <3>3, ProcessStep
      <3>4. Good' /\ ((\E c \in Clients : Client(c)) \/ \E k \in Conns : Process(k))
        BY <1>1, <3>2, <3>3 DEF Next
      <3>5. Kept'
        BY <2>1, <2>3, <3>0, <3>1, <3>4, KeptStays
      <3>6. QED
        BY <2>1, <3>4, <3>5 DEF IInv
    <2>4. QED
      BY <2>2, <2>3
  <1>2. ASSUME IInv, UNCHANGED vars PROVE IInv'
    <2>1. overlapped' = overlapped
      BY <1>2 DEF vars
    <2>2. Good => Good'
      BY <1>2, GoodStays
    <2>3. Kept => Kept'
      BY <1>2 DEF vars, client, hcVars, Kept, Calling, Chosen
    <2>4. QED
      BY <1>2, <2>1, <2>2, <2>3 DEF IInv
  <1>3. QED
    BY <1>1, <1>2

\* The invariant: as long as no two handlers have been on the connection at a time,
\* every process makes sense of what it is sent, and every reply is read by the
\* handler that asked for it, from its first byte to its last.
THEOREM Invariance ==
    Spec => []IInv
  BY InvInit, InvNext, PTL DEF Spec

-----------------------------------------------------------------------------
(* Against HintSession *)

SessionHint == IF served = None THEN None ELSE Hc.proc.hint
SessionQueries == IF served = None THEN None ELSE Hc.proc.keys
SessionAnswers ==
    [c \in Clients |-> LET a == received[c]["answer"]
                       IN IF a = NoMsg("answer") THEN None ELSE [hint |-> a.hint, keys |-> a.keys]]

LEMMA NothingAnswer ==
    Nothing["answer"] = NoMsg("answer")
  BY DEF Nothing, NoMsg, RecvSteps

\* What HintSession sees of a step: nothing, a hint set, queries set, or an answer.
LEMMA SessionStutters ==
    ASSUME SessionHint' = SessionHint, SessionQueries' = SessionQueries, SessionAnswers' = SessionAnswers
    PROVE  UNCHANGED Atomic!vars
  BY NothingAnswer DEF SessionHint, SessionQueries, SessionAnswers, Hc, Line, Atomic!vars

LEMMA SessionSetsHint ==
    ASSUME NEW c, SessionHint' = c, SessionQueries' = None, SessionAnswers' = SessionAnswers
    PROVE  Atomic!SetHint(c)
  BY NothingAnswer DEF SessionHint, SessionQueries, SessionAnswers, Hc, Line, Atomic!SetHint

LEMMA SessionSetsQuery ==
    ASSUME NEW c, SessionHint # None, SessionHint' = SessionHint, SessionQueries' = c,
           SessionAnswers' = SessionAnswers
    PROVE  Atomic!SetQuery(c)
  BY NothingAnswer DEF SessionHint, SessionQueries, SessionAnswers, Hc, Line, Atomic!SetQuery

LEMMA SessionGivesAnswer ==
    ASSUME NEW c, SessionHint # None, SessionQueries # None,
           SessionHint' = SessionHint, SessionQueries' = SessionQueries,
           SessionAnswers' = [SessionAnswers EXCEPT ![c] = [hint |-> SessionHint, keys |-> SessionQueries]]
    PROVE  Atomic!Answer(c)
  <1> DEFINE shown == [o \in Clients |-> LET a == received[o]["answer"]
                                         IN IF a = Nothing["answer"] THEN None
                                            ELSE [hint |-> a.hint, keys |-> a.keys]]
  <1>1. shown = SessionAnswers
    BY NothingAnswer DEF SessionAnswers
  <1>2. shown' = SessionAnswers'
    BY NothingAnswer DEF SessionAnswers
  <1> HIDE DEF shown
  <1>3. shown' = [shown EXCEPT ![c] = [hint |-> SessionHint, keys |-> SessionQueries]]
    BY <1>1, <1>2
  <1>4. QED
    BY <1>3 DEF SessionHint, SessionQueries, Hc, Line, Atomic!Answer, shown

\* Only the server's process has a hint and queries.
LEMMA SessionSame ==
    ASSUME served' = served, proc' = proc
    PROVE  SessionHint' = SessionHint /\ SessionQueries' = SessionQueries
  BY DEF SessionHint, SessionQueries, Hc, Line

\* No call of a client changes the server's process; AnswerRPC's reply is the answer.
LEMMA ClientSession ==
    ASSUME Good, Kept, NEW c \in Clients, Client(c), driver' = driver
    PROVE  Atomic!Next \/ UNCHANGED Atomic!vars
  <1>1. CASE EnterInit(c)
    <2>1. proc' = proc /\ received' = received
      BY <1>1 DEF EnterInit, wires
    <2>2. SessionAnswers' = SessionAnswers
      BY <2>1 DEF SessionAnswers
    <2>3. SessionHint' = SessionHint /\ SessionQueries' = SessionQueries
      <3>1. CASE served' = served
        BY <2>1, <3>1, SessionSame
      <3>2. CASE served' # served
        <4>1. served = None /\ served' = c
          BY <1>1, <3>2 DEF EnterInit
        <4>2. Fresh(Line(<<"hc", c>>))
          BY <4>1, SocketAssumption DEF Good, HcLine
        <4>3. proc'[<<"hc", c>>] = NewProc
          BY <2>1, <4>2 DEF Fresh, Line
        <4>4. QED
          BY <4>1, <4>3, SocketAssumption DEF SessionHint, SessionQueries, Hc, Line, NewProc
      <3>3. QED
        BY <3>1, <3>2
    <2>4. QED
      BY <2>2, <2>3, SessionStutters
  <1>2. CASE \/ Start(c) \/ WriteSize(c) \/ WriteBody(c) \/ ReadSize(c) \/ ReadFails(c) \/ CallFails(c)
    <2>1. served' = served /\ proc' = proc /\ received' = received
      BY <1>2 DEF Start, WriteSize, WriteBody, ReadSize, ReadFails, CallFails, wires, hcVars
    <2>2. SessionAnswers' = SessionAnswers
      BY <2>1 DEF SessionAnswers
    <2>3. QED
      BY <2>1, <2>2, SessionSame, SessionStutters
  <1>3. CASE ReadBody(c)
    <2>1. served' = served /\ proc' = proc /\ pc[c] \in RecvSteps /\ Types
      BY <1>3 DEF ReadBody, Good
    <2>2. CASE \A d \in Clients : received'[d]["answer"] = received[d]["answer"]
      <3>1. SessionAnswers' = SessionAnswers
        BY <2>2 DEF SessionAnswers
      <3>2. QED
        BY <2>1, <3>1, SessionSame, SessionStutters
    <2>3. CASE ~ \A d \in Clients : received'[d]["answer"] = received[d]["answer"]
      <3>1. received' # received /\ pc[c] = "answer"
        <4>1. received' # received
          BY <2>3
        <4>2. received' = received \/ \E m : received' = [received EXCEPT ![c][pc[c]] = m]
          BY <1>3 DEF ReadBody
        <4>3. received \in [Clients -> [RecvSteps -> Msgs]]
          BY <2>1 DEF Types
        <4>4. ASSUME NEW m, received' = [received EXCEPT ![c][pc[c]] = m], pc[c] # "answer",
                     NEW d \in Clients
              PROVE  received'[d]["answer"] = received[d]["answer"]
          BY <2>1, <4>3, <4>4 DEF RecvSteps
        <4>5. QED
          BY <2>3, <4>1, <4>2, <4>4
      <3> PICK k : k = <<"hc", served>>
        OBVIOUS
      <3> DEFINE n == Line(k)'
                 u == got[c] \o Prefix(toGo[k], ToRead(c, toGo[k]))
                 a == Msg("answer", Hc.proc.hint, Hc.proc.keys, 0)
      <3>2. pc[c] \in Handler
        BY <3>1 DEF Handler
      <3>3. /\ served \in Clients /\ session = served /\ ~down
            /\ pc[c] = "params" => Hc.proc.hint = c /\ Hc.proc.keys = None
            /\ pc[c] = "answer" => Hc.proc.keys \in Clients
            /\ Fed(n) /\ n.toProc = <<>> /\ n.proc = Hc.proc /\ n.proc.at = "ready"
            /\ IF ~(Len(u) >= size[c])
               THEN /\ got'[c] = u /\ UNCHANGED <<pc, count, size, received, tokens>>
                    /\ Receiving(n, Question(c), Incoming(c), LastComing(c), u, size[c])
               ELSE /\ got'[c] = <<>> /\ size'[c] = None /\ pc'[c] = AfterRecv(c)
                    /\ received'[c] = [received[c] EXCEPT ![pc[c]] = Incoming(c)]
                    /\ tokens'[c] = tokens[c] /\ count'[c] = 0 /\ Quiet(n)
            /\ UNCHANGED <<hcVars, iter, wrote, toProc, proc, out>>
            /\ \A d \in Clients \ {c} : Same(d)
            /\ Types' /\ \A i \in Conns : i # k => Line(i)' = Line(i)
        BY <1>3, <3>2, HandlerReadsBody
      <3> HIDE DEF u
      <3>4. Hc.proc.hint \in Clients /\ Hc.proc.keys \in Clients /\ served # None
        <4>1. Hc' = n /\ Hc = Line(k) /\ Hc.side # "own"
          BY <2>1, HcIs
        <4>2. n.side = Hc.side
          BY <4>1, LineFields
        <4>3. QED
          BY <3>1, <3>3, <4>1, <4>2, SocketAssumption DEF Fed
      <3>5. received'[c] = [received[c] EXCEPT !["answer"] = a]
        BY <3>1, <3>3 DEF Incoming
      <3>6. a.hint = Hc.proc.hint /\ a.keys = Hc.proc.keys /\ a # NoMsg("answer")
        BY <3>4, SocketAssumption DEF NoMsg, Msg
      <3> HIDE DEF a
      <3>7. received'[c]["answer"] = a /\ \A d \in Clients \ {c} : received'[d] = received[d]
        BY <2>1, <3>3, <3>5 DEF Types, RecvSteps, Same
      <3>8. SessionHint = Hc.proc.hint /\ SessionQueries = Hc.proc.keys
        BY <3>4 DEF SessionHint, SessionQueries
      <3>9. SessionAnswers' = [SessionAnswers EXCEPT ![c] = [hint |-> SessionHint, keys |-> SessionQueries]]
        BY <3>6, <3>7, <3>8 DEF SessionAnswers
      <3>10. Atomic!Answer(c)
        BY <2>1, <3>4, <3>8, <3>9, SessionSame, SessionGivesAnswer, SocketAssumption
      <3>11. QED
        BY <3>10 DEF Atomic!Next
    <2>4. QED
      BY <2>2, <2>3
  <1>4. QED
    BY <1>1, <1>2, <1>3 DEF Client

\* What its process reads of a client's hint and queries is set.
LEMMA ProcessSession ==
    ASSUME Good, NEW k \in Conns, Process(k), driver' = driver
    PROVE  Atomic!Next \/ UNCHANGED Atomic!vars
  <1> DEFINE l == Line(k)
             n == Line(k)'
             m == l.toProc[1][1]
             p == l.proc
  <1>1. /\ UNCHANGED <<hcVars, client>>
        /\ \A j \in Conns : j # k => Line(j)' = Line(j)
        /\ Fed(l) => Reads(l, n) \/ \E j \in Nat : Writes(l, n, j)
    BY ProcessTo DEF Good
  <1>2. served' = served /\ SessionAnswers' = SessionAnswers
    BY <1>1 DEF hcVars, client, SessionAnswers
  <1>3. CASE \E c \in Clients : k = <<"own", c>>
    <2>1. k # <<"hc", served>>
      BY <1>3
    <2>2. served # None => Hc' = Hc
      <3>1. PICK h : h = <<"hc", served>>
        OBVIOUS
      <3>2. served \in Clients => h \in Conns
        BY <3>1 DEF Conns
      <3>3. served \in Clients \cup {None} /\ Hc = Line(h) /\ Hc' = Line(h)'
        BY <1>2, <3>1, HcIs DEF Good, Types, Names
      <3>4. QED
        BY <1>1, <2>1, <3>1, <3>2, <3>3
    <2>3. QED
      BY <1>2, <2>2, SessionStutters DEF SessionHint, SessionQueries
  <1>4. CASE \E c \in Clients : k = <<"hc", c>>
    <2>1. served # None /\ k = <<"hc", served>> /\ Fed(Hc)
      BY <1>4, HcServes
    <2>2. Hc = l /\ Hc' = n /\ l.side # "own"
      BY <1>2, <2>1, HcIs
    <2>3. /\ SessionHint = p.hint /\ SessionQueries = p.keys
          /\ SessionHint' = n.proc.hint /\ SessionQueries' = n.proc.keys
      BY <1>2, <2>1, <2>2 DEF SessionHint, SessionQueries
    <2> HIDE DEF l, n, p
    <2>4. CASE \E j \in Nat : Writes(l, n, j)
      <3>1. n.proc = l.proc
        BY <2>4 DEF Writes
      <3>2. QED
        BY <1>2, <2>3, <3>1, SessionStutters DEF p
    <2>5. CASE Reads(l, n)
      <3>1. m \in Msgs /\ Takes(l.side, m, Stage(p))
        BY <2>1, <2>2, <2>5, FedReads DEF p
      <3>2. l.side \in {"hc", "one"} /\ p \in Procs /\ (p.at = "ready" => p.hint \in Clients)
        BY <2>1, <2>2, LineType DEF Fed, p
      <3>3. n.proc = ServerReacts(p, m)[1]
        BY <2>2, <2>5 DEF Reads, Reaction, p
      <3> HIDE DEF m
      <3>4. /\ m.kind = "hint" => n.proc.hint = m.hint /\ n.proc.keys = None
            /\ m.kind # "hint" => n.proc.hint = p.hint
            /\ m.kind = "queries" => p.hint \in Clients /\ n.proc.keys = m.keys
            /\ m.kind \notin {"hint", "queries"} => n.proc.keys = p.keys
        BY <3>1, <3>2, <3>3, ServerReactsTo
      <3>5. /\ m.kind = "hint" => m.hint \in Clients
            /\ m.kind = "queries" => m.keys \in Clients
        BY <3>1, <3>2 DEF Takes
      <3>6. CASE m.kind = "hint"
        <4>1. Atomic!SetHint(m.hint)
          BY <1>2, <2>3, <3>4, <3>6, SessionSetsHint
        <4>2. QED
          BY <3>5, <3>6, <4>1 DEF Atomic!Next
      <3>7. CASE m.kind = "queries"
        <4>1. Atomic!SetQuery(m.keys)
          BY <1>2, <2>3, <3>4, <3>7, SessionSetsQuery, SocketAssumption
        <4>2. QED
          BY <3>5, <3>7, <4>1 DEF Atomic!Next
      <3>8. CASE m.kind \notin {"hint", "queries"}
        BY <1>2, <2>3, <3>4, <3>8, SessionStutters
      <3>9. QED
        BY <3>6, <3>7, <3>8
    <2>6. QED
      BY <1>1, <2>1, <2>2, <2>4, <2>5
  <1>5. QED
    BY <1>3, <1>4 DEF Conns

\* A step that does not overlap is one of HintSession, or none.
THEOREM SessionNext ==
    IInv /\ [Next]_vars => [Atomic!Next \/ overlapped']_Atomic!vars
  <1>1. ASSUME IInv, Next PROVE Atomic!Next \/ overlapped' \/ UNCHANGED Atomic!vars
    <2>1. Observed /\ overlapped \in BOOLEAN /\ overlapped' \in BOOLEAN /\ driver' = driver
      BY <1>1 DEF Next, Observed, IInv
    <2>2. overlapped => overlapped'
      BY <2>1 DEF Observed
    <2>3. overlapped \/ (Good /\ Kept)
      BY <1>1 DEF IInv
    <2>4. QED
      BY <1>1, <2>1, <2>2, <2>3, ClientSession, ProcessSession DEF Next
  <1>2. ASSUME UNCHANGED vars PROVE UNCHANGED Atomic!vars
    <2>1. served' = served /\ proc' = proc /\ received' = received
      BY <1>2 DEF vars, hcVars, client, wires
    <2>2. SessionAnswers' = SessionAnswers
      BY <2>1 DEF SessionAnswers
    <2>3. QED
      BY <2>1, <2>2, SessionSame, SessionStutters
  <1>3. QED
    BY <1>1, <1>2

\* The initial states are those of HintSession.
THEOREM SessionInit ==
    Init => Atomic!Init
  BY NothingAnswer DEF Init, Atomic!Init, NoMsg

-----------------------------------------------------------------------------
(* Theorems *)

\* HintSocket.ImplementsSession, for any number of clients and sizes of messages, and
\* wherever writes and reads are cut: handlers that do not overlap do what the RPCs
\* of the HC server promise, each in one step.
THEOREM SocketImplementsSession ==
    Spec => ImplementsSession
  <1>1. Spec => []IInv
    BY Invariance
  <1>2. QED
    BY <1>1, SessionInit, SessionNext, PTL DEF Spec, ImplementsSession

\* HintSocket.FatalHasCause: as long as handlers do not overlap, sizes come whole and
\* no ClientInitRPC comes between a QueryRPC and an AnswerRPC, no program calls log.Fatal.
THEOREM SocketFatalHasCause ==
    Spec => []FatalHasCause
  <1>1. IInv => FatalHasCause
    BY DEF IInv, Good, FatalHasCause
  <1>2. QED
    BY <1>1, Invariance, PTL

\* HintSocket.TokensInOrder: a client receives the tokens of the answer it has asked
\* for last, in the order of its keys; of clients one at a time, of its own answer.
THEOREM SocketTokensInOrder ==
    Spec => []TokensInOrder
  <1>1. ASSUME Good, NEW c \in Clients, pc[c] # "recover"
        PROVE  LET a == received[c]["answer"] IN
                 /\ \A i \in DOMAIN tokens[c] : tokens[c][i] = Msg("token", a.hint, a.keys, i)
                 /\ driver.limit = 1 /\ tokens[c] # <<>> => a.hint = c /\ a.keys = c
    <2>1. HasTokens(c)
      BY <1>1 DEF Good
    <2>2. ASSUME driver.limit = 1, tokens[c] # <<>> PROVE received[c]["answer"] = Msg("answer", c, c, 0)
      BY <1>1, <2>1, <2>2 DEF Good, OneAtATime, HasTokens
    <2>3. QED
      BY <1>1, <2>1, <2>2 DEF HasTokens, Token, Msg
  <1>2. IInv => TokensInOrder
    BY <1>1 DEF IInv, TokensInOrder
  <1>3. QED
    BY <1>2, Invariance, PTL
=============================================================================
