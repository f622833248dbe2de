----------------------------- MODULE HintSession -----------------------------
(***************************************************************************)
(* What the RPCs of the HC server promise (service/hc_server.go): it keeps *)
(* one hint and one batch of queries, those set last, and an answer is the *)
(* product of the two.  Each call is a single step, as in PirService.      *)
(***************************************************************************)
CONSTANTS Clients, None

VARIABLES
    hint,        \* whose hint is set
    queries,     \* whose queries are set
    answers      \* the last answer of each client

vars == <<hint, queries, answers>>

Init ==
    /\ hint = None /\ queries = None
    /\ answers = [c \in Clients |-> None]

\* ClientInitRPC: the queries of the client before are gone.
SetHint(c) ==
    /\ hint' = c /\ queries' = None
    /\ UNCHANGED answers

\* QueryRPC
SetQuery(c) ==
    /\ hint # None
    /\ queries' = c
    /\ UNCHANGED <<hint, answers>>

\* AnswerRPC
Answer(c) ==
    /\ hint # None /\ queries # None
    /\ answers' = [answers EXCEPT ![c] = [hint |-> hint, keys |-> queries]]
    /\ UNCHANGED <<hint, queries>>

Next == \E c \in Clients : SetHint(c) \/ SetQuery(c) \/ Answer(c)

Spec == Init /\ [][Next]_vars

==============================================================================
