------------------------------ MODULE LheScheme ------------------------------
(***************************************************************************)
(* What callers of lhe/simple_client.go and simple_server.go, and of the   *)
(* insecure stand-in lhe/local.go, rely on: which query an answer belongs  *)
(* to, with dummies behind the real queries.                               *)
(* Encryption is exact (LheAnswer): a query selects a column, a dummy's    *)
(* answer is noise, and a secret is whether it has a key.                  *)
(***************************************************************************)
EXTENDS Integers, Sequences

Dummy == -1
Noise == <<>>

\* A loop over s that appends what it keeps.
Filtered(s, keep) ==
    LET upTo[i \in 0..Len(s)] ==
            IF i = 0 THEN <<>>
            ELSE IF keep[i] THEN Append(upTo[i - 1], s[i]) ELSE upTo[i - 1]
    IN upTo[Len(s)]

\* Query for some columns, with DummyQuery's appended by the caller.
QueriesFor(columns, dummies) == columns \o [j \in 1..dummies |-> Dummy]
SecretsFor(columns, dummies) ==
    [j \in DOMAIN columns |-> TRUE] \o [j \in 1..dummies |-> FALSE]

\* Server.Answer: a column for each query, or on a GPU one matrix of them all.
AnswersTo(queries, gpu, columns) ==
    LET products == [j \in DOMAIN queries |->
                       IF queries[j] = Dummy THEN Noise ELSE columns[queries[j]]]
    IN IF gpu THEN <<products>> ELSE products

\* Mutant: only the first answer is recovered.
RecoveredFirst(secrets, answers, gpu) ==
    IF secrets # <<>> /\ secrets[1] THEN <<answers[1]>> ELSE <<>>

\* SimpleClient.Recover: goes through the answers, of which a GPU gives one,
\* and skips those whose secret has no key.
Recovered(secrets, answers, gpu) ==
    Filtered(IF gpu THEN [i \in 1..1 |-> answers[1][i]] ELSE answers, secrets)

-----------------------------------------------------------------------------
(* local.go: the client has the database itself, its secrets are the inputs, *)
(* nil for a dummy, and the server sees and answers nothing.                 *)

Empty == -2

LocalSecretsFor(columns, dummies) == columns \o [j \in 1..dummies |-> Dummy]
LocalQueriesFor(columns, dummies) ==
    [j \in DOMAIN columns |-> Empty] \o [j \in 1..dummies |-> Dummy]
LocalAnswersTo(queries) == [j \in DOMAIN queries |-> Empty]

\* LocalClient.Recover: goes through the secrets, whatever was answered.
LocalRecovered(secrets, columns) ==
    LET real == Filtered(secrets, [j \in DOMAIN secrets |-> secrets[j] # Dummy])
    IN [j \in DOMAIN real |-> columns[real[j]]]
==============================================================================
