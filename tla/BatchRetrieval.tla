---------------------------- MODULE BatchRetrieval ----------------------------
(***************************************************************************)
(* What batch PIR promises its caller: some of the entries asked for, each *)
(* with its own value, and nothing else, delivered at once.  An entry's    *)
(* value is named by the entry.                                            *)
(***************************************************************************)
CONSTANT Wanted   \* the sets of entries a caller may ask for

VARIABLES wanted, results, done

vars == <<wanted, results, done>>

NoResults == [e \in {} |-> e]

Init ==
    /\ wanted \in Wanted
    /\ results = NoResults
    /\ done = FALSE

Deliver ==
    /\ ~done
    /\ \E found \in SUBSET wanted : results' = [e \in found |-> e]
    /\ done' = TRUE
    /\ UNCHANGED wanted

Safety == Init /\ [][Deliver]_vars

Spec == Safety /\ WF_vars(Deliver)
===============================================================================
