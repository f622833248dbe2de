---------------------------- MODULE MCLheCallers ----------------------------
(***************************************************************************)
(* Callers of the LHE scheme on small instances.                           *)
(***************************************************************************)
EXTENDS LheCallers

\* Timing is noisy in the first session of a CPU whose hints are compressed; the
\* other plans of the service are checked with servers that are as fast every time.
MCInit ==
    /\ CallersInit
    /\ caller = "service" /\ (hasGpu \/ plan # Searched(TRUE)) => low = high

MCSpec == MCInit /\ [][CallersNext]_allVars /\ WF_allVars(CallersNext)

=============================================================================
