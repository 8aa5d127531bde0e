------------------------ MODULE MCStandardizationRun ------------------------
(* Instances of StandardizationRun for TLC. *)
EXTENDS StandardizationRun, FiniteSets, TLC

CONSTANT MaxInFlight    \* bound on messages and unfinished attempts

Symmetry == Permutations(Parts)

Bounded ==
    Cardinality(dispatchQ) + Cardinality(resultQ) + Cardinality(tasks) <= MaxInFlight

\* The behaviours in which no retry has been issued: enough to look for a
\* failed attempt that never gets one.
BeforeAnyRetry ==
    /\ Bounded
    /\ \A r \in Runs, p \in Parts :
         ckpt[r][p].status = "PENDING" => ckpt[r][p].attempt = 0
=============================================================================
