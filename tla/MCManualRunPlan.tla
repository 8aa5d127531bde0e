--------------------------- MODULE MCManualRunPlan ---------------------------
EXTENDS ManualRunPlan, TLC

CONSTANTS p1, p2

\* p1 is a baseline of two documents, p2 a stream of one version.
MCSource == [p \in {p1, p2} |-> IF p = p1 THEN {1, 2} ELSE {1}]

Symmetry == Permutations(Workspaces) \cup Permutations(Callers) \cup Permutations(Runs)
=============================================================================
