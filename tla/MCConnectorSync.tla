--------------------------- MODULE MCConnectorSync --------------------------
(* Instances of ConnectorSync for TLC. *)
EXTENDS ConnectorSync, TLC

CONSTANTS d1, d2

\* The occurrences of one schedule.
OneSchedule == [o \in Occurrences |-> d1]

Symmetry == Permutations(Mappings) \cup Permutations(Callers) \cup Permutations(Handlers)
              \cup Permutations(Apps) \cup Permutations(Requests)
=============================================================================
