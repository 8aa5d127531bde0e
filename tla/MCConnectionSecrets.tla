------------------------- MODULE MCConnectionSecrets -------------------------
EXTENDS ConnectionSecrets, TLC

Symmetry ==
    Permutations(Connections) \cup Permutations(Names) \cup Permutations(Sources)
      \cup Permutations(Credentials) \cup Permutations(Callers)
=============================================================================
