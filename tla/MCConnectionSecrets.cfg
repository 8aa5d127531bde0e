SPECIFICATION Spec
CONSTANTS
    Connections = {c1, c2}
    Names = {n1}
    Sources = {s1}
    Credentials = {x1, x2}
    Callers = {u1, u2}
    NULL = NULL
SYMMETRY Symmetry
INVARIANTS TypeOK StoredSecretHasOwner DatabaseHasSecret ReadyIsTested
CHECK_DEADLOCK FALSE
