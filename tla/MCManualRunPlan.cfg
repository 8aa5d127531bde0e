SPECIFICATION Spec
CONSTANTS
    p1 = p1
    p2 = p2
    Workspaces = {w1, w2}
    Keys = {k1}
    Callers = {a1, a2}
    Parts = {p1, p2}
    Runs = {r1, r2}
    MaxDocument = 2
    Source <- MCSource
    Textual = {p1}
    NULL = NULL
SYMMETRY Symmetry
INVARIANTS TypeOK InsertIsNeverRefused OneRunPerKey AnswerIsOwn WatermarkIsEarned
CHECK_DEADLOCK FALSE
