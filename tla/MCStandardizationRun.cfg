SPECIFICATION Spec
CONSTANTS
    Runs = {r1}
    Parts = {p1, p2}
    Controllers = {c1}
    Handlers = {h1}
    MaxAttempts = 2
    MaxInFlight = 2
SYMMETRY Symmetry
CONSTRAINT Bounded
INVARIANTS SuccessIsComplete WarningsAreBacked NoLostDispatch AttemptBudget
PROPERTIES RunOutcomeIsFinal CompleteIsFinal
