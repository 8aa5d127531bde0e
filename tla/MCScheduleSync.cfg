SPECIFICATION LiveSpec
CONSTANTS
    Timings = {t1, t2}
    Callers = {c1, c2}
    Workers = {w1}
    MaxRevision = 2
    NULL = NULL
INVARIANTS PendingIsBacked SettledRowIsTrue LastRequestWins
PROPERTIES EveryRequestIsApplied
CHECK_DEADLOCK FALSE
