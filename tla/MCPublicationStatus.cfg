SPECIFICATION Spec
CONSTANTS
    Runs = {r1}
    MaxAttempts = 3
    NULL = NULL
INVARIANTS TypeOK CompletedIsPublished FailureIsShown ListAgrees
CHECK_DEADLOCK FALSE
