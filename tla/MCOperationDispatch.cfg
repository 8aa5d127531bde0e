SPECIFICATION LiveSpec
CONSTANTS
    FastOps = {f1}
    SyncOps = {s1}
    OutboxWorkers = {w1}
    ResultWorkers = {h1, h2}
INVARIANTS NoLostDispatch LeaseIsRespected
PROPERTIES ImplementsLife EveryOperationEnds
CHECK_DEADLOCK FALSE
