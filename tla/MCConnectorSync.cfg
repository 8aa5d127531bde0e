SPECIFICATION Spec
CONSTANTS
    d1 = d1
    d2 = d2
    Datasets = {d1}
    Mappings = {m1}
    Apps = {a1}
    Entities = {CUSTOMER}
    Customer = CUSTOMER
    GenericEntities = FALSE
    Keys = {k1}
    Requests = {r1, r2}
    Callers = {c1, c2}
    Occurrences = {o1, o2}
    DatasetOf <- OneSchedule
    Handlers = {h1, h2}
    NULL = NULL
SYMMETRY Symmetry
INVARIANTS TypeOK OverlapIsFoundEarly OccurrenceMatchesRun AnswerIsWhatWasAsked
CHECK_DEADLOCK FALSE
