SPECIFICATION LiveSpec
CONSTANTS
    d1 = d1
    d2 = d2
    Datasets = {d1}
    Mappings = {m1, m2}
    Apps = {a1, a2}
    Entities = {CUSTOMER, ORDER}
    Customer = CUSTOMER
    GenericEntities = FALSE
    Keys = {k1}
    Requests = {r1, r2}
    Callers = {c1}
    Occurrences = {o1}
    DatasetOf <- OneSchedule
    Handlers = {h1}
    NULL = NULL
INVARIANTS ActiveMappingFits RunMappingIsSupported RunsShareTheApp
PROPERTIES OccurrenceDecisionIsFinal OccurrenceIsDecided
CHECK_DEADLOCK FALSE
