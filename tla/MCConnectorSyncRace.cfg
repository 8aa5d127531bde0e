SPECIFICATION Spec
CONSTANTS
    d1 = d1
    d2 = d2
    Datasets = {d1}
    Mappings = {m1}
    Apps = {a1}
    Entities = {CUSTOMER, ORDER}
    Customer = CUSTOMER
    GenericEntities = FALSE
    Keys = {k1}
    Requests = {}
    Callers = {c1, c2}
    Occurrences = {}
    DatasetOf <- OneSchedule
    Handlers = {}
    NULL = NULL
INVARIANTS ActiveMappingFits
CHECK_DEADLOCK FALSE
