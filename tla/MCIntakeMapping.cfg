SPECIFICATION Spec
CONSTANTS
    Headers <- MCHeaders
    Mappings <- MCMappings
    NULL = NULL
INVARIANTS TypeOK VerdictIsOfRow OptionalNeverLosesRow
