SPECIFICATION Spec
CONSTANTS
    LastDay = 3
    MaxRows = 1
    MaxGeneration = 3
INVARIANTS
    ProvenRowsExact
    StateIsWhole
    MissingIsAskedFor
PROPERTIES
    ImplementsProvenDays
CHECK_DEADLOCK FALSE
