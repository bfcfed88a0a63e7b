CONSTANTS
    StoreKind = "pg"
    MaxSignals = 3
SPECIFICATION Spec
PROPERTY ShutdownCompletes
CHECK_DEADLOCK FALSE
