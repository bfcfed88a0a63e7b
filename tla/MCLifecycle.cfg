CONSTANTS
    StoreKind = "memory"
    MaxSignals = 5
SPECIFICATION Spec
INVARIANT StopsTopDown
PROPERTY StoreKeptAcrossReload ShutdownCompletes
