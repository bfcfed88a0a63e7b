CONSTANTS
    StoreKind = "memory"
    MaxSignals = 3
SPECIFICATION Spec
PROPERTY QuitHonoured
