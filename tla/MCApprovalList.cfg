CONSTANTS
    InfoHashV1Len = 1
    InfoHashV2Len = 3
    NLists = 2
    Configs <- MCConfigs
    DefaultCtx = "default"
    RequestHashes <- MCRequestHashes
    MaxReloads = 1
SPECIFICATION Spec
INVARIANT OwnEntriesHonoured HexRoundTrip
