CONSTANTS
    InfoHashV1Len = 1
    InfoHashV2Len = 3
    NLists = 1
    Configs <- MCConfigs
    DefaultCtx = "default"
    RequestHashes <- MCRequestHashes
    MaxReloads = 1
SPECIFICATION Spec
INVARIANT ApprovedMatchesConfig
