\* A single peer announcing on the V2 hash and on its truncation.
CONSTANTS
    e1 = e1
    e2 = e2
    e3 = e3
    h1 = h1
    h2 = h2
    w1 = w1
    w2 = w2
    V1Hashes = {h1}
    V2Hashes = {h2}
    Trunc <- MCTrunc
    MaxNumWant = 1
    PeerLifetime = 0
    Endpoints = {e1}
    AnnouncedHashes = {h1, h2}
    Workers = {w1}
    MiddlewarePeers = {}
    SkipFlags = {FALSE}
    MaxTime = 0
    MaxRequests = 1
SPECIFICATION Spec
INVARIANT CountsWithinPeers
