\* One worker announcing on the V2 hash only: the mirrored write under the
\* V1 truncation, with the GC evicting peers in between, contexts with and
\* without the skip keys, and answers of up to two peers.
CONSTANTS
    e1 = e1
    e2 = e2
    e3 = e3
    h1 = h1
    h2 = h2
    w1 = w1
    w2 = w2
    V1Hashes = {h1}
    V2Hashes = {h2}
    Trunc <- MCTrunc
    MaxNumWant = 2
    PeerLifetime = 0
    Endpoints = {e1, e2}
    AnnouncedHashes = {h2}
    Workers = {w1}
    MiddlewarePeers = {}
    SkipFlags = {FALSE, TRUE}
    MaxTime = 2
    MaxRequests = 4
SYMMETRY MCSymmetry
SPECIFICATION Spec
INVARIANT MirrorConsistent NoSelfInResponse
