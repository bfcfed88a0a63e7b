\* One worker, one pre-hook peer (e1) already in every response, NumWant up
\* to 1: the deduplication loop of appendPeers against its cap.
CONSTANTS
    e1 = e1
    e2 = e2
    e3 = e3
    h1 = h1
    h2 = h2
    w1 = w1
    w2 = w2
    V1Hashes = {h1}
    V2Hashes = {h2}
    Trunc <- MCTrunc
    MaxNumWant = 1
    PeerLifetime = 0
    Endpoints = {e1, e2, e3}
    AnnouncedHashes = {h1}
    Workers = {w1}
    MiddlewarePeers = {e1}
    SkipFlags = {FALSE}
    MaxTime = 0
    MaxRequests = 2
SPECIFICATION Spec
INVARIANT ResponseWithinNumWant
