CONSTANTS
    e1 = e1  e2 = e2  h1 = h1  h2 = h2  w1 = w1  w2 = w2
    id = id  ID = ID  addr = addr  ADDR = ADDR  port = port  PORT = PORT
    seed = seed  SEED = SEED  leech = leech  LEECH = LEECH
    Endpoints = {e1, e2}
    Hashes = {h1, h2}
    Workers = {w1}
    Names <- MCNames
    Upper <- MCUpper
    RawConfigs <- MCLowerOnly
    MaxNumWant = 1
    PeerLifetime = 0
    MaxTime = 1
    MaxRequests = 3
SPECIFICATION Spec
INVARIANT ScrapeCountsMatch
