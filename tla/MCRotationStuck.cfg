CONSTANTS
    c1 = c1  w1 = w1  w2 = w2  coord = coord  r1 = r1  r2 = r2
    k1 = k1  k2 = k2  k3 = k3  k4 = k4  m1 = m1
    Coordinator = coord
    Clients <- OneClient
    Roots <- MCRoots
    Garbage = garbage
    Requests = {}
    NoRequest = NoRequest
    NoRoot = NoRoot
    Uses <- UseFirst
    PopulatedRoot = k1
    FirstHandle = k3
    StrayRoot = k4
    Workers <- OneWorker
    Threads <- OneMachineEach
    Records <- OneRecord
    Messages <- MCMessages
    Gens = {1, 2, 3, 4}
    Assigned <- Shared
    RootOf <- TwoRounds
    MaxUploads = 1
SPECIFICATION FairKRSpec
PROPERTY RoundsEnd
CHECK_DEADLOCK FALSE
