CONSTANTS
    t1 = t1  t2 = t2  r1 = r1  k1 = k1  k2 = k2  g1 = g1  g2 = g2  m1 = m1
    Threads <- MCThreads
    Records <- MCRecords
    Roots <- MCRoots
    Gens <- MCGens
    Messages <- MCMessages
    Garbage = garbage
    Requests <- MCRequests
    NoRequest = NoRequest
    NoThread = NoThread
    NoRoot = NoRoot
    MaxClients = 3
    MaxVersion = 2
SPECIFICATION FairSpec
INVARIANTS
    TypeOK Inv
    UpdateReplacesWhatItRead
    SameVersionSameCiphertext
    DownloadIsOneState
PROPERTIES
    VersionNeverGoesBack
    ImplementsRecordStore
    LockIsReleased
\* The process may exit.
CHECK_DEADLOCK FALSE
