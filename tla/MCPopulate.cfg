\* Two runs of populate, one client, one start of the server more.
CONSTANTS
    u = u
    k = k
    MaxPopulates = 2
    Routines = {u}
    Coordinator = k
    Clients = {1, 2, u, k}
    Records <- MCRecords
    Retries = 1
    Backlog = 2
    MaxRestarts = 1
SPECIFICATION Spec
INVARIANTS
    TypeOK
    KeysHoldTheirOwnType
    RecordsAreWhole
    OnlySilentConnectionsLeak
PROPERTIES
    UploadsAreWhole
    RequestsAreAnswered
CHECK_DEADLOCK FALSE
