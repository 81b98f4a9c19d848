CONSTANTS
    c1 = c1  c2 = c2
    Clients <- TwoClients
    NumWorkers = 2
    NumRecords = 2
    TotalRounds = 1
    Failing = {}
SPECIFICATION Spec
INVARIANT RoundUpdatesEveryRecord
