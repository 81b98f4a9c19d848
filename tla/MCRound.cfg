\* Two workers that race for the parameters, one of which may fail, two rounds,
\* and a client that may be told the root key before its main sets its own.
CONSTANTS
    c1 = c1  c2 = c2
    Clients <- OneClient
    NumWorkers = 2
    NumRecords = 3
    TotalRounds = 2
    Failing = {0}
SPECIFICATION FairSpec
INVARIANTS
    TypeOK
    UpdatesStayInTheirRound
PROPERTIES
    ListsCoverEveryRecord
    RoundsEnd
    
