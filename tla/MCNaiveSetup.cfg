\* The smallest naive program: one session, two records.
CONSTANTS
    MaxSessions = 1
    NumKeys = 2
SPECIFICATION Spec
INVARIANT SetupStoresMessages
CHECK_DEADLOCK FALSE
