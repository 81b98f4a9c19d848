\* Three sessions: start-up can leave two behind and meet the limit at the
\* third attempt.  A process stops when it has ended.
CONSTANTS
    MaxSessions = 3
    NumKeys = 2
SPECIFICATION Spec
INVARIANTS
    TypeOK
    SessionsAccountedFor
    UnwrapIsRepairable
PROPERTIES
    ExitsOnlyAfterFailedReset
    LostSessionIsReopened
CHECK_DEADLOCK FALSE
