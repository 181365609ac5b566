CONSTANTS
    NumWorkers = 2
    Users <- TheUsers
    MaxRequests = 2
    MaxDay = 1
    LogSharesDirs = TRUE
SPECIFICATION Spec
CONSTRAINT OneThreadAtATime
CHECK_DEADLOCK FALSE
INVARIANTS TypeOK NeverOvercounted LossNeedsOverlap CrashExplained EveryFetchLoggedOnce
