\* The healthy replication, except that the application may call
\* sync.start() before its node has learned who the primary is, as the
\* documented usage (start() right after the node is created) allows.
CONSTANTS
    N = 3
    Primary = 1
    MaxVersion = 1
    MaxOps = 2
    MaxInFlight = 3
    PrimaryStays = TRUE
    StartAfterPrimary = FALSE
    RejoinAfterClear = TRUE
SPECIFICATION Spec
CONSTRAINT FlightBound
INVARIANT SlicesConverge
CHECK_DEADLOCK FALSE
