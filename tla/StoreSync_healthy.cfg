\* Three devices, device 1 elected and running throughout; every adapter
\* starts once its node names the primary, and a device comes back only
\* after the clears about it are delivered.
CONSTANTS
    N = 3
    Primary = 1
    MaxVersion = 1
    MaxOps = 2
    MaxInFlight = 3
    PrimaryStays = TRUE
    StartAfterPrimary = TRUE
    RejoinAfterClear = TRUE
SPECIFICATION Spec
CONSTRAINT FlightBound
INVARIANTS TypeOK SlicesConverge
CHECK_DEADLOCK FALSE
