\* The healthy transport: the peer holds a connection to this node while
\* this node holds one to the peer, and either may close.
CONSTANTS
    Dev = {d1}
    MaxConnects = 5
    MaxFaults = 3
    MaxRestarts = 1
    MaxAccepts = 3
    DialRace = FALSE
    DiscoveryOnly = TRUE
    StopWhenSettled = TRUE
SPECIFICATION Spec
INVARIANT LiveConnectionIndexed
CHECK_DEADLOCK FALSE
