\* The node may be stopped and started again while a connect() is pending;
\* otherwise the healthy transport.
CONSTANTS
    Dev = {d1, d2}
    MaxConnects = 5
    MaxFaults = 3
    MaxRestarts = 1
    MaxAccepts = 2
    DialRace = FALSE
    DiscoveryOnly = TRUE
    StopWhenSettled = FALSE
SPECIFICATION Spec
INVARIANT ViewsAgree
CHECK_DEADLOCK FALSE
