\* One peer device, which may also dial this node; discovery connects to it
\* only when nothing is pending for it, every dial ends within the 10 s
\* connect timeout, and the node is stopped (once) only while nothing is
\* pending.  The run stops when the bounds on connect() calls, accepted
\* connections, faults and restarts are used up.
CONSTANTS
    Dev = {d1}
    MaxConnects = 5
    MaxFaults = 3
    MaxRestarts = 1
    MaxAccepts = 3
    DialRace = FALSE
    DiscoveryOnly = TRUE
    StopWhenSettled = TRUE
SPECIFICATION Spec
INVARIANTS TypeOK ViewsAgree ConnectedDeviceOnline
PROPERTY ReconnectsEventually
CHECK_DEADLOCK FALSE
