\* The healthy mesh with no link failures, where a device may be started a
\* second time after stop().
CONSTANTS
    N = 3
    Designated = {3}
    MaxStarts = 2
    Timely = TRUE
    AccuratePeerView = TRUE
    QuietFaults = TRUE
    FullMeshFirst = TRUE
    SettledJoins = TRUE
    MaxLinkFailures = 0
SPECIFICATION Spec
CONSTRAINT ChanConstraint
INVARIANT DeviceTableAgrees
CHECK_DEADLOCK FALSE
