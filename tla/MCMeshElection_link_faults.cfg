\* Three devices, device 3 configured with preferPrimary, each started at
\* most once, on a timely network where every dial completes before a round
\* begins, devices join and leave only while the mesh is quiet, and one
\* connection may fail while both ends keep running.
CONSTANTS
    N = 3
    Designated = {3}
    MaxStarts = 1
    Timely = TRUE
    AccuratePeerView = TRUE
    QuietFaults = TRUE
    FullMeshFirst = TRUE
    SettledJoins = TRUE
    MaxLinkFailures = 1
SPECIFICATION Spec
CONSTRAINT ChanConstraint
INVARIANTS TypeOK Agreement DeviceTableAgrees SelectWinnerMatchesRanking
PROPERTIES EventuallyAgreed EventuallyRolesKnown
CHECK_DEADLOCK FALSE
