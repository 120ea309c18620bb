\* A device may be stopped in the middle of an election round (after its
\* candidate went out); otherwise the healthy mesh, with no designated device.
CONSTANTS
    N = 3
    Designated = {}
    MaxStarts = 1
    Timely = TRUE
    AccuratePeerView = TRUE
    QuietFaults = FALSE
    FullMeshFirst = TRUE
    SettledJoins = TRUE
    MaxLinkFailures = 0
SPECIFICATION Spec
CONSTRAINT ChanConstraint
INVARIANT Agreement
CHECK_DEADLOCK FALSE
