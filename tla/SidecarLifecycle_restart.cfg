CONSTANTS
    MaxGen = 2
    MaxCrashes = 0
SPECIFICATION Spec
INVARIANT OneSidecarProcess
CHECK_DEADLOCK FALSE
