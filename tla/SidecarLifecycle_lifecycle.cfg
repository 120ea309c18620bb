CONSTANTS
    MaxGen = 2
    MaxCrashes = 1
SPECIFICATION Spec
INVARIANT TypeOK
PROPERTIES StartSettles StopSettles
CHECK_DEADLOCK FALSE
