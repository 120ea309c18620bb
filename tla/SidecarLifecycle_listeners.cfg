\* MeshNode.stop() while a MeshNode.start() still awaits sidecar.start().
CONSTANTS
    MaxGen = 2
    MaxCrashes = 0
SPECIFICATION Spec
INVARIANT TransportListenersOnce
CHECK_DEADLOCK FALSE
