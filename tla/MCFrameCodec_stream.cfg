\* A WAN codec (compression above one byte) with a limit of two payload
\* bytes; two frames written, each consumer receiving any chunking.
CONSTANTS
    Msg = {1, 2}
    SerialLen <- MCSerialLen
    MAX_MESSAGE_SIZE = 2
    Compressing = TRUE
    CompressionThreshold = 1
    MaxSent = 2
SPECIFICATION Spec
INVARIANTS DecodedInOrder ClosedOnlyByRefusedFrame
PROPERTY Refinement
CHECK_DEADLOCK FALSE
