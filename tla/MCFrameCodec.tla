---------------------------- MODULE MCFrameCodec ----------------------------
EXTENDS FrameCodec

\* Two envelopes; JSON is a byte longer than msgpack, so envelope 2 in JSON
\* (3 bytes) is over the limit, envelope 1 in JSON is exactly at it, and
\* encodeAsync compresses every payload longer than one byte.
MCSerialLen == [f \in Formats |-> IF f = "msgpack" THEN (1 :> 1 @@ 2 :> 2)
                                                    ELSE (1 :> 2 @@ 2 :> 3)]
=============================================================================
