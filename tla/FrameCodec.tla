----------------------------- MODULE FrameCodec -----------------------------
(***************************************************************************)
(* FrameCodec (src/unnamed/part_004): length-prefixed frames, a 4-byte    *)
(* big-endian payload length and a flags byte (bit 0 compressed, bits 1-2 *)
(* format), then the serialized envelope.                                 *)
(*                                                                         *)
(* The encoder and decoder are operators translated from the class, with  *)
(* decodeAll as a RECURSIVE operator.  A sender writes frames made by     *)
(* encode() or encodeAsync() to a byte stream; the stream reaches two     *)
(* consumers in chunks of any size.  One decodes each chunk's buffer with *)
(* decodeAll() (the synchronous path), the other frame by frame with      *)
(* decodeOneAsync(), awaiting the decompressor.  Nothing in the repository *)
(* consumes frames yet, so the consumers follow spec 4.1 (the caller keeps *)
(* a growing buffer and advances it by bytesConsumed; a codec error closes *)
(* the stream, spec 7) and are marked spec-modelled.                       *)
(*                                                                         *)
(* Data is abstracted: an envelope is a number, its msgpack or JSON        *)
(* serialization is SerialLen[fmt][m] copies of a byte naming the format  *)
(* and the envelope (injective, and the formats never share a byte), and   *)
(* compression is an invertible byte map.  MAX_MESSAGE_SIZE is scaled down *)
(* with the lengths: the code only compares against it.                   *)
(***************************************************************************)
EXTENDS Integers, Sequences, SequencesExt, Bitwise

CONSTANTS
    Msg,                  \* envelopes
    SerialLen,            \* SerialLen[fmt][m]: bytes the serializer produces
    MAX_MESSAGE_SIZE,     \* the payload limit decodeOne enforces
    Compressing,          \* built by createWANCodec (compress, decompress set)
    CompressionThreshold, \* its threshold; a LAN codec never compresses
    MaxSent               \* frames the sender writes

Formats == {"msgpack", "json"}
Consumers == {"sync", "async"}

HEADER_SIZE == 5
FLAG_COMPRESSED == 1
FLAG_FORMAT_MASK == 6
FLAG_FORMAT_MSGPACK == 0
FLAG_FORMAT_JSON == 2

FormatFlag(fmt) == IF fmt = "msgpack" THEN FLAG_FORMAT_MSGPACK ELSE FLAG_FORMAT_JSON

\* msgpack encode(message) and JSON.stringify(message): injective per format.
Serialize(m, fmt) ==
    [i \in 1..SerialLen[fmt][m] |-> IF fmt = "msgpack" THEN 32 + m ELSE 48 + m]

\* The WAN codec's compress and decompress functions.
Compress(p) == [i \in DOMAIN p |-> p[i] + 64]
Decompress(p) == [i \in DOMAIN p |-> p[i] - 64]

\* Buffer.writeUInt32BE / readUInt32BE.
WriteUInt32BE(n) ==
    <<(n \div 16777216) % 256, (n \div 65536) % 256, (n \div 256) % 256, n % 256>>
ReadUInt32BE(b) == ((b[1] * 256 + b[2]) * 256 + b[3]) * 256 + b[4]

\* createFrame: header, then the payload copied after it.
CreateFrame(payload, flags) == WriteUInt32BE(Len(payload)) \o <<flags>> \o payload

\* encode(message, format): never compresses.
Encode(m, fmt) == CreateFrame(Serialize(m, fmt), FormatFlag(fmt))

\* encodeAsync(message, format): compresses a payload longer than the
\* threshold when a compress function is configured.
EncodeAsync(m, fmt) ==
    LET p == Serialize(m, fmt) IN
    IF Compressing /\ Len(p) > CompressionThreshold
    THEN CreateFrame(Compress(p), FormatFlag(fmt) | FLAG_COMPRESSED)
    ELSE CreateFrame(p, FormatFlag(fmt))

\* Outcomes of a decode step: too few bytes (null), a thrown error, a frame.
Incomplete == [kind |-> "incomplete"]
Thrown(err) == [kind |-> "error", error |-> err]

\* deserialize(payload, format): msgpack or JSON decode, then the namespace
\* and type check; any other format flag throws.
Deserialize(p, format) ==
    IF format \notin {FLAG_FORMAT_MSGPACK, FLAG_FORMAT_JSON}
    THEN Thrown("UnknownFormat")
    ELSE LET fmt == IF format = FLAG_FORMAT_MSGPACK THEN "msgpack" ELSE "json"
             ms == {m \in Msg : Serialize(m, fmt) = p}
         IN IF ms = {} THEN Thrown("InvalidEnvelope")
            ELSE [kind |-> "ok", message |-> CHOOSE m \in ms : TRUE]

\* The flag bits decodeOne reads, for every value of the flags byte.
IsCompressed == [f \in 0..255 |-> (f & FLAG_COMPRESSED) = FLAG_COMPRESSED]
FormatBits == [f \in 0..255 |-> f & FLAG_FORMAT_MASK]

\* Mutants of FrameHead: bytesConsumed without the header; the size limit
\* off by one; a whole frame at the end of the buffer taken as partial.
FrameHeadPayloadOnly(b) ==
    IF Len(b) < HEADER_SIZE THEN Incomplete
    ELSE LET len == ReadUInt32BE(SubSeq(b, 1, 4))
             total == HEADER_SIZE + len
         IN IF len > MAX_MESSAGE_SIZE THEN Thrown("MessageTooLarge")
            ELSE IF Len(b) < total THEN Incomplete
            ELSE [kind |-> "frame", payload |-> SubSeq(b, HEADER_SIZE + 1, total),
                  compressed |-> IsCompressed[b[5]], format |-> FormatBits[b[5]],
                  bytesConsumed |-> len]
FrameHeadLimitInclusive(b) ==
    IF Len(b) < HEADER_SIZE THEN Incomplete
    ELSE LET len == ReadUInt32BE(SubSeq(b, 1, 4))
             total == HEADER_SIZE + len
         IN IF len >= MAX_MESSAGE_SIZE THEN Thrown("MessageTooLarge")
            ELSE IF Len(b) < total THEN Incomplete
            ELSE [kind |-> "frame", payload |-> SubSeq(b, HEADER_SIZE + 1, total),
                  compressed |-> IsCompressed[b[5]], format |-> FormatBits[b[5]],
                  bytesConsumed |-> total]
FrameHeadNeedsExtraByte(b) ==
    IF Len(b) < HEADER_SIZE THEN Incomplete
    ELSE LET len == ReadUInt32BE(SubSeq(b, 1, 4))
             total == HEADER_SIZE + len
         IN IF len > MAX_MESSAGE_SIZE THEN Thrown("MessageTooLarge")
            ELSE IF Len(b) <= total THEN Incomplete
            ELSE [kind |-> "frame", payload |-> SubSeq(b, HEADER_SIZE + 1, total),
                  compressed |-> IsCompressed[b[5]], format |-> FormatBits[b[5]],
                  bytesConsumed |-> total]

\* The part decodeOne and decodeOneAsync share: the header checks, in the
\* code's order, and the payload slice.
FrameHead(b) ==
    IF Len(b) < HEADER_SIZE THEN Incomplete
    ELSE LET len == ReadUInt32BE(SubSeq(b, 1, 4))
             flags == b[5]
             total == HEADER_SIZE + len
         IN IF len > MAX_MESSAGE_SIZE THEN Thrown("MessageTooLarge")
            ELSE IF Len(b) < total THEN Incomplete
            ELSE [kind |-> "frame", payload |-> SubSeq(b, HEADER_SIZE + 1, total),
                  compressed |-> IsCompressed[flags],
                  format |-> FormatBits[flags], bytesConsumed |-> total]

\* decodeOne(buffer): the synchronous path refuses a compressed frame.
DecodeOne(b) ==
    LET h == FrameHead(b) IN
    IF h.kind # "frame" THEN h
    ELSE IF h.compressed THEN Thrown("CompressedFrameRequiresAsync")
    ELSE LET r == Deserialize(h.payload, h.format) IN
         IF r.kind # "ok" THEN r
         ELSE [kind |-> "ok", message |-> r.message, bytesConsumed |-> h.bytesConsumed]

\* decodeOneAsync(buffer) up to its await: a compressed frame with no
\* decompress function configured throws; otherwise the frame is read.
DecodeOneAsyncHead(b) ==
    LET h == FrameHead(b) IN
    IF h.kind = "frame" /\ h.compressed /\ ~Compressing
    THEN Thrown("NoDecompressor")
    ELSE h

\* decodeOneAsync after the await: the (decompressed) payload deserialized.
DecodeOneAsyncTail(h) ==
    Deserialize(IF h.compressed THEN Decompress(h.payload) ELSE h.payload, h.format)

\* decodeAll(buffer): decodeOne while bytes remain and a whole frame is
\* there; a throw from decodeOne propagates, and the messages decoded
\* before it are lost with the local array.
RECURSIVE DecodeAllFrom(_, _)
DecodeAllFrom(b, msgs) ==
    LET r == DecodeOne(b) IN
    IF b = <<>> \/ r.kind = "incomplete"
    THEN [kind |-> "ok", messages |-> msgs, remaining |-> b]
    ELSE IF r.kind = "error" THEN r
    ELSE DecodeAllFrom(SubSeq(b, r.bytesConsumed + 1, Len(b)), Append(msgs, r.message))
DecodeAll(b) == DecodeAllFrom(b, <<>>)

-----------------------------------------------------------------------------
VARIABLES
    sent,      \* envelopes written, in order (history)
    frames,    \* the frame written for each
    wire,      \* wire[c]: bytes in flight to consumer c
    buf,       \* buf[c]: the consumer's buffer, not yet decoded
    received,  \* received[c]: envelopes the consumer has decoded
    failed,    \* failed[c]: the error that closed c's stream, or "none"
    awaiting   \* awaiting: the frame decodeOneAsync awaits decompress for

vars == <<sent, frames, wire, buf, received, failed, awaiting>>

Init ==
    /\ sent = <<>> /\ frames = <<>>
    /\ wire = [c \in Consumers |-> <<>>]
    /\ buf = [c \in Consumers |-> <<>>]
    /\ received = [c \in Consumers |-> <<>>]
    /\ failed = [c \in Consumers |-> "none"]
    /\ awaiting = <<>>

\* The sender writes one frame to the stream.
Write(m, f) ==
    /\ Len(sent) < MaxSent
    /\ sent' = Append(sent, m)
    /\ frames' = Append(frames, f)
    /\ wire' = [c \in Consumers |-> wire[c] \o f]
    /\ UNCHANGED <<buf, received, failed, awaiting>>

SendEncode(m, fmt) == Write(m, Encode(m, fmt))
SendEncodeAsync(m, fmt) == Write(m, EncodeAsync(m, fmt))

\* A chunk of k bytes reaches consumer c (the socket's data event).
Chunk(c, k) ==
    /\ failed[c] = "none"
    /\ k \in 1..Len(wire[c])
    /\ wire' = [wire EXCEPT ![c] = SubSeq(@, k + 1, Len(@))]

\* The synchronous consumer's data handler: append the chunk and run
\* decodeAll over the buffer, keeping what remains; a throw closes it.
DataSync(k) ==
    LET b == buf["sync"] \o SubSeq(wire["sync"], 1, k)
        r == DecodeAll(b)
    IN /\ Chunk("sync", k)
       /\ IF r.kind = "ok"
          THEN /\ received' = [received EXCEPT !["sync"] = @ \o r.messages]
               /\ buf' = [buf EXCEPT !["sync"] = r.remaining]
               /\ UNCHANGED failed
          ELSE /\ failed' = [failed EXCEPT !["sync"] = r.error]
               /\ buf' = [buf EXCEPT !["sync"] = b]
               /\ UNCHANGED received
       /\ UNCHANGED <<sent, frames, awaiting>>

\* The asynchronous consumer's data handler appends the chunk; its decode
\* loop runs as the steps below.
DataAsync(k) ==
    /\ Chunk("async", k)
    /\ buf' = [buf EXCEPT !["async"] = @ \o SubSeq(wire["async"], 1, k)]
    /\ UNCHANGED <<sent, frames, received, failed, awaiting>>

\* The asynchronous consumer advances its buffer past a decoded frame, or
\* closes the stream on the error decodeOneAsync threw after its await.
Consumed(h) ==
    LET r == DecodeOneAsyncTail(h) IN
    IF r.kind = "ok"
    THEN /\ received' = [received EXCEPT !["async"] = Append(@, r.message)]
         /\ buf' = [buf EXCEPT !["async"] = SubSeq(@, h.bytesConsumed + 1, Len(@))]
         /\ UNCHANGED failed
    ELSE /\ failed' = [failed EXCEPT !["async"] = r.error]
         /\ UNCHANGED <<received, buf>>

\* One turn of the asynchronous decode loop: decodeOneAsync on the buffer.
\* It returns null (the loop waits for data: no step), throws before its
\* await, reaches the await of decompress for a compressed frame, or
\* returns an uncompressed frame, which the loop consumes.
AsyncDecode ==
    LET h == DecodeOneAsyncHead(buf["async"]) IN
    /\ failed["async"] = "none" /\ awaiting = <<>>
    /\ h.kind # "incomplete"
    /\ \/ /\ h.kind = "error"
          /\ failed' = [failed EXCEPT !["async"] = h.error]
          /\ UNCHANGED <<received, buf, awaiting>>
       \/ /\ h.kind = "frame" /\ h.compressed
          /\ awaiting' = <<h>>
          /\ UNCHANGED <<received, buf, failed>>
       \/ /\ h.kind = "frame" /\ ~h.compressed
          /\ Consumed(h)
          /\ UNCHANGED awaiting
    /\ UNCHANGED <<sent, frames, wire>>

\* The decompressor's promise resolves; decodeOneAsync deserializes the
\* frame it read before the await, and the loop advances the buffer,
\* which data events may have grown meanwhile.
DecompressDone ==
    /\ awaiting # <<>>
    /\ Consumed(awaiting[1])
    /\ awaiting' = <<>>
    /\ UNCHANGED <<sent, frames, wire>>

Next ==
    \/ \E m \in Msg, fmt \in Formats : SendEncode(m, fmt) \/ SendEncodeAsync(m, fmt)
    \/ \E k \in 1..MaxSent * 8 : DataSync(k) \/ DataAsync(k)
    \/ AsyncDecode
    \/ DecompressDone

\* The network eventually delivers every byte in flight and each consumer's
\* event loop keeps running; the sender's writes are the application's and
\* get none.  Each is weak fairness of a step, written out with the state
\* predicate that is exactly when the step is enabled.
InFlight(c) == failed[c] = "none" /\ wire[c] # <<>>
AsyncReady ==
    /\ failed["async"] = "none" /\ awaiting = <<>>
    /\ DecodeOneAsyncHead(buf["async"]).kind # "incomplete"
Fairness ==
    /\ <>[]InFlight("sync") => []<><<DataSync(Len(wire["sync"]))>>_vars
    /\ <>[]InFlight("async") => []<><<DataAsync(Len(wire["async"]))>>_vars
    /\ <>[]AsyncReady => []<><<AsyncDecode>>_vars
    /\ <>[](awaiting # <<>>) => []<><<DecompressDone>>_vars

Spec == Init /\ [][Next]_vars /\ Fairness

-----------------------------------------------------------------------------
Bytes == 0..255

TypeOK ==
    /\ sent \in Seq(Msg) /\ Len(sent) <= MaxSent
    /\ frames \in Seq(Seq(Bytes)) /\ Len(frames) = Len(sent)
    /\ \A c \in Consumers :
        /\ wire[c] \in Seq(Bytes) /\ buf[c] \in Seq(Bytes)
        /\ received[c] \in Seq(Msg)
    /\ Len(awaiting) <= 1

\* The payload length a frame's header declares, and whether it is one the
\* consumer must refuse: longer than MAX_MESSAGE_SIZE, or compressed on the
\* synchronous path.
Declared(f) == ReadUInt32BE(SubSeq(f, 1, 4))
Refused(c, f) ==
    \/ Declared(f) > MAX_MESSAGE_SIZE
    \/ c = "sync" /\ IsCompressed[f[5]]

\* Spec 4.1 and 12 (decodeAll, decodeOneAsync, createFrame): a consumer
\* decodes the envelopes in the order they were written, and, while its
\* stream is open, the frames it decoded, its buffer and the bytes in
\* flight are exactly the bytes written -- whatever the chunk boundaries.
DecodedInOrder ==
    \A c \in Consumers :
        /\ IsPrefix(received[c], sent)
        /\ failed[c] = "none" =>
             FlattenSeq(SubSeq(frames, 1, Len(received[c]))) \o buf[c] \o wire[c]
               = FlattenSeq(frames)

\* Spec 4.1 and 11 (decodeOne's MAX_MESSAGE_SIZE check, the compressed
\* check of the synchronous path): a stream is closed only by a frame the
\* codec must refuse.  For decodeOneAsync it is the first frame not yet
\* decoded; decodeAll throws away the frames of the chunk it decoded before
\* the refused one, so for it the refused frame is a later one.
ClosedOnlyByRefusedFrame ==
    \A c \in Consumers : failed[c] # "none" =>
        \E i \in (Len(received[c]) + 1)..Len(frames) :
            /\ Refused(c, frames[i])
            /\ c = "async" => i = Len(received[c]) + 1

\* The two consumers implement the framed stream of MessageStream: under
\* the mapping below (an error of either consumer is a close), every
\* behaviour of the decoders is one of the abstract stream: envelopes
\* arrive in order, none twice and none invented, a stream closes only with
\* an envelope undelivered, and no split of the stream into chunks leaves a
\* whole frame undecoded in a buffer while the stream stays open.
Stream == INSTANCE MessageStream
              WITH failed <- [c \in Consumers |-> IF failed[c] = "none" THEN "none" ELSE "closed"]

Refinement == Stream!Spec
=====
