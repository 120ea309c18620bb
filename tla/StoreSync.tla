----------------------------- MODULE StoreSync -----------------------------
(***************************************************************************)
(* Slice replication of the Truffle mesh, over the routing of the mesh     *)
(* node's message bus.                                                     *)
(*                                                                         *)
(*   StoreSyncAdapter  src/packages/store-sync/src/index.ts                *)
(*   MeshMessageBus    src/unnamed/part_004 (subscribe, broadcast,         *)
(*                     dispatchMessage)                                    *)
(*   MeshNode          src/packages/mesh/src/mesh-node.ts (broadcast-      *)
(*                     Envelope, sendEnvelopeDirect, handleIncomingData,   *)
(*                     handleRouteEnvelope)                                *)
(*                                                                         *)
(* One store per device; a slice is abstracted to its version (0: none).   *)
(* A secondary broadcasts by sending route:broadcast to the device it      *)
(* names as primary, which forwards the envelope to every other connected  *)
(* device; the primary broadcasts directly.  The election itself is        *)
(* abstracted (MeshElection models it): the mesh has elected Primary and  *)
(* view[d] is the primary device d names, learned in a step of its own.    *)
(* A primary handover is not modelled.  Running devices are connected to   *)
(* one another; a connection is a FIFO channel per direction, lost when    *)
(* either end stops.                                                       *)
(***************************************************************************)
EXTENDS Integers, Sequences, FiniteSets, FiniteSetsExt

CONSTANTS
    N,                  \* number of devices
    Primary,            \* the device the mesh elects
    MaxVersion,         \* bound on local changes per device
    MaxOps,             \* bound on stops, dispose and offline/discovered calls
    MaxInFlight,        \* bound on frames in flight at once
    PrimaryStays,       \* TRUE: the elected primary never stops
    StartAfterPrimary,  \* TRUE: the app calls sync.start() only once its node names a primary
    RejoinAfterClear    \* TRUE: a device restarts only after clears about it are delivered

Dev == 1..N
Null == 0
Pairs == {p \in Dev \X Dev : p[1] # p[2]}
Types == {"full", "update", "request", "clear"}
\* A sync message: 'dev' is payload.deviceId (full, update, clear) or
\* payload.fromDeviceId (request, Null when absent); 'ver' is payload.version.
SyncMsg == [type : Types, dev : Dev \cup {Null}, ver : 0..MaxVersion]
\* A frame on a connection: the sync envelope itself, or a route:broadcast
\* wrapping it.
Frame == [route : BOOLEAN, msg : SyncMsg]

VARIABLES
    up,         \* the mesh node is running
    view,       \* election.getPrimaryId() of the node
    started,    \* the adapter is subscribed to "sync" and to localChanged
    disposed,   \* dispose() was called
    localVer,   \* version of the store's local slice (0: getLocalSlice() is null)
    held,       \* held[b][o]: version of o's slice in b's store (0: none)
    chan,       \* chan[<<a, b>>]: frames sent by a, not yet handled by b
    ops         \* bounded environment operations so far

node == <<up, view>>
vars == <<up, view, started, disposed, localVer, held, chan, ops>>

Up == {d \in Dev : up[d]}
Started == {d \in Dev : started[d]}
Quiet == \A p \in Pairs : chan[p] = <<>>
InFlight == MapThenSumSet(LAMBDA p : Len(chan[p]), Pairs)
NoSlices == [o \in Dev |-> 0]

Full(d) == [type |-> "full", dev |-> d, ver |-> localVer[d]]
Request(target) == [type |-> "request", dev |-> target, ver |-> 0]
Clear(o) == [type |-> "clear", dev |-> o, ver |-> 0]

\* sendEnvelopeDirect to every connected device in S, each frame after
\* those already queued on channel ch.
SendAll(ch, d, S, f) ==
    [p \in Pairs |-> IF p[1] = d /\ p[2] \in S THEN Append(ch[p], f) ELSE ch[p]]

\* MeshNode.broadcastEnvelope of d, on top of channels ch.  The primary
\* sends to every connected device and also dispatches the envelope
\* locally with from = itself, which the sync handlers drop (a clear is
\* already applied locally by handleDeviceOffline).  A secondary sends a
\* route:broadcast to the device it names as primary if it is connected to
\* it, and otherwise the envelope is dropped.
Bcast(ch, d, m) ==
    CASE view[d] = d ->
            SendAll(ch, d, Up \ {d}, [route |-> FALSE, msg |-> m])
      [] view[d] # Null /\ up[view[d]] ->
            SendAll(ch, d, {view[d]}, [route |-> TRUE, msg |-> m])
      [] OTHER -> ch

BcastSeq(ch, d, ms) ==
    LET RECURSIVE Go(_, _)
        Go(c, s) == IF s = <<>> THEN c ELSE Go(Bcast(c, d, Head(s)), Tail(s))
    IN  Go(ch, ms)

\* broadcastAllStores: nothing when the store has no local slice.
FullIfAny(d) == IF localVer[d] > 0 THEN <<Full(d)>> ELSE <<>>

\* The store's applyRemoteSlice with the version gate of spec 4.8: apply
\* only a version strictly greater than the one held.
ApplyRemoteSlice(b, o, v) ==
    IF v > held[b][o] THEN [held EXCEPT ![b][o] = v] ELSE held

\* handleSyncMessage of b for a message dispatched with 'from' f, on top
\* of channels ch.
HandleSyncMessage(b, m, f, ch) ==
    CASE m.type \in {"full", "update"} ->
            /\ held' = IF f = b THEN held ELSE ApplyRemoteSlice(b, m.dev, m.ver)
            /\ chan' = ch
      [] m.type = "request" ->
            /\ held' = held
            /\ chan' = IF f = b \/ m.dev \notin {Null, b} THEN ch
                       ELSE BcastSeq(ch, b, FullIfAny(b))
      [] m.type = "clear" ->
            /\ held' = IF m.dev = b THEN held ELSE [held EXCEPT ![b][m.dev] = 0]
            /\ chan' = ch

\* MeshMessageBus.dispatchMessage: the "sync" handler is registered only
\* while the adapter is started; otherwise the message is dropped.
DispatchMessage(b, m, f, ch) ==
    IF started[b] THEN HandleSyncMessage(b, m, f, ch)
    ELSE held' = held /\ chan' = ch

\* Variants of the actions below, each with one step of the code left out.
SyncStartNoRequest(d) ==
    /\ up[d] /\ ~started[d] /\ ~disposed[d]
    /\ StartAfterPrimary => view[d] # Null
    /\ started' = [started EXCEPT ![d] = TRUE]
    /\ chan' = BcastSeq(chan, d, FullIfAny(d))
    /\ UNCHANGED <<node, disposed, localVer, held, ops>>

DisposeNoStop(d) ==
    /\ ~disposed[d]
    /\ ops < MaxOps
    /\ disposed' = [disposed EXCEPT ![d] = TRUE]
    /\ ops' = ops + 1
    /\ UNCHANGED <<node, started, localVer, held, chan>>

(***************************************************************************)
(* Actions of the adapter, driven by the application.                      *)
(***************************************************************************)

\* start(): subscribe, attach the localChanged listener, broadcast a
\* request, then the local slice.
SyncStart(d) ==
    /\ up[d] /\ ~started[d] /\ ~disposed[d]
    /\ StartAfterPrimary => view[d] # Null
    /\ started' = [started EXCEPT ![d] = TRUE]
    /\ chan' = BcastSeq(chan, d, <<Request(Null)>> \o FullIfAny(d))
    /\ UNCHANGED <<node, disposed, localVer, held, ops>>

\* stop(): detach, unsubscribe, clearRemoteSlices.
SyncStop(d) ==
    /\ started[d]
    /\ ops < MaxOps
    /\ started' = [started EXCEPT ![d] = FALSE]
    /\ held' = [held EXCEPT ![d] = NoSlices]
    /\ ops' = ops + 1
    /\ UNCHANGED <<node, disposed, localVer, chan>>

\* dispose(): stop() once; a disposed adapter never starts again.
Dispose(d) ==
    /\ ~disposed[d]
    /\ ops < MaxOps
    /\ disposed' = [disposed EXCEPT ![d] = TRUE]
    /\ started' = [started EXCEPT ![d] = FALSE]
    /\ held' = [held EXCEPT ![d] = NoSlices]
    /\ ops' = ops + 1
    /\ UNCHANGED <<node, localVer, chan>>

\* The store changes its local slice and emits localChanged; the adapter
\* broadcasts an update only while its listener is attached.
LocalChange(d) ==
    /\ localVer[d] < MaxVersion
    /\ localVer' = [localVer EXCEPT ![d] = @ + 1]
    /\ chan' = IF started[d]
               THEN Bcast(chan, d, [type |-> "update", dev |-> d, ver |-> localVer[d] + 1])
               ELSE chan
    /\ UNCHANGED <<node, started, disposed, held, ops>>

\* handleDeviceOffline(o), called by the application on c when the mesh
\* reports o offline: evict locally, broadcast a clear.
DeviceOffline(c, o) ==
    /\ up[c] /\ ~up[o] /\ c # o
    /\ ops < MaxOps
    /\ held' = [held EXCEPT ![c][o] = 0]
    /\ chan' = Bcast(chan, c, Clear(o))
    /\ ops' = ops + 1
    /\ UNCHANGED <<node, started, disposed, localVer>>

\* handleDeviceDiscovered(o) on c: broadcast the local slice, and a request
\* that only o answers.
DeviceDiscovered(c, o) ==
    /\ up[c] /\ up[o] /\ c # o
    /\ ops < MaxOps
    /\ chan' = BcastSeq(chan, c, FullIfAny(c) \o <<Request(o)>>)
    /\ ops' = ops + 1
    /\ UNCHANGED <<node, started, disposed, localVer, held>>

(***************************************************************************)
(* Delivery: handleIncomingData of b for the next frame from a.            *)
(***************************************************************************)

\* A sync envelope: dispatched to the bus with from = the connection's device.
ReceiveDirect(a, b) ==
    /\ chan[<<a, b>>] # <<>>
    /\ ~Head(chan[<<a, b>>]).route
    /\ LET ch == [chan EXCEPT ![<<a, b>>] = Tail(@)]
       IN  DispatchMessage(b, Head(chan[<<a, b>>]).msg, a, ch)
    /\ UNCHANGED <<node, started, disposed, localVer, ops>>

\* handleRouteEnvelope for route:broadcast: a device that is not primary
\* drops it; the primary forwards the envelope to every connected device
\* but the sender, then dispatches it locally with from = the sender.
ReceiveRoute(a, b) ==
    /\ chan[<<a, b>>] # <<>>
    /\ Head(chan[<<a, b>>]).route
    /\ LET m  == Head(chan[<<a, b>>]).msg
           ch == [chan EXCEPT ![<<a, b>>] = Tail(@)]
       IN  IF view[b] # b
           THEN chan' = ch /\ held' = held
           ELSE DispatchMessage(b, m, a,
                    SendAll(ch, b, Up \ {a, b}, [route |-> FALSE, msg |-> m]))
    /\ UNCHANGED <<node, started, disposed, localVer, ops>>

(***************************************************************************)
(* The mesh node under the adapter.                                        *)
(***************************************************************************)

\* MeshNode.start(): the node comes up naming no primary yet.
NodeStart(d) ==
    /\ ~up[d]
    /\ RejoinAfterClear =>
          \A p \in Pairs : \A k \in DOMAIN chan[p] : chan[p][k].msg # Clear(d)
    /\ up' = [up EXCEPT ![d] = TRUE]
    /\ view' = [view EXCEPT ![d] = Null]
    /\ UNCHANGED <<started, disposed, localVer, held, chan, ops>>

\* The application's shutdown: sync.stop(), then MeshNode.stop(); every
\* connection of d closes with the frames still in it.
NodeStop(d) ==
    /\ up[d]
    /\ PrimaryStays => d # Primary
    /\ ops < MaxOps
    /\ up' = [up EXCEPT ![d] = FALSE]
    /\ view' = [view EXCEPT ![d] = Null]
    /\ started' = [started EXCEPT ![d] = FALSE]
    /\ held' = [held EXCEPT ![d] = NoSlices]
    /\ chan' = [p \in Pairs |-> IF d \in {p[1], p[2]} THEN <<>> ELSE chan[p]]
    /\ ops' = ops + 1
    /\ UNCHANGED <<disposed, localVer>>

\* The node learns the elected primary: the primary itself in becomePrimary,
\* every other node from the election:result or device:list it then sends.
Adopt(d) ==
    /\ up[d] /\ up[Primary]
    /\ d = Primary \/ view[Primary] = Primary
    /\ view[d] # Primary
    /\ view' = [view EXCEPT ![d] = Primary]
    /\ UNCHANGED <<up, started, disposed, localVer, held, chan, ops>>

Init ==
    /\ up = [d \in Dev |-> FALSE]
    /\ view = [d \in Dev |-> Null]
    /\ started = [d \in Dev |-> FALSE]
    /\ disposed = [d \in Dev |-> FALSE]
    /\ localVer = [d \in Dev |-> 0]
    /\ held = [d \in Dev |-> NoSlices]
    /\ chan = [p \in Pairs |-> <<>>]
    /\ ops = 0

Next ==
    \/ \E d \in Dev : \/ SyncStart(d) \/ SyncStop(d) \/ Dispose(d) \/ LocalChange(d)
                      \/ NodeStart(d) \/ NodeStop(d) \/ Adopt(d)
    \/ \E c, o \in Dev : DeviceOffline(c, o) \/ DeviceDiscovered(c, o)
    \/ \E p \in Pairs : ReceiveDirect(p[1], p[2]) \/ ReceiveRoute(p[1], p[2])

Spec == Init /\ [][Next]_vars

\* State constraint of the model: at most MaxInFlight frames in flight.
FlightBound == InFlight <= MaxInFlight

(***************************************************************************)
(* Properties                                                              *)
(***************************************************************************)

TypeOK ==
    /\ up \in [Dev -> BOOLEAN] /\ started \in [Dev -> BOOLEAN]
    /\ disposed \in [Dev -> BOOLEAN]
    /\ view \in [Dev -> Dev \cup {Null}]
    /\ localVer \in [Dev -> 0..MaxVersion]
    /\ held \in [Dev -> [Dev -> 0..MaxVersion]]
    /\ chan \in [Pairs -> Seq(Frame)]
    /\ \A d \in Dev : started[d] => up[d] /\ ~disposed[d]
    /\ ops \in 0..MaxOps

(***************************************************************************)
(* Replication converges: once every frame is delivered and every running  *)
(* node names the running elected primary, each started adapter holds the  *)
(* current slice of every other started adapter.  This is what start()'s   *)
(* request and full, the localChanged updates, the answers to requests and *)
(* the primary's relaying of route:broadcast promise together (spec 4.8).  *)
(***************************************************************************)
SlicesConverge ==
    (Quiet /\ up[Primary] /\ \A d \in Up : view[d] = Primary) =>
        \A b, o \in Started : b # o /\ localVer[o] > 0 => held[b][o] = localVer[o]

====
