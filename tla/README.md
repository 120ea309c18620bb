# TLA+ models of the Truffle mesh

These modules model the concurrent parts of the Truffle mesh: the
primary election, the connections between the Node transport and the Go
sidecar, the life of the sidecar process, store-slice replication over
the mesh's message bus, and the length-prefixed frame codec, with an
abstract stream that the codec is shown to implement. Each definition is translated from the source, and
`PROJECT.json` maps each one to the lines it models.

## The system and how its parts interact

A device runs one `MeshNode` (`src/packages/mesh/src/mesh-node.ts`).
The node owns the following parts:

- a `SidecarClient` (`src/packages/sidecar-client/src/index.ts`), which
  spawns the Go sidecar (`src/packages/sidecar`) and talks to it with JSON
  lines over stdin and stdout. The Go side of the pipe is
  `src/unnamed/part_006`. `MeshNode.start()` awaits `sidecar.start()`,
  which resolves when the sidecar reports tsnet `running` (or rejects
  after 30 s); `MeshNode.stop()` awaits `sidecar.stop()`, which resolves
  when the process exits or, after 5 s, kills it.
- a `WebSocketTransport` (`src/packages/transport/src/index.ts`). Its
  rows `dial:<device>` mirror the sockets that the sidecar's `Dialer`
  (`internal/server/handlers.go`) opens over tsnet. Its rows
  `incoming:<conn>` mirror the sockets that peers open to the sidecar's
  `ConnectionManager` (`internal/server/websocket.go`). A row gets its
  device id from the peer's `device:announce`, and `deviceToConnection`
  indexes one row per device. `sendEnvelopeDirect` finds a device's
  connection through that index.
- a `DeviceManager` (`device-manager.ts`), the device table: a row per
  remote device that discovery, `device:announce` or `device:list`
  reported, each with a role, plus the local device's role and the
  `primaryId` that `getPrimaryDevice()` returns. It is written by the
  election's `primaryElected` listener, by `device:list` and
  `device:announce`, by `markDeviceOffline` and by discovery, and
  `stop()` clears it.
- a `PrimaryElection` (`primary-election.ts`). The devices exchange
  `election:start`, `election:candidate` and `election:result`, and the
  winner broadcasts `device:list`.
- a `MeshMessageBus` (`src/unnamed/part_004`), which applications
  subscribe to. A `StoreSyncAdapter` (`src/packages/store-sync`) uses it
  to replicate each device's slice of a store.
- a `FrameCodec` (also `part_004`), the library's length-prefixed wire
  format. It is exported for transports, but the mesh itself sends JSON
  strings through the sidecar and does not call it.

A secondary cannot broadcast by itself. It sends a `route:broadcast` to
the device it names as primary, and that device relays the message to
everyone else. Store sync therefore depends on the election, and the
election depends on the transport's connections.

## Modules

| Module | Models | State ↔ code |
|---|---|---|
| `MeshElection` | PrimaryElection, plus MeshNode's lifecycle, discovery, transport listeners (`Greeting`, `DisconnectedListener`), primaryElected listener (`PrimaryElected`: setLocalRole, setDeviceRole, `BroadcastDeviceList`), announce interval (`AnnounceTick`) and control messages; the DeviceManager table (`HandleDeviceAnnounce`, `HandleDeviceList`, `MarkDevicesOffline`, `AddDiscoveredPeers`, `DeviceManagerClear`) | `phase`, `primaryId`, `candidates`, `decideArmed`/grace/discovery timers ↔ `state.*` and the `setTimeout`s; `chan[i,j]` ↔ the WebSocket from i to j (FIFO); `link` ↔ open connections; `ident` ↔ `deviceToConnection` (the dialer knows its peer at once, the accepting side after the announce); `rows[i][d]`, `localRole`, `dmPrimary` ↔ `devices` (absent or the row's role), `localDevice.role`, `DeviceManager.primaryId`; `nodeState` ↔ `running` plus the await inside `stop()` |
| `MCMeshElection` | model instance: `ChanConstraint` bounds each channel to 4 messages | — |
| `Transport` | WebSocketTransport's outgoing and incoming rows, `deviceToConnection`, heartbeat and reconnect ledger; SidecarClient's pipes; Go `Dialer.Dial`, `closeConnection`, `readPump`, `handleDial`, `handleDialClose`; Go `ConnectionManager`; MeshNode's `connected`/`disconnected` listeners and DeviceManager's online status; the peer's dial, announce, close and heartbeat | `row`, `hb`, `intervals`, `ledger`, `retryTimers`, `pending` ↔ `connections` (dial rows), `heartbeatInterval`, `reconnects`, the connect() promises and their 10 s timeouts; `inc` ↔ the incoming row (none, deviceId null, identified); `idx` ↔ `deviceToConnection`; `status` ↔ the DeviceManager record; `mapped`, `orphans`, `dials` ↔ `Dialer.connections`, sockets no longer in the map, Dial goroutines; `goIn` ↔ `ConnectionManager.connections`; `cmds`/`evs` ↔ stdin/stdout |
| `FrameCodec` | FrameCodec: encode, encodeAsync, createFrame, decodeOne, decodeOneAsync, decodeAll (RECURSIVE `DecodeAllFrom`), deserialize; a sender and two consumers of a chunked byte stream (spec 4.1, `spec_modelled`) | operators ↔ the methods, `FrameHead` ↔ the header checks decodeOne and decodeOneAsync share; `frames`/`sent` ↔ what the sender wrote; `wire[c]` ↔ bytes in flight; `buf[c]` ↔ the caller's buffer; `awaiting` ↔ decodeOneAsync suspended on `decompress` |
| `MCFrameCodec` | model instance: the serializer's lengths `MCSerialLen` | — |
| `SidecarLifecycle` | SidecarClient `start`, `stop`, the process's `exit`/`error` handlers, the startup and shutdown timers, `handleStatusEvent`, `sendCommand`, `cleanup`; the sidecar's `main`, `handleStart`/`Node.Start` and its poller, `handleStop`/`shutdown`/`Node.Stop`; MeshNode `start`/`stop` as the caller | `proc` ↔ `this.process` and `this.readline`; `status` ↔ `this.status.state`; `startArmed`, `listening`, `startP` ↔ each start()'s timer, onStatus listener and promise; `stopArmed`, `onExit`, `stopP` ↔ each stop()'s timer, exit listener and promise; `go[g]` ↔ what process g's main.go is doing; `cmds`/`out` ↔ its stdin and stdout; `exited`/`exitSeen` ↔ its death and the 'exit' event; `running`, `nodeStop` ↔ `MeshNode.running` and the await in `stop()`; `awaiting` ↔ MeshNode.start() calls suspended on `sidecar.start()`; `listeners`, `held` ↔ the transport listener sets registered and the one `transportHandlers` holds |
| `MessageStream` | the abstract framed stream of spec 4.1: envelopes delivered in order, several at a time, until a close that happens only with an envelope pending | `sent`, `received[c]`, `failed[c]`; FrameCodec's `Stream` instance maps `failed` to `"closed"` on any error |
| `StoreSync` | StoreSyncAdapter, MeshMessageBus `broadcast`/`dispatchMessage`, MeshNode `broadcastEnvelope`, `handleIncomingData`, `handleRouteEnvelope` | `held[b][o]` ↔ the remote slice of o in b's store (its version); `localVer` ↔ the local slice; `started`/`disposed` ↔ adapter flags; `view[d]` ↔ `election.getPrimaryId()`; `chan` ↔ frames `{route, msg}` |

Each action is one whole handler. For example, `HandleDialDisconnect`
stops the heartbeat, deletes the row and calls `scheduleReconnect` in a
single step, as the code does. A handler's early return is the action's
guard, or a disjunct that changes nothing but the consumed message.
The data is reduced to what the properties need:

- Device ids are numbers or model values, and the id tie-break of the
  ranking is `<`.
- Uptime is the order in which devices started.
- A slice is a version number.
- Timers are booleans (MeshElection) or counts of live handles (Transport).
  They are counts in Transport because the code overwrites handles
  without clearing them.

The store's `applyRemoteSlice` is application code under no package. It
is modelled from spec 4.8 (only a newer version replaces the held one)
and marked `spec_modelled`.

## Runs

There are 12 runs. Earlier violation runs were retired to make room:
partial_mesh (`setPrimary` leaves the decide timer armed) and
first_dial_lost (a failed first dial is never retried), both reached by
a unit test in a few calls; and partition_heal (two primaries elected
apart swap roles on reconnecting). They stay in the hazard list. The
former election_healthy run, with concurrent joins, was merged into
election_link_faults when the device table was added (see Bounds).

Some invariants are not checked, because the pass runs' assumptions
exclude the only paths that break them. Each was shown violated by a
variant of a pass run's cfg and is kept as a hazard:
- "the decide timer is armed only while collecting". It breaks with
  `device:list` arriving mid-round (FullMeshFirst FALSE), or with links
  failing during a round (31 steps).
- "every live heartbeat interval is the one its row holds". It breaks with
  DialRace TRUE in 16 steps: a reconnect's dial outlives the 10 s
  timeout, the next reconnect dials again, and both dials deliver
  `dialConnected` to the same row. `handleDialConnected` then overwrites
  the live interval.

Pass runs check every property listed for them.
Each violation run checks one property and finds a counterexample.

| Run | Expect | Shows |
|---|---|---|
| election_link_faults | pass (115,254 states, ≈ 40 s) | Devices join one at a time, stop, and one connection may fail while both ends run. The mesh agrees on one running primary whenever it is quiet (`Agreement`), and it eventually agrees for good (`EventuallyAgreed`): the grace timer and a new round recover a lost link. Every running device's table names that primary, holds the matching local role, and gives no running device a contradicting role (`DeviceTableAgrees`). A row may lack a role for a while, because a device that learns its role from `device:list` does not announce it; the 30 s announce interval eventually gives every row its role for good (`EventuallyRolesKnown`). `selectWinner`'s sort picks the reference-ranking winner (`SelectWinnerMatchesRanking`). |
| stop_mid_round | violation `Agreement` | A device stopped after sending its candidacy still wins. |
| restart_device_table | violation `DeviceTableAgrees` | A lone device becomes primary, stops and starts again. `clear()` kept its local role `primary`, so `setLocalRole('primary')` is a no-op: the election names it primary, but `DeviceManager.primaryId` stays null and `getPrimaryDevice()` returns undefined (7 steps). |
| transport_healthy | pass (143,779 states) | The transport's row and the sidecar's socket agree when quiet (`ViewsAgree`). A device found by id is online once its peer has announced (`ConnectedDeviceOnline`). A lost connection is re-established, by this node or by the peer (`ReconnectsEventually`). |
| zombie | violation `ViewsAgree` | The connect() timeout from before a restart deletes the new row. |
| two_links | violation `LiveConnectionIndexed` | The peer's incoming connection is identified, this node's own dial then fails, and connect()'s error handler deletes the index entry of the live incoming row. |
| codec_stream | pass (22,594 states) | Frames from both encoders, in both formats, compressed or not, at and over the size limit, in chunks of every size: both consumers decode them in order, conserving bytes (`DecodedInOrder`); a stream is closed only by a frame the codec must refuse (`ClosedOnlyByRefusedFrame`); and the consumers implement `MessageStream` (`Refinement`, the abstract `Spec` with its fairness as a PROPERTY): nothing duplicated or invented, and no chunking leaves a whole frame undecoded while the stream is open. |
| sidecar_lifecycle | pass (125,882 states, ≈ 90 s) | Spawn failures, a crash, tsnet coming up or never, `tsnet:stop` deadlocking in the sidecar, and every order of timers, lines and exit events: every start() settles (`StartSettles`) and every stop() resolves (`StopSettles`), so MeshNode.start() and stop() return. |
| sidecar_restart | violation `OneSidecarProcess` | A start() that times out forgets its process without killing it; MeshNode.stop() then has nothing to stop, and the next start() spawns a second sidecar. |
| listeners_after_stop | violation `TransportListenersOnce` | MeshNode.stop() during start()'s await completes; start() then resumes without checking `running` and registers transport listeners on the stopped node (12 states). |
| sync_healthy | pass (357,770 states, ≈ 50 s) | Once the mesh is quiet, every started adapter holds every other started adapter's current slice (`SlicesConverge`). |
| early_start | violation `SlicesConverge` | Broadcasts made before a primary is known are dropped, and nothing re-sends them. |

The findings these violations show are in `PROJECT.json` under
`findings`, each with the line that causes it.

## Bounds and scenario constants

- **Devices.** Three in MeshElection and StoreSync, which is enough for a
  primary, a relaying secondary and a third party, and for two partitions.
  Transport's healthy and two_links runs have one device, which already
  has two rows (the dial and the incoming socket) sharing one index
  entry; two devices multiply the state space past the time a run may
  take. The zombie run has two devices, so that
  two rows share the sidecar's pipes.
- **Operations.** `MaxStarts = 1` (2 in restart_device_table, the
  least that reaches a restart), `MaxLinkFailures ≤ 1`,
  `MaxConnects = 5`, `MaxFaults = 3`, `MaxRestarts = 1`,
  `MaxAccepts = 3` (incoming sockets the peer opens; 2 in the two-device
  runs),
  `MaxVersion = 1` and `MaxOps = 2`. These values are enough for every
  counterexample above to appear and for every action to fire in the
  pass runs, and they keep each run under a minute.
- **Frames.** Two envelopes. msgpack is 1 or 2 bytes and JSON 2 or 3,
  with `MAX_MESSAGE_SIZE = 2` and `CompressionThreshold = 1`. So one
  frame is exactly at the limit, one is over it, and encodeAsync
  compresses all but the shortest. `MaxSent = 2` frames are enough for a
  chunk to end inside a header, for a good and a refused frame to share a
  chunk, and for data to arrive during the decompress await. Three frames
  give more than 300,000 states, which is too many for the time a run
  may take. The limit is scaled down with the lengths, because the code
  only compares against it.
- **Sidecar processes.** `MaxGen = 2` spawns and `MaxCrashes = 1`
  (0 in the violation run): two processes are what OneSidecarProcess
  needs, and a restart after a timeout, a kill or a crash. Three spawns
  give more states than a run may take.
- **Joins.** The election runs serialize joins (`SettledJoins`). With
  the device table, three devices joining concurrently give more than
  900,000 states and take about 5 minutes even without the announce
  interval, which is past the time a run may take. What serialized joins
  leave out is two devices starting within one discovery window; a stop
  inside a round is still checked, by stop_mid_round.
- **Messages.** `ChanConstraint` (4 per channel) and `FlightBound`
  (3 frames in flight) are state constraints that cut off message floods
  no property depends on.
- **Scenario constants.** Each one names an assumption of a healthy run.
  The violation runs turn one off to show what the code does without it.
  - `Timely`: timers do not fire before the messages they wait for.
  - `AccuratePeerView`: getTailnetPeers is exact.
  - `QuietFaults`, `SettledJoins`: stops and joins happen only when the
    mesh is quiet.
  - `FullMeshFirst`: no round begins before all running devices are
    connected.
  - `DialRace`: a dial cannot succeed after its timeout.
  - `DiscoveryOnly`: connect() is called only by discovery.
  - `StopWhenSettled`: the node is stopped only while nothing is pending.
  - `PrimaryStays`: the primary never stops.
  - `StartAfterPrimary`: an adapter starts only after its node names the
    primary.
  - `RejoinAfterClear`: a device comes back only after the clears about
    it are delivered.

## Fairness

- **MeshElection.** Weak fairness on timers, message delivery, connection
  and `StopComplete`. Node.js timers do fire, TCP delivers, and
  `sidecar.stop()` resolves within its 5 s kill timeout. `start()` and
  `stop()` are user calls and get no fairness. The 30 s announce
  interval fires only while nothing is in flight and no other timer is
  pending, because it is longer than all of them; otherwise an endless
  run of announces could starve the 3 s timers, which the code's timings
  rule out. That guard turns one device's interval off while another
  device's announce is in flight, and `setInterval` fires every 30 s
  whatever the others do, so the interval gets strong fairness.
- **Transport.** Weak fairness on the event loop draining the pipe, on
  the sidecar handling commands, on the reconnect and connect timers,
  and on every dial ending. Go's dial has a context timeout. The peer runs
  the same code, so it gets weak fairness on redialling after its dial
  was closed (its reconnect timer), on announcing on a new connection
  (its `connected` listener), and on its heartbeat closing a socket this
  node no longer answers on. `ReconnectsEventually` may also end with the
  transport stopped or a connect or accept bound used up, since the
  bounds cut the retries off.
- **FrameCodec.** Weak fairness on delivering the bytes in flight to
  each consumer (the socket delivers what was written), on the
  decodeOneAsync loop, and on `decompress` resolving. Each condition is
  written out as `<>[]P => []<><<A>>_vars`, where P is the state
  predicate that holds exactly when A is enabled. Evaluating ENABLED
  through the recursive decoder is too slow for TLC. The sender's writes
  get no fairness.
- **SidecarLifecycle.** Weak fairness on the client's timers, on its
  readline and on the process's `exit` and `error` events (Node.js
  delivers them), on the sidecar's boot and read loop, and on the await
  in `MeshNode.stop()`. Tailscale reaching `Running` gets none: it may
  wait for a login forever, which is why the startup timer exists.
  Crashes and the application's calls get none. The runs set
  CHECK_DEADLOCK FALSE: once the spawn bound is spent the application
  may simply stop calling, and the system rests.
- **StoreSync.** No fairness. `SlicesConverge` is a state invariant
  about quiet states.

## Not modelled

- `sendRaw` and the payload of messages other than `device:announce` in
  Transport. In MeshElection, an incoming connection is the other end of
  a link.
- `route:message` to a single device, and `publish`.
- `setLocalOnline`, `setLocalDNSName`, `setLocalOffline`, device names
  and metadata: they change fields no property reads.
- The Go websocket server's `writePump` and its connection ids (one
  incoming socket per peer) and HTTP reverse proxies.
- SidecarClient's status events other than `tsnet:status`, and the
  synchronous throw of `start()` when no stdio pipes are created.
- Two concurrent `MeshNode.stop()` calls (SidecarLifecycle allows one
  stop() per process).
- The codec's callers. Nothing in the repository consumes frames, so
  FrameCodec's sender and consumers follow spec 4.1. Frames with reserved
  flag bits set are not sent, because the modelled encoders never set
  them.
- The discovery timer that survives `stop()` (mesh-node.ts:755). It was
  shown by an earlier violation run, which was retired for the run
  budget. A unit test with fake timers reaches it; it is listed as a
  hazard.
- Schemas, the CLI, the React hook and the binary installer.
- A primary handover in StoreSync.
- The backoff delay arithmetic (delays are timer events).

## Plan

1. Compose a primary handover into StoreSync, using the `route:broadcast`
   hazard at mesh-node.ts:618.
2. An abstract election (one primary per quiet mesh) refined by
   MeshElection.
3. A pass run with the window between accepting a connection and
   handling its announce open (links failing while the mesh is busy),
   for the hazard at mesh-node.ts:503.
