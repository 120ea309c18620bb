----------------------------- MODULE Transport -----------------------------
(***************************************************************************)
(* The outgoing connections of one node: the rows "dial:<deviceId>" of     *)
(* WebSocketTransport (transport/src/index.ts) together with the sidecar's *)
(* Dialer that owns the real sockets (sidecar/internal/server/handlers.go, *)
(* sidecar/main.go).  The two halves talk over the sidecar's stdin and     *)
(* stdout, modelled as two FIFO queues: cmds (tsnet:dial, tsnet:dialClose) *)
(* and evs (dialConnected, dialError, dialDisconnect).                     *)
(*                                                                         *)
(* The rows "incoming:<conn>" that the sidecar's ConnectionManager         *)
(* (sidecar/internal/server/websocket.go) reports with wsConnect,          *)
(* wsMessage and wsDisconnect are modelled too, one per peer (a peer holds *)
(* one dial to this node at a time), with the deviceToConnection index     *)
(* that both kinds of row share, MeshNode's identification of a row by the *)
(* peer's device:announce (handleIncomingData, setConnectionDeviceId) and  *)
(* MeshNode's 'disconnected' listener, which marks every known device with *)
(* no indexed connection offline in the DeviceManager.  The peer runs the  *)
(* same code: it announces itself once on each connection it sees open.    *)
(*                                                                         *)
(* Timers are counted, not flagged: setInterval/setTimeout handles that    *)
(* the code overwrites without clearing stay live, and the model keeps     *)
(* them live too.  Payload traffic (dialMessage, pings) is left out: it    *)
(* only refreshes lastActivityTime, so a heartbeat timeout is a fault the  *)
(* environment may inject while a row is connected.                        *)
(***************************************************************************)
EXTENDS Integers, Sequences, FiniteSets

CONSTANTS
    Dev,                  \* remote device ids this node dials
    MaxConnects,          \* bound on connect() calls
    MaxFaults,            \* bound on failed dials, dropped sockets and heartbeat timeouts
    MaxRestarts,          \* bound on stop()/start() cycles of the node
    MaxAccepts,           \* bound on connections peers open to this node
    DialRace,             \* may a dial succeed after the transport's 10 s timeout fired
    DiscoveryOnly,        \* connect() is called from outside only by the discovery
                          \* start() schedules: once per device, on a quiet node
    StopWhenSettled       \* the node is stopped only with no connect() pending and quiet pipes

VARIABLES
    running,      \* WebSocketTransport.running
    row,          \* status of connections.get(`dial:${d}`), "none" when absent
    hb,           \* that row's heartbeatInterval handle refers to a live interval
    intervals,    \* live heartbeat intervals ticking for `dial:${d}`
    ledger,       \* reconnects.get(d) as [present, attempt, timer]
    retryTimers,  \* live reconnect timers for d
    pending,      \* unsettled connect() promises for d, by caller and by whether
                  \* their dial is still the sidecar's ("live") or died with an
                  \* earlier sidecar process ("stale")
    connects,     \* connect() calls that reached the dial
    mapped,       \* Dialer.connections[d] exists in the sidecar
    orphans,      \* open sidecar sockets to d no longer in Dialer.connections
    dials,        \* Dial goroutines for d in flight, by the outcome they will have
    cmds,         \* commands on the sidecar's stdin, oldest first
    evs,          \* events on the sidecar's stdout, oldest first
    faults,       \* faults injected so far
    restarts,     \* stop() calls so far
    inc,          \* the row incoming:<conn> of d's connection to this node:
                  \* "none", "anon" (deviceId null) or "ident"
    idx,          \* deviceToConnection.get(d): "none", "dial" or "inc"
    status,       \* d's status in the DeviceManager: "unknown" (not in its
                  \* map), "online" or "offline"
    goIn,         \* ConnectionManager.connections holds d's incoming socket
    annIn,        \* d has announced itself on that socket
    annDial,      \* d has announced itself on the mapped dial socket
    accepts,      \* incoming connections accepted so far
    lost          \* the peer's dial to this node was closed under it

node == <<running, row, hb, intervals, ledger, retryTimers, pending, connects>>
side == <<mapped, orphans, dials, cmds, evs>>
index == <<inc, idx, status>>
peer == <<goIn, annIn, annDial, accepts, lost>>
vars == <<node, side, faults, restarts, index, peer>>

Callers == {"app", "retry"}
Kinds == Callers \X {"live", "stale"}
NoPending == [k \in Kinds |-> 0]
NoLedger == [present |-> FALSE, attempt |-> 0, timer |-> FALSE]
Cmd(op, d) == [op |-> op, dev |-> d]
Ev(ev, d) == [ev |-> ev, dev |-> d]

\* Every timer of the transport is at least 1 s; the IPC round trip is
\* milliseconds, so timers fire with both pipes drained.
IpcQuiet == cmds = <<>> /\ evs = <<>>
Quiet == IpcQuiet /\ \A d \in Dev : dials[d].ok + dials[d].fail = 0
Pending(d) == pending[d][<<"app", "live">>] + pending[d][<<"app", "stale">>]
              + pending[d][<<"retry", "live">>] + pending[d][<<"retry", "stale">>]
PendingRetries(d) == pending[d][<<"retry", "live">>] + pending[d][<<"retry", "stale">>]

\* getConnectionByDeviceId(d) returns a row, and that row is connected (an
\* incoming row is connected from the start).
ConnectedByIndex(d) ==
    \/ idx[d] = "dial" /\ row[d] = "connected"
    \/ idx[d] = "inc" /\ inc[d] # "none"
\* getConnectionByDeviceId(d) returns some row.
Indexed(d) ==
    \/ idx[d] = "dial" /\ row[d] # "none"
    \/ idx[d] = "inc" /\ inc[d] # "none"
\* The peers have sent the device:announce of every socket open to them.
PeersAnnounced == \A d \in Dev : (goIn[d] => annIn[d]) /\ (mapped[d] => annDial[d])

-----------------------------------------------------------------------------
(* Helpers translating the private methods the handlers call.              *)

\* MeshNode's 'disconnected' listener, run inside the handler that emits the
\* event once the handler has updated the rows and the index: every device
\* the DeviceManager knows that getConnectionByDeviceId finds no row for is
\* marked offline (markDeviceOffline).
DisconnectedListener ==
    status' = [d \in Dev |-> IF status[d] # "unknown" /\ ~(Indexed(d)')
                             THEN "offline" ELSE status[d]]

\* Mutant: scheduleReconnect that counts the attempt but arms no timer.
ScheduleReconnectNoTimer(d, k) ==
    IF running /\ ledger[d].present /\ k > 0
    THEN /\ ledger' = [ledger EXCEPT ![d].attempt = @ + k]
         /\ UNCHANGED retryTimers
    ELSE UNCHANGED <<ledger, retryTimers>>

\* scheduleReconnect(deviceId), k times in one dispatch: a no-op unless the
\* transport runs and the ledger has an entry; each call bumps the attempt and
\* overwrites info.timer, leaving an earlier timer live.
ScheduleReconnect(d, k) ==
    IF running /\ ledger[d].present /\ k > 0
    THEN /\ ledger' = [ledger EXCEPT ![d].attempt = @ + k, ![d].timer = TRUE]
         /\ retryTimers' = [retryTimers EXCEPT ![d] = @ + k]
    ELSE UNCHANGED <<ledger, retryTimers>>

\* Mutant: connect() that cancels the old reconnect entry but registers none.
ConnectUntracked(d, caller, lt) ==
    /\ connects < MaxConnects
    /\ connects' = connects + 1
    /\ row' = [row EXCEPT ![d] = "connecting"]
    /\ retryTimers' = [retryTimers EXCEPT ![d] = lt - (IF ledger[d].timer THEN 1 ELSE 0)]
    /\ ledger' = [ledger EXCEPT ![d] = NoLedger]
    /\ pending' = [pending EXCEPT ![d][<<caller, "live">>] = @ + 1]
    /\ idx' = [idx EXCEPT ![d] = "dial"]
    /\ cmds' = Append(cmds, Cmd("dial", d))
    /\ UNCHANGED <<running, hb, intervals, mapped, orphans, dials, evs, faults, restarts, inc, peer>>

\* connect(deviceId) past its early returns: the placeholder row, the index,
\* cancelReconnect(deviceId), a fresh ledger entry with attempt 0, the
\* promise with its 10 s timeout, and sidecar.dial().  lt is the number of
\* live reconnect timers the caller leaves.
Connect(d, caller, lt) ==
    /\ connects < MaxConnects
    /\ connects' = connects + 1
    /\ row' = [row EXCEPT ![d] = "connecting"]
    /\ retryTimers' = [retryTimers EXCEPT ![d] = lt - (IF ledger[d].timer THEN 1 ELSE 0)]
    /\ ledger' = [ledger EXCEPT ![d] = [present |-> TRUE, attempt |-> 0, timer |-> FALSE]]
    /\ pending' = [pending EXCEPT ![d][<<caller, "live">>] = @ + 1]
    /\ idx' = [idx EXCEPT ![d] = "dial"]
    /\ cmds' = Append(cmds, Cmd("dial", d))
    /\ UNCHANGED <<running, hb, intervals, mapped, orphans, dials, evs, faults, restarts, inc, peer>>

-----------------------------------------------------------------------------
(* Node side.                                                              *)

\* A call of connect(d) from outside the transport while
\* getConnectionByDeviceId(d) finds no connected row: handleTailnetPeers
\* after discoverDevices(), which first records d as online
\* (addDiscoveredPeer), or connectToDevice().
AppConnect(d) ==
    /\ running
    /\ ~ConnectedByIndex(d)
    /\ DiscoveryOnly => ~ledger[d].present /\ row[d] = "none" /\ Quiet
    /\ status' = [status EXCEPT ![d] = "online"]
    /\ Connect(d, "app", retryTimers[d])

\* A live reconnect timer fires: it returns if the transport stopped; else it
\* nulls info.timer on the ledger entry it was scheduled on (cur: the current
\* entry, not one connect() has since replaced) and calls connect(), which
\* returns the row getConnectionByDeviceId(d) finds if it is connected.
RetryFire(d) ==
    /\ retryTimers[d] > 0
    /\ IpcQuiet
    /\ dials[d].fail = 0   \* a dial the sidecar abandons reports at its own 10 s deadline
    /\ \E cur \in BOOLEAN :
          /\ cur => ledger[d].present
          /\ ~cur => retryTimers[d] > (IF ledger[d].timer THEN 1 ELSE 0)
          /\ \/ /\ ~running \/ ConnectedByIndex(d)
                /\ retryTimers' = [retryTimers EXCEPT ![d] = @ - 1]
                /\ ledger' = IF running /\ cur THEN [ledger EXCEPT ![d].timer = FALSE] ELSE ledger
                /\ UNCHANGED <<running, row, hb, intervals, pending, connects, side, faults, restarts, index, peer>>
             \/ /\ running /\ ~ConnectedByIndex(d)
                /\ UNCHANGED status
                /\ Connect(d, "retry", retryTimers[d] - 1 + (IF cur /\ ledger[d].timer THEN 1 ELSE 0))

\* The 10 s timeout of a pending connect() promise: cleanup(), then
\* connections.delete and deviceToConnection.delete by id -- whichever row
\* holds `dial:${d}` now, with no stopHeartbeat and no 'disconnected' -- and
\* the rejection, which a reconnect timer's catch turns into scheduleReconnect.
ConnectTimeout(d, k) ==
    /\ pending[d][k] > 0
    /\ IpcQuiet
    /\ k[2] = "stale" \/ DialRace \/ dials[d].ok = 0
    /\ pending' = [pending EXCEPT ![d][k] = @ - 1]
    /\ row' = [row EXCEPT ![d] = "none"]
    /\ hb' = [hb EXCEPT ![d] = FALSE]
    /\ idx' = [idx EXCEPT ![d] = "none"]
    /\ ScheduleReconnect(d, IF k[1] = "retry" THEN 1 ELSE 0)
    /\ UNCHANGED <<running, intervals, connects, side, faults, restarts, inc, status, peer>>

\* heartbeatTick() of a live interval finding the row connected and silent
\* for over 5 s: stopHeartbeat(), then handleHeartbeatTimeout(): dialClose,
\* the row and d's index entry removed, 'disconnected' emitted,
\* scheduleReconnect(d).
HeartbeatTimeout(d) ==
    /\ intervals[d] > 0
    /\ row[d] = "connected"
    /\ IpcQuiet
    /\ faults < MaxFaults
    /\ faults' = faults + 1
    /\ intervals' = [intervals EXCEPT ![d] = @ - (IF hb[d] THEN 1 ELSE 0)]
    /\ hb' = [hb EXCEPT ![d] = FALSE]
    /\ row' = [row EXCEPT ![d] = "none"]
    /\ idx' = [idx EXCEPT ![d] = "none"]
    /\ cmds' = Append(cmds, Cmd("close", d))
    /\ ScheduleReconnect(d, 1)
    /\ UNCHANGED <<running, pending, connects, mapped, orphans, dials, evs, restarts, inc, peer>>
    /\ DisconnectedListener

\* handleDialConnected(d): an existing row becomes connected, gets a fresh
\* heartbeat interval (the handle is overwritten, not cleared) and its ledger
\* attempt reset; then every pending connect() promise's onConnected runs,
\* marking its own connection object and resolving.
HandleDialConnected(d) ==
    /\ pending' = [pending EXCEPT ![d] = NoPending]
    /\ IF row[d] = "none"
       THEN UNCHANGED <<row, hb, intervals, ledger>>
       ELSE /\ row' = [row EXCEPT ![d] = "connected"]
            /\ hb' = [hb EXCEPT ![d] = TRUE]
            /\ intervals' = [intervals EXCEPT ![d] = @ + 1]
            /\ ledger' = IF ledger[d].present THEN [ledger EXCEPT ![d].attempt = 0] ELSE ledger
    /\ UNCHANGED <<retryTimers, index>>

\* handleDialError(d) only reports; each pending promise's onError deletes
\* the row `dial:${d}` and d's index entry, and rejects; reconnect timers'
\* catches reschedule.
HandleDialError(d) ==
    /\ pending' = [pending EXCEPT ![d] = NoPending]
    /\ row' = IF Pending(d) > 0 THEN [row EXCEPT ![d] = "none"] ELSE row
    /\ hb' = IF Pending(d) > 0 THEN [hb EXCEPT ![d] = FALSE] ELSE hb
    /\ idx' = IF Pending(d) > 0 THEN [idx EXCEPT ![d] = "none"] ELSE idx
    /\ ScheduleReconnect(d, PendingRetries(d))
    /\ UNCHANGED <<intervals, inc, status>>

\* Mutant: handleDialDisconnect that marks the row disconnected but keeps it.
HandleDialDisconnectKeepRow(d) ==
    /\ UNCHANGED pending
    /\ IF row[d] = "none"
       THEN UNCHANGED <<row, hb, intervals, ledger, retryTimers, index>>
       ELSE /\ intervals' = [intervals EXCEPT ![d] = @ - (IF hb[d] THEN 1 ELSE 0)]
            /\ hb' = [hb EXCEPT ![d] = FALSE]
            /\ row' = [row EXCEPT ![d] = "connecting"]
            /\ idx' = [idx EXCEPT ![d] = "none"]
            /\ ScheduleReconnect(d, 1)
            /\ UNCHANGED inc
            /\ DisconnectedListener

\* handleDialDisconnect(d): if a row `dial:${d}` exists -- whichever attempt
\* it belongs to -- stopHeartbeat, delete d's index entry -- whichever row it
\* names -- and the row, emit 'disconnected', scheduleReconnect(d).
HandleDialDisconnect(d) ==
    /\ UNCHANGED pending
    /\ IF row[d] = "none"
       THEN UNCHANGED <<row, hb, intervals, ledger, retryTimers, index>>
       ELSE /\ intervals' = [intervals EXCEPT ![d] = @ - (IF hb[d] THEN 1 ELSE 0)]
            /\ hb' = [hb EXCEPT ![d] = FALSE]
            /\ row' = [row EXCEPT ![d] = "none"]
            /\ idx' = [idx EXCEPT ![d] = "none"]
            /\ ScheduleReconnect(d, 1)
            /\ UNCHANGED inc
            /\ DisconnectedListener

-----------------------------------------------------------------------------
(* Incoming rows and identification.  The transport's sidecar listeners,   *)
(* and MeshNode's listeners on the transport, are registered while it runs;*)
(* the sidecar is down while it does not, so these events reach a running  *)
(* transport.                                                              *)

\* setConnectionDeviceId(conn, d), which handleIncomingData calls for a
\* device:announce from d that arrived on row conn: a no-op if the row is
\* gone; otherwise the index entry of the row's deviceId so far is deleted,
\* the row's deviceId becomes d and d is indexed to the row.
SetConnectionDeviceId(kind, d) ==
    IF (kind = "dial" /\ row[d] # "none") \/ (kind = "inc" /\ inc[d] # "none")
    THEN /\ idx' = [idx EXCEPT ![d] = kind]
         /\ inc' = IF kind = "inc" THEN [inc EXCEPT ![d] = "ident"] ELSE inc
    ELSE UNCHANGED <<idx, inc>>

\* Mutant: the announce identifies the row but leaves the device's status.
HandleAnnounceNoStatus(kind, d) ==
    /\ SetConnectionDeviceId(kind, d)
    /\ UNCHANGED status

\* handleWsMessage or handleDialMessage with d's device:announce: not a
\* heartbeat, so 'data' is emitted and handleIncomingData identifies the row,
\* then handleMeshMessageInternal passes the announce to
\* DeviceManager.handleDeviceAnnounce, which stores d's record as the peer
\* sent it, online.
HandleAnnounce(kind, d) ==
    /\ SetConnectionDeviceId(kind, d)
    /\ status' = [status EXCEPT ![d] = "online"]

\* handleWsConnect: a row incoming:<conn> with deviceId null, its heartbeat
\* started, 'connected' emitted (MeshNode answers with its own announce).
HandleWsConnect(d) ==
    /\ inc' = [inc EXCEPT ![d] = "anon"]
    /\ UNCHANGED <<idx, status>>

\* handleWsDisconnect: if the row exists, stopHeartbeat, delete the index
\* entry of its deviceId -- whichever row that entry names -- and the row,
\* and emit 'disconnected'.
HandleWsDisconnect(d) ==
    IF inc[d] = "none" THEN UNCHANGED index
    ELSE /\ inc' = [inc EXCEPT ![d] = "none"]
         /\ idx' = IF inc[d] = "ident" THEN [idx EXCEPT ![d] = "none"] ELSE idx
         /\ DisconnectedListener

\* The sidecar client dispatches the oldest event on stdout.  The transport's
\* own handlers are registered only while it runs; the closures of pending
\* connect() promises stay registered on the sidecar client regardless.
DeliverEvent ==
    /\ evs # <<>>
    /\ evs' = Tail(evs)
    /\ LET e == Head(evs) IN
       CASE e.ev = "connected" ->
              IF running THEN HandleDialConnected(e.dev)
              ELSE /\ pending' = [pending EXCEPT ![e.dev] = NoPending]
                   /\ UNCHANGED <<row, hb, intervals, ledger, retryTimers, index>>
         [] e.ev = "error" -> HandleDialError(e.dev)
         [] e.ev = "disconnect" ->
              IF running THEN HandleDialDisconnect(e.dev)
              ELSE UNCHANGED <<row, hb, intervals, ledger, retryTimers, pending, index>>
         [] e.ev = "dialMessage" ->
              UNCHANGED <<row, hb, intervals, ledger, retryTimers, pending>> /\ HandleAnnounce("dial", e.dev)
         [] e.ev = "wsConnect" ->
              UNCHANGED <<row, hb, intervals, ledger, retryTimers, pending>> /\ HandleWsConnect(e.dev)
         [] e.ev = "wsMessage" ->
              UNCHANGED <<row, hb, intervals, ledger, retryTimers, pending>> /\ HandleAnnounce("inc", e.dev)
         [] e.ev = "wsDisconnect" ->
              UNCHANGED <<row, hb, intervals, ledger, retryTimers, pending>> /\ HandleWsDisconnect(e.dev)
    /\ UNCHANGED <<running, connects, mapped, orphans, dials, cmds, faults, restarts, peer>>

-----------------------------------------------------------------------------
(* Sidecar side.                                                           *)

\* handleDial: the Dial goroutine returns an error without any event when
\* Dialer.connections already holds d; otherwise it dials, and the outcome
\* (success, or a dialError after at most 10 s) is fixed now.
SidecarDial(d) ==
    \/ /\ mapped[d]
       /\ UNCHANGED dials
       /\ UNCHANGED faults
    \/ /\ ~mapped[d]
       /\ \E out \in {"ok", "fail"} :
             /\ out = "fail" => faults < MaxFaults
             /\ faults' = faults + (IF out = "fail" THEN 1 ELSE 0)
             /\ dials' = [dials EXCEPT ![d][out] = @ + 1]

\* handleDialClose: Dialer.Close(d) = closeConnection(d), which closes the
\* mapped socket and sends dialDisconnect, or does nothing.
SidecarClose(d) ==
    /\ IF mapped[d]
       THEN /\ mapped' = [mapped EXCEPT ![d] = FALSE]
            /\ evs' = Append(evs, Ev("disconnect", d))
       ELSE UNCHANGED <<mapped, evs>>
    /\ UNCHANGED faults

\* The sidecar reads the oldest command on stdin.
SidecarCommand ==
    /\ cmds # <<>>
    /\ cmds' = Tail(cmds)
    /\ LET c == Head(cmds) IN
       IF c.op = "dial"
       THEN SidecarDial(c.dev) /\ UNCHANGED <<mapped, evs>>
       ELSE SidecarClose(c.dev) /\ UNCHANGED dials
    /\ UNCHANGED <<node, orphans, restarts, index, peer>>

\* Dialer.Dial finishes: on success it stores the socket in
\* Dialer.connections[d], overwriting (not closing) any socket there, and
\* sends dialConnected; on failure it sends dialError.
DialDone(d, out) ==
    /\ dials[d][out] > 0
    /\ dials' = [dials EXCEPT ![d][out] = @ - 1]
    /\ IF out = "ok"
       THEN /\ orphans' = [orphans EXCEPT ![d] = @ + (IF mapped[d] THEN 1 ELSE 0)]
            /\ mapped' = [mapped EXCEPT ![d] = TRUE]
            /\ annDial' = [annDial EXCEPT ![d] = FALSE]
            /\ evs' = Append(evs, Ev("connected", d))
       ELSE /\ evs' = Append(evs, Ev("error", d))
            /\ UNCHANGED <<mapped, orphans, annDial>>
    /\ UNCHANGED <<node, cmds, faults, restarts, index, goIn, annIn, accepts, lost>>

\* A socket to d is closed by the network or the peer: its readPump exits and
\* its deferred closeConnection(d) closes whatever socket Dialer.connections
\* holds for d, sending dialDisconnect if there was one.
SocketDrop(d) ==
    /\ faults < MaxFaults
    /\ faults' = faults + 1
    /\ \/ /\ mapped[d]
          /\ UNCHANGED orphans
       \/ /\ orphans[d] > 0
          /\ orphans' = [orphans EXCEPT ![d] = @ - 1]
    /\ mapped' = [mapped EXCEPT ![d] = FALSE]
    /\ evs' = IF mapped[d] THEN Append(evs, Ev("disconnect", d)) ELSE evs
    /\ UNCHANGED <<node, dials, cmds, restarts, index, peer>>

\* A peer's dial reaches this node's server: HandleWebSocket upgrades it,
\* stores it in ConnectionManager.connections under its remote address and
\* sends wsConnect before its read pump starts.
PeerDial(d) ==
    /\ running
    /\ ~goIn[d]
    /\ accepts < MaxAccepts
    /\ accepts' = accepts + 1
    /\ goIn' = [goIn EXCEPT ![d] = TRUE]
    /\ annIn' = [annIn EXCEPT ![d] = FALSE]
    /\ lost' = [lost EXCEPT ![d] = FALSE]
    /\ evs' = Append(evs, Ev("wsConnect", d))
    /\ UNCHANGED <<node, mapped, orphans, dials, cmds, faults, restarts, index, annDial>>

\* The peer's reconnect timer dials this node again after its dial to it was
\* closed (the peer's scheduleReconnect).
PeerRedial(d) == lost[d] /\ PeerDial(d)

\* The peer's transport emits 'connected' for a connection with this node and
\* its MeshNode sends device:announce on it: on the socket the peer dialled,
\* which ConnectionManager.readPump forwards as wsMessage, or on the socket
\* this node dialled, which Dialer.readPump (started after dialConnected was
\* sent) forwards as dialMessage.
PeerAnnounce(d) ==
    /\ \/ /\ goIn[d] /\ ~annIn[d]
          /\ annIn' = [annIn EXCEPT ![d] = TRUE]
          /\ evs' = Append(evs, Ev("wsMessage", d))
          /\ UNCHANGED annDial
       \/ /\ mapped[d] /\ ~annDial[d]
          /\ annDial' = [annDial EXCEPT ![d] = TRUE]
          /\ evs' = Append(evs, Ev("dialMessage", d))
          /\ UNCHANGED annIn
    /\ UNCHANGED <<node, mapped, orphans, dials, cmds, faults, restarts, index, goIn, accepts, lost>>

\* The peer's socket to this node closes: ConnectionManager.readPump exits
\* and its deferred closeConnection removes it and sends wsDisconnect.
PeerClose(d) ==
    /\ goIn[d]
    /\ faults < MaxFaults
    /\ faults' = faults + 1
    /\ goIn' = [goIn EXCEPT ![d] = FALSE]
    /\ lost' = [lost EXCEPT ![d] = TRUE]
    /\ evs' = Append(evs, Ev("wsDisconnect", d))
    /\ UNCHANGED <<node, mapped, orphans, dials, cmds, restarts, index, annIn, annDial, accepts>>

\* This node no longer has a row for the peer's socket, so it answers none of
\* the peer's pings on it; the peer's heartbeat times out and closes its dial
\* (dialClose), and ConnectionManager.readPump sends wsDisconnect.
PeerHeartbeatTimeout(d) ==
    /\ goIn[d] /\ inc[d] = "none"
    /\ IpcQuiet
    /\ goIn' = [goIn EXCEPT ![d] = FALSE]
    /\ lost' = [lost EXCEPT ![d] = TRUE]
    /\ evs' = Append(evs, Ev("wsDisconnect", d))
    /\ UNCHANGED <<node, mapped, orphans, dials, cmds, faults, restarts, index, annIn, annDial, accepts>>

\* heartbeatTick() of an incoming row silent for over the heartbeat timeout:
\* stopHeartbeat(), then handleHeartbeatTimeout() removes the row and the
\* index entry of its deviceId and emits 'disconnected'.  An incoming row
\* gets no dialClose and no reconnect: the sidecar keeps the socket.
IncHeartbeatTimeout(d) ==
    /\ inc[d] # "none"
    /\ IpcQuiet
    /\ faults < MaxFaults
    /\ faults' = faults + 1
    /\ inc' = [inc EXCEPT ![d] = "none"]
    /\ idx' = IF inc[d] = "ident" THEN [idx EXCEPT ![d] = "none"] ELSE idx
    /\ UNCHANGED <<node, side, restarts, peer>>
    /\ DisconnectedListener

-----------------------------------------------------------------------------
(* Lifecycle.  MeshNode.stop() runs transport.stop() and then sidecar.stop(), *)
(* which ends the sidecar process with every socket and pipe it holds.      *)

\* transport.stop(): cancelAllReconnects, then for each row stopHeartbeat,
\* dialClose and delete, and the index cleared; MeshNode then clears the
\* DeviceManager; the sidecar's exit drops its sockets, dials and both
\* pipes.  Pending connect() promises keep their timeouts and listeners.
Stop ==
    /\ running
    /\ StopWhenSettled => Quiet /\ \A d \in Dev : Pending(d) = 0
    /\ restarts < MaxRestarts
    /\ restarts' = restarts + 1
    /\ running' = FALSE
    /\ retryTimers' = [d \in Dev |-> retryTimers[d] - (IF ledger[d].timer THEN 1 ELSE 0)]
    /\ ledger' = [d \in Dev |-> NoLedger]
    /\ intervals' = [d \in Dev |-> intervals[d] - (IF hb[d] THEN 1 ELSE 0)]
    /\ hb' = [d \in Dev |-> FALSE]
    /\ row' = [d \in Dev |-> "none"]
    /\ mapped' = [d \in Dev |-> FALSE]
    /\ orphans' = [d \in Dev |-> 0]
    /\ dials' = [d \in Dev |-> [ok |-> 0, fail |-> 0]]
    /\ cmds' = <<>>
    /\ evs' = <<>>
    /\ pending' = [d \in Dev |-> [k \in Kinds |->
                      IF k[2] = "stale" THEN pending[d][k] + pending[d][<<k[1], "live">>] ELSE 0]]
    /\ inc' = [d \in Dev |-> "none"]
    /\ idx' = [d \in Dev |-> "none"]
    /\ status' = [d \in Dev |-> "unknown"]
    /\ goIn' = [d \in Dev |-> FALSE]
    /\ annIn' = [d \in Dev |-> FALSE]
    /\ annDial' = [d \in Dev |-> FALSE]
    /\ lost' = [d \in Dev |-> FALSE]
    /\ UNCHANGED <<connects, faults, accepts>>

\* MeshNode.start(): a fresh sidecar process, then transport.start().
Start ==
    /\ ~running
    /\ running' = TRUE
    /\ UNCHANGED <<row, hb, intervals, ledger, retryTimers, pending, connects, side, faults, restarts, index, peer>>

-----------------------------------------------------------------------------
Init ==
    /\ running = TRUE
    /\ row = [d \in Dev |-> "none"]
    /\ hb = [d \in Dev |-> FALSE]
    /\ intervals = [d \in Dev |-> 0]
    /\ ledger = [d \in Dev |-> NoLedger]
    /\ retryTimers = [d \in Dev |-> 0]
    /\ pending = [d \in Dev |-> NoPending]
    /\ connects = 0
    /\ mapped = [d \in Dev |-> FALSE]
    /\ orphans = [d \in Dev |-> 0]
    /\ dials = [d \in Dev |-> [ok |-> 0, fail |-> 0]]
    /\ cmds = <<>>
    /\ evs = <<>>
    /\ faults = 0
    /\ restarts = 0
    /\ inc = [d \in Dev |-> "none"]
    /\ idx = [d \in Dev |-> "none"]
    /\ status = [d \in Dev |-> "unknown"]
    /\ goIn = [d \in Dev |-> FALSE]
    /\ annIn = [d \in Dev |-> FALSE]
    /\ annDial = [d \in Dev |-> FALSE]
    /\ accepts = 0
    /\ lost = [d \in Dev |-> FALSE]

\* Steps the code and the sidecar take on their own.
SystemNext ==
    \/ DeliverEvent
    \/ SidecarCommand
    \/ \E d \in Dev :
          \/ RetryFire(d)
          \/ \E k \in Kinds : ConnectTimeout(d, k)
          \/ \E out \in {"ok", "fail"} : DialDone(d, out)

\* Steps of the application and of the network.
EnvNext ==
    \/ Stop \/ Start
    \/ \E d \in Dev : AppConnect(d) \/ HeartbeatTimeout(d) \/ SocketDrop(d)
    \/ \E d \in Dev : PeerDial(d) \/ PeerAnnounce(d) \/ PeerClose(d) \/ IncHeartbeatTimeout(d)
                     \/ PeerHeartbeatTimeout(d)

Next == SystemNext \/ EnvNext

\* Node's event loop drains its timers and the pipe; the sidecar's goroutines
\* all run; a dial always ends.  The peer runs the same code: it announces
\* itself on every connection it sees open, closes a dial that gets no
\* answers to its pings, and dials this node again once its dial to it was
\* closed (its reconnect timer).  Its first dial (discovery) is not assured.
Fairness ==
    /\ WF_vars(DeliverEvent)
    /\ WF_vars(SidecarCommand)
    /\ \A d \in Dev :
          /\ WF_vars(RetryFire(d))
          /\ \A k \in Kinds : WF_vars(ConnectTimeout(d, k))
          /\ \A out \in {"ok", "fail"} : WF_vars(DialDone(d, out))
          /\ WF_vars(PeerRedial(d)) /\ WF_vars(PeerAnnounce(d)) /\ WF_vars(PeerHeartbeatTimeout(d))

Spec == Init /\ [][Next]_vars /\ Fairness

-----------------------------------------------------------------------------
(* Properties.                                                             *)

TypeOK ==
    /\ running \in BOOLEAN
    /\ row \in [Dev -> {"none", "connecting", "connected"}]
    /\ hb \in [Dev -> BOOLEAN]
    /\ intervals \in [Dev -> Nat]
    /\ ledger \in [Dev -> [present : BOOLEAN, attempt : Nat, timer : BOOLEAN]]
    /\ retryTimers \in [Dev -> Nat]
    /\ pending \in [Dev -> [Kinds -> Nat]]
    /\ connects \in 0..MaxConnects
    /\ mapped \in [Dev -> BOOLEAN]
    /\ orphans \in [Dev -> Nat]
    /\ dials \in [Dev -> [{"ok", "fail"} -> Nat]]
    /\ cmds \in Seq([op : {"dial", "close"}, dev : Dev])
    /\ evs \in Seq([ev : {"connected", "error", "disconnect", "dialMessage",
                           "wsConnect", "wsMessage", "wsDisconnect"}, dev : Dev])
    /\ faults \in 0..MaxFaults
    /\ restarts \in 0..MaxRestarts
    /\ inc \in [Dev -> {"none", "anon", "ident"}]
    /\ idx \in [Dev -> {"none", "dial", "inc"}]
    /\ status \in [Dev -> {"unknown", "online", "offline"}]
    /\ goIn \in [Dev -> BOOLEAN]
    /\ annIn \in [Dev -> BOOLEAN]
    /\ annDial \in [Dev -> BOOLEAN]
    /\ accepts \in 0..MaxAccepts
    /\ lost \in [Dev -> BOOLEAN]
    /\ \A d \in Dev : hb[d] => row[d] = "connected" /\ intervals[d] > 0
    /\ \A d \in Dev : ledger[d].timer => retryTimers[d] > 0
    /\ \A d \in Dev : row[d] # "none" => ledger[d].present

\* Once stdin and stdout are drained and no dial is in flight, the node's row
\* dial:<d> is connected exactly when the sidecar holds a socket for d, and a
\* row still connecting has a connect() waiting on it: the transport's
\* connection map and the sidecar's Dialer.connections agree
\* (handleDialConnected, the connect() timeout and error paths, Dialer.Dial).
ViewsAgree ==
    Quiet => \A d \in Dev :
                /\ mapped[d] <=> row[d] = "connected"
                /\ row[d] = "connecting" => Pending(d) > 0

\* After a connection to d was lost and a reconnect scheduled (the attempt
\* counter left 0), getConnectionByDeviceId(d) finds a connected row again,
\* unless the node stopped or the bounds on connect() calls and on accepted
\* connections ran out (scheduleReconnect, the reconnect timer, connect(),
\* which returns a connected row it finds, and the peer's reconnection).
ReconnectsEventually ==
    \A d \in Dev :
        ledger[d].attempt > 0 ~>
            (ConnectedByIndex(d) \/ ~running \/ connects = MaxConnects \/ accepts = MaxAccepts)

\* When the pipes are drained and the peers have announced themselves on
\* every open socket, a device getConnectionByDeviceId reaches over a
\* connected row is online in the DeviceManager: the 'disconnected' listener
\* marks a device offline only while no row is indexed for it, and the
\* announce that indexes a row again (setConnectionDeviceId) also records
\* the device online (handleIncomingData, handleDeviceAnnounce).
ConnectedDeviceOnline ==
    (Quiet /\ PeersAnnounced) =>
        \A d \in Dev : ConnectedByIndex(d) => status[d] = "online"

\* When the pipes are drained and the peers have announced themselves, a peer
\* this node holds an identified connection to -- its own connected dial row
\* or an incoming row the peer announced on -- is found by
\* getConnectionByDeviceId and is online: closing one of the two
\* connections two devices hold to each other does not hide the other
\* (handleWsDisconnect, handleDialDisconnect, the connect() error paths).
LiveConnectionIndexed ==
    (Quiet /\ PeersAnnounced) =>
        \A d \in Dev : (row[d] = "connected" \/ inc[d] = "ident")
                          => ConnectedByIndex(d) /\ status[d] = "online"

=============================================================================
