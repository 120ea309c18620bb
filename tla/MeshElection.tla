---------------------------- MODULE MeshElection ----------------------------
(***************************************************************************)
(* Primary election of the Truffle mesh, composed with the parts of the    *)
(* mesh node that drive it.                                                *)
(*                                                                         *)
(*   PrimaryElection   src/packages/mesh/src/primary-election.ts           *)
(*   MeshNode          src/packages/mesh/src/mesh-node.ts (lifecycle,      *)
(*                     discovery, transport listeners, control messages)   *)
(*                                                                         *)
(* Every node runs one PrimaryElection.  Nodes exchange the control        *)
(* messages election:start, election:candidate, election:result,           *)
(* device:list and device:goodbye over WebSocket links; a link is a pair   *)
(* of FIFO channels, since each direction is one ordered TCP stream.       *)
(* Timers (election decide, primary-loss grace, discovery timeout and the  *)
(* 1 s start-up discovery) are booleans that an action of their own fires. *)
(* A node id is a number: the code breaks uptime ties with localeCompare   *)
(* of the id, which here is <.  Uptime is modelled by the start stamp: a   *)
(* node that started earlier has the larger uptime at any instant.         *)
(***************************************************************************)
EXTENDS Integers, Sequences, FiniteSets, SequencesExt

CONSTANTS
    N,                  \* number of devices
    Designated,         \* devices configured with preferPrimary = true
    MaxStarts,          \* bound on start() calls per device
    Timely,             \* TRUE: timers never fire before the messages they wait for
    AccuratePeerView,   \* TRUE: getTailnetPeers reports exactly the devices that are up
    QuietFaults,        \* TRUE: stop() and link failures happen only while nothing is pending
    MaxLinkFailures,    \* bound on connections that fail while both ends keep running
    FullMeshFirst,      \* TRUE: no round begins before all running devices are connected
    SettledJoins        \* TRUE: start() is called only while nothing is pending

Node == 1..N
Null == 0               \* primaryId = null
Stamp == 1..(N * MaxStarts)

Phases == {"idle", "waiting", "collecting", "decided"}
MsgTypes == {"start", "candidate", "result", "list", "goodbye", "announce"}
\* BaseDevice.role: undefined ("none"), "primary" or "secondary".  A row of
\* the DeviceManager table is "absent" or holds the row's role.
Roles == {"none", "primary", "secondary"}
\* An election:candidate carries the sender's uptime (as its start stamp), a
\* device:announce the sender's local device (its role), a device:list the
\* ids of the devices it lists; every other message is identified by its
\* type and its sender (the channel).
Msg == [type : MsgTypes, at : 0..(N * MaxStarts), role : Roles, devs : SUBSET Node]
M(t) == [type |-> t, at |-> 0, role |-> "none", devs |-> {}]

VARIABLES
    nodeState,      \* "stopped", "running", or "stopping" (inside stop(), awaiting sidecar.stop())
    starts,         \* number of start() calls so far
    startedAt,      \* config.startedAt of the election
    clock,          \* last start stamp handed out
    phase,          \* state.phase
    primaryId,      \* state.primaryId
    candidates,     \* state.candidates: a set of <<deviceId, startedAt>>
    decideArmed,    \* state.timeoutHandle is a pending timer
    graceArmed,     \* state.gracePeriodHandle is a pending timer
    discoveryArmed, \* the setTimeout(discoveryTimeoutMs) of handleTailnetPeers is pending
    warmupArmed,    \* the setTimeout(discoverDevices, 1000) of start() is pending
    link,           \* set of {i, j}: an open connection between i and j
    chan,           \* chan[<<i, j>>]: messages sent by i, not yet handled by j
    closing,        \* <<j, i>>: j has yet to handle the close of its link to i
    linkFailures,   \* connections failed so far
    ident,          \* <<i, d>>: i's transport maps device d to an open connection (deviceToConnection)
    rows,           \* rows[i][d]: DeviceManager.devices of i: "absent", or d's row's role
    localRole,      \* DeviceManager.localDevice.role of i
    dmPrimary       \* DeviceManager.primaryId of i (getPrimaryDevice)

election == <<phase, primaryId, candidates, decideArmed, graceArmed>>
lifecycle == <<nodeState, starts, startedAt, clock, warmupArmed, discoveryArmed>>
net == <<link, chan, closing, linkFailures, ident>>
devices == <<rows, localRole, dmPrimary>>
vars == <<election, lifecycle, net, devices>>

Pairs == {p \in Node \X Node : p[1] # p[2]}
Linked(i, j) == {i, j} \in link
IsPrimary(i) == primaryId[i] = i

\* Variant of RanksBefore with the uptime comparison turned round.
RanksBeforeYoungestFirst(a, b) ==
    \/ a[1] \in Designated /\ b[1] \notin Designated
    \/ /\ (a[1] \in Designated) = (b[1] \in Designated)
       /\ \/ a[2] > b[2]
          \/ a[2] = b[2] /\ a[1] < b[1]

(***************************************************************************)
(* selectWinner: sort the candidates by userDesignated first, then by      *)
(* larger uptime (earlier start), then by id, and take the first.          *)
(***************************************************************************)
RanksBefore(a, b) ==
    \/ a[1] \in Designated /\ b[1] \notin Designated
    \/ /\ (a[1] \in Designated) = (b[1] \in Designated)
       /\ \/ a[2] < b[2]
          \/ a[2] = b[2] /\ a[1] < b[1]

SelectWinner(cands) == SetToSortSeq(cands, RanksBefore)[1]

\* candidates.set(deviceId, payload): one entry per device id
SetCandidate(cands, id, at) == {c \in cands : c[1] # id} \cup {<<id, at>>}

(***************************************************************************)
(* broadcastMeshMessage: append ms to every open link of i.  c is the      *)
(* channel function the message is appended to.                            *)
(***************************************************************************)
Bcast(c, i, ms) ==
    [p \in Pairs |-> IF p[1] = i /\ Linked(i, p[2]) THEN c[p] \o ms ELSE c[p]]

OwnCandidate(i) == {<<i, startedAt[i]>>}
CandidateMsg(i) == [type |-> "candidate", at |-> startedAt[i], role |-> "none", devs |-> {}]
\* The devices i's DeviceManager holds a row for (getDevices()).
Present(i) == {d \in Node : rows[i][d] # "absent"}
\* device:announce with the local device, whose role is r.
Announce(r) == [type |-> "announce", at |-> 0, role |-> r, devs |-> {}]
\* The role setDeviceRole / handleDeviceList give d's row when w is primary.
RoleFor(d, w) == IF d = w THEN "primary" ELSE "secondary"
\* device:list of i: its local device and every row of its table.
ListMsg(i) == [type |-> "list", at |-> 0, role |-> "none", devs |-> {i} \cup Present(i)]

Quiet == (\A p \in Pairs : chan[p] = <<>>) /\ closing = {}
Running == {i \in Node : nodeState[i] = "running"}
FullMesh == \A i, j \in Running : i # j => Linked(i, j)

\* Nothing is pending: no timer, no message, no close, every pair of running
\* devices connected, nobody inside stop().
Settled ==
    /\ \A i \in Node : ~(decideArmed[i] \/ graceArmed[i] \/ discoveryArmed[i] \/ warmupArmed[i])
    /\ Quiet
    /\ \A i \in Node : nodeState[i] # "stopping"
    /\ FullMesh

-----------------------------------------------------------------------------
(***************************************************************************)
(* PrimaryElection operations, as state transformers on node i.  c is the  *)
(* channel function after the message being handled, if any, is removed.  *)
(***************************************************************************)

\* startElection(), reached from the grace timer or handleNoPrimaryOnStartup.
StartElection(i, c) ==
    IF phase[i] = "collecting"
    THEN UNCHANGED <<phase, candidates, decideArmed>> /\ chan' = c
    ELSE /\ phase' = [phase EXCEPT ![i] = "collecting"]
         /\ candidates' = [candidates EXCEPT ![i] = OwnCandidate(i)]
         /\ decideArmed' = [decideArmed EXCEPT ![i] = TRUE]
         /\ chan' = Bcast(c, i, <<M("start"), CandidateMsg(i)>>)

\* Variant of handlePrimaryLost that arms no grace timer.
PrimaryLostNoGrace(i) ==
    /\ primaryId' = [primaryId EXCEPT ![i] = Null]
    /\ phase' = [phase EXCEPT ![i] = "waiting"]
    /\ UNCHANGED graceArmed

\* handlePrimaryLost(): primaryId := null, restart the grace timer.
PrimaryLost(i) ==
    /\ primaryId' = [primaryId EXCEPT ![i] = Null]
    /\ phase' = [phase EXCEPT ![i] = "waiting"]
    /\ graceArmed' = [graceArmed EXCEPT ![i] = TRUE]

(***************************************************************************)
(* markDeviceOffline(d) for every d of D, each a device with a row at i:   *)
(* the deviceOffline listener hands the election's primary to              *)
(* handlePrimaryLost, and the DeviceManager forgets a primaryId among D.   *)
(***************************************************************************)
MarkDevicesOffline(i, D) ==
    /\ IF primaryId[i] \in D
       THEN PrimaryLost(i)
       ELSE UNCHANGED <<primaryId, phase, graceArmed>>
    /\ dmPrimary' = [dmPrimary EXCEPT ![i] = IF @ \in D THEN Null ELSE @]
    /\ UNCHANGED <<rows, localRole>>

\* broadcastDeviceList(): the local device's view of the mesh as device:list.
BroadcastDeviceList(c, i) == Bcast(c, i, <<ListMsg(i)>>)

(***************************************************************************)
(* MeshNode's primaryElected(w) listener.  setLocalRole: a changed role is *)
(* stored, names the local device primary when it is "primary", and is     *)
(* announced (localDeviceChanged).  setDeviceRole on every row: a row      *)
(* whose role changes to "primary" names its device primary; a row turned  *)
(* "secondary" leaves primaryId alone.  The winner, if local, then sends   *)
(* device:list.  c is the channel function before the listener runs.       *)
(***************************************************************************)
PrimaryElected(c, i, w) ==
    LET r == RoleFor(i, w)
        changed == localRole[i] # r
        c1 == IF changed THEN Bcast(c, i, <<Announce(r)>>) ELSE c
        dm1 == IF changed /\ r = "primary" THEN i ELSE dmPrimary[i]
    IN  /\ localRole' = [localRole EXCEPT ![i] = r]
        /\ dmPrimary' = [dmPrimary EXCEPT ![i] =
                           IF rows[i][w] \notin {"absent", "primary"} THEN w ELSE dm1]
        /\ rows' = [rows EXCEPT ![i] =
                      [d \in Node |-> IF @[d] = "absent" THEN "absent" ELSE RoleFor(d, w)]]
        /\ chan' = IF w = i THEN BroadcastDeviceList(c1, i) ELSE c1

\* becomePrimary(): the election:result broadcast, then primaryElected(self, true).
BecomePrimary(i) ==
    /\ primaryId' = [primaryId EXCEPT ![i] = i]
    /\ phase' = [phase EXCEPT ![i] = "decided"]
    /\ PrimaryElected(Bcast(chan, i, <<M("result")>>), i, i)

-----------------------------------------------------------------------------
(***************************************************************************)
(* Actions                                                                 *)
(***************************************************************************)

\* MeshNode.start(): throws when already running; configures the election
\* with a fresh startedAt.  The election state is not reset here.
Start(i) ==
    /\ nodeState[i] = "stopped"
    /\ starts[i] < MaxStarts
    /\ SettledJoins => Settled
    /\ \E s \in {clock, clock + 1} \cap Stamp :
          /\ clock' = s
          /\ startedAt' = [startedAt EXCEPT ![i] = s]
    /\ nodeState' = [nodeState EXCEPT ![i] = "running"]
    /\ starts' = [starts EXCEPT ![i] = @ + 1]
    /\ warmupArmed' = [warmupArmed EXCEPT ![i] = TRUE]
    /\ UNCHANGED <<election, discoveryArmed, net, devices>>

\* What getOnlineDevices() can be non-empty about after handleTailnetPeers:
\* a device with an open link has announced itself and is online.
PeerViews(i) ==
    LET up == \E j \in Node \ {i} : nodeState[j] # "stopped"
    IN  IF \E j \in Node : Linked(i, j) THEN {TRUE}
        ELSE IF AccuratePeerView THEN {up} ELSE BOOLEAN

\* The tailnet's peers: every device that has joined it (started once),
\* online or not; addDiscoveredPeer gives a new one a row with no role.
TailnetPeers(i) == {j \in Node \ {i} : starts[j] > 0}
AddDiscoveredPeers(i, peers) ==
    rows' = [rows EXCEPT ![i] =
              [d \in Node |-> IF d \in peers /\ @[d] = "absent" THEN "none" ELSE @[d]]]

\* The start-up timer fires discoverDevices(); the tailnetPeers answer is
\* handled by handleTailnetPeers(): every peer gets a row, then the
\* primary-less device either waits for the discovery timeout or, seeing
\* nobody online, takes the primary role (setLocalRole('primary'), whose
\* announce reaches nobody, and election.setPrimary).  Dials it issues are
\* Connect actions.
Discover(i) ==
    /\ warmupArmed[i]
    /\ warmupArmed' = [warmupArmed EXCEPT ![i] = FALSE]
    /\ IF nodeState[i] # "running"
       THEN UNCHANGED <<election, discoveryArmed, devices>>
       ELSE /\ AddDiscoveredPeers(i, TailnetPeers(i))
            /\ \E seen \in PeerViews(i) :
              \/ /\ primaryId[i] = Null /\ seen
                 /\ discoveryArmed' = [discoveryArmed EXCEPT ![i] = TRUE]
                 /\ UNCHANGED <<election, localRole, dmPrimary>>
              \/ /\ primaryId[i] = Null /\ ~seen
                 /\ localRole' = [localRole EXCEPT ![i] = "primary"]
                 /\ dmPrimary' = [dmPrimary EXCEPT ![i] =
                                    IF localRole[i] # "primary" THEN i ELSE @]
                 /\ primaryId' = [primaryId EXCEPT ![i] = i]
                 /\ phase' = [phase EXCEPT ![i] = "idle"]
                 /\ UNCHANGED <<candidates, decideArmed, graceArmed, discoveryArmed>>
              \/ /\ primaryId[i] # Null
                 /\ UNCHANGED <<election, discoveryArmed, localRole, dmPrimary>>
    /\ UNCHANGED <<nodeState, starts, startedAt, clock, net>>

(***************************************************************************)
(* Timely: deliveries take milliseconds and every timer takes seconds, so  *)
(* a timer fires only when nothing is in flight.  The discovery timer      *)
(* fires 6 s after start(), so also never inside an election round (3 s)   *)
(* of another device: a round that began before i started is over, and one *)
(* that began later reached i.                                             *)
(***************************************************************************)
TimerTimely == Timely => Quiet

DiscoveryTimely(i) ==
    /\ FullMeshFirst => FullMesh
    /\ TimerTimely
    /\ Timely => \A j \in Node \ {i} : ~decideArmed[j]

\* The discovery timer is never cleared, not even by stop().
DiscoveryTimeout(i) ==
    /\ discoveryArmed[i]
    /\ DiscoveryTimely(i)
    /\ discoveryArmed' = [discoveryArmed EXCEPT ![i] = FALSE]
    /\ IF primaryId[i] = Null
       THEN StartElection(i, chan) /\ UNCHANGED <<primaryId, graceArmed>>
       ELSE UNCHANGED <<election, chan>>
    /\ UNCHANGED <<nodeState, starts, startedAt, clock, warmupArmed, link, closing, linkFailures, ident, devices>>

GraceExpire(i) ==
    /\ graceArmed[i]
    /\ FullMeshFirst => FullMesh
    /\ TimerTimely
    /\ graceArmed' = [graceArmed EXCEPT ![i] = FALSE]
    /\ StartElection(i, chan)
    /\ UNCHANGED <<primaryId, lifecycle, link, closing, linkFailures, ident, devices>>

\* decideElection(); it leaves the grace timer alone.
DecideElection(i) ==
    /\ decideArmed[i]
    /\ TimerTimely
    /\ decideArmed' = [decideArmed EXCEPT ![i] = FALSE]
    /\ LET w == IF candidates[i] = {} THEN i ELSE SelectWinner(candidates[i])[1]
       IN  IF w = i
           THEN BecomePrimary(i)
           ELSE /\ primaryId' = [primaryId EXCEPT ![i] = w]
                /\ phase' = [phase EXCEPT ![i] = "decided"]
                /\ PrimaryElected(chan, i, w)
    /\ UNCHANGED <<candidates, graceArmed, lifecycle, link, closing, linkFailures, ident>>

\* What the 'connected' listener of i sends on a new connection: its local
\* device, and device:list if it is the primary.
Greeting(i) == <<Announce(localRole[i])>> \o (IF IsPrimary(i) THEN <<ListMsg(i)>> ELSE <<>>)

\* A dial between two running devices succeeds.  The dialer's transport
\* knows the device it dialed (connect() sets deviceToConnection); the
\* accepting side learns it from the announce.  Both 'connected' listeners
\* run and send their greeting.
Connect(i, j) ==
    /\ i < j
    /\ nodeState[i] = "running" /\ nodeState[j] = "running"
    /\ ~Linked(i, j)
    /\ <<i, j>> \notin closing /\ <<j, i>> \notin closing
    /\ link' = link \cup {{i, j}}
    /\ \E dialer \in {<<i, j>>, <<j, i>>} : ident' = ident \cup {dialer}
    /\ chan' = [chan EXCEPT ![<<i, j>>] = Greeting(i), ![<<j, i>>] = Greeting(j)]
    /\ UNCHANGED <<election, lifecycle, closing, linkFailures, devices>>

\* Variants of the handlers below, each with one step of the code left out.
HandleElectionStartNoTimer(i, c) ==
    /\ IF phase[i] # "collecting"
       THEN /\ phase' = [phase EXCEPT ![i] = "collecting"]
            /\ candidates' = [candidates EXCEPT ![i] = OwnCandidate(i)]
            /\ chan' = Bcast(c, i, <<CandidateMsg(i)>>)
            /\ UNCHANGED <<primaryId, decideArmed, graceArmed>>
       ELSE UNCHANGED election /\ chan' = c
    /\ UNCHANGED devices

\* handleElectionStart(from): join the round unless already collecting,
\* answering with the own candidacy only (no election:start).
HandleElectionStart(i, c) ==
    /\ IF phase[i] # "collecting"
       THEN /\ phase' = [phase EXCEPT ![i] = "collecting"]
            /\ candidates' = [candidates EXCEPT ![i] = OwnCandidate(i)]
            /\ decideArmed' = [decideArmed EXCEPT ![i] = TRUE]
            /\ chan' = Bcast(c, i, <<CandidateMsg(i)>>)
            /\ UNCHANGED <<primaryId, graceArmed>>
       ELSE UNCHANGED election /\ chan' = c
    /\ UNCHANGED devices

\* handleElectionCandidate: stored whatever the phase.
HandleElectionCandidate(i, j, at, c) ==
    /\ candidates' = [candidates EXCEPT ![i] = SetCandidate(@, j, at)]
    /\ chan' = c
    /\ UNCHANGED <<phase, primaryId, decideArmed, graceArmed, devices>>

\* handleElectionResult: adopt the sender, cancel both timers.
HandleElectionResult(i, j, c) ==
    /\ decideArmed' = [decideArmed EXCEPT ![i] = FALSE]
    /\ graceArmed' = [graceArmed EXCEPT ![i] = FALSE]
    /\ primaryId' = [primaryId EXCEPT ![i] = j]
    /\ phase' = [phase EXCEPT ![i] = "decided"]
    /\ candidates' = [candidates EXCEPT ![i] = {}]
    /\ PrimaryElected(c, i, j)

\* Variant of HandleDeviceAnnounce that keeps the role of a known row.
HandleDeviceAnnounceKeepRow(i, j, role, c) ==
    /\ rows' = [rows EXCEPT ![i][j] = IF @ = "absent" THEN role ELSE @]
    /\ chan' = c
    /\ UNCHANGED <<election, localRole, dmPrimary>>

\* device:announce: the transport maps the sender to the connection, and
\* handleDeviceAnnounce stores the announced device as its row.
HandleDeviceAnnounce(i, j, role, c) ==
    /\ rows' = [rows EXCEPT ![i][j] = role]
    /\ chan' = c
    /\ UNCHANGED <<election, localRole, dmPrimary>>

\* Variant of HandleDeviceList that does not record the list's primaryId.
HandleDeviceListKeepPrimary(i, j, devs, c) ==
    /\ rows' = [rows EXCEPT ![i] =
                  [d \in Node |-> IF d # i /\ (d \in devs \/ @[d] # "absent")
                                  THEN RoleFor(d, j) ELSE "absent"]]
    /\ localRole' = [localRole EXCEPT ![i] = RoleFor(i, j)]
    /\ primaryId' = [primaryId EXCEPT ![i] = j]
    /\ phase' = [phase EXCEPT ![i] = "idle"]
    /\ chan' = c
    /\ UNCHANGED <<candidates, decideArmed, graceArmed, dmPrimary>>

(***************************************************************************)
(* device:list from j (its primaryId is always j): handleDeviceList stores *)
(* every listed device but the local one, records j as primaryId, sets the *)
(* local role and the role of every row from it; then                      *)
(* election.setPrimary(j), which cancels no timer.                         *)
(***************************************************************************)
HandleDeviceList(i, j, devs, c) ==
    /\ rows' = [rows EXCEPT ![i] =
                  [d \in Node |-> IF d # i /\ (d \in devs \/ @[d] # "absent")
                                  THEN RoleFor(d, j) ELSE "absent"]]
    /\ localRole' = [localRole EXCEPT ![i] = RoleFor(i, j)]
    /\ dmPrimary' = [dmPrimary EXCEPT ![i] = j]
    /\ primaryId' = [primaryId EXCEPT ![i] = j]
    /\ phase' = [phase EXCEPT ![i] = "idle"]
    /\ chan' = c
    /\ UNCHANGED <<candidates, decideArmed, graceArmed>>

\* device:goodbye: handleDeviceGoodbye -> markDeviceOffline(from), a no-op
\* for a device without a row.
HandleDeviceGoodbye(i, j, c) ==
    /\ MarkDevicesOffline(i, {j} \cap Present(i))
    /\ chan' = c
    /\ UNCHANGED <<candidates, decideArmed>>

\* The transport's 'data' listener hands a control message from j to
\* handleMeshMessageInternal on i.
HandleMessage(j, i) ==
    /\ nodeState[i] = "running"
    /\ chan[<<j, i>>] # <<>>
    /\ LET m == Head(chan[<<j, i>>])
           c == [chan EXCEPT ![<<j, i>>] = Tail(@)]
       IN  /\ CASE m.type = "start"     -> HandleElectionStart(i, c)
                 [] m.type = "candidate" -> HandleElectionCandidate(i, j, m.at, c)
                 [] m.type = "result"    -> HandleElectionResult(i, j, c)
                 [] m.type = "list"      -> HandleDeviceList(i, j, m.devs, c)
                 [] m.type = "goodbye"   -> HandleDeviceGoodbye(i, j, c)
                 [] m.type = "announce"  -> HandleDeviceAnnounce(i, j, m.role, c)
           /\ ident' = IF m.type = "announce" THEN ident \cup {<<i, j>>} ELSE ident
    /\ UNCHANGED <<lifecycle, link, closing, linkFailures>>

\* The 'disconnected' listener: every device with a row for which
\* getConnectionByDeviceId finds no connection (idn) is marked offline.
DisconnectedListener(i, idn) ==
    MarkDevicesOffline(i, {d \in Present(i) : <<i, d>> \notin idn})

\* j's transport handles the close of its link to i, after the data sent
\* before it: the mapping goes, then 'disconnected' is emitted.
HandleClose(j, i) ==
    /\ <<j, i>> \in closing
    /\ chan[<<i, j>>] = <<>>
    /\ closing' = closing \ {<<j, i>>}
    /\ ident' = ident \ {<<j, i>>}
    /\ DisconnectedListener(j, ident')
    /\ UNCHANGED <<candidates, decideArmed, lifecycle, link, chan, linkFailures>>

\* Variant of stop() whose transport.stop() leaves the connections open.
StopKeepingConnections(i) ==
    /\ nodeState[i] = "running"
    /\ nodeState' = [nodeState EXCEPT ![i] = "stopping"]
    /\ UNCHANGED <<election, starts, startedAt, clock, warmupArmed, discoveryArmed, net, devices>>

(***************************************************************************)
(* A connection fails while both devices keep running: the heartbeat of    *)
(* either side times out, or the socket closes.  What was in flight is     *)
(* lost, and each side's transport emits 'disconnected'.                   *)
(***************************************************************************)
LinkFail(i, j) ==
    /\ i < j
    /\ Linked(i, j)
    /\ linkFailures < MaxLinkFailures
    /\ QuietFaults => Settled
    /\ link' = link \ {{i, j}}
    /\ chan' = [chan EXCEPT ![<<i, j>>] = <<>>, ![<<j, i>>] = <<>>]
    /\ closing' = closing \cup {<<i, j>>, <<j, i>>}
    /\ linkFailures' = linkFailures + 1
    /\ UNCHANGED <<election, lifecycle, ident, devices>>

(***************************************************************************)
(* MeshNode.stop() up to its await: goodbye to every connection, then      *)
(* transport.stop() drops every connection and emits 'disconnected' for    *)
(* each while the listeners are still attached; then the listeners go.     *)
(* By the last 'disconnected' no connection is left, so every device with  *)
(* a row has been marked offline.  What i had sent is still delivered;     *)
(* what was sent to i is lost.                                             *)
(***************************************************************************)
Stop(i) ==
    /\ nodeState[i] = "running"
    /\ QuietFaults => Settled
    /\ LET peers == {j \in Node : Linked(i, j)}
           c == Bcast(chan, i, <<M("goodbye")>>)
       IN  /\ link' = {l \in link : i \notin l}
           /\ chan' = [p \in Pairs |-> IF p[2] = i THEN <<>> ELSE c[p]]
           /\ closing' = {q \in closing : q[1] # i} \cup {<<j, i>> : j \in peers}
           /\ ident' = {q \in ident : q[1] # i}
           /\ IF peers # {} \/ \E q \in closing : q[1] = i
              THEN DisconnectedListener(i, ident')
              ELSE UNCHANGED <<primaryId, phase, graceArmed, devices>>
    /\ nodeState' = [nodeState EXCEPT ![i] = "stopping"]
    /\ UNCHANGED <<candidates, decideArmed, starts, startedAt, clock, warmupArmed, discoveryArmed, linkFailures>>

\* sidecar.stop() resolves: running := false, election.reset().  The timers
\* of start() and handleTailnetPeers are not cancelled.
\* election.reset(): back to idle, both timers cleared.
ElectionReset(i) ==
    /\ phase' = [phase EXCEPT ![i] = "idle"]
    /\ primaryId' = [primaryId EXCEPT ![i] = Null]
    /\ candidates' = [candidates EXCEPT ![i] = {}]
    /\ decideArmed' = [decideArmed EXCEPT ![i] = FALSE]
    /\ graceArmed' = [graceArmed EXCEPT ![i] = FALSE]

\* deviceManager.clear(): no rows, no primaryId; the local role stays.
DeviceManagerClear(i) ==
    /\ rows' = [rows EXCEPT ![i] = [d \in Node |-> "absent"]]
    /\ dmPrimary' = [dmPrimary EXCEPT ![i] = Null]

StopComplete(i) ==
    /\ nodeState[i] = "stopping"
    /\ nodeState' = [nodeState EXCEPT ![i] = "stopped"]
    /\ ElectionReset(i)
    /\ DeviceManagerClear(i)
    /\ UNCHANGED <<starts, startedAt, clock, warmupArmed, discoveryArmed, net, localRole>>

(***************************************************************************)
(* The 30 s announce interval of a running device broadcasts its local     *)
(* device.  It is far longer than any delivery and than every other timer  *)
(* (decide 3 s, grace, discovery, start-up), so it fires only while        *)
(* nothing is in flight and no other timer is pending.                     *)
(***************************************************************************)
NoTimerPending ==
    \A j \in Node : ~(decideArmed[j] \/ graceArmed[j] \/ discoveryArmed[j] \/ warmupArmed[j])

AnnounceTick(i) ==
    /\ nodeState[i] = "running"
    /\ Quiet
    /\ NoTimerPending
    /\ chan' = Bcast(chan, i, <<Announce(localRole[i])>>)
    /\ UNCHANGED <<election, lifecycle, link, closing, linkFailures, ident, devices>>

-----------------------------------------------------------------------------
Init ==
    /\ nodeState = [i \in Node |-> "stopped"]
    /\ starts = [i \in Node |-> 0]
    /\ startedAt = [i \in Node |-> 1]
    /\ clock = 0
    /\ phase = [i \in Node |-> "idle"]
    /\ primaryId = [i \in Node |-> Null]
    /\ candidates = [i \in Node |-> {}]
    /\ decideArmed = [i \in Node |-> FALSE]
    /\ graceArmed = [i \in Node |-> FALSE]
    /\ discoveryArmed = [i \in Node |-> FALSE]
    /\ warmupArmed = [i \in Node |-> FALSE]
    /\ link = {}
    /\ chan = [p \in Pairs |-> <<>>]
    /\ closing = {}
    /\ linkFailures = 0
    /\ ident = {}
    /\ rows = [i \in Node |-> [d \in Node |-> "absent"]]
    /\ localRole = [i \in Node |-> "none"]
    /\ dmPrimary = [i \in Node |-> Null]

\* Steps the devices take by themselves: timers, deliveries, dials.
SystemNext ==
    \/ \E i \in Node :
          \/ Discover(i) \/ DiscoveryTimeout(i) \/ GraceExpire(i)
          \/ DecideElection(i) \/ StopComplete(i) \/ AnnounceTick(i)
    \/ \E i, j \in Node : Connect(i, j)
    \/ \E i, j \in Node : LinkFail(i, j)
    \/ \E p \in Pairs : HandleMessage(p[1], p[2]) \/ HandleClose(p[1], p[2])

\* Steps the user takes: start() and stop().
UserNext == \E i \in Node : Start(i) \/ Stop(i)

Next == SystemNext \/ UserNext

\* Timers fire, TCP delivers, sidecar.stop() resolves within its 5 s kill
\* timeout, and a device that is up accepts a dial.  Every running device's
\* announce interval fires every 30 s whatever the others do: the model
\* disables it while another announce is in flight, so it gets strong
\* fairness.  start() and stop() are
\* the user's and need not happen.
Fairness ==
    /\ \A i \in Node :
          /\ WF_vars(Discover(i)) /\ WF_vars(DiscoveryTimeout(i))
          /\ WF_vars(GraceExpire(i)) /\ WF_vars(DecideElection(i))
          /\ WF_vars(StopComplete(i)) /\ SF_vars(AnnounceTick(i))
    /\ \A i, j \in Node : WF_vars(Connect(i, j))
    /\ \A p \in Pairs : WF_vars(HandleMessage(p[1], p[2])) /\ WF_vars(HandleClose(p[1], p[2]))

Spec == Init /\ [][Next]_vars /\ Fairness

-----------------------------------------------------------------------------
(***************************************************************************)
(* Properties                                                              *)
(***************************************************************************)

\* Every variable has its type; a connection joins two running transports.
TypeOK ==
    /\ nodeState \in [Node -> {"stopped", "running", "stopping"}]
    /\ starts \in [Node -> 0..MaxStarts]
    /\ startedAt \in [Node -> Stamp]
    /\ phase \in [Node -> Phases]
    /\ primaryId \in [Node -> Node \cup {Null}]
    \* state.candidates is a Map: at most one entry per device id
    /\ \A i \in Node : candidates[i] \subseteq Node \X Stamp
                        /\ \A c, d \in candidates[i] : c[1] = d[1] => c = d
    /\ decideArmed \in [Node -> BOOLEAN]
    /\ graceArmed \in [Node -> BOOLEAN]
    /\ discoveryArmed \in [Node -> BOOLEAN]
    /\ warmupArmed \in [Node -> BOOLEAN]
    \* a connection exists only between two running transports
    /\ link \subseteq {l \in SUBSET Running : Cardinality(l) = 2}
    /\ chan \in [Pairs -> Seq(Msg)]
    /\ closing \subseteq Pairs
    /\ linkFailures \in 0..MaxLinkFailures
    /\ ident \subseteq Pairs
    /\ rows \in [Node -> [Node -> Roles \cup {"absent"}]]
    /\ localRole \in [Node -> Roles]
    /\ dmPrimary \in [Node -> Node \cup {Null}]

\* All running devices name the same primary, and it is one of them.
Agreed ==
    Running # {} => \E p \in Running : \A i \in Running : primaryId[i] = p

(***************************************************************************)
(* Agreement: once the mesh is quiet, every running device's election      *)
(* names the same primary, a running device that names itself.  This is    *)
(* what the start-up election, handleElectionResult, the device:list on    *)
(* connect and the failover through the grace timer together promise.      *)
(***************************************************************************)
Agreement == Settled => Agreed

(***************************************************************************)
(* The mesh does not churn forever: in every run where the timers fire and *)
(* links deliver, the running devices come to agree on one running primary *)
(* and keep agreeing, whatever start() and stop() calls came before.       *)
(***************************************************************************)
EventuallyAgreed == <>[]Agreed

(***************************************************************************)
(* The device table follows the election: once the mesh is quiet, every    *)
(* running device's DeviceManager names the election's primary            *)
(* (getPrimaryDevice), holds the matching local role, and gives no row of  *)
(* a running device a role the election contradicts.  A row may still      *)
(* have no role: a device that learns its role from device:list does not   *)
(* announce it, so its connect-time announce stands until the 30 s         *)
(* interval.  The table is written by five paths in turn (primaryElected,  *)
(* device:list, announce, markDeviceOffline, discovery), none of which     *)
(* sees the others.                                                        *)
(***************************************************************************)
DeviceTableAgrees ==
    Settled =>
        \A i \in Running :
            /\ dmPrimary[i] = primaryId[i]
            /\ localRole[i] = RoleFor(i, primaryId[i])
            /\ \A d \in Present(i) \cap Running :
                  rows[i][d] \in {"none", RoleFor(d, primaryId[i])}

(***************************************************************************)
(* The announce interval repairs the table: in every fair run the rows a   *)
(* running device holds for the other running devices come to show the    *)
(* role the election implies and keep showing it, although device:list    *)
(* and the election's result leave a device's own new role unannounced.   *)
(***************************************************************************)
RolesKnown ==
    \A i \in Running : \A d \in Present(i) \cap Running : rows[i][d] = RoleFor(d, primaryId[i])

EventuallyRolesKnown == <>[]RolesKnown

(***************************************************************************)
(* Reference for selectWinner, by successive filtering: the designated     *)
(* candidates if there are any, of those the earliest started, of those    *)
(* the smallest id.                                                        *)
(***************************************************************************)
RefWinner(cands) ==
    LET D == IF \E c \in cands : c[1] \in Designated
             THEN {c \in cands : c[1] \in Designated} ELSE cands
        E == {c \in D : \A d \in D : c[2] <= d[2]}
    IN  CHOOSE c \in E : \A d \in E : c[1] <= d[1]

(***************************************************************************)
(* The comparator of selectWinner is a strict total order whose first      *)
(* element is the reference winner, for every candidate map a device       *)
(* actually holds: so two devices holding the same candidates decide the   *)
(* same winner (spec 8.4).                                                 *)
(***************************************************************************)
SelectWinnerMatchesRanking ==
    \A i \in Node : candidates[i] # {} =>
        SelectWinner(candidates[i]) = RefWinner(candidates[i])

=============================================================================
