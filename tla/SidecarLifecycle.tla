-------------------------- MODULE SidecarLifecycle --------------------------
(***************************************************************************)
(* The life of the Go sidecar process as SidecarClient drives it           *)
(* (sidecar-client/src/index.ts: start, stop, the process's 'exit' and     *)
(* 'error' handlers, the startup and shutdown timers, handleStatusEvent,   *)
(* cleanup), the sidecar's side of it (sidecar/main.go: boot, handleStart, *)
(* handleStop, shutdown, Node.Start, Node.Stop, the IPC read loop), and    *)
(* MeshNode.start/stop, the only caller of SidecarClient.start/stop.       *)
(*                                                                         *)
(* Each spawned process is a generation g in Gen.  The client holds one    *)
(* process handle and one readline at a time (cleanup() drops both); lines *)
(* a process writes after its readline is closed are never read.  Only     *)
(* tsnet:status lines are modelled: they are the only events that change   *)
(* the client's state or settle a promise.  Time is abstract: a timer may  *)
(* fire whenever it is armed.                                              *)
(***************************************************************************)
EXTENDS Integers, Sequences, FiniteSets

CONSTANTS
    MaxGen,        \* bound on sidecar processes spawned
    MaxCrashes     \* bound on sidecar processes dying by themselves

Gen == 1..MaxGen
NoProc == 0
States == {"stopped", "starting", "running", "stopping", "error"}   \* SidecarState
Cmds == {"start", "stop"}
\* A process as the sidecar's main.go sees itself:
\*   "none"     not spawned;         "nospawn"  spawn() failed (ENOENT, EACCES)
\*   "booting"  before main() runs;  "ready"    read loop running, a.node = nil
\*   "starting" Node.Start returned, waiting for tailscale to be Running
\*   "running"  tailscale Running;   "failed"   server.Start failed
\*   "wedged"   handleStop deadlocked (see HandleStop)
GoStates == {"none", "nospawn", "booting", "ready", "starting", "running",
             "failed", "wedged"}

VARIABLES
    proc,         \* this.process / this.readline: the generation held, or NoProc
    status,       \* this.status.state
    startArmed,   \* start() calls whose 30 s startup timer is armed
    listening,    \* start() calls whose onStatus listener is registered
    startP,       \* the promise of the start() call that spawned g
    stopArmed,    \* stop() calls, by the process they were made on, whose 5 s timer is armed
    onExit,       \* stop() calls whose onExit listener is on their process
    stopP,        \* the promise of the stop() call made on process g
    spawned,      \* processes spawned so far
    go,           \* go[g]: the sidecar process g, as above
    cmds,         \* commands written to g's stdin and not yet read
    out,          \* tsnet:status lines g wrote and the client has not read
    exited,       \* processes that have died; their 'exit' event is due
    exitSeen,     \* processes whose 'exit' event has been handled
    errSeen,      \* processes whose 'error' event has been handled
    crashes,      \* processes that died by themselves
    running,      \* MeshNode.running
    nodeStop,     \* the g whose sidecar.stop() MeshNode.stop() awaits, or NoProc
    awaiting,     \* MeshNode.start() calls, by the g they spawned, awaiting sidecar.start()
    listeners,    \* sets of MeshNode's listeners registered on the transport
    held          \* this.transportHandlers holds the last set registered

client == <<proc, status, startArmed, listening, startP, stopArmed, onExit, stopP>>
sidecar == <<spawned, go, cmds, out, exited, exitSeen, errSeen, crashes>>
node == <<running, nodeStop, awaiting, listeners, held>>
vars == <<client, sidecar, node>>

Alive(g) == go[g] \notin {"none", "nospawn"} /\ g \notin exited

-----------------------------------------------------------------------------
(***************************************************************************)
(* SidecarClient                                                           *)
(***************************************************************************)

\* cleanup(): close the readline, losing the lines it has not delivered, and
\* forget the process.  It neither kills the process nor removes its 'exit'
\* handler.
Cleanup ==
    /\ proc' = NoProc
    /\ out' = IF proc = NoProc THEN out ELSE [out EXCEPT ![proc] = <<>>]

\* g writes status lines; they are lost unless g's readline is open.
Emit(g, ls) == out' = [out EXCEPT ![g] = IF proc = g THEN @ \o ls ELSE <<>>]

\* The onStatus listeners of start(): each registered one settles its own
\* promise on 'running' or 'error' and removes itself and its timer.  Every
\* listener still registered hears every status, whichever process sent it.
Settling(s) == IF s \in {"running", "error"} THEN listening ELSE {}
HearStatus(s) ==
    LET S == Settling(s)
    IN  /\ listening' = listening \ S
        /\ startArmed' = startArmed \ S
        /\ startP' = [h \in Gen |-> IF h \in S /\ startP[h] = "pending"
                                   THEN IF s = "running" THEN "resolved" ELSE "rejected"
                                   ELSE startP[h]]

\* Mutant: the new handle is numbered one past the process spawned.
SpawnNextGen(g) ==
    /\ proc = NoProc
    /\ status' = "starting"
    /\ proc' = g + 1
    /\ startArmed' = startArmed \cup {g}
    /\ listening' = listening \cup {g}
    /\ startP' = [startP EXCEPT ![g] = "pending"]
    /\ spawned' = g
    /\ go' \in {[go EXCEPT ![g] = "booting"], [go EXCEPT ![g] = "nospawn"]}
    /\ cmds' = [cmds EXCEPT ![g] = <<"start">>]

\* start() with this.process = null: status 'starting' (heard by the
\* listeners), the startup timer, spawn(), the readline, the 'exit' and
\* 'error' handlers, the onStatus listener, then tsnet:start on stdin.
\* spawn() may fail; the failure is reported later by the 'error' event.
Spawn(g) ==
    /\ proc = NoProc
    /\ status' = "starting"
    /\ proc' = g
    /\ startArmed' = startArmed \cup {g}
    /\ listening' = listening \cup {g}
    /\ startP' = [startP EXCEPT ![g] = "pending"]
    /\ spawned' = g
    /\ go' \in {[go EXCEPT ![g] = "booting"], [go EXCEPT ![g] = "nospawn"]}
    /\ cmds' = [cmds EXCEPT ![g] = <<"start">>]

\* this.process.stdin.write: to whatever process is held when called.
SendCommand(c) ==
    IF proc # NoProc THEN cmds' = [cmds EXCEPT ![proc] = Append(@, c)] ELSE UNCHANGED cmds

\* Mutant: stop() also clears the startup timers of pending start() calls.
StopCallClearsStartTimers ==
    /\ status' = "stopping"
    /\ stopArmed' = stopArmed \cup {proc}
    /\ onExit' = onExit \cup {proc}
    /\ stopP' = [stopP EXCEPT ![proc] = "pending"]
    /\ SendCommand("stop")
    /\ startArmed' = {}
    /\ UNCHANGED <<proc, listening, startP>>

\* stop() with this.process set: status 'stopping', the 5 s timer, onExit on
\* the process, tsnet:stop.  The promise is indexed by that process.
StopCall ==
    /\ status' = "stopping"
    /\ stopArmed' = stopArmed \cup {proc}
    /\ onExit' = onExit \cup {proc}
    /\ stopP' = [stopP EXCEPT ![proc] = "pending"]
    /\ SendCommand("stop")
    /\ UNCHANGED <<proc, startArmed, listening, startP>>

\* The readline of the held process delivers a line: handleEvent, routeEvent,
\* handleStatusEvent replaces this.status and emits statusChanged.
ReadLine ==
    /\ proc # NoProc
    /\ out[proc] # <<>>
    /\ status' = Head(out[proc])
    /\ HearStatus(Head(out[proc]))
    /\ out' = [out EXCEPT ![proc] = Tail(@)]
    /\ UNCHANGED <<proc, stopArmed, onExit, stopP, spawned, go, cmds, exited, exitSeen, errSeen, crashes, node>>

\* The 'exit' event of process g: start()'s handler (cleanup, status
\* 'stopped'), then stop()'s onExit if one is on g (clear its timer, resolve).
ExitEvent(g) ==
    /\ g \in exited \ exitSeen
    /\ exitSeen' = exitSeen \cup {g}
    /\ Cleanup
    /\ status' = "stopped"
    /\ HearStatus("stopped")
    /\ stopArmed' = stopArmed \ {g}
    /\ onExit' = onExit \ {g}
    /\ stopP' = IF g \in onExit THEN [stopP EXCEPT ![g] = "resolved"] ELSE stopP
    /\ UNCHANGED <<spawned, go, cmds, exited, errSeen, crashes, node>>

\* The 'error' event of a process whose spawn failed: reject start(); the
\* startup timer, the listener and this.process are left as they are.
\* Node may or may not emit 'exit' after it.
SpawnError(g) ==
    /\ go[g] = "nospawn"
    /\ g \notin errSeen
    /\ errSeen' = errSeen \cup {g}
    /\ startP' = [startP EXCEPT ![g] = IF @ = "pending" THEN "rejected" ELSE @]
    /\ exited' \in {exited, exited \cup {g}}
    /\ UNCHANGED <<proc, status, startArmed, listening, stopArmed, onExit, stopP>>
    /\ UNCHANGED <<spawned, go, cmds, out, exitSeen, crashes, node>>

\* The startup timer of start() call g: cleanup() and reject.  this.process
\* is whatever process is held now.
StartTimeout(g) ==
    /\ g \in startArmed
    /\ startArmed' = startArmed \ {g}
    /\ Cleanup
    /\ startP' = [startP EXCEPT ![g] = IF @ = "pending" THEN "rejected" ELSE @]
    /\ UNCHANGED <<status, listening, stopArmed, onExit, stopP, spawned, go, cmds, exited, exitSeen, errSeen, crashes, node>>

\* Mutant: the shutdown timer kills and cleans up, leaving the resolve to onExit.
StopTimeoutNoResolve(g) ==
    /\ g \in stopArmed
    /\ stopArmed' = stopArmed \ {g}
    /\ exited' = IF proc # NoProc /\ Alive(proc) THEN exited \cup {proc} ELSE exited
    /\ Cleanup
    /\ UNCHANGED <<status, startArmed, listening, startP, onExit, stopP>>
    /\ UNCHANGED <<spawned, go, cmds, exitSeen, errSeen, crashes, node>>

\* The shutdown timer of the stop() made on g: SIGKILL to the process held
\* now, cleanup(), resolve.
StopTimeout(g) ==
    /\ g \in stopArmed
    /\ stopArmed' = stopArmed \ {g}
    /\ exited' = IF proc # NoProc /\ Alive(proc) THEN exited \cup {proc} ELSE exited
    /\ Cleanup
    /\ stopP' = [stopP EXCEPT ![g] = "resolved"]
    /\ UNCHANGED <<status, startArmed, listening, startP, onExit>>
    /\ UNCHANGED <<spawned, go, cmds, exitSeen, errSeen, crashes, node>>

-----------------------------------------------------------------------------
(***************************************************************************)
(* The sidecar process (main.go)                                           *)
(***************************************************************************)

\* main(): the read loop starts, then the ready status 'stopped' is written.
Boot(g) ==
    /\ go[g] = "booting"
    /\ g \notin exited
    /\ go' = [go EXCEPT ![g] = "ready"]
    /\ Emit(g, <<"stopped">>)
    /\ UNCHANGED <<client, spawned, cmds, exited, exitSeen, errSeen, crashes, node>>

\* handleStart: a.node is created and Node.Start notifies 'starting'; when
\* server.Start fails it notifies 'error' and the handler returns the error
\* (the read loop goes on), else a goroutine polls until tailscale is up.
HandleStart(g) ==
    /\ Alive(g)
    /\ go[g] = "ready"
    /\ cmds[g] # <<>> /\ Head(cmds[g]) = "start"
    /\ cmds' = [cmds EXCEPT ![g] = Tail(@)]
    /\ \/ /\ go' = [go EXCEPT ![g] = "starting"]
          /\ Emit(g, <<"starting">>)
       \/ /\ go' = [go EXCEPT ![g] = "failed"]
          /\ Emit(g, <<"starting", "error">>)
    /\ UNCHANGED <<client, spawned, exited, exitSeen, errSeen, crashes, node>>

\* handleStop calls shutdown(), which holds a.mu while it calls
\* a.node.Stop(); Node.Stop notifies 'stopping' through the OnStatus
\* callback, which takes a.mu again: the read loop blocks for good, no
\* status is written and the poller is cancelled.  The process does not
\* exit.  (tsnet:stop always follows tsnet:start on the pipe, so a.node is
\* set by then.)
HandleStop(g) ==
    /\ Alive(g)
    /\ go[g] \in {"starting", "running", "failed"}
    /\ cmds[g] # <<>> /\ Head(cmds[g]) = "stop"
    /\ cmds' = [cmds EXCEPT ![g] = Tail(@)]
    /\ go' = [go EXCEPT ![g] = "wedged"]
    /\ UNCHANGED <<client, spawned, out, exited, exitSeen, errSeen, crashes, node>>

\* Node.Start's poller sees BackendState "Running" and notifies 'running'.
\* This waits on the tailnet (and on the user, when login is needed).
TailscaleUp(g) ==
    /\ Alive(g)
    /\ go[g] = "starting"
    /\ go' = [go EXCEPT ![g] = "running"]
    /\ Emit(g, <<"running">>)
    /\ UNCHANGED <<client, spawned, cmds, exited, exitSeen, errSeen, crashes, node>>

\* The process dies by itself (a panic, the OOM killer).
Crash(g) ==
    /\ Alive(g)
    /\ crashes < MaxCrashes
    /\ crashes' = crashes + 1
    /\ exited' = exited \cup {g}
    /\ UNCHANGED <<client, spawned, go, cmds, out, exitSeen, errSeen, node>>

-----------------------------------------------------------------------------
(***************************************************************************)
(* MeshNode.start / MeshNode.stop                                          *)
(***************************************************************************)

\* MeshNode.start(): running := true, then sidecar.start(), which throws
\* 'Sidecar already running' while a process is held.  Either way running
\* stays true.
NodeStart ==
    /\ ~running
    /\ running' = TRUE
    /\ \/ /\ proc = NoProc
          /\ spawned < MaxGen
          /\ Spawn(spawned + 1)
          /\ awaiting' = awaiting \cup {spawned + 1}
          /\ UNCHANGED <<stopArmed, onExit, stopP, out, exited, exitSeen, errSeen, crashes>>
       \/ /\ proc # NoProc
          /\ UNCHANGED <<client, sidecar, awaiting>>
    /\ UNCHANGED <<nodeStop, listeners, held>>

\* The await of sidecar.start() in the MeshNode.start() call that spawned g
\* returns.  On resolve the rest of start() runs, whatever happened since:
\* transport.start(), setupTransportListeners() (a new set of listeners,
\* this.transportHandlers := it), the announce interval, the discovery timer.
\* On reject start() throws, leaving running true.
NodeStartDone(g) ==
    /\ g \in awaiting
    /\ startP[g] \in {"resolved", "rejected"}
    /\ awaiting' = awaiting \ {g}
    /\ IF startP[g] = "resolved"
       THEN listeners' = listeners + 1 /\ held' = TRUE
       ELSE UNCHANGED <<listeners, held>>
    /\ UNCHANGED <<client, sidecar, running, nodeStop>>

\* removeTransportListeners(): takes off the set this.transportHandlers
\* holds, and only that one.
RemoveTransportListeners ==
    /\ listeners' = IF held THEN listeners - 1 ELSE listeners
    /\ held' = FALSE

\* MeshNode.stop(): the announce interval, goodbye, transport.stop() and
\* removeTransportListeners(), then sidecar.stop(): with no process held it
\* returns at once and stop() completes; else stop() awaits the stop() made
\* on the held process.
NodeStop ==
    /\ running
    /\ nodeStop = NoProc
    /\ RemoveTransportListeners
    /\ \/ /\ proc = NoProc
          /\ running' = FALSE
          /\ UNCHANGED <<client, cmds, nodeStop>>
       \/ /\ proc # NoProc
          /\ StopCall
          /\ nodeStop' = proc
          /\ UNCHANGED running
    /\ UNCHANGED <<spawned, go, out, exited, exitSeen, errSeen, crashes, awaiting>>

\* The await in MeshNode.stop() returns: running := false.
NodeStopDone ==
    /\ nodeStop # NoProc
    /\ stopP[nodeStop] = "resolved"
    /\ running' = FALSE
    /\ nodeStop' = NoProc
    /\ UNCHANGED <<client, sidecar, awaiting, listeners, held>>

-----------------------------------------------------------------------------
Init ==
    /\ proc = NoProc
    /\ status = "stopped"
    /\ startArmed = {} /\ listening = {} /\ stopArmed = {} /\ onExit = {}
    /\ startP = [g \in Gen |-> "none"]
    /\ stopP = [g \in Gen |-> "none"]
    /\ spawned = 0
    /\ go = [g \in Gen |-> "none"]
    /\ cmds = [g \in Gen |-> <<>>]
    /\ out = [g \in Gen |-> <<>>]
    /\ exited = {} /\ exitSeen = {} /\ errSeen = {}
    /\ crashes = 0
    /\ running = FALSE
    /\ nodeStop = NoProc
    /\ awaiting = {}
    /\ listeners = 0
    /\ held = FALSE

\* Steps the client's event loop and the sidecar take by themselves.
SystemNext ==
    \/ ReadLine
    \/ NodeStopDone
    \/ \E g \in Gen :
          \/ NodeStartDone(g)
          \/ ExitEvent(g) \/ SpawnError(g) \/ StartTimeout(g) \/ StopTimeout(g)
          \/ Boot(g) \/ HandleStart(g) \/ HandleStop(g)

\* Steps of the application, the tailnet and the operating system.
EnvNext ==
    \/ NodeStart \/ NodeStop
    \/ \E g \in Gen : TailscaleUp(g) \/ Crash(g)

Next == SystemNext \/ EnvNext

\* Node.js fires due timers and delivers pipe lines and process events; the
\* sidecar's read loop and main() run.  Tailscale coming up is not assured
\* (it may wait on a login), nor are crashes or the application's calls.
Fairness ==
    /\ WF_vars(ReadLine)
    /\ WF_vars(NodeStopDone)
    /\ \A g \in Gen :
          /\ WF_vars(NodeStartDone(g))
          /\ WF_vars(ExitEvent(g)) /\ WF_vars(SpawnError(g))
          /\ WF_vars(StartTimeout(g)) /\ WF_vars(StopTimeout(g))
          /\ WF_vars(Boot(g)) /\ WF_vars(HandleStart(g)) /\ WF_vars(HandleStop(g))

Spec == Init /\ [][Next]_vars /\ Fairness

-----------------------------------------------------------------------------
TypeOK ==
    /\ proc \in {NoProc} \cup Gen
    /\ status \in States
    /\ startArmed \subseteq Gen /\ listening \subseteq Gen
    /\ stopArmed \subseteq Gen /\ onExit \subseteq Gen
    /\ startP \in [Gen -> {"none", "pending", "resolved", "rejected"}]
    /\ stopP \in [Gen -> {"none", "pending", "resolved"}]
    /\ spawned \in 0..MaxGen
    /\ go \in [Gen -> GoStates]
    /\ cmds \in [Gen -> Seq(Cmds)]
    /\ out \in [Gen -> Seq(States)]
    /\ exited \subseteq Gen /\ exitSeen \subseteq exited /\ errSeen \subseteq Gen
    /\ crashes \in 0..MaxCrashes
    /\ running \in BOOLEAN
    /\ nodeStop \in {NoProc} \cup Gen
    /\ awaiting \subseteq Gen
    /\ listeners \in 0..MaxGen
    /\ held \in BOOLEAN

\* Every start() call settles: its promise is resolved or rejected, whatever
\* the sidecar does (the 30 s startup timer is cleared only by settling).
StartSettles == \A g \in Gen : startP[g] = "pending" ~> startP[g] \in {"resolved", "rejected"}

\* Every stop() call resolves, although the sidecar never exits on tsnet:stop
\* (handleStop deadlocks): the 5 s timer kills the process and resolves.
\* So MeshNode.stop() returns.
StopSettles == \A g \in Gen : stopP[g] = "pending" ~> stopP[g] = "resolved"

(***************************************************************************)
(* MeshNode's listeners are on the transport exactly while it runs: one    *)
(* set while running, none once stop() has completed.  Otherwise every     *)
(* WebSocket message is handled twice, or by a stopped node.  Breaking it  *)
(* takes a start() whose sidecar.start() settles after stop() has removed  *)
(* the listeners, or a start() resolved by a later process's 'running'.    *)
(***************************************************************************)
TransportListenersOnce == listeners <= IF running THEN 1 ELSE 0

\* At most one sidecar process is alive: a second tsnet node would share the
\* hostname and the state directory of the first.
OneSidecarProcess == \A g, h \in Gen : Alive(g) /\ Alive(h) => g = h

====
