--------------------------------- MODULE Engine ---------------------------------
(***************************************************************************)
(* core/Engine.ts: the child processes of the engine.  start() awaits the  *)
(* Rust RTP server and starts the Parakeet recogniser in the background;   *)
(* the dashboard may ask for a restart of Parakeet at any time, several at *)
(* once; stop() kills what the engine has a handle of.                     *)
(*                                                                         *)
(* A process is named after the call that spawns it: "rust" for the Rust   *)
(* server, "start" for startParakeet(), and one name for each restart.     *)
(***************************************************************************)
EXTENDS Naturals

CONSTANTS
  Restarts,    (* the calls of restartParakeet()                            *)
  NoProcess,   (* null                                                      *)
  MaxPolls,    (* bound: polls for the port to be released, 20 in the code  *)
  MaxTicks     (* bound: checks of a process that starts: 50 and 18         *)

ASSUME EngineAssumption ==
  /\ NoProcess \notin Restarts \cup {"start", "rust"}
  /\ Restarts \cap {"start", "rust", "free", "other"} = {}
  /\ {MaxPolls, MaxTicks} \subseteq Nat \ {0}

Ops == Restarts \cup {"start"}
Children == Ops \cup {"rust"}

VARIABLES
  config,           (* what TRANSCRIPTION_SERVICES and its flags ask for    *)
  starting,         (* the await start() is at                              *)
  stopping,         (* the await stop() is at; then the exit of Node        *)
  op,               (* the await each call that starts a process is at      *)
  ticks,            (* how often it has polled or checked                   *)
  proc,             (* the processes                                        *)
  port,             (* who listens at Parakeet's port                       *)
  rustProcess, parakeetProcess,
  overlapped        (* history: two calls for Parakeet ran at once          *)

engineVars == <<config, starting, stopping, op, ticks, proc, port,
                rustProcess, parakeetProcess, overlapped>>

(* none        no ws:// service on this host                                 *)
(* manual      AUTO_START_TRANSCRIPTION is not set                           *)
(* prespawned  the launcher has spawned Parakeet                             *)
Configs == {"none", "manual", "auto", "prespawned"}

(* late: it gave up on a process that did not become ready.  hung: it will  *)
(* never settle.  lost: Node has exited.                                     *)
Awaits == {"probe", "wait", "release", "spawn", "starting"}
OpStates == {"no"} \cup Awaits \cup {"done", "failed", "late", "hung", "lost"}

(* told: SIGTERM was sent.                                                   *)
ProcStates == {"none", "loading", "up", "told", "gone"}

EngineTypeOK ==
  /\ config \in Configs
  /\ starting \in {"docker", "rust", "ari", "up", "lost"}
  /\ stopping \in {"no", "closing", "done", "exited"}
  /\ op \in [Children -> OpStates]
  /\ ticks \in [Children -> Nat]
  /\ proc \in [Children -> ProcStates]
  /\ port \in Ops \cup {"free", "other"}
  /\ rustProcess \in {"rust", NoProcess}
  /\ parakeetProcess \in Ops \cup {NoProcess}
  /\ overlapped \in BOOLEAN

EngineBegins(cfg, listener) ==
  /\ config = cfg /\ port = listener
  /\ starting = "docker" /\ stopping = "no"
  /\ op = [c \in Children |-> "no"] /\ ticks = [c \in Children |-> 0]
  /\ proc = [c \in Children |-> "none"]
  /\ rustProcess = NoProcess /\ parakeetProcess = NoProcess /\ overlapped = FALSE

(* A service may be there already, started by hand or left by an earlier   *)
(* engine.                                                                 *)
EngineInit == \E cfg \in Configs, listener \in {"free", "other"} : EngineBegins(cfg, listener)

-----------------------------------------------------------------------------
Running(o) == op[o] \in Awaits
Alive(c) == proc[c] \in {"loading", "up"}
Listening == port # "free"

(* Another call is under way when o begins.                                *)
Overlaps(o) == overlapped \/ \E p \in Ops \ {o} : Running(p)

OpMoves(o, to) == op' = [op EXCEPT ![o] = to] /\ ticks' = [ticks EXCEPT ![o] = 0]

(* A check or a poll that may be repeated before the call gives up.        *)
TriesAgain(o, max, end) ==
  IF ticks[o] + 1 >= max THEN OpMoves(o, end)
                         ELSE ticks' = [ticks EXCEPT ![o] = @ + 1] /\ UNCHANGED op

(* kill("SIGTERM"): nothing happens to a process that has exited.          *)
Told(cs) == [c \in Children |-> IF c \in cs /\ Alive(c) THEN "told" ELSE proc[c]]

-----------------------------------------------------------------------------
(* What start() does when it has done with the Rust server: startParakeet  *)
(* in the background, then the controller.                                 *)
StartGoesOn(rust) ==
  LET parakeet == config \in {"auto", "prespawned"}
  IN  /\ starting' = "ari"
      /\ op' = [op EXCEPT !["rust"] = rust, !["start"] = IF parakeet THEN "probe" ELSE "failed"]
      /\ overlapped' = (overlapped \/ (parakeet /\ Overlaps("start")))

(* Docker has answered.  USE_RUST_RTP may be off.                          *)
StartBegins ==
  /\ starting = "docker"
  /\ \/ /\ starting' = "rust" /\ op' = [op EXCEPT !["rust"] = "probe"]
        /\ UNCHANGED overlapped
     \/ StartGoesOn("no")
  /\ UNCHANGED <<config, stopping, ticks, proc, port, rustProcess, parakeetProcess>>

(* A healthy server is used as it is; the binary may be missing.           *)
RustProbed ==
  /\ op["rust"] = "probe"
  /\ \/ StartGoesOn("failed") /\ UNCHANGED proc
     \/ /\ op' = [op EXCEPT !["rust"] = "starting"]
        /\ proc' = [proc EXCEPT !["rust"] = "loading"]
        /\ UNCHANGED <<starting, overlapped>>
  /\ UNCHANGED <<config, stopping, ticks, port, rustProcess, parakeetProcess>>

RustPolled ==
  /\ op["rust"] = "starting"
  /\ CASE proc["rust"] = "up" ->
            StartGoesOn("done") /\ rustProcess' = "rust" /\ UNCHANGED ticks
       [] proc["rust"] # "up" /\ ticks["rust"] + 1 >= MaxTicks ->
            StartGoesOn("late") /\ UNCHANGED <<ticks, rustProcess>>
       [] OTHER -> /\ ticks' = [ticks EXCEPT !["rust"] = @ + 1]
                   /\ UNCHANGED <<starting, op, overlapped, rustProcess>>
  /\ UNCHANGED <<config, stopping, proc, port, parakeetProcess>>

(* Exit code 0 settles nothing and ends the polling.                       *)
RustExits ==
  /\ op["rust"] = "starting" /\ proc["rust"] = "gone"
  /\ \/ StartGoesOn("failed")
     \/ op' = [op EXCEPT !["rust"] = "hung"] /\ UNCHANGED <<starting, overlapped>>
  /\ UNCHANGED <<config, stopping, ticks, proc, port, rustProcess, parakeetProcess>>

(* The PBX was reached or not.                                             *)
ControllerStarts ==
  /\ starting = "ari" /\ starting' = "up"
  /\ UNCHANGED <<config, stopping, op, ticks, proc, port,
                 rustProcess, parakeetProcess, overlapped>>

-----------------------------------------------------------------------------
Probed ==
  /\ op["start"] = "probe"
  /\ OpMoves("start", CASE Listening -> "failed"
                        [] ~Listening /\ config = "prespawned" -> "wait"
                        [] OTHER -> "spawn")
  /\ UNCHANGED <<config, starting, stopping, proc, port,
                 rustProcess, parakeetProcess, overlapped>>

(* waitForTcpPort()                                                        *)
PortAwaited ==
  /\ op["start"] = "wait"
  /\ IF Listening THEN OpMoves("start", "done") ELSE TriesAgain("start", MaxTicks, "failed")
  /\ UNCHANGED <<config, starting, stopping, proc, port,
                 rustProcess, parakeetProcess, overlapped>>

CanRestart(r) == op[r] = "no" /\ starting # "docker" /\ stopping # "exited"

(* Mutant: the handle is dropped and the process is not killed.            *)
RestartForgets(r) ==
  /\ CanRestart(r)
  /\ OpMoves(r, CASE config = "none" -> "failed"
                  [] config # "none" /\ parakeetProcess # NoProcess -> "release"
                  [] OTHER -> "spawn")
  /\ IF config = "none" THEN UNCHANGED <<parakeetProcess, overlapped>>
     ELSE parakeetProcess' = NoProcess /\ overlapped' = Overlaps(r)
  /\ UNCHANGED <<config, starting, stopping, proc, port, rustProcess>>

(* restartParakeet() kills the process it has a handle of.                 *)
Restart(r) ==
  /\ CanRestart(r)
  /\ OpMoves(r, CASE config = "none" -> "failed"
                  [] config # "none" /\ parakeetProcess # NoProcess -> "release"
                  [] OTHER -> "spawn")
  /\ IF config = "none" THEN UNCHANGED <<proc, parakeetProcess, overlapped>>
     ELSE /\ proc' = Told({parakeetProcess}) /\ parakeetProcess' = NoProcess
          /\ overlapped' = Overlaps(r)
  /\ UNCHANGED <<config, starting, stopping, port, rustProcess>>

PortPolled(r) ==
  /\ op[r] = "release"
  /\ IF Listening THEN TriesAgain(r, MaxPolls, "failed") ELSE OpMoves(r, "spawn")
  /\ UNCHANGED <<config, starting, stopping, proc, port,
                 rustProcess, parakeetProcess, overlapped>>

(* The port is in use, or there is no virtual environment; or it spawns.   *)
Spawns(o) ==
  /\ op[o] = "spawn"
  /\ \/ OpMoves(o, "failed") /\ UNCHANGED proc
     \/ ~Listening /\ OpMoves(o, "starting") /\ proc' = [proc EXCEPT ![o] = "loading"]
  /\ UNCHANGED <<config, starting, stopping, port, rustProcess, parakeetProcess, overlapped>>

BecomesReady(o) == OpMoves(o, "done") /\ parakeetProcess' = o

(* It has printed that it listens.                                         *)
SaysReady(o) ==
  /\ op[o] = "starting" /\ proc[o] = "up"
  /\ BecomesReady(o)
  /\ UNCHANGED <<config, starting, stopping, proc, port, rustProcess, overlapped>>

(* Mutant: the check has no end.                                           *)
CheckedForEver(o) ==
  /\ op[o] = "starting"
  /\ IF Listening THEN BecomesReady(o)
     ELSE /\ ticks' = [ticks EXCEPT ![o] = 1 - @]
          /\ UNCHANGED <<op, parakeetProcess>>
  /\ UNCHANGED <<config, starting, stopping, proc, port, rustProcess, overlapped>>

(* Every 5 s: the last time it gives up, and the process goes on.  Before  *)
(* that whoever listens at the port will do.                               *)
Checked(o) ==
  /\ op[o] = "starting"
  /\ IF Listening /\ ticks[o] + 1 < MaxTicks THEN BecomesReady(o)
     ELSE TriesAgain(o, MaxTicks, "late") /\ UNCHANGED parakeetProcess
  /\ UNCHANGED <<config, starting, stopping, proc, port, rustProcess, overlapped>>

(* It could not be started, or it has exited.                              *)
ExitSeen(o) ==
  /\ op[o] = "starting" /\ proc[o] = "gone"
  /\ OpMoves(o, "failed")
  /\ UNCHANGED <<config, starting, stopping, proc, port,
                 rustProcess, parakeetProcess, overlapped>>

-----------------------------------------------------------------------------
(* stop() awaits the controller, and then kills what it has handles of.    *)
StopBegins ==
  /\ stopping = "no" /\ stopping' = "closing"
  /\ UNCHANGED <<config, starting, op, ticks, proc, port,
                 rustProcess, parakeetProcess, overlapped>>

StopKills ==
  /\ stopping = "closing" /\ stopping' = "done"
  /\ proc' = Told({rustProcess, parakeetProcess})
  /\ rustProcess' = NoProcess /\ parakeetProcess' = NoProcess
  /\ UNCHANGED <<config, starting, op, ticks, port, overlapped>>

NodeExits ==
  /\ stopping = "done" /\ stopping' = "exited"
  /\ starting' = IF starting = "up" THEN "up" ELSE "lost"
  /\ op' = [c \in Children |-> IF Running(c) THEN "lost" ELSE op[c]]
  /\ UNCHANGED <<config, ticks, proc, port, rustProcess, parakeetProcess, overlapped>>

-----------------------------------------------------------------------------
(* A process has loaded.  The second at a port fails and exits.            *)
Loads(c) ==
  /\ proc[c] = "loading"
  /\ LET binds == c = "rust" \/ ~Listening
     IN  proc' = [proc EXCEPT ![c] = IF binds THEN "up" ELSE "gone"]
  /\ port' = IF c # "rust" /\ ~Listening THEN c ELSE port
  /\ UNCHANGED <<config, starting, stopping, op, ticks, rustProcess, parakeetProcess, overlapped>>

(* It ends because it was told to, or it crashes.                          *)
Ends(c) ==
  /\ proc[c] \in {"loading", "up", "told"}
  /\ proc' = [proc EXCEPT ![c] = "gone"]
  /\ port' = IF port = c THEN "free" ELSE port
  /\ UNCHANGED <<config, starting, stopping, op, ticks, rustProcess, parakeetProcess, overlapped>>

(* The service that is not the engine's: the launcher's comes up, or it    *)
(* goes down.                                                              *)
OtherMoves ==
  /\ \/ port = "free" /\ config = "prespawned" /\ port' = "other"
     \/ port = "other" /\ port' = "free"
  /\ UNCHANGED <<config, starting, stopping, op, ticks, proc,
                 rustProcess, parakeetProcess, overlapped>>

(* What Node does by itself.                                               *)
EngineSteps(o) == Spawns(o) \/ SaysReady(o) \/ Checked(o) \/ ExitSeen(o) \/ PortPolled(o)
StartSteps == Probed \/ PortAwaited
RustSteps == RustProbed \/ RustPolled \/ RustExits

EngineNext ==
  \/ StartBegins \/ ControllerStarts \/ RustSteps \/ StartSteps
  \/ \E r \in Restarts : Restart(r)
  \/ \E o \in Ops : EngineSteps(o)
  \/ StopBegins \/ StopKills \/ NodeExits
  \/ \E c \in Children : Loads(c) \/ Ends(c)
  \/ OtherMoves

EngineSpec == EngineInit /\ [][EngineNext]_engineVars

-----------------------------------------------------------------------------
Gone(c) == op[c] \in {"late", "lost"}

(* No process of the engine's is forgotten: one that lives, and was not    *)
(* told to end, is one the engine has a handle of or is waiting for        *)
(* (rustProcess, parakeetProcess, Engine.ts:27-28, 162-179, 427, 470-490). *)
(* That holds as long as the calls for Parakeet came one after the other,  *)
(* none of them gave up on a process that was slow, and Node did not exit  *)
(* while one was starting.                                                 *)
ChildrenAreKept ==
  /\ ~Gone("rust") /\ Alive("rust") => rustProcess = "rust" \/ op["rust"] = "starting"
  /\ ~overlapped /\ (\A o \in Ops : ~Gone(o)) =>
       \A o \in Ops : Alive(o) => parakeetProcess = o \/ op[o] = "starting"

(* A start or restart of a service settles, whatever the processes and the *)
(* port do, unless Node exits; the Rust server's exit with code 0 is the   *)
(* exception (Engine.ts:586-609 and 673-703).                              *)
StartsSettle == \A c \in Children : Running(c) ~> ~Running(c)
===============================================================================
