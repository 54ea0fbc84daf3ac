----------------------------- MODULE ServiceProofs -----------------------------
(***************************************************************************)
(* The speech services, for any requests, services, restarts and limits:   *)
(* the engine's types and ChildrenAreKept, an invariant of the             *)
(* recogniser's task, and what TtsClientProofs says of the synthesiser's   *)
(* client, as theorems of the specification that has all three.            *)
(***************************************************************************)
EXTENDS MCServices, TtsClientProofs

(***************************************************************************)
(* The engine.                                                             *)
(***************************************************************************)

(* Who listens at the port is up, or was told to end and has not yet.      *)
PortInv ==
  /\ port \in Ops => proc[port] \in {"up", "told"}
  /\ \A o \in Ops : proc[o] = "up" => port = o

(* What has not been spawned is no process, and what the handle is of has  *)
(* become ready.                                                           *)
SpawnInv ==
  /\ \A c \in Children :
       op[c] \in {"no", "probe", "wait", "release", "spawn"} => proc[c] = "none"
  /\ parakeetProcess \in Ops => op[parakeetProcess] = "done"

(* The background start begins once, when the Rust server is done with.    *)
OrderInv ==
  /\ starting = "docker" => op["rust"] = "no"
  /\ op["rust"] \notin {"wait", "release", "spawn"}
  /\ op["rust"] \in {"probe", "starting"} => starting = "rust"
  /\ starting \in {"docker", "rust"} => op["start"] = "no"
  /\ op["start"] # "release"

RustInv == ~Gone("rust") /\ Alive("rust") => rustProcess = "rust" \/ op["rust"] = "starting"

Calm == ~overlapped /\ \A o \in Ops : ~Gone(o)

OneAtATime == \A o, p \in Ops : Running(o) /\ Running(p) => o = p

Kept == \A o \in Ops : Alive(o) => parakeetProcess = o \/ op[o] = "starting"

(* A restart has let go of the handle.  What the start finds there is not  *)
(* alive, because what is would listen at the port.                        *)
HandleInv ==
  /\ \A r \in Restarts : Running(r) => parakeetProcess = NoProcess
  /\ config = "prespawned" => op["start"] \notin {"spawn", "starting"}
  /\ op["start"] = "starting" /\ parakeetProcess \in Ops => ~Alive(parakeetProcess)
  /\ config # "prespawned" =>
       /\ parakeetProcess \in Ops /\ Alive(parakeetProcess) => port = parakeetProcess
       /\ \A o \in Ops : op[o] = "starting" => port \in {"free", o}

CalmInv == Calm => OneAtATime /\ Kept /\ HandleInv

EngineInv == EngineTypeOK /\ PortInv /\ SpawnInv /\ OrderInv /\ RustInv /\ CalmInv

-----------------------------------------------------------------------------
LEMMA EngineInvInit == EngineInit => EngineInv
<1> SUFFICES ASSUME EngineInit PROVE EngineInv
  OBVIOUS
<1>1. PICK cfg \in Configs, listener \in {"free", "other"} : EngineBegins(cfg, listener)
  BY DEF EngineInit
<1>2. /\ op = [c \in Children |-> "no"] /\ proc = [c \in Children |-> "none"]
      /\ starting = "docker" /\ port \in {"free", "other"}
      /\ rustProcess = NoProcess /\ parakeetProcess = NoProcess
  BY <1>1 DEF EngineBegins
<1>3. EngineTypeOK
  BY <1>1 DEF EngineBegins, EngineTypeOK, OpStates, ProcStates
<1>4. PortInv /\ SpawnInv /\ OrderInv /\ RustInv
  BY <1>2, EngineAssumption DEF PortInv, SpawnInv, OrderInv, RustInv, Alive, Ops, Children
<1>5. OneAtATime /\ Kept /\ HandleInv
  BY <1>2, EngineAssumption
  DEF OneAtATime, Kept, HandleInv, Running, Alive, Awaits, Ops, Children
<1>. QED
  BY <1>3, <1>4, <1>5 DEF EngineInv, CalmInv

LEMMA GoesOnTypes ==
  ASSUME EngineTypeOK, NEW rust \in OpStates, StartGoesOn(rust)
  PROVE  starting' = "ari" /\ op' \in [Children -> OpStates] /\ overlapped' \in BOOLEAN
<1>1. starting' = "ari" /\ op' \in [Children -> OpStates]
  BY DEF StartGoesOn, EngineTypeOK, OpStates, Awaits
<1>2. overlapped' \in BOOLEAN
  BY DEF StartGoesOn, EngineTypeOK
<1>. QED
  BY <1>1, <1>2

(* No call, process or timer of the engine leaves its types.               *)
LEMMA TypesKept == EngineTypeOK /\ [EngineNext]_engineVars => EngineTypeOK'
<1> SUFFICES ASSUME EngineTypeOK, [EngineNext]_engineVars PROVE EngineTypeOK'
  OBVIOUS
<1> USE EngineAssumption DEF EngineTypeOK, OpStates, Awaits, ProcStates, Configs, Ops, Children
<1>1. CASE StartBegins \/ ControllerStarts
  BY <1>1, GoesOnTypes DEF StartBegins, ControllerStarts
<1>2. CASE RustProbed
  BY <1>2, GoesOnTypes DEF RustProbed
<1>3. CASE RustPolled
  <2>1. CASE proc["rust"] = "up"
    BY <1>3, <2>1, GoesOnTypes DEF RustPolled
  <2>2. CASE proc["rust"] # "up" /\ ticks["rust"] + 1 >= MaxTicks
    BY <1>3, <2>2, GoesOnTypes DEF RustPolled
  <2>3. CASE proc["rust"] # "up" /\ ~(ticks["rust"] + 1 >= MaxTicks)
    BY <1>3, <2>3 DEF RustPolled
  <2>. QED
    BY <2>1, <2>2, <2>3
<1>4. CASE RustExits
  BY <1>4, GoesOnTypes DEF RustExits
<1>5. CASE Probed
  BY <1>5 DEF Probed, OpMoves
<1>6. CASE PortAwaited
  BY <1>6 DEF PortAwaited, OpMoves, TriesAgain
<1>7. ASSUME NEW r \in Restarts, Restart(r) PROVE EngineTypeOK'
  <2>1. op' \in [Children -> OpStates] /\ ticks' \in [Children -> Nat]
    BY <1>7 DEF Restart, CanRestart, OpMoves
  <2>2. proc' \in [Children -> ProcStates] /\ parakeetProcess' \in Ops \cup {NoProcess}
    BY <1>7 DEF Restart, Told
  <2>3. overlapped' \in BOOLEAN
    BY <1>7 DEF Restart, Overlaps
  <2>. QED
    BY <1>7, <2>1, <2>2, <2>3 DEF Restart
<1>8. ASSUME NEW o \in Ops, PortPolled(o) PROVE EngineTypeOK'
  BY <1>8 DEF PortPolled, OpMoves, TriesAgain
<1>9. ASSUME NEW o \in Ops, Spawns(o) PROVE EngineTypeOK'
  BY <1>9 DEF Spawns, OpMoves
<1>10. ASSUME NEW o \in Ops, SaysReady(o) \/ Checked(o) \/ ExitSeen(o) PROVE EngineTypeOK'
  BY <1>10 DEF SaysReady, Checked, ExitSeen, BecomesReady, OpMoves, TriesAgain
<1>11. CASE StopBegins \/ StopKills \/ NodeExits
  BY <1>11 DEF StopBegins, StopKills, NodeExits, Told, Running
<1>12. ASSUME NEW c \in Children, Loads(c) \/ Ends(c) PROVE EngineTypeOK'
  BY <1>12 DEF Loads, Ends, Listening
<1>13. CASE OtherMoves
  BY <1>13 DEF OtherMoves
<1>14. CASE UNCHANGED engineVars
  BY <1>14 DEF engineVars
<1>. QED
  BY <1>1, <1>2, <1>3, <1>4, <1>5, <1>6, <1>7, <1>8, <1>9, <1>10, <1>11, <1>12, <1>13, <1>14
  DEF EngineNext, RustSteps, StartSteps, EngineSteps

(* The types are correct.                                                  *)
THEOREM EngineTypeCorrect == EngineSpec => []EngineTypeOK
<1>1. EngineInit => EngineTypeOK
  BY EngineInvInit DEF EngineInv
<1>. QED
  BY <1>1, TypesKept, PTL DEF EngineSpec

-----------------------------------------------------------------------------
Records == PortInv /\ SpawnInv /\ OrderInv /\ RustInv

(* What start() does after the Rust server touches no process.             *)
LEMMA GoesOnCalls ==
  ASSUME EngineTypeOK, OrderInv, starting \in {"docker", "rust"},
         NEW rust \in {"no", "done", "failed", "late"}, StartGoesOn(rust)
  PROVE  /\ starting' = "ari" /\ op' \in [Children -> OpStates]
         /\ op'["rust"] = rust /\ op["start"] = "no" /\ op'["start"] \in {"probe", "failed"}
         /\ \A r \in Restarts : op'[r] = op[r]
  BY EngineAssumption
  DEF StartGoesOn, EngineTypeOK, OrderInv, OpStates, Awaits, Ops, Children

(* What the handles and the port say of the processes stays true.          *)
LEMMA RecordsKept == EngineTypeOK /\ Records /\ [EngineNext]_engineVars => Records'
<1> SUFFICES ASSUME EngineTypeOK, Records, [EngineNext]_engineVars PROVE Records'
  OBVIOUS
<1> USE EngineAssumption
    DEF EngineTypeOK, Records, PortInv, SpawnInv, OrderInv, RustInv, Alive, Gone,
        OpStates, Awaits, ProcStates, Ops, Children
<1>1. CASE StartBegins
  <2>1. CASE StartGoesOn("no")
    BY <1>1, <2>1, GoesOnCalls DEF StartBegins
  <2>2. CASE op' = [op EXCEPT !["rust"] = "probe"] /\ starting' = "rust"
    BY <1>1, <2>2 DEF StartBegins
  <2>. QED
    BY <1>1, <2>1, <2>2 DEF StartBegins
<1>2. CASE ControllerStarts
  BY <1>2 DEF ControllerStarts
<1>3. CASE RustProbed
  <2>1. CASE StartGoesOn("failed")
    BY <1>3, <2>1, GoesOnCalls DEF RustProbed
  <2>2. CASE /\ op' = [op EXCEPT !["rust"] = "starting"]
             /\ proc' = [proc EXCEPT !["rust"] = "loading"]
             /\ UNCHANGED <<starting, overlapped>>
    BY <1>3, <2>2 DEF RustProbed
  <2>. QED
    BY <1>3, <2>1, <2>2 DEF RustProbed
<1>4. CASE RustPolled
  <2>1. CASE proc["rust"] = "up"
    <3>1. /\ op["rust"] = "starting" /\ StartGoesOn("done") /\ rustProcess' = "rust"
          /\ UNCHANGED <<proc, port, parakeetProcess>>
      BY <1>4, <2>1 DEF RustPolled
    <3>. QED
      BY <3>1, GoesOnCalls
  <2>2. CASE proc["rust"] # "up" /\ ticks["rust"] + 1 >= MaxTicks
    <3>1. /\ op["rust"] = "starting" /\ StartGoesOn("late")
          /\ UNCHANGED <<proc, port, parakeetProcess>>
      BY <1>4, <2>2 DEF RustPolled
    <3>. QED
      BY <3>1, GoesOnCalls
  <2>3. CASE proc["rust"] # "up" /\ ~(ticks["rust"] + 1 >= MaxTicks)
    BY <1>4, <2>3 DEF RustPolled
  <2>. QED
    BY <2>1, <2>2, <2>3
<1>5. CASE RustExits
  <2>1. CASE StartGoesOn("failed")
    <3>1. op["rust"] = "starting" /\ proc["rust"] = "gone" /\ UNCHANGED <<proc, port, parakeetProcess>>
      BY <1>5 DEF RustExits
    <3>. QED
      BY <3>1, <2>1, GoesOnCalls
  <2>2. CASE op' = [op EXCEPT !["rust"] = "hung"] /\ UNCHANGED <<starting, overlapped>>
    BY <1>5, <2>2 DEF RustExits
  <2>. QED
    BY <1>5, <2>1, <2>2 DEF RustExits
<1>6. CASE Probed
  BY <1>6 DEF Probed, OpMoves
<1>7. CASE PortAwaited
  BY <1>7 DEF PortAwaited, OpMoves, TriesAgain
<1>8. ASSUME NEW r \in Restarts, Restart(r) PROVE Records'
  BY <1>8 DEF Restart, CanRestart, OpMoves, Told
<1>9. ASSUME NEW o \in Ops, PortPolled(o) PROVE Records'
  BY <1>9 DEF PortPolled, OpMoves, TriesAgain
<1>10. ASSUME NEW o \in Ops, Spawns(o) PROVE Records'
  BY <1>10 DEF Spawns, OpMoves, Listening
<1>11. ASSUME NEW o \in Ops, SaysReady(o) \/ Checked(o) \/ ExitSeen(o) PROVE Records'
  BY <1>11 DEF SaysReady, Checked, ExitSeen, BecomesReady, OpMoves, TriesAgain
<1>12. CASE StopBegins
  BY <1>12 DEF StopBegins
<1>13. CASE StopKills
  BY <1>13 DEF StopKills, Told
<1>14. CASE NodeExits
  BY <1>14 DEF NodeExits, Running
<1>15. ASSUME NEW c \in Children, Loads(c) PROVE Records'
  BY <1>15 DEF Loads, Listening
<1>16. ASSUME NEW c \in Children, Ends(c) PROVE Records'
  BY <1>16 DEF Ends
<1>17. CASE OtherMoves
  BY <1>17 DEF OtherMoves
<1>18. CASE UNCHANGED engineVars
  BY <1>18 DEF engineVars
<1>. QED
  BY <1>1, <1>2, <1>3, <1>4, <1>5, <1>6, <1>7, <1>8, <1>9, <1>10, <1>11, <1>12, <1>13, <1>14,
     <1>15, <1>16, <1>17, <1>18
  DEF EngineNext, RustSteps, StartSteps, EngineSteps

-----------------------------------------------------------------------------
CalmState == OneAtATime /\ Kept /\ HandleInv

(* Steps that concern the Rust server, or nothing the invariant is about.  *)
LEMMA CalmUntouched ==
  ASSUME EngineInv, Calm', \A o \in Ops : op'[o] = op[o] /\ proc'[o] = proc[o],
         UNCHANGED <<config, port, parakeetProcess, overlapped>>
  PROVE  CalmState'
<1>1. Calm
  BY DEF Calm, Gone
<1>. QED
  BY <1>1, EngineAssumption
  DEF EngineInv, EngineTypeOK, CalmInv, CalmState, OneAtATime, Kept, HandleInv, Running, Alive, Ops

(* The background start begins: alone, or the calls have overlapped.       *)
LEMMA CalmGoesOn ==
  ASSUME EngineInv, Calm', starting \in {"docker", "rust"},
         NEW rust \in {"no", "done", "failed", "late"}, StartGoesOn(rust),
         \A o \in Ops : proc'[o] = proc[o],
         UNCHANGED <<config, port, parakeetProcess>>
  PROVE  CalmState'
<1>1. /\ op["start"] = "no" /\ op'["start"] \in {"probe", "failed"}
      /\ \A r \in Restarts : op'[r] = op[r]
  BY GoesOnCalls DEF EngineInv
<1>2. Calm
  BY <1>1 DEF Calm, Gone, StartGoesOn, Ops
<1>3. op'["start"] = "probe" => \A p \in Ops \ {"start"} : ~Running(p)
  BY <1>1, EngineAssumption
  DEF Calm, StartGoesOn, Overlaps, EngineInv, EngineTypeOK, Ops, Children
<1>. QED
  BY <1>1, <1>2, <1>3, EngineAssumption
  DEF EngineInv, EngineTypeOK, CalmInv, CalmState, OneAtATime, Kept, HandleInv, Running, Alive,
      Awaits, Ops

(* A call moves on or ends, and leaves processes and handle alone.         *)
LEMMA CalmMoves ==
  ASSUME EngineInv, Calm', NEW o \in Ops, Running(o), NEW to \in OpStates,
         op' = [op EXCEPT ![o] = to],
         \/ to \in {"failed", "done", "wait", "late"}
         \/ to = "spawn" /\ (config # "prespawned" \/ o \in Restarts),
         op[o] = "starting" => ~Alive(o),
         UNCHANGED <<config, proc, port, parakeetProcess, overlapped>>
  PROVE  CalmState'
<1>1. Calm
  BY DEF Calm, Gone, EngineInv, EngineTypeOK, Children, Running, Awaits
<1>. QED
  BY <1>1, EngineAssumption
  DEF EngineInv, EngineTypeOK, CalmInv, CalmState, OneAtATime, Kept, HandleInv, Running, Alive,
      Awaits, OpStates, Ops, Children

(* It is ready: it listens at the port itself, and the handle was free or  *)
(* of a process that is gone.                                              *)
LEMMA CalmReady ==
  ASSUME EngineInv, Calm', NEW o \in Ops, op[o] = "starting",
         proc[o] = "up" \/ Listening, BecomesReady(o),
         UNCHANGED <<config, proc, port, overlapped>>
  PROVE  CalmState'
<1> USE EngineAssumption DEF Ops, Children
<1>1. /\ op' = [op EXCEPT ![o] = "done"] /\ parakeetProcess' = o
      /\ op \in [Children -> OpStates] /\ Running(o)
  BY DEF BecomesReady, OpMoves, EngineInv, EngineTypeOK, Running, Awaits
<1>2. Calm
  BY <1>1 DEF Calm, Gone
<1>3. OneAtATime /\ Kept /\ HandleInv
  BY <1>2 DEF EngineInv, CalmInv
<1>4. \A p \in Ops \ {o} : ~Alive(p)
  BY <1>1, <1>3 DEF OneAtATime, Kept, HandleInv, Running, Awaits
<1>5. \A p \in Ops : ~Running(p)'
  BY <1>1, <1>3 DEF OneAtATime, Running, Awaits
<1>6. config # "prespawned" => port = o
  BY <1>3 DEF HandleInv, Listening, EngineInv, PortInv
<1>. QED
  BY <1>1, <1>3, <1>4, <1>5, <1>6
  DEF CalmState, OneAtATime, Kept, HandleInv, Running, Alive, Awaits

(* While calls for Parakeet come one after the other and none has given up *)
(* on a process, each process has its handle or its call.                  *)
LEMMA CalmKept == EngineInv /\ [EngineNext]_engineVars /\ Calm' => CalmState'
<1> SUFFICES ASSUME EngineInv, [EngineNext]_engineVars, Calm' PROVE CalmState'
  OBVIOUS
<1> USE EngineAssumption DEF Ops, Children
<1>0. EngineTypeOK /\ OrderInv
  BY DEF EngineInv
<1>1. CASE StartBegins
  <2>1. CASE StartGoesOn("no")
    BY <1>1, <2>1, CalmGoesOn DEF StartBegins
  <2>2. CASE op' = [op EXCEPT !["rust"] = "probe"] /\ UNCHANGED overlapped
    BY <1>0, <1>1, <2>2, CalmUntouched DEF StartBegins, EngineTypeOK
  <2>. QED
    BY <1>1, <2>1, <2>2 DEF StartBegins
<1>2. CASE ControllerStarts
  BY <1>2, CalmUntouched DEF ControllerStarts
<1>3. CASE RustProbed
  <2>1. CASE StartGoesOn("failed") /\ UNCHANGED proc
    BY <1>0, <1>3, <2>1, CalmGoesOn DEF RustProbed, OrderInv
  <2>2. CASE /\ op' = [op EXCEPT !["rust"] = "starting"]
             /\ proc' = [proc EXCEPT !["rust"] = "loading"]
             /\ UNCHANGED <<starting, overlapped>>
    BY <1>0, <1>3, <2>2, CalmUntouched DEF RustProbed, EngineTypeOK
  <2>. QED
    BY <1>3, <2>1, <2>2 DEF RustProbed
<1>4. CASE RustPolled
  <2>1. CASE StartGoesOn("done") \/ StartGoesOn("late")
    BY <1>0, <1>4, <2>1, CalmGoesOn DEF RustPolled, OrderInv
  <2>2. CASE UNCHANGED <<op, overlapped>>
    BY <1>0, <1>4, <2>2, CalmUntouched DEF RustPolled
  <2>3. (StartGoesOn("done") \/ StartGoesOn("late")) \/ UNCHANGED <<op, overlapped>>
    BY <1>4 DEF RustPolled
  <2>. QED
    BY <2>1, <2>2, <2>3
<1>5. CASE RustExits
  <2>1. CASE StartGoesOn("failed")
    BY <1>0, <1>5, <2>1, CalmGoesOn DEF RustExits, OrderInv
  <2>2. CASE op' = [op EXCEPT !["rust"] = "hung"] /\ UNCHANGED <<starting, overlapped>>
    BY <1>0, <1>5, <2>2, CalmUntouched DEF RustExits, EngineTypeOK
  <2>. QED
    BY <1>5, <2>1, <2>2 DEF RustExits
<1>6. CASE Probed
  <2>1. PICK to \in {"failed", "wait", "spawn"} :
           op' = [op EXCEPT !["start"] = to] /\ (to = "spawn" => config # "prespawned")
    BY <1>6 DEF Probed, OpMoves
  <2>2. /\ op["start"] = "probe" /\ Running("start") /\ to \in OpStates
        /\ UNCHANGED <<config, proc, port, parakeetProcess, overlapped>>
    BY <1>6 DEF Probed, Running, Awaits, OpStates
  <2>. QED
    BY <2>1, <2>2, CalmMoves
<1>7. CASE PortAwaited
  <2>1. CASE UNCHANGED op
    BY <1>7, <2>1, CalmUntouched DEF PortAwaited
  <2>2. CASE \E to \in {"failed", "done"} : op' = [op EXCEPT !["start"] = to]
    <3>1. /\ op["start"] = "wait" /\ Running("start") /\ {"failed", "done"} \subseteq OpStates
          /\ UNCHANGED <<config, proc, port, parakeetProcess, overlapped>>
      BY <1>7 DEF PortAwaited, Running, Awaits, OpStates
    <3>. QED
      BY <2>2, <3>1, CalmMoves
  <2>. QED
    BY <1>7, <2>1, <2>2 DEF PortAwaited, OpMoves, TriesAgain
<1>8. ASSUME NEW r \in Restarts, Restart(r) PROVE CalmState'
  <2>1. CASE config = "none"
    <3>1. op' = [op EXCEPT ![r] = "failed"] /\ op[r] = "no"
          /\ UNCHANGED <<config, proc, port, parakeetProcess, overlapped>>
      BY <1>8, <2>1 DEF Restart, CanRestart, OpMoves
    <3>2. Calm
      BY <1>0, <3>1 DEF Calm, Gone, EngineTypeOK
    <3>. QED
      BY <1>0, <3>1, <3>2
      DEF EngineInv, EngineTypeOK, CalmInv, CalmState, OneAtATime, Kept, HandleInv, Running,
          Alive, Awaits
  <2>2. CASE config # "none"
    <3>1. /\ op[r] = "no" /\ parakeetProcess' = NoProcess /\ overlapped' = Overlaps(r)
          /\ proc' = Told({parakeetProcess}) /\ UNCHANGED <<config, port>>
          /\ \E to \in {"release", "spawn"} : op' = [op EXCEPT ![r] = to]
      BY <1>8, <2>2 DEF Restart, CanRestart, OpMoves
    <3>2. Calm /\ \A p \in Ops \ {r} : ~Running(p)
      BY <1>0, <3>1 DEF Calm, Gone, Overlaps, EngineTypeOK
    <3>3. \A o \in Ops : ~Alive(o)'
      BY <1>0, <3>1, <3>2
      DEF EngineInv, EngineTypeOK, CalmInv, Kept, Told, Alive, Running, Awaits, ProcStates
    <3>. QED
      BY <1>0, <3>1, <3>2, <3>3
      DEF EngineTypeOK, CalmState, OneAtATime, Kept, HandleInv, Running, Awaits
  <2>. QED
    BY <2>1, <2>2
<1>9. ASSUME NEW o \in Ops, PortPolled(o) PROVE CalmState'
  <2>0. /\ op[o] = "release" /\ o \in Restarts /\ Running(o)
        /\ {"failed", "spawn"} \subseteq OpStates
        /\ UNCHANGED <<config, proc, port, parakeetProcess, overlapped>>
    BY <1>0, <1>9 DEF PortPolled, OrderInv, OpStates, Awaits, Running
  <2>1. CASE UNCHANGED op
    BY <1>9, <2>1, CalmUntouched DEF PortPolled
  <2>2. CASE op' = [op EXCEPT ![o] = "failed"]
    BY <2>0, <2>2, CalmMoves
  <2>3. CASE op' = [op EXCEPT ![o] = "spawn"]
    BY <2>0, <2>3, CalmMoves
  <2>. QED
    BY <1>9, <2>1, <2>2, <2>3 DEF PortPolled, OpMoves, TriesAgain
<1>10. ASSUME NEW o \in Ops, Spawns(o) PROVE CalmState'
  <2>1. CASE op' = [op EXCEPT ![o] = "failed"] /\ UNCHANGED proc
    <3>1. /\ op[o] = "spawn" /\ Running(o) /\ "failed" \in OpStates
          /\ UNCHANGED <<config, port, parakeetProcess, overlapped>>
      BY <1>10 DEF Spawns, OpStates, Awaits, Running
    <3>. QED
      BY <2>1, <3>1, CalmMoves
  <2>2. CASE /\ port = "free" /\ op' = [op EXCEPT ![o] = "starting"]
             /\ proc' = [proc EXCEPT ![o] = "loading"]
    <3>1. /\ op[o] = "spawn" /\ Calm /\ UNCHANGED <<config, port, parakeetProcess>>
      BY <1>0, <1>10, <2>2 DEF Spawns, Calm, Gone, EngineTypeOK
    <3>2. OneAtATime /\ Kept /\ HandleInv /\ proc[o] = "none" /\ parakeetProcess # o
      BY <3>1 DEF EngineInv, CalmInv, SpawnInv
    <3>. QED
      BY <1>0, <2>2, <3>1, <3>2
      DEF EngineTypeOK, CalmState, OneAtATime, Kept, HandleInv, Running, Alive, Awaits
  <2>. QED
    BY <1>10, <2>1, <2>2 DEF Spawns, OpMoves, Listening
<1>11. ASSUME NEW o \in Ops, SaysReady(o) PROVE CalmState'
  BY <1>11, CalmReady DEF SaysReady
<1>12. ASSUME NEW o \in Ops, Checked(o) PROVE CalmState'
  <2>1. CASE Listening /\ BecomesReady(o)
    BY <1>12, <2>1, CalmReady DEF Checked
  <2>2. CASE UNCHANGED <<op, parakeetProcess>>
    BY <1>12, <2>2, CalmUntouched DEF Checked
  <2>3. CASE op' = [op EXCEPT ![o] = "late"]
    BY <1>0, <2>3 DEF Calm, Gone, EngineTypeOK
  <2>. QED
    BY <1>12, <2>1, <2>2, <2>3 DEF Checked, TriesAgain, OpMoves
<1>13. ASSUME NEW o \in Ops, ExitSeen(o) PROVE CalmState'
  <2>1. /\ Running(o) /\ ~Alive(o) /\ "failed" \in OpStates /\ op' = [op EXCEPT ![o] = "failed"]
        /\ UNCHANGED <<config, proc, port, parakeetProcess, overlapped>>
    BY <1>13 DEF ExitSeen, OpMoves, OpStates, Awaits, Running, Alive
  <2>. QED
    BY <2>1, CalmMoves
<1>14. CASE StopBegins
  BY <1>14, CalmUntouched DEF StopBegins
<1>15. CASE StopKills
  <2>1. /\ parakeetProcess' = NoProcess /\ UNCHANGED <<config, op, port, overlapped>>
        /\ \A o \in Ops : (Alive(o))' => Alive(o) /\ o # parakeetProcess
    BY <1>0, <1>15 DEF StopKills, Told, Alive
  <2>2. Calm /\ OneAtATime /\ Kept /\ HandleInv
    BY <2>1 DEF Calm, Gone, EngineInv, CalmInv
  <2>. QED
    BY <2>1, <2>2 DEF CalmState, OneAtATime, Kept, HandleInv, Running
<1>16. CASE NodeExits
  <2>1. \A o \in Ops : Running(o) => op'[o] = "lost"
    BY <1>16 DEF NodeExits
  <2>2. \A o \in Ops : ~Running(o) /\ op'[o] = op[o]
    BY <1>16, <2>1 DEF NodeExits, Calm, Gone
  <2>. QED
    BY <1>16, <2>2, CalmUntouched DEF NodeExits
<1>17. ASSUME NEW c \in Children, Loads(c) PROVE CalmState'
  <2>1. CASE c = "rust"
    BY <1>0, <1>17, <2>1, CalmUntouched DEF Loads, EngineTypeOK
  <2>2. CASE c \in Ops
    <3>1. /\ proc[c] = "loading" /\ UNCHANGED <<config, op, parakeetProcess, overlapped>>
          /\ IF port = "free" THEN port' = c /\ proc' = [proc EXCEPT ![c] = "up"]
                              ELSE port' = port /\ proc' = [proc EXCEPT ![c] = "gone"]
      BY <1>0, <1>17, <2>2 DEF Loads, Listening
    <3>2. Calm /\ OneAtATime /\ Kept /\ HandleInv
      BY <3>1 DEF Calm, Gone, EngineInv, CalmInv
    <3>3. port = "free" /\ config # "prespawned" => op[c] = "starting"
      BY <2>2, <3>1, <3>2 DEF Kept, HandleInv, Alive
    <3>. QED
      BY <1>0, <2>2, <3>1, <3>2, <3>3
      DEF EngineTypeOK, CalmState, OneAtATime, Kept, HandleInv, Running, Alive, Awaits
  <2>. QED
    BY <2>1, <2>2
<1>18. ASSUME NEW c \in Children, Ends(c) PROVE CalmState'
  <2>1. /\ proc' = [proc EXCEPT ![c] = "gone"]
        /\ port' = IF port = c THEN "free" ELSE port
        /\ UNCHANGED <<config, op, parakeetProcess, overlapped>>
    BY <1>18 DEF Ends
  <2>2. Calm => OneAtATime /\ Kept /\ HandleInv
    BY DEF EngineInv, CalmInv
  <2>3. Calm
    BY <2>1 DEF Calm, Gone
  <2>. QED
    BY <1>0, <2>1, <2>2, <2>3
    DEF EngineTypeOK, CalmState, OneAtATime, Kept, HandleInv, Running, Alive
<1>19. CASE OtherMoves
  <2>1. /\ UNCHANGED <<config, op, proc, parakeetProcess, overlapped>>
        /\ config = "prespawned" \/ port' = "free"
    BY <1>0, <1>19 DEF OtherMoves, EngineTypeOK
  <2>2. port = "other" \/ port = "free"
    BY <1>19 DEF OtherMoves
  <2>3. Calm /\ OneAtATime /\ Kept /\ HandleInv
    BY <2>1 DEF Calm, Gone, EngineInv, CalmInv
  <2>. QED
    BY <2>1, <2>2, <2>3 DEF CalmState, OneAtATime, Kept, HandleInv, Running, Alive
<1>20. CASE UNCHANGED engineVars
  BY <1>20, CalmUntouched DEF engineVars
<1>. QED
  BY <1>1, <1>2, <1>3, <1>4, <1>5, <1>6, <1>7, <1>8, <1>9, <1>10, <1>11, <1>12, <1>13, <1>14,
     <1>15, <1>16, <1>17, <1>18, <1>19, <1>20
  DEF EngineNext, RustSteps, StartSteps, EngineSteps

-----------------------------------------------------------------------------
LEMMA EngineStep == EngineInv /\ [EngineNext]_engineVars => EngineInv'
BY TypesKept, RecordsKept, CalmKept DEF EngineInv, Records, CalmInv, CalmState

(* The invariant holds whatever the processes, the port and the dashboard  *)
(* do (Engine.ts:53-180 and 283-710).                                      *)
THEOREM EngineInvariant == EngineSpec => []EngineInv
BY EngineInvInit, EngineStep, PTL DEF EngineSpec

(* ChildrenAreKept: no process is forgotten.                               *)
THEOREM NoChildIsForgotten == EngineSpec => []ChildrenAreKept
<1>1. EngineInv => ChildrenAreKept
  BY DEF EngineInv, ChildrenAreKept, RustInv, CalmInv, Calm, Kept
<1>. QED
  BY <1>1, EngineInvariant, PTL

-----------------------------------------------------------------------------
(***************************************************************************)
(* The recogniser's task.                                                  *)
(***************************************************************************)

(* Audio is counted once, in the channel or in the buffer.                 *)
AudioInv == stt.channel + stt.buffer <= stt.chunks

(* A connection that is given up leaves nothing behind it.                 *)
GivenUpInv == stt.pc # "streaming" => stt.buffer = 0 /\ ~stt.broken

(* The task ends for no other reason than that its session is removed,     *)
(* and then it has taken what had come (transcription.rs:38-106, 171-178). *)
EndsWithSession == stt.pc = "ended" => stt.removed /\ stt.channel = 0 /\ stt.buffer = 0

SttInv == SttTypeOK /\ AudioInv /\ GivenUpInv /\ EndsWithSession

(* An attempt that fails goes on with the same service or with another.    *)
LEMMA FailedRecord ==
  ASSUME NEW t \in SttRecords
  PROVE  /\ Failed(t) \in SttRecords
         /\ Failed(t).pc \in {"waiting", "draining"} /\ Failed(t).buffer = 0
         /\ ~Failed(t).broken /\ Failed(t).removed = t.removed
         /\ Failed(t).channel = t.channel /\ Failed(t).chunks = t.chunks
<1> DEFINE next == (t.service % Services) + 1
<1>1. /\ Services \in Nat \ {0} /\ MaxRetries \in Nat \ {0} /\ MaxChunks \in Nat
      /\ t.service \in 1..Services /\ t.retries \in 0..(MaxRetries - 1)
  BY TranscriptionAssumption DEF SttRecords
<1>2. next \in 1..Services /\ 0 \in 0..(MaxRetries - 1) /\ 0 \in 0..MaxChunks
  BY <1>1
<1>3. CASE t.retries + 1 >= MaxRetries
  BY <1>2, <1>3 DEF Failed, SttRecords
<1>4. CASE ~(t.retries + 1 >= MaxRetries)
  <2>1. t.retries + 1 \in 0..(MaxRetries - 1)
    BY <1>1, <1>4
  <2>. QED
    BY <1>2, <1>4, <2>1 DEF Failed, SttRecords
<1>. QED
  BY <1>3, <1>4

LEMMA SttFails == ASSUME SttInv, stt' = Failed(stt) PROVE SttInv'
<1>1. stt \in SttRecords
  BY DEF SttInv, SttTypeOK, SttRecords
<1>2. stt' \in SttRecords
  BY <1>1, FailedRecord
<1>3. /\ stt'.pc \in {"waiting", "draining"} /\ stt'.buffer = 0 /\ ~stt'.broken
      /\ stt'.channel = stt.channel /\ stt'.chunks = stt.chunks
  BY <1>1, FailedRecord
<1>4. stt.channel \in Nat /\ stt.buffer \in Nat /\ stt.chunks \in Nat
  BY <1>1, TranscriptionAssumption DEF SttRecords
<1>5. stt.channel + stt.buffer <= stt.chunks
  BY DEF SttInv, AudioInv
<1>6. AudioInv'
  BY <1>3, <1>4, <1>5 DEF AudioInv
<1>. QED
  BY <1>2, <1>3, <1>6 DEF SttInv, SttTypeOK, SttRecords, GivenUpInv, EndsWithSession

LEMMA SttInvKept == SttInv /\ [SttNext]_stt => SttInv'
<1> SUFFICES ASSUME SttInv, [SttNext]_stt PROVE SttInv'
  OBVIOUS
<1> USE DEF SttInv, SttTypeOK, SttRecords, AudioInv, GivenUpInv, EndsWithSession
<1>0. /\ Services \in Nat \ {0} /\ MaxRetries \in Nat \ {0} /\ MaxChannel \in Nat \ {0}
      /\ MaxChunks \in Nat /\ MaxBreaks \in Nat
  BY TranscriptionAssumption
<1>a. /\ stt.channel \in 0..MaxChannel /\ stt.buffer \in 0..MaxChunks
      /\ stt.chunks \in 0..MaxChunks /\ stt.breaks \in 0..MaxBreaks
      /\ stt.channel + stt.buffer <= stt.chunks
  OBVIOUS
<1>1. CASE AudioComes
  <2>1. stt.chunks + 1 \in 0..MaxChunks
    BY <1>0, <1>a, <1>1 DEF AudioComes
  <2>2. CASE stt.channel < MaxChannel
    <3>1. stt' = [stt EXCEPT !.chunks = @ + 1, !.channel = @ + 1]
      BY <1>1, <2>2 DEF AudioComes
    <3>2. /\ stt.channel + 1 \in 0..MaxChannel
          /\ (stt.channel + 1) + stt.buffer <= stt.chunks + 1
      BY <1>0, <1>a, <2>2
    <3>. QED
      BY <1>1, <2>1, <3>1, <3>2 DEF AudioComes
  <2>3. CASE ~(stt.channel < MaxChannel)
    <3>1. stt' = [stt EXCEPT !.chunks = @ + 1]
      BY <1>1, <2>3 DEF AudioComes
    <3>2. stt.channel + stt.buffer <= stt.chunks + 1
      BY <1>0, <1>a
    <3>. QED
      BY <1>1, <2>1, <3>1, <3>2 DEF AudioComes
  <2>. QED
    BY <2>2, <2>3
<1>2. CASE SessionRemoved
  BY <1>2 DEF SessionRemoved
<1>3. CASE Breaks
  <2>1. stt.breaks + 1 \in 0..MaxBreaks
    BY <1>0, <1>a, <1>3 DEF Breaks
  <2>2. PICK up \in SUBSET (1..Services) :
          stt' = [stt EXCEPT !.broken = TRUE, !.breaks = @ + 1, !.up = up]
    BY <1>3 DEF Breaks
  <2>. QED
    BY <1>3, <2>1, <2>2 DEF Breaks
<1>4. CASE Connects
  BY <1>4, SttFails DEF Connects
<1>5. CASE TakesAudio
  <2>1. stt.channel - 1 \in 0..MaxChannel /\ stt.buffer + 1 \in 0..MaxChunks
    BY <1>0, <1>a, <1>5 DEF TakesAudio
  <2>2. (stt.channel - 1) + (stt.buffer + 1) <= stt.chunks
    BY <1>a, <1>0
  <2>. QED
    BY <1>5, <2>1, <2>2 DEF TakesAudio
<1>6. CASE Flushes
  <2>1. 0 \in 0..MaxChunks /\ stt.channel + 0 <= stt.chunks
    BY <1>0, <1>a
  <2>2. CASE stt' = [stt EXCEPT !.buffer = 0]
    BY <1>6, <2>1, <2>2 DEF Flushes
  <2>. QED
    BY <1>6, <2>2, SttFails DEF Flushes
<1>7. CASE NoticesBreak
  BY <1>7, SttFails DEF NoticesBreak
<1>8. CASE AudioEnds
  <2>1. 0 \in 0..MaxChunks /\ stt.channel + 0 <= stt.chunks
    BY <1>0, <1>a
  <2>2. stt' \in SttRecords
    BY <1>8, <2>1 DEF AudioEnds
  <2>3. /\ stt'.pc = "ended" /\ stt'.buffer = 0 /\ ~stt'.broken /\ stt'.removed
        /\ stt'.channel = stt.channel /\ stt'.chunks = stt.chunks /\ stt.channel = 0
    BY <1>8 DEF AudioEnds
  <2>. QED
    BY <2>1, <2>2, <2>3
<1>9. CASE Wakes
  BY <1>9 DEF Wakes
<1>10. CASE Drains
  <2>1. 0 \in 0..MaxChannel /\ 0 + stt.buffer <= stt.chunks
    BY <1>0, <1>a
  <2>2. stt' \in SttRecords
    BY <1>10, <2>1 DEF Drains
  <2>3. /\ stt'.channel = 0 /\ stt'.chunks = stt.chunks
        /\ stt'.buffer = stt.buffer /\ stt'.broken = stt.broken
        /\ stt'.removed = stt.removed /\ stt'.pc \in {"ended", "connecting"}
        /\ stt'.pc = "ended" => stt.removed
    BY <1>10 DEF Drains
  <2>4. stt.buffer = 0 /\ ~stt.broken
    BY <1>10 DEF Drains
  <2>. QED
    BY <2>1, <2>2, <2>3, <2>4
<1>11. CASE UNCHANGED stt
  BY <1>11
<1>. QED
  BY <1>1, <1>2, <1>3, <1>4, <1>5, <1>6, <1>7, <1>8, <1>9, <1>10, <1>11 DEF SttNext, SttTask

LEMMA SttInvInit == SttInit \/ SttRests => SttInv
<1>1. /\ Services \in Nat \ {0} /\ MaxRetries \in Nat \ {0} /\ MaxChannel \in Nat \ {0}
      /\ MaxChunks \in Nat /\ MaxBreaks \in Nat
  BY TranscriptionAssumption
<1>2. /\ 1 \in 1..Services /\ 0 \in 0..(MaxRetries - 1) /\ 0 \in 0..MaxChannel
      /\ 0 \in 0..MaxChunks /\ 0 \in 0..MaxBreaks
  BY <1>1
<1>3. ASSUME NEW up \in SUBSET (1..Services)
      PROVE  SttBegins(up) \in SttRecords
  BY <1>2 DEF SttBegins, SttRecords
<1>4. CASE SttInit
  BY <1>3, <1>4
  DEF SttInit, SttBegins, SttInv, SttTypeOK, AudioInv, GivenUpInv, EndsWithSession
<1>5. CASE SttRests
  <2>1. SttBegins({}) \in SttRecords
    BY <1>3
  <2>2. stt \in SttRecords
    BY <1>5, <2>1 DEF SttRests, SttRecords
  <2>3. /\ stt.channel = 0 /\ stt.buffer = 0 /\ stt.chunks = 0 /\ ~stt.broken /\ stt.removed
        /\ stt.pc = "ended"
    BY <1>5 DEF SttRests, SttBegins
  <2>. QED
    BY <2>2, <2>3 DEF SttInv, SttTypeOK, AudioInv, GivenUpInv, EndsWithSession
<1>. QED
  BY <1>4, <1>5

-----------------------------------------------------------------------------
(***************************************************************************)
(* The three together.  A step is of one of them and leaves the others     *)
(* alone, so each keeps what it keeps by itself.                           *)
(***************************************************************************)
Parts == {"tts", "stt", "engine"}

ServicesInv == Inv /\ SttInv /\ EngineInv /\ part \in Parts

LEMMA ServicesInit == Init => ServicesInv
<1> SUFFICES ASSUME Init PROVE ServicesInv
  OBVIOUS
<1>1. EngineRests => EngineInit
  BY DEF EngineRests, EngineInit, Configs
<1>2. TtsClientInit /\ (SttInit \/ SttRests) /\ EngineInit /\ part \in Parts
  BY <1>1 DEF Init, Parts
<1>. QED
  BY <1>2, InitInv, SttInvInit, EngineInvInit DEF ServicesInv

LEMMA StepsOfParts ==
  [Next]_serviceVars =>
    /\ [TtsClientNext]_ttsVars /\ [SttNext]_stt /\ [EngineNext]_engineVars
    /\ UNCHANGED part
BY DEF Next, OfTts, OfStt, OfEngine, serviceVars

LEMMA ServicesStep == ServicesInv /\ [Next]_serviceVars => ServicesInv'
<1> SUFFICES ASSUME ServicesInv, [Next]_serviceVars PROVE ServicesInv'
  OBVIOUS
<1>1. Inv'
  BY StepsOfParts, Step DEF ServicesInv
<1>2. SttInv'
  BY StepsOfParts, SttInvKept DEF ServicesInv
<1>3. EngineInv'
  BY StepsOfParts, EngineStep DEF ServicesInv
<1>4. part' \in Parts
  BY StepsOfParts DEF ServicesInv
<1>. QED
  BY <1>1, <1>2, <1>3, <1>4 DEF ServicesInv

(* What holds of the speech services, whatever their connections,          *)
(* processes and callers do.                                               *)
THEOREM ServicesInvariant == Spec => []ServicesInv
  BY ServicesInit, ServicesStep, PTL DEF Spec

(* Each of the three has its types: the client's queues (TtsClient.ts:     *)
(* 44-59), the service and the retries of the recogniser's task            *)
(* (transcription.rs:34-36) and the engine's handles (Engine.ts:27-28).    *)
THEOREM ServicesAreTyped == Spec => []ServicesTypeOK
<1>1. ServicesInv => ServicesTypeOK
  BY DEF ServicesInv, Inv, SttInv, EngineInv, ServicesTypeOK, Parts
<1>. QED
  BY <1>1, ServicesInvariant, PTL

(* The client of the synthesiser keeps its promises here too, because      *)
(* nothing but its own steps touches its state.                            *)
THEOREM ServicesRefineClient == Spec => TtsClientSpec
<1>1. Init => TtsClientInit
  BY DEF Init
<1>2. [Next]_serviceVars => [TtsClientNext]_ttsVars
  BY StepsOfParts
<1>. QED
  BY <1>1, <1>2, PTL DEF Spec, TtsClientSpec

(* So it is with the engine, which is at rest when it is not looked at.    *)
THEOREM ServicesRefineEngine == Spec => EngineSpec
<1>1. Init => EngineInit
  BY DEF Init, EngineRests, EngineInit, Configs
<1>2. [Next]_serviceVars => [EngineNext]_engineVars
  BY StepsOfParts
<1>. QED
  BY <1>1, <1>2, PTL DEF Spec, EngineSpec

(* What the run of the three checks of the client and of the engine        *)
(* therefore holds of them together (TtsClient.ts:132-151, 204-252,        *)
(* Engine.ts:162-179 and 470-490).                                         *)
THEOREM ServicesKeepWhatTheyHold ==
  Spec => [](PendingIsHeld /\ OwnAudioUnlessLate /\ ChildrenAreKept)
BY ServicesRefineClient, ServicesRefineEngine, PromisesAreHeld, OwnAudio, NoChildIsForgotten, PTL

(* The recogniser's task does not stop while its session lives, however    *)
(* many services refuse or break, and once it has stopped it has left no   *)
(* audio (transcription.rs:38-106 and 171-178).                            *)
THEOREM RecogniserStays == Spec => []EndsWithSession
<1>1. ServicesInv => EndsWithSession
  BY DEF ServicesInv, SttInv
<1>. QED
  BY <1>1, ServicesInvariant, PTL
===============================================================================
