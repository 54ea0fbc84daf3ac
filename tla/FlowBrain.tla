------------------------------- MODULE FlowBrain -------------------------------
(***************************************************************************)
(* assistants/brains/FlowBrain.ts: the brain that walks a call through a   *)
(* graph of messages, menus, questions, requests, transfers and hang-ups.  *)
(*                                                                         *)
(* transitionTo() is a task that runs from prompt to prompt.  A prompt is  *)
(* a sound file played to the channel, or a text said through speak().     *)
(* Nodes that only compute (trigger, condition, set_variable) are no nodes *)
(* of the model: `next` is the set of nodes they may lead to.              *)
(***************************************************************************)
EXTENDS BrainHarness

CONSTANTS
  Flow,         (* the graph: node -> [type, next, options, otherwise]      *)
  StartNode,
  MaxRetries    (* timeout.retries                                          *)

(* next       where the node leads: {} if it has no valid next              *)
(* options    for a menu, where its keys lead                               *)
(* otherwise  timeout.next of a menu or errorNext of a request, {} if none  *)
Nodes == DOMAIN Flow

NodeTypes == {"message", "menu", "collect", "transfer", "hangup", "http_request"}

ASSUME FlowAssumption ==
  /\ StartNode \in Nodes /\ "none" \notin Nodes /\ MaxRetries \in Nat
  /\ \A n \in Nodes : Flow[n].type \in NodeTypes
                      /\ Flow[n].next \cup Flow[n].options \cup Flow[n].otherwise \subseteq Nodes

VARIABLE flow
  (* prompts   "audio" or "tts"                                              *)
  (* current, retries   currentNode, retryCount                              *)
  (* timer     the menu whose timeout is running, or "none"                  *)
  (* tasks     what each call of transitionTo or playNode awaits: a prompt   *)
  (*           of the node it entered, one replayed after a wrong key or a   *)
  (*           timeout, or a request                                         *)

Idle == [pc |-> "none", node |-> "none"]

FlowTasks == [pc : {"none", "enter", "key", "timeout", "http", "lost"},
              node : Nodes \cup {"none"}]

FlowBrains ==
  [prompts : {"audio", "tts"}, current : Nodes, retries : 0..(MaxRetries + 1),
   timer : Nodes \cup {"none"}, tasks : [Slots -> FlowTasks]]

FlowTypeOK == flow \in FlowBrains

Moved(h, f) == [h |-> h, f |-> f]

FlowBecomes(results) == \E r \in results : harness' = r.h /\ flow' = r.f

FlowTaskLost(f, s) == IF s \in Slots THEN [f EXCEPT !.tasks[s].pc = "lost"] ELSE f

-----------------------------------------------------------------------------
(* playNode(): the task waits for the sound, or for speak().               *)
Plays(h, f, s, why, n) ==
  LET waits == [f EXCEPT !.tasks[s] = [pc |-> why, node |-> n]]
  IN  IF f.prompts = "audio" THEN Moved(h, waits)
      ELSE Moved(Says(h, s),
                 IF h.call = "up"
                   THEN [FlowTaskLost(f, h.holder) EXCEPT !.tasks[s] = waits.tasks[s]]
                   ELSE FlowTaskLost(waits, s))

Stops(h, f, s) == Moved(h, [f EXCEPT !.tasks[s] = Idle])

(* transitionTo(n), up to its first await.                                 *)
Arrives(h, f, s, n) ==
  LET here == [f EXCEPT !.current = n]
  IN  CASE Flow[n].type = "transfer" -> Stops(Transfers(h), here, s)
        [] Flow[n].type = "http_request" ->
             Moved(Shows(h, "processing"), [here EXCEPT !.tasks[s] = [pc |-> "http", node |-> n]])
        [] OTHER -> Plays(Shows(h, "speaking"), here, s, "enter", n)

(* A task goes where it can, or it stops as it is.                         *)
Leads(h, f, s, targets) ==
  IF targets = {} THEN {Stops(h, f, s)} ELSE {Arrives(h, f, s, n) : n \in targets}

(* Runs the timeout of the node whose prompt the task has played.          *)
WithTimeout(f, s) == [f EXCEPT !.timer = f.tasks[s].node]

(* What follows a prompt played on entering its node.                      *)
Entered(h, f, s) ==
  LET n == f.tasks[s].node
      asks == Shows(h, "listening")
  IN  CASE Flow[n].type = "menu"    -> {Stops(asks, WithTimeout(f, s), s)}
        [] Flow[n].type = "collect" -> {Stops(asks, f, s)}
        [] Flow[n].type = "hangup"  -> {Stops(HangsUp(h), f, s)}
        [] OTHER                    -> Leads(h, f, s, Flow[n].next)

(* Mutant: a prompt replayed after a timeout starts no timeout.            *)
PlayedOnce(h, f, s) ==
  CASE f.tasks[s].pc = "key"     -> {Stops(h, WithTimeout(f, s), s)}
    [] f.tasks[s].pc = "timeout" -> {Stops(Shows(h, "listening"), f, s)}
    [] OTHER                     -> Entered(h, f, s)

(* The prompt has been played, or cut short, which is the same.            *)
Played(h, f, s) ==
  CASE f.tasks[s].pc = "key"     -> {Stops(h, WithTimeout(f, s), s)}
    [] f.tasks[s].pc = "timeout" -> {Stops(Shows(h, "listening"), WithTimeout(f, s), s)}
    [] OTHER                     -> Entered(h, f, s)

(* Too many wrong keys or timeouts: the menu's way out, or a hang-up.      *)
GivesUpMenu(h, f, s, n) ==
  IF Flow[n].otherwise = {} THEN {Stops(HangsUp(h), f, s)}
                            ELSE Leads(h, f, s, Flow[n].otherwise)

(* A wrong key, or no key: the prompt again, as often as `retries` says.   *)
Again(h, f, s, why, n) ==
  LET g == [f EXCEPT !.retries = IF @ > MaxRetries THEN @ ELSE @ + 1]
  IN  IF g.retries >= MaxRetries THEN GivesUpMenu(h, g, s, n)
                                 ELSE {Plays(h, g, s, why, n)}

-----------------------------------------------------------------------------
FlowBegins(prompts) ==
  [prompts |-> prompts, current |-> StartNode, retries |-> 0, timer |-> "none",
   tasks |-> [s \in Slots |-> Idle]]

FlowInit ==
  \E prompts \in {"audio", "tts"} :
    LET r == Arrives(HarnessInit, FlowBegins(prompts), "turn1", StartNode)
    IN  harness = r.h /\ flow = r.f

Free(s) == flow.tasks[s].pc = "none"

(* Mutant: a key does not clear the timeout.                               *)
FlowKeyStillTimed ==
  /\ CanPress(harness)
  /\ LET h == Presses(harness)
         n == flow.current
     IN  IF harness.state # "listening" \/ Flow[n].type # "menu"
           THEN FlowBecomes({Moved(h, flow)})
           ELSE \E s \in Slots :
                  /\ Free(s)
                  /\ \/ \E m \in Flow[n].options :
                          FlowBecomes({Arrives(h, [flow EXCEPT !.retries = 0], s, m)})
                     \/ FlowBecomes(Again(h, flow, s, "key", n))

FlowKey ==
  /\ CanPress(harness)
  /\ LET h == Presses(harness)
         n == flow.current
         f == [flow EXCEPT !.timer = "none"]
     IN  IF harness.state # "listening" \/ Flow[n].type # "menu"
           THEN FlowBecomes({Moved(h, flow)})
           ELSE \E s \in Slots :
                  /\ Free(s)
                  /\ \/ \E m \in Flow[n].options :
                          FlowBecomes({Arrives(h, [f EXCEPT !.retries = 0], s, m)})
                     \/ FlowBecomes(Again(h, f, s, "key", n))

FlowHears ==
  /\ CanHear(harness)
  /\ FlowBecomes({Moved(Hears(harness), flow)})

(* The turn's text answers the question of a collect node.                 *)
FlowTurnReady ==
  /\ harness.buffer
  /\ LET h == [harness EXCEPT !.buffer = FALSE]
         n == flow.current
     IN  IF harness.state # "listening" \/ Flow[n].type # "collect" \/ Flow[n].next = {}
           THEN FlowBecomes({Moved(h, flow)})
           ELSE \E s \in Slots : Free(s) /\ FlowBecomes(Leads(h, flow, s, Flow[n].next))

(* The timeout knows the menu it was started for, not where the call is.   *)
MenuTimeout ==
  /\ flow.timer # "none"
  /\ LET f == [flow EXCEPT !.timer = "none"]
     IN  IF harness.state # "listening"
           THEN FlowBecomes({Moved(harness, f)})
           ELSE \E s \in Slots :
                  Free(s) /\ FlowBecomes(Again(harness, f, s, "timeout", flow.timer))

AudioEnds(s) ==
  /\ flow.prompts = "audio" /\ flow.tasks[s].pc \in {"enter", "key", "timeout"}
  /\ FlowBecomes(Played(harness, flow, s))

(* An answer, or an error, a status of 400 or more, or no answer in 10 s.  *)
RequestEnds(s) ==
  /\ flow.tasks[s].pc = "http"
  /\ LET n == flow.tasks[s].node
     IN  \/ FlowBecomes(Leads(harness, flow, s, Flow[n].next))
         \/ /\ Flow[n].otherwise # {}
            /\ FlowBecomes(Leads(harness, flow, s, Flow[n].otherwise))

(* The task that awaited speak() goes on.                                  *)
FlowGoesOn(h, task) ==
  FlowBecomes(IF task \in Slots THEN Played(h, flow, task) ELSE {Moved(h, flow)})

FlowSpeakingDone ==
  /\ harness.playing > 0
  /\ FlowGoesOn(LetsGo(Reports(harness)), harness.holder)

FlowInterrupted ==
  /\ CanInterrupt(harness)
  /\ LET h == Interrupts(harness)
     IN  FlowGoesOn(IF harness.playing > 1 THEN LetsGo(h) ELSE [h EXCEPT !.holder = "none"],
                    harness.holder)

FlowConfirmed ==
  /\ CanConfirm(harness)
  /\ \E final \in BOOLEAN : FlowBecomes({Moved(Confirms(harness, final), flow)})

FlowFalseAlarm ==
  /\ harness.awaiting
  /\ FlowBecomes({Moved(FalseAlarm(harness), flow)})

FlowEnds ==
  /\ harness.call = "up"
  /\ \E told \in BOOLEAN :
       FlowBecomes({Moved(Ends(harness, told),
                          [FlowTaskLost(flow, harness.holder) EXCEPT !.timer = "none"])})

FlowNext ==
  \/ FlowKey \/ FlowHears \/ FlowTurnReady \/ MenuTimeout
  \/ \E s \in Slots : AudioEnds(s) \/ RequestEnds(s)
  \/ FlowSpeakingDone \/ FlowInterrupted \/ FlowConfirmed \/ FlowFalseAlarm \/ FlowEnds
===============================================================================
