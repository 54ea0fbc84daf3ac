-------------------------------- MODULE MCBrains --------------------------------
(***************************************************************************)
(* A call and its brain.  AssistantFactory makes the one or the other;     *)
(* both live on the harness of BrainHarness.                               *)
(***************************************************************************)
EXTENDS LlmChatBrain, FlowBrain

VARIABLE kind   (* "llm" or "flow"                                           *)

brainVars == <<harness, llm, flow, kind>>

(* A flow with a menu that leads to a menu, a question and a request.      *)
ExampleFlow ==
  LET Node(type, next, options, otherwise) ==
        [type |-> type, next |-> next, options |-> options, otherwise |-> otherwise]
  IN  [hello    |-> Node("message", {"menu"}, {}, {}),
       menu     |-> Node("menu", {}, {"collect"}, {"menu2"}),
       menu2    |-> Node("menu", {}, {"transfer"}, {}),
       collect  |-> Node("collect", {"request"}, {}, {}),
       request  |-> Node("http_request", {"menu2"}, {}, {"bye"}),
       bye      |-> Node("hangup", {}, {}, {}),
       transfer |-> Node("transfer", {}, {}, {})]

Init ==
  \/ kind = "llm" /\ LlmInit /\ flow = FlowBegins("tts")
  \/ kind = "flow" /\ FlowInit /\ llm = LlmBegins

Next ==
  \/ kind = "llm" /\ LlmNext /\ UNCHANGED <<flow, kind>>
  \/ kind = "flow" /\ FlowNext /\ UNCHANGED <<llm, kind>>

(* Timers fire, sounds and texts end, and servers answer or time out: the  *)
(* LLM and the tools that are requests have limits.  A tool that is a      *)
(* module has none (ToolExecutor.ts:236); that it answers is assumed.  The *)
(* caller and the end of the call are nobody's promise.                    *)
LlmFairness ==
  LET Does(A) == kind = "llm" /\ A /\ UNCHANGED <<flow, kind>>
  IN  /\ WF_brainVars(Does(ToolsDiscovered)) /\ WF_brainVars(Does(WelcomeEnds))
      /\ WF_brainVars(Does(TurnReady)) /\ WF_brainVars(Does(SilenceTimeout))
      /\ WF_brainVars(Does(SpeakingDone)) /\ WF_brainVars(Does(LlmFalseAlarm))
      /\ \A s \in Slots : WF_brainVars(Does(TurnSteps(s)))

FlowFairness ==
  LET Does(A) == kind = "flow" /\ A /\ UNCHANGED <<llm, kind>>
  IN  /\ WF_brainVars(Does(FlowTurnReady)) /\ WF_brainVars(Does(MenuTimeout))
      /\ WF_brainVars(Does(FlowSpeakingDone)) /\ WF_brainVars(Does(FlowFalseAlarm))
      /\ \A s \in Slots : WF_brainVars(Does(AudioEnds(s))) /\ WF_brainVars(Does(RequestEnds(s)))

Spec == Init /\ [][Next]_brainVars /\ LlmFairness /\ FlowFairness

(* Types.                                                                  *)
BrainsTypeOK == HarnessTypeOK /\ LlmTypeOK /\ FlowTypeOK /\ kind \in {"llm", "flow"}

(* At most one turn is under way, the flag `processing` covers it, and one *)
(* that is saying a sentence holds the promise of speak(): nothing else    *)
(* can settle in its place.  The exception is an onCallStart that goes on  *)
(* after an await while the brain is busy (LlmChatBrain.ts:209-237): its   *)
(* greeting takes the promise of the turn.                                 *)
OneTurn ==
  kind = "llm" /\ ~llm.late /\ harness.call = "up" =>
    \A s \in Slots : ~FreeSlot(s) =>
      /\ \A other \in Slots \ {s} : FreeSlot(other)
      /\ llm.processing
      /\ llm.turns[s].pc \in {"speak", "apology"} <=> harness.holder = s

(* A turn always ends: with the same exception the brain stops being busy, *)
(* whatever the LLM, its tools and the caller do (processing,              *)
(* LlmChatBrain.ts:88 and 312).                                            *)
BusyBrainComesBack ==
  llm.processing ~> (~llm.processing \/ llm.late \/ harness.call = "over")

(* A caller who says nothing is asked or said goodbye to: while the brain  *)
(* waits for him the silence timer is set (resetSilenceTimer(),            *)
(* LlmChatBrain.ts:783).  Excepted are a greeting or a reprompt that is    *)
(* still going on, or for ever, its promise taken over by another speak()  *)
(* (`lost`), and an interruption of the greeting, a reprompt or an apology *)
(* that nobody catches or whose text has not come (`dropped`).             *)
IdleIsTimed ==
  kind = "llm" /\ harness.call = "up" /\ ~llm.processing
    /\ llm.start = "done" /\ llm.silence = "none" /\ ~llm.dropped /\ ~harness.hangup
    /\ (\A s \in Slots : FreeSlot(s))
  => llm.timer

(* Once the call is over the brain comes to rest: no timer is left, and no *)
(* turn goes on calling the LLM (onCallEnd, destroy,                       *)
(* LlmChatBrain.ts:724-746, FlowBrain.ts:152-159).                         *)
DeadCallQuiesces ==
  harness.call = "over" ~>
    /\ ~llm.timer /\ flow.timer = "none"
    /\ \A s \in Slots : llm.turns[s].pc \in {"none", "lost"}

(* With prompts that are spoken a flow does one thing at a time, and the   *)
(* timeout that is running is that of the menu the caller is in            *)
(* (FlowBrain.ts:126-128 and 250-296).  With sound files that holds until  *)
(* a key is pressed: a prompt replayed after a wrong key leaves the state  *)
(* LISTENING, so that the next key is taken while the first waits.         *)
FlowIsSequential ==
  kind = "flow" /\ (flow.prompts = "tts" \/ harness.inputs = 0) /\ harness.call = "up" =>
    /\ Cardinality({s \in Slots : flow.tasks[s].pc # "none"}) <= 1
    /\ flow.timer # "none" => flow.current = flow.timer /\ \A s \in Slots : Free(s)

(* Nobody is left in a menu: it is timed out until its retries are used    *)
(* and the flow has gone on past its menus, or the call is hung up         *)
(* (FlowBrain.ts:273-296).  A timeout that runs while the queue is still   *)
(* busy with an interrupted prompt is the exception: it finds the state    *)
(* SPEAKING and gives up.                                                  *)
MenuMovesOn ==
  (kind = "flow" /\ flow.timer # "none") ~>
    \/ Flow[flow.current].type # "menu"
    \/ harness.hangup \/ harness.call = "over"
    \/ harness.cut /\ flow.timer # "none"

-----------------------------------------------------------------------------
(* What BrainHarness.ts:174-178 says of speak(): it settles when the       *)
(* playback finishes or the user interrupts, so no turn waits for ever     *)
(* while the call is up.                                                   *)
AwaitedSpeechSettles ==
  harness.call = "up" => \A s \in Slots : llm.turns[s].pc # "lost"

(* What LlmChatBrain.ts:445 says of a tool that transfers the call: the    *)
(* harness has acted and the loop stops, so the brain does not hang up on  *)
(* a caller it has handed over.                                            *)
TransferredIsNotHungUp ==
  [][kind = "llm" /\ harness.call = "up" /\ ~harness.routed =>
       harness'.hangup = harness.hangup]_brainVars
===============================================================================
