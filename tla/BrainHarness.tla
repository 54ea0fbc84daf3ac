------------------------------ MODULE BrainHarness ------------------------------
(***************************************************************************)
(* What a call's brain sees of the call: assistants/base/BrainHarness.ts   *)
(* with its turn debounce and its awaitable speak(), and the part of       *)
(* core/AriControllerServer.ts that feeds it transcriptions, barge-ins and *)
(* notifications.  LlmChatBrain and FlowBrain are the brains.              *)
(*                                                                         *)
(* The speech queue is the one SpeechQueue verifies, reduced to what it    *)
(* promises: each text is reported once, and a barge-in reports what waits *)
(* at once, what is being said later, and what was added since never.      *)
(***************************************************************************)
EXTENDS Naturals, FiniteSets

CONSTANTS
  MaxInputs,   (* bound: final transcriptions worth a turn, and keys        *)
  MaxBargeIns, (* bound: how often the user talks over the bot              *)
  MaxQueued    (* bound: texts in the speech queue when a timer adds one    *)

ASSUME HarnessAssumption ==
  {MaxInputs, MaxBargeIns, MaxQueued} \subseteq Nat

VARIABLE harness
  (* call, state    up until destroy(); AssistantState                       *)
  (* routed         the transcription handler is registered                  *)
  (* inputs         final transcriptions and keys so far                     *)
  (* buffer         turnBuffer holds text, and the debounce timer is set     *)
  (* holder         the task that awaits speakResolve/speakReject            *)
  (* playing, cut   texts to be reported; a barge-in has ended the queue     *)
  (* awaiting       awaitingBargeInText                                      *)
  (* bargeIns       how many there were                                      *)
  (* hangup         the brain has asked Asterisk to hang up                  *)

Slots == {"turn1", "turn2"}
Tasks == Slots \cup {"start", "silence"}

HarnessStates == {"idle", "listening", "processing", "speaking", "transferring"}

Harnesses ==
  [call : {"up", "over"}, state : HarnessStates, routed : BOOLEAN, inputs : 0..MaxInputs,
   buffer : BOOLEAN, holder : Tasks \cup {"none"}, playing : Nat, cut : BOOLEAN,
   awaiting : BOOLEAN, bargeIns : 0..MaxBargeIns, hangup : BOOLEAN]

HarnessTypeOK == harness \in Harnesses

HarnessInit ==
  [call |-> "up", state |-> "idle", routed |-> TRUE, inputs |-> 0, buffer |-> FALSE,
   holder |-> "none", playing |-> 0, cut |-> FALSE, awaiting |-> FALSE,
   bargeIns |-> 0, hangup |-> FALSE]

-----------------------------------------------------------------------------
(* speak(): the task awaits its promise, and whoever awaited one before    *)
(* never hears of it again.  After destroy() nobody listens to the         *)
(* request.                                                                *)
Says(h, task) ==
  [h EXCEPT !.state = "speaking", !.holder = task,
            !.playing = IF h.call = "up" THEN @ + 1 ELSE @]

(* hangup(): there is no channel after destroy().                          *)
HangsUp(h) == [h EXCEPT !.hangup = @ \/ h.call = "up"]

Shows(h, state) == [h EXCEPT !.state = state]

(* transferCall(): transcriptions and barge-ins are no longer routed, and  *)
(* the state of the speech queue is made anew.                             *)
Transfers(h) ==
  [Shows(h, "transferring") EXCEPT !.routed = FALSE, !.awaiting = FALSE, !.cut = FALSE]

(* onSpeakingDone() lets go of the promise, and ends SPEAKING if the brain *)
(* has not.                                                                *)
LetsGo(h) == [h EXCEPT !.holder = "none", !.state = IF @ = "speaking" THEN "listening" ELSE @]

(* The queue reports a text.  The loop of an interrupted queue ends with   *)
(* its report, drops what was added since and the wait for text with it.   *)
Reports(h) ==
  LET left == IF h.cut THEN 0 ELSE h.playing - 1
  IN  [h EXCEPT !.playing = left, !.cut = @ /\ left > 0, !.awaiting = @ /\ left > 0]

(* The controller's ttsActive.                                             *)
TtsActive(h) == h.playing > 0 /\ ~h.cut

-----------------------------------------------------------------------------
(* user_speaking during TTS, stage 1.  The texts that wait are reported at *)
(* once; the one being said is when its loop notices.                      *)
CanInterrupt(h) == /\ h.call = "up" /\ h.routed
                   /\ TtsActive(h) /\ ~h.awaiting
                   /\ h.bargeIns < MaxBargeIns

Interrupts(h) ==
  [h EXCEPT !.playing = 1, !.cut = TRUE, !.awaiting = TRUE, !.bargeIns = @ + 1]

(* A key.                                                                  *)
CanPress(h) == h.call = "up" /\ h.inputs < MaxInputs

Presses(h) == [h EXCEPT !.inputs = @ + 1]

(* A final transcription that is no filler, no echo and not suppressed.    *)
CanHear(h) ==
  /\ h.call = "up" /\ h.routed /\ h.inputs < MaxInputs
  /\ ~h.awaiting /\ ~TtsActive(h) /\ h.state # "speaking"

Hears(h) == [h EXCEPT !.inputs = @ + 1, !.buffer = TRUE]

(* Stage 2: text after a barge-in, final or interim.  notifyBargeIn drops  *)
(* what was gathered before it.                                            *)
CanConfirm(h) == h.call = "up" /\ h.routed /\ h.awaiting /\ h.inputs < MaxInputs

Confirms(h, final) ==
  LET dropped == [h EXCEPT !.awaiting = FALSE, !.buffer = FALSE]
  IN  IF final THEN Hears(dropped) ELSE dropped

(* It was an echo, or no text came for 3 s.                                *)
FalseAlarm(h) == [h EXCEPT !.awaiting = FALSE]

(* onCallEnd() and destroy(), or destroy() alone: the timer and the        *)
(* promise are forgotten, and nobody reports the texts that were left.     *)
Ends(h, told) ==
  [h EXCEPT !.call = "over", !.buffer = FALSE, !.holder = "none", !.routed = FALSE,
            !.playing = 0, !.cut = FALSE, !.awaiting = FALSE,
            !.state = IF told THEN "idle" ELSE @]
===============================================================================
