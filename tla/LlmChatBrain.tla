------------------------------ MODULE LlmChatBrain ------------------------------
(***************************************************************************)
(* assistants/brains/LlmChatBrain.ts: the brain that answers each turn of  *)
(* the caller by streaming from an LLM and speaking sentence by sentence,  *)
(* calls tools, reprompts a silent caller and hangs up.                    *)
(*                                                                         *)
(* An async method is a task that runs from await to await: the start of   *)
(* the call, a turn (of transcribed text or of a key), and the silence     *)
(* timer's reprompt or goodbye.  A task whose promise another speak() has  *)
(* taken over is lost: it never runs again.  A turn can begin while        *)
(* another is under way if `processing` says so, hence two slots.          *)
(***************************************************************************)
EXTENDS BrainHarness

CONSTANTS
  MaxReprompts,  (* maxSilenceReprompts                                     *)
  MaxToolTurns,  (* MAX_TOOL_TURNS                                          *)
  MaxSentences   (* bound: sentences of one LLM response                    *)

ASSUME LlmAssumption ==
  /\ MaxReprompts \in Nat
  /\ MaxToolTurns \in Nat \ {0} /\ MaxSentences \in Nat \ {0}

VARIABLE llm
  (* processing, streaming, pending   as in the code; pending: text waits    *)
  (* controller     the turn whose currentAbortController is set             *)
  (* timer          the silence timer is set                                 *)
  (* reprompts      silenceRepromptCount                                     *)
  (* start          where onCallStart is                                     *)
  (* late           it went on after an await while `processing` was set     *)
  (* silence        where onSilenceTimeout is                                *)
  (* turns          where the turns are                                      *)
  (* dropped        a BargeInError nobody caught ended the last turn         *)

NoTurn == [pc |-> "none", kind |-> "input", try |-> 1, said |-> 0, tools |-> 0,
           aborted |-> "no"]

TurnPcs == {"none", "fetch", "speak", "tool", "backoff", "apology", "lost"}

Turns == [pc : TurnPcs, kind : {"input", "dtmf"}, try : 1..2, said : 0..MaxSentences,
          tools : 0..MaxToolTurns, aborted : {"no", "reading", "speaking"}]

LlmBrains ==
  [processing : BOOLEAN, streaming : BOOLEAN, pending : BOOLEAN,
   controller : Slots \cup {"none"}, timer : BOOLEAN, reprompts : 0..(MaxReprompts + 1),
   start : {"tools", "audio", "greeting", "done", "interrupted", "lost"}, late : BOOLEAN,
   silence : {"none", "reprompt", "goodbye", "interrupted", "lost"},
   turns : [Slots -> Turns], dropped : BOOLEAN]

LlmTypeOK == llm \in LlmBrains

(* A result: the harness and the brain after a task has run.               *)
Now(h, b) == [h |-> h, b |-> b]

Becomes(r) == harness' = r.h /\ llm' = r.b

(* Where a task is.                                                        *)
At(b, task, pc) ==
  CASE task \in Slots   -> [b EXCEPT !.turns[task] = [IF pc = "lost" THEN NoTurn ELSE @
                                                      EXCEPT !.pc = pc]]
    [] task = "start"   -> [b EXCEPT !.start = pc]
    [] task = "silence" -> [b EXCEPT !.silence = pc]
    [] OTHER            -> b

(* A task awaits speak(): the one that held the promise is lost, and so is *)
(* this one if the call is over.                                           *)
SaysAt(h, b, task, pc) ==
  Now(Says(h, task),
      At(At(b, h.holder, "lost"), task, IF h.call = "up" THEN pc ELSE "lost"))

(* resetSilenceTimer(): a brain that went untimed is timed again.          *)
Rearmed(b) ==
  [b EXCEPT !.timer = TRUE,
            !.start = IF @ = "interrupted" THEN "done" ELSE @,
            !.silence = IF @ = "interrupted" THEN "none" ELSE @]

(* The caller is there: the timer and the count start again.               *)
Activity(b) == [Rearmed(b) EXCEPT !.reprompts = 0]

-----------------------------------------------------------------------------
(* streamAndSpeak() begins, or its next streamOnce().                      *)
Fetches(b, s) ==
  [b EXCEPT !.streaming = TRUE, !.controller = s,
            !.turns[s] = [@ EXCEPT !.pc = "fetch", !.said = 0, !.aborted = "no"]]

(* A turn begins: of text in processUserInput, of a key in onDTMFInput.    *)
Starts(h, b, s, kind) ==
  Now(Shows(h, "processing"),
      Fetches([b EXCEPT !.processing = TRUE, !.dropped = FALSE,
                        !.turns[s] = [NoTurn EXCEPT !.kind = kind]], s))

(* streamOnce() and streamAndSpeak() have returned.                        *)
Streamed(b) == [b EXCEPT !.streaming = FALSE, !.controller = "none"]

(* Mutant: the silence timer is not set again.                             *)
FinishUntimed(h, b, s) ==
  IF b.turns[s].kind = "input" /\ b.pending
    THEN Starts(h, [b EXCEPT !.pending = FALSE], s, "input")
    ELSE Now(Shows(h, "listening"), [b EXCEPT !.processing = FALSE, !.turns[s] = NoTurn])

(* The rest of processUserInput or onDTMFInput: text that came meanwhile   *)
(* is the next turn, else the brain listens.                               *)
Finish(h, b, s) ==
  IF b.turns[s].kind = "input" /\ b.pending
    THEN Starts(h, [b EXCEPT !.pending = FALSE], s, "input")
    ELSE Now(Shows(h, "listening"),
             [Rearmed(b) EXCEPT !.processing = FALSE, !.turns[s] = NoTurn])

(* The bot has said goodbye: text that came meanwhile is left.             *)
Farewell(h, b, s) ==
  Now(HangsUp(h), [b EXCEPT !.processing = FALSE, !.timer = FALSE, !.turns[s] = NoTurn])

-----------------------------------------------------------------------------
(* What a task does once its text has been said ...                        *)
Resumed(h, b, task) ==
  CASE task = "start"   -> Now(h, [Rearmed(b) EXCEPT !.start = "done"])
    [] task = "silence" -> IF b.silence = "reprompt"
                             THEN Now(h, [Rearmed(b) EXCEPT !.silence = "none"])
                             ELSE Now(HangsUp(h), [b EXCEPT !.silence = "none"])
    [] task \in Slots   -> IF b.turns[task].pc = "speak" THEN Now(h, At(b, task, "fetch"))
                                                         ELSE Finish(h, b, task)
    [] OTHER            -> Now(h, b)

(* ... and once the user has cut it short.  No catch block is around the   *)
(* apology (LlmChatBrain.ts:353): the rejection is unhandled, and this is  *)
(* a program that survives it.  Under core/standalone.ts, which handles    *)
(* none, it is the death of the process: BrainDies of CallLifecycle.       *)
Rejected(h, b, task) ==
  CASE task = "start"   -> Now(h, [b EXCEPT !.start = "interrupted"])
    [] task = "silence" -> Now(h, IF b.silence = "reprompt"
                                    THEN [b EXCEPT !.silence = "interrupted"]
                                    ELSE [Activity(b) EXCEPT !.silence = "none"])
    [] task \in Slots   -> IF b.turns[task].pc = "speak"
                             THEN Finish(h, Streamed(b), task)
                             ELSE Now(h, [b EXCEPT !.turns[task] = NoTurn, !.dropped = TRUE])
    [] OTHER            -> Now(h, b)

(* The harness's and the brain's onSpeakingDone(), then the task that was  *)
(* waiting.                                                                *)
Spoken(h, b) ==
  Resumed(LetsGo(h),
          [b EXCEPT !.processing = @ /\ (b.streaming \/ h.state # "speaking")],
          h.holder)

-----------------------------------------------------------------------------
(* onCallStart, up to its first await.                                     *)
LlmBegins ==
  [processing |-> FALSE, streaming |-> FALSE, pending |-> FALSE, controller |-> "none",
   timer |-> FALSE, reprompts |-> 0, start |-> "tools", late |-> FALSE,
   silence |-> "none", turns |-> [s \in Slots |-> NoTurn], dropped |-> FALSE]

LlmInit ==
  LET b == LlmBegins
  IN  \E r \in {Now(HarnessInit, b),
                Now(Shows(HarnessInit, "speaking"), [b EXCEPT !.start = "audio"]),
                SaysAt(HarnessInit, b, "start", "greeting")} :
        harness = r.h /\ llm = r.b

(* onCallStart goes on after an await, whatever has begun meanwhile.       *)
Late(b) == [b EXCEPT !.late = @ \/ b.processing]

SaysGreeting == Becomes(SaysAt(harness, Late(llm), "start", "greeting"))

(* The MCP servers have answered, or not within 5 s.                       *)
ToolsDiscovered ==
  /\ llm.start = "tools"
  /\ \/ SaysGreeting
     \/ Becomes(Now(Shows(harness, "speaking"), [Late(llm) EXCEPT !.start = "audio"]))

(* The sound has been played, or there was no such file.                   *)
WelcomeEnds ==
  /\ llm.start = "audio"
  /\ \/ SaysGreeting
     \/ Becomes(Now(Shows(harness, "listening"), [Rearmed(Late(llm)) EXCEPT !.start = "done"]))

-----------------------------------------------------------------------------
(* Final transcriptions, gathered by the harness, and keys.                *)
LlmHears ==
  /\ CanHear(harness)
  /\ Becomes(Now(Hears(harness), llm))

FreeSlot(s) == llm.turns[s].pc = "none"

(* Mutant: the turn does not wait for the one under way.                   *)
TurnReadyAtOnce ==
  /\ harness.buffer
  /\ \E s \in Slots :
       /\ FreeSlot(s)
       /\ Becomes(Starts([harness EXCEPT !.buffer = FALSE], Activity(llm), s, "input"))

TurnReady ==
  /\ harness.buffer
  /\ LET h == [harness EXCEPT !.buffer = FALSE]
     IN  IF llm.processing
           THEN Becomes(Now(h, [Activity(llm) EXCEPT !.pending = TRUE]))
           ELSE \E s \in Slots : /\ FreeSlot(s)
                                 /\ Becomes(Starts(h, Activity(llm), s, "input"))

KeyPressed ==
  /\ CanPress(harness)
  /\ LET h == Presses(harness)
     IN  IF llm.processing
           THEN Becomes(Now(h, Activity(llm)))
           ELSE \E s \in Slots : /\ FreeSlot(s)
                                 /\ Becomes(Starts(h, Activity(llm), s, "dtmf"))

-----------------------------------------------------------------------------
(* The steps of a turn that reads the LLM's stream, or goes through what   *)
(* it had read when its request was aborted under a sentence.              *)
Reads(s) == llm.turns[s].pc = "fetch" /\ llm.turns[s].aborted # "reading"

SaysSentence(s) ==
  /\ Reads(s) /\ llm.turns[s].said < MaxSentences
  /\ Becomes(SaysAt(harness, [llm EXCEPT !.turns[s].said = @ + 1], s, "speak"))

EndsWithText(s) ==
  /\ Reads(s) /\ llm.turns[s].said > 0
  /\ \/ Becomes(Finish(harness, Streamed(llm), s))
     \/ /\ llm.turns[s].kind = "input"
        /\ Becomes(Farewell(harness, Streamed(llm), s))

(* Text is tried once more after a pause, then the brain apologises.       *)
TriesAgain(s) ==
  IF llm.turns[s].try = 1 THEN Becomes(Now(harness, At(Streamed(llm), s, "backoff")))
                          ELSE Becomes(SaysAt(harness, Streamed(llm), s, "apology"))

(* Mutant: a key's turn that fails leaves `processing` set.                *)
FailsUncaught(s) ==
  /\ Reads(s) /\ llm.turns[s].aborted = "no"
  /\ \/ /\ llm.turns[s].kind = "dtmf"
        /\ Becomes(Now(harness, [Streamed(llm) EXCEPT !.turns[s] = NoTurn]))
     \/ llm.turns[s].kind = "input" /\ TriesAgain(s)

(* No connection, an error status, a broken stream or an empty response.   *)
Fails(s) ==
  /\ Reads(s) /\ llm.turns[s].aborted = "no"
  /\ \/ llm.turns[s].kind = "dtmf" /\ Becomes(Finish(harness, Streamed(llm), s))
     \/ llm.turns[s].kind = "input" /\ TriesAgain(s)

(* A barge-in or the end of the call has aborted the request, which the    *)
(* next read tells, or the LLM was silent for 10 s, which is handled       *)
(* alike.                                                                  *)
Aborts(s) ==
  /\ llm.turns[s].pc = "fetch"
  /\ Becomes(Finish(harness, Streamed(llm), s))

RetryBegins(s) ==
  /\ llm.turns[s].pc = "backoff"
  /\ Becomes(Now(harness, Fetches([llm EXCEPT !.turns[s].try = 2, !.turns[s].tools = 0], s)))

CallsTool(s) ==
  /\ Reads(s)
  /\ Becomes(Now(harness, [At(llm, s, "tool") EXCEPT !.controller = "none",
                                                     !.turns[s].tools = @ + 1]))

ToolReturns(s) ==
  /\ llm.turns[s].pc = "tool"
  /\ IF llm.turns[s].tools < MaxToolTurns
       THEN Becomes(Now(harness, Fetches(llm, s)))
       ELSE Becomes(Finish(harness, Streamed(llm), s))

(* The tool is transfer or hangup: the loop stops, the turn goes on.       *)
ToolTakesOver(s) ==
  /\ llm.turns[s].pc = "tool"
  /\ \E h \in {Transfers(harness), HangsUp(harness)} :
       Becomes(Finish(h, Streamed(llm), s))

TurnSteps(s) ==
  \/ SaysSentence(s) \/ EndsWithText(s) \/ Fails(s) \/ Aborts(s)
  \/ RetryBegins(s) \/ CallsTool(s) \/ ToolReturns(s) \/ ToolTakesOver(s)

-----------------------------------------------------------------------------
(* Mutant: a timer that finds the brain busy is left to fire again.        *)
SilenceTimeoutAgain ==
  /\ llm.timer
  /\ IF llm.processing \/ llm.streaming
       THEN Becomes(Now(harness, llm))
       ELSE /\ harness.playing < MaxQueued
            /\ LET again == llm.reprompts < MaxReprompts
                   b == [llm EXCEPT !.timer = FALSE,
                                    !.reprompts = IF again THEN @ + 1 ELSE MaxReprompts + 1]
               IN  Becomes(SaysAt(harness, b, "silence",
                                  IF again THEN "reprompt" ELSE "goodbye"))

(* onSilenceTimeout().                                                     *)
SilenceTimeout ==
  /\ llm.timer
  /\ IF llm.processing \/ llm.streaming
       THEN Becomes(Now(harness, [llm EXCEPT !.timer = FALSE]))
       ELSE /\ harness.playing < MaxQueued
            /\ LET again == llm.reprompts < MaxReprompts
                   b == [llm EXCEPT !.timer = FALSE,
                                    !.reprompts = IF again THEN @ + 1 ELSE MaxReprompts + 1]
               IN  Becomes(SaysAt(harness, b, "silence",
                                  IF again THEN "reprompt" ELSE "goodbye"))

(* Mutant: a text is reported more than once.                              *)
SpeakingDoneTwice == Becomes(Spoken(Reports(harness), llm))

SpeakingDone ==
  /\ harness.playing > 0
  /\ Becomes(Spoken(Reports(harness), llm))

(* Stage 1: the texts that wait are reported, which settles the promise of *)
(* the one being said, or else cancelSpeaking() rejects it.                *)
LlmInterrupted ==
  /\ CanInterrupt(harness)
  /\ LET h == Interrupts(harness)
     IN  Becomes(IF harness.playing > 1
                   THEN Spoken(h, llm)
                   ELSE Rejected([h EXCEPT !.holder = "none"], llm, h.holder))

(* currentAbortController.abort(): a turn that is reading will read no     *)
(* more, one that speaks goes on with what it has read before.             *)
AbortsFetch(b) ==
  [b EXCEPT !.turns = [s \in Slots |->
     [b.turns[s] EXCEPT !.aborted =
        IF s # b.controller THEN @
        ELSE IF b.turns[s].pc = "speak" THEN "speaking" ELSE "reading"]]]

(* Stage 2: onBargeIn() aborts the fetch.                                  *)
LlmConfirmed ==
  /\ CanConfirm(harness)
  /\ \E final \in BOOLEAN : Becomes(Now(Confirms(harness, final), AbortsFetch(llm)))

LlmFalseAlarm ==
  /\ harness.awaiting
  /\ Becomes(Now(FalseAlarm(harness), llm))

(* The call is over; what awaits speak() waits for ever, the rest goes on. *)
LlmEnds ==
  /\ harness.call = "up"
  /\ \E told \in BOOLEAN :
       Becomes(Now(Ends(harness, told),
                   [AbortsFetch(At(llm, harness.holder, "lost")) EXCEPT
                      !.timer = FALSE, !.pending = FALSE, !.controller = "none",
                      !.processing = @ /\ ~told]))

LlmTimers == TurnReady \/ SilenceTimeout

LlmNext ==
  \/ ToolsDiscovered \/ WelcomeEnds
  \/ LlmHears \/ KeyPressed \/ LlmTimers
  \/ \E s \in Slots : TurnSteps(s)
  \/ SpeakingDone \/ LlmInterrupted \/ LlmConfirmed \/ LlmFalseAlarm \/ LlmEnds
===============================================================================
