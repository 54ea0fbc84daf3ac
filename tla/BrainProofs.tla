-------------------------------- MODULE BrainProofs --------------------------------
(***************************************************************************)
(* Theorems about a call and its brain (MCBrains), for every flow graph    *)
(* and every bound.  The invariant has a part for each of the brains:      *)
(* LlmInv of LlmChatBrain, FlowInv of FlowBrain.  Each step is shown to    *)
(* keep it by what the step leaves behind: the task that ends its turn     *)
(* (Leaving), the one whose promise is settled (Settled), another one that *)
(* speaks meanwhile (Waiting); and for a flow the task that goes on        *)
(* (Goes), with its prompt played (Prompted).                              *)
(***************************************************************************)
EXTENDS MCBrains, FiniteSetTheorems, TLAPS

Pc(b, s) == b.turns[s].pc
Up(h) == h.call = "up"

(* What a task that loses its promise leaves behind.                       *)
LEMMA LosesPromise ==
  ASSUME NEW b \in LlmBrains, NEW task \in Tasks \cup {"none"}
  PROVE  LET c == At(b, task, "lost")
         IN  /\ c \in LlmBrains
             /\ c.processing = b.processing /\ c.streaming = b.streaming
             /\ c.timer = b.timer /\ c.late = b.late /\ c.dropped = b.dropped
             /\ c.start = IF task = "start" THEN "lost" ELSE b.start
             /\ c.silence = IF task = "silence" THEN "lost" ELSE b.silence
             /\ \A s \in Slots : c.turns[s] = IF s = task THEN [NoTurn EXCEPT !.pc = "lost"]
                                                         ELSE b.turns[s]
<1>0. NoTurn \in Turns
  BY LlmAssumption DEF NoTurn, Turns, TurnPcs
<1>1. CASE task \in Slots
  <2> DEFINE t == [NoTurn EXCEPT !.pc = "lost"]
  <2>1. t \in Turns
    BY <1>0 DEF Turns, TurnPcs
  <2>2. At(b, task, "lost") = [b EXCEPT !.turns[task] = t]
    BY <1>1 DEF At, Slots
  <2> QED
    BY <1>1, <2>1, <2>2 DEF LlmBrains, Slots
<1>2. CASE task = "start"
  BY <1>2 DEF At, LlmBrains, Slots
<1>3. CASE task = "silence"
  BY <1>3 DEF At, LlmBrains, Slots
<1>4. CASE task = "none"
  BY <1>4 DEF At, LlmBrains, Slots
<1> QED
  BY <1>1, <1>2, <1>3, <1>4 DEF Tasks

LEMMA HarnessTypes ==
  ASSUME NEW h \in Harnesses
  PROVE  /\ \A task \in Tasks : Says(h, task) \in Harnesses
         /\ HangsUp(h) \in Harnesses
         /\ \A state \in HarnessStates : Shows(h, state) \in Harnesses
         /\ Transfers(h) \in Harnesses
         /\ LetsGo(h) \in Harnesses
         /\ [h EXCEPT !.buffer = FALSE] \in Harnesses
         /\ [h EXCEPT !.holder = "none"] \in Harnesses
         /\ h.playing > 0 => Reports(h) \in Harnesses
         /\ CanInterrupt(h) => Interrupts(h) \in Harnesses
         /\ CanPress(h) => Presses(h) \in Harnesses
         /\ CanHear(h) => Hears(h) \in Harnesses
         /\ CanConfirm(h) => \A final \in BOOLEAN : Confirms(h, final) \in Harnesses
         /\ FalseAlarm(h) \in Harnesses
         /\ \A told \in BOOLEAN : Ends(h, told) \in Harnesses
<1>0. /\ MaxInputs \in Nat /\ MaxBargeIns \in Nat
      /\ h.inputs \in 0..MaxInputs /\ h.bargeIns \in 0..MaxBargeIns /\ h.playing \in Nat
  BY HarnessAssumption DEF Harnesses
<1>1. \A task \in Tasks : Says(h, task) \in Harnesses
  <2>1. h.playing + 1 \in Nat
    BY <1>0
  <2> QED
    BY <2>1 DEF Harnesses, Says, HarnessStates
<1>2. HangsUp(h) \in Harnesses
  BY DEF Harnesses, HangsUp
<1>3. \A state \in HarnessStates : Shows(h, state) \in Harnesses
  BY DEF Harnesses, Shows
<1>4. Transfers(h) \in Harnesses
  BY DEF Harnesses, Transfers, Shows, HarnessStates
<1>5. LetsGo(h) \in Harnesses
  BY DEF Harnesses, LetsGo, HarnessStates
<1>6. [h EXCEPT !.buffer = FALSE] \in Harnesses /\ [h EXCEPT !.holder = "none"] \in Harnesses
  BY DEF Harnesses
<1>7. ASSUME h.playing > 0 PROVE Reports(h) \in Harnesses
  <2> DEFINE left == IF h.cut THEN 0 ELSE h.playing - 1
  <2>1. left \in Nat /\ (left > 0) \in BOOLEAN
    BY <1>0, <1>7
  <2>2. Reports(h) = [h EXCEPT !.playing = left, !.cut = @ /\ left > 0,
                               !.awaiting = @ /\ left > 0]
    BY DEF Reports
  <2> HIDE DEF left
  <2> QED
    BY <2>1, <2>2 DEF Harnesses
<1>8. ASSUME CanInterrupt(h) PROVE Interrupts(h) \in Harnesses
  <2>1. h.bargeIns + 1 \in 0..MaxBargeIns
    BY <1>0, <1>8 DEF CanInterrupt
  <2> QED
    BY <2>1 DEF Harnesses, Interrupts
<1>9. ASSUME h.inputs < MaxInputs
      PROVE  Presses(h) \in Harnesses /\ Hears(h) \in Harnesses
  <2>1. h.inputs + 1 \in 0..MaxInputs
    BY <1>0, <1>9
  <2> QED
    BY <2>1 DEF Harnesses, Presses, Hears
<1>10. ASSUME CanConfirm(h), NEW final \in BOOLEAN PROVE Confirms(h, final) \in Harnesses
  <2> DEFINE dropped == [h EXCEPT !.awaiting = FALSE, !.buffer = FALSE]
  <2>1. dropped \in Harnesses /\ dropped.inputs = h.inputs
    BY DEF Harnesses
  <2>2. h.inputs + 1 \in 0..MaxInputs
    BY <1>0, <1>10 DEF CanConfirm
  <2>3. Hears(dropped) \in Harnesses
    BY <2>1, <2>2 DEF Harnesses, Hears
  <2> QED
    BY <2>1, <2>3 DEF Confirms
<1>11. FalseAlarm(h) \in Harnesses
  BY DEF Harnesses, FalseAlarm
<1>12. \A told \in BOOLEAN : Ends(h, told) \in Harnesses
  BY DEF Harnesses, Ends, HarnessStates
<1> QED
  BY <1>1, <1>2, <1>3, <1>4, <1>5, <1>6, <1>7, <1>8, <1>9, <1>10, <1>11, <1>12
     DEF CanPress, CanHear

LEMMA EndsFields ==
  ASSUME NEW h \in Harnesses, NEW told \in BOOLEAN
  PROVE  LET g == Ends(h, told)
         IN  /\ g \in Harnesses /\ ~Up(g) /\ g.playing = 0 /\ g.holder = "none"
             /\ g.inputs = h.inputs /\ ~g.buffer /\ ~g.awaiting
<1>1. Ends(h, told) \in Harnesses
  BY HarnessTypes
<1> QED
  BY <1>1 DEF Ends, Harnesses, Up

-----------------------------------------------------------------------------
(* The invariant of a call with LlmChatBrain, of a harness and a brain.    *)

(* A turn that may call a tool has not used them all.                      *)
ToolsLeft(b) ==
  \A s \in Slots : Pc(b, s) \in {"fetch", "speak"} => b.turns[s].tools < MaxToolTurns

(* `streaming` and `processing` are of some turn, or the last one dropped. *)
Streams(b) ==
  b.streaming => \E s \in Slots : Pc(b, s) \in {"fetch", "speak", "tool", "lost"}

Occupied(b) == b.processing => b.dropped \/ \E s \in Slots : Pc(b, s) # "none"

(* While the timer is not set something will set it: the start of the      *)
(* call, a reprompt, or a turn.                                            *)
Timed(h, b) ==
  Up(h) /\ ~b.timer /\ b.start = "done" /\ b.silence = "none" /\ ~b.dropped /\ ~h.hangup
    => \E s \in Slots : Pc(b, s) # "none"

(* A turn that holds the promise is saying something.                      *)
HolderSpeaks(h, b) ==
  Up(h) /\ h.holder \in Slots => Pc(b, h.holder) \in {"speak", "apology"}

PlayingUp(h) == h.playing > 0 => Up(h)

(* The turn under way is the only one, holds the promise while it speaks,  *)
(* and the flags say so.  `processing` is spared by onSpeakingDone() while *)
(* the turn streams, or while the state is not SPEAKING.                   *)
Turning(b, holder, state) ==
  \A s \in Slots :
    /\ Pc(b, s) \in {"speak", "apology"} <=> holder = s
    /\ Pc(b, s) # "none" =>
         /\ Pc(b, s) # "lost"
         /\ \A t \in Slots \ {s} : Pc(b, t) = "none"
         /\ Pc(b, s) # "apology" => b.processing
         /\ Pc(b, s) \in {"fetch", "speak", "tool"} => b.streaming
         /\ Pc(b, s) \in {"fetch", "tool", "backoff"} => state # "speaking"

OneAtATime(h, b) ==
  ~b.late /\ Up(h) =>
    /\ Turning(b, h.holder, h.state)
    /\ \A s \in Slots : Pc(b, s) = "apology" => b.processing

LlmInv(h, b) ==
  /\ h \in Harnesses /\ b \in LlmBrains
  /\ ToolsLeft(b) /\ Streams(b) /\ Occupied(b) /\ Timed(h, b)
  /\ HolderSpeaks(h, b) /\ PlayingUp(h) /\ OneAtATime(h, b)

(* What is known of the others when s ends its turn or begins one.         *)
Leaving(h, b, s) ==
  /\ h \in Harnesses /\ b \in LlmBrains /\ ToolsLeft(b) /\ PlayingUp(h)
  /\ Up(h) => h.holder # s
  /\ HolderSpeaks(h, b)
  /\ ~b.late /\ Up(h) =>
       h.holder \notin Slots /\ \A t \in Slots \ {s} : Pc(b, t) = "none"

LEMMA NoTurnType ==
  /\ NoTurn \in Turns /\ NoTurn.tools = 0 /\ NoTurn.pc = "none"
  /\ \A why \in {"input", "dtmf"} : [NoTurn EXCEPT !.kind = why] \in Turns
  /\ 0 \in 0..MaxSentences /\ 0 \in 0..MaxToolTurns
<1>1. 0 \in 0..MaxSentences /\ 0 \in 0..MaxToolTurns /\ 1 \in 1..2
  BY LlmAssumption
<1> QED
  BY <1>1 DEF NoTurn, Turns, TurnPcs

LEMMA FetchesFields ==
  ASSUME NEW b \in LlmBrains, NEW s \in Slots
  PROVE  LET c == Fetches(b, s)
         IN  /\ c \in LlmBrains
             /\ c.streaming /\ c.processing = b.processing /\ c.dropped = b.dropped
             /\ c.late = b.late /\ c.timer = b.timer /\ c.start = b.start
             /\ c.silence = b.silence
             /\ Pc(c, s) = "fetch" /\ c.turns[s].tools = b.turns[s].tools
             /\ \A t \in Slots \ {s} : c.turns[t] = b.turns[t]
<1> DEFINE b1 == [b EXCEPT !.streaming = TRUE, !.controller = s]
           t == b.turns[s]
           t1 == [t EXCEPT !.pc = "fetch", !.said = 0, !.aborted = "no"]
           c == Fetches(b, s)
<1>1. b1 \in LlmBrains /\ b1.turns = b.turns /\ t \in Turns
  BY DEF LlmBrains
<1>2. t1 \in Turns /\ t1.pc = "fetch" /\ t1.tools = t.tools
  BY <1>1, NoTurnType DEF Turns, TurnPcs
<1>3. c = [b EXCEPT !.streaming = TRUE, !.controller = s, !.turns[s] = t1]
  BY DEF Fetches
<1> HIDE DEF t1, c
<1>4. c \in LlmBrains
  BY <1>2, <1>3 DEF LlmBrains
<1>5. /\ c.streaming /\ c.processing = b.processing /\ c.dropped = b.dropped
      /\ c.late = b.late /\ c.timer = b.timer /\ c.start = b.start
      /\ c.silence = b.silence /\ c.turns = [b.turns EXCEPT ![s] = t1]
  BY <1>3 DEF LlmBrains
<1>6. c.turns[s] = t1 /\ \A u \in Slots \ {s} : c.turns[u] = b.turns[u]
  BY <1>5 DEF LlmBrains
<1> QED
  BY <1>2, <1>4, <1>5, <1>6 DEF Pc, c

LEMMA StartsFields ==
  ASSUME NEW h \in Harnesses, NEW b \in LlmBrains, NEW s \in Slots,
         NEW why \in {"input", "dtmf"}
  PROVE  LET r == Starts(h, b, s, why)
         IN  /\ r.h = Shows(h, "processing")
             /\ r.b \in LlmBrains
             /\ r.b.processing /\ r.b.streaming /\ ~r.b.dropped /\ r.b.late = b.late
             /\ Pc(r.b, s) = "fetch" /\ r.b.turns[s].tools = 0
             /\ \A t \in Slots \ {s} : r.b.turns[t] = b.turns[t]
<1> DEFINE t1 == [NoTurn EXCEPT !.kind = why]
           b1 == [b EXCEPT !.processing = TRUE, !.dropped = FALSE, !.turns[s] = t1]
<1>1. t1 \in Turns /\ t1.tools = 0
  BY NoTurnType DEF Turns
<1>2. /\ b1 \in LlmBrains /\ b1.turns[s] = t1 /\ b1.processing /\ ~b1.dropped
      /\ b1.late = b.late /\ \A t \in Slots \ {s} : b1.turns[t] = b.turns[t]
  BY <1>1 DEF LlmBrains
<1>3. Starts(h, b, s, why) = [h |-> Shows(h, "processing"), b |-> Fetches(b1, s)]
  BY DEF Starts, Now
<1> HIDE DEF t1, b1
<1> QED
  BY <1>1, <1>2, <1>3, FetchesFields

LEMMA StartsKeeps ==
  ASSUME NEW h, NEW b, NEW s \in Slots, Leaving(h, b, s), NEW why \in {"input", "dtmf"}
  PROVE  LET r == Starts(h, b, s, why) IN LlmInv(r.h, r.b)
<1> DEFINE r == Starts(h, b, s, why)
<1>1. /\ r.h = Shows(h, "processing") /\ r.b \in LlmBrains
      /\ r.b.processing /\ r.b.streaming /\ ~r.b.dropped /\ r.b.late = b.late
      /\ Pc(r.b, s) = "fetch" /\ r.b.turns[s].tools = 0
      /\ \A t \in Slots \ {s} : r.b.turns[t] = b.turns[t]
  BY StartsFields DEF Leaving
<1>2. /\ r.h \in Harnesses /\ r.h.state = "processing"
      /\ r.h.call = h.call /\ r.h.holder = h.holder /\ r.h.playing = h.playing
  BY <1>1, HarnessTypes DEF Leaving, Shows, Harnesses, HarnessStates
<1> HIDE DEF r
<1>3. ToolsLeft(r.b)
  BY <1>1, LlmAssumption DEF ToolsLeft, Leaving, Pc
<1>4. Streams(r.b) /\ Occupied(r.b) /\ Timed(r.h, r.b)
  BY <1>1 DEF Streams, Occupied, Timed
<1>5. HolderSpeaks(r.h, r.b) /\ PlayingUp(r.h)
  BY <1>1, <1>2 DEF HolderSpeaks, PlayingUp, Leaving, Pc, Up
<1>6. OneAtATime(r.h, r.b)
  BY <1>1, <1>2 DEF OneAtATime, Turning, Leaving, Pc, Up
<1> QED
  BY <1>1, <1>2, <1>3, <1>4, <1>5, <1>6 DEF LlmInv, r
(* A turn is over, and another one begins or the brain listens.            *)
LEMMA FinishKeeps ==
  ASSUME NEW h, NEW b, NEW s \in Slots, Leaving(h, b, s),
         b.streaming => \E t \in Slots \ {s} : Pc(b, t) \in {"fetch", "speak", "tool", "lost"}
  PROVE  LET r == Finish(h, b, s) IN LlmInv(r.h, r.b)
<1>1. CASE b.turns[s].kind = "input" /\ b.pending
  <2> DEFINE c == [b EXCEPT !.pending = FALSE]
  <2>1. c \in LlmBrains /\ c.turns = b.turns /\ c.late = b.late
    BY DEF Leaving, LlmBrains
  <2>2. Leaving(h, c, s)
    BY <2>1 DEF Leaving, ToolsLeft, HolderSpeaks, Pc
  <2>3. Finish(h, b, s) = Starts(h, c, s, "input")
    BY <1>1 DEF Finish
  <2> HIDE DEF c
  <2> QED
    BY <2>2, <2>3, StartsKeeps
<1>2. CASE ~(b.turns[s].kind = "input" /\ b.pending)
  <2> DEFINE g == Shows(h, "listening")
             b1 == Rearmed(b)
             c == [b1 EXCEPT !.processing = FALSE, !.turns[s] = NoTurn]
  <2>1. /\ g \in Harnesses /\ g.call = h.call /\ g.holder = h.holder
        /\ g.playing = h.playing
    BY HarnessTypes DEF Leaving, Shows, Harnesses, HarnessStates
  <2>2. /\ b1 \in LlmBrains /\ b1.timer /\ b1.turns = b.turns /\ b1.late = b.late
        /\ b1.streaming = b.streaming
    BY DEF Rearmed, Leaving, LlmBrains
  <2> HIDE DEF b1
  <2>3. /\ c \in LlmBrains /\ c.timer /\ ~c.processing /\ c.late = b.late
        /\ c.streaming = b.streaming /\ c.turns[s] = NoTurn
        /\ \A t \in Slots \ {s} : c.turns[t] = b.turns[t]
    BY <2>2, NoTurnType DEF LlmBrains
  <2>4. Finish(h, b, s) = [h |-> g, b |-> c]
    BY <1>2 DEF Finish, Now, b1
  <2> HIDE DEF g, c
  <2>5. Pc(c, s) = "none" /\ \A t \in Slots \ {s} : Pc(c, t) = Pc(b, t)
    BY <2>3, NoTurnType DEF Pc
  <2>6. ToolsLeft(c)
    BY <2>3, <2>5 DEF ToolsLeft, Leaving
  <2>7. Streams(c)
    BY <2>3, <2>5 DEF Streams
  <2>8. Occupied(c) /\ Timed(g, c)
    BY <2>3 DEF Occupied, Timed
  <2>9. HolderSpeaks(g, c) /\ PlayingUp(g)
    BY <2>1, <2>5 DEF HolderSpeaks, PlayingUp, Leaving, Up
  <2>10. OneAtATime(g, c)
    BY <2>1, <2>3, <2>5 DEF OneAtATime, Turning, Leaving, Up
  <2> QED
    BY <2>1, <2>3, <2>4, <2>6, <2>7, <2>8, <2>9, <2>10 DEF LlmInv
<1> QED
  BY <1>1, <1>2

LEMMA FarewellKeeps ==
  ASSUME NEW h, NEW b, NEW s \in Slots, Leaving(h, b, s), ~b.streaming
  PROVE  LET r == Farewell(h, b, s) IN LlmInv(r.h, r.b)
<1> DEFINE g == HangsUp(h)
           c == [b EXCEPT !.processing = FALSE, !.timer = FALSE, !.turns[s] = NoTurn]
<1>1. /\ g \in Harnesses /\ g.call = h.call /\ g.holder = h.holder /\ g.state = h.state
      /\ g.playing = h.playing
  <2>1. g \in Harnesses
    BY HarnessTypes DEF Leaving
  <2> QED
    BY <2>1 DEF Leaving, HangsUp, Harnesses
<1>2. Up(g) => g.hangup
  BY DEF Leaving, HangsUp, Harnesses, Up
<1>3. /\ c \in LlmBrains /\ ~c.processing /\ c.late = b.late
      /\ ~c.streaming /\ c.turns[s] = NoTurn
      /\ \A t \in Slots \ {s} : c.turns[t] = b.turns[t]
  BY NoTurnType DEF LlmBrains, Leaving
<1>4. Farewell(h, b, s) = [h |-> g, b |-> c]
  BY DEF Farewell, Now
<1> HIDE DEF g, c
<1>5. Pc(c, s) = "none" /\ \A t \in Slots \ {s} : Pc(c, t) = Pc(b, t)
  BY <1>3, NoTurnType DEF Pc
<1>6. ToolsLeft(c)
  BY <1>3, <1>5 DEF ToolsLeft, Leaving
<1>7. Streams(c) /\ Occupied(c) /\ Timed(g, c)
  BY <1>2, <1>3 DEF Streams, Occupied, Timed
<1>8. HolderSpeaks(g, c) /\ PlayingUp(g)
  BY <1>1, <1>5 DEF HolderSpeaks, PlayingUp, Leaving, Up
<1>9. OneAtATime(g, c)
  BY <1>1, <1>3, <1>5 DEF OneAtATime, Turning, Leaving, Up
<1> QED
  BY <1>1, <1>3, <1>4, <1>6, <1>7, <1>8, <1>9 DEF LlmInv

(* A turn says a sentence, or its apology.                                 *)
LEMMA TurnSaysKeeps ==
  ASSUME NEW h, NEW b, NEW s \in Slots, Leaving(h, b, s), NEW pc \in {"speak", "apology"},
         pc = "speak" => b.turns[s].tools < MaxToolTurns,
         pc = "speak" /\ ~b.late /\ Up(h) => b.streaming,
         pc = "apology" => ~b.streaming,
         ~b.late /\ Up(h) => b.processing
  PROVE  LET r == SaysAt(h, b, s, pc) IN LlmInv(r.h, r.b)
<1> DEFINE g == Says(h, s)
           at == IF Up(h) THEN pc ELSE "lost"
           b1 == At(b, h.holder, "lost")
           t == [IF at = "lost" THEN NoTurn ELSE b1.turns[s] EXCEPT !.pc = at]
           c == At(b1, s, at)
<1>0. h \in Harnesses /\ b \in LlmBrains /\ h.holder \in Tasks \cup {"none"} /\ s \in Tasks
  BY DEF Leaving, Harnesses, Tasks
<1>1. /\ g \in Harnesses /\ g.call = h.call /\ g.holder = s /\ g.state = "speaking"
  <2>1. g \in Harnesses
    BY <1>0, HarnessTypes
  <2> QED
    BY <1>0, <2>1 DEF Says, Harnesses
<1>2. PlayingUp(g)
  BY <1>0, <1>1 DEF PlayingUp, Leaving, Says, Harnesses, Up
<1>3. /\ b1 \in LlmBrains
      /\ b1.processing = b.processing /\ b1.streaming = b.streaming
      /\ b1.timer = b.timer /\ b1.late = b.late /\ b1.dropped = b.dropped
      /\ \A u \in Slots : b1.turns[u] = IF u = h.holder THEN [NoTurn EXCEPT !.pc = "lost"]
                                                         ELSE b.turns[u]
  BY <1>0, LosesPromise
<1>4. c = [b1 EXCEPT !.turns[s] = t]
  BY DEF At, Slots
<1>5. b1.turns[s] \in Turns /\ t \in Turns /\ t.pc = at
  BY <1>3, NoTurnType DEF LlmBrains, Turns, TurnPcs
<1>6. at = "speak" => t.tools < MaxToolTurns
  <2> SUFFICES ASSUME at = "speak" PROVE t.tools < MaxToolTurns
    OBVIOUS
  <2>1. t = [b1.turns[s] EXCEPT !.pc = "speak"] /\ h.holder # s /\ pc = "speak"
    BY DEF Leaving
  <2> QED
    BY <1>3, <1>5, <2>1 DEF Turns
<1> HIDE DEF b1, t, c, g
<1>7. c \in LlmBrains
  BY <1>3, <1>4, <1>5 DEF LlmBrains
<1>8. /\ c.processing = b.processing /\ c.streaming = b.streaming
      /\ c.timer = b.timer /\ c.late = b.late /\ c.dropped = b.dropped
      /\ c.turns = [b1.turns EXCEPT ![s] = t]
  BY <1>3, <1>4 DEF LlmBrains
<1>9. c.turns[s] = t /\ \A u \in Slots \ {s} : c.turns[u] = b1.turns[u]
  BY <1>3, <1>8 DEF LlmBrains
<1>10. /\ Pc(c, s) = at
       /\ \A u \in Slots \ {s} : Pc(c, u) = IF u = h.holder THEN "lost" ELSE Pc(b, u)
  BY <1>3, <1>5, <1>9, NoTurnType DEF Pc, Turns
<1>11. ToolsLeft(c)
  BY <1>3, <1>6, <1>9, <1>10 DEF ToolsLeft, Leaving
<1>12. Streams(c)
  BY <1>8, <1>10 DEF Streams
<1>13. Occupied(c) /\ Timed(g, c) /\ HolderSpeaks(g, c)
  BY <1>1, <1>10 DEF Occupied, Timed, HolderSpeaks, Up
<1>14. OneAtATime(g, c)
  BY <1>1, <1>8, <1>10 DEF OneAtATime, Turning, Leaving, Up
<1>15. SaysAt(h, b, s, pc) = [h |-> g, b |-> c]
  BY DEF SaysAt, Now, Up, g, c, b1
<1> QED
  BY <1>1, <1>2, <1>7, <1>11, <1>12, <1>13, <1>14, <1>15 DEF LlmInv
(* What is known when another task speaks: no turn is under way, unless    *)
(* the start of the call is late.                                          *)
Waiting(h, b) ==
  /\ h \in Harnesses /\ b \in LlmBrains
  /\ ToolsLeft(b) /\ Streams(b) /\ Occupied(b) /\ HolderSpeaks(h, b) /\ PlayingUp(h)
  /\ ~b.late /\ Up(h) => \A s \in Slots : Pc(b, s) = "none"

LEMMA OtherSaysKeeps ==
  ASSUME NEW h, NEW b, Waiting(h, b), NEW task \in {"start", "silence"}, NEW pc,
         task = "start" => pc = "greeting", task = "silence" => pc \in {"reprompt", "goodbye"}
  PROVE  LET r == SaysAt(h, b, task, pc) IN LlmInv(r.h, r.b)
<1> DEFINE g == Says(h, task)
           at == IF Up(h) THEN pc ELSE "lost"
           b1 == At(b, h.holder, "lost")
           c == At(b1, task, at)
<1>0. h \in Harnesses /\ b \in LlmBrains /\ h.holder \in Tasks \cup {"none"} /\ task \in Tasks
  BY DEF Waiting, Harnesses, Tasks
<1>1. /\ g \in Harnesses /\ g.call = h.call /\ g.holder = task
  <2>1. g \in Harnesses
    BY <1>0, HarnessTypes
  <2> QED
    BY <1>0, <2>1 DEF Says, Harnesses
<1>2. PlayingUp(g)
  BY <1>0, <1>1 DEF PlayingUp, Waiting, Says, Harnesses, Up
<1>3. /\ b1 \in LlmBrains
      /\ b1.processing = b.processing /\ b1.streaming = b.streaming
      /\ b1.late = b.late /\ b1.dropped = b.dropped
      /\ \A u \in Slots : b1.turns[u] = IF u = h.holder THEN [NoTurn EXCEPT !.pc = "lost"]
                                                         ELSE b.turns[u]
  BY <1>0, LosesPromise
<1> HIDE DEF b1, g
<1>4. /\ c \in LlmBrains /\ c.processing = b1.processing /\ c.streaming = b1.streaming
      /\ c.late = b1.late /\ c.dropped = b1.dropped /\ c.turns = b1.turns
      /\ c.start # "done" \/ c.silence # "none"
  <2>1. CASE task = "start"
    <3>1. c = [b1 EXCEPT !.start = at] /\ at \in {"greeting", "lost"}
      BY <2>1 DEF At, Slots
    <3> HIDE DEF c
    <3> QED
      BY <1>3, <3>1 DEF LlmBrains
  <2>2. CASE task = "silence"
    <3>1. c = [b1 EXCEPT !.silence = at] /\ at \in {"reprompt", "goodbye", "lost"}
      BY <2>2 DEF At, Slots
    <3> HIDE DEF c
    <3> QED
      BY <1>3, <3>1 DEF LlmBrains
  <2> QED
    BY <2>1, <2>2
<1> HIDE DEF c
<1>5. \A u \in Slots : Pc(c, u) = IF u = h.holder THEN "lost" ELSE Pc(b, u)
  BY <1>3, <1>4, NoTurnType DEF Pc, Turns
<1>6. ToolsLeft(c)
  BY <1>3, <1>4, <1>5 DEF ToolsLeft, Waiting
<1>7. Streams(c)
  BY <1>3, <1>4, <1>5 DEF Streams, Waiting
<1>8. Occupied(c) /\ Timed(g, c)
  BY <1>3, <1>4, <1>5 DEF Occupied, Timed, Waiting
<1>9. HolderSpeaks(g, c)
  BY <1>1 DEF HolderSpeaks, Slots
<1>10. OneAtATime(g, c)
  <2> SUFFICES ASSUME ~b.late /\ Up(h)
               PROVE  \A u \in Slots : Pc(c, u) = "none" /\ g.holder # u
    BY <1>1, <1>3, <1>4 DEF OneAtATime, Turning, Up
  <2> QED
    BY <1>1, <1>5 DEF Waiting, HolderSpeaks, Slots
<1>11. SaysAt(h, b, task, pc) = [h |-> g, b |-> c]
  BY DEF SaysAt, Now, Up, g, c, b1
<1> QED
  BY <1>1, <1>2, <1>4, <1>6, <1>7, <1>8, <1>9, <1>10, <1>11 DEF LlmInv

-----------------------------------------------------------------------------
(* What is known when a promise is settled that `task` held.               *)
Settled(h, b, task) ==
  /\ h \in Harnesses /\ b \in LlmBrains /\ task \in Tasks \cup {"none"}
  /\ Up(h) /\ h.holder = "none"
  /\ ToolsLeft(b) /\ Streams(b) /\ Occupied(b) /\ Timed(h, b)
  /\ task \in Slots => Pc(b, task) \in {"speak", "apology"}
  /\ ~b.late => Turning(b, task, h.state)

(* The brain has set its timer, or gone to where none is needed.           *)
LEMMA OtherSettles ==
  ASSUME NEW h, NEW b, NEW task, Settled(h, b, task), task \notin Slots,
         NEW g \in Harnesses, g.call = h.call, g.holder = h.holder, g.state = h.state,
         NEW c \in LlmBrains, c.turns = b.turns, c.processing = b.processing,
         c.streaming = b.streaming, c.late = b.late, c.dropped = b.dropped,
         Timed(g, c)
  PROVE  LlmInv(g, c)
<1>1. \A s \in Slots : Pc(c, s) = Pc(b, s)
  BY DEF Pc
<1>2. ToolsLeft(c) /\ Streams(c) /\ Occupied(c)
  BY <1>1 DEF Settled, ToolsLeft, Streams, Occupied
<1>3. HolderSpeaks(g, c) /\ PlayingUp(g)
  BY DEF Settled, HolderSpeaks, PlayingUp, Up, Slots
<1>4. OneAtATime(g, c)
  <2> SUFFICES ASSUME ~b.late
               PROVE  /\ Turning(c, "none", h.state)
                      /\ \A s \in Slots : Pc(c, s) # "apology"
    BY DEF OneAtATime, Settled
  <2> QED
    BY <1>1 DEF Settled, Turning, Slots
<1> QED
  BY <1>2, <1>3, <1>4 DEF LlmInv

LEMMA ResumedKeeps ==
  ASSUME NEW h, NEW b, NEW task, Settled(h, b, task), h.state # "speaking"
  PROVE  LET r == Resumed(h, b, task) IN LlmInv(r.h, r.b)
<1> DEFINE r == Resumed(h, b, task)
<1>0. h \in Harnesses /\ b \in LlmBrains
  BY DEF Settled
<1>1. CASE task = "start"
  <2> DEFINE c == [Rearmed(b) EXCEPT !.start = "done"]
  <2>1. /\ c \in LlmBrains /\ c.timer /\ c.turns = b.turns /\ c.processing = b.processing
        /\ c.streaming = b.streaming /\ c.late = b.late /\ c.dropped = b.dropped
    BY <1>0 DEF Rearmed, LlmBrains
  <2>2. r = [h |-> h, b |-> c]
    BY <1>1 DEF Resumed, Now, Slots
  <2> HIDE DEF c
  <2>3. Timed(h, c)
    BY <2>1 DEF Timed
  <2> QED
    BY <1>0, <1>1, <2>1, <2>2, <2>3, OtherSettles DEF Slots
<1>2. CASE task = "silence" /\ b.silence = "reprompt"
  <2> DEFINE c == [Rearmed(b) EXCEPT !.silence = "none"]
  <2>1. /\ c \in LlmBrains /\ c.timer /\ c.turns = b.turns /\ c.processing = b.processing
        /\ c.streaming = b.streaming /\ c.late = b.late /\ c.dropped = b.dropped
    BY <1>0 DEF Rearmed, LlmBrains
  <2>2. r = [h |-> h, b |-> c]
    BY <1>2 DEF Resumed, Now, Slots
  <2> HIDE DEF c
  <2>3. Timed(h, c)
    BY <2>1 DEF Timed
  <2> QED
    BY <1>0, <1>2, <2>1, <2>2, <2>3, OtherSettles DEF Slots
<1>3. CASE task = "silence" /\ b.silence # "reprompt"
  <2> DEFINE g == HangsUp(h)
             c == [b EXCEPT !.silence = "none"]
  <2>1. /\ c \in LlmBrains /\ c.turns = b.turns /\ c.processing = b.processing
        /\ c.streaming = b.streaming /\ c.late = b.late /\ c.dropped = b.dropped
    BY <1>0 DEF LlmBrains
  <2>2. r = [h |-> g, b |-> c]
    BY <1>3 DEF Resumed, Now, Slots
  <2>3. g \in Harnesses
    BY <1>0, HarnessTypes
  <2>4. g.call = h.call /\ g.holder = h.holder /\ g.state = h.state /\ g.hangup
    BY <1>0 DEF HangsUp, Harnesses, Settled, Up
  <2> HIDE DEF g, c
  <2>5. Timed(g, c)
    BY <2>4 DEF Timed
  <2> QED
    BY <1>3, <2>1, <2>2, <2>3, <2>4, <2>5, OtherSettles DEF Slots
<1>4. CASE task \in Slots /\ Pc(b, task) = "speak"
  <2> DEFINE t == [b.turns[task] EXCEPT !.pc = "fetch"]
             c == At(b, task, "fetch")
  <2>1. t \in Turns /\ t.pc = "fetch" /\ t.tools = b.turns[task].tools
    BY <1>0, <1>4 DEF LlmBrains, Turns, TurnPcs
  <2>2. c = [b EXCEPT !.turns[task] = t]
    BY <1>4 DEF At, Slots
  <2>3. r = [h |-> h, b |-> c]
    BY <1>4 DEF Resumed, Now, Slots, Pc
  <2> HIDE DEF t, c
  <2>4. c \in LlmBrains
    BY <1>0, <1>4, <2>1, <2>2 DEF LlmBrains
  <2>5. /\ c.processing = b.processing /\ c.streaming = b.streaming /\ c.late = b.late
        /\ c.dropped = b.dropped /\ c.turns = [b.turns EXCEPT ![task] = t]
    BY <1>0, <2>2 DEF LlmBrains
  <2>6. c.turns[task] = t /\ \A u \in Slots \ {task} : c.turns[u] = b.turns[u]
    BY <1>0, <1>4, <2>5 DEF LlmBrains
  <2>7. Pc(c, task) = "fetch" /\ \A u \in Slots \ {task} : Pc(c, u) = Pc(b, u)
    BY <2>1, <2>6 DEF Pc
  <2>8. ToolsLeft(c)
    BY <1>4, <2>1, <2>6, <2>7 DEF ToolsLeft, Settled
  <2>9. Streams(c) /\ Occupied(c) /\ Timed(h, c)
    BY <1>4, <2>7 DEF Streams, Occupied, Timed
  <2>10. HolderSpeaks(h, c) /\ PlayingUp(h)
    BY DEF Settled, HolderSpeaks, PlayingUp, Slots
  <2>11. OneAtATime(h, c)
    BY <1>4, <2>5, <2>7 DEF OneAtATime, Turning, Settled, Slots
  <2> QED
    BY <1>0, <2>3, <2>4, <2>8, <2>9, <2>10, <2>11 DEF LlmInv
<1>5. CASE task \in Slots /\ Pc(b, task) = "apology"
  <2>1. r = Finish(h, b, task)
    BY <1>5 DEF Resumed, Slots, Pc
  <2>2. Leaving(h, b, task)
    BY <1>5 DEF Leaving, Settled, PlayingUp, HolderSpeaks, Turning, Slots
  <2>3. b.streaming =>
          \E t \in Slots \ {task} : Pc(b, t) \in {"fetch", "speak", "tool", "lost"}
    BY <1>5 DEF Settled, Streams
  <2> QED
    BY <1>5, <2>1, <2>2, <2>3, FinishKeeps
<1>6. CASE task = "none"
  <2>1. r = [h |-> h, b |-> b]
    BY <1>6 DEF Resumed, Now, Slots
  <2>2. Timed(h, b)
    BY DEF Settled
  <2> QED
    BY <1>0, <1>6, <2>1, <2>2, OtherSettles DEF Slots
<1> QED
  BY <1>1, <1>2, <1>3, <1>4, <1>5, <1>6 DEF Settled, Tasks

LEMMA RejectedKeeps ==
  ASSUME NEW h, NEW b, NEW task, Settled(h, b, task)
  PROVE  LET r == Rejected(h, b, task) IN LlmInv(r.h, r.b)
<1> DEFINE r == Rejected(h, b, task)
<1>0. h \in Harnesses /\ b \in LlmBrains
  BY DEF Settled
<1>1. CASE task = "start" \/ (task = "silence" /\ b.silence = "reprompt")
  <2> DEFINE c == IF task = "start" THEN [b EXCEPT !.start = "interrupted"]
                                    ELSE [b EXCEPT !.silence = "interrupted"]
  <2>1. /\ c \in LlmBrains /\ c.turns = b.turns /\ c.processing = b.processing
        /\ c.streaming = b.streaming /\ c.late = b.late /\ c.dropped = b.dropped
        /\ c.start = "interrupted" \/ c.silence = "interrupted"
    BY <1>0 DEF LlmBrains
  <2>2. r = [h |-> h, b |-> c]
    BY <1>1 DEF Rejected, Now, Slots
  <2> HIDE DEF c
  <2>3. Timed(h, c)
    BY <2>1 DEF Timed
  <2> QED
    BY <1>0, <1>1, <2>1, <2>2, <2>3, OtherSettles DEF Slots
<1>2. CASE task = "silence" /\ b.silence # "reprompt"
  <2> DEFINE b1 == Rearmed(b)
             c == [[b1 EXCEPT !.reprompts = 0] EXCEPT !.silence = "none"]
  <2>1. 0 \in 0..(MaxReprompts + 1)
    BY LlmAssumption
  <2>2. /\ b1 \in LlmBrains /\ b1.timer /\ b1.turns = b.turns /\ b1.processing = b.processing
        /\ b1.streaming = b.streaming /\ b1.late = b.late /\ b1.dropped = b.dropped
    BY <1>0 DEF Rearmed, LlmBrains
  <2>3. r = [h |-> h, b |-> c]
    BY <1>2 DEF Rejected, Activity, Now, Slots
  <2> HIDE DEF b1
  <2>4. /\ c \in LlmBrains /\ c.timer /\ c.turns = b.turns /\ c.processing = b.processing
        /\ c.streaming = b.streaming /\ c.late = b.late /\ c.dropped = b.dropped
    BY <2>1, <2>2 DEF LlmBrains
  <2> HIDE DEF c
  <2>5. Timed(h, c)
    BY <2>4 DEF Timed
  <2> QED
    BY <1>0, <1>2, <2>3, <2>4, <2>5, OtherSettles DEF Slots
<1>3. CASE task \in Slots /\ Pc(b, task) = "speak"
  <2> DEFINE c == Streamed(b)
  <2>1. r = Finish(h, c, task)
    BY <1>3 DEF Rejected, Slots, Pc
  <2>2. c \in LlmBrains /\ ~c.streaming /\ c.turns = b.turns /\ c.late = b.late
    BY <1>0 DEF Streamed, LlmBrains
  <2> HIDE DEF c
  <2>3. Leaving(h, c, task)
    BY <1>3, <2>2 DEF Leaving, Settled, ToolsLeft, PlayingUp, HolderSpeaks, Turning, Slots, Pc
  <2> QED
    BY <1>3, <2>1, <2>2, <2>3, FinishKeeps
<1>4. CASE task \in Slots /\ Pc(b, task) = "apology"
  <2> DEFINE c == [b EXCEPT !.turns[task] = NoTurn, !.dropped = TRUE]
  <2>1. r = [h |-> h, b |-> c]
    BY <1>4 DEF Rejected, Now, Slots, Pc
  <2>2. /\ c \in LlmBrains /\ c.dropped /\ c.processing = b.processing
        /\ c.streaming = b.streaming /\ c.late = b.late /\ c.turns[task] = NoTurn
        /\ \A u \in Slots \ {task} : c.turns[u] = b.turns[u]
    BY <1>0, <1>4, NoTurnType DEF LlmBrains
  <2> HIDE DEF c
  <2>3. Pc(c, task) = "none" /\ \A u \in Slots \ {task} : Pc(c, u) = Pc(b, u)
    BY <2>2, NoTurnType DEF Pc
  <2>4. ToolsLeft(c)
    BY <2>2, <2>3 DEF ToolsLeft, Settled
  <2>5. Streams(c)
    BY <1>4, <2>2, <2>3 DEF Streams, Settled
  <2>6. Occupied(c) /\ Timed(h, c)
    BY <2>2 DEF Occupied, Timed
  <2>7. HolderSpeaks(h, c) /\ PlayingUp(h)
    BY DEF Settled, HolderSpeaks, PlayingUp, Slots
  <2>8. OneAtATime(h, c)
    BY <1>4, <2>2, <2>3 DEF OneAtATime, Turning, Settled, Slots
  <2> QED
    BY <1>0, <2>1, <2>2, <2>4, <2>5, <2>6, <2>7, <2>8 DEF LlmInv
<1>5. CASE task = "none"
  <2>1. r = [h |-> h, b |-> b]
    BY <1>5 DEF Rejected, Now, Slots
  <2>2. Timed(h, b)
    BY DEF Settled
  <2> QED
    BY <1>0, <1>5, <2>1, <2>2, OtherSettles DEF Slots
<1> QED
  BY <1>1, <1>2, <1>3, <1>4, <1>5 DEF Settled, Tasks

(* The invariant looks at little of the harness, and at little of the      *)
(* brain.                                                                  *)
LEMMA SameHarness ==
  ASSUME NEW h, NEW b, LlmInv(h, b),
         NEW g \in Harnesses, g.call = h.call, g.state = h.state, g.holder = h.holder,
         g.hangup = h.hangup, PlayingUp(g)
  PROVE  LlmInv(g, b)
<1>1. Timed(g, b) /\ HolderSpeaks(g, b) /\ OneAtATime(g, b)
  BY DEF LlmInv, Timed, HolderSpeaks, OneAtATime, Up
<1> QED
  BY <1>1 DEF LlmInv

LEMMA SameBrain ==
  ASSUME NEW h, NEW b, LlmInv(h, b),
         NEW c \in LlmBrains, c.processing = b.processing, c.streaming = b.streaming,
         c.late = b.late, c.dropped = b.dropped, Timed(h, c),
         \A s \in Slots : Pc(c, s) = Pc(b, s) /\ c.turns[s].tools = b.turns[s].tools
  PROVE  LlmInv(h, c)
<1>1. ToolsLeft(c) /\ Streams(c) /\ Occupied(c) /\ HolderSpeaks(h, c)
  BY DEF LlmInv, ToolsLeft, Streams, Occupied, HolderSpeaks
<1>2. OneAtATime(h, c)
  BY DEF LlmInv, OneAtATime, Turning
<1> QED
  BY <1>1, <1>2 DEF LlmInv

LEMMA SpokenKeeps ==
  ASSUME NEW h, NEW b, LlmInv(h, b), Up(h)
  PROVE  LET r == Spoken(h, b) IN LlmInv(r.h, r.b)
<1> DEFINE g == LetsGo(h)
           still == b.processing /\ (b.streaming \/ h.state # "speaking")
           c == [b EXCEPT !.processing = still]
<1>0. h \in Harnesses /\ b \in LlmBrains /\ h.holder \in Tasks \cup {"none"}
  BY DEF LlmInv, Harnesses
<1>1. g \in Harnesses
  BY <1>0, HarnessTypes
<1>2. /\ g.call = h.call /\ g.holder = "none" /\ g.hangup = h.hangup
      /\ g.state # "speaking"
  BY <1>0 DEF LetsGo, Harnesses
<1>3. still \in BOOLEAN
  BY <1>0 DEF LlmBrains
<1>4. Spoken(h, b) = Resumed(g, c, h.holder)
  BY DEF Spoken
<1> HIDE DEF still
<1>5. /\ c \in LlmBrains /\ c.turns = b.turns /\ c.processing = still
      /\ c.streaming = b.streaming /\ c.late = b.late /\ c.dropped = b.dropped
      /\ c.timer = b.timer /\ c.start = b.start /\ c.silence = b.silence
  BY <1>0, <1>3 DEF LlmBrains
<1> HIDE DEF g, c
<1>6. ToolsLeft(c) /\ Streams(c)
  BY <1>5 DEF LlmInv, ToolsLeft, Streams, Pc
<1>7. Occupied(c)
  BY <1>5 DEF LlmInv, Occupied, Pc, still
<1>8. Timed(g, c)
  BY <1>2, <1>5 DEF LlmInv, Timed, Pc, Up
<1>9. h.holder \in Slots => Pc(c, h.holder) \in {"speak", "apology"}
  BY <1>5 DEF LlmInv, HolderSpeaks, Pc
<1>10. ~c.late => Turning(c, h.holder, g.state)
  <2> SUFFICES ASSUME ~b.late PROVE Turning(c, h.holder, g.state)
    BY <1>5
  <2>1. Turning(b, h.holder, h.state)
    BY DEF LlmInv, OneAtATime
  <2>2. \A s \in Slots : Pc(c, s) = Pc(b, s)
    BY <1>5 DEF Pc
  <2>3. ASSUME NEW s \in Slots, Pc(b, s) \notin {"none", "apology"} PROVE c.processing
    <3>1. Pc(b, s) \in {"fetch", "speak", "tool", "backoff"}
      BY <1>0, <2>1, <2>3 DEF Turning, LlmBrains, Turns, TurnPcs, Pc
    <3> QED
      BY <1>5, <2>1, <3>1 DEF Turning, still
  <2> QED
    BY <1>2, <1>5, <2>1, <2>2, <2>3 DEF Turning
<1>11. Settled(g, c, h.holder)
  BY <1>0, <1>1, <1>2, <1>5, <1>6, <1>7, <1>8, <1>9, <1>10 DEF Settled, Up
<1> QED
  BY <1>2, <1>4, <1>11, ResumedKeeps
-----------------------------------------------------------------------------
(* The steps of the brain.                                                 *)
LlmKept == LlmInv(harness, llm)'

LEMMA BeginsType ==
  /\ HarnessInit \in Harnesses /\ LlmBegins \in LlmBrains
  /\ \A s \in Slots : LlmBegins.turns[s] = NoTurn
<1>1. 0 \in 0..MaxInputs /\ 0 \in 0..MaxBargeIns
  BY HarnessAssumption
<1>2. HarnessInit \in Harnesses
  BY <1>1 DEF HarnessInit, Harnesses, HarnessStates
<1>3. 0 \in 0..(MaxReprompts + 1)
  BY LlmAssumption
<1> QED
  BY <1>2, <1>3, NoTurnType DEF LlmBegins, LlmBrains

LEMMA LlmInitInv == LlmInit => LlmInv(harness, llm)
<1> SUFFICES ASSUME LlmInit PROVE LlmInv(harness, llm)
  OBVIOUS
<1> DEFINE h == HarnessInit
           b == LlmBegins
<1>1. h \in Harnesses /\ b \in LlmBrains /\ \A s \in Slots : Pc(b, s) = "none"
  BY BeginsType, NoTurnType DEF Pc
<1>2. /\ h.call = "up" /\ h.holder = "none" /\ h.playing = 0
      /\ ~b.processing /\ ~b.streaming /\ b.start = "tools" /\ ~b.late
  BY DEF HarnessInit, LlmBegins
<1>3. /\ Shows(h, "speaking") \in Harnesses /\ Shows(h, "speaking").call = "up"
      /\ Shows(h, "speaking").holder = "none" /\ Shows(h, "speaking").playing = 0
  BY <1>1, <1>2, HarnessTypes DEF Shows, HarnessStates, Harnesses
<1> HIDE DEF h, b
<1>4. ASSUME NEW g \in Harnesses, g.call = "up", g.holder = "none", g.playing = 0,
             NEW c \in LlmBrains, ~c.processing, ~c.streaming, c.start # "done", ~c.late,
             c.turns = b.turns
      PROVE  LlmInv(g, c)
  <2>1. \A s \in Slots : Pc(c, s) = "none"
    BY <1>1, <1>4 DEF Pc
  <2>2. ToolsLeft(c) /\ Streams(c) /\ Occupied(c) /\ Timed(g, c)
    BY <1>4, <2>1 DEF ToolsLeft, Streams, Occupied, Timed
  <2>3. HolderSpeaks(g, c) /\ PlayingUp(g) /\ OneAtATime(g, c)
    BY <1>4, <2>1 DEF HolderSpeaks, PlayingUp, OneAtATime, Turning, Up, Slots
  <2> QED
    BY <1>4, <2>2, <2>3 DEF LlmInv
<1>5. LlmInv(h, b)
  BY <1>1, <1>2, <1>4
<1>6. LlmInv(Shows(h, "speaking"), [b EXCEPT !.start = "audio"])
  <2> DEFINE c == [b EXCEPT !.start = "audio"]
  <2>1. /\ c \in LlmBrains /\ ~c.processing /\ ~c.streaming /\ c.start = "audio" /\ ~c.late
        /\ c.turns = b.turns
    BY <1>1, <1>2 DEF LlmBrains
  <2> HIDE DEF c
  <2> QED
    BY <1>3, <1>4, <2>1 DEF c
<1>7. LlmInv(SaysAt(h, b, "start", "greeting").h, SaysAt(h, b, "start", "greeting").b)
  <2>1. Waiting(h, b)
    BY <1>1, <1>5 DEF Waiting, LlmInv
  <2> QED
    BY <2>1, OtherSaysKeeps
<1>8. \/ harness = h /\ llm = b
      \/ harness = Shows(h, "speaking") /\ llm = [b EXCEPT !.start = "audio"]
      \/ /\ harness = SaysAt(h, b, "start", "greeting").h
         /\ llm = SaysAt(h, b, "start", "greeting").b
  BY DEF LlmInit, Now, h, b
<1> QED
  BY <1>5, <1>6, <1>7, <1>8

(* A brain that is not busy has no turn under way.                         *)
LEMMA NotBusy ==
  ASSUME NEW h, NEW b, LlmInv(h, b), ~b.processing, ~b.late, Up(h)
  PROVE  (\A s \in Slots : Pc(b, s) = "none") /\ h.holder \notin Slots
  BY DEF LlmInv, OneAtATime, Turning

LEMMA LateFields ==
  ASSUME NEW b \in LlmBrains
  PROVE  LET c == Late(b)
         IN  /\ c \in LlmBrains /\ c.late = (b.late \/ b.processing)
             /\ c.turns = b.turns /\ c.processing = b.processing
             /\ c.streaming = b.streaming /\ c.dropped = b.dropped /\ c.timer = b.timer
             /\ c.start = b.start /\ c.silence = b.silence
<1>1. (b.late \/ b.processing) \in BOOLEAN
  BY DEF LlmBrains
<1>2. Late(b) = [b EXCEPT !.late = (b.late \/ b.processing)]
  BY DEF Late, LlmBrains
<1> QED
  BY <1>1, <1>2 DEF LlmBrains

LEMMA LateKeeps ==
  ASSUME NEW h, NEW b, LlmInv(h, b)
  PROVE  Waiting(h, Late(b))
<1> DEFINE c == Late(b)
<1>1. /\ c \in LlmBrains /\ c.late = (b.late \/ b.processing)
      /\ c.turns = b.turns /\ c.processing = b.processing
      /\ c.streaming = b.streaming /\ c.dropped = b.dropped
  BY LateFields DEF LlmInv
<1> HIDE DEF c
<1>2. \A s \in Slots : Pc(c, s) = Pc(b, s)
  BY <1>1 DEF Pc
<1>3. ToolsLeft(c) /\ Streams(c) /\ Occupied(c) /\ HolderSpeaks(h, c)
  BY <1>1, <1>2 DEF LlmInv, ToolsLeft, Streams, Occupied, HolderSpeaks
<1>4. ~c.late /\ Up(h) => \A s \in Slots : Pc(c, s) = "none"
  BY <1>1, <1>2, NotBusy
<1> QED
  BY <1>1, <1>3, <1>4 DEF Waiting, LlmInv, c

(* onCallStart goes on without saying anything.                            *)
LEMMA LateWaits ==
  ASSUME NEW h, NEW b, Waiting(h, b),
         NEW state \in HarnessStates,
         NEW c \in LlmBrains, c.turns = b.turns, c.processing = b.processing,
         c.streaming = b.streaming, c.late = b.late, c.dropped = b.dropped,
         c.start # "done" \/ c.timer
  PROVE  LlmInv(Shows(h, state), c)
<1> DEFINE g == Shows(h, state)
<1>1. g \in Harnesses /\ g.call = h.call /\ g.holder = h.holder /\ g.playing = h.playing
  BY HarnessTypes DEF Waiting, Shows, Harnesses
<1> HIDE DEF g
<1>2. \A s \in Slots : Pc(c, s) = Pc(b, s)
  BY DEF Pc
<1>3. ToolsLeft(c) /\ Streams(c) /\ Occupied(c) /\ HolderSpeaks(g, c) /\ PlayingUp(g)
  BY <1>1, <1>2 DEF Waiting, ToolsLeft, Streams, Occupied, HolderSpeaks, PlayingUp, Up
<1>4. Timed(g, c)
  BY DEF Timed
<1>5. OneAtATime(g, c)
  BY <1>1, <1>2 DEF Waiting, OneAtATime, Turning, HolderSpeaks, Up
<1> QED
  BY <1>1, <1>3, <1>4, <1>5 DEF LlmInv, g

LEMMA StartKeeps ==
  ASSUME LlmInv(harness, llm), ToolsDiscovered \/ WelcomeEnds
  PROVE  LlmKept
<1> DEFINE b == Late(llm)
<1>1. Waiting(harness, b)
  BY LateKeeps
<1>2. CASE SaysGreeting
  BY <1>1, <1>2, OtherSaysKeeps DEF SaysGreeting, Becomes, LlmKept
<1>3. CASE Becomes(Now(Shows(harness, "speaking"), [b EXCEPT !.start = "audio"]))
  <2> DEFINE c == [b EXCEPT !.start = "audio"]
  <2>1. /\ c \in LlmBrains /\ c.turns = b.turns /\ c.processing = b.processing
        /\ c.streaming = b.streaming /\ c.late = b.late /\ c.dropped = b.dropped
        /\ c.start # "done"
    BY <1>1 DEF Waiting, LlmBrains
  <2>2. harness' = Shows(harness, "speaking") /\ llm' = c
    BY <1>3 DEF Becomes, Now
  <2> HIDE DEF b, c
  <2> QED
    BY <1>1, <2>1, <2>2, LateWaits DEF HarnessStates, LlmKept
<1>4. CASE Becomes(Now(Shows(harness, "listening"), [Rearmed(b) EXCEPT !.start = "done"]))
  <2> DEFINE c == [Rearmed(b) EXCEPT !.start = "done"]
  <2>1. /\ c \in LlmBrains /\ c.turns = b.turns /\ c.processing = b.processing
        /\ c.streaming = b.streaming /\ c.late = b.late /\ c.dropped = b.dropped
        /\ c.timer
    BY <1>1 DEF Waiting, Rearmed, LlmBrains
  <2>2. harness' = Shows(harness, "listening") /\ llm' = c
    BY <1>4 DEF Becomes, Now
  <2> HIDE DEF b, c
  <2> QED
    BY <1>1, <2>1, <2>2, LateWaits DEF HarnessStates, LlmKept
<1> QED
  BY <1>2, <1>3, <1>4 DEF ToolsDiscovered, WelcomeEnds
(* The caller is there.                                                    *)
LEMMA ActivityFields ==
  ASSUME NEW b \in LlmBrains
  PROVE  LET c == Activity(b)
         IN  /\ c \in LlmBrains /\ c.timer /\ c.turns = b.turns
             /\ c.processing = b.processing /\ c.streaming = b.streaming
             /\ c.late = b.late /\ c.dropped = b.dropped
<1> DEFINE b1 == Rearmed(b)
<1>1. 0 \in 0..(MaxReprompts + 1)
  BY LlmAssumption
<1>2. /\ b1 \in LlmBrains /\ b1.timer /\ b1.turns = b.turns /\ b1.processing = b.processing
      /\ b1.streaming = b.streaming /\ b1.late = b.late /\ b1.dropped = b.dropped
  BY DEF Rearmed, LlmBrains
<1>3. Activity(b) = [b1 EXCEPT !.reprompts = 0]
  BY DEF Activity
<1> HIDE DEF b1
<1> QED
  BY <1>1, <1>2, <1>3 DEF LlmBrains

LEMMA TimedKeeps ==
  ASSUME NEW h, NEW b, LlmInv(h, b),
         NEW c \in LlmBrains, c.timer, c.turns = b.turns, c.processing = b.processing,
         c.streaming = b.streaming, c.late = b.late, c.dropped = b.dropped
  PROVE  LlmInv(h, c)
<1>1. Timed(h, c) /\ \A s \in Slots : Pc(c, s) = Pc(b, s)
  BY DEF Timed, Pc
<1> QED
  BY <1>1, SameBrain

LEMMA FreeStarts ==
  ASSUME NEW h, NEW b, LlmInv(h, b), ~b.processing, NEW s \in Slots, Pc(b, s) = "none"
  PROVE  Leaving(h, b, s)
  BY NotBusy DEF LlmInv, Leaving, HolderSpeaks

LEMMA InputKeeps ==
  ASSUME LlmInv(harness, llm), LlmHears \/ KeyPressed \/ TurnReady
  PROVE  LlmKept
<1> DEFINE c == Activity(llm)
<1>0. harness \in Harnesses /\ llm \in LlmBrains
  BY DEF LlmInv
<1>1. /\ c \in LlmBrains /\ c.timer /\ c.turns = llm.turns
      /\ c.processing = llm.processing /\ c.streaming = llm.streaming
      /\ c.late = llm.late /\ c.dropped = llm.dropped
  BY <1>0, ActivityFields
<1> HIDE DEF c
<1>2. ASSUME NEW g \in Harnesses, g.call = harness.call, g.state = harness.state,
             g.holder = harness.holder, g.hangup = harness.hangup,
             g.playing = harness.playing
      PROVE  LlmInv(g, llm) /\ LlmInv(g, c)
  <2>1. LlmInv(g, llm)
    BY <1>2, SameHarness DEF LlmInv, PlayingUp, Up
  <2> QED
    BY <1>1, <2>1, TimedKeeps
<1>3. ASSUME NEW g \in Harnesses, LlmInv(g, c), ~llm.processing,
             NEW why \in {"input", "dtmf"}, NEW s \in Slots, FreeSlot(s),
             Becomes(Starts(g, c, s, why))
      PROVE  LlmKept
  <2>1. Pc(c, s) = "none"
    BY <1>1, <1>3 DEF FreeSlot, Pc
  <2> QED
    BY <1>1, <1>3, <2>1, FreeStarts, StartsKeeps DEF Becomes, LlmKept
<1>4. CASE LlmHears
  <2> DEFINE g == Hears(harness)
  <2>1. g \in Harnesses
    BY <1>0, <1>4, HarnessTypes DEF LlmHears
  <2>2. /\ g.call = harness.call /\ g.state = harness.state /\ g.holder = harness.holder
        /\ g.hangup = harness.hangup /\ g.playing = harness.playing
    BY <1>0 DEF Hears, Harnesses
  <2>3. harness' = g /\ llm' = llm
    BY <1>4 DEF LlmHears, Becomes, Now
  <2> HIDE DEF g
  <2> QED
    BY <1>2, <2>1, <2>2, <2>3 DEF LlmKept
<1>5. CASE KeyPressed
  <2> DEFINE g == Presses(harness)
  <2>1. g \in Harnesses
    BY <1>0, <1>5, HarnessTypes DEF KeyPressed
  <2>2. /\ g.call = harness.call /\ g.state = harness.state /\ g.holder = harness.holder
        /\ g.hangup = harness.hangup /\ g.playing = harness.playing
    BY <1>0 DEF Presses, Harnesses
  <2>3. \/ harness' = g /\ llm' = c
        \/ ~llm.processing /\ \E s \in Slots : FreeSlot(s) /\ Becomes(Starts(g, c, s, "dtmf"))
    BY <1>5 DEF KeyPressed, Becomes, Now, c
  <2> HIDE DEF g
  <2> QED
    BY <1>2, <1>3, <2>1, <2>2, <2>3 DEF LlmKept
<1>6. CASE TurnReady
  <2> DEFINE g == [harness EXCEPT !.buffer = FALSE]
             d == [c EXCEPT !.pending = TRUE]
  <2>1. g \in Harnesses
    BY <1>0, HarnessTypes
  <2>2. /\ g.call = harness.call /\ g.state = harness.state /\ g.holder = harness.holder
        /\ g.hangup = harness.hangup /\ g.playing = harness.playing
    BY <1>0 DEF Harnesses
  <2>3. \/ harness' = g /\ llm' = d
        \/ ~llm.processing /\ \E s \in Slots : FreeSlot(s) /\ Becomes(Starts(g, c, s, "input"))
    BY <1>6 DEF TurnReady, Becomes, Now, c
  <2>4. /\ d \in LlmBrains /\ d.timer /\ d.turns = llm.turns
        /\ d.processing = llm.processing /\ d.streaming = llm.streaming
        /\ d.late = llm.late /\ d.dropped = llm.dropped
    BY <1>1 DEF LlmBrains
  <2> HIDE DEF g, d
  <2>5. LlmInv(g, llm) /\ LlmInv(g, c)
    BY <1>2, <2>1, <2>2
  <2>6. LlmInv(g, d)
    BY <2>4, <2>5, TimedKeeps
  <2> QED
    BY <1>3, <2>1, <2>3, <2>5, <2>6 DEF LlmKept
<1> QED
  BY <1>4, <1>5, <1>6

-----------------------------------------------------------------------------
(* The steps of a turn.                                                    *)
LEMMA StreamedFields ==
  ASSUME NEW b \in LlmBrains
  PROVE  LET c == Streamed(b)
         IN  /\ c \in LlmBrains /\ ~c.streaming /\ c.turns = b.turns
             /\ c.processing = b.processing /\ c.late = b.late /\ c.dropped = b.dropped
             /\ c.pending = b.pending
  BY DEF Streamed, LlmBrains

LEMMA TurnLeaves ==
  ASSUME NEW h, NEW b, LlmInv(h, b), NEW s \in Slots,
         Pc(b, s) \in {"fetch", "tool", "backoff"},
         NEW c \in LlmBrains, c.late = b.late,
         \A t \in Slots : Pc(c, t) = Pc(b, t) /\ c.turns[t].tools = b.turns[t].tools
  PROVE  Leaving(h, c, s)
<1>1. \A t \in Slots : Pc(c, t) = Pc(b, t)
  OBVIOUS
<1>2. ToolsLeft(c) /\ HolderSpeaks(h, c)
  BY <1>1 DEF LlmInv, ToolsLeft, HolderSpeaks
<1>3. Up(h) => h.holder # s
  BY DEF LlmInv, HolderSpeaks
<1>4. ~c.late /\ Up(h) => h.holder \notin Slots /\ \A t \in Slots \ {s} : Pc(c, t) = "none"
  BY <1>1 DEF LlmInv, OneAtATime, Turning
<1> QED
  BY <1>2, <1>3, <1>4 DEF Leaving, LlmInv

(* A turn goes on to its next await without speaking.                      *)
LEMMA StepsOn ==
  ASSUME NEW h, NEW b, LlmInv(h, b), NEW s \in Slots,
         Pc(b, s) \in {"fetch", "tool", "backoff"},
         NEW c \in LlmBrains, Pc(c, s) \in {"fetch", "tool", "backoff"},
         \A t \in Slots \ {s} : c.turns[t] = b.turns[t],
         c.processing = b.processing, c.late = b.late,
         Pc(c, s) = "fetch" => c.turns[s].tools < MaxToolTurns,
         ~b.late /\ Up(h) => (Pc(c, s) \in {"fetch", "tool"} => c.streaming),
         Pc(c, s) = "backoff" => ~c.streaming
  PROVE  LlmInv(h, c)
<1>1. \A t \in Slots \ {s} : Pc(c, t) = Pc(b, t)
  BY DEF Pc
<1>2. ToolsLeft(c) /\ Streams(c) /\ Occupied(c) /\ Timed(h, c)
  BY <1>1 DEF LlmInv, ToolsLeft, Streams, Occupied, Timed
<1>3. HolderSpeaks(h, c)
  BY <1>1 DEF LlmInv, HolderSpeaks
<1>4. OneAtATime(h, c)
  BY <1>1 DEF LlmInv, OneAtATime, Turning
<1> QED
  BY <1>2, <1>3, <1>4 DEF LlmInv

LEMMA FinishesKeep ==
  ASSUME LlmInv(harness, llm), NEW s \in Slots, Pc(llm, s) \in {"fetch", "tool", "backoff"},
         NEW h \in Harnesses, h.call = harness.call, h.holder = harness.holder,
         h.playing = harness.playing,
         \/ Becomes(Finish(h, Streamed(llm), s))
         \/ Becomes(Farewell(h, Streamed(llm), s))
  PROVE  LlmKept
<1> DEFINE c == Streamed(llm)
<1>1. c \in LlmBrains /\ ~c.streaming /\ c.turns = llm.turns /\ c.late = llm.late
  BY StreamedFields DEF LlmInv
<1> HIDE DEF c
<1>2. Leaving(harness, c, s)
  BY <1>1, TurnLeaves DEF Pc
<1>3. Leaving(h, c, s)
  BY <1>2 DEF Leaving, HolderSpeaks, PlayingUp, Up
<1>4. LlmInv(Finish(h, c, s).h, Finish(h, c, s).b)
  BY <1>1, <1>3, FinishKeeps
<1>5. LlmInv(Farewell(h, c, s).h, Farewell(h, c, s).b)
  BY <1>1, <1>3, FarewellKeeps
<1> QED
  BY <1>4, <1>5 DEF Becomes, LlmKept, c

(* A turn's text is tried once more, or its apology is said.               *)
LEMMA TriesAgainKeeps ==
  ASSUME LlmInv(harness, llm), NEW s \in Slots, Pc(llm, s) = "fetch", TriesAgain(s)
  PROVE  LlmKept
<1> DEFINE b == Streamed(llm)
           t == [b.turns[s] EXCEPT !.pc = "backoff"]
           c == [b EXCEPT !.turns[s] = t]
<1>0. llm \in LlmBrains
  BY DEF LlmInv
<1>1. /\ b \in LlmBrains /\ ~b.streaming /\ b.turns = llm.turns /\ b.late = llm.late
      /\ b.processing = llm.processing
  BY <1>0, StreamedFields
<1>2. CASE llm' = c /\ harness' = harness
  <2> HIDE DEF b
  <2>1. t \in Turns /\ t.pc = "backoff"
    BY <1>1 DEF LlmBrains, Turns, TurnPcs
  <2> HIDE DEF t
  <2>2. /\ c \in LlmBrains /\ ~c.streaming /\ c.late = llm.late
        /\ c.processing = llm.processing /\ c.turns[s] = t
        /\ \A u \in Slots \ {s} : c.turns[u] = llm.turns[u]
    BY <1>1, <2>1 DEF LlmBrains
  <2> HIDE DEF c
  <2>3. Pc(c, s) = "backoff"
    BY <2>1, <2>2 DEF Pc
  <2>4. LlmInv(harness, c)
    BY <2>2, <2>3, StepsOn
  <2> QED
    BY <1>2, <2>4 DEF LlmKept
<1>3. CASE Becomes(SaysAt(harness, b, s, "apology"))
  <2> HIDE DEF b
  <2>1. Leaving(harness, b, s)
    BY <1>1, TurnLeaves DEF Pc
  <2>2. ~b.late /\ Up(harness) => b.processing
    BY <1>1 DEF LlmInv, OneAtATime, Turning
  <2>3. LlmInv(SaysAt(harness, b, s, "apology").h, SaysAt(harness, b, s, "apology").b)
    BY <1>1, <2>1, <2>2, TurnSaysKeeps
  <2> QED
    BY <1>3, <2>3 DEF Becomes, LlmKept
<1>4. At(b, s, "backoff") = c
  BY DEF At, Slots
<1> QED
  BY <1>2, <1>3, <1>4 DEF TriesAgain, Becomes, Now

(* The next request of a turn.                                             *)
LEMMA FetchesKeep ==
  ASSUME LlmInv(harness, llm), NEW s \in Slots, Pc(llm, s) \in {"tool", "backoff"},
         NEW b \in LlmBrains, b.turns[s].tools < MaxToolTurns,
         b.processing = llm.processing, b.late = llm.late,
         \A t \in Slots \ {s} : b.turns[t] = llm.turns[t],
         Becomes(Now(harness, Fetches(b, s)))
  PROVE  LlmKept
<1> DEFINE c == Fetches(b, s)
<1>1. /\ c \in LlmBrains /\ c.streaming /\ c.processing = b.processing /\ c.late = b.late
      /\ Pc(c, s) = "fetch" /\ c.turns[s].tools = b.turns[s].tools
      /\ \A t \in Slots \ {s} : c.turns[t] = b.turns[t]
  BY FetchesFields
<1>2. harness' = harness /\ llm' = c
  BY DEF Becomes, Now
<1> HIDE DEF c
<1>3. LlmInv(harness, c)
  BY <1>1, StepsOn
<1> QED
  BY <1>2, <1>3 DEF LlmKept

LEMMA TurnKeeps ==
  ASSUME LlmInv(harness, llm), NEW s \in Slots, TurnSteps(s)
  PROVE  LlmKept
<1>0. /\ harness \in Harnesses /\ llm \in LlmBrains /\ llm.turns[s] \in Turns
      /\ llm.turns[s].tools \in Nat /\ llm.turns[s].said \in Nat
      /\ MaxToolTurns \in Nat /\ MaxToolTurns > 0 /\ MaxSentences \in Nat
  BY LlmAssumption DEF LlmInv, LlmBrains, Turns
<1>1. CASE SaysSentence(s)
  <2> DEFINE t == [llm.turns[s] EXCEPT !.said = @ + 1]
             b == [llm EXCEPT !.turns[s].said = @ + 1]
  <2>1. llm.turns[s].said + 1 \in 0..MaxSentences /\ Pc(llm, s) = "fetch"
    BY <1>0, <1>1 DEF SaysSentence, Reads, Pc
  <2>2. t \in Turns /\ t.pc = "fetch" /\ t.tools = llm.turns[s].tools
    BY <1>0, <2>1 DEF Turns, Pc
  <2>3. b = [llm EXCEPT !.turns[s] = t]
    BY <1>0 DEF LlmBrains
  <2> HIDE DEF b, t
  <2>4. /\ b \in LlmBrains /\ b.late = llm.late /\ b.streaming = llm.streaming
        /\ b.processing = llm.processing /\ b.turns[s] = t
        /\ \A u \in Slots \ {s} : b.turns[u] = llm.turns[u]
    BY <1>0, <2>2, <2>3 DEF LlmBrains
  <2>5. Leaving(harness, b, s)
    BY <2>1, <2>2, <2>4, TurnLeaves DEF Pc
  <2>6. b.turns[s].tools < MaxToolTurns
    BY <2>1, <2>2, <2>4 DEF LlmInv, ToolsLeft
  <2>7. ~b.late /\ Up(harness) => b.processing /\ b.streaming
    BY <2>1, <2>4 DEF LlmInv, OneAtATime, Turning
  <2>8. LlmInv(SaysAt(harness, b, s, "speak").h, SaysAt(harness, b, s, "speak").b)
    BY <2>5, <2>6, <2>7, TurnSaysKeeps
  <2> QED
    BY <1>1, <2>8 DEF SaysSentence, Becomes, LlmKept, b
<1>2. CASE EndsWithText(s)
  BY <1>0, <1>2, FinishesKeep DEF EndsWithText, Reads, Pc
<1>3. CASE Fails(s)
  BY <1>0, <1>3, FinishesKeep, TriesAgainKeeps DEF Fails, Reads, Pc
<1>4. CASE Aborts(s)
  BY <1>0, <1>4, FinishesKeep DEF Aborts, Pc
<1>5. CASE RetryBegins(s)
  <2> DEFINE t == [llm.turns[s] EXCEPT !.try = 2, !.tools = 0]
             b == [llm EXCEPT !.turns[s].try = 2, !.turns[s].tools = 0]
  <2>1. t \in Turns /\ t.tools = 0
    <3>1. 2 \in 1..2
      OBVIOUS
    <3> QED
      BY <1>0, <3>1, NoTurnType DEF Turns
  <2>2. b = [llm EXCEPT !.turns[s] = t]
    BY <1>0 DEF LlmBrains
  <2> HIDE DEF b, t
  <2>3. /\ b \in LlmBrains /\ b.late = llm.late
        /\ b.processing = llm.processing /\ b.turns[s] = t
        /\ \A u \in Slots \ {s} : b.turns[u] = llm.turns[u]
    BY <1>0, <2>1, <2>2 DEF LlmBrains
  <2>4. Pc(llm, s) = "backoff" /\ Becomes(Now(harness, Fetches(b, s)))
    BY <1>5 DEF RetryBegins, Pc, b
  <2> QED
    BY <1>0, <2>1, <2>3, <2>4, FetchesKeep
<1>6. CASE CallsTool(s)
  <2> DEFINE t0 == [llm.turns[s] EXCEPT !.pc = "tool"]
             b == At(llm, s, "tool")
             t == [t0 EXCEPT !.tools = @ + 1]
             c == [b EXCEPT !.controller = "none", !.turns[s].tools = @ + 1]
  <2>1. Pc(llm, s) = "fetch" /\ llm.turns[s].tools + 1 \in 0..MaxToolTurns
    BY <1>0, <1>6 DEF CallsTool, Reads, Pc, LlmInv, ToolsLeft
  <2>2. t0 \in Turns /\ t0.pc = "tool" /\ t0.tools = llm.turns[s].tools
    BY <1>0 DEF Turns, TurnPcs
  <2>3. b = [llm EXCEPT !.turns[s] = t0]
    BY DEF At, Slots
  <2> HIDE DEF b, t0
  <2>4. /\ b \in LlmBrains /\ b.late = llm.late /\ b.processing = llm.processing
        /\ b.streaming = llm.streaming /\ b.turns = [llm.turns EXCEPT ![s] = t0]
    BY <1>0, <2>2, <2>3 DEF LlmBrains
  <2>5. b.turns[s] = t0 /\ \A u \in Slots \ {s} : b.turns[u] = llm.turns[u]
    BY <1>0, <2>4 DEF LlmBrains
  <2>6. t \in Turns /\ t.pc = "tool"
    BY <2>1, <2>2 DEF Turns
  <2>7. c = [b EXCEPT !.controller = "none", !.turns[s] = t]
    BY <2>4, <2>5 DEF LlmBrains
  <2>8. harness' = harness /\ llm' = c
    BY <1>6 DEF CallsTool, Becomes, Now, b
  <2> HIDE DEF c, t
  <2>9. /\ c \in LlmBrains /\ c.late = llm.late /\ c.processing = llm.processing
        /\ c.streaming = llm.streaming /\ c.turns = [b.turns EXCEPT ![s] = t]
    BY <2>4, <2>6, <2>7 DEF LlmBrains
  <2>10. c.turns[s] = t /\ \A u \in Slots \ {s} : c.turns[u] = llm.turns[u]
    BY <2>4, <2>5, <2>9 DEF LlmBrains
  <2>11. Pc(c, s) = "tool"
    BY <2>6, <2>10 DEF Pc
  <2>12. ~llm.late /\ Up(harness) => c.streaming
    BY <2>1, <2>9 DEF LlmInv, OneAtATime, Turning
  <2>13. /\ Pc(llm, s) \in {"fetch", "tool", "backoff"}
         /\ Pc(c, s) \in {"fetch", "tool", "backoff"}
         /\ \A u \in Slots \ {s} : c.turns[u] = llm.turns[u]
         /\ Pc(c, s) # "fetch" /\ Pc(c, s) # "backoff"
    BY <2>1, <2>10, <2>11
  <2>14. /\ ~llm.late /\ Up(harness) => (Pc(c, s) \in {"fetch", "tool"} => c.streaming)
         /\ Pc(c, s) = "fetch" => c.turns[s].tools < MaxToolTurns
         /\ Pc(c, s) = "backoff" => ~c.streaming
    BY <2>12, <2>13
  <2>15. c \in LlmBrains /\ c.processing = llm.processing /\ c.late = llm.late
    BY <2>9
  <2>16. LlmInv(harness, c)
    BY <2>13, <2>14, <2>15, StepsOn
  <2> QED
    BY <2>8, <2>16 DEF LlmKept
<1>7. CASE ToolReturns(s)
  BY <1>0, <1>7, FetchesKeep, FinishesKeep DEF ToolReturns, Pc
<1>8. CASE ToolTakesOver(s)
  <2>1. ASSUME NEW h \in {Transfers(harness), HangsUp(harness)},
               Becomes(Finish(h, Streamed(llm), s))
        PROVE  LlmKept
    <3>1. h \in Harnesses
      BY <1>0, <2>1, HarnessTypes
    <3>2. h.call = harness.call /\ h.holder = harness.holder /\ h.playing = harness.playing
      BY <1>0, <2>1 DEF Transfers, HangsUp, Shows, Harnesses
    <3> QED
      BY <1>8, <2>1, <3>1, <3>2, FinishesKeep DEF ToolTakesOver, Pc
  <2> QED
    BY <1>8, <2>1 DEF ToolTakesOver
<1> QED
  BY <1>1, <1>2, <1>3, <1>4, <1>5, <1>6, <1>7, <1>8 DEF TurnSteps

-----------------------------------------------------------------------------
(* The other steps.                                                        *)
LEMMA TimeoutKeeps ==
  ASSUME LlmInv(harness, llm), SilenceTimeout
  PROVE  LlmKept
<1> DEFINE again == llm.reprompts < MaxReprompts
           count == IF again THEN llm.reprompts + 1 ELSE MaxReprompts + 1
           b == [llm EXCEPT !.timer = FALSE, !.reprompts = count]
           c == [llm EXCEPT !.timer = FALSE]
<1>0. harness \in Harnesses /\ llm \in LlmBrains
  BY DEF LlmInv
<1>1. count \in 0..(MaxReprompts + 1)
  BY <1>0, LlmAssumption DEF LlmBrains
<1> HIDE DEF count
<1>2. /\ b \in LlmBrains /\ b.turns = llm.turns /\ b.processing = llm.processing
      /\ b.streaming = llm.streaming /\ b.late = llm.late /\ b.dropped = llm.dropped
  BY <1>0, <1>1 DEF LlmBrains
<1>3. /\ c \in LlmBrains /\ c.turns = llm.turns /\ c.processing = llm.processing
      /\ c.streaming = llm.streaming /\ c.late = llm.late /\ c.dropped = llm.dropped
  BY <1>0 DEF LlmBrains
<1>4. \/ /\ llm.processing \/ llm.streaming
         /\ harness' = harness /\ llm' = c
      \/ /\ ~llm.processing
         /\ Becomes(SaysAt(harness, b, "silence", IF again THEN "reprompt" ELSE "goodbye"))
  BY DEF SilenceTimeout, Becomes, Now, count
<1> HIDE DEF b, c
<1>5. CASE (llm.processing \/ llm.streaming) /\ harness' = harness /\ llm' = c
  <2>1. Timed(harness, c)
    BY <1>3, <1>5 DEF Timed, LlmInv, Occupied, Streams, Pc
  <2>2. LlmInv(harness, c)
    BY <1>3, <2>1, SameBrain DEF Pc
  <2> QED
    BY <1>5, <2>2 DEF LlmKept
<1>6. CASE ~llm.processing
           /\ Becomes(SaysAt(harness, b, "silence", IF again THEN "reprompt" ELSE "goodbye"))
  <2> DEFINE pc == IF again THEN "reprompt" ELSE "goodbye"
  <2>1. \A s \in Slots : Pc(b, s) = Pc(llm, s)
    BY <1>2 DEF Pc
  <2>2. ToolsLeft(b) /\ Streams(b) /\ Occupied(b) /\ HolderSpeaks(harness, b)
    BY <1>2, <2>1 DEF LlmInv, ToolsLeft, Streams, Occupied, HolderSpeaks
  <2>3. ~b.late /\ Up(harness) => \A s \in Slots : Pc(b, s) = "none"
    BY <1>2, <1>6, <2>1, NotBusy
  <2>4. Waiting(harness, b)
    BY <1>0, <1>2, <2>2, <2>3 DEF Waiting, LlmInv
  <2>5. pc \in {"reprompt", "goodbye"}
    OBVIOUS
  <2> HIDE DEF pc
  <2>6. LlmInv(SaysAt(harness, b, "silence", pc).h, SaysAt(harness, b, "silence", pc).b)
    BY <2>4, <2>5, OtherSaysKeeps
  <2> QED
    BY <1>6, <2>6 DEF Becomes, LlmKept, pc
<1> QED
  BY <1>4, <1>5, <1>6

LEMMA DoneKeeps ==
  ASSUME LlmInv(harness, llm), SpeakingDone
  PROVE  LlmKept
<1> DEFINE g == Reports(harness)
<1>0. harness \in Harnesses /\ Up(harness)
  BY DEF LlmInv, SpeakingDone, PlayingUp
<1>1. g \in Harnesses
  BY <1>0, HarnessTypes DEF SpeakingDone
<1>2. /\ g.call = harness.call /\ g.state = harness.state /\ g.holder = harness.holder
      /\ g.hangup = harness.hangup
  BY <1>0 DEF Reports, Harnesses
<1> HIDE DEF g
<1>3. LlmInv(g, llm) /\ Up(g)
  BY <1>0, <1>1, <1>2, SameHarness DEF PlayingUp, Up
<1>4. LlmInv(Spoken(g, llm).h, Spoken(g, llm).b)
  BY <1>3, SpokenKeeps
<1> QED
  BY <1>4 DEF SpeakingDone, Becomes, LlmKept, g

LEMMA InterruptedKeeps ==
  ASSUME LlmInv(harness, llm), LlmInterrupted
  PROVE  LlmKept
<1> DEFINE g == Interrupts(harness)
           h == [g EXCEPT !.holder = "none"]
<1>0. harness \in Harnesses /\ Up(harness) /\ harness.holder \in Tasks \cup {"none"}
  BY DEF LlmInv, LlmInterrupted, CanInterrupt, Up, Harnesses
<1>1. g \in Harnesses
  BY <1>0, HarnessTypes DEF LlmInterrupted
<1>2. /\ g.call = harness.call /\ g.state = harness.state /\ g.holder = harness.holder
      /\ g.hangup = harness.hangup
  BY <1>0 DEF Interrupts, Harnesses
<1>3. \/ Becomes(Spoken(g, llm))
      \/ Becomes(Rejected(h, llm, harness.holder))
  BY <1>2 DEF LlmInterrupted
<1> HIDE DEF g
<1>4. LlmInv(g, llm) /\ Up(g)
  BY <1>0, <1>1, <1>2, SameHarness DEF PlayingUp, Up
<1>5. /\ h \in Harnesses /\ h.call = g.call /\ h.state = g.state /\ h.hangup = g.hangup
      /\ h.holder = "none"
  BY <1>1, HarnessTypes DEF Harnesses
<1> HIDE DEF h
<1>6. Settled(h, llm, harness.holder)
  BY <1>0, <1>2, <1>4, <1>5 DEF Settled, LlmInv, Timed, HolderSpeaks, OneAtATime, Up
<1>7. LlmInv(Spoken(g, llm).h, Spoken(g, llm).b)
  BY <1>4, SpokenKeeps
<1>8. LlmInv(Rejected(h, llm, harness.holder).h, Rejected(h, llm, harness.holder).b)
  BY <1>6, RejectedKeeps
<1> QED
  BY <1>3, <1>7, <1>8 DEF Becomes, LlmKept

LEMMA AbortsFields ==
  ASSUME NEW b \in LlmBrains
  PROVE  LET c == AbortsFetch(b)
         IN  /\ c \in LlmBrains /\ c.processing = b.processing /\ c.streaming = b.streaming
             /\ c.late = b.late /\ c.dropped = b.dropped /\ c.timer = b.timer
             /\ c.start = b.start /\ c.silence = b.silence
             /\ \A s \in Slots : /\ c.turns[s].pc = b.turns[s].pc
                                 /\ c.turns[s].tools = b.turns[s].tools
<1> DEFINE flag(s) == IF s # b.controller THEN b.turns[s].aborted
                      ELSE IF b.turns[s].pc = "speak" THEN "speaking" ELSE "reading"
           after == [s \in Slots |-> [b.turns[s] EXCEPT !.aborted = flag(s)]]
           c == AbortsFetch(b)
<1>1. ASSUME NEW s \in Slots
      PROVE  /\ after[s] \in Turns /\ after[s].pc = b.turns[s].pc
             /\ after[s].tools = b.turns[s].tools
  <2>1. b.turns[s] \in Turns
    BY DEF LlmBrains
  <2>2. flag(s) \in {"no", "reading", "speaking"}
    BY <2>1 DEF Turns
  <2>3. after[s] = [b.turns[s] EXCEPT !.aborted = flag(s)]
    OBVIOUS
  <2> HIDE DEF flag, after
  <2> QED
    BY <2>1, <2>2, <2>3 DEF Turns
<1>2. after \in [Slots -> Turns]
  BY <1>1
<1>3. c = [b EXCEPT !.turns = after]
  BY DEF AbortsFetch
<1> HIDE DEF after, c
<1> QED
  BY <1>1, <1>2, <1>3 DEF LlmBrains, c

LEMMA ConfirmedKeeps ==
  ASSUME LlmInv(harness, llm), LlmConfirmed
  PROVE  LlmKept
<1> DEFINE c == AbortsFetch(llm)
<1>0. harness \in Harnesses /\ llm \in LlmBrains
  BY DEF LlmInv
<1>1. PICK final \in BOOLEAN : harness' = Confirms(harness, final) /\ llm' = c
  BY DEF LlmConfirmed, Becomes, Now
<1>2. /\ c \in LlmBrains /\ c.processing = llm.processing /\ c.streaming = llm.streaming
      /\ c.late = llm.late /\ c.dropped = llm.dropped /\ c.timer = llm.timer
      /\ c.start = llm.start /\ c.silence = llm.silence
      /\ \A s \in Slots : /\ c.turns[s].pc = llm.turns[s].pc
                          /\ c.turns[s].tools = llm.turns[s].tools
  BY <1>0, AbortsFields
<1> HIDE DEF c
<1>3. \A s \in Slots : Pc(c, s) = Pc(llm, s) /\ c.turns[s].tools = llm.turns[s].tools
  BY <1>2 DEF Pc
<1>4. Timed(harness, c)
  BY <1>2, <1>3 DEF LlmInv, Timed
<1>5. LlmInv(harness, c)
  BY <1>2, <1>3, <1>4, SameBrain
<1> DEFINE g == Confirms(harness, final)
<1>6. g \in Harnesses
  BY <1>0, HarnessTypes DEF LlmConfirmed
<1>7. /\ g.call = harness.call /\ g.state = harness.state /\ g.holder = harness.holder
      /\ g.hangup = harness.hangup /\ g.playing = harness.playing
  BY <1>0 DEF Confirms, Hears, Harnesses
<1> HIDE DEF g
<1>8. LlmInv(g, c)
  BY <1>5, <1>6, <1>7, SameHarness DEF PlayingUp, LlmInv, Up
<1> QED
  BY <1>1, <1>8 DEF LlmKept, g

LEMMA FalseAlarmKeeps ==
  ASSUME LlmInv(harness, llm), LlmFalseAlarm
  PROVE  LlmKept
<1> DEFINE g == FalseAlarm(harness)
<1>0. harness \in Harnesses
  BY DEF LlmInv
<1>1. g \in Harnesses
  BY <1>0, HarnessTypes
<1>2. /\ g.call = harness.call /\ g.state = harness.state /\ g.holder = harness.holder
      /\ g.hangup = harness.hangup /\ g.playing = harness.playing
  BY <1>0 DEF FalseAlarm, Harnesses
<1>3. harness' = g /\ llm' = llm
  BY DEF LlmFalseAlarm, Becomes, Now
<1> HIDE DEF g
<1> QED
  BY <1>1, <1>2, <1>3, SameHarness DEF PlayingUp, LlmInv, LlmKept, Up

LEMMA EndKeeps ==
  ASSUME LlmInv(harness, llm), LlmEnds
  PROVE  LlmKept
<1> DEFINE b == At(llm, harness.holder, "lost")
           b1 == AbortsFetch(b)
<1>0. /\ harness \in Harnesses /\ llm \in LlmBrains
      /\ harness.holder \in Tasks \cup {"none"}
  BY DEF LlmInv, Harnesses
<1>1. /\ b \in LlmBrains
      /\ b.processing = llm.processing /\ b.streaming = llm.streaming
      /\ b.dropped = llm.dropped
      /\ \A s \in Slots : b.turns[s] = IF s = harness.holder THEN [NoTurn EXCEPT !.pc = "lost"]
                                                             ELSE llm.turns[s]
  BY <1>0, LosesPromise
<1>2. \A s \in Slots : Pc(b, s) = IF s = harness.holder THEN "lost" ELSE Pc(llm, s)
  BY <1>1, NoTurnType DEF Pc, Turns
<1>3. /\ b1 \in LlmBrains /\ b1.processing = b.processing /\ b1.streaming = b.streaming
      /\ b1.dropped = b.dropped
      /\ \A s \in Slots : /\ b1.turns[s].pc = b.turns[s].pc
                          /\ b1.turns[s].tools = b.turns[s].tools
  BY <1>1, AbortsFields
<1>4. PICK told \in BOOLEAN :
         /\ harness' = Ends(harness, told)
         /\ llm' = [b1 EXCEPT !.timer = FALSE, !.pending = FALSE, !.controller = "none",
                              !.processing = @ /\ ~told]
  BY DEF LlmEnds, Becomes, Now
<1> DEFINE g == Ends(harness, told)
           flag == b1.processing /\ ~told
           d == [b1 EXCEPT !.timer = FALSE, !.pending = FALSE, !.controller = "none",
                           !.processing = flag]
<1>5. g \in Harnesses /\ ~Up(g) /\ g.playing = 0
  BY <1>0, EndsFields
<1> HIDE DEF g, b, b1
<1>6. flag \in BOOLEAN /\ (flag => llm.processing)
  BY <1>1, <1>3 DEF LlmBrains
<1>7. harness' = g /\ llm' = d
  BY <1>4 DEF g
<1> HIDE DEF flag
<1> DEFINE b2 == [b1 EXCEPT !.timer = FALSE, !.pending = FALSE, !.controller = "none"]
<1>8. /\ d \in LlmBrains /\ d.turns = b1.turns /\ d.processing = flag
      /\ d.streaming = llm.streaming /\ d.dropped = llm.dropped
  <2>1. /\ b2 \in LlmBrains /\ b2.turns = b1.turns /\ b2.streaming = b1.streaming
        /\ b2.dropped = b1.dropped
    BY <1>3 DEF LlmBrains
  <2>2. d = [b2 EXCEPT !.processing = flag]
    OBVIOUS
  <2> HIDE DEF b2, d
  <2> QED
    BY <1>1, <1>3, <1>6, <2>1, <2>2 DEF LlmBrains
<1> HIDE DEF d
<1>9. \A s \in Slots : Pc(d, s) = Pc(b, s) /\ d.turns[s].tools = b.turns[s].tools
  BY <1>3, <1>8 DEF Pc
<1>10. ToolsLeft(d)
  BY <1>1, <1>2, <1>9 DEF ToolsLeft, LlmInv
<1>11. Streams(d) /\ Occupied(d)
  BY <1>2, <1>6, <1>8, <1>9 DEF Streams, Occupied, LlmInv
<1>12. Timed(g, d) /\ HolderSpeaks(g, d) /\ PlayingUp(g) /\ OneAtATime(g, d)
  BY <1>5 DEF Timed, HolderSpeaks, PlayingUp, OneAtATime
<1>13. LlmInv(g, d)
  BY <1>5, <1>8, <1>10, <1>11, <1>12 DEF LlmInv
<1> QED
  BY <1>7, <1>13 DEF LlmKept

LEMMA LlmNextKeeps ==
  ASSUME LlmInv(harness, llm), LlmNext
  PROVE  LlmKept
BY StartKeeps, InputKeeps, TurnKeeps, TimeoutKeeps, DoneKeeps, InterruptedKeeps,
   ConfirmedKeeps, FalseAlarmKeeps, EndKeeps DEF LlmNext, LlmTimers

-----------------------------------------------------------------------------
(* The invariant of a call with FlowBrain.                                 *)

TaskPc(f, s) == f.tasks[s].pc

Prompts == {"enter", "key", "timeout"}

IsMenu(n) == Flow[n].type = "menu"

(* Sound files are not known to the speech queue.                          *)
Quiet(h) == h.holder = "none" /\ h.playing = 0 /\ ~h.awaiting

(* Where a flow is sequential: one task runs, at the node the caller is    *)
(* in, and then no timeout does; a timeout is that of the caller's menu.   *)
Orderly(h, f) == Up(h) /\ (f.prompts = "tts" \/ h.inputs = 0)

OneTask(f) ==
  \A s \in Slots : TaskPc(f, s) # "none" =>
    /\ f.timer = "none"
    /\ \A t \in Slots \ {s} : TaskPc(f, t) = "none"
    /\ f.tasks[s].node = f.current /\ TaskPc(f, s) # "lost"
    /\ TaskPc(f, s) \in {"key", "timeout"} => IsMenu(f.current)

TimerFits(f) == f.timer # "none" => f.timer = f.current /\ IsMenu(f.current)

(* A task that says its prompt holds the promise, and the state says what  *)
(* the task does.                                                          *)
Prompting(h, f) ==
  /\ h.holder \in Slots \cup {"none"}
  /\ \A s \in Slots :
       /\ TaskPc(f, s) \in Prompts <=> h.holder = s
       /\ TaskPc(f, s) \in Prompts => h.state = "speaking"
       /\ TaskPc(f, s) = "http" => h.state = "processing"

FlowInv(h, f) ==
  /\ h \in Harnesses /\ f \in FlowBrains /\ PlayingUp(h)
  /\ \A s \in Slots : TaskPc(f, s) # "none" => f.tasks[s].node \in Nodes
  /\ f.prompts = "audio" => Quiet(h)
  /\ h.inputs = 0 => ~h.buffer
  /\ Orderly(h, f) => OneTask(f) /\ TimerFits(f)
  /\ Up(h) /\ f.prompts = "tts" => Prompting(h, f)

(* What is known when the task s goes on, or a free one begins.            *)
Goes(h, f, s) ==
  /\ h \in Harnesses /\ f \in FlowBrains /\ PlayingUp(h)
  /\ \A t \in Slots \ {s} : TaskPc(f, t) # "none" => f.tasks[t].node \in Nodes
  /\ f.prompts = "audio" => Quiet(h)
  /\ h.inputs = 0 => ~h.buffer
  /\ Orderly(h, f) => TimerFits(f) /\ \A t \in Slots \ {s} : TaskPc(f, t) = "none"
  /\ Up(h) /\ f.prompts = "tts" => h.holder = "none"

Untimed(h, f) == Orderly(h, f) => f.timer = "none"

LEMMA TaskFields ==
  ASSUME NEW f \in FlowBrains, NEW s \in Slots, NEW t \in FlowTasks
  PROVE  LET g == [f EXCEPT !.tasks[s] = t]
         IN  /\ g \in FlowBrains /\ g.prompts = f.prompts /\ g.current = f.current
             /\ g.timer = f.timer /\ g.retries = f.retries /\ g.tasks[s] = t
             /\ \A u \in Slots \ {s} : g.tasks[u] = f.tasks[u]
BY DEF FlowBrains

LEMMA LostFields ==
  ASSUME NEW f \in FlowBrains, NEW s \in Tasks \cup {"none"}
  PROVE  LET g == FlowTaskLost(f, s)
         IN  /\ g \in FlowBrains /\ g.prompts = f.prompts /\ g.current = f.current
             /\ g.timer = f.timer
             /\ \A u \in Slots : /\ g.tasks[u].node = f.tasks[u].node
                                 /\ u # s => g.tasks[u] = f.tasks[u]
<1>1. CASE s \in Slots
  <2> DEFINE t == [f.tasks[s] EXCEPT !.pc = "lost"]
  <2>1. t \in FlowTasks /\ t.node = f.tasks[s].node
    BY <1>1 DEF FlowBrains, FlowTasks
  <2>2. FlowTaskLost(f, s) = [f EXCEPT !.tasks[s] = t]
    BY <1>1 DEF FlowTaskLost
  <2> HIDE DEF t
  <2> QED
    BY <1>1, <2>1, <2>2, TaskFields
<1>2. CASE s \notin Slots
  BY <1>2 DEF FlowTaskLost
<1> QED
  BY <1>1, <1>2

LEMMA StopsKeeps ==
  ASSUME NEW h, NEW f, NEW s \in Slots, Goes(h, f, s)
  PROVE  LET r == Stops(h, f, s) IN FlowInv(r.h, r.f)
<1> DEFINE g == [f EXCEPT !.tasks[s] = Idle]
<1>0. Idle \in FlowTasks /\ Idle.pc = "none"
  BY DEF Idle, FlowTasks
<1>1. /\ g \in FlowBrains /\ g.prompts = f.prompts /\ g.current = f.current
      /\ g.timer = f.timer /\ g.tasks[s] = Idle
      /\ \A u \in Slots \ {s} : g.tasks[u] = f.tasks[u]
  BY <1>0, TaskFields DEF Goes
<1>2. Stops(h, f, s) = [h |-> h, f |-> g]
  BY DEF Stops, Moved
<1> HIDE DEF g
<1>3. TaskPc(g, s) = "none" /\ \A u \in Slots \ {s} : TaskPc(g, u) = TaskPc(f, u)
  BY <1>0, <1>1 DEF TaskPc
<1>4. \A u \in Slots : TaskPc(g, u) # "none" => g.tasks[u].node \in Nodes
  BY <1>1, <1>3 DEF Goes
<1>5. Orderly(h, g) => OneTask(g) /\ TimerFits(g)
  BY <1>1, <1>3 DEF Goes, Orderly, OneTask, TimerFits
<1>6. Up(h) /\ g.prompts = "tts" => Prompting(h, g)
  BY <1>1, <1>3 DEF Goes, Orderly, Prompting, Prompts, Slots
<1> QED
  BY <1>1, <1>2, <1>4, <1>5, <1>6 DEF FlowInv, Goes

(* A task begins to wait for a prompt or a request.                        *)
LEMMA WaitsKeep ==
  ASSUME NEW h, NEW f, NEW s \in Slots, Goes(h, f, s), Untimed(h, f),
         NEW pc \in Prompts \cup {"http"}, NEW n \in Nodes,
         Orderly(h, f) => n = f.current /\ (pc \in {"key", "timeout"} => IsMenu(n)),
         NEW g \in Harnesses, g.call = h.call, PlayingUp(g), g.inputs = h.inputs,
         g.buffer = h.buffer, f.prompts = "audio" => Quiet(g),
         Up(h) /\ f.prompts = "tts" =>
           IF pc = "http" THEN g.holder = "none" /\ g.state = "processing"
                          ELSE g.holder = s /\ g.state = "speaking"
  PROVE  FlowInv(g, [f EXCEPT !.tasks[s] = [pc |-> pc, node |-> n]])
<1> DEFINE t == [pc |-> pc, node |-> n]
           c == [f EXCEPT !.tasks[s] = t]
<1>0. t \in FlowTasks /\ t.pc = pc /\ t.node = n /\ pc # "none" /\ pc # "lost"
  BY DEF FlowTasks, Prompts
<1> HIDE DEF t
<1>1. /\ c \in FlowBrains /\ c.prompts = f.prompts /\ c.current = f.current
      /\ c.timer = f.timer /\ c.tasks[s] = t
      /\ \A u \in Slots \ {s} : c.tasks[u] = f.tasks[u]
  BY <1>0, TaskFields DEF Goes
<1> HIDE DEF c
<1>3. TaskPc(c, s) = pc /\ \A u \in Slots \ {s} : TaskPc(c, u) = TaskPc(f, u)
  BY <1>0, <1>1 DEF TaskPc
<1>4. \A u \in Slots : TaskPc(c, u) # "none" => c.tasks[u].node \in Nodes
  BY <1>0, <1>1, <1>3 DEF Goes
<1>5. Orderly(g, c) => OneTask(c) /\ TimerFits(c)
  BY <1>0, <1>1, <1>3 DEF Goes, Orderly, OneTask, TimerFits, Untimed, Up
<1>6. Up(g) /\ c.prompts = "tts" => Prompting(g, c)
  <2> SUFFICES ASSUME Up(g), f.prompts = "tts" PROVE Prompting(g, c)
    BY <1>1
  <2>1. Up(h) /\ \A u \in Slots \ {s} : TaskPc(c, u) = "none"
    BY <1>3 DEF Goes, Orderly, Up
  <2>2. CASE pc = "http"
    BY <1>3, <2>1, <2>2 DEF Prompting, Prompts, Slots
  <2>3. CASE pc \in Prompts
    BY <1>3, <2>1, <2>3 DEF Prompting, Prompts, Slots
  <2> QED
    BY <2>2, <2>3
<1>7. FlowInv(g, c)
  BY <1>1, <1>4, <1>5, <1>6 DEF FlowInv, Goes
<1> QED
  BY <1>7 DEF c, t

LEMMA PlaysKeeps ==
  ASSUME NEW h, NEW f, NEW s \in Slots, Goes(h, f, s), Untimed(h, f),
         NEW why \in Prompts, NEW n \in Nodes,
         Orderly(h, f) => n = f.current /\ (why \in {"key", "timeout"} => IsMenu(n))
  PROVE  LET r == Plays(h, f, s, why, n) IN FlowInv(r.h, r.f)
<1> DEFINE t == [pc |-> why, node |-> n]
           waits == [f EXCEPT !.tasks[s] = t]
           g == Says(h, s)
<1>0. h \in Harnesses /\ f \in FlowBrains /\ s \in Tasks
  BY DEF Goes, Tasks
<1>1. CASE f.prompts = "audio"
  <2>1. Plays(h, f, s, why, n) = [h |-> h, f |-> waits]
    BY <1>1 DEF Plays, Moved
  <2>2. FlowInv(h, waits)
    BY <1>0, <1>1, WaitsKeep DEF Goes
  <2> HIDE DEF waits
  <2> QED
    BY <2>1, <2>2
<1>2. CASE f.prompts = "tts"
  <2>1. g \in Harnesses
    BY <1>0, HarnessTypes
  <2>2. /\ g.call = h.call /\ g.inputs = h.inputs /\ g.buffer = h.buffer
        /\ g.holder = s /\ g.state = "speaking" /\ PlayingUp(g)
    BY <1>0, <2>1 DEF Says, Harnesses, Goes, PlayingUp, Up
  <2> HIDE DEF g
  <2>3. CASE Up(h)
    <3>1. FlowInv(g, waits)
      BY <1>2, <2>1, <2>2, WaitsKeep, Zenon DEF Prompts
    <3>2. h.holder = "none"
      BY <1>2, <2>3 DEF Goes
    <3>3. FlowTaskLost(f, h.holder) = f
      BY <3>2 DEF FlowTaskLost, Slots
    <3>4. waits.tasks[s] = t
      BY <1>0 DEF FlowBrains
    <3>5. Plays(h, f, s, why, n) = [h |-> g, f |-> [f EXCEPT !.tasks[s] = waits.tasks[s]]]
      BY <1>2, <2>3, <3>3 DEF Plays, Moved, Up, g
    <3> QED
      BY <3>1, <3>4, <3>5
  <2>4. CASE ~Up(h)
    <3> DEFINE c == FlowTaskLost(waits, s)
    <3>1. t \in FlowTasks /\ t.node = n
      BY DEF FlowTasks, Prompts
    <3>2. /\ waits \in FlowBrains /\ waits.tasks[s] = t
          /\ \A u \in Slots \ {s} : waits.tasks[u] = f.tasks[u]
          /\ waits.prompts = f.prompts
      BY <1>0, <3>1, TaskFields
    <3>3. Plays(h, f, s, why, n) = [h |-> g, f |-> c]
      BY <1>2, <2>4 DEF Plays, Moved, Up, g
    <3> HIDE DEF waits, t
    <3>4. /\ c \in FlowBrains /\ c.tasks[s].node = n /\ c.prompts = f.prompts
          /\ \A u \in Slots \ {s} : c.tasks[u] = f.tasks[u]
      BY <1>0, <3>1, <3>2, LostFields
    <3> HIDE DEF c
    <3>5. \A u \in Slots : TaskPc(c, u) # "none" => c.tasks[u].node \in Nodes
      BY <3>4 DEF Goes, TaskPc
    <3>6. FlowInv(g, c)
      BY <1>2, <2>1, <2>2, <2>4, <3>4, <3>5 DEF FlowInv, Goes, Orderly, Up
    <3> QED
      BY <3>3, <3>6
  <2> QED
    BY <2>3, <2>4
<1> QED
  BY <1>0, <1>1, <1>2 DEF FlowBrains

(* Where a node leads is a node.                                           *)
LEMMA FlowLeads ==
  ASSUME NEW n \in Nodes
  PROVE  /\ Flow[n].type \in NodeTypes
         /\ Flow[n].next \subseteq Nodes /\ Flow[n].options \subseteq Nodes
         /\ Flow[n].otherwise \subseteq Nodes
BY FlowAssumption

LEMMA ArrivesKeeps ==
  ASSUME NEW h, NEW f, NEW s \in Slots, Goes(h, f, s), Untimed(h, f), NEW n \in Nodes
  PROVE  LET r == Arrives(h, f, s, n) IN FlowInv(r.h, r.f)
<1> DEFINE here == [f EXCEPT !.current = n]
           r == Arrives(h, f, s, n)
<1>0. h \in Harnesses /\ f \in FlowBrains
  BY DEF Goes
<1>1. /\ here \in FlowBrains /\ here.prompts = f.prompts /\ here.current = n
      /\ here.timer = f.timer /\ here.tasks = f.tasks
  BY <1>0 DEF FlowBrains
<1> HIDE DEF here
<1>2. Orderly(h, here) = Orderly(h, f) /\ \A t \in Slots : TaskPc(here, t) = TaskPc(f, t)
  BY <1>1 DEF Orderly, TaskPc
<1>3. Untimed(h, here) /\ Goes(h, here, s)
  BY <1>1, <1>2 DEF Goes, Untimed, TimerFits
<1>4. ASSUME NEW g \in Harnesses, g.call = h.call, g.holder = h.holder, g.inputs = h.inputs,
             g.buffer = h.buffer, g.playing = h.playing, g.awaiting => h.awaiting
      PROVE  Goes(g, here, s) /\ Untimed(g, here)
  BY <1>3, <1>4 DEF Goes, Untimed, PlayingUp, Quiet, Orderly, TimerFits, Up
<1>5. CASE Flow[n].type = "transfer"
  <2> DEFINE g == Transfers(h)
  <2>1. g \in Harnesses
    BY <1>0, HarnessTypes
  <2>2. /\ g.call = h.call /\ g.holder = h.holder /\ g.inputs = h.inputs
        /\ g.buffer = h.buffer /\ g.playing = h.playing /\ ~g.awaiting
    BY <1>0 DEF Transfers, Shows, Harnesses
  <2>3. r = Stops(g, here, s)
    BY <1>5 DEF Arrives, here
  <2> HIDE DEF g, r
  <2> QED
    BY <1>4, <2>1, <2>2, <2>3, StopsKeeps DEF r
<1>6. CASE Flow[n].type = "http_request"
  <2> DEFINE g == Shows(h, "processing")
             c == [here EXCEPT !.tasks[s] = [pc |-> "http", node |-> n]]
  <2>1. g \in Harnesses
    BY <1>0, HarnessTypes DEF HarnessStates
  <2>2. /\ g.call = h.call /\ g.holder = h.holder /\ g.inputs = h.inputs
        /\ g.buffer = h.buffer /\ g.playing = h.playing /\ g.awaiting = h.awaiting
        /\ g.state = "processing"
    BY <1>0 DEF Shows, Harnesses
  <2>3. r = [h |-> g, f |-> c]
    BY <1>6 DEF Arrives, Moved, here
  <2> HIDE DEF g, r
  <2>4. /\ PlayingUp(g) /\ (here.prompts = "audio" => Quiet(g))
        /\ Up(h) /\ here.prompts = "tts" => g.holder = "none"
    BY <1>3, <2>2 DEF Goes, PlayingUp, Quiet, Up
  <2>5. FlowInv(g, c)
    BY <1>1, <1>3, <2>1, <2>2, <2>4, WaitsKeep
  <2> QED
    BY <2>3, <2>5 DEF r
<1>7. CASE Flow[n].type \notin {"transfer", "http_request"}
  <2> DEFINE g == Shows(h, "speaking")
  <2>1. g \in Harnesses
    BY <1>0, HarnessTypes DEF HarnessStates
  <2>2. /\ g.call = h.call /\ g.holder = h.holder /\ g.inputs = h.inputs
        /\ g.buffer = h.buffer /\ g.playing = h.playing /\ g.awaiting = h.awaiting
    BY <1>0 DEF Shows, Harnesses
  <2>3. r = Plays(g, here, s, "enter", n)
    BY <1>7 DEF Arrives, here
  <2> HIDE DEF g, r
  <2>4. Goes(g, here, s) /\ Untimed(g, here)
    BY <1>4, <2>1, <2>2
  <2> QED
    BY <1>1, <2>3, <2>4, PlaysKeeps DEF Prompts, r
<1> QED
  BY <1>5, <1>6, <1>7

LEMMA LeadsKeeps ==
  ASSUME NEW h, NEW f, NEW s \in Slots, Goes(h, f, s), Untimed(h, f),
         NEW targets \in SUBSET Nodes, NEW r \in Leads(h, f, s, targets)
  PROVE  FlowInv(r.h, r.f)
<1>1. r = Stops(h, f, s) \/ \E n \in targets : r = Arrives(h, f, s, n)
  BY DEF Leads
<1> QED
  BY <1>1, StopsKeeps, ArrivesKeeps

(* What is known of a task whose prompt has ended.                         *)
Prompted(h, f, s) ==
  /\ Goes(h, f, s) /\ Untimed(h, f)
  /\ TaskPc(f, s) \in Prompts /\ f.tasks[s].node \in Nodes
  /\ Orderly(h, f) => /\ f.tasks[s].node = f.current
                      /\ TaskPc(f, s) \in {"key", "timeout"} => IsMenu(f.current)

LEMMA PlayedKeeps ==
  ASSUME NEW h, NEW f, NEW s \in Slots, Prompted(h, f, s), NEW r \in Played(h, f, s)
  PROVE  FlowInv(r.h, r.f)
<1> DEFINE n == f.tasks[s].node
           asks == Shows(h, "listening")
           timed == WithTimeout(f, s)
<1>0. h \in Harnesses /\ f \in FlowBrains /\ n \in Nodes
  BY DEF Goes, Prompted
<1>1. /\ asks \in Harnesses /\ asks.call = h.call /\ asks.holder = h.holder
      /\ asks.inputs = h.inputs /\ asks.buffer = h.buffer /\ asks.playing = h.playing
      /\ asks.awaiting = h.awaiting
  <2>1. asks \in Harnesses
    BY <1>0, HarnessTypes DEF HarnessStates
  <2> QED
    BY <1>0, <2>1 DEF Shows, Harnesses
<1>2. /\ HangsUp(h) \in Harnesses /\ HangsUp(h).call = h.call /\ HangsUp(h).holder = h.holder
      /\ HangsUp(h).inputs = h.inputs /\ HangsUp(h).buffer = h.buffer
      /\ HangsUp(h).playing = h.playing /\ HangsUp(h).awaiting = h.awaiting
  <2>1. HangsUp(h) \in Harnesses
    BY <1>0, HarnessTypes
  <2> QED
    BY <1>0, <2>1 DEF HangsUp, Harnesses
<1>3. /\ timed \in FlowBrains /\ timed.prompts = f.prompts /\ timed.current = f.current
      /\ timed.timer = n /\ timed.tasks = f.tasks
  BY <1>0 DEF WithTimeout, FlowBrains
<1> HIDE DEF asks, timed
<1>4. ASSUME NEW g \in Harnesses, g.call = h.call, g.holder = h.holder, g.inputs = h.inputs,
             g.buffer = h.buffer, g.playing = h.playing, g.awaiting = h.awaiting
      PROVE  Goes(g, f, s)
  BY <1>4 DEF Prompted, Goes, PlayingUp, Quiet, Orderly, Up
<1>5. ASSUME NEW g, Goes(g, f, s), g.call = h.call, g.inputs = h.inputs,
             TaskPc(f, s) \in {"key", "timeout"} \/ IsMenu(n)
      PROVE  Goes(g, timed, s)
  BY <1>3, <1>5 DEF Prompted, Goes, Orderly, TimerFits, TaskPc, Up
<1>6. ASSUME NEW g, Goes(g, f, s), r = Stops(g, f, s) PROVE FlowInv(r.h, r.f)
  BY <1>6, StopsKeeps
<1>7. ASSUME NEW g, Goes(g, f, s), g.call = h.call, g.inputs = h.inputs,
             TaskPc(f, s) \in {"key", "timeout"} \/ IsMenu(n), r = Stops(g, timed, s)
      PROVE  FlowInv(r.h, r.f)
  BY <1>5, <1>7, StopsKeeps
<1>8. Goes(h, f, s) /\ Goes(asks, f, s) /\ Goes(HangsUp(h), f, s)
  BY <1>1, <1>2, <1>4 DEF Prompted
<1>9. CASE TaskPc(f, s) = "key"
  <2>1. r = Stops(h, timed, s)
    BY <1>9 DEF Played, TaskPc, timed
  <2> QED
    BY <1>7, <1>8, <1>9, <2>1
<1>10. CASE TaskPc(f, s) = "timeout"
  <2>1. r = Stops(asks, timed, s)
    BY <1>10 DEF Played, TaskPc, timed, asks
  <2> QED
    BY <1>1, <1>7, <1>8, <1>10, <2>1
<1>11. CASE TaskPc(f, s) = "enter"
  <2>1. r \in Entered(h, f, s)
    BY <1>11 DEF Played, TaskPc
  <2>2. CASE IsMenu(n)
    <3>1. r = Stops(asks, timed, s)
      BY <2>1, <2>2 DEF Entered, IsMenu, timed, asks
    <3> QED
      BY <1>1, <1>7, <1>8, <2>2, <3>1
  <2>3. CASE Flow[n].type = "collect"
    <3>1. r = Stops(asks, f, s)
      BY <2>1, <2>3 DEF Entered, asks
    <3> QED
      BY <1>6, <1>8, <3>1
  <2>4. CASE Flow[n].type = "hangup"
    <3>1. r = Stops(HangsUp(h), f, s)
      BY <2>1, <2>4 DEF Entered
    <3> QED
      BY <1>6, <1>8, <3>1
  <2>5. CASE Flow[n].type \notin {"menu", "collect", "hangup"}
    <3>1. r \in Leads(h, f, s, Flow[n].next)
      BY <2>1, <2>5 DEF Entered
    <3>2. Flow[n].next \in SUBSET Nodes
      BY <1>0, FlowLeads
    <3> QED
      BY <3>1, <3>2, LeadsKeeps DEF Prompted
  <2> QED
    BY <2>2, <2>3, <2>4, <2>5 DEF IsMenu
<1> QED
  BY <1>9, <1>10, <1>11 DEF Prompted, Prompts

LEMMA AgainKeeps ==
  ASSUME NEW h, NEW f, NEW s \in Slots, Goes(h, f, s), Untimed(h, f), NEW n \in Nodes,
         Orderly(h, f) => n = f.current /\ IsMenu(n),
         NEW why \in {"key", "timeout"}, NEW r \in Again(h, f, s, why, n)
  PROVE  FlowInv(r.h, r.f)
<1> DEFINE count == IF f.retries > MaxRetries THEN f.retries ELSE f.retries + 1
           g == [f EXCEPT !.retries = count]
<1>0. h \in Harnesses /\ f \in FlowBrains
  BY DEF Goes
<1>1. count \in 0..(MaxRetries + 1)
  BY <1>0, FlowAssumption DEF FlowBrains
<1>2. \/ r \in GivesUpMenu(h, g, s, n)
      \/ r = Plays(h, g, s, why, n)
  BY <1>0 DEF Again, FlowBrains
<1> HIDE DEF count
<1>3. /\ g \in FlowBrains /\ g.prompts = f.prompts /\ g.current = f.current
      /\ g.timer = f.timer /\ g.tasks = f.tasks
  BY <1>0, <1>1 DEF FlowBrains
<1> HIDE DEF g
<1>4. Goes(h, g, s) /\ Untimed(h, g)
  BY <1>3 DEF Goes, Untimed, Orderly, TimerFits, TaskPc
<1>5. CASE r = Plays(h, g, s, why, n)
  BY <1>3, <1>4, <1>5, PlaysKeeps DEF Orderly, Prompts
<1>6. CASE r \in GivesUpMenu(h, g, s, n)
  <2>1. CASE r = Stops(HangsUp(h), g, s)
    <3>1. /\ HangsUp(h) \in Harnesses /\ HangsUp(h).call = h.call
          /\ HangsUp(h).holder = h.holder /\ HangsUp(h).inputs = h.inputs
          /\ HangsUp(h).buffer = h.buffer /\ HangsUp(h).playing = h.playing
          /\ HangsUp(h).awaiting = h.awaiting
      <4>1. HangsUp(h) \in Harnesses
        BY <1>0, HarnessTypes
      <4> QED
        BY <1>0, <4>1 DEF HangsUp, Harnesses
    <3>2. Goes(HangsUp(h), g, s)
      BY <1>4, <3>1 DEF Goes, PlayingUp, Quiet, Orderly, Up
    <3> QED
      BY <2>1, <3>2, StopsKeeps
  <2>2. CASE r \in Leads(h, g, s, Flow[n].otherwise)
    <3>1. Flow[n].otherwise \in SUBSET Nodes
      BY FlowLeads
    <3> QED
      BY <1>4, <2>2, <3>1, LeadsKeeps
  <2> QED
    BY <1>6, <2>1, <2>2 DEF GivesUpMenu
<1> QED
  BY <1>2, <1>5, <1>6

-----------------------------------------------------------------------------
(* The steps of the flow.                                                  *)
FlowKept == FlowInv(harness, flow)'

LEMMA FlowInitInv == FlowInit => FlowInv(harness, flow)
<1> SUFFICES ASSUME NEW prompts \in {"audio", "tts"},
                    LET r == Arrives(HarnessInit, FlowBegins(prompts), "turn1", StartNode)
                    IN  harness = r.h /\ flow = r.f
             PROVE  FlowInv(harness, flow)
  BY DEF FlowInit
<1> DEFINE h == HarnessInit
           f == FlowBegins(prompts)
<1>1. h \in Harnesses
  <2>1. 0 \in 0..MaxInputs /\ 0 \in 0..MaxBargeIns
    BY HarnessAssumption
  <2> QED
    BY <2>1 DEF HarnessInit, Harnesses, HarnessStates
<1>2. f \in FlowBrains /\ f.prompts = prompts /\ f.timer = "none"
      /\ \A s \in Slots : TaskPc(f, s) = "none"
  <2>1. 0 \in 0..(MaxRetries + 1) /\ StartNode \in Nodes
    BY FlowAssumption
  <2>2. Idle \in FlowTasks /\ Idle.pc = "none"
    BY DEF Idle, FlowTasks
  <2> QED
    BY <2>1, <2>2 DEF FlowBegins, FlowBrains, TaskPc
<1>3. /\ h.holder = "none" /\ h.playing = 0 /\ ~h.awaiting /\ ~h.buffer
  BY DEF HarnessInit
<1> HIDE DEF h, f
<1>4. Goes(h, f, "turn1") /\ Untimed(h, f)
  BY <1>1, <1>2, <1>3 DEF Goes, Untimed, PlayingUp, Quiet, TimerFits
<1> QED
  BY <1>4, ArrivesKeeps, FlowAssumption DEF Slots, h, f

(* The invariant looks at little of the harness.                           *)
LEMMA FlowSame ==
  ASSUME NEW h, NEW f, FlowInv(h, f),
         NEW g \in Harnesses, g.call = h.call, g.holder = h.holder, g.playing = h.playing,
         g.awaiting => h.awaiting, g.inputs = 0 => h.inputs = 0 /\ ~g.buffer,
         g.state = h.state
  PROVE  FlowInv(g, f)
BY DEF FlowInv, PlayingUp, Quiet, Orderly, Prompting, Up

(* A flow that listens, or has nothing but a timeout, may begin a task.    *)
LEMMA FreeGoes ==
  ASSUME NEW h, NEW f, FlowInv(h, f), NEW s \in Slots, TaskPc(f, s) = "none",
         NEW g \in Harnesses, g.call = h.call, g.holder = h.holder, g.playing = h.playing,
         g.awaiting => h.awaiting, g.inputs = 0 => h.inputs = 0 /\ ~g.buffer,
         NEW c \in FlowBrains, c.prompts = f.prompts, c.current = f.current,
         c.tasks = f.tasks, c.timer = "none",
         \/ g.inputs # 0 /\ h.state = "listening"
         \/ Orderly(h, f) => f.timer # "none"
  PROVE  Goes(g, c, s) /\ Untimed(g, c)
<1>1. \A t \in Slots : TaskPc(c, t) = TaskPc(f, t)
  BY DEF TaskPc
<1>2. Orderly(g, c) => Orderly(h, f)
  BY DEF Orderly, Up
<1>3. Orderly(g, c) => \A t \in Slots : TaskPc(f, t) = "none"
  <2> SUFFICES ASSUME Orderly(g, c) PROVE \A t \in Slots : TaskPc(f, t) = "none"
    OBVIOUS
  <2>1. OneTask(f) /\ Orderly(h, f)
    BY <1>2 DEF FlowInv
  <2>2. CASE f.timer # "none"
    BY <2>1, <2>2 DEF OneTask
  <2>3. CASE g.inputs # 0 /\ h.state = "listening"
    <3>1. Prompting(h, f)
      BY <2>3 DEF FlowInv, Orderly, Up
    <3>2. \A t \in Slots : TaskPc(f, t) \in {"none", "enter", "key", "timeout", "http", "lost"}
      BY DEF FlowInv, FlowBrains, FlowTasks, TaskPc
    <3> QED
      BY <2>1, <2>3, <3>1, <3>2 DEF Prompting, Prompts, OneTask
  <2> QED
    BY <2>1, <2>2, <2>3
<1>4. Up(g) /\ c.prompts = "tts" => g.holder = "none"
  <2> SUFFICES ASSUME Up(g), c.prompts = "tts" PROVE g.holder = "none"
    OBVIOUS
  <2>1. Prompting(h, f) /\ Orderly(g, c)
    BY DEF FlowInv, Orderly, Up
  <2> QED
    BY <1>3, <2>1 DEF Prompting, Prompts
<1>5. TimerFits(c) /\ Untimed(g, c) /\ PlayingUp(g)
  BY DEF TimerFits, Untimed, FlowInv, PlayingUp, Up
<1>6. c.prompts = "audio" => Quiet(g)
  BY DEF FlowInv, Quiet
<1>7. \A t \in Slots : TaskPc(c, t) # "none" => c.tasks[t].node \in Nodes
  BY <1>1 DEF FlowInv
<1>8. g.inputs = 0 => ~g.buffer
  OBVIOUS
<1> QED
  BY <1>1, <1>3, <1>4, <1>5, <1>6, <1>7, <1>8 DEF Goes

LEMMA RunningOut ==
  ASSUME NEW f \in FlowBrains
  PROVE  LET c == [f EXCEPT !.timer = "none"]
         IN  /\ c \in FlowBrains /\ c.prompts = f.prompts /\ c.current = f.current
             /\ c.tasks = f.tasks /\ c.timer = "none"
BY DEF FlowBrains

LEMMA FlowKeyKeeps ==
  ASSUME FlowInv(harness, flow), FlowKey
  PROVE  FlowKept
<1> DEFINE h == Presses(harness)
           n == flow.current
           f == [flow EXCEPT !.timer = "none"]
           f0 == [f EXCEPT !.retries = 0]
<1>0. harness \in Harnesses /\ flow \in FlowBrains /\ n \in Nodes
      /\ harness.inputs \in Nat
  BY DEF FlowInv, FlowBrains, Harnesses
<1>1. h \in Harnesses
  BY <1>0, HarnessTypes DEF FlowKey
<1>2. /\ h.call = harness.call /\ h.holder = harness.holder /\ h.playing = harness.playing
      /\ h.awaiting = harness.awaiting /\ h.state = harness.state /\ h.inputs # 0
  BY <1>0 DEF Presses, Harnesses
<1>3. /\ f \in FlowBrains /\ f.prompts = flow.prompts /\ f.current = n
      /\ f.tasks = flow.tasks /\ f.timer = "none"
  BY <1>0, RunningOut
<1>4. \/ harness' = h /\ flow' = flow
      \/ /\ harness.state = "listening" /\ IsMenu(n)
         /\ \E s \in Slots :
              /\ TaskPc(flow, s) = "none"
              /\ \/ \E m \in Flow[n].options : FlowBecomes({Arrives(h, f0, s, m)})
                 \/ FlowBecomes(Again(h, f, s, "key", n))
  BY DEF FlowKey, FlowBecomes, Moved, IsMenu, Free, TaskPc
<1> HIDE DEF h, f
<1>5. CASE harness' = h /\ flow' = flow
  <2>1. FlowInv(h, flow)
    BY <1>1, <1>2, FlowSame
  <2> QED
    BY <1>5, <2>1 DEF FlowKept
<1>6. /\ f0 \in FlowBrains /\ f0.prompts = flow.prompts /\ f0.current = n
      /\ f0.tasks = flow.tasks /\ f0.timer = "none"
  <2>1. 0 \in 0..(MaxRetries + 1)
    BY FlowAssumption
  <2> QED
    BY <1>3, <2>1 DEF FlowBrains
<1> HIDE DEF f0
<1>7. ASSUME harness.state = "listening", NEW s \in Slots, TaskPc(flow, s) = "none",
             NEW m \in Flow[n].options, FlowBecomes({Arrives(h, f0, s, m)})
      PROVE  FlowKept
  <2>1. Goes(h, f0, s) /\ Untimed(h, f0)
    BY <1>1, <1>2, <1>6, <1>7, FreeGoes
  <2>2. m \in Nodes
    BY <1>0, <1>7, FlowLeads
  <2>3. FlowInv(Arrives(h, f0, s, m).h, Arrives(h, f0, s, m).f)
    BY <2>1, <2>2, ArrivesKeeps
  <2> QED
    BY <1>7, <2>3 DEF FlowBecomes, FlowKept
<1>8. ASSUME harness.state = "listening", IsMenu(n), NEW s \in Slots,
             TaskPc(flow, s) = "none", FlowBecomes(Again(h, f, s, "key", n))
      PROVE  FlowKept
  <2>1. Goes(h, f, s) /\ Untimed(h, f)
    BY <1>1, <1>2, <1>3, <1>8, FreeGoes
  <2>2. \A r \in Again(h, f, s, "key", n) : FlowInv(r.h, r.f)
    BY <1>0, <1>3, <1>8, <2>1, AgainKeeps
  <2> QED
    BY <1>8, <2>2 DEF FlowBecomes, FlowKept
<1> QED
  BY <1>4, <1>5, <1>7, <1>8

LEMMA FlowHearsKeeps ==
  ASSUME FlowInv(harness, flow), FlowHears
  PROVE  FlowKept
<1> DEFINE h == Hears(harness)
<1>0. harness \in Harnesses /\ harness.inputs \in Nat
  BY DEF FlowInv, Harnesses
<1>1. h \in Harnesses
  BY <1>0, HarnessTypes DEF FlowHears
<1>2. /\ h.call = harness.call /\ h.holder = harness.holder /\ h.playing = harness.playing
      /\ h.awaiting = harness.awaiting /\ h.state = harness.state /\ h.inputs # 0
  BY <1>0 DEF Hears, Harnesses
<1>3. harness' = h /\ flow' = flow
  BY DEF FlowHears, FlowBecomes, Moved
<1> HIDE DEF h
<1>4. FlowInv(h, flow)
  BY <1>1, <1>2, FlowSame
<1> QED
  BY <1>3, <1>4 DEF FlowKept

LEMMA FlowTurnKeeps ==
  ASSUME FlowInv(harness, flow), FlowTurnReady
  PROVE  FlowKept
<1> DEFINE h == [harness EXCEPT !.buffer = FALSE]
           n == flow.current
<1>0. harness \in Harnesses /\ flow \in FlowBrains /\ n \in Nodes
      /\ harness.inputs # 0
  BY DEF FlowInv, FlowBrains, FlowTurnReady
<1>1. h \in Harnesses
  BY <1>0, HarnessTypes
<1>2. /\ h.call = harness.call /\ h.holder = harness.holder /\ h.playing = harness.playing
      /\ h.awaiting = harness.awaiting /\ h.state = harness.state /\ h.inputs # 0
  BY <1>0 DEF Harnesses
<1>3. \/ harness' = h /\ flow' = flow
      \/ /\ harness.state = "listening" /\ Flow[n].type = "collect"
         /\ \E s \in Slots : TaskPc(flow, s) = "none"
                             /\ FlowBecomes(Leads(h, flow, s, Flow[n].next))
  <2>1. ASSUME FlowBecomes({Moved(h, flow)}) PROVE harness' = h /\ flow' = flow
    BY <2>1 DEF FlowBecomes, Moved
  <2>2. \/ FlowBecomes({Moved(h, flow)})
        \/ /\ harness.state = "listening" /\ Flow[n].type = "collect"
           /\ \E s \in Slots : Free(s) /\ FlowBecomes(Leads(h, flow, s, Flow[n].next))
    BY DEF FlowTurnReady
  <2> QED
    BY <2>1, <2>2 DEF Free, TaskPc
<1> HIDE DEF h
<1>4. CASE harness' = h /\ flow' = flow
  <2>1. FlowInv(h, flow)
    BY <1>1, <1>2, FlowSame
  <2> QED
    BY <1>4, <2>1 DEF FlowKept
<1>5. ASSUME harness.state = "listening", Flow[n].type = "collect", NEW s \in Slots,
             TaskPc(flow, s) = "none", FlowBecomes(Leads(h, flow, s, Flow[n].next))
      PROVE  FlowKept
  <2>1. CASE flow.timer = "none"
    <3>1. Goes(h, flow, s) /\ Untimed(h, flow)
      BY <1>0, <1>1, <1>2, <1>5, <2>1, FreeGoes
    <3>2. Flow[n].next \in SUBSET Nodes
      BY <1>0, FlowLeads
    <3>3. \A r \in Leads(h, flow, s, Flow[n].next) : FlowInv(r.h, r.f)
      BY <3>1, <3>2, LeadsKeeps
    <3> QED
      BY <1>5, <3>3 DEF FlowBecomes, FlowKept
  <2>2. CASE flow.timer # "none"
    <3>1. ~Orderly(harness, flow)
      BY <1>5, <2>2 DEF FlowInv, TimerFits, IsMenu
    <3>2. ~Orderly(h, flow)
      BY <1>0, <1>2, <3>1 DEF Orderly, Up
    <3>3. ~(Up(h) /\ flow.prompts = "tts")
      BY <3>2 DEF Orderly
    <3>4. Goes(h, flow, s) /\ Untimed(h, flow)
      BY <1>0, <1>1, <1>2, <3>2, <3>3 DEF Goes, Untimed, FlowInv, PlayingUp, Quiet, Up
    <3>5. Flow[n].next \in SUBSET Nodes
      BY <1>0, FlowLeads
    <3>6. \A r \in Leads(h, flow, s, Flow[n].next) : FlowInv(r.h, r.f)
      BY <3>4, <3>5, LeadsKeeps
    <3> QED
      BY <1>5, <3>6 DEF FlowBecomes, FlowKept
  <2> QED
    BY <2>1, <2>2
<1> QED
  BY <1>3, <1>4, <1>5

LEMMA MenuTimeoutKeeps ==
  ASSUME FlowInv(harness, flow), MenuTimeout
  PROVE  FlowKept
<1> DEFINE f == [flow EXCEPT !.timer = "none"]
           n == flow.timer
<1>0. harness \in Harnesses /\ flow \in FlowBrains /\ n \in Nodes
  BY DEF FlowInv, FlowBrains, MenuTimeout
<1>1. /\ f \in FlowBrains /\ f.prompts = flow.prompts /\ f.current = flow.current
      /\ f.tasks = flow.tasks /\ f.timer = "none"
  BY <1>0, RunningOut
<1>2. \/ harness' = harness /\ flow' = f
      \/ \E s \in Slots : /\ TaskPc(flow, s) = "none"
                          /\ FlowBecomes(Again(harness, f, s, "timeout", n))
  BY DEF MenuTimeout, FlowBecomes, Moved, Free, TaskPc
<1> HIDE DEF f
<1>3. CASE harness' = harness /\ flow' = f
  <2>1. \A s \in Slots : TaskPc(f, s) = TaskPc(flow, s)
    BY <1>1 DEF TaskPc
  <2>2. FlowInv(harness, f)
    BY <1>1, <2>1 DEF FlowInv, Orderly, OneTask, TimerFits, Prompting
  <2> QED
    BY <1>3, <2>2 DEF FlowKept
<1>4. ASSUME NEW s \in Slots, TaskPc(flow, s) = "none",
             FlowBecomes(Again(harness, f, s, "timeout", n))
      PROVE  FlowKept
  <2>1. harness.inputs = 0 => ~harness.buffer
    BY DEF FlowInv
  <2>2. Goes(harness, f, s) /\ Untimed(harness, f)
    BY <1>0, <1>1, <1>4, <2>1, FreeGoes DEF MenuTimeout
  <2>3. Orderly(harness, f) => n = f.current /\ IsMenu(n)
    BY <1>1 DEF FlowInv, Orderly, TimerFits, MenuTimeout
  <2>4. \A r \in Again(harness, f, s, "timeout", n) : FlowInv(r.h, r.f)
    BY <1>0, <2>2, <2>3, AgainKeeps
  <2> QED
    BY <1>4, <2>4 DEF FlowBecomes, FlowKept
<1> QED
  BY <1>2, <1>3, <1>4

LEMMA AudioKeeps ==
  ASSUME FlowInv(harness, flow), NEW s \in Slots, AudioEnds(s)
  PROVE  FlowKept
<1>0. /\ flow.prompts = "audio" /\ TaskPc(flow, s) \in Prompts
      /\ FlowBecomes(Played(harness, flow, s))
  BY DEF AudioEnds, TaskPc, Prompts
<1>1. Orderly(harness, flow) => OneTask(flow) /\ TimerFits(flow)
  BY DEF FlowInv
<1>2. Goes(harness, flow, s) /\ Untimed(harness, flow)
  BY <1>0, <1>1 DEF FlowInv, Goes, Untimed, OneTask, Prompts
<1>3. Prompted(harness, flow, s)
  BY <1>0, <1>1, <1>2 DEF Prompted, FlowInv, OneTask, Prompts
<1>4. \A r \in Played(harness, flow, s) : FlowInv(r.h, r.f)
  BY <1>3, PlayedKeeps
<1> QED
  BY <1>0, <1>4 DEF FlowBecomes, FlowKept

LEMMA RequestKeeps ==
  ASSUME FlowInv(harness, flow), NEW s \in Slots, RequestEnds(s)
  PROVE  FlowKept
<1> DEFINE n == flow.tasks[s].node
<1>0. TaskPc(flow, s) = "http" /\ n \in Nodes
  BY DEF RequestEnds, TaskPc, FlowInv
<1>1. Orderly(harness, flow) => OneTask(flow) /\ TimerFits(flow)
  BY DEF FlowInv
<1>2. Up(harness) /\ flow.prompts = "tts" => harness.holder = "none"
  BY <1>0, <1>1 DEF FlowInv, Orderly, OneTask, Prompting, Prompts
<1>3. Goes(harness, flow, s) /\ Untimed(harness, flow)
  BY <1>0, <1>1, <1>2 DEF FlowInv, Goes, Untimed, OneTask
<1>4. ASSUME NEW targets \in SUBSET Nodes, FlowBecomes(Leads(harness, flow, s, targets))
      PROVE  FlowKept
  <2>1. \A r \in Leads(harness, flow, s, targets) : FlowInv(r.h, r.f)
    BY <1>3, LeadsKeeps
  <2> QED
    BY <1>4, <2>1 DEF FlowBecomes, FlowKept
<1>5. Flow[n].next \in SUBSET Nodes /\ Flow[n].otherwise \in SUBSET Nodes
  BY <1>0, FlowLeads
<1> QED
  BY <1>4, <1>5 DEF RequestEnds

(* The promise is settled, and the task that awaited it goes on.           *)
LEMMA GoesOnKeeps ==
  ASSUME FlowInv(harness, flow), Up(harness), flow.prompts = "tts",
         NEW h \in Harnesses, Up(h), h.holder = "none", h.inputs = harness.inputs,
         h.buffer = harness.buffer,
         harness.state = "processing" => h.state = "processing",
         FlowGoesOn(h, harness.holder)
  PROVE  FlowKept
<1> DEFINE task == harness.holder
<1>0. /\ OneTask(flow) /\ TimerFits(flow) /\ Prompting(harness, flow)
      /\ Orderly(harness, flow) /\ flow \in FlowBrains
  BY DEF FlowInv, Orderly
<1>1. CASE task \in Slots
  <2>1. TaskPc(flow, task) \in Prompts /\ FlowBecomes(Played(h, flow, task))
    BY <1>0, <1>1 DEF Prompting, FlowGoesOn
  <2>2. Goes(h, flow, task) /\ Untimed(h, flow)
    BY <1>0, <1>1, <2>1 DEF FlowInv, Goes, Untimed, OneTask, Prompts, PlayingUp
  <2>3. Prompted(h, flow, task)
    BY <1>0, <1>1, <2>1, <2>2 DEF Prompted, FlowInv, OneTask, Prompts
  <2>4. \A r \in Played(h, flow, task) : FlowInv(r.h, r.f)
    BY <1>1, <2>3, PlayedKeeps
  <2> QED
    BY <2>1, <2>4 DEF FlowBecomes, FlowKept
<1>2. CASE task = "none"
  <2>1. harness' = h /\ flow' = flow
    BY <1>2 DEF FlowGoesOn, FlowBecomes, Moved, Slots
  <2>2. Prompting(h, flow)
    BY <1>0, <1>2 DEF Prompting, Slots
  <2>3. FlowInv(h, flow)
    BY <1>0, <2>2 DEF FlowInv, PlayingUp
  <2> QED
    BY <2>1, <2>3 DEF FlowKept
<1> QED
  BY <1>0, <1>1, <1>2 DEF Prompting

LEMMA LetsGoFields ==
  ASSUME NEW h \in Harnesses
  PROVE  LET g == LetsGo(h)
         IN  /\ g \in Harnesses /\ g.call = h.call /\ g.holder = "none"
             /\ g.inputs = h.inputs /\ g.buffer = h.buffer
             /\ h.state = "processing" => g.state = "processing"
<1>1. LetsGo(h) \in Harnesses
  BY HarnessTypes
<1> QED
  BY <1>1 DEF LetsGo, Harnesses

LEMMA FlowDoneKeeps ==
  ASSUME FlowInv(harness, flow), FlowSpeakingDone
  PROVE  FlowKept
<1> DEFINE g == Reports(harness)
           h == LetsGo(g)
<1>0. harness \in Harnesses /\ Up(harness) /\ flow.prompts = "tts"
  BY DEF FlowInv, FlowSpeakingDone, PlayingUp, Quiet, FlowBrains
<1>1. g \in Harnesses
  BY <1>0, HarnessTypes DEF FlowSpeakingDone
<1>2. /\ g.call = harness.call /\ g.inputs = harness.inputs /\ g.buffer = harness.buffer
      /\ g.state = harness.state
  BY <1>0 DEF Reports, Harnesses
<1>3. FlowGoesOn(h, harness.holder)
  BY DEF FlowSpeakingDone
<1> HIDE DEF g
<1>4. /\ h \in Harnesses /\ h.call = g.call /\ h.holder = "none"
      /\ h.inputs = g.inputs /\ h.buffer = g.buffer
      /\ g.state = "processing" => h.state = "processing"
  BY <1>1, LetsGoFields
<1> HIDE DEF h
<1> QED
  BY <1>0, <1>2, <1>3, <1>4, GoesOnKeeps DEF Up

LEMMA FlowInterruptedKeeps ==
  ASSUME FlowInv(harness, flow), FlowInterrupted
  PROVE  FlowKept
<1> DEFINE g == Interrupts(harness)
           h1 == LetsGo(g)
           h2 == [g EXCEPT !.holder = "none"]
<1>0. harness \in Harnesses /\ Up(harness) /\ flow.prompts = "tts"
  BY DEF FlowInv, FlowInterrupted, CanInterrupt, TtsActive, Quiet, FlowBrains, Up
<1>1. g \in Harnesses
  BY <1>0, HarnessTypes DEF FlowInterrupted
<1>2. /\ g.call = harness.call /\ g.inputs = harness.inputs /\ g.buffer = harness.buffer
      /\ g.state = harness.state
  BY <1>0 DEF Interrupts, Harnesses
<1>3. FlowGoesOn(h1, harness.holder) \/ FlowGoesOn(h2, harness.holder)
  BY DEF FlowInterrupted
<1> HIDE DEF g
<1>4. /\ h1 \in Harnesses /\ h1.call = g.call /\ h1.holder = "none"
      /\ h1.inputs = g.inputs /\ h1.buffer = g.buffer
      /\ g.state = "processing" => h1.state = "processing"
  BY <1>1, LetsGoFields
<1>5. /\ h2 \in Harnesses /\ h2.call = g.call /\ h2.holder = "none"
      /\ h2.inputs = g.inputs /\ h2.buffer = g.buffer /\ h2.state = g.state
  BY <1>1, HarnessTypes DEF Harnesses
<1> HIDE DEF h1, h2
<1> QED
  BY <1>0, <1>2, <1>3, <1>4, <1>5, GoesOnKeeps DEF Up

LEMMA FlowTextKeeps ==
  ASSUME FlowInv(harness, flow), FlowConfirmed \/ FlowFalseAlarm
  PROVE  FlowKept
<1>0. harness \in Harnesses /\ harness.inputs \in Nat
  BY DEF FlowInv, Harnesses
<1>1. ASSUME NEW final \in BOOLEAN, CanConfirm(harness),
             harness' = Confirms(harness, final), flow' = flow
      PROVE  FlowKept
  <2> DEFINE h == Confirms(harness, final)
  <2>1. h \in Harnesses
    BY <1>0, <1>1, HarnessTypes
  <2>2. /\ h.call = harness.call /\ h.holder = harness.holder
        /\ h.playing = harness.playing /\ ~h.awaiting /\ h.state = harness.state
        /\ h.inputs = 0 => harness.inputs = 0 /\ ~h.buffer
    BY <1>0 DEF Confirms, Hears, Harnesses
  <2> HIDE DEF h
  <2>3. FlowInv(h, flow)
    BY <2>1, <2>2, FlowSame
  <2> QED
    BY <1>1, <2>3 DEF FlowKept, h
<1>2. CASE FlowFalseAlarm
  <2> DEFINE h == FalseAlarm(harness)
  <2>1. h \in Harnesses
    BY <1>0, HarnessTypes
  <2>2. /\ h.call = harness.call /\ h.holder = harness.holder
        /\ h.playing = harness.playing /\ ~h.awaiting /\ h.state = harness.state
        /\ h.inputs = harness.inputs /\ h.buffer = harness.buffer
    BY <1>0 DEF FalseAlarm, Harnesses
  <2>3. harness' = h /\ flow' = flow
    BY <1>2 DEF FlowFalseAlarm, FlowBecomes, Moved
  <2> HIDE DEF h
  <2>4. harness.inputs = 0 => ~harness.buffer
    BY DEF FlowInv
  <2>5. FlowInv(h, flow)
    BY <2>1, <2>2, <2>4, FlowSame
  <2> QED
    BY <2>3, <2>5 DEF FlowKept
<1> QED
  BY <1>1, <1>2 DEF FlowConfirmed, FlowBecomes, Moved

LEMMA FlowEndKeeps ==
  ASSUME FlowInv(harness, flow), FlowEnds
  PROVE  FlowKept
<1> DEFINE f == FlowTaskLost(flow, harness.holder)
           c == [f EXCEPT !.timer = "none"]
<1>0. /\ harness \in Harnesses /\ flow \in FlowBrains
      /\ harness.holder \in Tasks \cup {"none"} /\ Up(harness)
  BY DEF FlowInv, Harnesses, FlowEnds, Up
<1>1. PICK told \in BOOLEAN : harness' = Ends(harness, told) /\ flow' = c
  BY DEF FlowEnds, FlowBecomes, Moved
<1> DEFINE h == Ends(harness, told)
<1>2. /\ h \in Harnesses /\ ~Up(h) /\ h.playing = 0 /\ h.holder = "none"
      /\ ~h.buffer /\ ~h.awaiting
  BY <1>0, EndsFields
<1>3. /\ f \in FlowBrains /\ f.prompts = flow.prompts
      /\ \A s \in Slots : /\ f.tasks[s].node = flow.tasks[s].node
                          /\ s # harness.holder => f.tasks[s] = flow.tasks[s]
  BY <1>0, LostFields
<1> HIDE DEF f, h
<1>4. c \in FlowBrains /\ c.prompts = f.prompts /\ c.tasks = f.tasks
  BY <1>3, RunningOut
<1>5. ASSUME NEW s \in Slots, TaskPc(c, s) # "none" PROVE c.tasks[s].node \in Nodes
  <2>1. CASE s # harness.holder
    BY <1>3, <1>4, <1>5, <2>1 DEF FlowInv, TaskPc
  <2>2. CASE s = harness.holder
    <3>1. TaskPc(flow, s) \in Prompts
      BY <1>0, <2>2 DEF FlowInv, Quiet, Prompting, FlowBrains, Slots
    <3> QED
      BY <1>3, <1>4, <3>1 DEF FlowInv, Prompts
  <2> QED
    BY <2>1, <2>2
<1> HIDE DEF c
<1>6. FlowInv(h, c)
  BY <1>2, <1>4, <1>5 DEF FlowInv, PlayingUp, Quiet, Orderly
<1> QED
  BY <1>1, <1>6 DEF FlowKept, h

LEMMA FlowNextKeeps ==
  ASSUME FlowInv(harness, flow), FlowNext
  PROVE  FlowKept
BY FlowKeyKeeps, FlowHearsKeeps, FlowTurnKeeps, MenuTimeoutKeeps, AudioKeeps, RequestKeeps,
   FlowDoneKeeps, FlowInterruptedKeeps, FlowTextKeeps, FlowEndKeeps DEF FlowNext

-----------------------------------------------------------------------------
(* The theorems.                                                           *)

(* The invariant of the brain the call has; the other one does nothing.    *)
BrainsInv ==
  /\ kind \in {"llm", "flow"}
  /\ kind = "llm" => LlmInv(harness, llm) /\ flow \in FlowBrains
  /\ kind = "flow" => FlowInv(harness, flow) /\ llm \in LlmBrains

LEMMA BrainsInit == Init => BrainsInv
<1> SUFFICES ASSUME Init PROVE BrainsInv
  OBVIOUS
<1>1. FlowBegins("tts") \in FlowBrains
  <2>1. 0 \in 0..(MaxRetries + 1) /\ StartNode \in Nodes /\ Idle \in FlowTasks
    BY FlowAssumption DEF Idle, FlowTasks
  <2> QED
    BY <2>1 DEF FlowBegins, FlowBrains
<1> QED
  BY <1>1, LlmInitInv, FlowInitInv, BeginsType DEF Init, BrainsInv

LEMMA BrainsStep == BrainsInv /\ [Next]_brainVars => BrainsInv'
<1> SUFFICES ASSUME BrainsInv, [Next]_brainVars PROVE BrainsInv'
  OBVIOUS
<1>1. CASE kind = "llm" /\ LlmNext /\ UNCHANGED <<flow, kind>>
  BY <1>1, LlmNextKeeps DEF BrainsInv, LlmKept
<1>2. CASE kind = "flow" /\ FlowNext /\ UNCHANGED <<llm, kind>>
  BY <1>2, FlowNextKeeps DEF BrainsInv, FlowKept
<1>3. CASE UNCHANGED brainVars
  <2>1. harness' = harness /\ llm' = llm /\ flow' = flow /\ kind' = kind
    BY <1>3 DEF brainVars
  <2>2. LlmInv(harness, llm)' = LlmInv(harness, llm) /\ FlowInv(harness, flow)' = FlowInv(harness, flow)
    BY <2>1
  <2> QED
    BY <2>1, <2>2 DEF BrainsInv
<1> QED
  BY <1>1, <1>2, <1>3 DEF Next

(* A call's harness and brain satisfy the invariant, whatever the caller,  *)
(* the LLM, its tools, the servers and the flow are.                       *)
THEOREM BrainsInvariant == Spec => []BrainsInv
<1>1. Init => BrainsInv
  BY BrainsInit
<1>2. BrainsInv /\ [Next]_brainVars => BrainsInv'
  BY BrainsStep
<1> QED
  BY <1>1, <1>2, PTL DEF Spec

(* The harness and both brains keep their types (BrainHarness.ts:47-60,    *)
(* LlmChatBrain.ts:85-112, FlowBrain.ts:54-60): no counter leaves its      *)
(* range, no task is at a place it does not have.                          *)
THEOREM BrainsAreTyped == Spec => []BrainsTypeOK
<1>1. BrainsInv => BrainsTypeOK
  BY DEF BrainsInv, LlmInv, FlowInv, BrainsTypeOK, HarnessTypeOK, LlmTypeOK, FlowTypeOK
<1> QED
  BY <1>1, BrainsInvariant, PTL

(* At most one turn of the LLM brain is under way, `processing` covers it, *)
(* and one that speaks holds the promise of speak() (LlmChatBrain.ts:      *)
(* 209-237 and 312, BrainHarness.ts:175-188).                              *)
THEOREM TurnsAreSingle == Spec => []OneTurn
<1>1. ASSUME BrainsInv, kind = "llm", ~llm.late, harness.call = "up", NEW s \in Slots,
             ~FreeSlot(s)
      PROVE  /\ \A other \in Slots \ {s} : FreeSlot(other)
             /\ llm.processing
             /\ llm.turns[s].pc \in {"speak", "apology"} <=> harness.holder = s
  BY <1>1 DEF BrainsInv, LlmInv, OneAtATime, Turning, FreeSlot, Pc, Up
<1>2. BrainsInv => OneTurn
  BY <1>1 DEF OneTurn
<1> QED
  BY <1>2, BrainsInvariant, PTL

(* While the LLM brain waits for the caller the silence timer is set       *)
(* (resetSilenceTimer(), LlmChatBrain.ts:783).                             *)
THEOREM SilenceIsTimed == Spec => []IdleIsTimed
<1>1. BrainsInv => IdleIsTimed
  BY DEF BrainsInv, LlmInv, Timed, IdleIsTimed, FreeSlot, Pc, Up
<1> QED
  BY <1>1, BrainsInvariant, PTL

(* A flow does one thing at a time, and the timeout that runs is that of   *)
(* the menu the caller is in, for every flow graph (FlowBrain.ts:126-128   *)
(* and 250-296).                                                           *)
THEOREM FlowsAreSequential == Spec => []FlowIsSequential
<1>1. ASSUME BrainsInv, kind = "flow", flow.prompts = "tts" \/ harness.inputs = 0,
             harness.call = "up"
      PROVE  /\ Cardinality({s \in Slots : flow.tasks[s].pc # "none"}) <= 1
             /\ flow.timer # "none" => flow.current = flow.timer /\ \A s \in Slots : Free(s)
  <2> DEFINE busy == {s \in Slots : flow.tasks[s].pc # "none"}
  <2>1. OneTask(flow) /\ TimerFits(flow)
    BY <1>1 DEF BrainsInv, FlowInv, Orderly, Up
  <2>2. flow.timer # "none" => flow.current = flow.timer /\ \A s \in Slots : Free(s)
    BY <2>1 DEF OneTask, TimerFits, Free, TaskPc
  <2>3. busy = {} \/ \E s \in Slots : busy = {s}
    BY <2>1 DEF OneTask, TaskPc
  <2>4. Cardinality(busy) \in {0, 1}
    BY <2>3, FS_EmptySet, FS_Singleton
  <2> QED
    BY <2>2, <2>4
<1>2. BrainsInv => FlowIsSequential
  BY <1>1 DEF FlowIsSequential
<1> QED
  BY <1>2, BrainsInvariant, PTL
===============================================================================
