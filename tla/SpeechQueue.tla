------------------------------ MODULE SpeechQueue ------------------------------
(***************************************************************************)
(* How one call speaks and is interrupted: the speech queue and two-stage  *)
(* barge-in of core/AriControllerServer.ts, the awaitable speak() of       *)
(* assistants/base/BrainHarness.ts, and what the Rust RTP server that      *)
(* plays the audio promises (module TtsPlayer).                            *)
(*                                                                         *)
(* An action runs from one await to the next.  When performSpeakOnChannel  *)
(* ends, the queue loop goes on before the brain sees its promise settled  *)
(* (one microtask against two), hence in the same action.                  *)
(*                                                                         *)
(* The speech state of a session is an object: deleting the session's      *)
(* entry leaves the loop that works on it running, and the next lookup     *)
(* makes a new one.                                                        *)
(***************************************************************************)
EXTENDS Integers, Sequences, FiniteSets

CONSTANTS
  MaxSpeaks,    (* bound: how many texts the assistant says in the call      *)
  MaxBargeIns,  (* bound: how often the Rust server reports the user talking *)
  TextChoices,  (* bound: what the texts may be, u standing for the u-th     *)
  BrainAwaits   (* the brain awaits each speak() before the next             *)

ASSUME SpeechAssumption ==
  /\ MaxSpeaks \in Nat \ {0}
  /\ MaxBargeIns \in Nat
  /\ TextChoices \subseteq [1..MaxSpeaks -> 0..MaxSpeaks]
  /\ BrainAwaits \in BOOLEAN

(* A session's state is made at most once before a transfer deletes it,    *)
(* once between transfer and end and once after the end.                   *)
Objects    == 1..3
Utterances == 1..MaxSpeaks
None       == 0

VARIABLES
  text,       (* what each utterance says: the same number is the same text, or Blank *)
  brain,      (* who speaks: a BrainHarness or an OpenClawAssistant            *)
  asked,      (* how many of the utterances were asked for                     *)
  session,    (* active, transferred (its speech state and Rust session gone), ended *)
  speech,     (* the speech state objects, each with its loop                  *)
  current,    (* the entry of sessionSpeechState, or None                      *)
  created,    (* how many objects were made                                    *)
  harness,    (* speakResolve/speakReject, each promise's outcome, SPEAKING    *)
  rust,       (* Rust: what became of an utterance's audio, as in TtsPlayer    *)
  cancels,    (* "cancel" requests on their way to Rust                        *)
  notices,    (* tts_playback_done/_cancelled messages on their way from Rust  *)
  vad,        (* a user_speaking message is on its way from Rust               *)
  bargeIns    (* user_speaking messages sent                                   *)

vars == <<text, brain, asked, session, speech, current, created, harness, rust,
          cancels, notices, vad, bargeIns>>

Blank == 0

(* queue, processingQueue, ttsActive, bargeInTriggered,                    *)
(* awaitingBargeInText, currentUtteranceId, prefetchedTtsText and          *)
(* lastSpokenNormalized as in SessionSpeechState; the 3 s timers that are  *)
(* set; and where the loop is, with its item, the object performSpeak-     *)
(* ViaRust found, and the item it prefetches.                              *)
Fresh ==
  [queue |-> <<>>, processing |-> FALSE, ttsActive |-> FALSE, triggered |-> FALSE,
   awaiting |-> FALSE, uttId |-> None, prefetched |-> None, lastSpoken |-> Blank,
   timers |-> {}, phase |-> "idle", item |-> None, on |-> None, ahead |-> None]

LoopPhases == {"idle", "synth", "stream", "done", "wait", "prefetch"}
Outcomes   == {"none", "pending", "resolved", "rejected"}

Player == INSTANCE TtsPlayer

TypeOK ==
  /\ text \in [Utterances -> {Blank} \cup Utterances]
  /\ brain \in {"harness", "openclaw"}
  /\ asked \in 0..MaxSpeaks
  /\ session \in {"active", "transferred", "ended"}
  /\ \A o \in Objects :
       /\ \A i \in DOMAIN speech[o].queue : text[speech[o].queue[i]] # Blank
       /\ speech[o].phase \in LoopPhases
       /\ speech[o].on \in Objects \cup {None}
       /\ {speech[o].uttId, speech[o].prefetched, speech[o].item, speech[o].ahead}
            \subseteq Utterances \cup {None}
       /\ speech[o].timers \subseteq 1..MaxBargeIns
  /\ created \in 0..3 /\ current \in 0..created
  /\ harness.pending \in Utterances \cup {None}
  /\ harness.outcome \in [Utterances -> Outcomes]
  /\ harness.speaking \in BOOLEAN
  /\ rust \in [Utterances -> Player!RustStates]
  /\ cancels \in 0..MaxBargeIns
  /\ notices \subseteq Utterances
  /\ vad \in BOOLEAN
  /\ bargeIns \in 0..MaxBargeIns

Init ==
  /\ text \in TextChoices
  /\ brain \in {"harness", "openclaw"}
  /\ asked = 0
  /\ session = "active"
  /\ speech = [o \in Objects |-> Fresh]
  /\ current = None /\ created = 0
  /\ harness = [pending |-> None, outcome |-> [u \in Utterances |-> "none"], speaking |-> FALSE]
  /\ rust = [u \in Utterances |-> "none"]
  /\ cancels = 0 /\ notices = {} /\ vad = FALSE /\ bargeIns = 0

-----------------------------------------------------------------------------
(* The harness.                                                            *)

Settled(h, outcome) ==
  IF h.pending = None THEN h
  ELSE [h EXCEPT !.outcome[h.pending] = outcome, !.pending = None]

(* Without the fallback only a pending promise ends SPEAKING.              *)
NotifiedIfPending(h) ==
  IF h.pending = None THEN h ELSE [Settled(h, "resolved") EXCEPT !.speaking = FALSE]

(* onSpeakingDone(): whichever speak() is pending resolves.                *)
Notified(h) == [Settled(h, "resolved") EXCEPT !.speaking = FALSE]

(* cancelSpeaking().                                                       *)
Cancelled(h) == Settled(h, "rejected")

-----------------------------------------------------------------------------
(* getSessionSpeechState(): the entry, made if there is none.              *)
Object == IF current = None THEN created + 1 ELSE current

Lookup == /\ current' = Object
          /\ created' = IF current = None THEN created + 1 ELSE created

(* The `finally` of processSpeakQueue.                                     *)
Exited(s) == [s EXCEPT !.queue = <<>>, !.processing = FALSE, !.ttsActive = FALSE,
                       !.awaiting = FALSE, !.uttId = None, !.phase = "idle",
                       !.item = None, !.on = None, !.ahead = None]

(* The loop of o takes item u; performSpeakViaRust works on object r and   *)
(* uses the prefetched audio if it says the same.                          *)
Begun(s, u, r, ready) ==
  [s EXCEPT !.queue = Tail(@), !.item = u, !.on = r, !.ahead = None,
            !.phase = IF ready THEN "stream" ELSE "synth"]

Prefetched(s, u) == s.prefetched # None /\ text[s.prefetched] = text[u]

Taken(st, o, u, r) ==
  LET ready == Prefetched(st[r], u)
      begun == [st EXCEPT ![o] = Begun(st[o], u, r, ready)]
  IN  [begun EXCEPT ![r] = [begun[r] EXCEPT !.prefetched = None,
                                            !.uttId = IF ready THEN u ELSE begun[r].uttId]]

(* Leaving SPEAKING marks the cooldown, which looks the entry up; after    *)
(* destroy() nobody listens to the assistant any more.                     *)
LeavesSpeaking == harness.speaking /\ session # "ended"

(* A break that leaves the queue as it is.                                 *)
ContinueKeepsQueue(st, o) ==
  LET s == st[o]
  IN  IF s.queue = <<>> \/ s.triggered \/ session = "ended"
      THEN /\ speech' = [st EXCEPT ![o] = [Exited(s) EXCEPT !.queue = s.queue]]
           /\ IF s.triggered /\ ~LeavesSpeaking THEN UNCHANGED <<current, created>> ELSE Lookup
      ELSE /\ speech' = Taken(st, o, Head(s.queue), Object)
           /\ Lookup

(* The head of the loop of o, in the objects st.  A loop that was not      *)
(* interrupted looks the entry up again when it ends, to mark the cooldown *)
(* once more.                                                              *)
(* An item that cannot be said because TTS is down fails from "synth".     *)
Continue(st, o) ==
  LET s == st[o]
  IN  IF s.queue = <<>> \/ s.triggered \/ session = "ended"
      THEN /\ speech' = [st EXCEPT ![o] = Exited(s)]
           /\ IF s.triggered /\ ~LeavesSpeaking THEN UNCHANGED <<current, created>> ELSE Lookup
      ELSE /\ speech' = Taken(st, o, Head(s.queue), Object)
           /\ Lookup

-----------------------------------------------------------------------------
(* speakOnChannel().                                                       *)

(* `unshift` for `push`.                                                   *)
EnqueuedFirst(queue, u, supersede) == IF supersede THEN <<u>> ELSE <<u>> \o queue

(* supersedeQueued drops what waits; nothing stops what is being said.     *)
Enqueued(queue, u, supersede) == IF supersede THEN <<u>> ELSE Append(queue, u)

(* A loop runs already, or starts.                                         *)
Push(o, u, supersede) ==
  LET s == [speech[o] EXCEPT !.queue = Enqueued(@, u, supersede)]
  IN  IF s.processing
      THEN speech' = [speech EXCEPT ![o] = s] /\ Lookup
      ELSE Continue([speech EXCEPT ![o] = [s EXCEPT !.processing = TRUE, !.triggered = FALSE,
                                                    !.ttsActive = TRUE]], o)

(* The same text is waiting, or was said last: the latter counts as a      *)
(* duplicate only within a time window.                                    *)
QueuedDuplicate(o, u) == \E i \in DOMAIN speech[o].queue : text[speech[o].queue[i]] = text[u]
RecentDuplicate(o, u) == speech[o].lastSpoken = text[u]

(* Without the test for an empty text.                                     *)
SpeakOnChannelBlank(u, supersede, h) ==
  \/ /\ QueuedDuplicate(Object, u) \/ RecentDuplicate(Object, u)
     /\ harness' = Notified(h)
     /\ UNCHANGED speech /\ Lookup
  \/ /\ ~QueuedDuplicate(Object, u)
     /\ harness' = IF supersede /\ speech[Object].queue # <<>> THEN Notified(h) ELSE h
     /\ Push(Object, u, supersede)

SpeakOnChannel(u, supersede, h) ==
  \/ /\ text[u] = Blank \/ QueuedDuplicate(Object, u) \/ RecentDuplicate(Object, u)
     /\ harness' = Notified(h)
     /\ UNCHANGED speech /\ Lookup
  \/ /\ text[u] # Blank
     /\ ~QueuedDuplicate(Object, u)
     /\ harness' = IF supersede /\ speech[Object].queue # <<>> THEN Notified(h) ELSE h
     /\ Push(Object, u, supersede)

(* BrainHarness.speak().  Brains await it, but may call it again while an  *)
(* earlier call is pending (a DTMF digit during a silence reprompt); that  *)
(* one is then forgotten.                                                  *)
Speak ==
  LET u == asked + 1
  IN  /\ brain = "harness" /\ session # "ended" /\ asked < MaxSpeaks
      /\ BrainAwaits => harness.pending = None
      /\ asked' = u
      /\ SpeakOnChannel(u, FALSE, [harness EXCEPT !.pending = u, !.outcome[u] = "pending",
                                                  !.speaking = TRUE])
      /\ UNCHANGED <<text, brain, session, rust, cancels, notices, vad, bargeIns>>

(* OpenClawAssistant.onOpenClawSpeak().                                    *)
OpenClawSpeak ==
  LET u == asked + 1
  IN  /\ brain = "openclaw" /\ session # "ended" /\ asked < MaxSpeaks
      /\ asked' = u
      /\ SpeakOnChannel(u, TRUE, [harness EXCEPT !.speaking = TRUE])
      /\ UNCHANGED <<text, brain, session, rust, cancels, notices, vad, bargeIns>>

-----------------------------------------------------------------------------
(* performSpeakViaRust(), from await to await.                             *)

outside == <<text, brain, asked, session, vad, bargeIns, cancels>>

(* A failure the assistant is not told of.                                 *)
FailsSilently(o) ==
  LET r == speech[o].on
  IN  /\ harness' = harness
      /\ Continue([speech EXCEPT ![r].uttId = None, ![r].prefetched = None], o)

(* It returns false: the item was not said.                                *)
Fails(o) ==
  LET r == speech[o].on
  IN  /\ harness' = Notified(harness)
      /\ Continue([speech EXCEPT ![r].uttId = None, ![r].prefetched = None], o)

(* ttsActive toggled by each item, as it once was.                         *)
SpokenTogglesTts(o, got) ==
  LET r    == speech[o].on
      kept == [speech EXCEPT ![r].uttId = None,
                             ![r].prefetched = IF got THEN speech[o].ahead ELSE @]
  IN  /\ harness' = Notified(harness)
      /\ Continue([kept EXCEPT ![o].prefetched = IF speech[o].triggered THEN None ELSE @,
                               ![o].lastSpoken = text[speech[o].item],
                               ![o].ttsActive = FALSE], o)

(* It returns true, with the next item's audio prefetched or not.          *)
Spoken(o, got) ==
  LET r    == speech[o].on
      kept == [speech EXCEPT ![r].uttId = None,
                             ![r].prefetched = IF got THEN speech[o].ahead ELSE @]
  IN  /\ harness' = Notified(harness)
      /\ Continue([kept EXCEPT ![o].prefetched = IF speech[o].triggered THEN None ELSE @,
                               ![o].lastSpoken = text[speech[o].item]], o)

SynthReturns(o) ==
  /\ speech[o].phase = "synth"
  /\ LET named == [speech EXCEPT ![speech[o].on].uttId = speech[o].item]
     IN  speech' = [named EXCEPT ![o].phase = "stream"]
  /\ UNCHANGED <<outside, current, created, harness, rust, notices>>

SynthFails(o) ==
  /\ speech[o].phase = "synth"
  /\ Fails(o)
  /\ UNCHANGED <<outside, rust, notices>>

StreamReturns(o) ==
  /\ speech[o].phase = "stream"
  /\ rust[speech[o].item] # "none"
  /\ speech' = [speech EXCEPT ![o].phase = "done"]
  /\ UNCHANGED <<outside, current, created, harness, rust, notices>>

(* The loop goes on without u, which Rust may not have finished with.      *)
GoesOnWithout(u) ==
  IF rust[u] \in {"none", "over"} THEN UNCHANGED <<rust, notices>> ELSE Player!GiveUp(u)

(* A request that fails never reached Rust, or its reply was lost.         *)
StreamFails(o) ==
  /\ speech[o].phase = "stream"
  /\ GoesOnWithout(speech[o].item)
  /\ Fails(o)
  /\ UNCHANGED outside

(* The end of playback is not waited for.                                  *)
DoneReturnsAtOnce(o) ==
  /\ speech[o].phase = "done"
  /\ session = "active" => rust[speech[o].item] \in {"done", "silent", "over"}
  /\ Spoken(o, FALSE)
  /\ UNCHANGED <<outside, rust, notices>>

(* The response is not looked at: a session unknown to Rust is no error.   *)
(* From here on a listener waits; synthesis of the next item begins.       *)
DoneReturns(o) ==
  LET r == speech[o].on
  IN  /\ speech[o].phase = "done"
      /\ session = "active" => rust[speech[o].item] \in {"done", "silent", "over"}
      /\ \E next \in {None} \cup (IF speech[r].queue # <<>> /\ ~speech[r].triggered
                                  THEN {Head(speech[r].queue)} ELSE {}) :
           speech' = [speech EXCEPT ![o].ahead = next, ![o].phase = "wait"]
      /\ UNCHANGED <<outside, current, created, harness, rust, notices>>

DoneFails(o) ==
  /\ speech[o].phase = "done"
  /\ GoesOnWithout(speech[o].item)
  /\ Fails(o)
  /\ UNCHANGED outside

(* waitForTtsPlaybackDone resolves; the prefetched audio is collected if   *)
(* it is still that of the next item.                                      *)
Waited(o) ==
  LET s == speech[o]
      r == s.on
  IN  IF s.ahead # None /\ ~speech[r].triggered /\ speech[r].queue # <<>>
           /\ Head(speech[r].queue) = s.ahead
      THEN /\ speech' = [speech EXCEPT ![o].phase = "prefetch"]
           /\ UNCHANGED <<current, created, harness>>
      ELSE Spoken(o, FALSE)

(* The message router finds the listener of the utterance, or nobody.      *)
PlaybackNotice(u) ==
  /\ u \in notices
  /\ notices' = notices \ {u}
  /\ \/ \E o \in Objects : speech[o].phase = "wait" /\ speech[o].item = u /\ Waited(o)
     \/ /\ \A o \in Objects : ~(speech[o].phase = "wait" /\ speech[o].item = u)
        /\ UNCHANGED <<speech, current, created, harness>>
  /\ UNCHANGED <<outside, rust>>

(* 60 s have passed since Rust has all of the text, which may be longer    *)
(* than that.                                                              *)
PlaybackTimeout(o) ==
  /\ speech[o].phase = "wait"
  /\ GoesOnWithout(speech[o].item)
  /\ Waited(o)
  /\ UNCHANGED outside

PrefetchReturns(o) ==
  /\ speech[o].phase = "prefetch"
  /\ \E got \in BOOLEAN : Spoken(o, got)
  /\ UNCHANGED <<outside, rust, notices>>

LoopStep(o) ==
  \/ SynthReturns(o) \/ SynthFails(o) \/ StreamReturns(o) \/ StreamFails(o)
  \/ DoneReturns(o) \/ DoneFails(o) \/ PlaybackTimeout(o) \/ PrefetchReturns(o)

-----------------------------------------------------------------------------
(* Barge-in.                                                               *)

(* user_speaking, stage 1: cancelCurrentPlayback, cancelSpeaking, wait for *)
(* text at most 3 s.  Only an utterance whose id is known is cancelled.    *)
UserSpeaking ==
  LET o == Object
      s == speech[o]
  IN  /\ vad
      /\ vad' = FALSE
      /\ IF s.ttsActive /\ ~s.awaiting
         THEN /\ speech' = [speech EXCEPT ![o] =
                   [s EXCEPT !.triggered = TRUE, !.queue = <<>>, !.ttsActive = FALSE,
                             !.uttId = None, !.prefetched = None, !.awaiting = TRUE,
                             !.timers = @ \cup {bargeIns}]]
              /\ harness' = Cancelled(IF s.queue # <<>> THEN Notified(harness) ELSE harness)
              /\ cancels' = IF s.uttId # None THEN cancels + 1 ELSE cancels
         ELSE UNCHANGED <<speech, harness, cancels>>
      /\ Lookup
      /\ UNCHANGED <<text, brain, asked, session, rust, notices, bargeIns>>

(* The 3 s timer of the b-th barge-in; nothing ever clears one.            *)
SafetyTimer(o, b) ==
  /\ b \in speech[o].timers
  /\ speech' = [speech EXCEPT ![o].timers = @ \ {b}, ![o].awaiting = FALSE]
  /\ UNCHANGED <<outside, current, created, harness, rust, notices>>

(* A transcription with text, stage 2.  What the brain does with one that  *)
(* is no echo is to Speak, some time.                                      *)
Transcription ==
  /\ session = "active"
  /\ current # None
  /\ speech[current].awaiting
  /\ speech' = [speech EXCEPT ![current].awaiting = FALSE]
  /\ UNCHANGED <<outside, current, created, harness, rust, notices>>

-----------------------------------------------------------------------------
(* A transfer, and the end of the call: the speech state is deleted and    *)
(* the Rust session with it.                                               *)
Transfer ==
  /\ session = "active"
  /\ session' = "transferred"
  /\ current' = None
  /\ Player!Remove
  /\ UNCHANGED <<text, brain, asked, speech, created, harness, cancels, vad, bargeIns>>

(* destroy() forgets the pending promise.                                  *)
EndSession ==
  /\ session # "ended"
  /\ session' = "ended"
  /\ current' = None
  /\ harness' = [harness EXCEPT !.pending = None]
  /\ Player!Remove
  /\ UNCHANGED <<text, brain, asked, speech, created, cancels, vad, bargeIns>>

-----------------------------------------------------------------------------
(* The Rust server, while it has the session.                              *)

rustKeeps == <<text, brain, asked, session, speech, current, created, harness>>

RustAudio(o) ==
  /\ session = "active" /\ speech[o].phase = "stream"
  /\ Player!TakeAudio(speech[o].item)
  /\ UNCHANGED <<rustKeeps, cancels, vad, bargeIns>>

RustDone(o) ==
  /\ session = "active" /\ speech[o].phase = "done"
  /\ Player!TakeDone(speech[o].item)
  /\ UNCHANGED <<rustKeeps, cancels, vad, bargeIns>>

RustPlayed(u) ==
  /\ session = "active"
  /\ Player!Played({u})
  /\ UNCHANGED <<rustKeeps, cancels, vad, bargeIns>>

(* A cancel may overtake the audio it is meant for.                        *)
RustCancel ==
  /\ session = "active" /\ cancels > 0
  /\ cancels' = cancels - 1
  /\ Player!Cancel
  /\ UNCHANGED <<rustKeeps, vad, bargeIns>>

(* The VAD hears the user over the bot's audio.                            *)
RustHearsUser ==
  /\ session = "active" /\ ~vad /\ bargeIns < MaxBargeIns
  /\ \E u \in Utterances : rust[u] \in {"audio", "done", "orphan"}
  /\ vad' = TRUE
  /\ bargeIns' = bargeIns + 1
  /\ UNCHANGED <<rustKeeps, rust, cancels, notices>>

(* The WebSocket to the Rust server breaks, with what it carries.          *)
MessagesLost ==
  /\ notices # {} \/ vad
  /\ notices' = {} /\ vad' = FALSE
  /\ UNCHANGED <<rustKeeps, rust, cancels, bargeIns>>

-----------------------------------------------------------------------------
Rust == \/ \E o \in Objects : RustAudio(o) \/ RustDone(o)
        \/ \E u \in Utterances : RustPlayed(u)
        \/ RustCancel \/ RustHearsUser \/ MessagesLost

Next ==
  \/ Speak \/ OpenClawSpeak
  \/ \E o \in Objects : LoopStep(o)
  \/ \E u \in Utterances : PlaybackNotice(u)
  \/ UserSpeaking \/ Transcription
  \/ \E o \in Objects, b \in 1..MaxBargeIns : SafetyTimer(o, b)
  \/ Transfer \/ EndSession
  \/ Rust

Spec == Init /\ [][Next]_vars

(* Every await ends: synthesis within 15 s, requests with a reply or an    *)
(* error, a wait by a notice or its 60 s timer; Rust reads its commands    *)
(* and plays audio in real time.                                           *)
Fairness ==
  /\ \A o \in Objects : WF_vars(LoopStep(o)) /\ WF_vars(RustAudio(o) \/ RustDone(o))
  /\ \A u \in Utterances : WF_vars(PlaybackNotice(u)) /\ WF_vars(RustPlayed(u))

FairSpec == Spec /\ Fairness

-----------------------------------------------------------------------------
(* No queued text is forgotten: speakOnChannel leaves a non-empty queue to *)
(* a running loop, and no loop ends on a non-empty one.                    *)
QueueIsServed == \A o \in Objects : speech[o].queue # <<>> => speech[o].processing

(* Rust is never given an utterance before it has reported the one before, *)
(* whatever barge-ins, transfers and new loops there are in between.  The  *)
(* exception is one the loop gave up, since a request about it failed or   *)
(* it took longer than 60 s: then Rust has both.                           *)
OneVoice ==
  Cardinality({u \in Utterances : rust[u] \in {"audio", "done", "cut", "silent"}}) <= 1

(* "Keep ttsActive for the ENTIRE queue - no gaps between items": while    *)
(* Rust plays an utterance of a call, transcriptions are suppressed unless *)
(* the user has interrupted.  One that the loop gave up is heard after the *)
(* loop's end, and not suppressed.                                         *)
EchoSuppressed ==
  session = "active" /\ (\E u \in Utterances : rust[u] \in {"audio", "done"}) =>
    current # None /\ (speech[current].ttsActive \/ speech[current].triggered)

(* Texts are said in the order they were asked for.                        *)
SpokenInOrder ==
  [][\A u \in Utterances :
       rust[u] = "none" /\ rust'[u] # "none" =>
         \A w \in (u + 1)..MaxSpeaks : rust[w] = "none"]_vars

(* A speak() whose promise the harness still holds settles, through        *)
(* duplicates, failures, barge-ins and lost messages.                      *)
SpeakSettles ==
  \A u \in Utterances :
    harness.pending = u /\ session = "active" ~> harness.pending # u \/ session # "active"

(* The bot never stays in SPEAKING, in which it hears nothing.             *)
BotListensAgain ==
  harness.speaking /\ session = "active" ~> ~harness.speaking \/ session # "active"

(* "a Promise that resolves when playback finishes, or rejects with        *)
(* BargeInError if the user interrupts" (BrainHarness.speak): a promise    *)
(* that is pending resolves only at the end of the item it belongs to.     *)
ResolvesWhenFinished ==
  [][\A u \in Utterances :
       session = "active" /\ harness.outcome[u] = "pending" /\ harness'.outcome[u] = "resolved" =>
         \E o \in Objects : speech[o].item = u]_vars

(* "don't reset awaitingBargeInText here - Stage 2 still needs it": once   *)
(* the audio was stopped, only a transcription, the barge-in's own timeout *)
(* or a failing request ends the wait for text.                            *)
Stage2StillNeedsIt ==
  [][\A o \in Objects :
       session = "active" /\ speech[o].awaiting /\ ~speech'[o].awaiting =>
         \/ Transcription
         \/ SynthFails(o) \/ StreamFails(o) \/ DoneFails(o)
         \/ \E b \in 1..MaxBargeIns : (\A c \in speech[o].timers : c <= b) /\ SafetyTimer(o, b)]_vars
===============================================================================
