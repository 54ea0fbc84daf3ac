------------------------------ MODULE TtsInjector ------------------------------
(***************************************************************************)
(* The task of rust-rtp-server/src/tts.rs that plays one session's audio:  *)
(* it takes commands from a channel and sends what it has buffered as      *)
(* 20 ms frames, one at a time, looking at the channel between them.       *)
(*                                                                         *)
(* The commands come from the HTTP handlers in rust-rtp-server/src/api.rs, *)
(* in the order in which the controller makes its requests; it hands an    *)
(* utterance over only when the one before is reported or it has given     *)
(* that one up (OneVoice of SpeechQueue).                                  *)
(*                                                                         *)
(* Audio is counted in units; FrameUnits of them make a frame, and an      *)
(* utterance need not fill its last one.                                   *)
(***************************************************************************)
EXTENDS Integers, Sequences, FiniteSets

CONSTANTS
  MaxUtterances,  (* bound: how many utterances the session plays            *)
  Lengths,        (* bound: how many units each may have                     *)
  FrameUnits,     (* units per frame                                         *)
  MaxCancels      (* bound: how many cancel requests there are               *)

ASSUME InjectorAssumption ==
  /\ MaxUtterances \in Nat \ {0}
  /\ FrameUnits \in Nat \ {0}
  /\ Lengths \subseteq [1..MaxUtterances -> Nat \ {0}]
  /\ MaxCancels \in Nat

Utterances == 1..MaxUtterances
None       == 0     (* "" *)
Padding    == 0

VARIABLES
  length,                (* the units each utterance has                     *)
  handed,                (* how many utterances were handed over             *)
  complete,              (* those whose "done" request was answered          *)
  givenUp,               (* those the client goes on without                 *)
  cancels,               (* cancel requests made                             *)
  channel,               (* the command channel                              *)
  open,                  (* the session, which owns the sender, exists       *)
  pcm_buffer,            (* the utterance each buffered unit belongs to      *)
  current_utterance_id,
  pending_done,
  tts_active,            (* the AtomicBool it shares with the AEC thread     *)
  running,               (* the task has not ended                           *)
  wire,                  (* the units sent to Asterisk                       *)
  events                 (* the playback events broadcast                    *)

client == <<length, handed, complete, givenUp, cancels>>
task   == <<pcm_buffer, current_utterance_id, pending_done, tts_active, running, wire, events>>
vars   == <<client, channel, open, task>>

Commands ==
  [type : {"Audio", "Done"}, utterance : Utterances] \cup [type : {"Cancel"}]
EventTypes == {"tts_playback_done", "tts_playback_cancelled"}

TypeOK ==
  /\ length \in Lengths
  /\ handed \in 0..MaxUtterances
  /\ complete \in SUBSET Utterances /\ givenUp \in SUBSET Utterances
  /\ cancels \in 0..MaxCancels
  /\ channel \in Seq(Commands)
  /\ open \in BOOLEAN /\ running \in BOOLEAN
  /\ pcm_buffer \in Seq(Utterances)
  /\ current_utterance_id \in Utterances \cup {None}
  /\ pending_done \in Utterances \cup {None}
  /\ tts_active \in BOOLEAN
  /\ wire \in Seq(Utterances \cup {Padding}) /\ Len(wire) % FrameUnits = 0
  /\ events \in SUBSET [type : EventTypes, utterance : Utterances \cup {None}]

Init ==
  /\ length \in Lengths
  /\ handed = 0 /\ complete = {} /\ givenUp = {} /\ cancels = 0
  /\ channel = <<>> /\ open = TRUE
  /\ pcm_buffer = <<>>
  /\ current_utterance_id = None /\ pending_done = None
  /\ tts_active = FALSE /\ running = TRUE
  /\ wire = <<>> /\ events = {}

Units(u) == [i \in 1..length[u] |-> u]

Reported(u) == \E e \in events : e.utterance = u

-----------------------------------------------------------------------------
(* The requests.                                                           *)

Enqueue(command) == channel' = Append(channel, command)

HandOver ==
  LET u == handed + 1
  IN  /\ open /\ handed < MaxUtterances
      /\ handed = 0 \/ Reported(handed) \/ handed \in givenUp
      /\ handed' = u
      /\ Enqueue([type |-> "Audio", utterance |-> u])
      /\ UNCHANGED <<length, complete, givenUp, cancels, open, task>>

Undeclared == handed # 0 /\ handed \notin complete \cup givenUp

(* A "done" whose reply is lost: the request, and then GiveUp.             *)
DeclareComplete ==
  /\ open /\ Undeclared
  /\ complete' = complete \cup {handed}
  /\ Enqueue([type |-> "Done", utterance |-> handed])
  /\ UNCHANGED <<length, handed, givenUp, cancels, open, task>>

(* A request about it failed, or 60 s have passed without a report: the    *)
(* client goes on, and the audio that waits here is still played.          *)
GiveUp ==
  /\ handed # 0 /\ handed \notin givenUp /\ ~Reported(handed)
  /\ givenUp' = givenUp \cup {handed}
  /\ UNCHANGED <<length, handed, complete, cancels, channel, open, task>>

(* A barge-in; the request may come late, or overtake the audio.           *)
RequestCancel ==
  /\ open /\ cancels < MaxCancels
  /\ cancels' = cancels + 1
  /\ Enqueue([type |-> "Cancel"])
  /\ UNCHANGED <<length, handed, complete, givenUp, open, task>>

(* The session is removed: the channel closes, and still delivers.         *)
RemoveSession ==
  /\ open
  /\ open' = FALSE
  /\ UNCHANGED <<client, channel, task>>

-----------------------------------------------------------------------------
(* The task.                                                               *)

(* Phase 1 of the loop, else phase 2.                                      *)
Pacing == Len(pcm_buffer) >= FrameUnits

Broadcast(type, id) == events' = events \cup {[type |-> type, utterance |-> id]}

(* A tail sent as it is.                                                   *)
FlushedUnpadded(units, rest) == units \o rest

(* What is left of the buffer is sent as one frame, filled up with zeros.  *)
Flushed(units, rest) ==
  IF rest = <<>> THEN units
  ELSE units \o rest \o [i \in 1..(FrameUnits - Len(rest)) |-> Padding]

FirstFrame == SubSeq(pcm_buffer, 1, FrameUnits)
AfterFrame == SubSeq(pcm_buffer, FrameUnits + 1, Len(pcm_buffer))

(* Clearing tts_active whenever the buffer has run out of whole frames.    *)
SendFrameInactive ==
  /\ running /\ Pacing
  /\ wire' = wire \o FirstFrame
  /\ pcm_buffer' = AfterFrame
  /\ tts_active' = (Len(AfterFrame) >= FrameUnits)
  /\ UNCHANGED <<pending_done, events>>
  /\ UNCHANGED <<client, channel, open, current_utterance_id, running>>

(* A frame is due.  With the last whole one, a "done" that came while it   *)
(* was pacing takes effect.                                                *)
SendFrame ==
  /\ running /\ Pacing
  /\ IF Len(AfterFrame) >= FrameUnits \/ pending_done = None
     THEN /\ wire' = wire \o FirstFrame
          /\ pcm_buffer' = AfterFrame
          /\ UNCHANGED <<pending_done, tts_active, events>>
     ELSE /\ wire' = Flushed(wire \o FirstFrame, AfterFrame)
          /\ pcm_buffer' = <<>>
          /\ pending_done' = None
          /\ tts_active' = FALSE
          /\ Broadcast("tts_playback_done", pending_done)
  /\ UNCHANGED <<client, channel, open, current_utterance_id, running>>

Receive(type) ==
  /\ running /\ channel # <<>> /\ Head(channel).type = type
  /\ channel' = Tail(channel)
  /\ UNCHANGED <<client, open, running>>

(* Naming the utterance as soon as there is audio of it.                   *)
TakeAudioNamed ==
  /\ Receive("Audio")
  /\ pcm_buffer' = pcm_buffer \o Units(Head(channel).utterance)
  /\ tts_active' = (tts_active \/ ~Pacing)
  /\ current_utterance_id' = Head(channel).utterance
  /\ UNCHANGED <<pending_done, wire, events>>

TakeAudio ==
  /\ Receive("Audio")
  /\ pcm_buffer' = pcm_buffer \o Units(Head(channel).utterance)
  /\ tts_active' = (tts_active \/ ~Pacing)
  /\ UNCHANGED <<current_utterance_id, pending_done, wire, events>>

(* Reporting at once what is still being paced.                            *)
TakeDoneAtOnce ==
  /\ Receive("Done")
  /\ current_utterance_id' = Head(channel).utterance
  /\ Broadcast("tts_playback_done", Head(channel).utterance)
  /\ UNCHANGED <<pending_done, pcm_buffer, wire>>
  /\ tts_active' = Pacing

(* A tail shorter than a frame stays in the buffer.                        *)
TakeDoneUnflushed ==
  /\ Receive("Done")
  /\ current_utterance_id' = Head(channel).utterance
  /\ IF Pacing
     THEN /\ pending_done' = Head(channel).utterance
          /\ UNCHANGED <<pcm_buffer, tts_active, wire, events>>
     ELSE /\ tts_active' = FALSE
          /\ Broadcast("tts_playback_done", Head(channel).utterance)
          /\ UNCHANGED <<pending_done, pcm_buffer, wire>>

TakeDone ==
  /\ Receive("Done")
  /\ current_utterance_id' = Head(channel).utterance
  /\ IF Pacing
     THEN /\ pending_done' = Head(channel).utterance
          /\ UNCHANGED <<pcm_buffer, tts_active, wire, events>>
     ELSE /\ wire' = Flushed(wire, pcm_buffer)
          /\ pcm_buffer' = <<>>
          /\ tts_active' = FALSE
          /\ Broadcast("tts_playback_done", Head(channel).utterance)
          /\ UNCHANGED pending_done

(* A cancel that reports nothing.                                          *)
TakeCancelSilent ==
  /\ Receive("Cancel")
  /\ pcm_buffer' = <<>>
  /\ pending_done' = None
  /\ tts_active' = FALSE
  /\ UNCHANGED <<current_utterance_id, wire, events>>

(* Both phases do the same.                                                *)
TakeCancel ==
  /\ Receive("Cancel")
  /\ pcm_buffer' = <<>>
  /\ pending_done' = None
  /\ tts_active' = FALSE
  /\ Broadcast("tts_playback_cancelled", current_utterance_id)
  /\ UNCHANGED <<current_utterance_id, wire>>

(* The channel is closed and empty.                                        *)
ChannelClosed ==
  /\ running /\ channel = <<>> /\ ~open
  /\ running' = FALSE
  /\ pcm_buffer' = <<>>
  /\ UNCHANGED <<client, channel, open, current_utterance_id, pending_done, tts_active,
                 wire, events>>

-----------------------------------------------------------------------------
Command == TakeAudio \/ TakeDone \/ TakeCancel \/ ChannelClosed

Next ==
  \/ HandOver \/ DeclareComplete \/ GiveUp \/ RequestCancel \/ RemoveSession
  \/ SendFrame \/ Command

Spec == Init /\ [][Next]_vars

(* The timer of a frame fires, and the runtime polls the channel.          *)
FairSpec == Spec /\ WF_vars(SendFrame) /\ WF_vars(Command)

-----------------------------------------------------------------------------
InBuffer(u)  == \E i \in DOMAIN pcm_buffer : pcm_buffer[i] = u
InChannel(u) == \E i \in DOMAIN channel : channel[i] = [type |-> "Audio", utterance |-> u]
SentUnits(u) == Cardinality({i \in DOMAIN wire : wire[i] = u})

(* "tts_playback_done" is true: all audio of the utterance was sent, in    *)
(* order and after that of earlier ones; only a cancel can have dropped    *)
(* some.                                                                   *)
DoneMeansPlayed ==
  /\ \A u \in Utterances :
       [type |-> "tts_playback_done", utterance |-> u] \in events =>
         /\ ~InBuffer(u) /\ ~InChannel(u)
         /\ cancels = 0 => SentUnits(u) = length[u]
  /\ \A i, j \in DOMAIN wire : i < j /\ wire[j] # Padding => wire[i] <= wire[j]

(* The AEC thread is told that the bot speaks as long as there is audio to *)
(* send, also between frames and between utterances; without the flag the  *)
(* VAD would take no barge-in.  Once the last one is reported it is told   *)
(* otherwise.                                                              *)
ActiveWhilePlaying ==
  /\ running /\ pcm_buffer # <<>> => tts_active
  /\ running /\ tts_active => handed # 0 /\ ~Reported(handed)

(* A frame has audio of two utterances only if the client handed the       *)
(* second over without waiting for the first.                              *)
FramesUnmixed ==
  \A i, j \in DOMAIN wire :
    i < j /\ (i - 1) \div FrameUnits = (j - 1) \div FrameUnits =>
      wire[j] \in {wire[i], Padding} \/ wire[i] \in givenUp

(* Every utterance declared complete is reported, played or cancelled,     *)
(* unless the session goes, or the controller no longer waits for it: then *)
(* the next "done" may take the place of this one.                         *)
EveryDoneReported ==
  \A u \in Utterances : u \in complete ~> Reported(u) \/ u \in givenUp \/ ~open

-----------------------------------------------------------------------------
(* What became of an utterance, as TtsPlayer has it: audio that is neither *)
(* waiting nor sent was dropped by a cancel.                               *)
Waiting(u) == InBuffer(u) \/ InChannel(u)
Dropped(u) == ~Waiting(u) /\ SentUnits(u) < length[u]

Fate(u) ==
  CASE u > handed                                   -> "none"
    [] u <= handed /\ (~running \/ Reported(u))     -> "over"
    [] u <= handed /\ running /\ ~Reported(u)       ->
         CASE u \in givenUp /\ Waiting(u)               -> "orphan"
           [] u \in givenUp /\ ~Waiting(u)              -> "over"
           [] u \in complete \ givenUp /\ Dropped(u)    -> "silent"
           [] u \in complete \ givenUp /\ ~Dropped(u)   -> "done"
           [] u \notin complete \cup givenUp /\ Dropped(u)  -> "cut"
           [] u \notin complete \cup givenUp /\ ~Dropped(u) -> "audio"

Player == INSTANCE TtsPlayer WITH
  rust    <- [u \in Utterances |-> Fate(u)],
  notices <- {u \in Utterances : Reported(u) /\ u \notin givenUp}

(* The task keeps the promises SpeechQueue is built on.                    *)
ImplementsPlayer == Player!PlayerSpec
===============================================================================
