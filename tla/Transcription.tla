----------------------------- MODULE Transcription -----------------------------
(***************************************************************************)
(* rust-rtp-server/src/transcription.rs: the task that sends one session's *)
(* audio to a speech recogniser.  It goes from service to service as they  *)
(* fail, and has to notice that its session has been removed, which it can *)
(* only see in the channel the audio comes from.                           *)
(***************************************************************************)
EXTENDS Naturals

CONSTANTS
  Services,     (* transcription_urls.len()                                  *)
  MaxRetries,   (* max_retries                                               *)
  MaxChannel,   (* bound: the capacity of the audio channel                  *)
  MaxChunks,    (* bound: audio that comes                                   *)
  MaxBreaks     (* bound: connections that break                             *)

ASSUME TranscriptionAssumption ==
  /\ {Services, MaxRetries, MaxChannel} \subseteq Nat \ {0}
  /\ {MaxChunks, MaxBreaks} \subseteq Nat

VARIABLE stt
  (* pc        connecting, streaming, waiting (asleep), draining or ended    *)
  (* service, retries   current_idx (from 1), retry_count                    *)
  (* up        the services that accept connections                          *)
  (* removed   audio_tx has been dropped                                     *)
  (* channel, buffer    the chunks in the channel and in the buffer          *)
  (* broken    the connection is, and nobody has noticed                     *)
  (* chunks, breaks     how many there were                                  *)

SttRecords ==
  [pc : {"connecting", "streaming", "waiting", "draining", "ended"},
   service : 1..Services, retries : 0..(MaxRetries - 1), up : SUBSET (1..Services),
   removed : BOOLEAN, broken : BOOLEAN, channel : 0..MaxChannel,
   buffer : 0..MaxChunks, chunks : 0..MaxChunks, breaks : 0..MaxBreaks]

SttTypeOK == stt \in SttRecords

SttBegins(up) ==
  [pc |-> "connecting", service |-> 1, retries |-> 0, up |-> up, removed |-> FALSE,
   channel |-> 0, buffer |-> 0, broken |-> FALSE, chunks |-> 0, breaks |-> 0]

SttInit == \E up \in SUBSET (1..Services) : stt = SttBegins(up)

-----------------------------------------------------------------------------
(* try_send() of the RTP listener or the AEC thread: a full channel drops. *)
AudioComes ==
  /\ ~stt.removed /\ stt.chunks < MaxChunks
  /\ stt' = [stt EXCEPT !.chunks = @ + 1, !.channel = IF @ < MaxChannel THEN @ + 1 ELSE @]

SessionRemoved ==
  /\ ~stt.removed
  /\ stt' = [stt EXCEPT !.removed = TRUE]

(* A connection breaks, or its service goes down with it.                  *)
Breaks ==
  /\ stt.pc = "streaming" /\ ~stt.broken /\ stt.breaks < MaxBreaks
  /\ \E up \in {stt.up, stt.up \ {stt.service}} :
       stt' = [stt EXCEPT !.broken = TRUE, !.breaks = @ + 1, !.up = up]

-----------------------------------------------------------------------------
(* Mutant: the last service is not followed by the first.                  *)
FailedOnwards(t) ==
  LET next == t.service + 1
      gone == [t EXCEPT !.buffer = 0, !.broken = FALSE]
  IN  IF t.retries + 1 >= MaxRetries
        THEN [gone EXCEPT !.service = next, !.retries = 0,
                          !.pc = IF next = 1 THEN "waiting" ELSE "draining"]
        ELSE [gone EXCEPT !.retries = @ + 1, !.pc = "waiting"]

(* An attempt has failed.  After max_retries it is the next service's turn *)
(* at once, or the first's after 5 s; else the same again after 2 s.       *)
Failed(t) ==
  LET next == (t.service % Services) + 1
      gone == [t EXCEPT !.buffer = 0, !.broken = FALSE]
  IN  IF t.retries + 1 >= MaxRetries
        THEN [gone EXCEPT !.service = next, !.retries = 0,
                          !.pc = IF next = 1 THEN "waiting" ELSE "draining"]
        ELSE [gone EXCEPT !.retries = @ + 1, !.pc = "waiting"]

Connects ==
  /\ stt.pc = "connecting"
  /\ stt' = IF stt.service \in stt.up THEN [stt EXCEPT !.pc = "streaming"] ELSE Failed(stt)

TakesAudio ==
  /\ stt.pc = "streaming" /\ stt.channel > 0
  /\ stt' = [stt EXCEPT !.channel = @ - 1, !.buffer = @ + 1]

(* The flush timer.  A broken connection may still take what it is given.  *)
Flushes ==
  /\ stt.pc = "streaming" /\ stt.buffer > 0
  /\ \/ stt' = [stt EXCEPT !.buffer = 0]
     \/ stt.broken /\ stt' = Failed(stt)

(* The task that reads the answers has ended.                              *)
NoticesBreak ==
  /\ stt.pc = "streaming" /\ stt.broken
  /\ stt' = Failed(stt)

(* The channel is closed and empty: the buffer is sent and that was all.   *)
AudioEnds ==
  /\ stt.pc = "streaming" /\ stt.removed /\ stt.channel = 0
  /\ stt' = [stt EXCEPT !.pc = "ended", !.buffer = 0, !.broken = FALSE]

Wakes ==
  /\ stt.pc = "waiting"
  /\ stt' = [stt EXCEPT !.pc = "draining"]

(* Mutant: a closed channel is not told from an empty one.                 *)
DrainsOnly ==
  /\ stt.pc = "draining"
  /\ stt' = [stt EXCEPT !.channel = 0, !.pc = "connecting"]

(* What came in the gap is dropped; a closed channel ends the task.        *)
Drains ==
  /\ stt.pc = "draining"
  /\ stt' = [stt EXCEPT !.channel = 0, !.pc = IF stt.removed THEN "ended" ELSE "connecting"]

SttTask ==
  \/ Connects \/ TakesAudio \/ Flushes \/ NoticesBreak \/ AudioEnds \/ Wakes \/ Drains

SttNext == AudioComes \/ SessionRemoved \/ Breaks \/ SttTask

-----------------------------------------------------------------------------
(* As long as some service accepts connections the caller is heard, even   *)
(* if the first does not, and the task ends once its session is removed,   *)
(* whatever it was waiting for (transcription.rs:38-106).                  *)
CallerIsHeard ==
  /\ (stt.up # {} /\ ~stt.removed) ~> (stt.pc = "streaming" \/ stt.removed \/ stt.up = {})
  /\ stt.removed ~> stt.pc = "ended"
===============================================================================
