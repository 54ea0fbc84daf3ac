------------------------------- MODULE TtsPlayer -------------------------------
(***************************************************************************)
(* What the Rust RTP server promises the controller about the audio of one *)
(* session: an utterance is handed over, declared complete, and from then  *)
(* on, played or cancelled, reported once it is over, unless the client    *)
(* has given it up before.  SpeechQueue is built on these actions, and     *)
(* TtsInjector, the task that plays the audio, implements them.            *)
(***************************************************************************)
EXTENDS FiniteSets

CONSTANTS Utterances, None

VARIABLES
  rust,       (* what became of each utterance                               *)
  notices     (* the utterances named in events on their way to Node that    *)
              (* Node has not given up                                       *)

playerVars == <<rust, notices>>

(* "audio": handed over and not declared complete; "done": complete;       *)
(* "cut", "silent": the same after a cancel dropped what was left of it;   *)
(* "orphan": given up, so that whether it is ever declared complete or     *)
(* reported is of no account; "over": nothing more comes.                  *)
RustStates == {"none", "audio", "done", "cut", "silent", "orphan", "over"}

PlayerInit ==
  /\ rust = [u \in Utterances |-> "none"]
  /\ notices = {}

(* The request with the audio is answered.                                 *)
TakeAudio(u) ==
  /\ rust[u] = "none"
  /\ rust' = [rust EXCEPT ![u] = "audio"]
  /\ UNCHANGED notices

(* The "done" request is answered.                                         *)
TakeDone(u) ==
  /\ rust[u] \in {"audio", "cut"}
  /\ rust' = [rust EXCEPT ![u] = IF @ = "audio" THEN "done" ELSE "silent"]
  /\ UNCHANGED notices

(* The client goes on without it: a request failed, or its time was up.    *)
(* What Rust still has of it, it plays.                                    *)
GiveUp(u) ==
  /\ \/ rust[u] \in {"audio", "done"} /\ rust' = [rust EXCEPT ![u] = "orphan"]
     \/ rust[u] \in {"audio", "cut", "done", "silent"} /\ rust' = [rust EXCEPT ![u] = "over"]
  /\ UNCHANGED notices

(* All that is left of the utterances us has been played.                  *)
Played(us) ==
  /\ us # {} /\ \A u \in us : rust[u] \in {"done", "silent", "orphan"}
  /\ rust' = [u \in Utterances |-> IF u \in us THEN "over" ELSE rust[u]]
  /\ notices' = notices \cup {u \in us : rust[u] # "orphan"}

(* A cancel drops what it finds, which may be less than what was handed    *)
(* over, and reports the utterance last declared complete, if any.         *)
Cancel ==
  \E hit \in SUBSET {u \in Utterances : rust[u] \in {"audio", "done", "orphan"}} :
    \E id \in {None} \cup {u \in Utterances : rust[u] = "over"}
                     \cup {u \in hit : rust[u] = "done"} :
      /\ rust' = [u \in Utterances |->
                    CASE u = id \/ (u \in hit /\ rust[u] = "orphan") -> "over"
                      [] u # id /\ u \in hit /\ rust[u] = "audio"    -> "cut"
                      [] u # id /\ u \in hit /\ rust[u] = "done"     -> "silent"
                      [] OTHER                                       -> rust[u]]
      /\ notices' = notices \cup ({id} \ {None})

(* An event reaches Node, or is lost with the WebSocket that carries it.   *)
Deliver(us) ==
  /\ us # {} /\ us \subseteq notices
  /\ notices' = notices \ us
  /\ UNCHANGED rust

(* The session is removed, and what it has left to play with it.           *)
Remove ==
  /\ rust' = [u \in Utterances |-> IF rust[u] = "none" THEN "none" ELSE "over"]
  /\ UNCHANGED notices

PlayerNext ==
  \/ \E u \in Utterances : TakeAudio(u) \/ TakeDone(u) \/ GiveUp(u)
  \/ \E us \in SUBSET Utterances : Played(us) \/ Deliver(us)
  \/ Cancel \/ Remove

PlayerSpec == PlayerInit /\ [][PlayerNext]_playerVars
===============================================================================
