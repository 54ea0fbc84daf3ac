------------------------------- MODULE RtpRouting -------------------------------
(***************************************************************************)
(* How the Rust RTP server finds the session an audio packet belongs to:   *)
(* the session manager of rust-rtp-server/src/session.rs, the UDP listener *)
(* of rtp/listener.rs, and the HTTP handlers of api.rs around them.  No    *)
(* request names the address the audio of a session will come from: the    *)
(* first packet of an unknown source binds it to some unbound session.     *)
(*                                                                         *)
(* Handlers run on many threads.  A step is one that the locks of the maps *)
(* make atomic: assign_unbound_session holds the entry of the session it   *)
(* found while it binds it, remove_session removes the session first and   *)
(* its bindings after.                                                     *)
(***************************************************************************)
EXTENDS FiniteSets

CONSTANTS
  Sessions,   (* the ids sessions are created with                           *)
  Sources,    (* the socket addresses RTP comes from                         *)
  NoSession,  (* no entry in a map                                           *)
  NoSource

ASSUME RoutingAssumption == NoSession \notin Sessions /\ NoSource \notin Sources

VARIABLES
  sessions,           (* the sessions that exist                             *)
  removing,           (* removed, their bindings not yet                     *)
  source_to_session,  (* the session a source is bound to, or NoSession      *)
  tts_target_addr     (* where a session's TTS audio is sent, or NoSource    *)

rtpVars == <<sessions, removing, source_to_session, tts_target_addr>>

RtpTypeOK ==
  /\ sessions \in SUBSET Sessions
  /\ removing \in SUBSET Sessions
  /\ source_to_session \in [Sources -> Sessions \cup {NoSession}]
  /\ tts_target_addr \in [Sessions -> Sources \cup {NoSource}]

RtpInit ==
  /\ sessions = {} /\ removing = {}
  /\ source_to_session = [a \in Sources |-> NoSession]
  /\ tts_target_addr = [s \in Sessions |-> NoSource]

-----------------------------------------------------------------------------
BoundIds == {source_to_session[a] : a \in Sources} \ {NoSession}

(* POST /sessions; session ids are used once.                              *)
CreateSession(s) ==
  /\ s \notin sessions \cup removing \cup BoundIds
  /\ sessions' = sessions \cup {s}
  /\ tts_target_addr' = [tts_target_addr EXCEPT ![s] = NoSource]
  /\ UNCHANGED <<removing, source_to_session>>

(* DELETE /sessions/:id.  An unknown session is reported and that is all.  *)
RemoveSession(s) ==
  IF s \in sessions
  THEN /\ sessions' = sessions \ {s}
       /\ removing' = removing \cup {s}
       /\ tts_target_addr' = [tts_target_addr EXCEPT ![s] = NoSource]
       /\ UNCHANGED source_to_session
  ELSE UNCHANGED rtpVars

(* Bindings that outlive their session.                                    *)
RemoveBindingsNone(s) ==
  /\ s \in removing
  /\ removing' = removing \ {s}
  /\ UNCHANGED <<sessions, source_to_session, tts_target_addr>>

RemoveBindings(s) ==
  /\ s \in removing
  /\ removing' = removing \ {s}
  /\ source_to_session' =
       [a \in Sources |-> IF source_to_session[a] = s THEN NoSession ELSE source_to_session[a]]
  /\ UNCHANGED <<sessions, tts_target_addr>>

(* Taking a session that has a source already.                             *)
AssignAnySession(a) ==
  \E s \in sessions : source_to_session' = [source_to_session EXCEPT ![a] = s]

(* assign_unbound_session(): any session without a source, in the order in *)
(* which the map happens to keep them.                                     *)
AssignUnboundSession(a) ==
  \E s \in sessions \ BoundIds : source_to_session' = [source_to_session EXCEPT ![a] = s]

(* A packet from a.  The packets of a bound source change nothing here,    *)
(* even when its session has just gone: they are dropped, the source is    *)
(* not looked at again.                                                    *)
Packet(a) ==
  /\ \/ /\ source_to_session[a] = NoSession
        /\ AssignUnboundSession(a)
     \/ /\ source_to_session[a] # NoSession \/ sessions \subseteq BoundIds
        /\ UNCHANGED source_to_session
  /\ UNCHANGED <<sessions, removing, tts_target_addr>>

(* Sending to an address some session is heard from.                       *)
ConfigureTtsAny(s) ==
  /\ s \in sessions
  /\ \E a \in Sources :
       /\ source_to_session[a] # NoSession
       /\ tts_target_addr' = [tts_target_addr EXCEPT ![s] = IF @ = NoSource THEN a ELSE @]
  /\ UNCHANGED <<sessions, removing, source_to_session>>

(* POST /sessions/:id/configure-tts finds the session's source, at once or *)
(* polling for 3 s, and the session is still there.  The target is set     *)
(* once.                                                                   *)
ConfigureTts(s) ==
  /\ s \in sessions
  /\ \E a \in Sources :
       /\ source_to_session[a] = s
       /\ tts_target_addr' = [tts_target_addr EXCEPT ![s] = IF @ = NoSource THEN a ELSE @]
  /\ UNCHANGED <<sessions, removing, source_to_session>>

-----------------------------------------------------------------------------
RtpNext ==
  \/ \E s \in Sessions :
       CreateSession(s) \/ RemoveSession(s) \/ RemoveBindings(s) \/ ConfigureTts(s)
  \/ \E a \in Sources : Packet(a)

RtpSpec == RtpInit /\ [][RtpNext]_rtpVars

-----------------------------------------------------------------------------
(* No session hears two sources: two parties' audio is never mixed into    *)
(* one transcription.                                                      *)
OneSourcePerSession ==
  \A a, b \in Sources :
    source_to_session[a] = source_to_session[b] /\ source_to_session[a] # NoSession => a = b

(* A binding that survived its session would swallow the audio of the next *)
(* call from the same address: bindings are of sessions that exist, or are *)
(* about to be dropped.                                                    *)
BindingsAlive == BoundIds \subseteq sessions \cup removing

(* The bot's voice goes to the party whose voice the session hears.        *)
SpeaksToWhoItHears ==
  \A s \in sessions :
    tts_target_addr[s] # NoSource => source_to_session[tts_target_addr[s]] = s

(* A source stays with the session it was bound to as long as that exists. *)
BindingIsStable ==
  [][\A a \in Sources :
       source_to_session[a] \in sessions \cap sessions' =>
         source_to_session'[a] = source_to_session[a]]_rtpVars
===============================================================================
