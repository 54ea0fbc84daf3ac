----------------------------- MODULE CallLifecycle -----------------------------
(***************************************************************************)
(* The life of a call in core/AriControllerServer.ts, from StasisStart to  *)
(* the end of its session: setting it up takes many awaits, during which   *)
(* the caller may hang up and other calls come and go.  With it the        *)
(* session map (core/CallSession.ts), the row in the call history          *)
(* (core/CallHistory.ts), the dialled parties, and the Rust RTP server of  *)
(* RtpRouting.  Campaign calls are set up in the same steps.               *)
(*                                                                         *)
(* A source of RTP is named for the call whose ExternalMedia channel sends *)
(* from it, a dialled party for the call that dialled it.                  *)
(***************************************************************************)
EXTENDS RtpRouting, Integers, Sequences, SequencesExt

CONSTANTS
  MaxDrops,    (* bound: how often the ARI WebSocket breaks                  *)
  Diallers,    (* bound: the calls that may dial somebody                    *)
  Operated,    (* bound: the calls the dashboard may hang up                 *)
  Stoppable,   (* bound: the calls that may be in the map when the program   *)
               (* is told to stop                                            *)
  Faulty       (* bound: the calls whose requests may fail, or whose callers *)
               (* give up before they are answered                           *)

ASSUME LifecycleAssumption ==
  /\ Sources = Sessions
  /\ MaxDrops \in Nat /\ Stoppable \subseteq Sessions
  /\ Diallers \subseteq Sessions /\ Operated \subseteq Sessions /\ Faulty \subseteq Sessions

VARIABLES
  step,         (* the await its setup is at                                 *)
  caller,       (* Asterisk: the incoming channel                            *)
  ends,         (* Asterisk: incoming channels whose StasisEnd is on its way *)
  tracked,      (* the session map, in order of insertion                    *)
  status,       (* pending, active or ended                                  *)
  outgoing,     (* outgoingChannel, by the call that dialled it              *)
  ending,       (* sessions endSession() hangs up                            *)
  history,      (* the status in the row of the call                         *)
  deletes,      (* requests to delete a Rust session on their way            *)
  media,        (* Asterisk: the ExternalMedia channel                       *)
  leg,          (* Asterisk: the party a call dialled; it rings as a contact *)
                (* of initiateOutgoingCall() or the trunk of                 *)
                (* transferToDestination()                                   *)
  bridged,      (* Asterisk: the session in whose bridge a dialled party is  *)
  legEnds,      (* Asterisk: dialled parties whose StasisEnd is on its way   *)
  ariUp,        (* the ARI WebSocket is connected                            *)
  drops,        (* how often it was not                                      *)
  reconciling,  (* the sessions reconcileSessions() looks at                 *)
  closing,      (* close() has begun                                         *)
  early,        (* calls whose StasisEnd came, or was lost, before there was *)
                (* a session to end                                          *)
  mishaps       (* calls for which a clean-up failed, or that were there     *)
                (* when the program went down                                *)

setup    == <<step, history>>
map      == <<tracked, status, outgoing, ending>>
parties  == <<leg, bridged, legEnds>>
ari      == <<ariUp, drops, reconciling, closing>>
noted    == <<early, mishaps>>
vars     == <<setup, caller, ends, map, deletes, media, parties, ari, noted, rtpVars>>

Steps == {"none", "entering", "media", "creating", "configuring", "talking",
          "failed", "lost"}

Ringing == {"contact", "trunk"}
Legs    == Ringing \cup {"none", "answering", "up", "gone"}

CallsTypeOK ==
  /\ RtpTypeOK
  /\ step \in [Sessions -> Steps]
  /\ caller \in [Sessions -> {"none", "up", "gone"}]
  /\ ends \in SUBSET Sessions /\ legEnds \in SUBSET Sessions
  /\ tracked \in Seq(Sessions) /\ IsInjective(tracked)
  /\ status \in [Sessions -> {"none", "pending", "active", "ended"}]
  /\ outgoing \in [Sessions -> Sessions \cup {NoSession}]
  /\ ending \subseteq ToSet(tracked)
  /\ history \in [Sessions -> {"none", "active", "ended"}]
  /\ deletes \in SUBSET Sessions
  /\ media \in [Sessions -> {"none", "sending", "silent"}]
  /\ leg \in [Sessions -> Legs]
  /\ bridged \in [Sessions -> Sessions \cup {NoSession}]
  /\ ariUp \in BOOLEAN /\ drops \in 0..MaxDrops
  /\ reconciling \in SUBSET Sessions /\ closing \in BOOLEAN
  /\ early \in SUBSET Sessions /\ mishaps \in SUBSET Sessions

Init ==
  /\ RtpInit
  /\ step = [c \in Sessions |-> "none"] /\ history = [c \in Sessions |-> "none"]
  /\ caller = [c \in Sessions |-> "none"] /\ ends = {}
  /\ tracked = <<>> /\ status = [c \in Sessions |-> "none"]
  /\ outgoing = [c \in Sessions |-> NoSession] /\ ending = {}
  /\ deletes = {} /\ media = [c \in Sessions |-> "none"]
  /\ leg = [c \in Sessions |-> "none"]
  /\ bridged = [c \in Sessions |-> NoSession] /\ legEnds = {}
  /\ ariUp = TRUE /\ drops = 0 /\ reconciling = {} /\ closing = FALSE
  /\ early = {} /\ mishaps = {}

IsTracked(c) == c \in ToSet(tracked)

(* The first of the sessions cs in the map: {} if there is none.           *)
FirstTracked(cs) ==
  {tracked[i] : i \in {j \in DOMAIN tracked :
                         tracked[j] \in cs /\ \A k \in 1..(j - 1) : tracked[k] \notin cs}}

-----------------------------------------------------------------------------
(* stasisStart() and handleIncomingCall(), from await to await.            *)

Goes(c, from, to) == step[c] = from /\ step' = [step EXCEPT ![c] = to]

(* A new call enters the application.  Answering the channel and creating  *)
(* the bridge are two awaits with nothing between them that others see;    *)
(* the caller may leave meanwhile, and there is no session yet to end.     *)
StasisStart(c) ==
  /\ ariUp /\ caller[c] = "none"
  /\ Goes(c, "none", "entering")
  /\ caller' = [caller EXCEPT ![c] = "up"]
  /\ UNCHANGED <<history, ends, map, deletes, media, parties, ari, noted, rtpVars>>

(* The process is no more.  Bridges stay, and so do the sessions of a Rust *)
(* server that runs on its own.                                            *)
GoesDown ==
  /\ step' = [c \in Sessions |-> IF step[c] \in {"none", "failed"} THEN step[c] ELSE "lost"]
  /\ tracked' = <<>>
  /\ status' = [c \in Sessions |-> "none"]
  /\ outgoing' = [c \in Sessions |-> NoSession]
  /\ ending' = {} /\ deletes' = {} /\ reconciling' = {}
  /\ mishaps' = mishaps \cup {c \in Sessions : step[c] # "none"}
  /\ UNCHANGED <<media, bridged, legEnds, drops, early, rtpVars>>

(* A party it was answering is answered, and that is all.                  *)
Adrift == [c \in Sessions |-> IF leg[c] = "answering" THEN "up" ELSE leg[c]]

(* It dies and is started again.  The new one finds the history in the     *)
(* database and marks as ended what was active.                            *)
Crash ==
  /\ GoesDown
  /\ history' = [c \in Sessions |-> IF history[c] = "active" THEN "ended" ELSE history[c]]
  /\ closing' = FALSE
  /\ UNCHANGED <<ends, ariUp>>

(* The caller has gone when the request to answer arrives, and nobody      *)
(* catches the rejection of channel.answer().                              *)
AnswerFails(c) ==
  /\ c \in Faulty /\ step[c] = "entering" /\ caller[c] = "up"
  /\ Crash
  /\ caller' = [caller EXCEPT ![c] = "gone"]
  /\ leg' = Adrift

(* createSession() follows.                                                *)
BridgeCreated(c) ==
  /\ Goes(c, "entering", "media")
  /\ tracked' = Append(tracked, c)
  /\ status' = [status EXCEPT ![c] = "pending"]
  /\ UNCHANGED <<history, caller, ends, outgoing, ending, deletes, media, parties, ari,
                 noted, rtpVars>>

BridgeFails(c) ==
  /\ c \in Faulty /\ Goes(c, "entering", "failed")
  /\ UNCHANGED <<history, caller, ends, map, deletes, media, parties, ari, noted, rtpVars>>

(* The ExternalMedia channel is put in the bridge, if there is a session   *)
(* to remember it, and Asterisk begins to send its audio.                  *)
MediaCreated(c) ==
  /\ Goes(c, "media", "creating")
  /\ media' = [media EXCEPT ![c] = IF IsTracked(c) THEN "sending" ELSE "silent"]
  /\ UNCHANGED <<history, caller, ends, map, deletes, parties, ari, noted, rtpVars>>

MediaFails(c) ==
  /\ c \in Faulty /\ Goes(c, "media", "creating")
  /\ UNCHANGED <<history, caller, ends, map, deletes, media, parties, ari, noted, rtpVars>>

RustCreated(c) ==
  /\ Goes(c, "creating", "configuring")
  /\ CreateSession(c)
  /\ UNCHANGED <<history, caller, ends, map, deletes, media, parties, ari, noted>>

RustCreateFails(c) ==
  /\ c \in Faulty /\ Goes(c, "creating", "configuring")
  /\ UNCHANGED <<history, caller, ends, map, deletes, media, parties, ari, noted, rtpVars>>

(* Writing no row for a session that is no longer in the map.              *)
SaveCallTracked(c) ==
  history' = [history EXCEPT ![c] = IF IsTracked(c) THEN "active" ELSE @]

(* INSERT OR REPLACE ... 'active'.                                         *)
SaveCall(c) == history' = [history EXCEPT ![c] = "active"]

(* The assistant and its handlers follow, whatever became of the session.  *)
Configured(c) ==
  /\ Goes(c, "configuring", "talking")
  /\ SaveCall(c)
  /\ ConfigureTts(c)
  /\ UNCHANGED <<caller, ends, map, deletes, media, parties, ari, noted>>

(* No packet within 3 s, no session, or no reply.                          *)
ConfigureFails(c) ==
  /\ Goes(c, "configuring", "talking")
  /\ SaveCall(c)
  /\ UNCHANGED <<caller, ends, map, deletes, media, parties, ari, noted, rtpVars>>

(* The type of assistant is not registered: the setup ends before there is *)
(* a row, and stasisStart() catches that.                                  *)
AssistantFails(c) ==
  /\ c \in Faulty /\ Goes(c, "configuring", "failed")
  /\ ConfigureTts(c) \/ UNCHANGED rtpVars
  /\ UNCHANGED <<history, caller, ends, map, deletes, media, parties, ari, noted>>

(* A timer of the assistant speaks and rejects, and nobody waits for it.   *)
BrainDies(c) ==
  /\ c \in Faulty /\ step[c] = "talking" /\ IsTracked(c)
  /\ Crash
  /\ leg' = Adrift
  /\ UNCHANGED caller

SetupStep(c) ==
  \/ AnswerFails(c) \/ BridgeCreated(c) \/ BridgeFails(c)
  \/ MediaCreated(c) \/ MediaFails(c) \/ RustCreated(c) \/ RustCreateFails(c)
  \/ Configured(c) \/ ConfigureFails(c) \/ AssistantFails(c) \/ BrainDies(c)

-----------------------------------------------------------------------------
(* The end of a call.                                                      *)

HangUp(c) ==
  /\ caller[c] = "up"
  /\ caller' = [caller EXCEPT ![c] = "gone"]
  /\ ends' = ends \cup {c}
  /\ UNCHANGED <<setup, map, deletes, media, parties, ari, noted, rtpVars>>

(* endCall(), if there is a row, and endSession() up to its first await,   *)
(* for the sessions cs.                                                    *)
EndRows(cs) ==
  /\ status' = [c \in Sessions |-> IF c \in cs THEN "ended" ELSE status[c]]
  /\ ending' = ending \cup cs
  /\ history' = [c \in Sessions |->
                   IF c \in cs /\ history[c] = "active" THEN "ended" ELSE history[c]]

(* What stasisEnd() and reconcileSessions() do: the Rust session goes too. *)
EndCalls(cs) ==
  /\ EndRows(cs)
  /\ deletes' = deletes \cup cs

(* Ending a session that may not be in the map.                            *)
StasisEndUnchecked(c) ==
  /\ ariUp /\ c \in ends
  /\ ends' = ends \ {c}
  /\ EndCalls({c})
  /\ UNCHANGED <<step, caller, tracked, outgoing, media, parties, ari, noted, rtpVars>>

StasisEnd(c) ==
  /\ ariUp /\ c \in ends
  /\ ends' = ends \ {c}
  /\ IF IsTracked(c)
     THEN EndCalls({c}) /\ UNCHANGED early
     ELSE /\ early' = early \cup ({c} \ {d \in Sessions : status[d] # "none"})
          /\ UNCHANGED <<status, ending, history, deletes>>
  /\ UNCHANGED <<step, caller, tracked, outgoing, media, parties, ari, mishaps, rtpVars>>

(* The dashboard hangs up a call it lists as active: the same, before      *)
(* anybody has left.                                                       *)
DashboardHangUp(c) ==
  /\ c \in Operated /\ history[c] = "active" /\ IsTracked(c)
  /\ EndCalls({c})
  /\ UNCHANGED <<step, caller, ends, tracked, outgoing, media, parties, ari, noted, rtpVars>>

(* The session that has the dialled party as its outgoing channel ends.    *)
LegStasisEnd(c) ==
  /\ ariUp /\ c \in legEnds
  /\ legEnds' = legEnds \ {c}
  /\ EndCalls(FirstTracked({t \in Sessions : outgoing[t] = c}))
  /\ UNCHANGED <<step, caller, ends, tracked, outgoing, media, leg, bridged, ari, noted, rtpVars>>

(* endSession(): both channels are hung up, the bridge is destroyed and    *)
(* the session forgotten.  Its three awaits are one step here: the session *)
(* is in the map until the last.                                           *)
EndSession(s) ==
  LET legsUp == {l \in Sessions : outgoing[s] = l /\ leg[l] \in {"answering", "up"}}
  IN  /\ s \in ending
      /\ ending' = ending \ {s}
      /\ \E i \in DOMAIN tracked : tracked[i] = s /\ tracked' = RemoveAt(tracked, i)
      /\ caller' = [caller EXCEPT ![s] = "gone"]
      /\ ends' = IF caller[s] = "up" THEN ends \cup {s} ELSE ends
      /\ leg' = [l \in Sessions |-> IF l \in legsUp THEN "gone" ELSE leg[l]]
      /\ legEnds' = legEnds \cup legsUp
      /\ bridged' = [l \in Sessions |->
                       IF l \in legsUp \/ bridged[l] = s THEN NoSession ELSE bridged[l]]
      /\ outgoing' = [outgoing EXCEPT ![s] = NoSession]
      /\ UNCHANGED <<setup, status, deletes, media, ari, noted, rtpVars>>

DeleteServed(s) ==
  /\ s \in deletes
  /\ deletes' = deletes \ {s}
  /\ RemoveSession(s)
  /\ UNCHANGED <<setup, caller, ends, map, media, parties, ari, noted>>

DeleteFails(s) ==
  /\ s \in Faulty /\ s \in deletes
  /\ deletes' = deletes \ {s}
  /\ mishaps' = mishaps \cup {s}
  /\ UNCHANGED <<setup, caller, ends, map, media, parties, ari, early, rtpVars>>

EndStep(c) == StasisEnd(c) \/ LegStasisEnd(c) \/ EndSession(c)

-----------------------------------------------------------------------------
(* Dialling somebody else.                                                 *)

(* The assistant of a call has matched a contact, or transfers: after      *)
(* matching, the Rust session is deleted.                                  *)
Dial(c) ==
  /\ c \in Diallers /\ leg[c] = "none"
  /\ step[c] = "talking" /\ IsTracked(c) /\ status[c] # "ended"
  /\ \E how \in Ringing :
       /\ leg' = [leg EXCEPT ![c] = how]
       /\ deletes' = IF how = "contact" THEN deletes \cup {c} ELSE deletes
  /\ UNCHANGED <<setup, caller, ends, map, media, bridged, legEnds, ari, noted, rtpVars>>

LegFails(c) ==
  /\ leg[c] \in Ringing
  /\ leg' = [leg EXCEPT ![c] = "gone"]
  /\ UNCHANGED <<setup, caller, ends, map, deletes, media, bridged, legEnds, ari, noted, rtpVars>>

(* StasisStart of the dialled party: its own listener, which the reply to  *)
(* the originate request adds, runs at once if it is there by then;        *)
(* stasisStart() waits for answer().                                       *)
LegStasisStart(c) ==
  /\ ariUp /\ leg[c] \in Ringing
  /\ leg' = [leg EXCEPT ![c] = "answering"]
  /\ \/ /\ IsTracked(c)
        /\ outgoing' = [outgoing EXCEPT ![c] = c]
        /\ status' = [status EXCEPT ![c] = "active"]
        /\ bridged' = [bridged EXCEPT ![c] = IF leg[c] = "trunk" THEN c ELSE @]
     \/ UNCHANGED <<outgoing, status, bridged>>
  /\ UNCHANGED <<setup, caller, ends, tracked, ending, deletes, media, legEnds, ari, noted,
                 rtpVars>>

(* findSessionForOutgoingChannel(): the first pending session gets it.     *)
LegAnswered(c) ==
  /\ leg[c] = "answering"
  /\ leg' = [leg EXCEPT ![c] = "up"]
  /\ LET first == FirstTracked({t \in Sessions : status[t] = "pending"})
     IN  \/ \E s \in first :
              /\ outgoing' = [outgoing EXCEPT ![s] = c]
              /\ status' = [status EXCEPT ![s] = "active"]
              /\ bridged' = [bridged EXCEPT ![c] = s]
         \/ first = {} /\ UNCHANGED <<outgoing, status, bridged>>
  /\ UNCHANGED <<setup, caller, ends, tracked, ending, deletes, media, legEnds, ari, noted,
                 rtpVars>>

LegAnswerFails(c) ==
  /\ leg[c] = "answering"
  /\ Crash
  /\ leg' = [Adrift EXCEPT ![c] = "gone"]
  /\ UNCHANGED caller

LegHangUp(c) ==
  /\ leg[c] = "up"
  /\ leg' = [leg EXCEPT ![c] = "gone"]
  /\ bridged' = [bridged EXCEPT ![c] = NoSession]
  /\ legEnds' = legEnds \cup {c}
  /\ UNCHANGED <<setup, caller, ends, map, deletes, media, ari, noted, rtpVars>>

LegStep(c) ==
  \/ Dial(c) \/ LegFails(c) \/ LegStasisStart(c) \/ LegAnswered(c) \/ LegAnswerFails(c)
  \/ LegHangUp(c)

-----------------------------------------------------------------------------
(* The ARI WebSocket.                                                      *)

AriDrops ==
  /\ ariUp /\ drops < MaxDrops
  /\ ariUp' = FALSE
  /\ drops' = drops + 1
  /\ UNCHANGED <<setup, caller, ends, map, deletes, media, parties, reconciling, closing, noted,
                 rtpVars>>

EventsLost ==
  /\ ~ariUp /\ ends \cup legEnds # {}
  /\ ends' = {} /\ legEnds' = {}
  /\ early' = early \cup {c \in ends : status[c] = "none"}
  /\ UNCHANGED <<setup, caller, map, deletes, media, leg, bridged, ari, mishaps, rtpVars>>

(* connectARI() and the start of reconcileSessions(); close() stops the    *)
(* timer.                                                                  *)
Reconnect ==
  /\ ~ariUp /\ ~closing
  /\ ariUp' = TRUE
  /\ reconciling' = ToSet(tracked)
  /\ UNCHANGED <<setup, caller, ends, map, deletes, media, parties, drops, closing, noted,
                 rtpVars>>

Gone(c) == IsTracked(c) /\ caller[c] = "gone"

(* Looking only at calls that are in the history.                          *)
StaleSaved == {c \in reconciling : Gone(c) /\ history[c] = "active"}

(* The sessions whose incoming channel is not in the list.                 *)
Stale == {c \in reconciling : Gone(c)}

(* The list of live channels arrives.                                      *)
Reconcile ==
  /\ reconciling # {}
  /\ reconciling' = {}
  /\ EndCalls(Stale)
  /\ UNCHANGED <<step, caller, ends, tracked, outgoing, media, parties, ariUp, drops, closing,
                 noted, rtpVars>>

ReconcileFails ==
  /\ reconciling # {}
  /\ reconciling' = {}
  /\ mishaps' = mishaps \cup reconciling
  /\ UNCHANGED <<setup, caller, ends, map, deletes, media, parties, ariUp, drops, closing, early,
                 rtpVars>>

-----------------------------------------------------------------------------
(* SIGTERM, SIGINT or the end of the dashboard's server: Engine.stop().    *)

(* close() ends every row and every session and asks for no Rust session   *)
(* to be deleted.  The ARI client stays connected, so that events are      *)
(* handled while the channels are being hung up.                           *)
Close ==
  /\ tracked # <<>> /\ ToSet(tracked) \subseteq Stoppable /\ ~closing
  /\ closing' = TRUE
  /\ EndRows(ToSet(tracked))
  /\ mishaps' = mishaps \cup ToSet(tracked)
  /\ UNCHANGED <<step, caller, ends, tracked, outgoing, deletes, media, parties, ariUp, drops,
                 reconciling, early, rtpVars>>

(* All sessions have ended, or somebody has lost patience.  The program is *)
(* not started again: Crash shows what it would find.                      *)
Exit ==
  /\ closing
  /\ GoesDown
  /\ ariUp' = FALSE
  /\ leg' = Adrift
  /\ UNCHANGED <<history, caller, ends, closing>>

-----------------------------------------------------------------------------
(* Audio arrives as long as there is a bridge with the caller in it, and a *)
(* little longer.                                                          *)
Audio(c) ==
  /\ media[c] = "sending"
  /\ Packet(c)
  /\ UNCHANGED <<setup, caller, ends, map, deletes, media, parties, ari, noted>>

Silence(c) ==
  /\ media[c] = "sending" /\ ~IsTracked(c) /\ caller[c] = "gone"
  /\ media' = [media EXCEPT ![c] = "silent"]
  /\ UNCHANGED <<setup, caller, ends, map, deletes, parties, ari, noted, rtpVars>>

BindingsRemoved(s) ==
  /\ RemoveBindings(s)
  /\ UNCHANGED <<setup, caller, ends, map, deletes, media, parties, ari, noted>>

-----------------------------------------------------------------------------
Next ==
  \/ \E c \in Sessions :
       \/ StasisStart(c) \/ SetupStep(c) \/ HangUp(c) \/ DashboardHangUp(c) \/ EndStep(c)
       \/ DeleteServed(c) \/ DeleteFails(c) \/ BindingsRemoved(c)
       \/ LegStep(c) \/ Audio(c) \/ Silence(c)
  \/ AriDrops \/ EventsLost \/ Reconnect \/ Reconcile \/ ReconcileFails
  \/ Close \/ Exit

Spec == Init /\ [][Next]_vars

(* Asterisk replies or the request fails, events arrive, and the reconnect *)
(* timer fires unless the program stops, as it does in the end when it is  *)
(* told to.                                                                *)
FairSpec ==
  /\ Spec
  /\ \A c \in Sessions : WF_vars(EndStep(c))
  /\ WF_vars(EventsLost \/ Reconnect \/ Exit) /\ WF_vars(Reconcile \/ ReconcileFails)

-----------------------------------------------------------------------------
(* Everything about the call is over but what nobody will ever clean up.   *)
AtRest(c) ==
  /\ caller[c] = "gone" /\ c \notin ends
  /\ step[c] \in {"talking", "failed", "lost"}
  /\ ~IsTracked(c) /\ c \notin deletes

(* A Rust session that outlives its call, because the clean-up came before *)
(* it was created, is not hidden behind a row that says the call has       *)
(* ended: the row is still "active", where the next start of the program   *)
(* finds it.  But for the calls whose clean-up failed or that were there   *)
(* when the program crashed or was stopped, and those whose setup ended    *)
(* without a row.                                                          *)
LeaksAreVisible ==
  \A c \in Sessions :
    AtRest(c) /\ c \in sessions =>
      history[c] = "active" \/ c \in mishaps \/ step[c] = "failed"

(* "isolated bridge, channels, and transcription" (core/CallSession.ts):   *)
(* a session hears the audio of its own call.                              *)
AudioIsolated ==
  \A a \in Sources : source_to_session[a] \in {a, NoSession}

(* "Clean up Rust RTP session" (stasisEnd): the Rust session of a call     *)
(* that is over is deleted, if no request or event fails.                  *)
RustSessionDeleted ==
  \A c \in Sessions : AtRest(c) => c \notin sessions \/ c \in mishaps

(* "Outgoing channel (dialed party) - find its session and add to bridge"  *)
(* (stasisStart): a dialled party is in the bridge of the call that        *)
(* dialled it.                                                             *)
DialledJoinsItsCaller ==
  \A c \in Sessions : leg[c] = "up" /\ IsTracked(c) => bridged[c] = c

(* A session whose caller has hung up leaves the map, though the event may *)
(* be lost with the WebSocket, unless the event came before the session.   *)
CallerGoneIsCleaned ==
  \A c \in Sessions :
    Gone(c) ~> ~IsTracked(c) \/ c \in early \cup mishaps
===============================================================================
