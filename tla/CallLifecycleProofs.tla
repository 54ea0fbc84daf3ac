-------------------------- MODULE CallLifecycleProofs --------------------------
(***************************************************************************)
(* What is proved of any number of calls.                                  *)
(*                                                                         *)
(* First of the RTP server alone: the routing invariants of RtpRouting     *)
(* hold for any number of sessions and sources.  RInv is inductive as it   *)
(* stands: that a session is bound only once needs that bindings are       *)
(* looked at when one is made, that the TTS target stays the session's     *)
(* source needs that bindings of a session only go when the session has    *)
(* gone.                                                                   *)
(*                                                                         *)
(* Then of the calls: every step of a call is a step of RtpRouting or      *)
(* leaves it alone, so all this holds however calls are set up, dial, end, *)
(* crash or lose events; the variables keep their types; and a Rust        *)
(* session that nobody will delete is never hidden.                        *)
(***************************************************************************)
EXTENDS CallLifecycle, SequenceTheorems, TLAPS

RInv == /\ RtpTypeOK
        /\ OneSourcePerSession
        /\ BindingsAlive
        /\ SpeaksToWhoItHears
        /\ sessions \cap removing = {}

LEMMA RInvInit == RtpInit => RInv
  BY RoutingAssumption DEF RtpInit, RInv, RtpTypeOK, OneSourcePerSession, BindingsAlive,
     SpeaksToWhoItHears, BoundIds

(* A bound source is in the domain of the map and names a session.         *)
LEMMA RInvStep == RInv /\ [RtpNext]_rtpVars => RInv'
<1> SUFFICES ASSUME RInv, [RtpNext]_rtpVars PROVE RInv'
  OBVIOUS
<1> USE RoutingAssumption DEF RInv, RtpTypeOK, OneSourcePerSession, BindingsAlive,
        SpeaksToWhoItHears, BoundIds
<1>1. ASSUME NEW s \in Sessions, CreateSession(s) PROVE RInv'
  BY <1>1 DEF CreateSession
<1>2. ASSUME NEW s \in Sessions, RemoveSession(s) PROVE RInv'
  BY <1>2 DEF RemoveSession, rtpVars
<1>3. ASSUME NEW s \in Sessions, RemoveBindings(s) PROVE RInv'
  BY <1>3 DEF RemoveBindings
<1>4. ASSUME NEW s \in Sessions, ConfigureTts(s) PROVE RInv'
  BY <1>4 DEF ConfigureTts
<1>5. ASSUME NEW a \in Sources, Packet(a) PROVE RInv'
  <2>1. CASE source_to_session[a] = NoSession /\ AssignUnboundSession(a)
    BY <1>5, <2>1 DEF Packet, AssignUnboundSession
  <2>2. CASE UNCHANGED source_to_session
    BY <1>5, <2>2 DEF Packet, AssignUnboundSession
  <2> QED
    BY <1>5, <2>1, <2>2 DEF Packet
<1>6. CASE UNCHANGED rtpVars
  BY <1>6 DEF rtpVars
<1> QED
  BY <1>1, <1>2, <1>3, <1>4, <1>5, <1>6 DEF RtpNext

(* The maps of the Rust server fit together, whatever packets and requests *)
(* come (session.rs: SessionManager).                                      *)
THEOREM RoutingInvariant == RtpSpec => []RInv
  BY RInvInit, RInvStep, PTL DEF RtpSpec

(* OneSourcePerSession: no session ever hears two sources, whatever the    *)
(* order of requests and packets.                                          *)
THEOREM OneSource == RtpSpec => []OneSourcePerSession
<1>1. RInv => OneSourcePerSession
  BY DEF RInv
<1> QED
  BY RoutingInvariant, <1>1, PTL

(* BindingsAlive: a binding outlives its session only until                *)
(* remove_session() has dropped it.                                        *)
THEOREM BindingsLive == RtpSpec => []BindingsAlive
<1>1. RInv => BindingsAlive
  BY DEF RInv
<1> QED
  BY RoutingInvariant, <1>1, PTL

(* SpeaksToWhoItHears: TTS audio is sent to the address the session hears. *)
THEOREM VoiceGoesBack == RtpSpec => []SpeaksToWhoItHears
<1>1. RInv => SpeaksToWhoItHears
  BY DEF RInv
<1> QED
  BY RoutingInvariant, <1>1, PTL

(* A step never takes a source from a session that exists: only the        *)
(* bindings of removed sessions are dropped, and a packet looks for a      *)
(* session only when its source has none.                                  *)
LEMMA StepKeepsBindings ==
  RInv /\ [RtpNext]_rtpVars =>
    \A a \in Sources :
      source_to_session[a] \in sessions \cap sessions' =>
        source_to_session'[a] = source_to_session[a]
<1> SUFFICES ASSUME RInv, [RtpNext]_rtpVars,
                    NEW a \in Sources, source_to_session[a] \in sessions \cap sessions'
             PROVE  source_to_session'[a] = source_to_session[a]
  OBVIOUS
<1> USE RoutingAssumption DEF RInv, RtpTypeOK
<1>1. ASSUME NEW s \in Sessions, RemoveBindings(s)
      PROVE  source_to_session'[a] = source_to_session[a]
  BY <1>1 DEF RemoveBindings
<1>2. ASSUME NEW b \in Sources, Packet(b)
      PROVE  source_to_session'[a] = source_to_session[a]
  BY <1>2 DEF Packet, AssignUnboundSession
<1>3. ASSUME NEW s \in Sessions, CreateSession(s) \/ RemoveSession(s) \/ ConfigureTts(s)
      PROVE  source_to_session' = source_to_session
  BY <1>3 DEF CreateSession, RemoveSession, ConfigureTts, rtpVars
<1>4. CASE UNCHANGED rtpVars
  BY <1>4 DEF rtpVars
<1> QED
  BY <1>1, <1>2, <1>3, <1>4 DEF RtpNext

(* BindingIsStable: a caller's audio is not moved to another session while *)
(* its session lasts.                                                      *)
THEOREM BindingsAreStable == RtpSpec => BindingIsStable
<1>1. RInv /\ [RtpNext]_rtpVars =>
        [\A a \in Sources :
           source_to_session[a] \in sessions \cap sessions' =>
             source_to_session'[a] = source_to_session[a]]_rtpVars
  BY StepKeepsBindings
<1> QED
  BY RoutingInvariant, <1>1, PTL DEF RtpSpec, BindingIsStable

-----------------------------------------------------------------------------
LEMMA CallInit == Init => RtpInit
  BY DEF Init

LEMMA SetupRoutes ==
  ASSUME NEW c \in Sessions, StasisStart(c) \/ SetupStep(c)
  PROVE  [RtpNext]_rtpVars
<1>1. CASE RustCreated(c) \/ Configured(c)
  BY <1>1 DEF RustCreated, Configured, RtpNext
<1>2. CASE AnswerFails(c) \/ BrainDies(c)
  BY <1>2 DEF AnswerFails, BrainDies, Crash, GoesDown
<1>3. CASE StasisStart(c) \/ BridgeCreated(c) \/ BridgeFails(c)
  BY <1>3 DEF StasisStart, BridgeCreated, BridgeFails
<1>4. CASE MediaCreated(c) \/ MediaFails(c) \/ RustCreateFails(c) \/ ConfigureFails(c)
  BY <1>4 DEF MediaCreated, MediaFails, RustCreateFails, ConfigureFails
<1>5. CASE AssistantFails(c)
  BY <1>5 DEF AssistantFails, RtpNext
<1> QED
  BY <1>1, <1>2, <1>3, <1>4, <1>5 DEF SetupStep

LEMMA EndRoutes ==
  ASSUME NEW c \in Sessions,
         HangUp(c) \/ DashboardHangUp(c) \/ EndStep(c) \/ DeleteServed(c) \/ DeleteFails(c)
           \/ BindingsRemoved(c)
  PROVE  [RtpNext]_rtpVars
<1>1. CASE DeleteServed(c)
  BY <1>1 DEF DeleteServed, RtpNext
<1>2. CASE BindingsRemoved(c)
  BY <1>2 DEF BindingsRemoved, RtpNext
<1>3. CASE EndStep(c)
  BY <1>3 DEF EndStep, StasisEnd, LegStasisEnd, EndSession
<1>4. CASE HangUp(c) \/ DashboardHangUp(c) \/ DeleteFails(c)
  BY <1>4 DEF HangUp, DashboardHangUp, DeleteFails
<1> QED
  BY <1>1, <1>2, <1>3, <1>4

LEMMA LegRoutes ==
  ASSUME NEW c \in Sessions, LegStep(c)
  PROVE  UNCHANGED rtpVars
<1>1. CASE LegAnswerFails(c)
  BY <1>1 DEF LegAnswerFails, Crash, GoesDown
<1>2. CASE Dial(c) \/ LegFails(c) \/ LegHangUp(c)
  BY <1>2 DEF Dial, LegFails, LegHangUp
<1>3. CASE LegStasisStart(c) \/ LegAnswered(c)
  BY <1>3 DEF LegStasisStart, LegAnswered
<1> QED
  BY <1>1, <1>2, <1>3 DEF LegStep

LEMMA CallStep == [Next]_vars => [RtpNext]_rtpVars
<1> SUFFICES ASSUME [Next]_vars PROVE [RtpNext]_rtpVars
  OBVIOUS
<1>1. ASSUME NEW c \in Sessions,
             StasisStart(c) \/ SetupStep(c) \/ HangUp(c) \/ DashboardHangUp(c) \/ EndStep(c)
               \/ DeleteServed(c) \/ DeleteFails(c) \/ BindingsRemoved(c) \/ LegStep(c)
      PROVE  [RtpNext]_rtpVars
  BY <1>1, SetupRoutes, EndRoutes, LegRoutes
<1>2. ASSUME NEW c \in Sessions, Audio(c) \/ Silence(c) PROVE [RtpNext]_rtpVars
  <2>1. CASE Audio(c)
    BY <2>1, LifecycleAssumption DEF Audio, RtpNext
  <2>2. CASE Silence(c)
    BY <2>2 DEF Silence
  <2> QED
    BY <1>2, <2>1, <2>2
<1>3. CASE AriDrops \/ EventsLost \/ Reconnect \/ Reconcile \/ ReconcileFails
  BY <1>3 DEF AriDrops, EventsLost, Reconnect, Reconcile, ReconcileFails
<1>4. CASE Close \/ Exit
  BY <1>4 DEF Close, Exit, GoesDown
<1>5. CASE UNCHANGED vars
  BY <1>5 DEF vars
<1> QED
  BY <1>1, <1>2, <1>3, <1>4, <1>5 DEF Next

(* The calls implement RtpRouting.                                         *)
THEOREM CallsRoute == Spec => RtpSpec
  BY CallInit, CallStep, PTL DEF Spec, RtpSpec

(* OneSourcePerSession of any number of calls.                             *)
THEOREM CallsHearOneSource == Spec => []OneSourcePerSession
  BY CallsRoute, OneSource, PTL

(* BindingsAlive of any number of calls.                                   *)
THEOREM CallsLeaveNoBindings == Spec => []BindingsAlive
  BY CallsRoute, BindingsLive, PTL

(* SpeaksToWhoItHears of any number of calls.                              *)
THEOREM CallsSpeakToWhoTheyHear == Spec => []SpeaksToWhoItHears
  BY CallsRoute, VoiceGoesBack, PTL

(* BindingIsStable of any number of calls.                                 *)
THEOREM CallsKeepTheirSource == Spec => BindingIsStable
  BY CallsRoute, BindingsAreStable, PTL

-----------------------------------------------------------------------------
(* A session is added to the map, and one is removed from it.              *)
LEMMA AddsToMap ==
  ASSUME NEW S, NEW q \in Seq(S), IsInjective(q), NEW c \in S, c \notin ToSet(q)
  PROVE  /\ Append(q, c) \in Seq(S)
         /\ IsInjective(Append(q, c))
         /\ ToSet(Append(q, c)) = ToSet(q) \cup {c}
<1> DEFINE r == Append(q, c)
<1>1. r \in Seq(S) /\ DOMAIN r = 1..(Len(q) + 1) /\ DOMAIN q = 1..Len(q) /\ Len(q) \in Nat
  OBVIOUS
<1>2. \A i \in 1..Len(q) : r[i] = q[i]
  OBVIOUS
<1>3. r[Len(q) + 1] = c
  OBVIOUS
<1>4. \A i \in 1..Len(q) : r[i] # c
  BY <1>1, <1>2 DEF ToSet
<1> HIDE DEF r
<1>5. IsInjective(r)
  BY <1>1, <1>2, <1>3, <1>4 DEF IsInjective
<1>6. ToSet(r) = ToSet(q) \cup {c}
  BY <1>1, <1>2, <1>3 DEF ToSet
<1> QED
  BY <1>1, <1>5, <1>6 DEF r

LEMMA RemovesFromMap ==
  ASSUME NEW S, NEW q \in Seq(S), IsInjective(q), NEW i \in DOMAIN q
  PROVE  /\ RemoveAt(q, i) \in Seq(S)
         /\ IsInjective(RemoveAt(q, i))
         /\ ToSet(RemoveAt(q, i)) = ToSet(q) \ {q[i]}
<1> DEFINE r == RemoveAt(q, i)
<1>1. Len(q) \in Nat /\ DOMAIN q = 1..Len(q) /\ i \in 1..Len(q)
  OBVIOUS
<1>2. r \in Seq(S) /\ DOMAIN r = 1..(Len(q) - 1)
  BY <1>1 DEF RemoveAt
<1>3. \A j \in 1..(Len(q) - 1) : r[j] = IF j < i THEN q[j] ELSE q[j + 1]
  <2> DEFINE a == SubSeq(q, 1, i - 1)
             b == SubSeq(q, i + 1, Len(q))
  <2>1. a \in Seq(S) /\ Len(a) = i - 1 /\ \A j \in 1..(i - 1) : a[j] = q[j]
    BY <1>1
  <2>2. b \in Seq(S) /\ Len(b) = Len(q) - i /\ \A j \in 1..(Len(q) - i) : b[j] = q[i + j]
    BY <1>1
  <2>3. r = a \o b
    BY DEF RemoveAt
  <2> HIDE DEF a, b, r
  <2>4. \A j \in 1..(Len(a) + Len(b)) : r[j] = IF j <= Len(a) THEN a[j] ELSE b[j - Len(a)]
    BY <2>1, <2>2, <2>3, ConcatProperties
  <2> SUFFICES ASSUME NEW j \in 1..(Len(q) - 1)
               PROVE  r[j] = IF j < i THEN q[j] ELSE q[j + 1]
    OBVIOUS
  <2>5. r[j] = IF j <= Len(a) THEN a[j] ELSE b[j - Len(a)]
    BY <1>1, <2>1, <2>2, <2>4
  <2>6. CASE j < i
    BY <1>1, <2>1, <2>5, <2>6
  <2>7. CASE ~(j < i)
    <3>1. j - (i - 1) \in 1..(Len(q) - i) /\ i + (j - (i - 1)) = j + 1
      BY <1>1, <2>7
    <3>2. r[j] = b[j - (i - 1)]
      BY <1>1, <2>1, <2>5, <2>7
    <3> QED
      BY <2>2, <2>7, <3>1, <3>2
  <2> QED
    BY <2>6, <2>7
<1> HIDE DEF r
<1>4. IsInjective(r)
  <2> SUFFICES ASSUME NEW j \in 1..(Len(q) - 1), NEW k \in 1..(Len(q) - 1), r[j] = r[k]
               PROVE  j = k
    BY <1>2 DEF IsInjective
  <2> DEFINE At(n) == IF n < i THEN n ELSE n + 1
  <2>1. At(j) \in DOMAIN q /\ At(k) \in DOMAIN q /\ q[At(j)] = q[At(k)]
    BY <1>1, <1>3
  <2>2. At(j) = At(k)
    BY <2>1 DEF IsInjective
  <2> QED
    BY <1>1, <2>2
<1>5. ToSet(r) \subseteq ToSet(q) \ {q[i]}
  <2> SUFFICES ASSUME NEW j \in 1..(Len(q) - 1) PROVE r[j] \in ToSet(q) \ {q[i]}
    BY <1>2 DEF ToSet
  <2>1. CASE j < i
    BY <1>1, <1>3, <2>1 DEF ToSet, IsInjective
  <2>2. CASE ~(j < i)
    BY <1>1, <1>3, <2>2 DEF ToSet, IsInjective
  <2> QED
    BY <2>1, <2>2
<1>6. ToSet(q) \ {q[i]} \subseteq ToSet(r)
  <2> SUFFICES ASSUME NEW j \in 1..Len(q), j # i PROVE q[j] \in ToSet(r)
    BY <1>1 DEF ToSet
  <2>1. CASE j < i
    <3>1. j \in 1..(Len(q) - 1) /\ r[j] = q[j]
      BY <1>1, <1>3, <2>1
    <3> QED
      BY <1>2, <3>1 DEF ToSet
  <2>2. CASE i < j
    <3>1. j - 1 \in 1..(Len(q) - 1) /\ r[j - 1] = q[j]
      BY <1>1, <1>3, <2>2
    <3> QED
      BY <1>2, <3>1 DEF ToSet
  <2> QED
    BY <1>1, <2>1, <2>2
<1> QED
  BY <1>2, <1>4, <1>5, <1>6 DEF r

-----------------------------------------------------------------------------
(* What the steps of a call say of its sessions.  In the map: only from    *)
(* createSession() on, until the program goes down.                        *)
MapFits ==
  \A c \in ToSet(tracked) :
    step[c] \in {"media", "creating", "configuring", "talking", "failed"}

(* In the RTP server: from POST /sessions on.                              *)
RustFits == \A c \in sessions : step[c] \in {"configuring", "talking", "failed", "lost"}

LostIsMishap == \A c \in Sessions : step[c] = "lost" => c \in mishaps

(* While the row of a call that was set up is not active, its Rust session *)
(* is about to be deleted, or the clean-up has failed: stasisEnd() and     *)
(* reconcileSessions() end no row without a request, and the sessions of   *)
(* which close() ends the rows alone are mishaps.                          *)
EndedIsDeleted ==
  \A c \in sessions :
    step[c] = "talking" => history[c] = "active" \/ c \in deletes \cup mishaps

Fits == MapFits /\ RustFits /\ LostIsMishap /\ EndedIsDeleted

LEMMA FirstIsTracked ==
  ASSUME tracked \in Seq(Sessions), NEW cs
  PROVE  FirstTracked(cs) \subseteq cs \cap ToSet(tracked) /\ ToSet(tracked) \subseteq Sessions
  BY DEF FirstTracked, ToSet

LEMMA EndingTypes ==
  ASSUME CallsTypeOK, NEW cs \in SUBSET ToSet(tracked), EndCalls(cs)
  PROVE  /\ status' \in [Sessions -> {"none", "pending", "active", "ended"}]
         /\ ending' \subseteq ToSet(tracked)
         /\ history' \in [Sessions -> {"none", "active", "ended"}]
         /\ deletes' \in SUBSET Sessions
<1>1. ToSet(tracked) \subseteq Sessions
  BY FirstIsTracked DEF CallsTypeOK
<1> QED
  BY <1>1 DEF CallsTypeOK, EndCalls, EndRows

LEMMA DownTypes ==
  ASSUME CallsTypeOK, RtpTypeOK', GoesDown,
         history' \in [Sessions -> {"none", "active", "ended"}],
         caller' \in [Sessions -> {"none", "up", "gone"}],
         leg' \in [Sessions -> Legs],
         ariUp' \in BOOLEAN, closing' \in BOOLEAN,
         UNCHANGED ends
  PROVE  CallsTypeOK'
<1>1. tracked' \in Seq(Sessions) /\ IsInjective(tracked') /\ ending' \subseteq ToSet(tracked')
  BY DEF GoesDown, IsInjective
<1>2. step' \in [Sessions -> Steps]
  BY DEF GoesDown, CallsTypeOK, Steps
<1> QED
  BY <1>1, <1>2 DEF GoesDown, CallsTypeOK

LEMMA CrashTypes ==
  ASSUME CallsTypeOK, RtpTypeOK', Crash,
         caller' \in [Sessions -> {"none", "up", "gone"}],
         leg' \in [Sessions -> Legs]
  PROVE  CallsTypeOK'
<1>1. history' \in [Sessions -> {"none", "active", "ended"}]
  BY DEF Crash, CallsTypeOK
<1>2. ariUp' \in BOOLEAN /\ closing' \in BOOLEAN /\ GoesDown /\ ends' = ends
  BY DEF Crash, CallsTypeOK
<1> QED
  BY <1>1, <1>2, DownTypes

LEMMA AdriftTypes ==
  ASSUME CallsTypeOK
  PROVE  Adrift \in [Sessions -> Legs]
  BY DEF Adrift, CallsTypeOK, Legs, Ringing

LEMMA SetupTypes ==
  ASSUME CallsTypeOK, RtpTypeOK', MapFits, NEW c \in Sessions, StasisStart(c) \/ SetupStep(c)
  PROVE  CallsTypeOK'
<1>1. CASE StasisStart(c)
  BY <1>1 DEF CallsTypeOK, StasisStart, Goes, Steps, map, parties, ari, noted, rtpVars
<1>2. CASE AnswerFails(c) \/ BrainDies(c)
  <2>1. Crash /\ caller' \in [Sessions -> {"none", "up", "gone"}] /\ leg' = Adrift
    BY <1>2 DEF AnswerFails, BrainDies, CallsTypeOK
  <2> QED
    BY <2>1, CrashTypes, AdriftTypes
<1>3. CASE BridgeCreated(c)
  <2>1. c \notin ToSet(tracked)
    BY <1>3 DEF BridgeCreated, Goes, MapFits
  <2>2. /\ tracked' \in Seq(Sessions) /\ IsInjective(tracked')
        /\ ToSet(tracked') = ToSet(tracked) \cup {c}
    BY <1>3, <2>1, AddsToMap DEF BridgeCreated, CallsTypeOK
  <2> QED
    BY <1>3, <2>2 DEF CallsTypeOK, BridgeCreated, Goes, Steps, parties, ari, noted, rtpVars
<1>4. CASE BridgeFails(c) \/ MediaCreated(c) \/ MediaFails(c)
  BY <1>4 DEF CallsTypeOK, BridgeFails, MediaCreated, MediaFails, Goes, Steps, map, parties, ari,
     noted, rtpVars
<1>5. CASE RustCreated(c) \/ RustCreateFails(c)
  <2>1. step' \in [Sessions -> Steps]
    BY <1>5 DEF CallsTypeOK, RustCreated, RustCreateFails, Goes, Steps
  <2> QED
    BY <1>5, <2>1 DEF CallsTypeOK, RustCreated, RustCreateFails, map, parties, ari, noted
<1>6. CASE Configured(c) \/ ConfigureFails(c)
  BY <1>6 DEF CallsTypeOK, Configured, ConfigureFails, SaveCall, Goes, Steps, map, parties, ari,
     noted
<1>7. CASE AssistantFails(c)
  BY <1>7 DEF CallsTypeOK, AssistantFails, Goes, Steps, map, parties, ari, noted
<1> QED
  BY <1>1, <1>2, <1>3, <1>4, <1>5, <1>6, <1>7 DEF SetupStep

LEMMA EndTypes ==
  ASSUME CallsTypeOK, RtpTypeOK', NEW c \in Sessions,
         HangUp(c) \/ DashboardHangUp(c) \/ EndStep(c) \/ DeleteServed(c) \/ DeleteFails(c)
           \/ BindingsRemoved(c)
  PROVE  CallsTypeOK'
<1>1. CASE HangUp(c)
  BY <1>1 DEF CallsTypeOK, HangUp, setup, map, parties, ari, noted
<1>2. CASE DashboardHangUp(c)
  <2>1. {c} \in SUBSET ToSet(tracked) /\ EndCalls({c})
    BY <1>2 DEF DashboardHangUp, IsTracked
  <2> QED
    BY <1>2, <2>1, EndingTypes DEF CallsTypeOK, DashboardHangUp, parties, ari, noted
<1>3. CASE StasisEnd(c)
  <2>1. CASE IsTracked(c)
    <3>1. {c} \in SUBSET ToSet(tracked) /\ EndCalls({c})
      BY <1>3, <2>1 DEF StasisEnd, IsTracked
    <3> QED
      BY <1>3, <2>1, <3>1, EndingTypes DEF CallsTypeOK, StasisEnd, parties, ari
  <2>2. CASE ~IsTracked(c)
    BY <1>3, <2>2 DEF CallsTypeOK, StasisEnd, parties, ari
  <2> QED
    BY <2>1, <2>2
<1>4. CASE LegStasisEnd(c)
  <2> DEFINE cs == FirstTracked({t \in Sessions : outgoing[t] = c})
  <2>1. cs \in SUBSET ToSet(tracked) /\ EndCalls(cs)
    BY <1>4, FirstIsTracked DEF LegStasisEnd, CallsTypeOK
  <2> QED
    BY <1>4, <2>1, EndingTypes DEF CallsTypeOK, LegStasisEnd, ari, noted
<1>5. CASE EndSession(c)
  <2>1. /\ tracked' \in Seq(Sessions) /\ IsInjective(tracked')
        /\ ToSet(tracked') = ToSet(tracked) \ {c}
    BY <1>5, RemovesFromMap DEF EndSession, CallsTypeOK
  <2>2. ending' \subseteq ToSet(tracked')
    BY <1>5, <2>1 DEF EndSession, CallsTypeOK
  <2>3. /\ leg' \in [Sessions -> Legs]
        /\ legEnds' \in SUBSET Sessions
        /\ bridged' \in [Sessions -> Sessions \cup {NoSession}]
    BY <1>5 DEF EndSession, CallsTypeOK, Legs, Ringing
  <2>4. caller' \in [Sessions -> {"none", "up", "gone"}] /\ ends' \in SUBSET Sessions
    BY <1>5 DEF EndSession, CallsTypeOK
  <2> QED
    BY <1>5, <2>1, <2>2, <2>3, <2>4 DEF CallsTypeOK, EndSession, setup, ari, noted
<1>6. CASE DeleteServed(c) \/ DeleteFails(c) \/ BindingsRemoved(c)
  BY <1>6 DEF CallsTypeOK, DeleteServed, DeleteFails, BindingsRemoved, setup, map, parties, ari,
     noted
<1> QED
  BY <1>1, <1>2, <1>3, <1>4, <1>5, <1>6 DEF EndStep

LEMMA LegTypes ==
  ASSUME CallsTypeOK, RtpTypeOK', NEW c \in Sessions, LegStep(c)
  PROVE  CallsTypeOK'
<1>1. CASE Dial(c)
  BY <1>1 DEF CallsTypeOK, Dial, setup, map, ari, noted, Legs, Ringing
<1>2. CASE LegFails(c) \/ LegHangUp(c)
  <2>1. CASE LegFails(c)
    BY <2>1 DEF CallsTypeOK, LegFails, setup, map, ari, noted, Legs, Ringing
  <2>2. CASE LegHangUp(c)
    BY <2>2 DEF CallsTypeOK, LegHangUp, setup, map, ari, noted, Legs, Ringing
  <2> QED
    BY <1>2, <2>1, <2>2
<1>3. CASE LegStasisStart(c)
  BY <1>3 DEF CallsTypeOK, LegStasisStart, setup, ari, noted, Legs, Ringing
<1>4. CASE LegAnswered(c)
  <2> DEFINE first == FirstTracked({t \in Sessions : status[t] = "pending"})
  <2>1. first \subseteq Sessions
    BY FirstIsTracked DEF CallsTypeOK
  <2> HIDE DEF first
  <2>2. /\ outgoing' \in [Sessions -> Sessions \cup {NoSession}]
        /\ status' \in [Sessions -> {"none", "pending", "active", "ended"}]
        /\ bridged' \in [Sessions -> Sessions \cup {NoSession}]
    <3>1. CASE UNCHANGED <<outgoing, status, bridged>>
      BY <3>1 DEF CallsTypeOK
    <3>2. ASSUME NEW s \in first,
                 /\ outgoing' = [outgoing EXCEPT ![s] = c]
                 /\ status' = [status EXCEPT ![s] = "active"]
                 /\ bridged' = [bridged EXCEPT ![c] = s]
          PROVE  <2>2!:
      BY <2>1, <3>2 DEF CallsTypeOK
    <3> QED
      BY <1>4, <3>1, <3>2 DEF LegAnswered, first
  <2> QED
    BY <1>4, <2>2 DEF CallsTypeOK, LegAnswered, setup, ari, noted, Legs, Ringing
<1>5. CASE LegAnswerFails(c)
  <2>1. Crash /\ UNCHANGED caller /\ leg' = [Adrift EXCEPT ![c] = "gone"]
    BY <1>5 DEF LegAnswerFails
  <2> QED
    BY <2>1, CrashTypes, AdriftTypes DEF CallsTypeOK, Legs, Ringing
<1> QED
  BY <1>1, <1>2, <1>3, <1>4, <1>5 DEF LegStep

LEMMA TypeStep == CallsTypeOK /\ RtpTypeOK' /\ MapFits /\ [Next]_vars => CallsTypeOK'
<1> SUFFICES ASSUME CallsTypeOK, RtpTypeOK', MapFits, [Next]_vars PROVE CallsTypeOK'
  OBVIOUS
<1>1. ASSUME NEW c \in Sessions,
             StasisStart(c) \/ SetupStep(c) \/ HangUp(c) \/ DashboardHangUp(c) \/ EndStep(c)
               \/ DeleteServed(c) \/ DeleteFails(c) \/ BindingsRemoved(c) \/ LegStep(c)
      PROVE  CallsTypeOK'
  BY <1>1, SetupTypes, EndTypes, LegTypes
<1>2. ASSUME NEW c \in Sessions, Audio(c) \/ Silence(c) PROVE CallsTypeOK'
  BY <1>2 DEF CallsTypeOK, Audio, Silence, setup, map, parties, ari, noted
<1>3. CASE AriDrops
  <2>1. drops' \in 0..MaxDrops
    BY <1>3, LifecycleAssumption DEF CallsTypeOK, AriDrops
  <2> QED
    BY <1>3, <2>1 DEF CallsTypeOK, AriDrops, setup, map, parties, noted
<1>4. CASE EventsLost
  BY <1>4 DEF CallsTypeOK, EventsLost, setup, map, ari
<1>5. CASE Reconnect
  BY <1>5, FirstIsTracked DEF CallsTypeOK, Reconnect, setup, map, parties, noted
<1>6. CASE Reconcile
  <2>1. Stale \in SUBSET ToSet(tracked) /\ EndCalls(Stale)
    BY <1>6 DEF Reconcile, Stale, Gone, IsTracked
  <2> QED
    BY <1>6, <2>1, EndingTypes DEF CallsTypeOK, Reconcile, parties, noted
<1>7. CASE ReconcileFails
  BY <1>7 DEF CallsTypeOK, ReconcileFails, setup, map, parties
<1>8. CASE Close
  <2>1. /\ status' \in [Sessions -> {"none", "pending", "active", "ended"}]
        /\ history' \in [Sessions -> {"none", "active", "ended"}]
        /\ ending' \subseteq ToSet(tracked) /\ ToSet(tracked) \subseteq Sessions
    BY <1>8, FirstIsTracked DEF CallsTypeOK, Close, EndRows
  <2> QED
    BY <1>8, <2>1 DEF CallsTypeOK, Close, parties
<1>9. CASE Exit
  <2>1. /\ GoesDown /\ leg' = Adrift /\ ariUp' \in BOOLEAN
        /\ UNCHANGED <<history, caller, ends, closing>>
    BY <1>9 DEF Exit
  <2> QED
    BY <2>1, DownTypes, AdriftTypes DEF CallsTypeOK
<1>10. CASE UNCHANGED vars
  BY <1>10 DEF CallsTypeOK, vars, setup, map, parties, ari, noted
<1> QED
  BY <1>1, <1>2, <1>3, <1>4, <1>5, <1>6, <1>7, <1>8, <1>9, <1>10 DEF Next

-----------------------------------------------------------------------------
LEMMA DownFits ==
  ASSUME CallsTypeOK, Fits, GoesDown
  PROVE  Fits'
<1>1. sessions' = sessions /\ ToSet(tracked') = {}
  BY DEF GoesDown, rtpVars, ToSet
<1>2. \A c \in sessions : c \in Sessions /\ step'[c] \in {"failed", "lost"}
  BY DEF GoesDown, Fits, RustFits, CallsTypeOK, RtpTypeOK
<1>3. LostIsMishap'
  BY DEF GoesDown, Fits, LostIsMishap, CallsTypeOK
<1> QED
  BY <1>1, <1>2, <1>3 DEF Fits, MapFits, RustFits, EndedIsDeleted

LEMMA SetupFits ==
  ASSUME CallsTypeOK, Fits, NEW c \in Sessions, StasisStart(c) \/ SetupStep(c)
  PROVE  Fits'
<1> USE DEF Fits, MapFits, RustFits, LostIsMishap, EndedIsDeleted
<1>0. sessions \subseteq Sessions /\ ToSet(tracked) \subseteq Sessions
  BY FirstIsTracked DEF CallsTypeOK, RtpTypeOK
<1>1. CASE StasisStart(c)
  BY <1>0, <1>1 DEF CallsTypeOK, StasisStart, Goes, map, noted, rtpVars
<1>2. CASE AnswerFails(c) \/ BrainDies(c)
  BY <1>2, DownFits DEF AnswerFails, BrainDies, Crash
<1>3. CASE BridgeCreated(c)
  <2>1. c \notin ToSet(tracked)
    BY <1>3 DEF BridgeCreated, Goes
  <2>2. ToSet(tracked') = ToSet(tracked) \cup {c}
    BY <1>3, <2>1, AddsToMap DEF BridgeCreated, CallsTypeOK
  <2> QED
    BY <1>0, <1>3, <2>2 DEF CallsTypeOK, BridgeCreated, Goes, noted, rtpVars
<1>4. CASE BridgeFails(c)
  BY <1>0, <1>4 DEF CallsTypeOK, BridgeFails, Goes, map, noted, rtpVars
<1>5. CASE MediaCreated(c) \/ MediaFails(c)
  BY <1>0, <1>5 DEF CallsTypeOK, MediaCreated, MediaFails, Goes, map, noted, rtpVars
<1>6. CASE RustCreated(c) \/ RustCreateFails(c)
  <2>1. CASE RustCreated(c)
    BY <1>0, <2>1 DEF CallsTypeOK, RustCreated, CreateSession, Goes, map, noted
  <2>2. CASE RustCreateFails(c)
    BY <1>0, <2>2 DEF CallsTypeOK, RustCreateFails, Goes, map, noted, rtpVars
  <2> QED
    BY <1>6, <2>1, <2>2
<1>7. CASE Configured(c) \/ ConfigureFails(c)
  <2>1. sessions' = sessions
    BY <1>7 DEF Configured, ConfigureFails, ConfigureTts, rtpVars
  <2>2. step' = [step EXCEPT ![c] = "talking"] /\ history' = [history EXCEPT ![c] = "active"]
    BY <1>7 DEF Configured, ConfigureFails, SaveCall, Goes
  <2>3. UNCHANGED <<map, deletes, noted>> /\ step[c] = "configuring"
    BY <1>7 DEF Configured, ConfigureFails, Goes
  <2> QED
    BY <1>0, <2>1, <2>2, <2>3 DEF CallsTypeOK, map, noted
<1>8. CASE AssistantFails(c)
  <2>1. sessions' = sessions
    BY <1>8 DEF AssistantFails, ConfigureTts, rtpVars
  <2> QED
    BY <1>0, <1>8, <2>1 DEF CallsTypeOK, AssistantFails, Goes, map, noted
<1> QED
  BY <1>1, <1>2, <1>3, <1>4, <1>5, <1>6, <1>7, <1>8 DEF SetupStep

(* The row of a call is ended along with a request to delete its Rust      *)
(* session.                                                                *)
LEMMA EndingFits ==
  ASSUME CallsTypeOK, Fits, NEW cs, EndCalls(cs),
         UNCHANGED <<step, tracked, mishaps, rtpVars>>
  PROVE  Fits'
<1>1. sessions' = sessions /\ sessions \subseteq Sessions
  BY DEF rtpVars, CallsTypeOK, RtpTypeOK
<1>2. ASSUME NEW c \in sessions, history[c] = "active" \/ c \in deletes \cup mishaps
      PROVE  history'[c] = "active" \/ c \in deletes' \cup mishaps
  BY <1>1, <1>2 DEF EndCalls, EndRows
<1> QED
  BY <1>1, <1>2 DEF Fits, MapFits, RustFits, LostIsMishap, EndedIsDeleted

LEMMA EndFits ==
  ASSUME CallsTypeOK, Fits, NEW c \in Sessions,
         HangUp(c) \/ DashboardHangUp(c) \/ EndStep(c) \/ DeleteServed(c) \/ DeleteFails(c)
           \/ BindingsRemoved(c)
  PROVE  Fits'
<1> USE DEF Fits, MapFits, RustFits, LostIsMishap, EndedIsDeleted
<1>1. CASE HangUp(c)
  BY <1>1 DEF HangUp, setup, map, noted, rtpVars
<1>2. CASE DashboardHangUp(c)
  BY <1>2, EndingFits DEF DashboardHangUp, noted
<1>3. CASE StasisEnd(c)
  <2>1. CASE IsTracked(c)
    BY <1>3, <2>1, EndingFits DEF StasisEnd
  <2>2. CASE ~IsTracked(c)
    BY <1>3, <2>2 DEF StasisEnd, rtpVars
  <2> QED
    BY <2>1, <2>2
<1>4. CASE LegStasisEnd(c)
  BY <1>4, EndingFits DEF LegStasisEnd, noted
<1>5. CASE EndSession(c)
  <2>1. ToSet(tracked') = ToSet(tracked) \ {c}
    BY <1>5, RemovesFromMap DEF EndSession, CallsTypeOK
  <2> QED
    BY <1>5, <2>1 DEF EndSession, setup, noted, rtpVars
<1>6. CASE DeleteServed(c)
  BY <1>6 DEF DeleteServed, RemoveSession, setup, map, noted, rtpVars
<1>7. CASE DeleteFails(c) \/ BindingsRemoved(c)
  BY <1>7 DEF DeleteFails, BindingsRemoved, RemoveBindings, setup, map, noted, rtpVars
<1> QED
  BY <1>1, <1>2, <1>3, <1>4, <1>5, <1>6, <1>7 DEF EndStep

LEMMA LegFits ==
  ASSUME CallsTypeOK, Fits, NEW c \in Sessions, LegStep(c)
  PROVE  Fits'
<1>1. CASE LegAnswerFails(c)
  BY <1>1, DownFits DEF LegAnswerFails, Crash
<1>2. CASE LegStep(c) /\ ~LegAnswerFails(c)
  <2>1. UNCHANGED <<setup, tracked, noted, rtpVars>> /\ deletes \subseteq deletes'
    <3>1. CASE Dial(c)
      BY <3>1 DEF Dial, map
    <3>2. CASE LegFails(c) \/ LegHangUp(c)
      BY <3>2 DEF LegFails, LegHangUp, map
    <3>3. CASE LegStasisStart(c) \/ LegAnswered(c)
      BY <3>3 DEF LegStasisStart, LegAnswered
    <3> QED
      BY <1>2, <3>1, <3>2, <3>3 DEF LegStep
  <2> QED
    BY <2>1 DEF Fits, MapFits, RustFits, LostIsMishap, EndedIsDeleted, setup, noted, rtpVars
<1> QED
  BY <1>1, <1>2

LEMMA FitsStep == CallsTypeOK /\ Fits /\ [Next]_vars => Fits'
<1> SUFFICES ASSUME CallsTypeOK, Fits, [Next]_vars PROVE Fits'
  OBVIOUS
<1>1. ASSUME NEW c \in Sessions,
             StasisStart(c) \/ SetupStep(c) \/ HangUp(c) \/ DashboardHangUp(c) \/ EndStep(c)
               \/ DeleteServed(c) \/ DeleteFails(c) \/ BindingsRemoved(c) \/ LegStep(c)
      PROVE  Fits'
  BY <1>1, SetupFits, EndFits, LegFits
<1>2. CASE Reconcile
  BY <1>2, EndingFits DEF Reconcile, noted
<1> USE DEF Fits, MapFits, RustFits, LostIsMishap, EndedIsDeleted
<1>3. ASSUME NEW c \in Sessions, Audio(c) \/ Silence(c) PROVE Fits'
  BY <1>3 DEF Audio, Silence, Packet, setup, map, noted, rtpVars
<1>4. CASE AriDrops \/ EventsLost \/ Reconnect \/ ReconcileFails
  BY <1>4 DEF AriDrops, EventsLost, Reconnect, ReconcileFails, setup, map, noted, rtpVars
<1>5. CASE Close
  <2>1. \A c \in sessions : c \in Sessions
    BY DEF CallsTypeOK, RtpTypeOK
  <2> QED
    BY <1>5, <2>1 DEF Close, EndRows, rtpVars
<1>6. CASE Exit
  BY <1>6, DownFits DEF Exit
<1>7. CASE UNCHANGED vars
  BY <1>7 DEF vars, setup, map, noted, rtpVars
<1> QED
  BY <1>1, <1>2, <1>3, <1>4, <1>5, <1>6, <1>7 DEF Next

-----------------------------------------------------------------------------
CallsInv == RInv /\ CallsTypeOK /\ Fits

LEMMA CallsInvInit == Init => CallsInv
<1> SUFFICES ASSUME Init PROVE CallsInv
  OBVIOUS
<1>1. RInv
  BY CallInit, RInvInit
<1>2. tracked \in Seq(Sessions) /\ IsInjective(tracked) /\ ToSet(tracked) = {}
  BY DEF Init, IsInjective, ToSet
<1>3. drops \in 0..MaxDrops
  BY LifecycleAssumption DEF Init
<1>4. CallsTypeOK
  BY <1>1, <1>2, <1>3 DEF RInv, Init, CallsTypeOK, Steps, Legs, Ringing
<1>5. Fits
  BY <1>2 DEF Init, RtpInit, Fits, MapFits, RustFits, LostIsMishap, EndedIsDeleted
<1> QED
  BY <1>1, <1>4, <1>5 DEF CallsInv

LEMMA CallsInvStep == CallsInv /\ [Next]_vars => CallsInv'
<1> SUFFICES ASSUME CallsInv, [Next]_vars PROVE CallsInv'
  OBVIOUS
<1>1. RInv'
  BY CallStep, RInvStep DEF CallsInv
<1>2. CallsTypeOK'
  BY <1>1, TypeStep DEF CallsInv, RInv, Fits
<1>3. Fits'
  BY FitsStep DEF CallsInv
<1> QED
  BY <1>1, <1>2, <1>3 DEF CallsInv

(* The session map, the rows and the Rust sessions fit together however    *)
(* calls are set up, dial, end, crash or lose events.                      *)
THEOREM CallsInvariant == Spec => []CallsInv
  BY CallsInvInit, CallsInvStep, PTL DEF Spec

(* CallsTypeOK: whatever the order of events, a session is in the map once *)
(* at most, and only sessions in the map are being ended.                  *)
THEOREM CallsAreTyped == Spec => []CallsTypeOK
<1>1. CallsInv => CallsTypeOK
  BY DEF CallsInv
<1> QED
  BY CallsInvariant, <1>1, PTL

(* LeaksAreVisible: the Rust session of a call that is over and that no    *)
(* request will delete belongs to a row that is still active, or else to a *)
(* call whose clean-up failed, that was there when close() or a crash came *)
(* over it, or whose setup ended without a row (stasisEnd(),               *)
(* handleIncomingCall() and close() of AriControllerServer).               *)
THEOREM LeaksAreSeen == Spec => []LeaksAreVisible
<1>1. CallsInv => LeaksAreVisible
  <2> SUFFICES ASSUME CallsInv, NEW c \in Sessions, AtRest(c), c \in sessions
               PROVE  history[c] = "active" \/ c \in mishaps \/ step[c] = "failed"
    BY DEF LeaksAreVisible
  <2> QED
    BY DEF CallsInv, Fits, RustFits, LostIsMishap, EndedIsDeleted, AtRest
<1> QED
  BY CallsInvariant, <1>1, PTL
===============================================================================
