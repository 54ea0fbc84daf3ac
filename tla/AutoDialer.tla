------------------------------ MODULE AutoDialer ------------------------------
(***************************************************************************)
(* The campaign engine, core/AutoDialer.ts: an object per campaign that    *)
(* originates one call per number of its phone list, never more than       *)
(* maxConcurrent at a time, and learns how each call went from the reply   *)
(* to the originate request and from the ARI events of its channel.        *)
(*                                                                         *)
(* Each JavaScript callback runs to completion, so it is one action.  The  *)
(* fillSlots() that cleanupCall() defers with process.nextTick runs before *)
(* any other callback, hence in the same action.                           *)
(***************************************************************************)
EXTENDS Integers, Sequences, FiniteSets

CONSTANTS
  Dialers,        (* the AutoDialer objects the program ever creates         *)
  MaxNumbers,     (* bound: the longest phone list                           *)
  ListLengths,    (* bound: the lengths a dialer's phone list may have       *)
  MaxConcurrent   (* the campaign's maxConcurrent option                     *)

ASSUME DialerAssumption ==
  /\ MaxNumbers \in Nat \ {0}
  /\ ListLengths \in [Dialers -> SUBSET (1..MaxNumbers)]
  /\ MaxConcurrent \in Nat \ {0}

Numbers == 1..MaxNumbers

VARIABLES
  status,           (* idle, running, paused, completed                      *)
  phoneList,        (* length of the phone list (its entries are 1..length)  *)
  currentIndex,     (* how many of them have been taken                      *)
  activeCalls,      (* the concurrency counter                               *)
  activeChannels,   (* the channels stop() hangs up                          *)
  cleanedSessions,  (* calls cleanupCall() has already run for               *)
  resultRecorded,   (* calls whose closure has recorded a result             *)
  results,          (* the results recorded for each number, in order        *)
  completions,      (* how often "campaignComplete" has been emitted         *)
  stopped,          (* whether stop() ended the campaign                     *)
  phase,            (* Asterisk: what became of the originate of a number    *)
  answered,         (* Asterisk: the calls that entered the Stasis app       *)
  events,           (* Asterisk: channel events sent and not yet delivered   *)
  listening,        (* the channels setupOutboundCall() has hooked           *)
  hangups,          (* the channels the dialer has asked Asterisk to hang up *)
  missed,           (* calls with an event delivered to nobody               *)
  deaf              (* the dialer's ARI client has lost its WebSocket        *)

dialerVars == <<status, phoneList, currentIndex, activeCalls, activeChannels,
                cleanedSessions, resultRecorded, results, completions, stopped>>
pbxVars    == <<phase, answered, events, listening, hangups, missed, deaf>>
vars       == <<dialerVars, pbxVars>>

Statuses == {"idle", "running", "paused", "completed"}
(* "requested": the HTTP request is on its way; "refused": it failed, and  *)
(* what became of a channel it made all the same is not followed here      *)
(* either; "ringing", "up": the channel exists; "gone": it existed and was *)
(* destroyed.                                                              *)
Phases   == {"none", "requested", "refused", "ringing", "up", "gone"}
(* "answered" stands for `specificResult || "answered"` as well: every     *)
(* result an assistant reports belongs to an answered call.                *)
Results  == {"answered", "no_answer", "failed"}
Events   == {"StasisEnd", "ChannelDestroyed"}

TypeOK ==
  /\ status          \in [Dialers -> Statuses]
  /\ phoneList       \in [Dialers -> 0..MaxNumbers]
  /\ currentIndex    \in [Dialers -> 0..MaxNumbers]
  /\ activeCalls     \in [Dialers -> Int]
  /\ activeChannels  \in [Dialers -> SUBSET Numbers]
  /\ cleanedSessions \in [Dialers -> SUBSET Numbers]
  /\ resultRecorded  \in [Dialers -> SUBSET Numbers]
  /\ results         \in [Dialers -> [Numbers -> Seq(Results)]]
  /\ completions     \in [Dialers -> Nat]
  /\ stopped         \in [Dialers -> BOOLEAN]
  /\ phase           \in [Dialers -> [Numbers -> Phases]]
  /\ answered        \in [Dialers -> SUBSET Numbers]
  /\ events          \in [Dialers -> [Numbers -> Seq(Events)]]
  /\ listening       \in [Dialers -> SUBSET Numbers]
  /\ hangups         \in [Dialers -> SUBSET Numbers]
  /\ missed          \in [Dialers -> SUBSET Numbers]
  /\ deaf            \in [Dialers -> BOOLEAN]

Init ==
  /\ status          = [d \in Dialers |-> "idle"]
  /\ phoneList       = [d \in Dialers |-> 0]
  /\ currentIndex    = [d \in Dialers |-> 0]
  /\ activeCalls     = [d \in Dialers |-> 0]
  /\ activeChannels  = [d \in Dialers |-> {}]
  /\ cleanedSessions = [d \in Dialers |-> {}]
  /\ resultRecorded  = [d \in Dialers |-> {}]
  /\ results         = [d \in Dialers |-> [n \in Numbers |-> <<>>]]
  /\ completions     = [d \in Dialers |-> 0]
  /\ stopped         = [d \in Dialers |-> FALSE]
  /\ phase           = [d \in Dialers |-> [n \in Numbers |-> "none"]]
  /\ answered        = [d \in Dialers |-> {}]
  /\ events          = [d \in Dialers |-> [n \in Numbers |-> <<>>]]
  /\ listening       = [d \in Dialers |-> {}]
  /\ hangups         = [d \in Dialers |-> {}]
  /\ missed          = [d \in Dialers |-> {}]
  /\ deaf            = [d \in Dialers |-> FALSE]

-----------------------------------------------------------------------------
(* fillSlots() and dialNumber().                                           *)

(* A loop that forgets the status dials on after pause() and stop().       *)
LoopStopsAnyStatus(st, from, len, active, last, dialled) ==
  LET now == active + Cardinality(dialled)
  IN  /\ now <= MaxConcurrent
      /\ last = len \/ now = MaxConcurrent
      /\ last > from /\ now = MaxConcurrent => last \in dialled

(* A loop with `<=` instead of `<` fills one slot too many.                *)
LoopStopsLate(st, from, len, active, last, dialled) ==
  LET now == active + Cardinality(dialled)
  IN  IF st = "running"
      THEN /\ now <= MaxConcurrent + 1
           /\ last = len \/ now = MaxConcurrent + 1
           /\ last > from /\ now = MaxConcurrent + 1 => last \in dialled
      ELSE last = from

(* The while loop, entered with status st, `from` numbers of len taken and *)
(* active calls, stops having taken the numbers up to last.  The originate *)
(* of those in dialled is pending; that of the others threw at once and    *)
(* gave its slot back, and the catch block's fillSlots went on from there. *)
LoopStops(st, from, len, active, last, dialled) ==
  LET now == active + Cardinality(dialled)
  IN  IF st = "running"
      THEN /\ now <= MaxConcurrent
           /\ last = len \/ now = MaxConcurrent
           /\ last > from /\ now = MaxConcurrent => last \in dialled
      ELSE last = from

(* Forgetting the second conjunct ends a campaign under its last calls.    *)
CampaignDoneEarly(last, len, active) == last >= len

CampaignDone(last, len, active) == last >= len /\ active = 0

(* fillSlots() of d with status st, a list of len numbers and active       *)
(* calls, when it takes the numbers up to last and the originate of those  *)
(* in threw throws; res and ph are d's results and originates so far.      *)
(* Every re-entrant fillSlots tests for completion on its way out, when    *)
(* the last number has been taken: "campaignComplete" is emitted once per  *)
(* throw and once more.                                                    *)
FilledTo(d, st, len, active, res, ph, last, threw) ==
  LET dialled == ((currentIndex[d] + 1)..last) \ threw
      now     == active + Cardinality(dialled)
      done    == CampaignDone(last, len, now)
  IN  /\ LoopStops(st, currentIndex[d], len, active, last, dialled)
      /\ status' = [status EXCEPT ![d] = IF done THEN "completed" ELSE st]
      /\ currentIndex' = [currentIndex EXCEPT ![d] = last]
      /\ activeCalls' = [activeCalls EXCEPT ![d] = now]
      /\ results' = [results EXCEPT ![d] =
           [n \in Numbers |-> IF n \in threw THEN Append(res[n], "failed") ELSE res[n]]]
      /\ phase' = [phase EXCEPT ![d] =
           [n \in Numbers |-> IF n \in threw THEN "refused"
                              ELSE IF n \in dialled THEN "requested" ELSE ph[n]]]
      /\ completions' = [completions EXCEPT ![d] =
           IF done THEN @ + 1 + Cardinality(threw) ELSE @]

FillSlots(d, st, len, active, res, ph) ==
  \E last \in currentIndex[d]..len : \E threw \in SUBSET ((currentIndex[d] + 1)..last) :
    FilledTo(d, st, len, active, res, ph, last, threw)

-----------------------------------------------------------------------------
(* What the owner of a dialer does with it.                                *)

(* setPhoneList(), then start(): no caller does one without the other, nor *)
(* twice.                                                                  *)
Start(d) ==
  /\ status[d] = "idle"
  /\ \E len \in ListLengths[d] :
       /\ phoneList' = [phoneList EXCEPT ![d] = len]
       /\ FillSlots(d, "running", len, activeCalls[d], results[d], phase[d])
  /\ UNCHANGED <<activeChannels, cleanedSessions, resultRecorded, stopped,
                 answered, events, listening, hangups, missed, deaf>>

Pause(d) ==
  /\ status[d] = "running"
  /\ status' = [status EXCEPT ![d] = "paused"]
  /\ UNCHANGED <<phoneList, currentIndex, activeCalls, activeChannels, cleanedSessions,
                 resultRecorded, results, completions, stopped, pbxVars>>

Resume(d) ==
  /\ status[d] = "paused"
  /\ FillSlots(d, "running", phoneList[d], activeCalls[d], results[d], phase[d])
  /\ UNCHANGED <<phoneList, activeChannels, cleanedSessions, resultRecorded, stopped,
                 answered, events, listening, hangups, missed, deaf>>

(* stop(); its owner only stops a campaign it has started.                 *)
Stop(d) ==
  /\ status[d] \in {"running", "paused"}
  /\ status' = [status EXCEPT ![d] = "completed"]
  /\ stopped' = [stopped EXCEPT ![d] = TRUE]
  /\ hangups' = [hangups EXCEPT ![d] = @ \cup activeChannels[d]]
  /\ activeChannels' = [activeChannels EXCEPT ![d] = {}]
  /\ completions' = [completions EXCEPT ![d] = @ + 1]
  /\ UNCHANGED <<phoneList, currentIndex, activeCalls, cleanedSessions, resultRecorded,
                 results, phase, answered, events, listening, missed, deaf>>

-----------------------------------------------------------------------------
(* The callbacks of the originate request.                                 *)

(* The callback gets an error: the number failed and its slot is free.     *)
(* Asterisk may have made the channel, when the error is that its reply    *)
(* was lost; nobody hears of that call then.                               *)
OriginateFails(d, n) ==
  /\ phase[d][n] \in {"requested", "ringing", "up", "gone"}
  /\ n \notin listening[d]
  /\ FillSlots(d, status[d], phoneList[d], activeCalls[d] - 1,
               [results[d] EXCEPT ![n] = Append(@, "failed")],
               [phase[d] EXCEPT ![n] = "refused"])
  /\ events' = [events EXCEPT ![d][n] = <<>>]
  /\ UNCHANGED <<phoneList, activeChannels, cleanedSessions, resultRecorded, stopped,
                 answered, listening, hangups, missed, deaf>>

(* The callback gets the channel: setupOutboundCall() hooks its events,    *)
(* whatever has happened to channel and campaign since the request.        *)
OriginateReturns(d, n) ==
  /\ phase[d][n] \in {"ringing", "up", "gone"}
  /\ n \notin listening[d]
  /\ listening' = [listening EXCEPT ![d] = @ \cup {n}]
  /\ activeChannels' = [activeChannels EXCEPT ![d] = @ \cup {n}]
  /\ UNCHANGED <<status, phoneList, currentIndex, activeCalls, cleanedSessions,
                 resultRecorded, results, completions, stopped,
                 phase, answered, events, hangups, missed, deaf>>

-----------------------------------------------------------------------------
(* The channel's events.                                                   *)

(* Without the cleanedSessions guard both events of a call free its slot.  *)
CleanupCallTwice(d, n, res) ==
  /\ cleanedSessions' = [cleanedSessions EXCEPT ![d] = @ \cup {n}]
  /\ activeChannels' = [activeChannels EXCEPT ![d] = @ \ {n}]
  /\ FillSlots(d, status[d], phoneList[d], activeCalls[d] - 1, res, phase[d])

(* Without the decrement a finished call keeps its slot.                   *)
CleanupCallKeepsSlot(d, n, res) ==
  IF n \in cleanedSessions[d]
  THEN /\ results' = [results EXCEPT ![d] = res]
       /\ UNCHANGED <<status, currentIndex, activeCalls, activeChannels,
                      cleanedSessions, completions, phase>>
  ELSE /\ cleanedSessions' = [cleanedSessions EXCEPT ![d] = @ \cup {n}]
       /\ activeChannels' = [activeChannels EXCEPT ![d] = @ \ {n}]
       /\ FillSlots(d, status[d], phoneList[d], activeCalls[d], res, phase[d])

CleanupCall(d, n, res) ==
  IF n \in cleanedSessions[d]
  THEN /\ results' = [results EXCEPT ![d] = res]
       /\ UNCHANGED <<status, currentIndex, activeCalls, activeChannels,
                      cleanedSessions, completions, phase>>
  ELSE /\ cleanedSessions' = [cleanedSessions EXCEPT ![d] = @ \cup {n}]
       /\ activeChannels' = [activeChannels EXCEPT ![d] = @ \ {n}]
       /\ FillSlots(d, status[d], phoneList[d], activeCalls[d] - 1, res, phase[d])

(* The next event of n's channel is e, and the closure hears it.           *)
Hears(d, n, e) ==
  /\ events[d][n] # <<>>
  /\ Head(events[d][n]) = e
  /\ n \in listening[d]
  /\ ~deaf[d]
  /\ events' = [events EXCEPT ![d][n] = Tail(@)]

(* Forgetting to test resultRecorded gives an answered call two results.   *)
RecordAlways(d, n, r) ==
  /\ resultRecorded' = [resultRecorded EXCEPT ![d] = @ \cup {n}]
  /\ CleanupCall(d, n, [results[d] EXCEPT ![n] = Append(@, r)])

(* Record r unless a result is there already, then cleanupCall().          *)
RecordOnce(d, n, r) ==
  IF n \in resultRecorded[d]
  THEN /\ UNCHANGED resultRecorded
       /\ CleanupCall(d, n, results[d])
  ELSE /\ resultRecorded' = [resultRecorded EXCEPT ![d] = @ \cup {n}]
       /\ CleanupCall(d, n, [results[d] EXCEPT ![n] = Append(@, r)])

(* ChannelDestroyed: no answer, unless the call has a session.  Sessions   *)
(* are those of answered calls; whether that of a call which has left      *)
(* Stasis still exists is a race with endSession().                        *)
OnChannelDestroyed(d, n) ==
  /\ Hears(d, n, "ChannelDestroyed")
  /\ \/ RecordOnce(d, n, "no_answer")
     \/ /\ n \in answered[d]
        /\ UNCHANGED resultRecorded
        /\ CleanupCall(d, n, results[d])
  /\ UNCHANGED <<phoneList, stopped, answered, listening, hangups, missed, deaf>>

OnStasisEnd(d, n) ==
  /\ Hears(d, n, "StasisEnd")
  /\ RecordOnce(d, n, "answered")
  /\ UNCHANGED <<phoneList, stopped, answered, listening, hangups, missed, deaf>>

-----------------------------------------------------------------------------
(* Asterisk and the ARI connection.                                        *)

ChannelCreated(d, n) ==
  /\ phase[d][n] = "requested"
  /\ phase' = [phase EXCEPT ![d][n] = "ringing"]
  /\ UNCHANGED <<dialerVars, answered, events, listening, hangups, missed, deaf>>

Answer(d, n) ==
  /\ phase[d][n] = "ringing"
  /\ phase' = [phase EXCEPT ![d][n] = "up"]
  /\ answered' = [answered EXCEPT ![d] = @ \cup {n}]
  /\ UNCHANGED <<dialerVars, events, listening, hangups, missed, deaf>>

(* Not answered (busy, timeout), or hung up while ringing.                 *)
Unanswered(d, n) ==
  /\ phase[d][n] = "ringing"
  /\ phase' = [phase EXCEPT ![d][n] = "gone"]
  /\ events' = [events EXCEPT ![d][n] = Append(@, "ChannelDestroyed")]
  /\ UNCHANGED <<dialerVars, answered, listening, hangups, missed, deaf>>

(* An answered call ends, by either party or by hangup().                  *)
HangUp(d, n) ==
  /\ phase[d][n] = "up"
  /\ phase' = [phase EXCEPT ![d][n] = "gone"]
  /\ events' = [events EXCEPT ![d][n] = @ \o <<"StasisEnd", "ChannelDestroyed">>]
  /\ UNCHANGED <<dialerVars, answered, listening, hangups, missed, deaf>>

(* An event arrives before the originate reply has been handled, or is for *)
(* a client object whose WebSocket is gone: nobody hears it.               *)
EventMissed(d, n) ==
  /\ events[d][n] # <<>>
  /\ n \notin listening[d] \/ deaf[d]
  /\ events' = [events EXCEPT ![d][n] = Tail(@)]
  /\ missed' = [missed EXCEPT ![d] = @ \cup {n}]
  /\ UNCHANGED <<dialerVars, phase, answered, listening, hangups, deaf>>

(* The ARI WebSocket closes.  The controller connects again with a new     *)
(* client, but the dialers keep the one they were constructed with.        *)
ConnectionLost ==
  /\ \E d \in Dialers : status[d] # "idle" /\ ~deaf[d]
  /\ deaf' = [d \in Dialers |-> deaf[d] \/ status[d] # "idle"]
  /\ UNCHANGED <<dialerVars, phase, answered, events, listening, hangups, missed>>

-----------------------------------------------------------------------------
Callback(d) ==
  \E n \in Numbers :
    OriginateFails(d, n) \/ OriginateReturns(d, n) \/ OnChannelDestroyed(d, n) \/ OnStasisEnd(d, n)

Asterisk(d) ==
  \E n \in Numbers :
    ChannelCreated(d, n) \/ Answer(d, n) \/ Unanswered(d, n) \/ HangUp(d, n) \/ EventMissed(d, n)

Next ==
  \/ \E d \in Dialers : Start(d) \/ Pause(d) \/ Resume(d) \/ Stop(d) \/ Callback(d) \/ Asterisk(d)
  \/ ConnectionLost

Spec == Init /\ [][Next]_vars

-----------------------------------------------------------------------------
(* The calls that hold a slot: dialled, not refused and not cleaned up.    *)
Occupied(d) ==
  {n \in Numbers : phase[d][n] \notin {"none", "refused"}} \ cleanedSessions[d]

(* The calls that exist in Asterisk, or may exist there any moment.        *)
Live(d) == {n \in Numbers : phase[d][n] \in {"requested", "ringing", "up"}}

(* The calls whose fate the dialer knows.                                  *)
Concluded(d) ==
  cleanedSessions[d] \cup {n \in Numbers : phase[d][n] = "refused"}

TrueResult(d, n) ==
  IF phase[d][n] = "refused" THEN "failed"
  ELSE IF n \in answered[d] THEN "answered" ELSE "no_answer"

(* activeCalls counts exactly the calls that hold a slot, through failed   *)
(* originates, synchronous throws, two events per call and a stop():       *)
(* "Ensures activeCalls is decremented exactly once" (cleanupCall).        *)
SlotsAccounted == \A d \in Dialers : activeCalls[d] = Cardinality(Occupied(d))

(* Asterisk never has more calls of a campaign than maxConcurrent: the     *)
(* dialer gives a slot back only when the channel is gone.  Not counted is *)
(* a channel whose originate was reported as failed though it was made.    *)
ConcurrencyRespected == \A d \in Dialers : Cardinality(Live(d)) <= MaxConcurrent

(* A number gets at most one result, and a call that is over has the true  *)
(* one, unless one of its events reached nobody.                           *)
ResultsTruthful ==
  \A d \in Dialers, n \in Numbers :
    /\ Len(results[d][n]) <= 1
    /\ n \in Concluded(d) \ missed[d] => results[d][n] = <<TrueResult(d, n)>>

(* A campaign that was not stopped is complete only when every number of   *)
(* its list was called, has its result, and no call is left.               *)
CompletionIsTotal ==
  \A d \in Dialers :
    status[d] = "completed" /\ ~stopped[d] =>
      /\ Live(d) = {}
      /\ \A n \in 1..phoneList[d] : Len(results[d][n]) = 1 \/ n \in missed[d]

(* No number is dialled unless the campaign is running, whatever callback  *)
(* of an earlier call comes in late; a completed campaign never restarts.  *)
DialsOnlyWhileRunning ==
  [][\A d \in Dialers :
       /\ status[d] = "completed" => status'[d] = "completed"
       /\ \A n \in Numbers :
            phase[d][n] = "none" /\ phase'[d][n] = "requested" => status'[d] = "running"]_vars

(* "Hard stop: hang up all active channels" (stop): after a stop, every    *)
(* channel the dialer knows and Asterisk still has was asked to hang up.   *)
StopHangsUpAll ==
  \A d \in Dialers :
    stopped[d] => \A n \in listening[d] : phase[d][n] \in {"ringing", "up"} => n \in hangups[d]
===============================================================================
