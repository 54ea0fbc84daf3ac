----------------------------- MODULE CampaignProofs -----------------------------
(***************************************************************************)
(* For every set of dialers, every phone list and every maxConcurrent: a   *)
(* call that is over has its one true result, a campaign that completes    *)
(* has one for each number, and the dashboard's slot never keeps a         *)
(* campaign that is over.                                                  *)
(*                                                                         *)
(* ResultsTruthful needs to know what each event still to come means for   *)
(* the result that is there (CallInv), CompletionIsTotal that a campaign   *)
(* which completed by itself has no call left and no number to dial.       *)
(***************************************************************************)
EXTENDS CampaignControl, AutoDialerProofs, SequenceTheorems

(* One call: its originate p, its results rs, its undelivered events ev,   *)
(* and whether it is recorded, cleaned up, answered, and missed an event.  *)
CallFacts(p, rs, ev, recorded, cleaned, entered, mis) ==
  /\ recorded <=> p = "gone" /\ rs # <<>>
  /\ p = "refused" => rs = <<"failed">>
  /\ p \notin {"refused", "gone"} => rs = <<>>
  /\ p # "gone" => ~cleaned /\ ev = <<>>
  /\ p \in {"none", "requested", "ringing"} => ~entered
  /\ p = "up" => entered
  /\ p = "gone" => rs \in {<<>>, <<"answered">>, <<"no_answer">>}
  /\ p = "gone" /\ ~mis /\ entered =>
       \/ ev = <<"StasisEnd", "ChannelDestroyed">> /\ rs = <<>> /\ ~cleaned
       \/ ev \in {<<"ChannelDestroyed">>, <<>>} /\ rs = <<"answered">>
  /\ p = "gone" /\ ~mis /\ ~entered =>
       \/ ev = <<"ChannelDestroyed">> /\ rs = <<>> /\ ~cleaned
       \/ ev = <<>> /\ rs = <<"no_answer">>

CallInv(d, n) ==
  CallFacts(phase[d][n], results[d][n], events[d][n], n \in resultRecorded[d],
            n \in cleanedSessions[d], n \in answered[d], n \in missed[d])

(* A campaign that completed by itself has nothing left to do.             *)
Finished(d) ==
  status[d] = "completed" /\ ~stopped[d] => currentIndex[d] >= phoneList[d] /\ activeCalls[d] = 0

CampaignInv ==
  /\ Inv
  /\ HeardFirst
  /\ \A d \in Dialers, n \in Numbers : CallInv(d, n)
  /\ \A d \in Dialers : Finished(d)

-----------------------------------------------------------------------------
(* What fillSlots does to each call of d, and to d's status.               *)
LEMMA FillSlotsCalls ==
  ASSUME Inv, NEW d \in Dialers, NEW st \in Statuses, NEW len \in 0..MaxNumbers,
         NEW active \in 0..MaxConcurrent,
         NEW res \in ResultLists, NEW ph \in [Numbers -> Phases],
         Untouched(ph, currentIndex[d]),
         FillSlots(d, st, len, active, res, ph)
  PROVE  /\ \A m \in Numbers :
              \/ phase'[d][m] = ph[m] /\ results'[d][m] = res[m]
              \/ ph[m] = "none" /\ phase'[d][m] = "requested" /\ results'[d][m] = res[m]
              \/ /\ ph[m] = "none" /\ phase'[d][m] = "refused"
                 /\ results'[d][m] = Append(res[m], "failed")
         /\ \/ status'[d] = st /\ completions'[d] = completions[d]
            \/ /\ status'[d] = "completed" /\ completions'[d] > completions[d]
               /\ currentIndex'[d] >= len /\ activeCalls'[d] = 0
         /\ \A e \in Dialers \ {d} :
              /\ status'[e] = status[e] /\ completions'[e] = completions[e]
              /\ phase'[e] = phase[e] /\ results'[e] = results[e]
              /\ currentIndex'[e] = currentIndex[e] /\ activeCalls'[e] = activeCalls[e]
<1>0. PICK last \in currentIndex[d]..len : \E threw \in SUBSET ((currentIndex[d] + 1)..last) :
        FilledTo(d, st, len, active, res, ph, last, threw)
  BY DEF FillSlots
<1>1. PICK threw \in SUBSET ((currentIndex[d] + 1)..last) :
        FilledTo(d, st, len, active, res, ph, last, threw)
  BY <1>0
<1> DEFINE dialled == ((currentIndex[d] + 1)..last) \ threw
           now     == active + Cardinality(dialled)
           done    == CampaignDone(last, len, now)
<1>2. TypeOK /\ MaxNumbers \in Nat /\ MaxConcurrent \in Nat
  BY DialerAssumption DEF Inv
<1>3. currentIndex[d] \in 0..MaxNumbers /\ last \in 0..MaxNumbers
  BY <1>2 DEF TypeOK
<1>4. threw \in SUBSET Numbers
  BY <1>2, <1>3 DEF Numbers
<1>5. Cardinality(threw) \in Nat
  BY <1>4, FiniteNumbers
<1>6. /\ status' = [status EXCEPT ![d] = IF done THEN "completed" ELSE st]
      /\ currentIndex' = [currentIndex EXCEPT ![d] = last]
      /\ activeCalls' = [activeCalls EXCEPT ![d] = now]
      /\ results' = [results EXCEPT ![d] =
           [n \in Numbers |-> IF n \in threw THEN Append(res[n], "failed") ELSE res[n]]]
      /\ phase' = [phase EXCEPT ![d] =
           [n \in Numbers |-> IF n \in threw THEN "refused"
                              ELSE IF n \in dialled THEN "requested" ELSE ph[n]]]
      /\ completions' = [completions EXCEPT ![d] =
           IF done THEN completions[d] + 1 + Cardinality(threw) ELSE completions[d]]
  BY <1>1 DEF FilledTo
<1>7. \A m \in threw \cup dialled : ph[m] = "none"
  <2>1. ASSUME NEW m \in threw \cup dialled PROVE m \in Numbers /\ m > currentIndex[d]
    BY <1>2, <1>3 DEF Numbers
  <2> QED BY <2>1 DEF Untouched
<1> HIDE DEF dialled, now
<1>8. \A m \in Numbers :
        \/ phase'[d][m] = ph[m] /\ results'[d][m] = res[m]
        \/ ph[m] = "none" /\ phase'[d][m] = "requested" /\ results'[d][m] = res[m]
        \/ /\ ph[m] = "none" /\ phase'[d][m] = "refused"
           /\ results'[d][m] = Append(res[m], "failed")
  BY <1>2, <1>6, <1>7 DEF TypeOK
<1>9. \/ status'[d] = st /\ completions'[d] = completions[d]
      \/ /\ status'[d] = "completed" /\ completions'[d] > completions[d]
         /\ currentIndex'[d] >= len /\ activeCalls'[d] = 0
  <2>1. CASE done
    BY <1>2, <1>5, <1>6, <2>1 DEF TypeOK, CampaignDone
  <2>2. CASE ~done
    BY <1>2, <1>6, <2>2 DEF TypeOK
  <2> QED BY <2>1, <2>2
<1>10. \A e \in Dialers \ {d} :
         /\ status'[e] = status[e] /\ completions'[e] = completions[e]
         /\ phase'[e] = phase[e] /\ results'[e] = results[e]
         /\ currentIndex'[e] = currentIndex[e] /\ activeCalls'[e] = activeCalls[e]
  BY <1>2, <1>6 DEF TypeOK
<1> QED BY <1>8, <1>9, <1>10

(* A call that has never been dialled is dialled, or its originate throws. *)
LEMMA NewCall ==
  ASSUME NEW rs, NEW ev, NEW recorded, NEW cleaned, NEW entered, NEW mis,
         CallFacts("none", rs, ev, recorded, cleaned, entered, mis)
  PROVE  /\ CallFacts("requested", rs, ev, recorded, cleaned, entered, mis)
         /\ CallFacts("refused", Append(rs, "failed"), ev, recorded, cleaned, entered, mis)
<1>1. rs = <<>> /\ Append(<<>>, "failed") = <<"failed">>
  BY DEF CallFacts
<1> QED BY <1>1 DEF CallFacts

(* What one event does to the call it is of, if its closure hears it.      *)
LEMMA TwoEvents ==
  /\ Head(<<"StasisEnd", "ChannelDestroyed">>) = "StasisEnd"
  /\ Tail(<<"StasisEnd", "ChannelDestroyed">>) = <<"ChannelDestroyed">>
  /\ Head(<<"ChannelDestroyed">>) = "ChannelDestroyed"
  /\ Tail(<<"ChannelDestroyed">>) = <<>>
<1>1. <<"StasisEnd", "ChannelDestroyed">> \in Seq(Events) /\ <<"ChannelDestroyed">> \in Seq(Events)
  BY DEF Events
<1>2. /\ Tail(<<"StasisEnd", "ChannelDestroyed">>) \in Seq(Events)
      /\ Len(Tail(<<"StasisEnd", "ChannelDestroyed">>)) = 1
      /\ Tail(<<"StasisEnd", "ChannelDestroyed">>)[1] = "ChannelDestroyed"
  BY <1>1
<1> QED BY <1>1, <1>2

LEMMA HeardStasisEnd ==
  ASSUME NEW d, NEW n,
         CallFacts("gone", results[d][n], events[d][n], n \in resultRecorded[d],
                   n \in cleanedSessions[d], n \in answered[d], n \in missed[d]),
         events[d][n] # <<>>, Head(events[d][n]) = "StasisEnd"
  PROVE  /\ n \in resultRecorded[d] =>
           CallFacts("gone", results[d][n], Tail(events[d][n]), TRUE, TRUE,
                     n \in answered[d], n \in missed[d])
         /\ n \notin resultRecorded[d] =>
           CallFacts("gone", Append(results[d][n], "answered"), Tail(events[d][n]), TRUE, TRUE,
                     n \in answered[d], n \in missed[d])
<1> DEFINE rs == results[d][n]
           ev == events[d][n]
           recorded == n \in resultRecorded[d]
           cleaned == n \in cleanedSessions[d]
           entered == n \in answered[d]
           mis == n \in missed[d]
<1>1. Append(<<>>, "answered") = <<"answered">>
  OBVIOUS
<1>2. /\ ev = <<"StasisEnd", "ChannelDestroyed">> => Tail(ev) = <<"ChannelDestroyed">>
      /\ ev # <<"ChannelDestroyed">>
  BY TwoEvents
<1>3. CASE mis
  <2>1. rs \in {<<>>, <<"answered">>, <<"no_answer">>} /\ (recorded <=> rs # <<>>)
    BY DEF CallFacts
  <2>2. recorded => CallFacts("gone", rs, Tail(ev), TRUE, TRUE, entered, mis)
    BY <1>3, <2>1 DEF CallFacts
  <2>3. ~recorded => CallFacts("gone", <<"answered">>, Tail(ev), TRUE, TRUE, entered, mis)
    BY <1>3 DEF CallFacts
  <2> QED BY <1>1, <2>1, <2>2, <2>3
<1>4. CASE ~mis
  <2>1. entered /\ ~recorded /\ rs = <<>> /\ Tail(ev) = <<"ChannelDestroyed">>
    BY <1>2, <1>4 DEF CallFacts
  <2>2. CallFacts("gone", <<"answered">>, <<"ChannelDestroyed">>, TRUE, TRUE, entered, mis)
    BY <2>1 DEF CallFacts
  <2> QED BY <1>1, <2>1, <2>2
<1> QED BY <1>3, <1>4

LEMMA HeardChannelDestroyed ==
  ASSUME NEW d, NEW n,
         CallFacts("gone", results[d][n], events[d][n], n \in resultRecorded[d],
                   n \in cleanedSessions[d], n \in answered[d], n \in missed[d]),
         events[d][n] # <<>>, Head(events[d][n]) = "ChannelDestroyed"
  PROVE  /\ n \in resultRecorded[d] =>
           CallFacts("gone", results[d][n], Tail(events[d][n]), TRUE, TRUE,
                     n \in answered[d], n \in missed[d])
         /\ n \notin resultRecorded[d] =>
           CallFacts("gone", Append(results[d][n], "no_answer"), Tail(events[d][n]), TRUE, TRUE,
                     n \in answered[d], n \in missed[d])
         /\ n \in answered[d] =>
           CallFacts("gone", results[d][n], Tail(events[d][n]), n \in resultRecorded[d], TRUE,
                     n \in answered[d], n \in missed[d])
<1> DEFINE rs == results[d][n]
           ev == events[d][n]
           recorded == n \in resultRecorded[d]
           cleaned == n \in cleanedSessions[d]
           entered == n \in answered[d]
           mis == n \in missed[d]
<1>1. Append(<<>>, "no_answer") = <<"no_answer">>
  OBVIOUS
<1>2. /\ ev # <<"StasisEnd", "ChannelDestroyed">>
      /\ ev = <<"ChannelDestroyed">> => Tail(ev) = <<>>
  BY TwoEvents
<1>3. CASE mis
  <2>1. rs \in {<<>>, <<"answered">>, <<"no_answer">>} /\ (recorded <=> rs # <<>>)
    BY DEF CallFacts
  <2>2. recorded => CallFacts("gone", rs, Tail(ev), TRUE, TRUE, entered, mis)
    BY <1>3, <2>1 DEF CallFacts
  <2>3. ~recorded => CallFacts("gone", <<"no_answer">>, Tail(ev), TRUE, TRUE, entered, mis)
    BY <1>3 DEF CallFacts
  <2>4. CallFacts("gone", rs, Tail(ev), recorded, TRUE, entered, mis)
    BY <1>3, <2>1 DEF CallFacts
  <2> QED BY <1>1, <2>1, <2>2, <2>3, <2>4
<1>4. CASE ~mis /\ entered
  <2>1. recorded /\ rs = <<"answered">> /\ Tail(ev) = <<>>
    BY <1>2, <1>4 DEF CallFacts
  <2>2. CallFacts("gone", <<"answered">>, <<>>, TRUE, TRUE, entered, mis)
    BY <1>4 DEF CallFacts
  <2>3. CallFacts("gone", <<"answered">>, <<>>, recorded, TRUE, entered, mis)
    BY <1>4, <2>1 DEF CallFacts
  <2> QED BY <2>1, <2>2, <2>3
<1>5. CASE ~mis /\ ~entered
  <2>1. ~recorded /\ rs = <<>> /\ Tail(ev) = <<>>
    BY <1>2, <1>5 DEF CallFacts
  <2>2. CallFacts("gone", <<"no_answer">>, <<>>, TRUE, TRUE, entered, mis)
    BY <1>5 DEF CallFacts
  <2> QED BY <1>1, <1>5, <2>1, <2>2
<1> QED BY <1>3, <1>4, <1>5

(* An event nobody hears.                                                  *)
LEMMA UnheardEvent ==
  ASSUME NEW rs, NEW ev, NEW recorded, NEW cleaned, NEW entered, NEW mis, NEW left,
         CallFacts("gone", rs, ev, recorded, cleaned, entered, mis)
  PROVE  CallFacts("gone", rs, left, recorded, cleaned, entered, TRUE)
BY DEF CallFacts

-----------------------------------------------------------------------------
(* A call that a step leaves alone.                                        *)
LEMMA SameCall ==
  ASSUME NEW d \in Dialers, NEW n \in Numbers, CallInv(d, n),
         phase'[d][n] = phase[d][n], results'[d][n] = results[d][n],
         events'[d][n] = events[d][n],
         n \in resultRecorded'[d] <=> n \in resultRecorded[d],
         n \in cleanedSessions'[d] <=> n \in cleanedSessions[d],
         n \in answered'[d] <=> n \in answered[d],
         n \in missed'[d] <=> n \in missed[d]
  PROVE  CallInv(d, n)'
BY DEF CallInv, CallFacts

LEMMA SameCampaign ==
  ASSUME NEW d \in Dialers, Finished(d),
         status'[d] = status[d] \/ status'[d] # "completed",
         stopped'[d] = stopped[d], currentIndex'[d] = currentIndex[d],
         phoneList'[d] = phoneList[d], activeCalls'[d] = activeCalls[d]
  PROVE  Finished(d)'
BY DEF Finished

(* A step that fills the slots of d, which is running or has been freed    *)
(* one, leaves every call as it should be if it is so before the loop.     *)
LEMMA FillSlotsStep ==
  ASSUME CampaignInv, NEW d \in Dialers, NEW st \in Statuses, NEW len \in 0..MaxNumbers,
         NEW active \in 0..MaxConcurrent,
         NEW res \in ResultLists, NEW ph \in [Numbers -> Phases],
         Untouched(ph, currentIndex[d]),
         FillSlots(d, st, len, active, res, ph),
         st = "completed" => stopped[d],
         phoneList'[d] = len, stopped' = stopped, answered' = answered, missed' = missed,
         \A e \in Dialers \ {d} :
           /\ phoneList'[e] = phoneList[e] /\ events'[e] = events[e]
           /\ resultRecorded'[e] = resultRecorded[e]
           /\ cleanedSessions'[e] = cleanedSessions[e],
         \A m \in Numbers :
           CallFacts(ph[m], res[m], events'[d][m], m \in resultRecorded'[d],
                     m \in cleanedSessions'[d], m \in answered[d], m \in missed[d])
  PROVE  /\ \A e \in Dialers, m \in Numbers : CallInv(e, m)'
         /\ \A e \in Dialers : Finished(e)'
<1>1. /\ \A m \in Numbers :
           \/ phase'[d][m] = ph[m] /\ results'[d][m] = res[m]
           \/ ph[m] = "none" /\ phase'[d][m] = "requested" /\ results'[d][m] = res[m]
           \/ /\ ph[m] = "none" /\ phase'[d][m] = "refused"
              /\ results'[d][m] = Append(res[m], "failed")
      /\ \/ status'[d] = st /\ completions'[d] = completions[d]
         \/ /\ status'[d] = "completed" /\ completions'[d] > completions[d]
            /\ currentIndex'[d] >= len /\ activeCalls'[d] = 0
      /\ \A e \in Dialers \ {d} :
           /\ status'[e] = status[e] /\ completions'[e] = completions[e]
           /\ phase'[e] = phase[e] /\ results'[e] = results[e]
           /\ currentIndex'[e] = currentIndex[e] /\ activeCalls'[e] = activeCalls[e]
  BY FillSlotsCalls DEF CampaignInv
<1>2. ASSUME NEW m \in Numbers PROVE CallInv(d, m)'
  <2>1. CASE phase'[d][m] = ph[m] /\ results'[d][m] = res[m]
    BY <2>1 DEF CallInv
  <2>2. CASE ph[m] = "none" /\ phase'[d][m] = "requested" /\ results'[d][m] = res[m]
    BY <2>2, NewCall DEF CallInv
  <2>3. CASE /\ ph[m] = "none" /\ phase'[d][m] = "refused"
             /\ results'[d][m] = Append(res[m], "failed")
    BY <2>3, NewCall DEF CallInv
  <2> QED BY <1>1, <2>1, <2>2, <2>3
<1>3. ASSUME NEW e \in Dialers \ {d}, NEW m \in Numbers PROVE CallInv(e, m)'
  BY <1>1, SameCall DEF CampaignInv
<1>4. Finished(d)'
  BY <1>1 DEF Finished
<1>5. ASSUME NEW e \in Dialers \ {d} PROVE Finished(e)'
  BY <1>1, SameCampaign DEF CampaignInv
<1> QED BY <1>2, <1>3, <1>4, <1>5

-----------------------------------------------------------------------------
(* What every lemma about an action proves: Inv' is NextInv.               *)
Kept == (\A d \in Dialers, n \in Numbers : CallInv(d, n)) /\ (\A d \in Dialers : Finished(d))

LEMMA StartKept == ASSUME CampaignInv, NEW d \in Dialers, Start(d) PROVE Kept'
<1>1. PICK len \in ListLengths[d] :
        /\ phoneList' = [phoneList EXCEPT ![d] = len]
        /\ FillSlots(d, "running", len, activeCalls[d], results[d], phase[d])
  BY DEF Start
<1>2. UNCHANGED <<activeChannels, cleanedSessions, resultRecorded, stopped,
                  answered, events, listening, hangups, missed, deaf>>
  BY DEF Start
<1>3. Inv /\ len \in 0..MaxNumbers /\ "running" \in Statuses
  BY DialerAssumption DEF CampaignInv, Statuses
<1>4. phoneList'[d] = len /\ \A e \in Dialers \ {d} : phoneList'[e] = phoneList[e]
  BY <1>1, <1>3 DEF Inv, TypeOK
<1>5. \A m \in Numbers :
        CallFacts(phase[d][m], results[d][m], events'[d][m], m \in resultRecorded'[d],
                  m \in cleanedSessions'[d], m \in answered[d], m \in missed[d])
  BY <1>2 DEF CampaignInv, CallInv
<1> QED BY <1>1, <1>2, <1>3, <1>4, <1>5, InvFacts, FillSlotsStep DEF Kept

LEMMA ResumeKept == ASSUME CampaignInv, NEW d \in Dialers, Resume(d) PROVE Kept'
<1>1. FillSlots(d, "running", phoneList[d], activeCalls[d], results[d], phase[d])
  BY DEF Resume
<1>2. UNCHANGED <<phoneList, activeChannels, cleanedSessions, resultRecorded, stopped,
                  answered, events, listening, hangups, missed, deaf>>
  BY DEF Resume
<1>3. Inv /\ "running" \in Statuses
  BY DEF CampaignInv, Statuses
<1>4. \A m \in Numbers :
        CallFacts(phase[d][m], results[d][m], events'[d][m], m \in resultRecorded'[d],
                  m \in cleanedSessions'[d], m \in answered[d], m \in missed[d])
  BY <1>2 DEF CampaignInv, CallInv
<1> QED BY <1>1, <1>2, <1>3, <1>4, InvFacts, FillSlotsStep DEF Kept

(* A campaign that completed by itself has no call to free the slot of.    *)
LEMMA FreedIsUnfinished ==
  ASSUME CampaignInv, NEW d \in Dialers, NEW n \in Numbers,
         phase[d][n] \notin {"none", "refused"}, n \notin cleanedSessions[d]
  PROVE  /\ status[d] = "completed" => stopped[d]
         /\ activeCalls[d] - 1 \in 0..MaxConcurrent
<1>1. Inv /\ n \in Holding(phase[d], cleanedSessions[d])
  BY DEF CampaignInv, Holding
<1>2. activeCalls[d] - 1 \in Nat /\ activeCalls[d] \in 0..MaxConcurrent /\ MaxConcurrent \in Nat
  BY <1>1, HolderCounted, InvFacts
<1> QED BY <1>2 DEF CampaignInv, Finished

LEMMA OriginateFailsKept ==
  ASSUME CampaignInv, NEW d \in Dialers, NEW n \in Numbers, OriginateFails(d, n)
  PROVE  Kept'
<1> DEFINE ph == [phase[d] EXCEPT ![n] = "refused"]
           res == [results[d] EXCEPT ![n] = Append(results[d][n], "failed")]
<1>1. /\ phase[d][n] \notin {"none", "refused"} /\ n \notin listening[d]
      /\ FillSlots(d, status[d], phoneList[d], activeCalls[d] - 1, res, ph)
      /\ events' = [events EXCEPT ![d][n] = <<>>]
      /\ UNCHANGED <<phoneList, activeChannels, cleanedSessions, resultRecorded, stopped,
                     answered, listening, hangups, missed, deaf>>
  BY DEF OriginateFails
<1>2. Inv /\ ph \in [Numbers -> Phases] /\ res \in ResultLists
  BY InvFacts, RecordType DEF CampaignInv, Phases, Results
<1>3. Untouched(ph, currentIndex[d])
  BY <1>1, <1>2, InvFacts DEF Untouched
<1>4. n \notin cleanedSessions[d] /\ n \notin resultRecorded[d]
  BY <1>1 DEF CampaignInv, HeardFirst
<1>a. /\ events'[d][n] = <<>>
      /\ \A m \in Numbers \ {n} : events'[d][m] = events[d][m]
      /\ \A e \in Dialers \ {d} : events'[e] = events[e]
  BY <1>1, <1>2 DEF Inv, TypeOK
<1>5. (status[d] = "completed" => stopped[d]) /\ activeCalls[d] - 1 \in 0..MaxConcurrent
  BY <1>1, <1>4, FreedIsUnfinished
<1>6. ASSUME NEW m \in Numbers
      PROVE  CallFacts(ph[m], res[m], events'[d][m], m \in resultRecorded'[d],
                       m \in cleanedSessions'[d], m \in answered[d], m \in missed[d])
  <2>1. CallInv(d, m)
    BY DEF CampaignInv
  <2>2. CASE m = n
    <3>1. /\ results[d][m] = <<>> /\ events'[d][m] = <<>>
          /\ m \notin resultRecorded'[d] /\ m \notin cleanedSessions'[d]
      BY <1>1, <1>4, <1>a, <2>1, <2>2 DEF CallInv, CallFacts
    <3>2. ph[m] = "refused" /\ res[m] = <<"failed">>
      <4>1. Append(<<>>, "failed") = <<"failed">>
        OBVIOUS
      <4>2. ph[m] = "refused" /\ res[m] = Append(results[d][m], "failed")
        BY <1>2, <2>2, InvFacts DEF ResultLists
      <4> QED BY <3>1, <4>1, <4>2
    <3> QED BY <3>1, <3>2 DEF CallFacts
  <2>3. CASE m # n
    <3>1. ph[m] = phase[d][m] /\ res[m] = results[d][m]
      BY <1>2, <2>3, InvFacts DEF ResultLists
    <3> QED BY <1>1, <1>a, <2>1, <2>3, <3>1 DEF CallInv
  <2> QED BY <2>2, <2>3
<1> HIDE DEF ph, res
<1>7. /\ status[d] \in Statuses /\ phoneList[d] \in 0..MaxNumbers /\ phoneList'[d] = phoneList[d]
      /\ stopped' = stopped /\ answered' = answered /\ missed' = missed
      /\ \A e \in Dialers \ {d} :
           /\ phoneList'[e] = phoneList[e] /\ events'[e] = events[e]
           /\ resultRecorded'[e] = resultRecorded[e]
           /\ cleanedSessions'[e] = cleanedSessions[e]
  BY <1>1, <1>2, <1>a, InvFacts
<1> QED BY <1>1, <1>2, <1>3, <1>5, <1>6, <1>7, FillSlotsStep DEF Kept

(* cleanupCall() for a call whose event leaves it as it should be.         *)
LEMMA CleanupCallKept ==
  ASSUME CampaignInv, NEW d \in Dialers, NEW n \in Numbers, NEW res \in ResultLists, NEW e,
         Hears(d, n, e), CleanupCall(d, n, res),
         UNCHANGED <<phoneList, stopped, answered, missed>>,
         \A m \in Numbers \ {n} : /\ res[m] = results[d][m]
                                  /\ m \in resultRecorded'[d] <=> m \in resultRecorded[d],
         \A f \in Dialers \ {d} : resultRecorded'[f] = resultRecorded[f],
         CallFacts("gone", res[n], Tail(events[d][n]), n \in resultRecorded'[d], TRUE,
                   n \in answered[d], n \in missed[d])
  PROVE  Kept'
<1>1. Inv /\ TypeOK
  BY DEF CampaignInv, Inv
<1>2. /\ phase[d][n] = "gone"
      /\ \A f \in Dialers \ {d} : events'[f] = events[f]
  BY <1>1, HearsFacts
<1>3. /\ events'[d][n] = Tail(events[d][n])
      /\ \A m \in Numbers \ {n} : events'[d][m] = events[d][m]
  BY <1>1 DEF Hears, TypeOK
<1>4. CASE n \in cleanedSessions[d]
  <2>1. /\ results' = [results EXCEPT ![d] = res]
        /\ UNCHANGED <<status, currentIndex, activeCalls, cleanedSessions, phase>>
    BY <1>4 DEF CleanupCall
  <2>2. results'[d] = res /\ \A f \in Dialers \ {d} : results'[f] = results[f]
    BY <1>1, <2>1 DEF TypeOK
  <2>3. CallInv(d, n)'
    BY <1>2, <1>3, <1>4, <2>1, <2>2 DEF CallInv
  <2>4. ASSUME NEW m \in Numbers \ {n} PROVE CallInv(d, m)'
    BY <1>3, <2>1, <2>2, SameCall DEF CampaignInv
  <2>5. ASSUME NEW f \in Dialers \ {d}, NEW m \in Numbers PROVE CallInv(f, m)'
    BY <1>2, <2>1, <2>2, SameCall DEF CampaignInv
  <2>6. ASSUME NEW f \in Dialers PROVE Finished(f)'
    BY <2>1, SameCampaign DEF CampaignInv
  <2> QED BY <2>3, <2>4, <2>5, <2>6 DEF Kept
<1>5. CASE n \notin cleanedSessions[d]
  <2>1. /\ cleanedSessions' = [cleanedSessions EXCEPT ![d] = cleanedSessions[d] \cup {n}]
        /\ FillSlots(d, status[d], phoneList[d], activeCalls[d] - 1, res, phase[d])
    BY <1>5 DEF CleanupCall
  <2>2. /\ cleanedSessions'[d] = cleanedSessions[d] \cup {n}
        /\ \A f \in Dialers \ {d} : cleanedSessions'[f] = cleanedSessions[f]
    BY <1>1, <2>1 DEF TypeOK
  <2>3. (status[d] = "completed" => stopped[d]) /\ activeCalls[d] - 1 \in 0..MaxConcurrent
    BY <1>2, <1>5, FreedIsUnfinished
  <2>4. ASSUME NEW m \in Numbers
        PROVE  CallFacts(phase[d][m], res[m], events'[d][m], m \in resultRecorded'[d],
                         m \in cleanedSessions'[d], m \in answered[d], m \in missed[d])
    <3>1. CASE m = n
      BY <1>2, <1>3, <2>2, <3>1
    <3>2. CASE m # n
      <4>1. CallInv(d, m)
        BY DEF CampaignInv
      <4> QED BY <1>3, <2>2, <3>2, <4>1 DEF CallInv, CallFacts
    <3> QED BY <3>1, <3>2
  <2>5. /\ status[d] \in Statuses /\ phoneList[d] \in 0..MaxNumbers
        /\ phase[d] \in [Numbers -> Phases] /\ Untouched(phase[d], currentIndex[d])
    BY <1>1, InvFacts
  <2>6. /\ phoneList'[d] = phoneList[d] /\ stopped' = stopped
        /\ answered' = answered /\ missed' = missed
        /\ \A f \in Dialers \ {d} :
             /\ phoneList'[f] = phoneList[f] /\ events'[f] = events[f]
             /\ resultRecorded'[f] = resultRecorded[f]
             /\ cleanedSessions'[f] = cleanedSessions[f]
    BY <1>2, <2>2
  <2>7. /\ \A f \in Dialers, m \in Numbers : CallInv(f, m)'
        /\ \A f \in Dialers : Finished(f)'
    BY <2>1, <2>3, <2>4, <2>5, <2>6, FillSlotsStep
  <2> QED BY <2>7 DEF Kept
<1> QED BY <1>4, <1>5

LEMMA RecordOnceKept ==
  ASSUME CampaignInv, NEW d \in Dialers, NEW n \in Numbers, NEW r \in Results, NEW e,
         Hears(d, n, e), RecordOnce(d, n, r),
         UNCHANGED <<phoneList, stopped, answered, missed>>,
         <<e, r>> \in {<<"StasisEnd", "answered">>, <<"ChannelDestroyed", "no_answer">>}
  PROVE  Kept'
<1>1. /\ Inv /\ resultRecorded \in [Dialers -> SUBSET Numbers]
      /\ results[d] \in ResultLists
  BY InvFacts DEF CampaignInv, Inv, TypeOK
<1>2. phase[d][n] = "gone" /\ events[d][n] # <<>> /\ Head(events[d][n]) = e
  BY <1>1, HearsFacts DEF Hears
<1>3. CallFacts("gone", results[d][n], events[d][n], n \in resultRecorded[d],
                n \in cleanedSessions[d], n \in answered[d], n \in missed[d])
  BY <1>2 DEF CampaignInv, CallInv
<1>4. /\ n \in resultRecorded[d] =>
           CallFacts("gone", results[d][n], Tail(events[d][n]), TRUE, TRUE,
                     n \in answered[d], n \in missed[d])
      /\ n \notin resultRecorded[d] =>
           CallFacts("gone", Append(results[d][n], r), Tail(events[d][n]), TRUE, TRUE,
                     n \in answered[d], n \in missed[d])
  <2>1. CASE e = "StasisEnd" /\ r = "answered"
    <3>1. Head(events[d][n]) = "StasisEnd"
      BY <1>2, <2>1
    <3>2. /\ n \in resultRecorded[d] =>
               CallFacts("gone", results[d][n], Tail(events[d][n]), TRUE, TRUE,
                         n \in answered[d], n \in missed[d])
          /\ n \notin resultRecorded[d] =>
               CallFacts("gone", Append(results[d][n], "answered"), Tail(events[d][n]),
                         TRUE, TRUE, n \in answered[d], n \in missed[d])
      BY <1>2, <1>3, <3>1, HeardStasisEnd
    <3> QED BY <2>1, <3>2
  <2>2. CASE e = "ChannelDestroyed" /\ r = "no_answer"
    <3>1. Head(events[d][n]) = "ChannelDestroyed"
      BY <1>2, <2>2
    <3>2. /\ n \in resultRecorded[d] =>
               CallFacts("gone", results[d][n], Tail(events[d][n]), TRUE, TRUE,
                         n \in answered[d], n \in missed[d])
          /\ n \notin resultRecorded[d] =>
               CallFacts("gone", Append(results[d][n], "no_answer"), Tail(events[d][n]),
                         TRUE, TRUE, n \in answered[d], n \in missed[d])
      BY <1>2, <1>3, <3>1, HeardChannelDestroyed
    <3> QED BY <2>2, <3>2
  <2> QED BY <2>1, <2>2
<1>5. CASE n \in resultRecorded[d]
  <2>1. UNCHANGED resultRecorded /\ CleanupCall(d, n, results[d])
    BY <1>5 DEF RecordOnce
  <2>2. CallFacts("gone", results[d][n], Tail(events[d][n]), n \in resultRecorded'[d], TRUE,
                  n \in answered[d], n \in missed[d])
    BY <1>4, <1>5, <2>1 DEF CallFacts
  <2> QED BY <1>1, <2>1, <2>2, CleanupCallKept
<1>6. CASE n \notin resultRecorded[d]
  <2> DEFINE res == [results[d] EXCEPT ![n] = Append(results[d][n], r)]
  <2>1. /\ resultRecorded' = [resultRecorded EXCEPT ![d] = resultRecorded[d] \cup {n}]
        /\ CleanupCall(d, n, res)
    BY <1>6 DEF RecordOnce
  <2>2. /\ resultRecorded'[d] = resultRecorded[d] \cup {n}
        /\ \A f \in Dialers \ {d} : resultRecorded'[f] = resultRecorded[f]
    BY <1>1, <2>1
  <2>3. /\ res \in ResultLists /\ res[n] = Append(results[d][n], r)
        /\ \A m \in Numbers \ {n} : res[m] = results[d][m]
    BY <1>1, RecordType DEF ResultLists
  <2> HIDE DEF res
  <2>4. CallFacts("gone", res[n], Tail(events[d][n]), n \in resultRecorded'[d], TRUE,
                  n \in answered[d], n \in missed[d])
    BY <1>4, <1>6, <2>2, <2>3 DEF CallFacts
  <2> QED BY <2>1, <2>2, <2>3, <2>4, CleanupCallKept
<1> QED BY <1>5, <1>6

LEMMA EventKept ==
  ASSUME CampaignInv, NEW d \in Dialers, NEW n \in Numbers,
         OnChannelDestroyed(d, n) \/ OnStasisEnd(d, n)
  PROVE  Kept'
<1>1. CASE OnStasisEnd(d, n)
  BY <1>1, RecordOnceKept DEF OnStasisEnd, Results
<1>2. CASE OnChannelDestroyed(d, n) /\ RecordOnce(d, n, "no_answer")
  BY <1>2, RecordOnceKept DEF OnChannelDestroyed, Results
<1>3. CASE /\ OnChannelDestroyed(d, n) /\ n \in answered[d]
           /\ UNCHANGED resultRecorded /\ CleanupCall(d, n, results[d])
  <2>1. /\ Hears(d, n, "ChannelDestroyed") /\ Inv
        /\ UNCHANGED <<phoneList, stopped, answered, missed>>
    BY <1>3 DEF OnChannelDestroyed, CampaignInv
  <2>2. phase[d][n] = "gone" /\ events[d][n] # <<>> /\ Head(events[d][n]) = "ChannelDestroyed"
    BY <2>1, HearsFacts DEF Hears
  <2>3. CallFacts("gone", results[d][n], events[d][n], n \in resultRecorded[d],
                  n \in cleanedSessions[d], n \in answered[d], n \in missed[d])
    BY <2>2 DEF CampaignInv, CallInv
  <2>4. CallFacts("gone", results[d][n], Tail(events[d][n]), n \in resultRecorded[d], TRUE,
                  n \in answered[d], n \in missed[d])
    BY <1>3, <2>2, <2>3, HeardChannelDestroyed
  <2>5. CallFacts("gone", results[d][n], Tail(events[d][n]), n \in resultRecorded'[d], TRUE,
                  n \in answered[d], n \in missed[d])
    BY <1>3, <2>4
  <2>6. results[d] \in ResultLists
    BY <2>1, InvFacts
  <2> QED BY <1>3, <2>1, <2>5, <2>6, CleanupCallKept
<1> QED BY <1>1, <1>2, <1>3 DEF OnChannelDestroyed

(* Pause, stop and the reply to an originate touch no call.                *)
LEMMA QuietKept ==
  ASSUME CampaignInv, NEW d \in Dialers,
         Pause(d) \/ Stop(d) \/ \E n \in Numbers : OriginateReturns(d, n)
  PROVE  Kept'
<1>1. UNCHANGED <<phoneList, currentIndex, activeCalls, cleanedSessions, resultRecorded,
                  results, phase, answered, events, missed>>
  BY DEF Pause, Stop, OriginateReturns, pbxVars
<1>2. ASSUME NEW f \in Dialers, NEW m \in Numbers PROVE CallInv(f, m)'
  BY <1>1, SameCall DEF CampaignInv
<1>3. ASSUME NEW f \in Dialers PROVE Finished(f)'
  <2>1. Finished(f) /\ TypeOK
    BY DEF CampaignInv, Inv
  <2>2. CASE Pause(d)
    BY <1>1, <2>1, <2>2, SameCampaign DEF Pause, TypeOK
  <2>3. CASE Stop(d)
    BY <1>1, <2>1, <2>3 DEF Stop, TypeOK, Finished
  <2>4. CASE \E n \in Numbers : OriginateReturns(d, n)
    BY <1>1, <2>1, <2>4, SameCampaign DEF OriginateReturns
  <2> QED BY <2>2, <2>3, <2>4
<1> QED BY <1>2, <1>3 DEF Kept

(* A step that changes one call, as Asterisk does.                         *)
LEMMA OneCallKept ==
  ASSUME CampaignInv, NEW d \in Dialers, NEW n \in Numbers, UNCHANGED dialerVars,
         CallInv(d, n)',
         \A f \in Dialers, m \in Numbers :
           f # d \/ m # n =>
             /\ phase'[f][m] = phase[f][m] /\ events'[f][m] = events[f][m]
             /\ m \in answered'[f] <=> m \in answered[f]
             /\ m \in missed'[f] <=> m \in missed[f]
  PROVE  Kept'
<1>1. ASSUME NEW f \in Dialers, NEW m \in Numbers, f # d \/ m # n PROVE CallInv(f, m)'
  BY <1>1, SameCall DEF CampaignInv, dialerVars
<1>2. ASSUME NEW f \in Dialers PROVE Finished(f)'
  BY SameCampaign DEF CampaignInv, dialerVars
<1> QED BY <1>1, <1>2 DEF Kept

(* An originate is answered by a channel, the channel by a person.         *)
LEMMA AnswerKept ==
  ASSUME CampaignInv, NEW d \in Dialers, NEW n \in Numbers,
         ChannelCreated(d, n) \/ Answer(d, n)
  PROVE  Kept'
<1>1. /\ phase \in [Dialers -> [Numbers -> Phases]]
      /\ answered \in [Dialers -> SUBSET Numbers]
  BY DEF CampaignInv, Inv, TypeOK
<1>2. CallInv(d, n)
  BY DEF CampaignInv
<1>3. UNCHANGED <<dialerVars, events, missed>>
  BY DEF ChannelCreated, Answer
<1>4. CallInv(d, n)'
  BY <1>1, <1>2, <1>3 DEF ChannelCreated, Answer, dialerVars, CallInv, CallFacts
<1>5. \A f \in Dialers, m \in Numbers :
        f # d \/ m # n =>
          /\ phase'[f][m] = phase[f][m]
          /\ m \in answered'[f] <=> m \in answered[f]
  BY <1>1 DEF ChannelCreated, Answer
<1> QED BY <1>3, <1>4, <1>5, OneCallKept

(* A channel is destroyed: its events are on their way.                    *)
LEMMA GoneKept ==
  ASSUME CampaignInv, NEW d \in Dialers, NEW n \in Numbers,
         Unanswered(d, n) \/ HangUp(d, n)
  PROVE  Kept'
<1>1. /\ phase \in [Dialers -> [Numbers -> Phases]]
      /\ events \in [Dialers -> [Numbers -> Seq(Events)]]
  BY DEF CampaignInv, Inv, TypeOK
<1>2. CallInv(d, n)
  BY DEF CampaignInv
<1>3. UNCHANGED <<dialerVars, answered, missed>>
  BY DEF Unanswered, HangUp
<1>4. CASE Unanswered(d, n)
  <2> DEFINE new == Append(events[d][n], "ChannelDestroyed")
  <2>1. /\ phase[d][n] = "ringing" /\ phase' = [phase EXCEPT ![d][n] = "gone"]
        /\ events' = [events EXCEPT ![d][n] = new]
    BY <1>4 DEF Unanswered
  <2>2. /\ n \notin resultRecorded[d] /\ results[d][n] = <<>> /\ n \notin cleanedSessions[d]
        /\ events[d][n] = <<>> /\ n \notin answered[d]
    BY <1>2, <2>1 DEF CallInv, CallFacts
  <2>3. new = <<"ChannelDestroyed">>
    BY <2>2
  <2> HIDE DEF new
  <2>4. /\ phase'[d][n] = "gone" /\ events'[d][n] = <<"ChannelDestroyed">>
        /\ \A f \in Dialers, m \in Numbers :
             f # d \/ m # n => phase'[f][m] = phase[f][m] /\ events'[f][m] = events[f][m]
    BY <1>1, <2>1, <2>3
  <2>5. CallInv(d, n)'
    BY <1>3, <2>2, <2>4 DEF dialerVars, CallInv, CallFacts
  <2> QED BY <1>3, <2>4, <2>5, OneCallKept
<1>5. CASE HangUp(d, n)
  <2> DEFINE new == events[d][n] \o <<"StasisEnd", "ChannelDestroyed">>
  <2>1. /\ phase[d][n] = "up" /\ phase' = [phase EXCEPT ![d][n] = "gone"]
        /\ events' = [events EXCEPT ![d][n] = new]
    BY <1>5 DEF HangUp
  <2>2. /\ n \notin resultRecorded[d] /\ results[d][n] = <<>> /\ n \notin cleanedSessions[d]
        /\ events[d][n] = <<>> /\ n \in answered[d]
    BY <1>2, <2>1 DEF CallInv, CallFacts
  <2>3. new = <<"StasisEnd", "ChannelDestroyed">>
    <3>1. <<"StasisEnd", "ChannelDestroyed">> \in Seq(Events)
      BY DEF Events
    <3>2. <<>> \o <<"StasisEnd", "ChannelDestroyed">> = <<"StasisEnd", "ChannelDestroyed">>
      BY <3>1, ConcatEmptySeq, Zenon
    <3> QED BY <2>2, <3>2, Zenon
  <2> HIDE DEF new
  <2>4. /\ phase'[d][n] = "gone" /\ events'[d][n] = <<"StasisEnd", "ChannelDestroyed">>
        /\ \A f \in Dialers, m \in Numbers :
             f # d \/ m # n => phase'[f][m] = phase[f][m] /\ events'[f][m] = events[f][m]
    BY <1>1, <2>1, <2>3
  <2>5. CallInv(d, n)'
    BY <1>3, <2>2, <2>4 DEF dialerVars, CallInv, CallFacts
  <2> QED BY <1>3, <2>4, <2>5, OneCallKept
<1> QED BY <1>4, <1>5

LEMMA EventMissedKept ==
  ASSUME CampaignInv, NEW d \in Dialers, NEW n \in Numbers, EventMissed(d, n)
  PROVE  Kept'
<1>1. /\ Inv /\ events \in [Dialers -> [Numbers -> Seq(Events)]]
      /\ missed \in [Dialers -> SUBSET Numbers]
  BY DEF CampaignInv, Inv, TypeOK
<1>2. /\ events[d][n] # <<>> /\ events' = [events EXCEPT ![d][n] = Tail(events[d][n])]
      /\ missed' = [missed EXCEPT ![d] = missed[d] \cup {n}]
      /\ UNCHANGED <<dialerVars, phase, answered>>
  BY DEF EventMissed
<1>3. CallInv(d, n) /\ phase[d][n] = "gone"
  BY <1>1, <1>2, InvFacts DEF CampaignInv
<1>4. /\ n \in missed'[d]
      /\ \A f \in Dialers, m \in Numbers :
           f # d \/ m # n =>
             /\ events'[f][m] = events[f][m]
             /\ m \in missed'[f] <=> m \in missed[f]
  BY <1>1, <1>2
<1>5. CallInv(d, n)'
  BY <1>2, <1>3, <1>4 DEF dialerVars, CallInv, CallFacts
<1> QED BY <1>2, <1>4, <1>5, OneCallKept

(* A step that changes no call and no campaign.                            *)
LEMMA StutterKept ==
  ASSUME CampaignInv, ConnectionLost \/ UNCHANGED vars
  PROVE  Kept'
<1>1. UNCHANGED <<dialerVars, phase, answered, events, missed>>
  BY DEF ConnectionLost, vars, pbxVars
<1>2. ASSUME NEW f \in Dialers, NEW m \in Numbers PROVE CallInv(f, m)'
  BY <1>1, SameCall DEF CampaignInv, dialerVars
<1>3. ASSUME NEW f \in Dialers PROVE Finished(f)'
  BY <1>1, SameCampaign DEF CampaignInv, dialerVars
<1> QED BY <1>2, <1>3 DEF Kept

-----------------------------------------------------------------------------
LEMMA InitCampaignInv == Init => CampaignInv
<1> SUFFICES ASSUME Init PROVE CampaignInv
  OBVIOUS
<1>1. Inv /\ HeardFirst
  BY InitInv, InitHeard
<1>2. ASSUME NEW d \in Dialers, NEW n \in Numbers PROVE CallInv(d, n)
  BY DEF Init, CallInv, CallFacts
<1>3. ASSUME NEW d \in Dialers PROVE Finished(d)
  BY DEF Init, Finished
<1> QED BY <1>1, <1>2, <1>3 DEF CampaignInv

LEMMA NextCampaignInv == CampaignInv /\ [Next]_vars => CampaignInv'
<1> SUFFICES ASSUME CampaignInv, [Next]_vars PROVE CampaignInv'
  OBVIOUS
<1>1. Inv' /\ HeardFirst'
  BY NextInv DEF CampaignInv
<1>2. CASE \E d \in Dialers : Start(d) \/ Pause(d) \/ Resume(d) \/ Stop(d)
  BY <1>1, <1>2, StartKept, ResumeKept, QuietKept DEF Kept, CampaignInv
<1>3. CASE \E d \in Dialers : Callback(d)
  BY <1>1, <1>3, OriginateFailsKept, QuietKept, EventKept DEF Callback, Kept, CampaignInv
<1>4. CASE \E d \in Dialers : Asterisk(d)
  BY <1>1, <1>4, AnswerKept, GoneKept, EventMissedKept DEF Asterisk, Kept, CampaignInv
<1>5. CASE ConnectionLost \/ UNCHANGED vars
  BY <1>1, <1>5, StutterKept DEF Kept, CampaignInv
<1> QED BY <1>2, <1>3, <1>4, <1>5 DEF Next

(* What each call's results and events say of each other, and that a       *)
(* campaign which completed by itself has nothing left to do, holds in     *)
(* every reachable state.                                                  *)
THEOREM CampaignInvariance == Spec => []CampaignInv
BY InitCampaignInv, NextCampaignInv, PTL DEF Spec

(* A number gets at most one result, and a call that is over has the true  *)
(* one, unless one of its events reached nobody (setupOutboundCall).       *)
THEOREM ResultsAreTruthful == Spec => []ResultsTruthful
<1>1. ASSUME CampaignInv, NEW d \in Dialers, NEW n \in Numbers
      PROVE  /\ Len(results[d][n]) <= 1
             /\ n \in Concluded(d) \ missed[d] => results[d][n] = <<TrueResult(d, n)>>
  <2>1. CallInv(d, n) /\ Inv
    BY <1>1 DEF CampaignInv
  <2>2. Len(results[d][n]) <= 1
    <3>1. results[d][n] \in {<<>>, <<"failed">>, <<"answered">>, <<"no_answer">>}
      BY <2>1 DEF CallInv, CallFacts
    <3>2. /\ Len(<<>>) <= 1 /\ Len(<<"failed">>) <= 1
          /\ Len(<<"answered">>) <= 1 /\ Len(<<"no_answer">>) <= 1
      OBVIOUS
    <3> QED BY <3>1, <3>2
  <2>3. ASSUME n \in Concluded(d) \ missed[d] PROVE results[d][n] = <<TrueResult(d, n)>>
    <3>1. CASE phase[d][n] = "refused"
      <4>1. TrueResult(d, n) = "failed"
        BY <3>1 DEF TrueResult
      <4> QED BY <2>1, <3>1, <4>1 DEF CallInv, CallFacts
    <3>2. CASE phase[d][n] # "refused"
      <4>1. n \in cleanedSessions[d] /\ n \notin missed[d] /\ phase[d][n] = "gone"
        BY <2>1, <2>3, <3>2, InvFacts DEF Concluded
      <4>2. TrueResult(d, n) = IF n \in answered[d] THEN "answered" ELSE "no_answer"
        BY <3>2 DEF TrueResult
      <4>3. results[d][n] = IF n \in answered[d] THEN <<"answered">> ELSE <<"no_answer">>
        BY <2>1, <4>1 DEF CallInv, CallFacts
      <4> QED BY <4>2, <4>3
    <3> QED BY <3>1, <3>2
  <2> QED BY <2>2, <2>3
<1>2. CampaignInv => ResultsTruthful
  BY <1>1 DEF ResultsTruthful
<1> QED BY <1>2, CampaignInvariance, PTL

(* A campaign that was not stopped is complete only when every number of   *)
(* its list was called and has its result, and no call of it is left.      *)
THEOREM CompletionsAreTotal == Spec => []CompletionIsTotal
<1>1. ASSUME CampaignInv, NEW d \in Dialers, status[d] = "completed", ~stopped[d]
      PROVE  /\ Live(d) = {}
             /\ \A n \in 1..phoneList[d] : Len(results[d][n]) = 1 \/ n \in missed[d]
  <2>1. Inv /\ currentIndex[d] >= phoneList[d] /\ activeCalls[d] = 0
    BY <1>1 DEF CampaignInv, Finished
  <2>2. Holding(phase[d], cleanedSessions[d]) \in SUBSET Numbers
    BY DEF Holding
  <2>3. Holding(phase[d], cleanedSessions[d]) = {}
    <3>1. /\ IsFiniteSet(Holding(phase[d], cleanedSessions[d]))
          /\ Cardinality(Holding(phase[d], cleanedSessions[d])) = 0
      BY <2>1, <2>2, FiniteNumbers, InvFacts
    <3> QED BY <3>1, FS_EmptySet, Zenon
  <2>4. ASSUME NEW n \in Numbers, phase[d][n] \notin {"none", "refused"}
        PROVE  n \in cleanedSessions[d] /\ phase[d][n] = "gone"
    BY <2>1, <2>3, <2>4, InvFacts DEF Holding
  <2>5. Live(d) = {}
    BY <2>4 DEF Live
  <2>6. ASSUME NEW n \in 1..phoneList[d]
        PROVE  Len(results[d][n]) = 1 \/ n \in missed[d]
    <3>1. /\ n \in Numbers /\ currentIndex[d] \in Nat /\ phoneList[d] \in 0..MaxNumbers
          /\ n <= currentIndex[d]
      BY <2>1, DialerAssumption DEF Inv, TypeOK, Numbers
    <3>2. phase[d][n] # "none" /\ CallInv(d, n)
      BY <1>1, <2>1, <3>1, InvFacts DEF Untouched, CampaignInv
    <3>3. CASE phase[d][n] = "refused"
      <4>1. results[d][n] = <<"failed">>
        BY <3>2, <3>3 DEF CallInv, CallFacts
      <4> QED BY <4>1
    <3>4. CASE phase[d][n] # "refused"
      <4>1. phase[d][n] = "gone" /\ n \in cleanedSessions[d]
        BY <2>4, <3>1, <3>2, <3>4
      <4>2. n \in missed[d] \/ results[d][n] \in {<<"answered">>, <<"no_answer">>}
        BY <3>2, <4>1 DEF CallInv, CallFacts
      <4> QED BY <4>2
    <3> QED BY <3>3, <3>4
  <2> QED BY <2>5, <2>6
<1>2. CampaignInv => CompletionIsTotal
  BY <1>1 DEF CompletionIsTotal
<1> QED BY <1>2, CampaignInvariance, PTL

-----------------------------------------------------------------------------
(* The dashboard's slot.                                                   *)
ControlInv == Inv /\ HeardFirst /\ ControlTypeOK /\ SlotIsNotStale

(* The step leaves the status of d alone, or emits "campaignComplete"; the *)
(* other campaigns keep theirs.                                            *)
Announces(d, st) ==
  /\ \/ status'[d] = st /\ completions'[d] = completions[d]
     \/ completions'[d] > completions[d]
  /\ \A e \in Dialers \ {d} : status'[e] = status[e]

LEMMA CleanupCallAnnounces ==
  ASSUME Inv, NEW d \in Dialers, NEW n \in Numbers, NEW e, NEW res \in ResultLists,
         Hears(d, n, e), CleanupCall(d, n, res)
  PROVE  Announces(d, status[d])
<1>1. CASE n \in cleanedSessions[d]
  BY <1>1 DEF CleanupCall, Announces
<1>2. CASE n \notin cleanedSessions[d]
  <2>1. FillSlots(d, status[d], phoneList[d], activeCalls[d] - 1, res, phase[d])
    BY <1>2 DEF CleanupCall
  <2>2. n \in Holding(phase[d], cleanedSessions[d])
    BY <1>2, HearsFacts DEF Holding
  <2>3. activeCalls[d] - 1 \in 0..MaxConcurrent
    <3>1. activeCalls[d] - 1 \in Nat
      BY <2>2, HolderCounted
    <3>2. activeCalls[d] \in 0..MaxConcurrent /\ MaxConcurrent \in Nat
      BY InvFacts
    <3> QED BY <3>1, <3>2
  <2> QED BY <2>1, <2>3, InvFacts, FillSlotsCalls DEF Announces
<1> QED BY <1>1, <1>2

LEMMA CallbackAnnounces ==
  ASSUME Inv, HeardFirst, NEW d \in Dialers, Callback(d)
  PROVE  Announces(d, status[d])
<1>1. PICK n \in Numbers :
        OriginateFails(d, n) \/ OriginateReturns(d, n) \/ OnChannelDestroyed(d, n) \/ OnStasisEnd(d, n)
  BY DEF Callback
<1>2. CASE OriginateFails(d, n)
  <2> DEFINE ph == [phase[d] EXCEPT ![n] = "refused"]
             res == [results[d] EXCEPT ![n] = Append(results[d][n], "failed")]
  <2>1. /\ phase[d][n] \notin {"none", "refused"} /\ n \notin listening[d]
        /\ FillSlots(d, status[d], phoneList[d], activeCalls[d] - 1, res, ph)
    BY <1>2 DEF OriginateFails
  <2>2. ph \in [Numbers -> Phases] /\ res \in ResultLists
    BY InvFacts, RecordType DEF Phases, Results
  <2>3. Untouched(ph, currentIndex[d])
    BY <2>1, InvFacts DEF Untouched
  <2>4. n \in Holding(phase[d], cleanedSessions[d])
    BY <2>1 DEF Holding, HeardFirst
  <2>5. activeCalls[d] - 1 \in 0..MaxConcurrent
    BY <2>4, HolderCounted, InvFacts
  <2> HIDE DEF ph, res
  <2> QED BY <2>1, <2>2, <2>3, <2>5, InvFacts, FillSlotsCalls DEF Announces
<1>3. CASE OriginateReturns(d, n)
  BY <1>3 DEF OriginateReturns, Announces
<1>4. CASE OnChannelDestroyed(d, n) \/ OnStasisEnd(d, n)
  <2>1. PICK e : Hears(d, n, e) /\ \E res \in ResultLists : CleanupCall(d, n, res)
    BY <1>4, InvFacts, RecordType DEF OnChannelDestroyed, OnStasisEnd, RecordOnce, Results
  <2> QED BY <2>1, CleanupCallAnnounces
<1> QED BY <1>1, <1>2, <1>3, <1>4

LEMMA StartAnnounces ==
  ASSUME Inv, NEW d \in Dialers, Start(d) \/ Resume(d)
  PROVE  Announces(d, "running")
<1>1. PICK len \in 0..MaxNumbers :
        FillSlots(d, "running", len, activeCalls[d], results[d], phase[d])
  BY InvFacts, DialerAssumption DEF Start, Resume
<1>2. "running" \in Statuses
  BY DEF Statuses
<1> QED BY <1>1, <1>2, InvFacts, FillSlotsCalls DEF Announces

(* Every step of the dashboard server is one of the dialers, or none.      *)
LEMMA ControlStep == ControlInv /\ [ControlNext]_allVars => [Next]_vars
<1> SUFFICES ASSUME ControlInv, [ControlNext]_allVars PROVE [Next]_vars
  OBVIOUS
<1>1. campaignDialer # NoDialer => campaignDialer \in Dialers
  BY DEF ControlInv, ControlTypeOK
<1>2. CASE \E d \in Dialers : CampaignStart(d) \/ DialerCallback(d)
  BY <1>2 DEF CampaignStart, DialerCallback, Next
<1>3. CASE CampaignPause \/ CampaignResume \/ CampaignStop
  BY <1>1, <1>3 DEF CampaignPause, CampaignResume, CampaignStop, Next
<1>4. CASE Environment
  BY <1>4 DEF Environment, Next
<1>5. CASE UNCHANGED allVars
  BY <1>5 DEF allVars
<1> QED BY <1>2, <1>3, <1>4, <1>5 DEF ControlNext

(* What the "campaignComplete" listener leaves in the slot.                *)
LEMMA OnCompleteKeeps ==
  ASSUME Inv, Inv', ControlTypeOK, NEW d \in Dialers, NEW st \in {"running", "paused"},
         NEW slot \in Dialers \cup {NoDialer},
         slot # NoDialer =>
           \/ Announces(d, status[d]) /\ SlotIsNotStale /\ slot = campaignDialer
           \/ slot = d /\ Announces(d, st),
         OnComplete(d, slot)
  PROVE  ControlTypeOK' /\ SlotIsNotStale'
<1>1. /\ status' \in [Dialers -> Statuses]
      /\ completions \in [Dialers -> Nat] /\ completions' \in [Dialers -> Nat] /\ TypeOK'
  BY DEF Inv, TypeOK
<1> DEFINE emits == completions'[d] - completions[d]
<1>2. /\ campaignDialer' = IF emits > 0 THEN NoDialer ELSE slot
      /\ lastCampaignStatus' =
           CASE emits = 0                      -> lastCampaignStatus
             [] emits = 1 /\ slot # NoDialer   -> <<slot, status'[slot]>>
             [] OTHER                          -> NoDialer
  BY DEF OnComplete
<1>3. emits \in Int
  BY <1>1
<1>4. ControlTypeOK'
  <2>1. lastCampaignStatus \in (Dialers \X Statuses) \cup {NoDialer}
    BY DEF ControlTypeOK
  <2>2. slot # NoDialer => <<slot, status'[slot]>> \in Dialers \X Statuses
    BY <1>1
  <2> HIDE DEF emits
  <2>3. lastCampaignStatus' \in (Dialers \X Statuses) \cup {NoDialer}
    BY <1>2, <1>3, <2>1, <2>2
  <2>4. campaignDialer' \in Dialers \cup {NoDialer}
    BY <1>2
  <2> QED BY <1>1, <2>3, <2>4 DEF ControlTypeOK
<1>5. SlotIsNotStale'
  <2>1. SUFFICES ASSUME slot # NoDialer, campaignDialer' = slot, ~(emits > 0)
                 PROVE  status'[slot] \in {"running", "paused"}
    BY <1>2 DEF SlotIsNotStale
  <2>2. ~(completions'[d] > completions[d])
    BY <1>1, <2>1
  <2>3. CASE Announces(d, status[d]) /\ SlotIsNotStale /\ slot = campaignDialer
    BY <2>1, <2>2, <2>3 DEF Announces, SlotIsNotStale
  <2>4. CASE slot = d /\ Announces(d, st)
    BY <2>2, <2>4 DEF Announces
  <2> QED BY <2>1, <2>3, <2>4
<1> QED BY <1>4, <1>5

LEMMA NextControlInv == ControlInv /\ [ControlNext]_allVars => ControlInv'
<1> SUFFICES ASSUME ControlInv, [ControlNext]_allVars PROVE ControlInv'
  OBVIOUS
<1>1. /\ Inv /\ HeardFirst /\ ControlTypeOK /\ SlotIsNotStale
      /\ campaignDialer \in Dialers \cup {NoDialer}
      /\ lastCampaignStatus \in (Dialers \X Statuses) \cup {NoDialer}
  BY DEF ControlInv, ControlTypeOK
<1>2. Inv' /\ HeardFirst' /\ TypeOK'
  BY <1>1, ControlStep, NextInv DEF Inv
<1>3. status' \in [Dialers -> Statuses] /\ completions \in [Dialers -> Nat]
      /\ completions' \in [Dialers -> Nat] /\ status \in [Dialers -> Statuses]
  BY <1>1, <1>2 DEF Inv, TypeOK
<1>4. ASSUME NEW d \in Dialers, CampaignStart(d) PROVE ControlTypeOK' /\ SlotIsNotStale'
  <2> DEFINE emits == completions'[d] - completions[d]
  <2>1. /\ Announces(d, "running")
        /\ campaignDialer' = IF emits > 0 THEN NoDialer ELSE d
        /\ lastCampaignStatus' = IF emits = 1 THEN <<d, status'[d]>> ELSE NoDialer
    BY <1>1, <1>4, StartAnnounces DEF CampaignStart
  <2>2. ControlTypeOK'
    BY <1>2, <1>3, <2>1 DEF ControlTypeOK
  <2>3. ~(emits > 0) => status'[d] = "running"
    BY <1>3, <2>1 DEF Announces
  <2>4. SlotIsNotStale'
    BY <2>1, <2>3 DEF SlotIsNotStale
  <2> QED BY <2>2, <2>4
<1>5. ASSUME NEW d \in Dialers, DialerCallback(d) PROVE ControlTypeOK' /\ SlotIsNotStale'
  BY <1>1, <1>2, <1>5, CallbackAnnounces, OnCompleteKeeps DEF DialerCallback
<1>6. ASSUME CampaignResume PROVE ControlTypeOK' /\ SlotIsNotStale'
  <2>1. campaignDialer \in Dialers /\ Announces(campaignDialer, "running")
        /\ OnComplete(campaignDialer, campaignDialer)
    BY <1>1, <1>6, StartAnnounces DEF CampaignResume
  <2> QED BY <1>1, <1>2, <2>1, OnCompleteKeeps
<1>7. ASSUME CampaignPause PROVE ControlTypeOK' /\ SlotIsNotStale'
  <2>1. /\ campaignDialer \in Dialers /\ UNCHANGED controlVars
        /\ status' = [status EXCEPT ![campaignDialer] = "paused"]
    BY <1>1, <1>7 DEF CampaignPause, Pause
  <2>2. status'[campaignDialer] = "paused"
    BY <1>3, <2>1
  <2> QED BY <1>1, <1>2, <2>1, <2>2 DEF ControlTypeOK, SlotIsNotStale, controlVars
<1>8. ASSUME CampaignStop PROVE ControlTypeOK' /\ SlotIsNotStale'
  BY <1>1, <1>2, <1>8 DEF CampaignStop, ControlTypeOK, SlotIsNotStale, Statuses
<1>9. ASSUME Environment \/ UNCHANGED allVars PROVE ControlTypeOK' /\ SlotIsNotStale'
  <2>1. UNCHANGED <<status, controlVars>>
    BY <1>9 DEF Environment, allVars, vars, dialerVars, Asterisk, ChannelCreated, Answer,
                Unanswered, HangUp, EventMissed, ConnectionLost
  <2> QED BY <1>1, <1>2, <2>1 DEF ControlTypeOK, SlotIsNotStale, controlVars
<1> QED BY <1>2, <1>4, <1>5, <1>6, <1>7, <1>8, <1>9 DEF ControlNext, ControlInv

LEMMA ControlInvariance == ControlSpec => []ControlInv
<1>1. ControlInit => ControlInv
  BY InitInv, InitHeard DEF ControlInit, ControlInv, ControlTypeOK, SlotIsNotStale, Inv
<1> QED BY <1>1, NextControlInv, PTL DEF ControlSpec

(* Every variable of the dashboard's campaign handlers keeps its type.     *)
THEOREM ControlTypeCorrect == ControlSpec => []ControlTypeOK
<1>1. ControlInv => ControlTypeOK
  BY DEF ControlInv
<1> QED BY <1>1, ControlInvariance, PTL

(* The slot of the dashboard never keeps a campaign that is over: the      *)
(* "campaignComplete" listener empties it whichever way the campaign ends, *)
(* even one that completes inside start() or resume().                     *)
THEOREM SlotIsFreed == ControlSpec => []SlotIsNotStale
<1>1. ControlInv => SlotIsNotStale
  BY DEF ControlInv
<1> QED BY <1>1, ControlInvariance, PTL

(* The handlers of the dashboard use a dialer only as its owner may: what  *)
(* is proved of AutoDialer holds of the campaigns the dashboard runs.      *)
THEOREM ControlRefinesDialers == ControlSpec => Spec
<1>1. ControlInit => Init
  BY DEF ControlInit
<1> QED BY <1>1, ControlStep, ControlInvariance, PTL DEF ControlSpec, Spec

===============================================================================
