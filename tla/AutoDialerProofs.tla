--------------------------- MODULE AutoDialerProofs ---------------------------
(***************************************************************************)
(* For every set of dialers, every phone list and every maxConcurrent, the *)
(* slot counter of core/AutoDialer.ts is exact and bounds the calls.       *)
(*                                                                         *)
(* SlotsAccounted is not inductive: that a slot is given back once needs   *)
(* to know that a call is cleaned up only when its channel is gone, and    *)
(* that a slot is taken once needs to know that the numbers behind         *)
(* currentIndex have never been dialled.                                   *)
(***************************************************************************)
EXTENDS AutoDialer, FiniteSetTheorems, TLAPS

(* The calls that hold a slot, for originates ph and cleaned-up calls cl.  *)
Holding(ph, cl) == {n \in Numbers : ph[n] \notin {"none", "refused"}} \ cl

(* What results[d] may be.                                                 *)
ResultLists == [Numbers -> Seq(Results)]

(* TypeOK in three parts: the variables fillSlots may change, those        *)
(* cleanupCall changes besides, and the rest.                              *)
FilledType ==
  /\ status       \in [Dialers -> Statuses]
  /\ currentIndex \in [Dialers -> 0..MaxNumbers]
  /\ activeCalls  \in [Dialers -> Int]
  /\ results      \in [Dialers -> ResultLists]
  /\ phase        \in [Dialers -> [Numbers -> Phases]]
  /\ completions  \in [Dialers -> Nat]

CleanedType ==
  /\ activeChannels  \in [Dialers -> SUBSET Numbers]
  /\ cleanedSessions \in [Dialers -> SUBSET Numbers]

OtherType ==
  /\ phoneList      \in [Dialers -> 0..MaxNumbers]
  /\ resultRecorded \in [Dialers -> SUBSET Numbers]
  /\ stopped        \in [Dialers -> BOOLEAN]
  /\ answered       \in [Dialers -> SUBSET Numbers]
  /\ events         \in [Dialers -> [Numbers -> Seq(Events)]]
  /\ listening      \in [Dialers -> SUBSET Numbers]
  /\ hangups        \in [Dialers -> SUBSET Numbers]
  /\ missed         \in [Dialers -> SUBSET Numbers]
  /\ deaf           \in [Dialers -> BOOLEAN]

(* The numbers never dialled are those behind the index.                   *)
Untouched(ph, index) == \A n \in Numbers : ph[n] = "none" <=> n > index

(* The inductive invariant, for one dialer.                                *)
DialerInv(d) ==
  /\ activeCalls[d] \in 0..MaxConcurrent
  /\ activeCalls[d] = Cardinality(Holding(phase[d], cleanedSessions[d]))
  /\ Untouched(phase[d], currentIndex[d])
  /\ \A n \in cleanedSessions[d] : phase[d][n] = "gone"
  /\ \A n \in Numbers : events[d][n] # <<>> => phase[d][n] = "gone"

Inv == TypeOK /\ \A d \in Dialers : DialerInv(d)

(* Only a call whose channel the dialer has hooked is recorded and cleaned *)
(* up: one whose originate may still fail has its slot and no result.      *)
HeardFirst == \A d \in Dialers : cleanedSessions[d] \cup resultRecorded[d] \subseteq listening[d]

LEMMA TypeParts == TypeOK <=> FilledType /\ CleanedType /\ OtherType
BY DEF TypeOK, FilledType, CleanedType, OtherType, ResultLists

LEMMA TypePartsNext == TypeOK' <=> FilledType' /\ CleanedType' /\ OtherType'
BY DEF TypeOK, FilledType, CleanedType, OtherType, ResultLists

-----------------------------------------------------------------------------
(* Sets of numbers are finite.                                             *)
LEMMA FiniteNumbers ==
  ASSUME NEW S \in SUBSET Numbers
  PROVE  IsFiniteSet(S) /\ Cardinality(S) \in Nat
<1>1. IsFiniteSet(Numbers)
  BY FS_Interval, DialerAssumption DEF Numbers
<1>2. QED
  BY <1>1, FS_Subset, FS_CardinalityType

(* Dialling fresh numbers adds exactly them to the calls holding a slot;   *)
(* numbers whose originate threw add nothing.                              *)
LEMMA DialledHold ==
  ASSUME NEW ph \in [Numbers -> Phases], NEW ph2 \in [Numbers -> Phases],
         NEW cl \in SUBSET Numbers,
         NEW dialled \in SUBSET Numbers,
         \A n \in dialled : ph[n] = "none" /\ n \notin cl /\ ph2[n] = "requested",
         \A n \in Numbers \ dialled :
           ph2[n] = ph[n] \/ (ph[n] = "none" /\ ph2[n] = "refused")
  PROVE  Cardinality(Holding(ph2, cl)) = Cardinality(Holding(ph, cl)) + Cardinality(dialled)
<1>1. Holding(ph2, cl) = Holding(ph, cl) \cup dialled
  BY DEF Holding
<1>2. Holding(ph, cl) \cap dialled = {}
  BY DEF Holding
<1>3. Holding(ph, cl) \in SUBSET Numbers
  BY DEF Holding
<1>4. /\ IsFiniteSet(Holding(ph, cl)) /\ IsFiniteSet(dialled)
      /\ Cardinality(Holding(ph, cl)) \in Nat /\ Cardinality(dialled) \in Nat
  BY <1>3, FiniteNumbers
<1>5. Cardinality(Holding(ph, cl) \cap dialled) = 0
  BY <1>2, FS_EmptySet, Zenon
<1>6. Cardinality(Holding(ph, cl) \cup dialled) =
        Cardinality(Holding(ph, cl)) + Cardinality(dialled)
          - Cardinality(Holding(ph, cl) \cap dialled)
  BY <1>4, FS_Union, Zenon
<1>7. QED
  BY <1>1, <1>4, <1>5, <1>6

(* Whatever fillSlots does to d, it keeps what DialerInv says of counter,  *)
(* originates and index, cl being the calls cleaned up afterwards, and it  *)
(* touches no other dialer.                                                *)
LEMMA FillSlotsKeeps ==
  ASSUME TypeOK, NEW d \in Dialers, NEW st \in Statuses, NEW len \in 0..MaxNumbers,
         NEW active \in 0..MaxConcurrent,
         NEW res \in ResultLists, NEW ph \in [Numbers -> Phases],
         NEW cl \in SUBSET Numbers,
         active = Cardinality(Holding(ph, cl)),
         Untouched(ph, currentIndex[d]),
         \A n \in cl : ph[n] = "gone",
         FillSlots(d, st, len, active, res, ph)
  PROVE  /\ FilledType'
         /\ activeCalls'[d] \in 0..MaxConcurrent
         /\ activeCalls'[d] = Cardinality(Holding(phase'[d], cl))
         /\ Untouched(phase'[d], currentIndex'[d])
         /\ \A n \in Numbers : ph[n] = "gone" => phase'[d][n] = "gone"
         /\ \A e \in Dialers \ {d} : /\ activeCalls'[e] = activeCalls[e]
                                     /\ currentIndex'[e] = currentIndex[e]
                                     /\ phase'[e] = phase[e]
<1>a. PICK last \in currentIndex[d]..len : \E threw \in SUBSET ((currentIndex[d] + 1)..last) :
        FilledTo(d, st, len, active, res, ph, last, threw)
  BY DEF FillSlots
<1>b. PICK threw \in SUBSET ((currentIndex[d] + 1)..last) :
        FilledTo(d, st, len, active, res, ph, last, threw)
  BY <1>a
<1> DEFINE dialled == ((currentIndex[d] + 1)..last) \ threw
           now     == active + Cardinality(dialled)
           ph2     == [n \in Numbers |-> IF n \in threw THEN "refused"
                                         ELSE IF n \in dialled THEN "requested" ELSE ph[n]]
<1>1. /\ MaxNumbers \in Nat /\ MaxConcurrent \in Nat
      /\ currentIndex[d] \in 0..MaxNumbers /\ last \in 0..MaxNumbers /\ last >= currentIndex[d]
  BY DialerAssumption DEF TypeOK
<1>2. dialled \in SUBSET Numbers /\ threw \in SUBSET Numbers /\ dialled \cap threw = {}
  BY <1>1 DEF Numbers
<1>3. /\ IsFiniteSet(threw) /\ Cardinality(threw) \in Nat
      /\ IsFiniteSet(dialled) /\ Cardinality(dialled) \in Nat
  BY <1>2, FiniteNumbers
<1>4. now \in 0..MaxConcurrent
  <2>0. LoopStops(st, currentIndex[d], len, active, last, dialled)
    BY <1>b DEF FilledTo
  <2>1. CASE st = "running"
    BY <2>0, <2>1, <1>1, <1>3 DEF LoopStops
  <2>2. CASE st # "running"
    <3>1. last = currentIndex[d]
      BY <2>0, <2>2 DEF LoopStops
    <3>2. dialled = {}
      BY <3>1, <1>1
    <3>3. Cardinality(dialled) = 0
      BY <3>2, FS_EmptySet, Zenon
    <3>4. QED
      BY <3>3, <1>1
  <2>3. QED
    BY <2>1, <2>2
<1>5. ph2 \in [Numbers -> Phases]
  BY DEF Phases
<1>6. \A n \in dialled \cup threw : n > currentIndex[d] /\ n <= last /\ n \in Numbers
  BY <1>1, <1>2
<1>7. \A n \in dialled \cup threw : ph[n] = "none" /\ n \notin cl
  BY <1>6 DEF Untouched
<1>8. Cardinality(Holding(ph2, cl)) = active + Cardinality(dialled)
  <2>1. \A n \in dialled : ph[n] = "none" /\ n \notin cl /\ ph2[n] = "requested"
    BY <1>2, <1>7
  <2>2. \A n \in Numbers \ dialled : ph2[n] = ph[n] \/ (ph[n] = "none" /\ ph2[n] = "refused")
    BY <1>7
  <2>3. dialled \in SUBSET Numbers
    BY <1>2
  <2> HIDE DEF dialled, ph2
  <2>4. Cardinality(Holding(ph2, cl)) = Cardinality(Holding(ph, cl)) + Cardinality(dialled)
    BY <1>5, <2>1, <2>2, <2>3, DialledHold
  <2>5. QED
    BY <2>4
<1>9. Untouched(ph2, last)
  <2>1. SUFFICES ASSUME NEW n \in Numbers PROVE ph2[n] = "none" <=> n > last
    BY DEF Untouched
  <2>2. CASE n \in dialled \cup threw
    BY <2>2, <1>6, <1>1 DEF Numbers
  <2>3. CASE n \notin dialled \cup threw
    <3>1. ~(n \in (currentIndex[d] + 1)..last)
      BY <2>3
    <3>2. ph2[n] = ph[n]
      BY <2>3
    <3>3. n <= currentIndex[d] \/ n > last
      BY <3>1, <1>1 DEF Numbers
    <3>4. QED
      BY <3>2, <3>3, <1>1 DEF Numbers, Untouched
  <2>4. QED
    BY <2>2, <2>3
<1>10. \A n \in Numbers : ph[n] = "gone" => ph2[n] = "gone"
  BY <1>7
<1>11. /\ phase' = [phase EXCEPT ![d] = ph2]
       /\ activeCalls' = [activeCalls EXCEPT ![d] = now]
       /\ currentIndex' = [currentIndex EXCEPT ![d] = last]
  BY <1>b DEF FilledTo
<1>12. phase'[d] = ph2 /\ activeCalls'[d] = now /\ currentIndex'[d] = last
  BY <1>11 DEF TypeOK
<1>13. results' \in [Dialers -> ResultLists]
  <2>1. [n \in Numbers |-> IF n \in threw THEN Append(res[n], "failed") ELSE res[n]]
          \in ResultLists
    BY DEF Results, ResultLists
  <2>2. QED
    BY <1>b, <2>1 DEF TypeOK, ResultLists, FilledTo
<1>14. completions' \in [Dialers -> Nat]
  BY <1>b, <1>3 DEF TypeOK, FilledTo
<1>15. status' \in [Dialers -> Statuses]
  BY <1>b DEF TypeOK, Statuses, FilledTo
<1>16. /\ phase' \in [Dialers -> [Numbers -> Phases]]
       /\ activeCalls' \in [Dialers -> Int]
       /\ currentIndex' \in [Dialers -> 0..MaxNumbers]
  <2> HIDE DEF ph2, now
  <2> QED BY <1>1, <1>4, <1>5, <1>11 DEF TypeOK
<1>17. \A e \in Dialers \ {d} : /\ activeCalls'[e] = activeCalls[e]
                                /\ currentIndex'[e] = currentIndex[e]
                                /\ phase'[e] = phase[e]
  BY <1>11 DEF TypeOK
<1> HIDE DEF ph2, now
<1>18. QED
  BY <1>4, <1>8, <1>9, <1>10, <1>12, <1>13, <1>14, <1>15, <1>16, <1>17 DEF now, FilledType

-----------------------------------------------------------------------------
LEMMA InitInv == Init => Inv
<1> SUFFICES ASSUME Init PROVE Inv
  OBVIOUS
<1>1. /\ MaxNumbers \in Nat /\ MaxConcurrent \in Nat
  BY DialerAssumption
<1>2. TypeOK
  BY <1>1 DEF Init, TypeOK, Statuses, Phases
<1>3. ASSUME NEW d \in Dialers PROVE DialerInv(d)
  <2>1. Holding(phase[d], cleanedSessions[d]) = {}
    BY DEF Init, Holding
  <2>2. Cardinality(Holding(phase[d], cleanedSessions[d])) = 0
    BY <2>1, FS_EmptySet, Zenon
  <2>3. QED
    BY <1>1, <2>2 DEF Init, DialerInv, Numbers, Untouched
<1>4. QED
  BY <1>2, <1>3 DEF Inv

(* A step that leaves a dialer's counter, originates, index, cleaned-up    *)
(* calls and undelivered events alone keeps its invariant.                 *)
LEMMA DialerFrame ==
  ASSUME NEW d \in Dialers, DialerInv(d),
         activeCalls'[d] = activeCalls[d], phase'[d] = phase[d],
         currentIndex'[d] = currentIndex[d], cleanedSessions'[d] = cleanedSessions[d],
         events'[d] = events[d]
  PROVE  DialerInv(d)'
BY DEF DialerInv, Holding

(* Giving a slot back: one call less holds one.                            *)
LEMMA SlotReturned ==
  ASSUME NEW H \in SUBSET Numbers, NEW n \in H, Cardinality(H) \in 0..MaxConcurrent
  PROVE  /\ Cardinality(H \ {n}) = Cardinality(H) - 1
         /\ Cardinality(H) - 1 \in 0..MaxConcurrent
<1>1. IsFiniteSet(H) /\ IsFiniteSet(H \ {n}) /\ Cardinality(H \ {n}) \in Nat
  BY FiniteNumbers
<1>2. Cardinality(H \ {n}) = Cardinality(H) - 1
  BY <1>1, FS_RemoveElement, Zenon
<1>3. QED
  BY <1>1, <1>2, DialerAssumption

(* What fillSlots has to leave, for a dialer whose cleaned-up calls are cl *)
(* after the step, for every dialer to keep its invariant.                 *)
LEMMA FillSlotsInv ==
  ASSUME Inv, NEW d \in Dialers, NEW st \in Statuses, NEW len \in 0..MaxNumbers,
         NEW active \in 0..MaxConcurrent,
         NEW res \in ResultLists, NEW ph \in [Numbers -> Phases],
         NEW cl \in SUBSET Numbers,
         active = Cardinality(Holding(ph, cl)),
         Untouched(ph, currentIndex[d]),
         \A n \in cl : ph[n] = "gone",
         \A n \in Numbers : events'[d][n] # <<>> => ph[n] = "gone",
         FillSlots(d, st, len, active, res, ph),
         cleanedSessions'[d] = cl,
         \A e \in Dialers \ {d} : /\ cleanedSessions'[e] = cleanedSessions[e]
                                  /\ events'[e] = events[e]
  PROVE  /\ \A e \in Dialers : DialerInv(e)'
         /\ FilledType'
<1>1. TypeOK /\ \A e \in Dialers : DialerInv(e)
  BY DEF Inv
<1>2. /\ FilledType'
      /\ activeCalls'[d] \in 0..MaxConcurrent
      /\ activeCalls'[d] = Cardinality(Holding(phase'[d], cl))
      /\ Untouched(phase'[d], currentIndex'[d])
      /\ \A n \in Numbers : ph[n] = "gone" => phase'[d][n] = "gone"
      /\ \A e \in Dialers \ {d} : /\ activeCalls'[e] = activeCalls[e]
                                  /\ currentIndex'[e] = currentIndex[e]
                                  /\ phase'[e] = phase[e]
  BY <1>1, FillSlotsKeeps
<1>3. DialerInv(d)'
  BY <1>2, Zenon DEF DialerInv
<1>4. \A e \in Dialers \ {d} : DialerInv(e)'
  BY <1>1, <1>2, DialerFrame
<1>5. QED
  BY <1>2, <1>3, <1>4

(* What Inv says of one dialer, unfolded once for the steps below.         *)
LEMMA InvFacts ==
  ASSUME Inv, NEW d \in Dialers
  PROVE  /\ MaxNumbers \in Nat /\ MaxConcurrent \in Nat
         /\ status[d] \in Statuses /\ phoneList[d] \in 0..MaxNumbers
         /\ results[d] \in ResultLists /\ phase[d] \in [Numbers -> Phases]
         /\ cleanedSessions[d] \in SUBSET Numbers
         /\ activeCalls[d] \in 0..MaxConcurrent
         /\ activeCalls[d] = Cardinality(Holding(phase[d], cleanedSessions[d]))
         /\ Untouched(phase[d], currentIndex[d])
         /\ \A n \in cleanedSessions[d] : phase[d][n] = "gone"
         /\ \A n \in Numbers : events[d][n] # <<>> => phase[d][n] = "gone"
<1>1. TypeOK /\ DialerInv(d)
  BY DEF Inv
<1>2. results[d] \in ResultLists
  BY <1>1 DEF TypeOK, ResultLists
<1>3. QED
  BY <1>1, <1>2, DialerAssumption DEF TypeOK, DialerInv

(* Recording one more result keeps the type of the results.                *)
LEMMA RecordType ==
  ASSUME NEW res \in ResultLists, NEW n \in Numbers, NEW r \in Results
  PROVE  [res EXCEPT ![n] = Append(@, r)] \in ResultLists
BY DEF ResultLists

LEMMA StartInv ==
  ASSUME Inv, NEW d \in Dialers, Start(d)
  PROVE  Inv'
<1>1. PICK len \in ListLengths[d] :
        /\ phoneList' = [phoneList EXCEPT ![d] = len]
        /\ FillSlots(d, "running", len, activeCalls[d], results[d], phase[d])
  BY DEF Start
<1>2. len \in 0..MaxNumbers
  BY DialerAssumption
<1>3. UNCHANGED <<activeChannels, cleanedSessions, resultRecorded, stopped,
                  answered, events, listening, hangups, missed, deaf>>
  BY DEF Start
<1>4. "running" \in Statuses
  BY DEF Statuses
<1>5. /\ \A e \in Dialers : DialerInv(e)'
      /\ FilledType'
  BY <1>1, <1>2, <1>3, <1>4, InvFacts, FillSlotsInv
<1>6. CleanedType' /\ OtherType'
  BY <1>1, <1>2, <1>3, TypeParts DEF Inv, CleanedType, OtherType
<1>7. QED
  BY <1>5, <1>6, TypePartsNext DEF Inv

LEMMA ResumeInv ==
  ASSUME Inv, NEW d \in Dialers, Resume(d)
  PROVE  Inv'
<1>1. FillSlots(d, "running", phoneList[d], activeCalls[d], results[d], phase[d])
  BY DEF Resume
<1>2. UNCHANGED <<phoneList, activeChannels, cleanedSessions, resultRecorded, stopped,
                  answered, events, listening, hangups, missed, deaf>>
  BY DEF Resume
<1>3. "running" \in Statuses
  BY DEF Statuses
<1>4. /\ \A e \in Dialers : DialerInv(e)'
      /\ FilledType'
  BY <1>1, <1>2, <1>3, InvFacts, FillSlotsInv
<1>5. CleanedType' /\ OtherType'
  BY <1>2, TypeParts DEF Inv, CleanedType, OtherType
<1>6. QED
  BY <1>4, <1>5, TypePartsNext DEF Inv

(* A failed originate gives its slot back: the call was not cleaned up,    *)
(* for the dialer never heard of its channel.                              *)
LEMMA OriginateFailsInv ==
  ASSUME Inv, HeardFirst, NEW d \in Dialers, NEW n \in Numbers, OriginateFails(d, n)
  PROVE  Inv'
<1> DEFINE ph == [phase[d] EXCEPT ![n] = "refused"]
           cl == cleanedSessions[d]
           res == [results[d] EXCEPT ![n] = Append(@, "failed")]
<1>1. /\ phase[d][n] \notin {"none", "refused"} /\ n \notin listening[d]
      /\ FillSlots(d, status[d], phoneList[d], activeCalls[d] - 1,
                   [results[d] EXCEPT ![n] = Append(@, "failed")], ph)
      /\ events' = [events EXCEPT ![d][n] = <<>>]
      /\ UNCHANGED <<phoneList, activeChannels, cleanedSessions, resultRecorded, stopped,
                     answered, listening, hangups, missed, deaf>>
  BY DEF OriginateFails
<1>a. n \notin cl
  BY <1>1 DEF HeardFirst
<1>b. /\ OtherType /\ events \in [Dialers -> [Numbers -> Seq(Events)]] /\ <<>> \in Seq(Events)
  BY TypeParts DEF Inv, OtherType
<1>c. /\ events' \in [Dialers -> [Numbers -> Seq(Events)]]
      /\ events'[d][n] = <<>>
      /\ \A m \in Numbers \ {n} : events'[d][m] = events[d][m]
      /\ \A e \in Dialers \ {d} : events'[e] = events[e]
  BY <1>1, <1>b
<1>2. ph \in [Numbers -> Phases] /\ cl \in SUBSET Numbers
  BY InvFacts DEF Phases
<1>3. n \in Holding(phase[d], cl)
  BY <1>1, <1>a, InvFacts DEF Holding
<1>4. Holding(ph, cl) = Holding(phase[d], cl) \ {n}
  BY InvFacts DEF Holding
<1>5. /\ activeCalls[d] - 1 = Cardinality(Holding(ph, cl))
      /\ activeCalls[d] - 1 \in 0..MaxConcurrent
  <2>1. /\ activeCalls[d] = Cardinality(Holding(phase[d], cl))
        /\ Cardinality(Holding(phase[d], cl)) \in 0..MaxConcurrent
        /\ Holding(phase[d], cl) \in SUBSET Numbers
    BY InvFacts DEF Holding
  <2> HIDE DEF ph, cl
  <2>2. /\ Cardinality(Holding(phase[d], cl) \ {n}) = Cardinality(Holding(phase[d], cl)) - 1
        /\ Cardinality(Holding(phase[d], cl)) - 1 \in 0..MaxConcurrent
    BY <1>3, <2>1, SlotReturned
  <2>3. QED
    BY <1>4, <2>1, <2>2
<1>6. Untouched(ph, currentIndex[d])
  BY <1>1, InvFacts DEF Untouched
<1>7. /\ \A m \in cl : ph[m] = "gone"
      /\ \A m \in Numbers : events'[d][m] # <<>> => ph[m] = "gone"
  BY <1>a, <1>c, InvFacts
<1>8. /\ res \in ResultLists /\ status[d] \in Statuses /\ phoneList[d] \in 0..MaxNumbers
      /\ FillSlots(d, status[d], phoneList[d], activeCalls[d] - 1, res, ph)
  BY <1>1, InvFacts, RecordType DEF Results
<1>d. /\ cleanedSessions'[d] = cl
      /\ \A e \in Dialers \ {d} : /\ cleanedSessions'[e] = cleanedSessions[e]
                                  /\ events'[e] = events[e]
  BY <1>1, <1>c
<1> HIDE DEF ph, cl, res
<1>9. /\ \A e \in Dialers : DialerInv(e)'
      /\ FilledType'
  BY <1>2, <1>5, <1>6, <1>7, <1>8, <1>d, FillSlotsInv
<1>10. CleanedType' /\ OtherType'
  BY <1>1, <1>b, <1>c, TypeParts DEF Inv, CleanedType, OtherType
<1>11. QED
  BY <1>9, <1>10, TypePartsNext DEF Inv

(* cleanupCall, after the event of a channel that is gone.                 *)
LEMMA CleanupCallInv ==
  ASSUME Inv, NEW d \in Dialers, NEW n \in Numbers, NEW res \in ResultLists,
         phase[d][n] = "gone",
         CleanupCall(d, n, res),
         OtherType',
         \A m \in Numbers : events'[d][m] # <<>> => phase[d][m] = "gone",
         \A e \in Dialers \ {d} : events'[e] = events[e]
  PROVE  Inv'
<1>1. CASE n \in cleanedSessions[d]
  <2>1. /\ results' = [results EXCEPT ![d] = res]
        /\ UNCHANGED <<status, currentIndex, activeCalls, activeChannels,
                       cleanedSessions, completions, phase>>
    BY <1>1 DEF CleanupCall
  <2>2. FilledType' /\ CleanedType'
    <3>1. FilledType /\ CleanedType
      BY TypeParts DEF Inv
    <3>2. results' \in [Dialers -> ResultLists]
      BY <2>1, <3>1 DEF FilledType
    <3>3. QED
      BY <2>1, <3>1, <3>2 DEF FilledType, CleanedType
  <2>3. \A e \in Dialers : DialerInv(e)'
    <3>1. DialerInv(d)'
      BY <2>1, InvFacts DEF DialerInv, Holding, Untouched
    <3>2. \A e \in Dialers \ {d} : DialerInv(e)'
      BY <2>1, DialerFrame DEF Inv
    <3>3. QED
      BY <3>1, <3>2
  <2>4. QED
    BY <2>2, <2>3, TypePartsNext DEF Inv
<1>2. CASE n \notin cleanedSessions[d]
  <2> DEFINE cl == cleanedSessions[d] \cup {n}
  <2>1. /\ cleanedSessions' = [cleanedSessions EXCEPT ![d] = cl]
        /\ activeChannels' = [activeChannels EXCEPT ![d] = @ \ {n}]
        /\ FillSlots(d, status[d], phoneList[d], activeCalls[d] - 1, res, phase[d])
    BY <1>2 DEF CleanupCall
  <2>2. cl \in SUBSET Numbers
    BY InvFacts
  <2>3. /\ n \in Holding(phase[d], cleanedSessions[d])
        /\ Holding(phase[d], cl) = Holding(phase[d], cleanedSessions[d]) \ {n}
        /\ Holding(phase[d], cleanedSessions[d]) \in SUBSET Numbers
    BY <1>2 DEF Holding
  <2>4. /\ activeCalls[d] - 1 = Cardinality(Holding(phase[d], cl))
        /\ activeCalls[d] - 1 \in 0..MaxConcurrent
    <3>1. /\ activeCalls[d] = Cardinality(Holding(phase[d], cleanedSessions[d]))
          /\ Cardinality(Holding(phase[d], cleanedSessions[d])) \in 0..MaxConcurrent
      BY InvFacts
    <3> HIDE DEF cl
    <3>2. /\ Cardinality(Holding(phase[d], cleanedSessions[d]) \ {n}) =
               Cardinality(Holding(phase[d], cleanedSessions[d])) - 1
          /\ Cardinality(Holding(phase[d], cleanedSessions[d])) - 1 \in 0..MaxConcurrent
      BY <2>3, <3>1, SlotReturned
    <3>3. QED
      BY <2>3, <3>1, <3>2
  <2>5. \A m \in cl : phase[d][m] = "gone"
    BY InvFacts
  <2>6. /\ cleanedSessions'[d] = cl
        /\ \A e \in Dialers \ {d} : cleanedSessions'[e] = cleanedSessions[e]
        /\ CleanedType'
    BY <2>1, <2>2, TypeParts DEF Inv, CleanedType
  <2> HIDE DEF cl
  <2>7. (\A e \in Dialers : DialerInv(e)') /\ FilledType'
    BY <2>1, <2>2, <2>4, <2>5, <2>6, InvFacts, FillSlotsInv
  <2>8. QED
    BY <2>6, <2>7, TypePartsNext DEF Inv
<1>3. QED
  BY <1>1, <1>2

(* A heard event is that of a channel that is gone, and leaves one less.   *)
LEMMA HearsFacts ==
  ASSUME Inv, NEW d \in Dialers, NEW n \in Numbers, NEW e, Hears(d, n, e)
  PROVE  /\ phase[d][n] = "gone"
         /\ UNCHANGED <<phoneList, resultRecorded, stopped, answered, listening,
                        hangups, missed, deaf>> => OtherType'
         /\ \A m \in Numbers : events'[d][m] # <<>> => phase[d][m] = "gone"
         /\ \A f \in Dialers \ {d} : events'[f] = events[f]
         /\ events' \in [Dialers -> [Numbers -> Seq(Events)]]
<1>1. /\ events[d][n] # <<>>
      /\ events' = [events EXCEPT ![d][n] = Tail(@)]
  BY DEF Hears
<1>2. OtherType /\ events \in [Dialers -> [Numbers -> Seq(Events)]]
  BY TypeParts DEF Inv, OtherType
<1>3. events[d][n] \in Seq(Events) /\ Tail(events[d][n]) \in Seq(Events)
  BY <1>1, <1>2
<1>4. events' \in [Dialers -> [Numbers -> Seq(Events)]]
  BY <1>1, <1>2, <1>3
<1>5. /\ \A m \in Numbers \ {n} : events'[d][m] = events[d][m]
      /\ \A f \in Dialers \ {d} : events'[f] = events[f]
  BY <1>1, <1>2
<1>6. /\ phase[d][n] = "gone"
      /\ \A m \in Numbers : events'[d][m] # <<>> => phase[d][m] = "gone"
  BY <1>1, <1>5, InvFacts
<1>7. QED
  BY <1>2, <1>4, <1>5, <1>6 DEF OtherType

LEMMA RecordOnceInv ==
  ASSUME Inv, NEW d \in Dialers, NEW n \in Numbers, NEW r \in Results, NEW e,
         Hears(d, n, e), RecordOnce(d, n, r),
         UNCHANGED <<phoneList, stopped, answered, listening, hangups, missed, deaf>>
  PROVE  Inv'
<1>1. resultRecorded' \in [Dialers -> SUBSET Numbers]
  <2>1. resultRecorded \in [Dialers -> SUBSET Numbers]
    BY DEF Inv, TypeOK
  <2>2. resultRecorded' = resultRecorded
          \/ resultRecorded' = [resultRecorded EXCEPT ![d] = @ \cup {n}]
    BY DEF RecordOnce
  <2>3. QED
    BY <2>1, <2>2
<1>2. PICK res \in ResultLists : CleanupCall(d, n, res)
  <2>1. CASE n \in resultRecorded[d]
    BY <2>1, InvFacts DEF RecordOnce
  <2>2. CASE n \notin resultRecorded[d]
    BY <2>2, InvFacts, RecordType DEF RecordOnce
  <2>3. QED
    BY <2>1, <2>2
<1>3. OtherType'
  BY <1>1, HearsFacts, TypeParts DEF Inv, OtherType
<1>4. /\ phase[d][n] = "gone"
      /\ \A m \in Numbers : events'[d][m] # <<>> => phase[d][m] = "gone"
      /\ \A f \in Dialers \ {d} : events'[f] = events[f]
  BY HearsFacts
<1>5. QED
  BY <1>2, <1>3, <1>4, CleanupCallInv

LEMMA OnChannelDestroyedInv ==
  ASSUME Inv, NEW d \in Dialers, NEW n \in Numbers, OnChannelDestroyed(d, n)
  PROVE  Inv'
<1>1. /\ Hears(d, n, "ChannelDestroyed")
      /\ UNCHANGED <<phoneList, stopped, answered, listening, hangups, missed, deaf>>
  BY DEF OnChannelDestroyed
<1>2. CASE RecordOnce(d, n, "no_answer")
  BY <1>1, <1>2, RecordOnceInv DEF Results
<1>3. CASE UNCHANGED resultRecorded /\ CleanupCall(d, n, results[d])
  <2>1. /\ OtherType'
        /\ phase[d][n] = "gone"
        /\ \A m \in Numbers : events'[d][m] # <<>> => phase[d][m] = "gone"
        /\ \A f \in Dialers \ {d} : events'[f] = events[f]
    BY <1>1, <1>3, HearsFacts
  <2>2. QED
    BY <1>3, <2>1, InvFacts, CleanupCallInv
<1>4. QED
  BY <1>2, <1>3 DEF OnChannelDestroyed

LEMMA OnStasisEndInv ==
  ASSUME Inv, NEW d \in Dialers, NEW n \in Numbers, OnStasisEnd(d, n)
  PROVE  Inv'
BY RecordOnceInv DEF OnStasisEnd, Results

-----------------------------------------------------------------------------
(* Steps that change neither counter, index nor cleaned-up calls, and take *)
(* every originate from one phase of an existing call to another.          *)
LEMMA PhaseFrame ==
  ASSUME Inv, TypeOK',
         UNCHANGED <<activeCalls, currentIndex, cleanedSessions>>,
         \A d \in Dialers, n \in Numbers :
           /\ \/ phase'[d][n] = phase[d][n]
              \/ phase[d][n] \in {"requested", "ringing", "up"}
                 /\ phase'[d][n] \in {"ringing", "up", "gone"}
           /\ events'[d][n] = <<>> \/ events'[d][n] = events[d][n] \/ phase'[d][n] = "gone"
  PROVE  Inv'
<1>1. SUFFICES ASSUME NEW d \in Dialers PROVE DialerInv(d)'
  BY DEF Inv
<1>2. Holding(phase'[d], cleanedSessions[d]) = Holding(phase[d], cleanedSessions[d])
  BY DEF Holding
<1>3. Untouched(phase'[d], currentIndex[d])
  BY InvFacts DEF Untouched
<1>4. /\ \A n \in cleanedSessions[d] : phase'[d][n] = "gone"
      /\ \A n \in Numbers : events'[d][n] # <<>> => phase'[d][n] = "gone"
  BY InvFacts
<1>5. QED
  BY <1>2, <1>3, <1>4, InvFacts DEF DialerInv

(* The steps of a dialer that dial nothing.                                *)
LEMMA QuietDialerInv ==
  ASSUME Inv, NEW d \in Dialers,
         Pause(d) \/ Stop(d) \/ \E n \in Numbers : OriginateReturns(d, n)
  PROVE  Inv'
<1>1. UNCHANGED <<activeCalls, currentIndex, cleanedSessions, phase, events>>
  BY DEF Pause, Stop, OriginateReturns, pbxVars
<1>2. TypeOK'
  <2>1. CASE Pause(d)
    BY <2>1 DEF Pause, pbxVars, Inv, TypeOK, Statuses
  <2>2. CASE Stop(d)
    BY <2>2 DEF Stop, Inv, TypeOK, Statuses
  <2>3. CASE \E n \in Numbers : OriginateReturns(d, n)
    <3>1. PICK n \in Numbers : OriginateReturns(d, n)
      BY <2>3
    <3>2. FilledType' /\ CleanedType' /\ OtherType'
      BY <3>1, TypeParts DEF OriginateReturns, Inv, FilledType, CleanedType, OtherType
    <3>3. QED
      BY <3>2, TypePartsNext
  <2>4. QED
    BY <2>1, <2>2, <2>3
<1>3. QED
  BY <1>1, <1>2, PhaseFrame

(* What Asterisk does to one call.                                         *)
LEMMA AsteriskInv ==
  ASSUME Inv, NEW d \in Dialers, Asterisk(d)
  PROVE  Inv'
<1>1. PICK n \in Numbers :
        ChannelCreated(d, n) \/ Answer(d, n) \/ Unanswered(d, n) \/ HangUp(d, n) \/ EventMissed(d, n)
  BY DEF Asterisk
<1>2. TypeOK
  BY DEF Inv
<1>3. CASE ChannelCreated(d, n)
  <2>1. TypeOK'
    BY <1>2, <1>3 DEF ChannelCreated, dialerVars, TypeOK, Phases
  <2>2. QED
    BY <1>2, <1>3, <2>1, PhaseFrame DEF ChannelCreated, dialerVars, TypeOK
<1>4. CASE Answer(d, n)
  <2>1. TypeOK'
    BY <1>2, <1>4 DEF Answer, dialerVars, TypeOK, Phases
  <2>2. QED
    BY <1>2, <1>4, <2>1, PhaseFrame DEF Answer, dialerVars, TypeOK
<1>5. CASE Unanswered(d, n)
  <2>1. TypeOK'
    <3>1. phase' \in [Dialers -> [Numbers -> Phases]]
      BY <1>2, <1>5 DEF Unanswered, TypeOK, Phases
    <3>2. events' \in [Dialers -> [Numbers -> Seq(Events)]]
      BY <1>2, <1>5 DEF Unanswered, TypeOK, Events
    <3>3. QED
      BY <1>2, <1>5, <3>1, <3>2 DEF Unanswered, dialerVars, TypeOK
  <2>2. phase[d][n] = "ringing" /\ UNCHANGED <<activeCalls, currentIndex, cleanedSessions>>
    BY <1>5 DEF Unanswered, dialerVars
  <2>3. \A e \in Dialers, m \in Numbers :
          IF e = d /\ m = n THEN phase'[e][m] = "gone"
          ELSE phase'[e][m] = phase[e][m] /\ events'[e][m] = events[e][m]
    <3>1. /\ phase \in [Dialers -> [Numbers -> Phases]]
          /\ events \in [Dialers -> [Numbers -> Seq(Events)]]
      BY <1>2 DEF TypeOK
    <3>2. QED
      BY <1>5, <3>1 DEF Unanswered
  <2>4. QED
    BY <2>1, <2>2, <2>3, PhaseFrame
<1>6. CASE HangUp(d, n)
  <2>1. TypeOK'
    <3>1. phase' \in [Dialers -> [Numbers -> Phases]]
      BY <1>2, <1>6 DEF HangUp, TypeOK, Phases
    <3>2. events' \in [Dialers -> [Numbers -> Seq(Events)]]
      BY <1>2, <1>6 DEF HangUp, TypeOK, Events
    <3>3. QED
      BY <1>2, <1>6, <3>1, <3>2 DEF HangUp, dialerVars, TypeOK
  <2>2. /\ phase' = [phase EXCEPT ![d][n] = "gone"] /\ phase[d][n] = "up"
        /\ events' = [events EXCEPT ![d][n] = events[d][n] \o <<"StasisEnd", "ChannelDestroyed">>]
        /\ UNCHANGED <<activeCalls, currentIndex, cleanedSessions>>
    BY <1>6 DEF HangUp, dialerVars
  <2>3. phase \in [Dialers -> [Numbers -> Phases]]
    BY <1>2 DEF TypeOK
  <2>4. \A e \in Dialers, m \in Numbers :
          IF e = d /\ m = n THEN phase'[e][m] = "gone"
          ELSE phase'[e][m] = phase[e][m] /\ events'[e][m] = events[e][m]
    <3>1. events \in [Dialers -> [Numbers -> Seq(Events)]]
      BY <1>2 DEF TypeOK
    <3> DEFINE new == events[d][n] \o <<"StasisEnd", "ChannelDestroyed">>
    <3>2. events' = [events EXCEPT ![d][n] = new]
      BY <2>2
    <3> HIDE DEF new
    <3>3. QED
      BY <2>2, <2>3, <3>1, <3>2
  <2>5. QED
    BY <2>1, <2>2, <2>4, PhaseFrame
<1>7. CASE EventMissed(d, n)
  <2>1. TypeOK'
    <3>1. /\ events' \in [Dialers -> [Numbers -> Seq(Events)]]
          /\ missed' \in [Dialers -> SUBSET Numbers]
      BY <1>2, <1>7 DEF EventMissed, TypeOK
    <3>2. QED
      BY <1>2, <1>7, <3>1 DEF EventMissed, dialerVars, TypeOK
  <2>2. QED
    BY <1>2, <1>7, <2>1, InvFacts, PhaseFrame DEF EventMissed, dialerVars, TypeOK
<1>8. QED
  BY <1>1, <1>3, <1>4, <1>5, <1>6, <1>7

LEMMA ConnectionLostInv ==
  ASSUME Inv, ConnectionLost
  PROVE  Inv'
<1>1. TypeOK'
  BY DEF ConnectionLost, dialerVars, Inv, TypeOK
<1>2. QED
  BY <1>1, PhaseFrame DEF ConnectionLost, dialerVars

(* A call is recorded or cleaned up on an event its closure hears.         *)
LEMMA HeardStep ==
  ASSUME TypeOK, HeardFirst, [Next]_vars
  PROVE  HeardFirst'
<1>1. /\ cleanedSessions \in [Dialers -> SUBSET Numbers]
      /\ resultRecorded \in [Dialers -> SUBSET Numbers]
      /\ listening \in [Dialers -> SUBSET Numbers]
  BY DEF TypeOK
<1>2. CASE UNCHANGED <<cleanedSessions, resultRecorded, listening>>
  BY <1>2 DEF HeardFirst
<1>3. CASE \E d \in Dialers, n \in Numbers : OriginateReturns(d, n)
  BY <1>1, <1>3 DEF OriginateReturns, HeardFirst
<1>4. CASE \E d \in Dialers, n \in Numbers : OnChannelDestroyed(d, n) \/ OnStasisEnd(d, n)
  <2>1. PICK d \in Dialers, n \in Numbers : OnChannelDestroyed(d, n) \/ OnStasisEnd(d, n)
    BY <1>4
  <2>2. n \in listening[d] /\ UNCHANGED listening
    BY <2>1 DEF OnChannelDestroyed, OnStasisEnd, Hears
  <2>3. /\ \/ UNCHANGED resultRecorded
           \/ resultRecorded' = [resultRecorded EXCEPT ![d] = @ \cup {n}]
        /\ \/ UNCHANGED cleanedSessions
           \/ cleanedSessions' = [cleanedSessions EXCEPT ![d] = @ \cup {n}]
    BY <2>1 DEF OnChannelDestroyed, OnStasisEnd, RecordOnce, CleanupCall
  <2> QED BY <1>1, <2>2, <2>3 DEF HeardFirst
<1>5. \/ UNCHANGED <<cleanedSessions, resultRecorded, listening>>
      \/ \E d \in Dialers, n \in Numbers :
           OriginateReturns(d, n) \/ OnChannelDestroyed(d, n) \/ OnStasisEnd(d, n)
  <2>1. CASE \E d \in Dialers : Callback(d)
    BY <2>1 DEF Callback, OriginateFails
  <2>2. CASE \E d \in Dialers : Asterisk(d)
    BY <2>2 DEF Asterisk, ChannelCreated, Answer, Unanswered, HangUp, EventMissed, dialerVars
  <2>3. CASE \E d \in Dialers : Start(d) \/ Pause(d) \/ Resume(d) \/ Stop(d)
    BY <2>3 DEF Start, Pause, Resume, Stop, pbxVars
  <2>4. CASE ConnectionLost \/ UNCHANGED vars
    BY <2>4 DEF ConnectionLost, vars, dialerVars, pbxVars
  <2> QED BY <2>1, <2>2, <2>3, <2>4 DEF Next
<1> QED BY <1>2, <1>3, <1>4, <1>5

LEMMA InitHeard == Init => HeardFirst
BY DEF Init, HeardFirst

LEMMA NextInv == Inv /\ HeardFirst /\ [Next]_vars => Inv' /\ HeardFirst'
<1>0. ASSUME Inv, HeardFirst, [Next]_vars PROVE HeardFirst'
  BY <1>0, HeardStep DEF Inv
<1> SUFFICES ASSUME Inv, HeardFirst, [Next]_vars PROVE Inv'
  BY <1>0
<1>1. CASE \E d \in Dialers : Start(d) \/ Pause(d) \/ Resume(d) \/ Stop(d)
  BY <1>1, StartInv, ResumeInv, QuietDialerInv
<1>2. CASE \E d \in Dialers : Callback(d)
  BY <1>2, OriginateFailsInv, QuietDialerInv, OnChannelDestroyedInv, OnStasisEndInv DEF Callback
<1>3. CASE \E d \in Dialers : Asterisk(d)
  BY <1>3, AsteriskInv
<1>4. CASE ConnectionLost
  BY <1>4, ConnectionLostInv
<1>5. CASE UNCHANGED vars
  <2>1. TypeOK'
    BY <1>5 DEF vars, dialerVars, pbxVars, Inv, TypeOK
  <2>2. QED
    BY <1>5, <2>1, PhaseFrame DEF vars, dialerVars, pbxVars
<1>6. QED
  BY <1>1, <1>2, <1>3, <1>4, <1>5 DEF Next

(* What AutoDialer knows of its calls, and that only calls it has hooked   *)
(* are cleaned up, holds in every reachable state.                         *)
THEOREM Invariant == Spec => [](Inv /\ HeardFirst)
BY InitInv, InitHeard, NextInv, PTL DEF Spec

(* Every variable keeps its type.                                          *)
THEOREM TypeCorrect == Spec => []TypeOK
<1>1. Inv => TypeOK
  BY DEF Inv
<1>2. QED
  BY <1>1, Invariant, PTL

(* activeCalls counts exactly the calls that hold a slot.                  *)
THEOREM SlotsAreAccounted == Spec => []SlotsAccounted
<1>1. Inv => SlotsAccounted
  BY InvFacts DEF SlotsAccounted, Occupied, Holding
<1>2. QED
  BY <1>1, Invariant, PTL

(* Asterisk never has more calls of a campaign than maxConcurrent.         *)
THEOREM ConcurrencyIsRespected == Spec => []ConcurrencyRespected
<1>1. ASSUME Inv, NEW d \in Dialers
      PROVE  Cardinality(Live(d)) <= MaxConcurrent
  <2>1. /\ Live(d) \subseteq Holding(phase[d], cleanedSessions[d])
        /\ Holding(phase[d], cleanedSessions[d]) \in SUBSET Numbers
    BY <1>1, InvFacts DEF Live, Holding
  <2>2. IsFiniteSet(Holding(phase[d], cleanedSessions[d]))
    BY <2>1, FiniteNumbers
  <2>3. /\ Cardinality(Live(d)) <= Cardinality(Holding(phase[d], cleanedSessions[d]))
        /\ Live(d) \in SUBSET Numbers
    BY <2>1, <2>2, FS_Subset
  <2>4. Cardinality(Live(d)) \in Nat
    BY <2>3, FiniteNumbers
  <2>5. /\ activeCalls[d] = Cardinality(Holding(phase[d], cleanedSessions[d]))
        /\ activeCalls[d] \in 0..MaxConcurrent /\ MaxConcurrent \in Nat
    BY <1>1, InvFacts
  <2>6. QED
    BY <2>3, <2>4, <2>5
<1>2. Inv => ConcurrencyRespected
  BY <1>1 DEF ConcurrencyRespected
<1>3. QED
  BY <1>2, Invariant, PTL

-----------------------------------------------------------------------------
(* fillSlots dials for a running campaign only, and ends it only when it   *)
(* dialled nothing: a call it has just placed keeps the counter above 0.   *)
LEMMA FillSlotsDials ==
  ASSUME TypeOK, NEW d \in Dialers, NEW st \in Statuses, NEW len \in 0..MaxNumbers,
         NEW active \in Nat, NEW res, NEW ph \in [Numbers -> Phases],
         FillSlots(d, st, len, active, res, ph)
  PROVE  /\ st = "completed" => status'[d] = "completed"
         /\ \A n \in Numbers :
              ph[n] = "none" /\ phase'[d][n] = "requested" => status'[d] = "running"
         /\ \A e \in Dialers \ {d} : status'[e] = status[e] /\ phase'[e] = phase[e]
<1>0. PICK last \in currentIndex[d]..len : \E threw \in SUBSET ((currentIndex[d] + 1)..last) :
        FilledTo(d, st, len, active, res, ph, last, threw)
  BY DEF FillSlots
<1>1. PICK threw \in SUBSET ((currentIndex[d] + 1)..last) :
        FilledTo(d, st, len, active, res, ph, last, threw)
  BY <1>0
<1> DEFINE dialled == ((currentIndex[d] + 1)..last) \ threw
           now     == active + Cardinality(dialled)
           done    == CampaignDone(last, len, now)
<1>2. /\ LoopStops(st, currentIndex[d], len, active, last, dialled)
      /\ status'[d] = IF done THEN "completed" ELSE st
      /\ \A n \in Numbers : phase'[d][n] = IF n \in threw THEN "refused"
                                         ELSE IF n \in dialled THEN "requested" ELSE ph[n]
      /\ \A e \in Dialers \ {d} : status'[e] = status[e] /\ phase'[e] = phase[e]
  BY <1>1 DEF FilledTo, TypeOK
<1>3. ASSUME NEW n \in Numbers, ph[n] = "none", phase'[d][n] = "requested"
      PROVE  status'[d] = "running"
  <2>1. n \in dialled
    BY <1>2, <1>3
  <2>2. MaxNumbers \in Nat /\ currentIndex[d] \in 0..MaxNumbers /\ last \in 0..MaxNumbers
    BY DialerAssumption DEF TypeOK
  <2>3. last # currentIndex[d]
    BY <2>1, <2>2
  <2>4. st = "running"
    BY <1>2, <2>3 DEF LoopStops
  <2>5. dialled \in SUBSET Numbers
    BY <2>2 DEF Numbers
  <2>6. IsFiniteSet(dialled) /\ Cardinality(dialled) \in Nat
    BY <2>5, FiniteNumbers
  <2>7. Cardinality(dialled) # 0
    BY <2>1, <2>6, FS_EmptySet, Zenon
  <2>8. ~done
    <3> HIDE DEF dialled
    <3>1. QED BY <2>6, <2>7 DEF CampaignDone
  <2>9. QED
    BY <1>2, <2>4, <2>8
<1>4. QED
  BY <1>2, <1>3

(* What DialsOnlyWhileRunning says of one dialer.                          *)
DialsRunning(d) ==
  /\ status[d] = "completed" => status'[d] = "completed"
  /\ \A n \in Numbers :
       phase[d][n] = "none" /\ phase'[d][n] = "requested" => status'[d] = "running"

(* A step that fills the slots of d from the originates ph, which differ   *)
(* from phase[d] at most where a request was refused.                      *)
LEMMA FillSlotsRunning ==
  ASSUME Inv, NEW d \in Dialers, NEW st \in Statuses, NEW len \in 0..MaxNumbers,
         NEW active \in Nat, NEW res, NEW ph \in [Numbers -> Phases],
         \A n \in Numbers : phase[d][n] = "none" => ph[n] = "none",
         status[d] = "completed" => st = "completed",
         FillSlots(d, st, len, active, res, ph)
  PROVE  \A e \in Dialers : DialsRunning(e)
<1>1. TypeOK
  BY DEF Inv
<1>2. /\ st = "completed" => status'[d] = "completed"
      /\ \A n \in Numbers :
           ph[n] = "none" /\ phase'[d][n] = "requested" => status'[d] = "running"
      /\ \A e \in Dialers \ {d} : status'[e] = status[e] /\ phase'[e] = phase[e]
  BY <1>1, FillSlotsDials
<1>3. QED
  BY <1>2 DEF DialsRunning

(* A slot is given back by a call that holds one, so the counter stays a   *)
(* natural number.                                                         *)
LEMMA HolderCounted ==
  ASSUME Inv, NEW d \in Dialers, NEW n \in Holding(phase[d], cleanedSessions[d])
  PROVE  activeCalls[d] - 1 \in Nat
<1>1. /\ Holding(phase[d], cleanedSessions[d]) \in SUBSET Numbers
      /\ activeCalls[d] = Cardinality(Holding(phase[d], cleanedSessions[d]))
      /\ Cardinality(Holding(phase[d], cleanedSessions[d])) \in 0..MaxConcurrent
  BY InvFacts DEF Holding
<1>2. Cardinality(Holding(phase[d], cleanedSessions[d])) - 1 \in 0..MaxConcurrent
  BY <1>1, SlotReturned
<1>3. QED
  BY <1>1, <1>2

LEMMA CleanupCallRunning ==
  ASSUME Inv, NEW d \in Dialers, NEW n \in Numbers, NEW e, NEW res,
         Hears(d, n, e), CleanupCall(d, n, res)
  PROVE  \A f \in Dialers : DialsRunning(f)
<1>1. phase[d][n] = "gone"
  BY HearsFacts
<1>2. CASE n \in cleanedSessions[d]
  BY <1>2 DEF CleanupCall, DialsRunning
<1>3. CASE n \notin cleanedSessions[d]
  <2>1. FillSlots(d, status[d], phoneList[d], activeCalls[d] - 1, res, phase[d])
    BY <1>3 DEF CleanupCall
  <2>2. n \in Holding(phase[d], cleanedSessions[d])
    BY <1>1, <1>3 DEF Holding
  <2>3. activeCalls[d] - 1 \in Nat
    BY <2>2, HolderCounted
  <2>4. QED
    BY <2>1, <2>3, InvFacts, FillSlotsRunning
<1>4. QED
  BY <1>2, <1>3

LEMMA CallbackRunning ==
  ASSUME Inv, HeardFirst, NEW d \in Dialers, Callback(d)
  PROVE  \A e \in Dialers : DialsRunning(e)
<1>1. PICK n \in Numbers :
        OriginateFails(d, n) \/ OriginateReturns(d, n) \/ OnChannelDestroyed(d, n) \/ OnStasisEnd(d, n)
  BY DEF Callback
<1>2. CASE OriginateFails(d, n)
  <2> DEFINE ph == [phase[d] EXCEPT ![n] = "refused"]
  <2>1. /\ phase[d][n] \notin {"none", "refused"} /\ n \notin listening[d]
        /\ FillSlots(d, status[d], phoneList[d], activeCalls[d] - 1,
                     [results[d] EXCEPT ![n] = Append(@, "failed")], ph)
    BY <1>2 DEF OriginateFails
  <2>2. ph \in [Numbers -> Phases] /\ \A m \in Numbers : phase[d][m] = "none" => ph[m] = "none"
    BY <2>1, InvFacts DEF Phases
  <2>3. n \in Holding(phase[d], cleanedSessions[d])
    BY <2>1 DEF Holding, HeardFirst
  <2>4. activeCalls[d] - 1 \in Nat
    BY <2>3, HolderCounted
  <2> HIDE DEF ph
  <2>5. QED
    BY <2>1, <2>2, <2>4, InvFacts, FillSlotsRunning
<1>3. CASE OriginateReturns(d, n)
  BY <1>3 DEF OriginateReturns, DialsRunning
<1>4. CASE OnChannelDestroyed(d, n)
  <2>1. Hears(d, n, "ChannelDestroyed") /\ \E res : CleanupCall(d, n, res)
    BY <1>4 DEF OnChannelDestroyed, RecordOnce
  <2>2. QED
    BY <2>1, CleanupCallRunning
<1>5. CASE OnStasisEnd(d, n)
  <2>1. Hears(d, n, "StasisEnd") /\ \E res : CleanupCall(d, n, res)
    BY <1>5 DEF OnStasisEnd, RecordOnce
  <2>2. QED
    BY <2>1, CleanupCallRunning
<1>6. QED
  BY <1>1, <1>2, <1>3, <1>4, <1>5

(* No number is dialled unless the campaign is running, and a completed    *)
(* campaign stays so.                                                      *)
THEOREM NoLateDialling == Spec => DialsOnlyWhileRunning
<1>1. ASSUME Inv, HeardFirst, [Next]_vars, NEW e \in Dialers
      PROVE  DialsRunning(e)
  <2>1. CASE \E d \in Dialers : Start(d)
    <3>1. PICK d \in Dialers : Start(d)
      BY <2>1
    <3>2. PICK len \in ListLengths[d] :
            FillSlots(d, "running", len, activeCalls[d], results[d], phase[d])
      BY <3>1 DEF Start
    <3>3. status[d] = "idle" /\ len \in 0..MaxNumbers /\ "running" \in Statuses
      BY <3>1, DialerAssumption DEF Start, Statuses
    <3>4. QED
      BY <1>1, <3>2, <3>3, InvFacts, FillSlotsRunning
  <2>2. CASE \E d \in Dialers : Resume(d)
    <3>1. PICK d \in Dialers : Resume(d)
      BY <2>2
    <3>2. FillSlots(d, "running", phoneList[d], activeCalls[d], results[d], phase[d])
      BY <3>1 DEF Resume
    <3>3. status[d] = "paused" /\ "running" \in Statuses
      BY <3>1 DEF Resume, Statuses
    <3>4. QED
      BY <1>1, <3>2, <3>3, InvFacts, FillSlotsRunning
  <2>3. CASE \E d \in Dialers : Pause(d) \/ Stop(d)
    BY <1>1, <2>3 DEF Pause, Stop, pbxVars, DialsRunning, Inv, TypeOK
  <2>4. CASE \E d \in Dialers : Callback(d)
    BY <1>1, <2>4, CallbackRunning
  <2>5. CASE \E d \in Dialers : Asterisk(d)
    <3>1. PICK d \in Dialers, n \in Numbers :
            ChannelCreated(d, n) \/ Answer(d, n) \/ Unanswered(d, n) \/ HangUp(d, n) \/ EventMissed(d, n)
      BY <2>5 DEF Asterisk
    <3>2. UNCHANGED status
      BY <3>1 DEF ChannelCreated, Answer, Unanswered, HangUp, EventMissed, dialerVars
    <3>3. \A m \in Numbers : phase'[e][m] # phase[e][m] => phase'[e][m] # "requested"
      <4>1. phase \in [Dialers -> [Numbers -> Phases]]
        BY <1>1 DEF Inv, TypeOK
      <4>2. \/ UNCHANGED phase
            \/ \E p \in {"ringing", "up", "gone"} : phase' = [phase EXCEPT ![d][n] = p]
        BY <3>1 DEF ChannelCreated, Answer, Unanswered, HangUp, EventMissed
      <4>3. QED
        BY <4>1, <4>2
    <3>4. QED
      BY <3>2, <3>3 DEF DialsRunning
  <2>6. CASE ConnectionLost \/ UNCHANGED vars
    BY <2>6 DEF ConnectionLost, vars, dialerVars, pbxVars, DialsRunning
  <2>7. QED
    BY <1>1, <2>1, <2>2, <2>3, <2>4, <2>5, <2>6 DEF Next
<1>2. Inv /\ HeardFirst /\ [Next]_vars =>
        [\A d \in Dialers :
           /\ status[d] = "completed" => status'[d] = "completed"
           /\ \A n \in Numbers :
                phase[d][n] = "none" /\ phase'[d][n] = "requested" => status'[d] = "running"]_vars
  BY <1>1 DEF DialsRunning
<1>3. QED
  BY <1>2, Invariant, PTL DEF Spec, DialsOnlyWhileRunning
===============================================================================
