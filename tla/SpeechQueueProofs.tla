--------------------------- MODULE SpeechQueueProofs ---------------------------
(***************************************************************************)
(* For any number of texts and barge-ins: the variables of a call's speech *)
(* keep their types, no text is left in a queue without a loop, and the    *)
(* Rust server never has the audio of two utterances, those apart that the *)
(* loop gave up.  The queue and the server keep their word to each other:  *)
(* it hands over in turn, and supposes no more of the server than          *)
(* TtsPlayer promises.                                                     *)
(*                                                                         *)
(* OneVoice rests on where the loop is: an utterance Rust has not finished *)
(* with is the one the loop is handing over or waiting for, or one it gave *)
(* up.  That there is one loop then rests on how often the entry of        *)
(* sessionSpeechState is made anew.                                        *)
(***************************************************************************)
EXTENDS SpeechQueue, FiniteSetTheorems, SequenceTheorems, TLAPS

SpeechStates ==
  [queue : Seq(Utterances), processing : BOOLEAN, ttsActive : BOOLEAN, triggered : BOOLEAN,
   awaiting : BOOLEAN, uttId : Utterances \cup {None}, prefetched : Utterances \cup {None},
   lastSpoken : Utterances \cup {Blank}, timers : SUBSET (1..MaxBargeIns), phase : LoopPhases,
   item : Utterances \cup {None}, on : Objects \cup {None}, ahead : Utterances \cup {None}]

Speeches == [Objects -> SpeechStates]

HarnessStates ==
  [pending : Utterances \cup {None}, outcome : [Utterances -> Outcomes], speaking : BOOLEAN]

OutsideType ==
  /\ text \in [Utterances -> Utterances \cup {Blank}]
  /\ brain \in {"harness", "openclaw"}
  /\ asked \in 0..MaxSpeaks
  /\ session \in {"active", "transferred", "ended"}
  /\ harness \in HarnessStates

(* Each barge-in is reported once and cancels at most once.                *)
RustType ==
  /\ rust \in [Utterances -> Player!RustStates]
  /\ notices \in SUBSET Utterances
  /\ vad \in BOOLEAN
  /\ bargeIns \in 0..MaxBargeIns
  /\ cancels \in Nat
  /\ cancels + (IF vad THEN 1 ELSE 0) <= bargeIns

(* How often the entry has been made.                                      *)
EntryInv ==
  /\ created \in 0..3 /\ current \in 0..created
  /\ session = "active" => created <= 1 /\ (current = None => created = 0)
  /\ session = "transferred" => created <= 2 /\ (current = None => created <= 1)
  /\ current = None => created <= 2

(* What waits of the first a texts, in the order they were asked for.      *)
Waiting(q, a) ==
  /\ \A i \in DOMAIN q : text[q[i]] # Blank /\ q[i] <= a
  /\ \A i, j \in DOMAIN q : i < j => q[i] < q[j]

(* One speech state: there is a loop for what waits, and while the loop    *)
(* has an item, transcriptions are held back or the user has interrupted.  *)
LoopInv(s, a) ==
  /\ Waiting(s.queue, a)
  /\ s.queue # <<>> \/ s.phase # "idle" => s.processing
  /\ s.phase # "idle" =>
       /\ s.item \in 1..a /\ s.on # None /\ (s.ttsActive \/ s.triggered)
       /\ \A i \in DOMAIN s.queue : s.item < s.queue[i]

Loops(st, c, a) ==
  /\ st \in Speeches
  /\ \A o \in Objects : LoopInv(st[o], a) /\ (o > c => st[o].phase = "idle")

(* What the Rust server has, ru, when the loop is in s: what it has not    *)
(* finished with is the loop's item, and what comes is new to it.          *)
Voices == {"audio", "done", "cut", "silent"}

Given(ru, s, a) ==
  \A u \in Utterances :
    /\ ru[u] \in Voices => s.item = u /\ s.phase \in {"stream", "done", "wait"}
    /\ ru[u] # "none" => u <= a /\ (s.phase # "idle" => u <= s.item)

VoiceInv ==
  /\ \A u, v \in Utterances : rust[u] \in Voices /\ rust[v] \in Voices => u = v
  /\ \A u \in notices : rust[u] = "over"
  /\ session = "active" => Given(rust, speech[1], asked)

SpeechInv ==
  OutsideType /\ RustType /\ EntryInv /\ Loops(speech, created, asked) /\ VoiceInv

-----------------------------------------------------------------------------
(* What LoopInv looks at.                                                  *)
SameLoop(s, t) ==
  /\ s.queue = t.queue /\ s.processing = t.processing
  /\ s.ttsActive = t.ttsActive /\ s.triggered = t.triggered
  /\ s.phase = t.phase /\ s.item = t.item /\ s.on = t.on

LEMMA SameLoopInv ==
  ASSUME NEW s, NEW t, NEW a, SameLoop(s, t), LoopInv(t, a)
  PROVE  LoopInv(s, a)
BY DEF SameLoop, LoopInv, Waiting

(* The loop in t has taken the item u of s to perform it on object r.      *)
HasTaken(t, s, u, r) ==
  /\ t.queue = Tail(s.queue) /\ t.processing = s.processing
  /\ t.ttsActive = s.ttsActive /\ t.triggered = s.triggered
  /\ t.phase \in {"synth", "stream"} /\ t.item = u /\ t.on = r

LEMMA TakenFacts ==
  ASSUME NEW st \in Speeches, NEW o \in Objects, NEW r \in Objects, NEW u \in Utterances,
         st[o].queue # <<>>
  PROVE  /\ Taken(st, o, u, r) \in Speeches
         /\ HasTaken(Taken(st, o, u, r)[o], st[o], u, r)
         /\ \A p \in Objects \ {o} : SameLoop(Taken(st, o, u, r)[p], st[p])
<1> DEFINE ready == Prefetched(st[r], u)
           s1 == Begun(st[o], u, r, ready)
           mid == [st EXCEPT ![o] = s1]
           s2 == [mid[r] EXCEPT !.prefetched = None, !.uttId = IF ready THEN u ELSE mid[r].uttId]
           new == [mid EXCEPT ![r] = s2]
<1>1. Taken(st, o, u, r) = new
  BY DEF Taken
<1> HIDE DEF ready
<1>2. Tail(st[o].queue) \in Seq(Utterances) /\ st[o] \in SpeechStates
  BY DEF Speeches, SpeechStates
<1>3. /\ s1 \in SpeechStates
      /\ HasTaken(s1, st[o], u, r)
  <2> DEFINE ph == IF ready THEN "stream" ELSE "synth"
  <2>1. ph \in LoopPhases /\ ph \in {"synth", "stream"}
    BY DEF LoopPhases
  <2>2. s1 = [st[o] EXCEPT !.queue = Tail(@), !.item = u, !.on = r, !.ahead = None, !.phase = ph]
    BY DEF Begun
  <2> HIDE DEF ph, s1
  <2>3. s1 \in SpeechStates
    BY <1>2, <2>1, <2>2 DEF SpeechStates
  <2>4. HasTaken(s1, st[o], u, r)
    BY <1>2, <2>1, <2>2 DEF SpeechStates, HasTaken
  <2> QED BY <2>3, <2>4
<1> HIDE DEF s1
<1>4. mid \in Speeches /\ mid[o] = s1 /\ \A p \in Objects \ {o} : mid[p] = st[p]
  BY <1>3 DEF Speeches
<1> HIDE DEF mid
<1>5. mid[r] \in SpeechStates
  BY <1>4 DEF Speeches
<1>6. s2 \in SpeechStates
  BY <1>5 DEF SpeechStates
<1>7. SameLoop(s2, mid[r])
  BY <1>5 DEF SpeechStates, SameLoop
<1> HIDE DEF s2
<1>8. new \in Speeches /\ \A p \in Objects : SameLoop(new[p], mid[p])
  BY <1>4, <1>6, <1>7 DEF Speeches, SameLoop
<1> HIDE DEF new
<1> QED BY <1>1, <1>3, <1>4, <1>8 DEF SameLoop, HasTaken

LEMMA Updated ==
  ASSUME NEW st \in Speeches, NEW o \in Objects, NEW s \in SpeechStates
  PROVE  /\ [st EXCEPT ![o] = s] \in Speeches
         /\ [st EXCEPT ![o] = s][o] = s
         /\ \A p \in Objects \ {o} : [st EXCEPT ![o] = s][p] = st[p]
BY DEF Speeches

(* Looking the entry up, or not.                                           *)
LEMMA LookupKeeps ==
  ASSUME EntryInv, Lookup \/ UNCHANGED <<current, created>>, session' = session
  PROVE  EntryInv' /\ created' >= created
BY DEF EntryInv, Lookup, Object, None

LEMMA ObjectFound ==
  ASSUME EntryInv
  PROVE  /\ Object \in Objects
         /\ Lookup => Object <= created'
         /\ session = "active" => Object = 1
         /\ Object # current => Object > created
BY DEF EntryInv, Lookup, Object, Objects, None

(* The head of the queue has been taken: the rest waits for it.            *)
LEMMA TailWaits ==
  ASSUME NEW q \in Seq(Utterances), NEW a \in 0..MaxSpeaks, Waiting(q, a), q # <<>>
  PROVE  /\ Head(q) \in 1..a /\ Head(q) \in Utterances
         /\ Waiting(Tail(q), a)
         /\ \A i \in DOMAIN Tail(q) : Head(q) < Tail(q)[i]
<1>1. q[1] \in Utterances /\ 1 \in DOMAIN q /\ Head(q) = q[1]
  OBVIOUS
<1>2. \A i \in DOMAIN Tail(q) : i + 1 \in DOMAIN q /\ Tail(q)[i] = q[i + 1] /\ i \in Nat /\ i > 0
  BY HeadTailProperties
<1>3. \A i \in DOMAIN q : q[i] \in Nat
  BY SpeechAssumption DEF Utterances
<1> QED BY <1>1, <1>2, <1>3, SpeechAssumption DEF Waiting, Utterances

LEMMA ExitedFacts ==
  ASSUME NEW s \in SpeechStates
  PROVE  /\ Exited(s) \in SpeechStates
         /\ Exited(s).queue = <<>> /\ Exited(s).phase = "idle"
<1> DEFINE t == [s EXCEPT !.queue = <<>>, !.processing = FALSE, !.ttsActive = FALSE,
                          !.awaiting = FALSE]
<1>0. <<>> \in Seq(Utterances)
  OBVIOUS
<1>1. t \in SpeechStates
  BY <1>0 DEF SpeechStates
<1>2. [t EXCEPT !.uttId = None, !.phase = "idle", !.item = None, !.on = None, !.ahead = None]
        \in SpeechStates
  <2> HIDE DEF t
  <2> QED BY <1>1 DEF SpeechStates, LoopPhases
<1>3. Exited(s) \in SpeechStates
  BY <1>2 DEF Exited
<1>4. Exited(s).queue = <<>>
  BY Zenon DEF Exited, SpeechStates
<1>5. Exited(s).phase = "idle"
  BY DEF Exited, SpeechStates
<1> QED BY <1>3, <1>4, <1>5

(* The head of the loop.                                                   *)
LEMMA ContinueKeeps ==
  ASSUME EntryInv, session' = session, NEW a \in 0..MaxSpeaks,
         NEW st \in Speeches, NEW o \in Objects, o <= created \/ o = Object,
         \A p \in Objects \ {o} : LoopInv(st[p], a) /\ (p > created => st[p].phase = "idle"),
         Waiting(st[o].queue, a), st[o].processing, st[o].ttsActive \/ st[o].triggered,
         Continue(st, o)
  PROVE  /\ EntryInv'
         /\ Loops(speech', created', a)
         /\ session = "active" => o = 1
         /\ \/ speech'[o].phase = "idle"
            \/ /\ speech'[o].phase \in {"synth", "stream"}
               /\ st[o].queue # <<>> /\ speech'[o].item = Head(st[o].queue)
<1> DEFINE s == st[o]
<1>1. s \in SpeechStates /\ s.queue \in Seq(Utterances)
  BY DEF Speeches, SpeechStates
<1>2. Lookup \/ UNCHANGED <<current, created>>
  BY DEF Continue
<1>3. EntryInv' /\ created' >= created
  BY <1>2, LookupKeeps
<1>4. session = "active" => o = 1
  BY ObjectFound DEF EntryInv, Objects
<1>5. CASE s.queue = <<>> \/ s.triggered \/ session = "ended"
  <2>1. speech' = [st EXCEPT ![o] = Exited(s)]
    BY <1>5 DEF Continue
  <2>2. Exited(s) \in SpeechStates /\ Exited(s).queue = <<>> /\ Exited(s).phase = "idle"
    BY <1>1, ExitedFacts
  <2>3. LoopInv(Exited(s), a)
    BY <2>2 DEF LoopInv, Waiting
  <2>4. /\ speech' \in Speeches /\ speech'[o] = Exited(s)
        /\ \A p \in Objects \ {o} : speech'[p] = st[p]
    BY <2>1, <2>2 DEF Speeches
  <2>5. created \in Nat /\ created' \in Nat /\ \A p \in Objects : p > created' => p > created
    BY <1>3 DEF EntryInv, Objects
  <2> QED BY <1>3, <1>4, <2>2, <2>3, <2>4, <2>5 DEF Loops
<1>6. CASE ~(s.queue = <<>> \/ s.triggered \/ session = "ended")
  <2> DEFINE q == s.queue
             r == Object
  <2>1. speech' = Taken(st, o, Head(q), r) /\ Lookup
    BY <1>6 DEF Continue
  <2>2. /\ Head(q) \in 1..a /\ Head(q) \in Utterances /\ Waiting(Tail(q), a)
        /\ \A i \in DOMAIN Tail(q) : Head(q) < Tail(q)[i]
    BY <1>1, <1>6, TailWaits
  <2>3. r \in Objects /\ r <= created' /\ r # None
    BY <2>1, ObjectFound DEF Objects, None
  <2>4. /\ speech' \in Speeches
        /\ HasTaken(speech'[o], s, Head(q), r)
        /\ \A p \in Objects \ {o} : SameLoop(speech'[p], st[p])
    <3> HIDE DEF r
    <3> QED BY <1>6, <2>1, <2>2, <2>3, TakenFacts
  <2>5. LoopInv(speech'[o], a) /\ o <= created'
    BY <1>3, <2>2, <2>3, <2>4 DEF LoopInv, EntryInv, Objects, HasTaken
  <2>6. \A p \in Objects \ {o} : LoopInv(speech'[p], a) /\ speech'[p].phase = st[p].phase
    BY <2>4, SameLoopInv DEF SameLoop
  <2>7. created \in Nat /\ created' \in Nat /\ \A p \in Objects : p > created' => p > created
    BY <1>3 DEF EntryInv, Objects
  <2>8. \A p \in Objects : p > created' => speech'[p].phase = "idle"
    BY <2>5, <2>6, <2>7 DEF Objects
  <2> QED BY <1>3, <1>4, <1>6, <2>4, <2>5, <2>6, <2>8 DEF Loops, HasTaken
<1> QED BY <1>5, <1>6

(* The same, as Rust sees it: the item taken is new to it.                 *)
LEMMA ContinueGives ==
  ASSUME NEW a \in 0..MaxSpeaks, NEW ru \in [Utterances -> Player!RustStates],
         NEW q \in Seq(Utterances), NEW s,
         \/ s.phase = "idle"
         \/ s.phase \in {"synth", "stream"} /\ q # <<>> /\ s.item = Head(q),
         \A u \in Utterances : ru[u] \notin Voices,
         \A u \in Utterances : ru[u] # "none" => u <= a /\ \A i \in DOMAIN q : u <= q[i]
  PROVE  Given(ru, s, a)
<1>1. q # <<>> => 1 \in DOMAIN q /\ Head(q) = q[1]
  OBVIOUS
<1> QED BY <1>1 DEF Given

-----------------------------------------------------------------------------
(* The promises of the harness.                                            *)
LEMMA SettledType ==
  ASSUME NEW h \in HarnessStates, NEW out \in Outcomes
  PROVE  Settled(h, out) \in HarnessStates
<1>1. CASE h.pending = None
  BY <1>1 DEF Settled
<1>2. CASE h.pending # None
  BY <1>2 DEF Settled, HarnessStates
<1> QED BY <1>1, <1>2

LEMMA NotifiedType ==
  ASSUME NEW h \in HarnessStates
  PROVE  Notified(h) \in HarnessStates /\ Cancelled(h) \in HarnessStates
<1>1. Settled(h, "resolved") \in HarnessStates /\ Settled(h, "rejected") \in HarnessStates
  BY SettledType DEF Outcomes
<1> QED BY <1>1 DEF Notified, Cancelled, HarnessStates

(* An item is finished with, and the loop goes on.                         *)
LEMMA FinishKeeps ==
  ASSUME SpeechInv, session' = session, NEW o \in Objects, speech[o].phase # "idle",
         NEW st \in Speeches, \A p \in Objects : SameLoop(st[p], speech[p]), Continue(st, o),
         NEW ru \in [Utterances -> Player!RustStates],
         session = "active" =>
           \A u \in Utterances : /\ ru[u] \notin Voices
                                 /\ ru[u] # "none" => u <= speech[o].item
  PROVE  /\ EntryInv' /\ Loops(speech', created', asked)
         /\ session = "active" => Given(ru, speech'[1], asked)
<1>1. asked \in 0..MaxSpeaks /\ EntryInv /\ Loops(speech, created, asked)
  BY DEF SpeechInv, OutsideType
<1>2. \A p \in Objects : LoopInv(st[p], asked) /\ (p > created => st[p].phase = "idle")
  BY <1>1, SameLoopInv DEF Loops, SameLoop
<1>3. st[o].phase # "idle" /\ st[o].item = speech[o].item
  BY DEF SameLoop
<1>4. o <= created
  BY <1>1 DEF EntryInv, Loops, Objects
<1>5. Waiting(st[o].queue, asked) /\ st[o].processing /\ (st[o].ttsActive \/ st[o].triggered)
  BY <1>2, <1>3 DEF LoopInv
<1>6. /\ EntryInv' /\ Loops(speech', created', asked)
      /\ session = "active" => o = 1
      /\ \/ speech'[o].phase = "idle"
         \/ /\ speech'[o].phase \in {"synth", "stream"}
            /\ st[o].queue # <<>> /\ speech'[o].item = Head(st[o].queue)
  BY <1>1, <1>2, <1>4, <1>5, ContinueKeeps
<1>7. ASSUME session = "active"
      PROVE  Given(ru, speech'[1], asked)
  <2>1. o = 1
    BY <1>6, <1>7
  <2>2. st[o].queue \in Seq(Utterances) /\ \A i \in DOMAIN st[o].queue : st[o].queue[i] \in Utterances
    BY DEF Speeches, SpeechStates
  <2>3. st[o].item \in 1..asked /\ \A i \in DOMAIN st[o].queue : st[o].item < st[o].queue[i]
    BY <1>2, <1>3 DEF LoopInv
  <2>4. \A u \in Utterances :
          ru[u] # "none" => u <= asked /\ \A i \in DOMAIN st[o].queue : u <= st[o].queue[i]
    BY <1>1, <1>3, <1>7, <2>2, <2>3, SpeechAssumption DEF Utterances
  <2> DEFINE q == st[o].queue
             s == speech'[o]
  <2>5. \/ s.phase = "idle"
        \/ s.phase \in {"synth", "stream"} /\ q # <<>> /\ s.item = Head(q)
    BY <1>6
  <2> HIDE DEF q, s
  <2>6. Given(ru, s, asked)
    BY <1>1, <1>7, <2>2, <2>4, <2>5, ContinueGives DEF q
  <2> QED BY <2>1, <2>6 DEF s
<1> QED BY <1>6, <1>7

(* Changes to the objects that the loops do not look at.                   *)
LEMMA SpeechUpdated ==
  ASSUME NEW r \in Objects, NEW s \in SpeechStates, NEW st \in Speeches, SameLoop(s, st[r])
  PROVE  /\ [st EXCEPT ![r] = s] \in Speeches
         /\ \A p \in Objects : SameLoop([st EXCEPT ![r] = s][p], st[p])
BY DEF Speeches, SameLoop

LEMMA FailsKeeps ==
  ASSUME SpeechInv, session' = session, NEW o \in Objects, speech[o].phase # "idle", Fails(o),
         NEW ru \in [Utterances -> Player!RustStates],
         session = "active" =>
           \A u \in Utterances : /\ ru[u] \notin Voices
                                 /\ ru[u] # "none" => u <= speech[o].item
  PROVE  /\ EntryInv' /\ Loops(speech', created', asked)
         /\ session = "active" => Given(ru, speech'[1], asked)
         /\ harness' \in HarnessStates
<1> DEFINE r == speech[o].on
           s == [speech[r] EXCEPT !.uttId = None, !.prefetched = None]
           st == [speech EXCEPT ![r].uttId = None, ![r].prefetched = None]
<1>1. speech \in Speeches /\ LoopInv(speech[o], asked) /\ harness \in HarnessStates
  BY DEF SpeechInv, Loops, OutsideType
<1>2. r \in Objects
  BY <1>1 DEF LoopInv, Speeches, SpeechStates
<1>3. speech[r] \in SpeechStates
  BY <1>1, <1>2 DEF Speeches
<1>4. s \in SpeechStates
  BY <1>3 DEF SpeechStates
<1>5. SameLoop(s, speech[r])
  BY <1>3 DEF SpeechStates, SameLoop
<1>6. st = [speech EXCEPT ![r] = s]
  BY <1>1, <1>3 DEF Speeches
<1>7. Continue(st, o) /\ harness' = Notified(harness)
  BY DEF Fails
<1> HIDE DEF s, r
<1>8. st \in Speeches /\ \A p \in Objects : SameLoop(st[p], speech[p])
  BY <1>1, <1>2, <1>4, <1>5, <1>6, SpeechUpdated
<1> HIDE DEF st
<1> QED BY <1>1, <1>7, <1>8, FinishKeeps, NotifiedType

LEMMA SpokenKeeps ==
  ASSUME SpeechInv, session' = session, NEW o \in Objects, speech[o].phase # "idle",
         NEW got \in BOOLEAN, Spoken(o, got),
         NEW ru \in [Utterances -> Player!RustStates],
         session = "active" =>
           \A u \in Utterances : /\ ru[u] \notin Voices
                                 /\ ru[u] # "none" => u <= speech[o].item
  PROVE  /\ EntryInv' /\ Loops(speech', created', asked)
         /\ session = "active" => Given(ru, speech'[1], asked)
         /\ harness' \in HarnessStates
<1> DEFINE r == speech[o].on
           ahead == speech[o].ahead
           said == text[speech[o].item]
           broken == speech[o].triggered
           s == [speech[r] EXCEPT !.uttId = None, !.prefetched = IF got THEN ahead ELSE @]
           kept == [speech EXCEPT ![r].uttId = None, ![r].prefetched = IF got THEN ahead ELSE @]
           t == [kept[o] EXCEPT !.prefetched = IF broken THEN None ELSE @, !.lastSpoken = said]
           st == [kept EXCEPT ![o].prefetched = IF broken THEN None ELSE @, ![o].lastSpoken = said]
<1>1. /\ speech \in Speeches /\ LoopInv(speech[o], asked) /\ harness \in HarnessStates
      /\ text \in [Utterances -> Utterances \cup {Blank}] /\ asked \in 0..MaxSpeaks
  BY DEF SpeechInv, Loops, OutsideType
<1>2. r \in Objects /\ ahead \in Utterances \cup {None}
  BY <1>1 DEF LoopInv, Speeches, SpeechStates
<1>3. said \in Utterances \cup {Blank}
  BY <1>1, SpeechAssumption DEF LoopInv, Utterances
<1>4. Continue(st, o) /\ harness' = Notified(harness)
  BY DEF Spoken
<1> HIDE DEF r, ahead, said, broken
<1>5. speech[r] \in SpeechStates
  BY <1>1, <1>2 DEF Speeches
<1>6. s \in SpeechStates
  BY <1>2, <1>5 DEF SpeechStates
<1>7. SameLoop(s, speech[r])
  BY <1>5 DEF SpeechStates, SameLoop
<1>8. kept = [speech EXCEPT ![r] = s]
  BY <1>1, <1>5 DEF Speeches
<1> HIDE DEF s
<1>9. kept \in Speeches /\ \A p \in Objects : SameLoop(kept[p], speech[p])
  BY <1>1, <1>2, <1>6, <1>7, <1>8, SpeechUpdated
<1> HIDE DEF kept
<1>10. kept[o] \in SpeechStates
  BY <1>9 DEF Speeches
<1>11. t \in SpeechStates
  <2> DEFINE pre == IF broken THEN None ELSE kept[o].prefetched
  <2>1. pre \in Utterances \cup {None}
    BY <1>10 DEF SpeechStates
  <2>2. t = [kept[o] EXCEPT !.prefetched = pre, !.lastSpoken = said]
    OBVIOUS
  <2> HIDE DEF pre, t
  <2> QED BY <1>3, <1>10, <2>1, <2>2 DEF SpeechStates
<1>12. SameLoop(t, kept[o])
  BY <1>10 DEF SpeechStates, SameLoop
<1>13. st = [kept EXCEPT ![o] = t]
  BY <1>9, <1>10 DEF Speeches
<1> HIDE DEF t
<1>14. st \in Speeches /\ \A p \in Objects : SameLoop(st[p], kept[p])
  BY <1>9, <1>11, <1>12, <1>13, SpeechUpdated
<1> HIDE DEF st
<1>15. \A p \in Objects : SameLoop(st[p], speech[p])
  BY <1>9, <1>14 DEF SameLoop
<1> QED BY <1>1, <1>4, <1>14, <1>15, FinishKeeps, NotifiedType

(* A step of the loop of o to another of its phases.                       *)
LEMMA PhaseKeeps ==
  ASSUME SpeechInv, NEW o \in Objects, speech[o].phase # "idle", NEW ph \in LoopPhases \ {"idle"},
         NEW st \in Speeches, \A p \in Objects : SameLoop(st[p], speech[p]),
         speech' = [st EXCEPT ![o].phase = ph], NEW ru,
         session = "active" =>
           \/ ph \in {"stream", "done", "wait"} /\ ru = rust
           \/ \A u \in Utterances : ru[u] \notin Voices /\ (ru[u] # "none" => u <= speech[o].item)
  PROVE  /\ Loops(speech', created, asked)
         /\ session = "active" => Given(ru, speech'[1], asked)
<1>1. /\ EntryInv /\ speech \in Speeches
      /\ \A p \in Objects : LoopInv(speech[p], asked) /\ (p > created => speech[p].phase = "idle")
  BY DEF SpeechInv, Loops
<1>2. \A p \in Objects : LoopInv(st[p], asked) /\ st[p].phase = speech[p].phase
  BY <1>1, SameLoopInv DEF SameLoop
<1>3. st[o] \in SpeechStates
  BY DEF Speeches
<1> DEFINE s == [st[o] EXCEPT !.phase = ph]
<1>4. /\ s \in SpeechStates /\ s.phase = ph /\ s.item = speech[o].item
      /\ s.queue = st[o].queue /\ s.on = st[o].on
  BY <1>3 DEF SpeechStates, SameLoop
<1>5. s.processing = st[o].processing /\ s.ttsActive = st[o].ttsActive /\ s.triggered = st[o].triggered
  BY <1>3 DEF SpeechStates
<1> HIDE DEF s
<1>6. LoopInv(s, asked)
  <2>1. LoopInv(st[o], asked) /\ st[o].phase # "idle" /\ st[o].item = speech[o].item
    BY <1>2 DEF SameLoop
  <2> QED BY <1>4, <1>5, <2>1 DEF LoopInv
<1>7. speech' = [st EXCEPT ![o] = s]
  BY <1>3 DEF s, Speeches
<1>8. speech' \in Speeches /\ speech'[o] = s /\ \A p \in Objects \ {o} : speech'[p] = st[p]
  BY <1>4, <1>7 DEF Speeches
<1>9. Loops(speech', created, asked)
  BY <1>1, <1>2, <1>4, <1>6, <1>8 DEF Loops
<1>10. ASSUME session = "active"
       PROVE  Given(ru, speech'[1], asked)
  <2>1. o = 1
    BY <1>1, <1>10 DEF EntryInv, Objects
  <2>2. Given(rust, speech[1], asked)
    BY <1>10 DEF SpeechInv, VoiceInv
  <2>3. asked \in 0..MaxSpeaks /\ speech[o].item \in 1..asked
    BY <1>1 DEF SpeechInv, OutsideType, LoopInv
  <2>4. CASE ph \in {"stream", "done", "wait"} /\ ru = rust
    BY <1>4, <1>8, <2>1, <2>2, <2>4 DEF Given
  <2>5. CASE \A u \in Utterances : ru[u] \notin Voices /\ (ru[u] # "none" => u <= speech[o].item)
    <3>1. speech'[1].item = speech[o].item
      BY <1>4, <1>8, <2>1
    <3>2. \A u \in Utterances : u \in Nat
      BY SpeechAssumption DEF Utterances
    <3>3. \A u \in Utterances : ru[u] # "none" => u <= asked
      BY <2>3, <2>5, <3>2
    <3> QED BY <2>5, <3>1, <3>3 DEF Given
  <2> QED BY <1>10, <2>4, <2>5
<1> QED BY <1>9, <1>10

-----------------------------------------------------------------------------
(* One more text has been asked for.                                       *)
LEMMA AskedMore ==
  ASSUME NEW a \in 0..MaxSpeaks, NEW b \in 0..MaxSpeaks, a <= b
  PROVE  /\ \A s \in SpeechStates : LoopInv(s, a) => LoopInv(s, b)
         /\ \A ru, s : Given(ru, s, a) => Given(ru, s, b)
<1>1. ASSUME NEW s \in SpeechStates, LoopInv(s, a) PROVE LoopInv(s, b)
  <2>0. s.queue \in Seq(Utterances)
    BY DEF SpeechStates
  <2>1. \A i \in DOMAIN s.queue : s.queue[i] \in Nat
    BY <2>0, SpeechAssumption DEF Utterances
  <2>2. Waiting(s.queue, b)
    BY <1>1, <2>1, SpeechAssumption DEF LoopInv, Waiting
  <2>3. s.item \in 1..a => s.item \in 1..b
    BY SpeechAssumption
  <2> QED BY <1>1, <2>2, <2>3 DEF LoopInv
<1>2. ASSUME NEW ru, NEW s, Given(ru, s, a) PROVE Given(ru, s, b)
  BY <1>2, SpeechAssumption DEF Given, Utterances
<1> QED BY <1>1, <1>2

LEMMA EnqueuedWaits ==
  ASSUME NEW q \in Seq(Utterances), NEW u \in Utterances, NEW sup \in BOOLEAN,
         Waiting(q, u - 1), text[u] # Blank
  PROVE  /\ Enqueued(q, u, sup) \in Seq(Utterances)
         /\ Waiting(Enqueued(q, u, sup), u)
         /\ \A i \in DOMAIN Enqueued(q, u, sup) :
              Enqueued(q, u, sup)[i] = u \/ (i \in DOMAIN q /\ Enqueued(q, u, sup)[i] = q[i])
<1>1. \A i \in DOMAIN q : q[i] \in Utterances /\ i \in 1..Len(q)
  OBVIOUS
<1>2. CASE sup
  <2>1. Enqueued(q, u, sup) = <<u>>
    BY <1>2 DEF Enqueued
  <2>2. /\ <<u>> \in Seq(Utterances) /\ u \in Nat
        /\ \A i \in DOMAIN <<u>> : i = 1 /\ <<u>>[i] = u
    BY SpeechAssumption DEF Utterances
  <2> DEFINE e == <<u>>
  <2> HIDE DEF e
  <2>3. Waiting(e, u)
    BY <2>2 DEF Waiting, e
  <2> QED BY <2>1, <2>2, <2>3 DEF e
<1>3. CASE ~sup
  <2> DEFINE e == Append(q, u)
  <2>1. Enqueued(q, u, sup) = e
    BY <1>3 DEF Enqueued
  <2>2. /\ e \in Seq(Utterances) /\ DOMAIN e = 1..(Len(q) + 1) /\ Len(q) \in Nat
        /\ e[Len(q) + 1] = u /\ \A i \in 1..Len(q) : e[i] = q[i] /\ i \in DOMAIN q
    OBVIOUS
  <2> HIDE DEF e
  <2>3. \A i \in DOMAIN e : i = Len(q) + 1 \/ i \in 1..Len(q)
    <3>1. \A i \in 1..(Len(q) + 1) : i = Len(q) + 1 \/ i \in 1..Len(q)
      BY <2>2
    <3> QED BY <2>2, <3>1, Zenon
  <2>4. \A i \in DOMAIN e : e[i] = u \/ (i \in DOMAIN q /\ e[i] = q[i])
    BY <2>2, <2>3, Zenon
  <2>5. \A i \in DOMAIN q : text[q[i]] # Blank /\ q[i] < u
    BY <1>1, SpeechAssumption DEF Waiting, Utterances
  <2>6. \A i \in DOMAIN e : text[e[i]] # Blank /\ e[i] <= u
    <3>1. \A i \in DOMAIN e : e[i] = u \/ (text[e[i]] # Blank /\ e[i] < u)
      BY <2>4, <2>5, Zenon
    <3>2. \A i \in DOMAIN e : e[i] \in Nat /\ u \in Nat
      BY <2>2, SpeechAssumption DEF Utterances
    <3> QED BY <3>1, <3>2
  <2>7. ASSUME NEW i \in DOMAIN e, NEW j \in DOMAIN e, i < j PROVE e[i] < e[j]
    <3>1. i \in 1..Len(q)
      BY <2>2, <2>3, <2>7
    <3>2. CASE j = Len(q) + 1
      BY <2>2, <2>5, <3>1, <3>2
    <3>3. CASE j \in 1..Len(q)
      BY <2>2, <2>7, <3>1, <3>3 DEF Waiting
    <3> QED BY <2>3, <3>2, <3>3
  <2> QED BY <2>1, <2>2, <2>4, <2>6, <2>7 DEF Waiting
<1> QED BY <1>2, <1>3

LEMMA PushKeeps ==
  ASSUME SpeechInv, session' = session, NEW u \in Utterances, u = asked + 1, text[u] # Blank,
         NEW sup \in BOOLEAN, Push(Object, u, sup)
  PROVE  /\ EntryInv' /\ Loops(speech', created', u)
         /\ session = "active" => Given(rust, speech'[1], u)
<1> DEFINE o == Object
           q == speech[o].queue
           e == Enqueued(q, u, sup)
           s == [speech[o] EXCEPT !.queue = Enqueued(@, u, sup)]
           t == [s EXCEPT !.processing = TRUE, !.triggered = FALSE, !.ttsActive = TRUE]
           st == [speech EXCEPT ![o] = t]
<1>1. /\ EntryInv /\ speech \in Speeches /\ asked \in 0..MaxSpeaks /\ u \in 0..MaxSpeaks
      /\ asked <= u /\ asked = u - 1
      /\ session = "active" => Given(rust, speech[1], asked)
      /\ \A p \in Objects : LoopInv(speech[p], asked) /\ (p > created => speech[p].phase = "idle")
      /\ rust \in [Utterances -> Player!RustStates]
  BY SpeechAssumption DEF SpeechInv, OutsideType, RustType, VoiceInv, Loops, Utterances
<1>2. \A p \in Objects : speech[p] \in SpeechStates /\ LoopInv(speech[p], u)
  BY <1>1, AskedMore DEF Speeches
<1>3. session = "active" => Given(rust, speech[1], u)
  BY <1>1, AskedMore
<1>4. o \in Objects /\ (session = "active" => o = 1) /\ (Lookup => o <= created')
  BY <1>1, ObjectFound
<1>5. Push(o, u, sup)
  OBVIOUS
<1> HIDE DEF o
<1>6. speech[o] \in SpeechStates /\ q \in Seq(Utterances) /\ Waiting(q, u - 1)
  BY <1>1, <1>2, <1>4 DEF LoopInv, SpeechStates
<1>7. /\ e \in Seq(Utterances) /\ Waiting(e, u)
      /\ \A i \in DOMAIN e : e[i] = u \/ (i \in DOMAIN q /\ e[i] = q[i])
  BY <1>6, EnqueuedWaits
<1> HIDE DEF e
<1>8. s = [speech[o] EXCEPT !.queue = e]
  BY DEF e
<1>9. /\ s \in SpeechStates /\ s.queue = e /\ s.processing = speech[o].processing
      /\ s.phase = speech[o].phase /\ s.item = speech[o].item /\ s.on = speech[o].on
      /\ s.ttsActive = speech[o].ttsActive /\ s.triggered = speech[o].triggered
  BY <1>6, <1>7, <1>8 DEF SpeechStates
<1> HIDE DEF s
<1>10. CASE speech[o].processing
  <2>1. speech' = [speech EXCEPT ![o] = s] /\ Lookup
    BY <1>5, <1>9, <1>10 DEF Push, s
  <2>2. EntryInv' /\ created' >= created
    BY <1>1, <2>1, LookupKeeps
  <2>3. LoopInv(s, u)
    <3>1. LoopInv(speech[o], asked)
      BY <1>1, <1>4
    <3>2. \A i \in DOMAIN q : q[i] \in Nat
      BY <1>6, SpeechAssumption DEF Utterances
    <3>3. speech[o].phase # "idle" => \A i \in DOMAIN e : speech[o].item < e[i]
      BY <1>1, <1>7, <3>1, <3>2, SpeechAssumption DEF LoopInv
    <3>4. speech[o].item \in 1..asked => speech[o].item \in 1..u
      BY <1>1
    <3> QED BY <1>7, <1>9, <1>10, <3>1, <3>3, <3>4 DEF LoopInv
  <2>4. speech' \in Speeches /\ speech'[o] = s /\ \A p \in Objects \ {o} : speech'[p] = speech[p]
    BY <1>1, <1>4, <1>9, <2>1 DEF Speeches
  <2>5. \A p \in Objects : p > created' => p > created
    BY <1>1, <2>2 DEF EntryInv, Objects
  <2>6. Loops(speech', created', u)
    BY <1>1, <1>2, <1>9, <2>3, <2>4, <2>5 DEF Loops
  <2>7. session = "active" => Given(rust, speech'[1], u)
    BY <1>3, <1>4, <1>9, <2>4 DEF Given
  <2> QED BY <2>2, <2>6, <2>7
<1>11. CASE ~speech[o].processing
  <2>1. q = <<>> /\ speech[o].phase = "idle"
    BY <1>2, <1>4, <1>11 DEF LoopInv
  <2>2. Continue(st, o)
    BY <1>5, <1>9, <1>11 DEF Push, s
  <2>3. t \in SpeechStates /\ t.queue = e /\ t.processing /\ t.ttsActive
    <3> HIDE DEF s
    <3>1. t \in SpeechStates
      BY <1>9 DEF SpeechStates
    <3>2. t.queue = e /\ t.processing /\ t.ttsActive
      BY <1>9 DEF SpeechStates
    <3> QED BY <3>1, <3>2
  <2> HIDE DEF t
  <2>4. st \in Speeches /\ st[o] = t /\ \A p \in Objects \ {o} : st[p] = speech[p]
    BY <1>1, <1>4, <2>3 DEF Speeches
  <2>5. o <= created \/ o = Object
    BY DEF o
  <2> HIDE DEF st
  <2>6. /\ \A p \in Objects \ {o} : LoopInv(st[p], u) /\ (p > created => st[p].phase = "idle")
        /\ Waiting(st[o].queue, u) /\ st[o].processing /\ (st[o].ttsActive \/ st[o].triggered)
    BY <1>1, <1>2, <1>7, <2>3, <2>4
  <2>7. /\ EntryInv' /\ Loops(speech', created', u)
        /\ \/ speech'[o].phase = "idle"
           \/ /\ speech'[o].phase \in {"synth", "stream"}
              /\ st[o].queue # <<>> /\ speech'[o].item = Head(st[o].queue)
    BY <1>1, <1>4, <2>2, <2>4, <2>5, <2>6, ContinueKeeps
  <2>8. ASSUME session = "active"
        PROVE  Given(rust, speech'[1], u)
    <3>1. o = 1 /\ Given(rust, speech[1], asked)
      BY <1>1, <1>4, <2>8
    <3>2. \A w \in Utterances : rust[w] \notin Voices /\ (rust[w] # "none" => w <= u - 1)
      BY <1>1, <2>1, <3>1 DEF Given
    <3>3. \A i \in DOMAIN e : e[i] = u
      BY <1>7, <2>1
    <3>4. \A w \in Utterances : rust[w] # "none" => w <= u /\ \A i \in DOMAIN e : w <= e[i]
      BY <1>1, <3>2, <3>3, SpeechAssumption DEF Utterances
    <3> DEFINE v == speech'[o]
    <3>5. \/ v.phase = "idle"
          \/ v.phase \in {"synth", "stream"} /\ e # <<>> /\ v.item = Head(e)
      BY <2>3, <2>4, <2>7
    <3> HIDE DEF v
    <3>6. Given(rust, v, u)
      BY <1>1, <1>7, <3>2, <3>4, <3>5, ContinueGives
    <3> QED BY <3>1, <3>6 DEF v
  <2> QED BY <2>7, <2>8
<1> QED BY <1>10, <1>11

LEMMA SpeakOnChannelKeeps ==
  ASSUME SpeechInv, session' = session, NEW u \in Utterances, u = asked + 1,
         NEW sup \in BOOLEAN, NEW h \in HarnessStates, SpeakOnChannel(u, sup, h)
  PROVE  /\ EntryInv' /\ Loops(speech', created', u)
         /\ session = "active" => Given(rust, speech'[1], u)
         /\ harness' \in HarnessStates
<1>1. harness' \in HarnessStates
  BY NotifiedType DEF SpeakOnChannel
<1>2. CASE text[u] # Blank /\ Push(Object, u, sup)
  BY <1>1, <1>2, PushKeeps
<1>3. CASE UNCHANGED speech /\ Lookup
  <2>1. /\ asked \in 0..MaxSpeaks /\ u \in 0..MaxSpeaks /\ asked <= u
        /\ EntryInv /\ Loops(speech, created, asked)
        /\ session = "active" => Given(rust, speech[1], asked)
    BY SpeechAssumption DEF SpeechInv, OutsideType, VoiceInv, Utterances
  <2>2. EntryInv' /\ created' >= created
    BY <1>3, <2>1, LookupKeeps
  <2>3. \A p \in Objects : LoopInv(speech[p], u)
    BY <2>1, AskedMore DEF Loops, Speeches
  <2>4. \A p \in Objects : p > created' => p > created
    BY <2>1, <2>2 DEF EntryInv, Objects
  <2>5. Loops(speech', created', u)
    BY <1>3, <2>1, <2>3, <2>4 DEF Loops
  <2>6. session = "active" => Given(rust, speech'[1], u)
    BY <1>3, <2>1, AskedMore
  <2> QED BY <1>1, <2>2, <2>5, <2>6
<1> QED BY <1>2, <1>3 DEF SpeakOnChannel

-----------------------------------------------------------------------------
(* What is left to show of a step that does not touch Rust's side.         *)
LEMMA NodeStep ==
  ASSUME SpeechInv, UNCHANGED <<text, brain, session, vad, bargeIns, cancels, rust>>,
         notices' \subseteq notices, asked' \in 0..MaxSpeaks, harness' \in HarnessStates,
         EntryInv', Loops(speech', created', asked'),
         session = "active" => Given(rust, speech'[1], asked')
  PROVE  SpeechInv'
<1>1. OutsideType'
  BY DEF SpeechInv, OutsideType
<1>2. RustType'
  BY DEF SpeechInv, RustType
<1>3. Loops(speech, created, asked)'
  BY DEF Loops, LoopInv, Waiting
<1>4. VoiceInv'
  BY DEF SpeechInv, VoiceInv, Given
<1> QED BY <1>1, <1>2, <1>3, <1>4 DEF SpeechInv

LEMMA SpeakInv ==
  ASSUME SpeechInv, Speak \/ OpenClawSpeak
  PROVE  SpeechInv'
<1> DEFINE u == asked + 1
<1>1. asked \in 0..MaxSpeaks /\ harness \in HarnessStates
  BY DEF SpeechInv, OutsideType
<1>2. u \in Utterances /\ asked' = u /\ asked' \in 0..MaxSpeaks
  <2>1. asked < MaxSpeaks /\ asked' = u
    BY DEF Speak, OpenClawSpeak
  <2> QED BY <1>1, <2>1, SpeechAssumption DEF Utterances
<1>3. UNCHANGED <<text, brain, session, vad, bargeIns, cancels, rust, notices>>
  BY DEF Speak, OpenClawSpeak
<1>4. \E sup \in BOOLEAN, h \in HarnessStates : SpeakOnChannel(u, sup, h)
  <2>1. CASE Speak
    <3> DEFINE h == [harness EXCEPT !.pending = u, !.outcome[u] = "pending", !.speaking = TRUE]
    <3>1. SpeakOnChannel(u, FALSE, h)
      BY <2>1 DEF Speak
    <3>2. h \in HarnessStates
      BY <1>1, <1>2 DEF HarnessStates, Outcomes
    <3> QED BY <3>1, <3>2
  <2>2. CASE OpenClawSpeak
    <3> DEFINE h == [harness EXCEPT !.speaking = TRUE]
    <3>1. SpeakOnChannel(u, TRUE, h)
      BY <2>2 DEF OpenClawSpeak
    <3>2. h \in HarnessStates
      BY <1>1 DEF HarnessStates
    <3> QED BY <3>1, <3>2
  <2> QED BY <2>1, <2>2
<1> HIDE DEF u
<1>5. u = asked + 1
  BY DEF u
<1>6. /\ EntryInv' /\ Loops(speech', created', u)
      /\ session = "active" => Given(rust, speech'[1], u)
      /\ harness' \in HarnessStates
  BY <1>2, <1>3, <1>4, <1>5, SpeakOnChannelKeeps
<1> QED BY <1>2, <1>3, <1>6, NodeStep

(* The loop's own steps; what they show of the item they are done with is  *)
(* in where the loop is and what Rust has answered.                        *)
LEMMA Unvoiced ==
  ASSUME SpeechInv, session = "active", NEW o \in Objects, speech[o].phase # "idle"
  PROVE  /\ o = 1
         /\ speech[o].item \in Utterances
         /\ \A u \in Utterances : rust[u] # "none" => u <= speech[o].item
         /\ speech[o].phase \in {"synth", "prefetch"} \/ rust[speech[o].item] \notin Voices =>
              \A u \in Utterances : rust[u] \notin Voices
<1>1. /\ EntryInv /\ Loops(speech, created, asked) /\ Given(rust, speech[1], asked)
      /\ asked \in 0..MaxSpeaks
  BY DEF SpeechInv, VoiceInv, OutsideType
<1>2. o = 1
  BY <1>1 DEF EntryInv, Loops, Objects
<1>3. speech[o].item \in 1..asked
  BY <1>1 DEF Loops, LoopInv
<1> QED BY <1>1, <1>2, <1>3, SpeechAssumption DEF Given, Utterances

LEMMA WaitedKeeps ==
  ASSUME SpeechInv, session' = session, NEW o \in Objects, speech[o].phase = "wait", Waited(o),
         NEW ru \in [Utterances -> Player!RustStates],
         session = "active" =>
           \A u \in Utterances : /\ ru[u] \notin Voices
                                 /\ ru[u] # "none" => u <= speech[o].item
  PROVE  /\ EntryInv' /\ Loops(speech', created', asked)
         /\ session = "active" => Given(ru, speech'[1], asked)
         /\ harness' \in HarnessStates
<1>1. EntryInv /\ speech \in Speeches
  BY DEF SpeechInv, Loops
<1>2. session = "active" =>
        \A u \in Utterances : /\ ru[u] \notin Voices
                              /\ ru[u] # "none" => u <= speech[o].item
  OBVIOUS
<1>3. CASE Spoken(o, FALSE)
  BY <1>1, <1>2, <1>3, SpokenKeeps
<1>4. CASE speech' = [speech EXCEPT ![o].phase = "prefetch"] /\ UNCHANGED <<current, created, harness>>
  <2>1. \A p \in Objects : SameLoop(speech[p], speech[p])
    BY DEF SameLoop
  <2>2. /\ Loops(speech', created, asked)
        /\ session = "active" => Given(ru, speech'[1], asked)
    BY <1>1, <1>2, <1>4, <2>1, PhaseKeeps DEF LoopPhases
  <2>3. EntryInv' /\ harness' \in HarnessStates
    BY <1>1, <1>4 DEF EntryInv, SpeechInv, OutsideType
  <2> QED BY <1>4, <2>2, <2>3
<1> QED BY <1>3, <1>4 DEF Waited

(* What the loop gives up, Rust may still play, but nobody waits for it.   *)
LEMMA GoesOn ==
  ASSUME SpeechInv, NEW o \in Objects, speech[o].phase # "idle", GoesOnWithout(speech[o].item)
  PROVE  /\ rust' \in [Utterances -> Player!RustStates] /\ notices' = notices
         /\ \A u \in Utterances : rust'[u] \in Voices => rust[u] \in Voices
         /\ \A u \in notices : rust'[u] = "over"
         /\ session = "active" =>
              \A u \in Utterances : /\ rust'[u] \notin Voices
                                    /\ rust'[u] # "none" => u <= speech[o].item
<1> DEFINE w == speech[o].item
<1>1. rust \in [Utterances -> Player!RustStates] /\ \A u \in notices : u \in Utterances /\ rust[u] = "over"
  BY DEF SpeechInv, RustType, VoiceInv
<1>2. w \in Utterances
  <2>1. LoopInv(speech[o], asked) /\ asked \in 0..MaxSpeaks
    BY DEF SpeechInv, Loops, OutsideType
  <2> QED BY <2>1, SpeechAssumption DEF LoopInv, Utterances
<1>3. session = "active" =>
        \A u \in Utterances : /\ rust[u] \in Voices => u = w
                              /\ rust[u] # "none" => u <= w
  <2>1. session = "active" => o = 1 /\ Given(rust, speech[1], asked)
    BY Unvoiced DEF SpeechInv, VoiceInv
  <2> QED BY <2>1, Unvoiced DEF Given
<1>4. GoesOnWithout(w)
  OBVIOUS
<1> HIDE DEF w
<1>5. CASE rust[w] \in {"none", "over"}
  BY <1>1, <1>2, <1>3, <1>4, <1>5 DEF GoesOnWithout, Voices, w
<1>6. CASE rust[w] \notin {"none", "over"}
  <2>1. /\ rust' = [rust EXCEPT ![w] = "orphan"] \/ rust' = [rust EXCEPT ![w] = "over"]
        /\ notices' = notices
    BY <1>4, <1>6 DEF GoesOnWithout, Player!GiveUp
  <2>2. /\ rust' \in [Utterances -> Player!RustStates] /\ rust'[w] \in {"orphan", "over"}
        /\ \A u \in Utterances \ {w} : rust'[u] = rust[u]
    BY <1>1, <1>2, <2>1 DEF Player!RustStates
  <2>3. \A u \in Utterances : rust'[u] \in Voices => rust[u] \in Voices
    BY <2>2 DEF Voices
  <2>4. \A u \in notices : rust'[u] = "over"
    BY <1>1, <1>6, <2>2
  <2>5. session = "active" =>
          \A u \in Utterances : /\ rust'[u] \notin Voices
                                /\ rust'[u] # "none" => u <= w
    BY <1>2, <1>3, <1>6, <2>2, SpeechAssumption DEF Voices, Utterances
  <2> QED BY <2>1, <2>2, <2>3, <2>4, <2>5 DEF w
<1> QED BY <1>5, <1>6

LEMMA GoesOnStep ==
  ASSUME SpeechInv, UNCHANGED outside, NEW o \in Objects, speech[o].phase # "idle",
         GoesOnWithout(speech[o].item), harness' \in HarnessStates,
         EntryInv', Loops(speech', created', asked),
         session = "active" => Given(rust', speech'[1], asked)
  PROVE  SpeechInv'
<1>1. UNCHANGED <<text, brain, asked, session, vad, bargeIns, cancels>>
  BY DEF outside
<1>2. /\ rust' \in [Utterances -> Player!RustStates] /\ notices' = notices
      /\ \A u \in Utterances : rust'[u] \in Voices => rust[u] \in Voices
      /\ \A u \in notices : rust'[u] = "over"
  BY GoesOn
<1>3. OutsideType'
  BY <1>1 DEF SpeechInv, OutsideType
<1>4. RustType'
  BY <1>1, <1>2 DEF SpeechInv, RustType
<1>5. Loops(speech, created, asked)'
  BY <1>1 DEF Loops, LoopInv, Waiting
<1>6. VoiceInv'
  BY <1>1, <1>2 DEF SpeechInv, VoiceInv, Given
<1> QED BY <1>3, <1>4, <1>5, <1>6 DEF SpeechInv

LEMMA LoopStepInv ==
  ASSUME SpeechInv, NEW o \in Objects, LoopStep(o)
  PROVE  SpeechInv'
<1> USE DEF outside
<1>1. /\ asked \in 0..MaxSpeaks /\ harness \in HarnessStates /\ EntryInv
      /\ rust \in [Utterances -> Player!RustStates]
      /\ speech \in Speeches /\ LoopInv(speech[o], asked)
  BY DEF SpeechInv, OutsideType, RustType, Loops
<1>2. /\ speech[o] \in SpeechStates /\ LoopInv(speech[o], asked)
      /\ speech[o].phase # "idle" => speech[o].on \in Objects /\ speech[o].item \in Utterances
  <2>1. speech[o] \in SpeechStates
    BY <1>1 DEF Speeches
  <2> QED BY <1>1, <2>1, SpeechAssumption DEF LoopInv, SpeechStates, Utterances
<1>3. \A p \in Objects : SameLoop(speech[p], speech[p])
  BY DEF SameLoop
<1>4. CASE SynthReturns(o)
  <2> DEFINE r == speech[o].on
             u == speech[o].item
             named == [speech EXCEPT ![r].uttId = u]
             s == [speech[r] EXCEPT !.uttId = u]
  <2>1. /\ speech[o].phase = "synth" /\ speech' = [named EXCEPT ![o].phase = "stream"]
        /\ UNCHANGED <<outside, current, created, harness, rust, notices>>
    BY <1>4 DEF SynthReturns
  <2>2. r \in Objects /\ u \in Utterances
    BY <1>2, <2>1
  <2> HIDE DEF r, u
  <2>3. speech[r] \in SpeechStates
    BY <1>1, <2>2 DEF Speeches
  <2>4. s \in SpeechStates
    BY <2>2, <2>3 DEF SpeechStates
  <2>5. SameLoop(s, speech[r])
    BY <2>3 DEF SpeechStates, SameLoop
  <2>6. named = [speech EXCEPT ![r] = s]
    BY <1>1, <2>3 DEF Speeches
  <2> HIDE DEF s
  <2>7. named \in Speeches /\ \A p \in Objects : SameLoop(named[p], speech[p])
    BY <1>1, <2>2, <2>4, <2>5, <2>6, SpeechUpdated
  <2> HIDE DEF named
  <2>8. /\ Loops(speech', created, asked)
        /\ session = "active" => Given(rust, speech'[1], asked)
    BY <2>1, <2>7, PhaseKeeps DEF LoopPhases
  <2>9. EntryInv'
    BY <1>1, <2>1 DEF EntryInv
  <2> QED BY <1>1, <2>1, <2>8, <2>9, NodeStep
<1>5. CASE SynthFails(o)
  <2>1. Fails(o) /\ UNCHANGED <<outside, rust, notices>> /\ speech[o].phase = "synth"
    BY <1>5 DEF SynthFails
  <2>2. session = "active" =>
          \A u \in Utterances : /\ rust[u] \notin Voices
                                /\ rust[u] # "none" => u <= speech[o].item
    BY <2>1, Unvoiced
  <2>3. /\ EntryInv' /\ Loops(speech', created', asked)
        /\ session = "active" => Given(rust, speech'[1], asked)
        /\ harness' \in HarnessStates
    BY <1>1, <2>1, <2>2, FailsKeeps
  <2> QED BY <1>1, <2>1, <2>3, NodeStep
<1>6. CASE StreamReturns(o)
  <2>1. /\ speech[o].phase = "stream" /\ speech' = [speech EXCEPT ![o].phase = "done"]
        /\ UNCHANGED <<outside, current, created, harness, rust, notices>>
    BY <1>6 DEF StreamReturns
  <2>2. /\ Loops(speech', created, asked)
        /\ session = "active" => Given(rust, speech'[1], asked)
    BY <1>1, <1>3, <2>1, PhaseKeeps DEF LoopPhases
  <2>3. EntryInv'
    BY <1>1, <2>1 DEF EntryInv
  <2> QED BY <1>1, <2>1, <2>2, <2>3, NodeStep
<1>7. CASE DoneReturns(o)
  <2> DEFINE r == speech[o].on
  <2>1. /\ speech[o].phase = "done"
        /\ UNCHANGED <<outside, current, created, harness, rust, notices>>
    BY <1>7 DEF DoneReturns
  <2>2. r \in Objects
    BY <1>2, <2>1
  <2>3. speech[r].queue \in Seq(Utterances)
    BY <1>1, <2>2 DEF Speeches, SpeechStates
  <2>4. PICK next \in Utterances \cup {None} :
           speech' = [speech EXCEPT ![o].ahead = next, ![o].phase = "wait"]
    <3>1. PICK next \in {None} \cup (IF speech[r].queue # <<>> /\ ~speech[r].triggered
                                     THEN {Head(speech[r].queue)} ELSE {}) :
            speech' = [speech EXCEPT ![o].ahead = next, ![o].phase = "wait"]
      BY <1>7 DEF DoneReturns
    <3>2. next \in Utterances \cup {None}
      BY <2>3, <3>1
    <3> QED BY <3>1, <3>2
  <2> DEFINE s == [speech[o] EXCEPT !.ahead = next]
             st == [speech EXCEPT ![o].ahead = next]
  <2>5. s \in SpeechStates
    BY <1>2 DEF SpeechStates
  <2>6. SameLoop(s, speech[o])
    BY <1>2 DEF SpeechStates, SameLoop
  <2>7. st = [speech EXCEPT ![o] = s]
    BY <1>1, <1>2 DEF Speeches
  <2>8. speech' = [st EXCEPT ![o].phase = "wait"]
    BY <2>4
  <2> HIDE DEF s
  <2>9. st \in Speeches /\ \A p \in Objects : SameLoop(st[p], speech[p])
    BY <1>1, <2>5, <2>6, <2>7, SpeechUpdated
  <2> HIDE DEF st
  <2>10. /\ Loops(speech', created, asked)
         /\ session = "active" => Given(rust, speech'[1], asked)
    BY <2>1, <2>8, <2>9, PhaseKeeps DEF LoopPhases
  <2>11. EntryInv'
    BY <1>1, <2>1 DEF EntryInv
  <2> QED BY <1>1, <2>1, <2>10, <2>11, NodeStep
<1>8. CASE StreamFails(o) \/ DoneFails(o)
  <2>1. /\ speech[o].phase # "idle" /\ Fails(o) /\ UNCHANGED outside
        /\ GoesOnWithout(speech[o].item)
    BY <1>8 DEF StreamFails, DoneFails
  <2>2. /\ rust' \in [Utterances -> Player!RustStates]
        /\ session = "active" =>
             \A u \in Utterances : /\ rust'[u] \notin Voices
                                   /\ rust'[u] # "none" => u <= speech[o].item
    BY <2>1, GoesOn
  <2>3. /\ EntryInv' /\ Loops(speech', created', asked)
        /\ session = "active" => Given(rust', speech'[1], asked)
        /\ harness' \in HarnessStates
    BY <2>1, <2>2, FailsKeeps
  <2> QED BY <2>1, <2>3, GoesOnStep
<1>9. CASE PlaybackTimeout(o)
  <2>1. /\ speech[o].phase = "wait" /\ Waited(o) /\ UNCHANGED outside
        /\ GoesOnWithout(speech[o].item)
    BY <1>9 DEF PlaybackTimeout
  <2>2. /\ rust' \in [Utterances -> Player!RustStates]
        /\ session = "active" =>
             \A u \in Utterances : /\ rust'[u] \notin Voices
                                   /\ rust'[u] # "none" => u <= speech[o].item
    BY <2>1, GoesOn
  <2>3. /\ EntryInv' /\ Loops(speech', created', asked)
        /\ session = "active" => Given(rust', speech'[1], asked)
        /\ harness' \in HarnessStates
    BY <2>1, <2>2, WaitedKeeps
  <2> QED BY <2>1, <2>3, GoesOnStep
<1>10. CASE PrefetchReturns(o)
  <2>1. /\ speech[o].phase = "prefetch" /\ UNCHANGED <<outside, rust, notices>>
        /\ \E got \in BOOLEAN : Spoken(o, got)
    BY <1>10 DEF PrefetchReturns
  <2>2. session = "active" =>
          \A u \in Utterances : /\ rust[u] \notin Voices
                                /\ rust[u] # "none" => u <= speech[o].item
    BY <2>1, Unvoiced
  <2>3. /\ EntryInv' /\ Loops(speech', created', asked)
        /\ session = "active" => Given(rust, speech'[1], asked)
        /\ harness' \in HarnessStates
    BY <1>1, <2>1, <2>2, SpokenKeeps
  <2> QED BY <1>1, <2>1, <2>3, NodeStep
<1> QED BY <1>4, <1>5, <1>6, <1>7, <1>8, <1>9, <1>10 DEF LoopStep

LEMMA PlaybackNoticeInv ==
  ASSUME SpeechInv, NEW u \in Utterances, PlaybackNotice(u)
  PROVE  SpeechInv'
<1>1. /\ asked \in 0..MaxSpeaks /\ harness \in HarnessStates /\ EntryInv
      /\ Loops(speech, created, asked) /\ rust[u] = "over"
      /\ session = "active" => Given(rust, speech[1], asked)
  BY DEF SpeechInv, OutsideType, VoiceInv, PlaybackNotice
<1>2. UNCHANGED <<outside, rust>> /\ notices' \subseteq notices
  BY DEF PlaybackNotice
<1>3. CASE \E o \in Objects : speech[o].phase = "wait" /\ speech[o].item = u /\ Waited(o)
  <2>1. PICK o \in Objects : speech[o].phase = "wait" /\ speech[o].item = u /\ Waited(o)
    BY <1>3
  <2>2. /\ EntryInv' /\ Loops(speech', created', asked)
        /\ session = "active" => Given(rust, speech'[1], asked)
        /\ harness' \in HarnessStates
    <3>1. session' = session /\ rust \in [Utterances -> Player!RustStates]
      BY <1>2 DEF outside, SpeechInv, RustType
    <3>2. session = "active" =>
            \A w \in Utterances : /\ rust[w] \notin Voices
                                  /\ rust[w] # "none" => w <= speech[o].item
      BY <1>1, <2>1, Unvoiced DEF Voices
    <3> QED BY <2>1, <3>1, <3>2, WaitedKeeps
  <2> QED BY <1>1, <1>2, <2>2, NodeStep DEF outside
<1>4. CASE UNCHANGED <<speech, current, created, harness>>
  <2>1. EntryInv'
    BY <1>1, <1>2, <1>4 DEF EntryInv, outside
  <2> QED BY <1>1, <1>2, <1>4, <2>1, NodeStep DEF outside
<1> QED BY <1>3, <1>4 DEF PlaybackNotice

(* A step that changes an object in what the loops do not look at.         *)
LEMMA UnseenInv ==
  ASSUME SpeechInv, NEW o \in Objects, NEW s \in SpeechStates, SameLoop(s, speech[o]),
         speech' = [speech EXCEPT ![o] = s],
         UNCHANGED <<outside, current, created, harness, rust, notices>>
  PROVE  SpeechInv'
<1>1. /\ asked \in 0..MaxSpeaks /\ harness \in HarnessStates /\ EntryInv
      /\ Loops(speech, created, asked) /\ speech \in Speeches
      /\ session = "active" => Given(rust, speech[1], asked)
  BY DEF SpeechInv, OutsideType, VoiceInv, Loops
<1>2. speech' \in Speeches /\ \A p \in Objects : SameLoop(speech'[p], speech[p])
  BY <1>1, SpeechUpdated
<1>3. \A p \in Objects : LoopInv(speech'[p], asked)
  BY <1>1, <1>2, SameLoopInv DEF Loops
<1>4. Loops(speech', created', asked)
  BY <1>1, <1>2, <1>3 DEF Loops, SameLoop
<1>5. session = "active" => Given(rust, speech'[1], asked)
  BY <1>1, <1>2 DEF Given, SameLoop, Objects
<1>6. EntryInv'
  BY <1>1 DEF EntryInv, outside
<1> QED BY <1>1, <1>4, <1>5, <1>6, NodeStep DEF outside

LEMMA SafetyTimerInv ==
  ASSUME SpeechInv, NEW o \in Objects, NEW b \in 1..MaxBargeIns, SafetyTimer(o, b)
  PROVE  SpeechInv'
<1> DEFINE s == [speech[o] EXCEPT !.timers = @ \ {b}, !.awaiting = FALSE]
<1>1. /\ asked \in 0..MaxSpeaks /\ harness \in HarnessStates /\ EntryInv
      /\ Loops(speech, created, asked) /\ speech \in Speeches
      /\ session = "active" => Given(rust, speech[1], asked)
  BY DEF SpeechInv, OutsideType, VoiceInv, Loops
<1>2. /\ speech' = [speech EXCEPT ![o].timers = @ \ {b}, ![o].awaiting = FALSE]
      /\ UNCHANGED <<outside, current, created, harness, rust, notices>>
  BY DEF SafetyTimer
<1>3. speech[o] \in SpeechStates
  BY <1>1 DEF Speeches
<1>4. s \in SpeechStates
  BY <1>3 DEF SpeechStates
<1>5. SameLoop(s, speech[o])
  BY <1>3 DEF SpeechStates, SameLoop
<1>6. speech' = [speech EXCEPT ![o] = s]
  BY <1>1, <1>2, <1>3 DEF Speeches
<1> HIDE DEF s
<1> QED BY <1>1, <1>2, <1>4, <1>5, <1>6, UnseenInv

LEMMA TranscriptionInv ==
  ASSUME SpeechInv, Transcription
  PROVE  SpeechInv'
<1> DEFINE o == current
           s == [speech[o] EXCEPT !.awaiting = FALSE]
<1>1. /\ speech \in Speeches /\ o \in Objects
      /\ speech' = [speech EXCEPT ![o].awaiting = FALSE]
      /\ UNCHANGED <<outside, current, created, harness, rust, notices>>
  BY DEF Transcription, SpeechInv, Loops, EntryInv, Objects, None
<1> HIDE DEF o
<1>2. speech[o] \in SpeechStates
  BY <1>1 DEF Speeches
<1>3. s \in SpeechStates
  BY <1>2 DEF SpeechStates
<1>4. SameLoop(s, speech[o])
  BY <1>2 DEF SpeechStates, SameLoop
<1>5. speech' = [speech EXCEPT ![o] = s]
  BY <1>1, <1>2 DEF Speeches
<1> HIDE DEF s
<1> QED BY <1>1, <1>3, <1>4, <1>5, UnseenInv

(* The user interrupts: the queue is gone, the loop finds out later.       *)
LEMMA UserSpeakingInv ==
  ASSUME SpeechInv, UserSpeaking
  PROVE  SpeechInv'
<1> DEFINE o == Object
           s == [speech[o] EXCEPT !.triggered = TRUE, !.queue = <<>>, !.ttsActive = FALSE,
                                  !.uttId = None, !.prefetched = None, !.awaiting = TRUE,
                                  !.timers = @ \cup {bargeIns}]
<1>1. /\ OutsideType /\ EntryInv /\ Loops(speech, created, asked) /\ speech \in Speeches
      /\ rust \in [Utterances -> Player!RustStates] /\ notices \in SUBSET Utterances
      /\ bargeIns \in 0..MaxBargeIns /\ cancels \in Nat /\ vad
      /\ cancels + 1 <= bargeIns
  BY DEF SpeechInv, RustType, Loops, UserSpeaking
<1>2. Lookup /\ vad' = FALSE /\ UNCHANGED <<text, brain, asked, session, rust, notices, bargeIns>>
  BY DEF UserSpeaking
<1>3. o \in Objects /\ (session = "active" => o = 1) /\ EntryInv' /\ created' >= created
  BY <1>1, <1>2, ObjectFound, LookupKeeps
<1>4. \/ UNCHANGED <<speech, harness, cancels>>
      \/ /\ speech' = [speech EXCEPT ![o] = s]
         /\ harness' = Cancelled(IF speech[o].queue # <<>> THEN Notified(harness) ELSE harness)
         /\ cancels' = IF speech[o].uttId # None THEN cancels + 1 ELSE cancels
  BY DEF UserSpeaking
<1> HIDE DEF o
<1>5. /\ OutsideType' /\ RustType'
  <2>1. harness' \in HarnessStates
    BY <1>1, <1>4, NotifiedType DEF OutsideType
  <2>2. cancels' \in Nat /\ cancels' <= bargeIns
    BY <1>1, <1>4
  <2>3. OutsideType'
    BY <1>1, <1>2, <2>1 DEF OutsideType
  <2>4. vad' \in BOOLEAN /\ (IF vad' THEN 1 ELSE 0) = 0
    BY <1>2
  <2>5. cancels' + (IF vad' THEN 1 ELSE 0) <= bargeIns'
    BY <1>2, <2>2, <2>4
  <2>6. RustType'
    BY <1>1, <1>2, <2>2, <2>4, <2>5 DEF RustType
  <2> QED BY <2>3, <2>6
<1>6. \A p \in Objects : p > created' => p > created
  BY <1>1, <1>3 DEF EntryInv, Objects
<1>7. CASE UNCHANGED speech
  <2>1. Loops(speech', created', asked)
    BY <1>1, <1>6, <1>7 DEF Loops
  <2>2. Loops(speech, created, asked)'
    BY <1>2, <2>1 DEF Loops, LoopInv, Waiting
  <2>3. VoiceInv'
    BY <1>2, <1>7 DEF SpeechInv, VoiceInv, Given
  <2> QED BY <1>3, <1>5, <2>2, <2>3 DEF SpeechInv
<1>8. CASE speech' = [speech EXCEPT ![o] = s]
  <2>1. speech[o] \in SpeechStates /\ LoopInv(speech[o], asked)
    BY <1>1, <1>3 DEF Loops, Speeches
  <2>2. bargeIns \in 1..MaxBargeIns /\ <<>> \in Seq(Utterances)
    BY <1>1
  <2> DEFINE t == [speech[o] EXCEPT !.triggered = TRUE, !.queue = <<>>, !.ttsActive = FALSE]
  <2>3. t \in SpeechStates /\ t.triggered /\ t.queue = <<>>
    <3>1. t \in SpeechStates
      BY <2>1, <2>2 DEF SpeechStates
    <3>2. t.triggered /\ t.queue = <<>>
      BY <2>1 DEF SpeechStates
    <3> QED BY <3>1, <3>2
  <2>4. /\ t.phase = speech[o].phase /\ t.item = speech[o].item /\ t.on = speech[o].on
        /\ t.processing = speech[o].processing
    BY <2>1 DEF SpeechStates
  <2>5. s = [t EXCEPT !.uttId = None, !.prefetched = None, !.awaiting = TRUE,
                      !.timers = @ \cup {bargeIns}]
    BY <2>1 DEF SpeechStates
  <2> HIDE DEF t, s
  <2>6. s \in SpeechStates
    BY <2>2, <2>3, <2>5 DEF SpeechStates
  <2>7. SameLoop(s, t)
    BY <2>3, <2>5 DEF SpeechStates, SameLoop
  <2>8. LoopInv(t, asked)
    BY <2>1, <2>3, <2>4 DEF LoopInv, Waiting
  <2>9. LoopInv(s, asked)
    BY <2>7, <2>8, SameLoopInv
  <2>10. speech' \in Speeches /\ speech'[o] = s /\ \A p \in Objects \ {o} : speech'[p] = speech[p]
    BY <1>1, <1>3, <1>8, <2>6 DEF Speeches
  <2>11. s.phase = speech[o].phase /\ s.item = speech[o].item
    BY <2>4, <2>7 DEF SameLoop
  <2>12. Loops(speech', created', asked)
    BY <1>1, <1>6, <2>9, <2>10, <2>11 DEF Loops
  <2>13. Loops(speech, created, asked)'
    BY <1>2, <2>12 DEF Loops, LoopInv, Waiting
  <2>14. VoiceInv'
    BY <1>2, <1>3, <2>10, <2>11 DEF SpeechInv, VoiceInv, Given
  <2> QED BY <1>3, <1>5, <2>13, <2>14 DEF SpeechInv
<1> QED BY <1>4, <1>7, <1>8

(* A transfer or the end of the call.                                      *)
LEMMA SessionInv ==
  ASSUME SpeechInv, Transfer \/ EndSession
  PROVE  SpeechInv'
<1>1. OutsideType'
  <2>1. harness' \in HarnessStates
    BY DEF SpeechInv, OutsideType, Transfer, EndSession, HarnessStates
  <2> QED BY <2>1 DEF SpeechInv, OutsideType, Transfer, EndSession
<1>2. RustType'
  <2>1. /\ rust' = [u \in Utterances |-> IF rust[u] = "none" THEN "none" ELSE "over"]
        /\ UNCHANGED <<notices, vad, bargeIns, cancels>>
    BY DEF Transfer, EndSession, Player!Remove
  <2>2. rust' \in [Utterances -> Player!RustStates]
    BY <2>1 DEF Player!RustStates
  <2> QED BY <2>1, <2>2 DEF SpeechInv, RustType
<1>3. EntryInv'
  BY DEF SpeechInv, OutsideType, EntryInv, Transfer, EndSession, None
<1>4. Loops(speech, created, asked)'
  BY DEF SpeechInv, Loops, LoopInv, Waiting, Transfer, EndSession
<1>5. VoiceInv'
  <2>1. /\ rust' = [u \in Utterances |-> IF rust[u] = "none" THEN "none" ELSE "over"]
        /\ notices' = notices /\ session' # "active"
    BY DEF Transfer, EndSession, Player!Remove
  <2>2. \A u \in Utterances : rust'[u] \notin Voices
    BY <2>1 DEF Voices
  <2>3. \A u \in notices : u \in Utterances /\ rust[u] = "over"
    BY DEF SpeechInv, RustType, VoiceInv
  <2> QED BY <2>1, <2>2, <2>3 DEF VoiceInv
<1> QED BY <1>1, <1>2, <1>3, <1>4, <1>5 DEF SpeechInv

-----------------------------------------------------------------------------
(* The Rust server takes no new audio in these steps.                      *)
LEMMA RustGivesUp ==
  ASSUME SpeechInv, UNCHANGED rustKeeps, RustType',
         \A u \in Utterances : /\ rust'[u] \in Voices => rust[u] \in Voices
                               /\ rust'[u] # "none" => rust[u] # "none",
         \A u \in notices' : rust'[u] = "over"
  PROVE  SpeechInv'
<1>1. OutsideType' /\ EntryInv'
  BY DEF rustKeeps, SpeechInv, OutsideType, EntryInv
<1>2. Loops(speech, created, asked)'
  BY DEF rustKeeps, SpeechInv, Loops, LoopInv, Waiting
<1>3. VoiceInv'
  BY DEF rustKeeps, SpeechInv, VoiceInv, Given
<1> QED BY <1>1, <1>2, <1>3 DEF SpeechInv

(* A cancel starts nothing, and what it reports is over.                   *)
LEMMA CancelFacts ==
  ASSUME rust \in [Utterances -> Player!RustStates], notices \in SUBSET Utterances,
         \A u \in notices : rust[u] = "over", Player!Cancel
  PROVE  /\ rust' \in [Utterances -> Player!RustStates] /\ notices' \in SUBSET Utterances
         /\ \A u \in notices' : rust'[u] = "over"
         /\ \A u \in Utterances : rust'[u] \in Voices => rust[u] \in Voices
         /\ \A u \in Utterances : rust'[u] # "none" => rust[u] # "none"
<1>1. PICK hit \in SUBSET {u \in Utterances : rust[u] \in {"audio", "done", "orphan"}} :
      \E id \in {None} \cup {u \in Utterances : rust[u] = "over"}
                       \cup {u \in hit : rust[u] = "done"} :
        /\ rust' = [u \in Utterances |->
                      CASE u = id \/ (u \in hit /\ rust[u] = "orphan") -> "over"
                        [] u # id /\ u \in hit /\ rust[u] = "audio"    -> "cut"
                        [] u # id /\ u \in hit /\ rust[u] = "done"     -> "silent"
                        [] OTHER                                       -> rust[u]]
        /\ notices' = notices \cup ({id} \ {None})
  BY DEF Player!Cancel
<1>2. PICK id \in {None} \cup {u \in Utterances : rust[u] = "over"}
                        \cup {u \in hit : rust[u] = "done"} :
        /\ rust' = [u \in Utterances |->
                      CASE u = id \/ (u \in hit /\ rust[u] = "orphan") -> "over"
                        [] u # id /\ u \in hit /\ rust[u] = "audio"    -> "cut"
                        [] u # id /\ u \in hit /\ rust[u] = "done"     -> "silent"
                        [] OTHER                                       -> rust[u]]
        /\ notices' = notices \cup ({id} \ {None})
  BY <1>1
<1>3. \A u \in Utterances :
        \/ rust'[u] = rust[u] /\ u # id
        \/ rust'[u] = "over" /\ rust[u] # "none"
        \/ rust'[u] \in {"cut", "silent"} /\ rust[u] \in {"audio", "done"} /\ u # id
  <2>1. ASSUME NEW u \in Utterances
        PROVE  \/ rust'[u] = rust[u] /\ u # id
               \/ rust'[u] = "over" /\ rust[u] # "none"
               \/ rust'[u] \in {"cut", "silent"} /\ rust[u] \in {"audio", "done"} /\ u # id
    <3>1. None \notin Utterances
      BY DEF None, Utterances
    <3>2. u = id => rust[u] \in {"over", "done"}
      BY <1>2, <3>1
    <3>3. CASE u = id \/ (u \in hit /\ rust[u] = "orphan")
      <4>1. rust'[u] = "over"
        BY <1>2, <3>3
      <4> QED BY <3>2, <3>3, <4>1
    <3>4. CASE u # id /\ u \in hit /\ rust[u] = "audio"
      BY <1>2, <3>4
    <3>5. CASE u # id /\ u \in hit /\ rust[u] = "done"
      BY <1>2, <3>5
    <3>6. CASE u # id /\ ~(u \in hit /\ rust[u] \in {"audio", "done", "orphan"})
      BY <1>2, <3>6
    <3> QED BY <3>3, <3>4, <3>5, <3>6
  <2> QED BY <2>1
<1>4. /\ rust' \in [Utterances -> Player!RustStates] /\ notices' \in SUBSET Utterances
      /\ \A u \in notices' : rust'[u] = "over"
  <2>1. \A u \in Utterances : rust'[u] \in Player!RustStates
    BY <1>3 DEF Player!RustStates
  <2>2. rust' \in [Utterances -> Player!RustStates]
    BY <1>2, <2>1
  <2>3. id # None => id \in Utterances
    BY <1>2
  <2>4. \A u \in notices : rust'[u] = "over"
    BY <1>3 DEF Player!RustStates
  <2>5. id # None => rust'[id] = "over"
    BY <1>2, <2>3
  <2> QED BY <1>2, <2>2, <2>3, <2>4, <2>5
<1>5. \A u \in Utterances : /\ rust'[u] \in Voices => rust[u] \in Voices
                            /\ rust'[u] # "none" => rust[u] # "none"
  BY <1>3 DEF Voices
<1> QED BY <1>4, <1>5

LEMMA RustInv ==
  ASSUME SpeechInv, Rust
  PROVE  SpeechInv'
<1>1. /\ rust \in [Utterances -> Player!RustStates] /\ notices \in SUBSET Utterances
      /\ RustType /\ vad \in BOOLEAN /\ bargeIns \in Nat /\ cancels \in Nat
      /\ OutsideType /\ EntryInv /\ Loops(speech, created, asked)
      /\ \A u \in notices : rust[u] = "over"
      /\ session = "active" => Given(rust, speech[1], asked)
  BY SpeechAssumption DEF SpeechInv, RustType, VoiceInv
<1>2. ASSUME NEW o \in Objects, RustAudio(o) \/ RustDone(o)
      PROVE  SpeechInv'
  <2> DEFINE u == speech[o].item
  <2>1. /\ UNCHANGED <<rustKeeps, cancels, vad, bargeIns, notices>> /\ session = "active"
        /\ speech[o].phase \in {"stream", "done"}
        /\ \/ rust[u] = "none" /\ rust' = [rust EXCEPT ![u] = "audio"]
              /\ speech[o].phase = "stream"
           \/ /\ rust[u] \in {"audio", "cut"}
              /\ rust' = [rust EXCEPT ![u] = IF @ = "audio" THEN "done" ELSE "silent"]
    BY <1>2 DEF RustAudio, RustDone, Player!TakeAudio, Player!TakeDone
  <2>2. o = 1 /\ u \in Utterances /\ u \in 1..asked
    BY <1>1, <2>1, Unvoiced DEF Loops, LoopInv
  <2>3. \A w \in Utterances : rust[w] \in Voices => w = u
    BY <1>1, <2>1, <2>2 DEF Given
  <2> HIDE DEF u
  <2>4. /\ rust' \in [Utterances -> Player!RustStates] /\ rust'[u] \in {"audio", "done", "silent"}
        /\ \A w \in Utterances \ {u} : rust'[w] = rust[w]
    BY <1>1, <2>1, <2>2 DEF Player!RustStates
  <2>5. RustType'
    BY <1>1, <2>1, <2>4 DEF RustType
  <2>6. OutsideType' /\ EntryInv'
    BY <1>1, <2>1 DEF rustKeeps, OutsideType, EntryInv
  <2>7. Loops(speech, created, asked)'
    BY <1>1, <2>1 DEF rustKeeps, Loops, LoopInv, Waiting
  <2>8. Given(rust', speech[1], asked)
    BY <1>1, <2>1, <2>2, <2>3, <2>4 DEF Given, Voices, u, Utterances
  <2>9. \A v, w \in Utterances : rust'[v] \in Voices /\ rust'[w] \in Voices => v = w
    BY <2>3, <2>4
  <2>10. \A w \in notices' : rust'[w] = "over"
    BY <1>1, <2>1, <2>4
  <2>11. VoiceInv'
    BY <2>1, <2>8, <2>9, <2>10 DEF VoiceInv, Given, rustKeeps
  <2> QED BY <2>5, <2>6, <2>7, <2>11 DEF SpeechInv
<1>3. ASSUME NEW u \in Utterances, RustPlayed(u)
      PROVE  SpeechInv'
  <2>1. /\ rust[u] \in {"done", "silent", "orphan"}
        /\ rust' = [w \in Utterances |-> IF w \in {u} THEN "over" ELSE rust[w]]
        /\ notices' = notices \cup {w \in {u} : rust[w] # "orphan"}
        /\ UNCHANGED <<rustKeeps, cancels, vad, bargeIns>>
    BY <1>3 DEF RustPlayed, Player!Played
  <2>2. RustType'
    BY <1>1, <2>1 DEF RustType, Player!RustStates
  <2> QED BY <1>1, <2>1, <2>2, RustGivesUp DEF Voices
<1>4. CASE RustCancel
  <2>1. Player!Cancel /\ UNCHANGED <<rustKeeps, vad, bargeIns>> /\ cancels > 0 /\ cancels' = cancels - 1
    BY <1>4 DEF RustCancel
  <2>2. /\ rust' \in [Utterances -> Player!RustStates] /\ notices' \in SUBSET Utterances
        /\ \A u \in notices' : rust'[u] = "over"
    BY <1>1, <2>1, CancelFacts
  <2>3. \A u \in Utterances : /\ rust'[u] \in Voices => rust[u] \in Voices
                              /\ rust'[u] # "none" => rust[u] # "none"
    BY <1>1, <2>1, CancelFacts
  <2>4. RustType'
    BY <1>1, <2>1, <2>2 DEF RustType
  <2>5. UNCHANGED rustKeeps
    BY <2>1
  <2> QED BY <2>2, <2>3, <2>4, <2>5, RustGivesUp
<1>5. CASE RustHearsUser
  <2>1. /\ ~vad /\ bargeIns < MaxBargeIns /\ vad' = TRUE /\ bargeIns' = bargeIns + 1
        /\ UNCHANGED <<rustKeeps, rust, cancels, notices>>
    BY <1>5 DEF RustHearsUser
  <2>2. cancels <= bargeIns
    BY <1>1, <2>1 DEF RustType
  <2>3. bargeIns' \in 0..MaxBargeIns /\ cancels' \in Nat /\ cancels' + 1 <= bargeIns'
    BY <1>1, <2>1, <2>2, SpeechAssumption
  <2>4. vad' \in BOOLEAN /\ (IF vad' THEN 1 ELSE 0) = 1
    BY <2>1
  <2>5. RustType'
    BY <1>1, <2>1, <2>3, <2>4 DEF RustType
  <2> QED BY <1>1, <2>1, <2>5, RustGivesUp
<1>6. CASE MessagesLost
  <2>1. notices' = {} /\ vad' = FALSE /\ UNCHANGED <<rustKeeps, rust, cancels, bargeIns>>
    BY <1>6 DEF MessagesLost
  <2>2. vad' \in BOOLEAN /\ (IF vad' THEN 1 ELSE 0) = 0
    BY <2>1
  <2>3. cancels' + 0 <= bargeIns'
    BY <1>1, <2>1 DEF RustType
  <2>4. RustType'
    BY <1>1, <2>1, <2>2, <2>3 DEF RustType
  <2> QED BY <2>1, <2>4, RustGivesUp
<1> QED BY <1>2, <1>3, <1>4, <1>5, <1>6 DEF Rust

-----------------------------------------------------------------------------
LEMMA InitInv ==
  ASSUME Init
  PROVE  SpeechInv
<1>1. Fresh \in SpeechStates
  <2>1. <<>> \in Seq(Utterances)
    OBVIOUS
  <2> QED BY <2>1 DEF Fresh, SpeechStates, LoopPhases
<1>2. LoopInv(Fresh, 0)
  BY DEF Fresh, LoopInv, Waiting
<1>3. Fresh.phase = "idle"
  BY DEF Fresh
<1>4. OutsideType
  <2>1. text \in [Utterances -> Utterances \cup {Blank}]
    BY SpeechAssumption DEF Init, Utterances, Blank
  <2> QED BY <2>1, SpeechAssumption DEF Init, OutsideType, HarnessStates, Outcomes
<1>5. RustType
  <2>1. /\ rust = [u \in Utterances |-> "none"] /\ cancels = 0 /\ notices = {}
        /\ vad = FALSE /\ bargeIns = 0
    BY DEF Init
  <2>2. (IF vad THEN 1 ELSE 0) = 0 /\ vad \in BOOLEAN
    BY <2>1
  <2> QED BY <2>1, <2>2, SpeechAssumption DEF RustType, Player!RustStates
<1>6. EntryInv
  BY DEF Init, EntryInv, None
<1>7. Loops(speech, created, asked)
  <2> HIDE DEF Fresh
  <2> QED BY <1>1, <1>2, <1>3 DEF Init, Loops, Speeches
<1>8. VoiceInv
  BY DEF Init, VoiceInv, Given, Voices
<1> QED BY <1>4, <1>5, <1>6, <1>7, <1>8 DEF SpeechInv

LEMMA NextInv ==
  ASSUME SpeechInv, [Next]_vars
  PROVE  SpeechInv'
<1>1. CASE UNCHANGED vars
  <2>1. OutsideType' /\ RustType' /\ EntryInv'
    BY <1>1 DEF vars, SpeechInv, OutsideType, RustType, EntryInv
  <2>2. Loops(speech, created, asked)' /\ VoiceInv'
    BY <1>1 DEF vars, SpeechInv, Loops, LoopInv, Waiting, VoiceInv, Given
  <2> QED BY <2>1, <2>2 DEF SpeechInv
<1>2. CASE Speak \/ OpenClawSpeak
  BY <1>2, SpeakInv
<1>3. CASE \E o \in Objects : LoopStep(o)
  BY <1>3, LoopStepInv
<1>4. CASE \E u \in Utterances : PlaybackNotice(u)
  BY <1>4, PlaybackNoticeInv
<1>5. CASE UserSpeaking
  BY <1>5, UserSpeakingInv
<1>6. CASE Transcription
  BY <1>6, TranscriptionInv
<1>7. CASE \E o \in Objects, b \in 1..MaxBargeIns : SafetyTimer(o, b)
  BY <1>7, SafetyTimerInv
<1>8. CASE Transfer \/ EndSession
  BY <1>8, SessionInv
<1>9. CASE Rust
  BY <1>9, RustInv
<1> QED BY <1>1, <1>2, <1>3, <1>4, <1>5, <1>6, <1>7, <1>8, <1>9 DEF Next

(* The entry of sessionSpeechState, the loops and what Rust has been given *)
(* agree, however many texts and interruptions a call has.                 *)
THEOREM SpeechInvariance == Spec => []SpeechInv
BY InitInv, NextInv, PTL DEF Spec

(* The variables keep their types: no object is made beyond the third, no  *)
(* blank text waits, and there are no more cancels than user_speaking      *)
(* messages.                                                               *)
THEOREM SpeechTypeCorrect == Spec => []TypeOK
<1>1. SpeechInv => TypeOK
  <2> SUFFICES ASSUME SpeechInv PROVE TypeOK
    OBVIOUS
  <2>1. ASSUME NEW o \in Objects
        PROVE  /\ \A i \in DOMAIN speech[o].queue : text[speech[o].queue[i]] # Blank
               /\ speech[o].phase \in LoopPhases
               /\ speech[o].on \in Objects \cup {None}
               /\ {speech[o].uttId, speech[o].prefetched, speech[o].item, speech[o].ahead}
                    \subseteq Utterances \cup {None}
               /\ speech[o].timers \subseteq 1..MaxBargeIns
    <3>1. speech[o] \in SpeechStates /\ Waiting(speech[o].queue, asked)
      BY DEF SpeechInv, Loops, LoopInv, Speeches
    <3> QED BY <3>1 DEF SpeechStates, Waiting
  <2>2. cancels \in 0..MaxBargeIns
    BY SpeechAssumption DEF SpeechInv, RustType
  <2>3. harness \in HarnessStates
    BY DEF SpeechInv, OutsideType
  <2>4. /\ harness.pending \in Utterances \cup {None}
        /\ harness.outcome \in [Utterances -> Outcomes] /\ harness.speaking \in BOOLEAN
    BY <2>3 DEF HarnessStates
  <2>5. text \in [Utterances -> {Blank} \cup Utterances]
    BY DEF SpeechInv, OutsideType
  <2> QED BY <2>1, <2>2, <2>4, <2>5 DEF TypeOK, SpeechInv, OutsideType, RustType, EntryInv
<1> QED BY <1>1, SpeechInvariance, PTL

(* No text is left in a queue without a loop that will come to it.         *)
THEOREM QueueServed == Spec => []QueueIsServed
<1>1. SpeechInv => QueueIsServed
  BY DEF SpeechInv, Loops, LoopInv, QueueIsServed
<1> QED BY <1>1, SpeechInvariance, PTL

(* The Rust server never has the audio of two utterances that it has not   *)
(* finished with and the loop (performSpeakViaRust) has not given up,      *)
(* after a failed request or 60 s.                                         *)
THEOREM VoicesAreOne == Spec => []OneVoice
<1>1. SpeechInv => OneVoice
  <2> SUFFICES ASSUME SpeechInv PROVE OneVoice
    OBVIOUS
  <2> DEFINE S == {u \in Utterances : rust[u] \in {"audio", "done", "cut", "silent"}}
  <2>1. \A u, v \in S : u = v
    BY DEF SpeechInv, VoiceInv, Voices
  <2>2. CASE S = {}
    BY <2>2, FS_EmptySet DEF OneVoice
  <2>3. CASE S # {}
    <3>1. PICK u : u \in S
      BY <2>3
    <3>2. S = {u}
      BY <2>1, <3>1
    <3>3. Cardinality(S) = 1
      BY <3>2, FS_Singleton
    <3> QED BY <3>3 DEF OneVoice
  <2> QED BY <2>2, <2>3
<1> QED BY <1>1, SpeechInvariance, PTL

(* While Rust plays what the loop (processSpeakQueue) waits for, what the  *)
(* bot says is not taken for the user.                                     *)
THEOREM EchoIsSuppressed == Spec => []EchoSuppressed
<1>1. SpeechInv => EchoSuppressed
  <2> SUFFICES ASSUME SpeechInv, session = "active", NEW u \in Utterances,
                      rust[u] \in {"audio", "done"}
               PROVE  current # None /\ (speech[current].ttsActive \/ speech[current].triggered)
    BY DEF EchoSuppressed
  <2>1. /\ EntryInv /\ Loops(speech, created, asked) /\ Given(rust, speech[1], asked)
    BY DEF SpeechInv, VoiceInv
  <2>2. speech[1].phase # "idle"
    BY <2>1 DEF Given, Voices
  <2>3. created = 1 /\ current = 1
    BY <2>1, <2>2 DEF EntryInv, Loops, Objects, None
  <2>4. speech[1].ttsActive \/ speech[1].triggered
    BY <2>1, <2>2 DEF Loops, LoopInv, Objects
  <2> QED BY <2>3, <2>4 DEF None
<1> QED BY <1>1, SpeechInvariance, PTL

(* Only the request with its audio gives Rust an utterance.                *)
LEMMA AudioIsGiven ==
  ASSUME SpeechInv, Next, NEW u \in Utterances, rust[u] = "none", rust'[u] # "none"
  PROVE  \E o \in Objects : RustAudio(o) /\ speech[o].item = u
<1>1. rust \in [Utterances -> Player!RustStates] /\ rust' # rust
  BY DEF SpeechInv, RustType
<1>2. ~(Speak \/ OpenClawSpeak \/ UserSpeaking \/ Transcription \/ Transfer \/ EndSession)
  <2>1. ~(Speak \/ OpenClawSpeak \/ UserSpeaking \/ Transcription)
    BY <1>1 DEF Speak, OpenClawSpeak, UserSpeaking, Transcription
  <2>2. ~(Transfer \/ EndSession)
    BY DEF Transfer, EndSession, Player!Remove
  <2> QED BY <2>1, <2>2
<1>3. \A o \in Objects : ~LoopStep(o)
  <2> SUFFICES ASSUME NEW o \in Objects, LoopStep(o) PROVE FALSE
    OBVIOUS
  <2>1. GoesOnWithout(speech[o].item)
    BY <1>1 DEF LoopStep, SynthReturns, SynthFails, StreamReturns, StreamFails, DoneReturns,
                DoneFails, PlaybackTimeout, PrefetchReturns
  <2>2. rust[speech[o].item] \notin {"none", "over"}
    BY <1>1, <2>1 DEF GoesOnWithout
  <2>3. /\ \/ rust' = [rust EXCEPT ![speech[o].item] = "orphan"]
           \/ rust' = [rust EXCEPT ![speech[o].item] = "over"]
    BY <2>1, <2>2 DEF GoesOnWithout, Player!GiveUp
  <2> QED BY <1>1, <2>2, <2>3
<1>4. /\ \A w \in Utterances : ~PlaybackNotice(w)
      /\ \A o \in Objects, b \in 1..MaxBargeIns : ~SafetyTimer(o, b)
  BY <1>1 DEF PlaybackNotice, SafetyTimer
<1>5. ~(RustHearsUser \/ MessagesLost)
  BY <1>1 DEF RustHearsUser, MessagesLost
<1>6. ~RustCancel
  <2> SUFFICES ASSUME RustCancel PROVE FALSE
    OBVIOUS
  <2>1. Player!Cancel
    BY DEF RustCancel
  <2>2. notices \in SUBSET Utterances /\ \A w \in notices : rust[w] = "over"
    BY DEF SpeechInv, RustType, VoiceInv
  <2> QED BY <1>1, <2>1, <2>2, CancelFacts
<1>7. \A w \in Utterances : ~RustPlayed(w)
  BY DEF RustPlayed, Player!Played
<1>8. \A o \in Objects : RustDone(o) => FALSE
  BY <1>1 DEF RustDone, Player!TakeDone
<1>9. PICK o \in Objects : RustAudio(o)
  BY <1>2, <1>3, <1>4, <1>5, <1>6, <1>7, <1>8 DEF Next, Rust
<1>10. rust' = [rust EXCEPT ![speech[o].item] = "audio"]
  BY <1>9 DEF RustAudio, Player!TakeAudio
<1> QED BY <1>1, <1>9, <1>10

(* It is the last one so far, and Rust has finished with those before it.  *)
LEMMA GivenInTurn ==
  ASSUME SpeechInv, Next, NEW u \in Utterances, rust[u] = "none", rust'[u] # "none"
  PROVE  /\ rust'[u] = "audio"
         /\ \A w \in 1..(u - 1) : rust[w] \in {"none", "orphan", "over"}
         /\ \A w \in (u + 1)..MaxSpeaks : rust[w] = "none"
<1>1. PICK o \in Objects : RustAudio(o) /\ speech[o].item = u
  BY AudioIsGiven
<1>2. session = "active" /\ speech[o].phase = "stream"
  BY <1>1 DEF RustAudio
<1>3. rust \in [Utterances -> Player!RustStates] /\ rust' = [rust EXCEPT ![u] = "audio"]
  BY <1>1 DEF RustAudio, Player!TakeAudio, SpeechInv, RustType
<1>4. \A w \in (u + 1)..MaxSpeaks : rust[w] = "none"
  <2>1. \A w \in Utterances : rust[w] # "none" => w <= u
    BY <1>1, <1>2, Unvoiced
  <2> QED BY <2>1, SpeechAssumption DEF Utterances
<1>5. ASSUME NEW w \in 1..(u - 1) PROVE rust[w] \in {"none", "orphan", "over"}
  <2>1. w \in Utterances /\ w # u
    BY SpeechAssumption DEF Utterances
  <2>2. rust'[u] \in Voices /\ rust'[w] = rust[w]
    BY <1>3, <2>1 DEF Voices
  <2>3. \A x, y \in Utterances : rust'[x] \in Voices /\ rust'[y] \in Voices => x = y
    BY NextInv DEF SpeechInv, VoiceInv
  <2>4. rust[w] \notin Voices
    BY <2>1, <2>2, <2>3
  <2> QED BY <1>3, <2>1, <2>4 DEF Voices, Player!RustStates
<1> QED BY <1>3, <1>4, <1>5

(* Rust is given the texts in the order they were asked for.               *)
THEOREM OrderIsKept == Spec => SpokenInOrder
<1> DEFINE Ordered == \A u \in Utterances :
                        rust[u] = "none" /\ rust'[u] # "none" =>
                          \A w \in (u + 1)..MaxSpeaks : rust[w] = "none"
<1>1. SpeechInv /\ [Next]_vars => [Ordered]_vars
  BY GivenInTurn
<1>2. (Spec => []SpeechInv) /\ (SpokenInOrder <=> [][Ordered]_vars)
  BY SpeechInvariance DEF SpokenInOrder
<1> QED BY <1>1, <1>2, PTL DEF Spec

-----------------------------------------------------------------------------
(***************************************************************************)
(* The bargain with the Rust server.  The queue relies on what TtsPlayer   *)
(* promises, and TtsInjector, which plays, on who hands over and when.     *)
(***************************************************************************)

(* What TtsInjector assumes of its client in HandOver: an utterance is     *)
(* handed over when each one before it is over or was given up, and none   *)
(* after it has been.                                                      *)
HandsOverInTurn ==
  [][\A u \in Utterances :
       rust[u] = "none" /\ rust'[u] # "none" =>
         /\ rust'[u] = "audio"
         /\ \A w \in 1..(u - 1) : rust[w] \in {"none", "orphan", "over"}
         /\ \A w \in (u + 1)..MaxSpeaks : rust[w] = "none"]_vars

(* The queue loop hands an utterance over only when the one before is over *)
(* or given up, through barge-ins, time-outs, failed requests and lost     *)
(* notices (performSpeakViaRust, AriControllerServer.ts:1934-1995).        *)
THEOREM ClientKeepsItsWord == Spec => HandsOverInTurn
<1> DEFINE InTurn == \A u \in Utterances :
                       rust[u] = "none" /\ rust'[u] # "none" =>
                         /\ rust'[u] = "audio"
                         /\ \A w \in 1..(u - 1) : rust[w] \in {"none", "orphan", "over"}
                         /\ \A w \in (u + 1)..MaxSpeaks : rust[w] = "none"
<1>1. SpeechInv /\ [Next]_vars => [InTurn]_vars
  BY GivenInTurn
<1>2. (Spec => []SpeechInv) /\ (HandsOverInTurn <=> [][InTurn]_vars)
  BY SpeechInvariance DEF HandsOverInTurn
<1> QED BY <1>1, <1>2, PTL DEF Spec

(* What the queue supposes of Rust is no more than TtsPlayer promises, and *)
(* so than TtsInjector has been shown to do (tts.rs).                      *)
THEOREM QueueUsesPlayer == Spec => Player!PlayerSpec
<1>1. Init => Player!PlayerInit
  BY DEF Init, Player!PlayerInit
<1>2. SpeechInv /\ [Next]_vars => [Player!PlayerNext]_(Player!playerVars)
  <2> SUFFICES ASSUME SpeechInv, Next, ~UNCHANGED <<rust, notices>>
               PROVE  Player!PlayerNext
    BY DEF vars, Player!playerVars
  <2>0. ASSUME NEW o \in Objects, speech[o].phase # "idle" PROVE speech[o].item \in Utterances
    <3>1. LoopInv(speech[o], asked) /\ asked \in 0..MaxSpeaks
      BY DEF SpeechInv, Loops, OutsideType
    <3> QED BY <2>0, <3>1, SpeechAssumption DEF LoopInv, Utterances
  <2>1. ~(Speak \/ OpenClawSpeak \/ UserSpeaking \/ Transcription)
    BY DEF Speak, OpenClawSpeak, UserSpeaking, Transcription
  <2>1a. CASE Transfer \/ EndSession
    BY <2>1a DEF Transfer, EndSession, Player!PlayerNext
  <2>2. ASSUME NEW o \in Objects, LoopStep(o) PROVE Player!PlayerNext
    <3>1. GoesOnWithout(speech[o].item) /\ speech[o].phase # "idle"
      BY <2>2 DEF LoopStep, SynthReturns, SynthFails, StreamReturns, StreamFails, DoneReturns,
                  DoneFails, PlaybackTimeout, PrefetchReturns
    <3>2. Player!GiveUp(speech[o].item) /\ speech[o].item \in Utterances
      BY <2>0, <3>1 DEF GoesOnWithout
    <3> QED BY <3>2 DEF Player!PlayerNext
  <2>3. ASSUME NEW u \in Utterances, PlaybackNotice(u) PROVE Player!PlayerNext
    <3>1. Player!Deliver({u})
      BY <2>3 DEF PlaybackNotice, Player!Deliver
    <3> QED BY <3>1 DEF Player!PlayerNext
  <2>4. \A o \in Objects, b \in 1..MaxBargeIns : ~SafetyTimer(o, b)
    BY DEF SafetyTimer
  <2>5. ASSUME NEW o \in Objects, RustAudio(o) \/ RustDone(o) PROVE Player!PlayerNext
    <3>1. speech[o].item \in Utterances
      BY <2>0, <2>5 DEF RustAudio, RustDone
    <3> QED BY <2>5, <3>1 DEF RustAudio, RustDone, Player!PlayerNext
  <2>6. ASSUME NEW u \in Utterances, RustPlayed(u) PROVE Player!PlayerNext
    BY <2>6 DEF RustPlayed, Player!PlayerNext
  <2>7. CASE RustCancel
    BY <2>7 DEF RustCancel, Player!PlayerNext
  <2>8. ~RustHearsUser
    BY DEF RustHearsUser
  <2>9. CASE MessagesLost
    <3>1. notices # {} /\ notices' = {} /\ UNCHANGED rust /\ notices \in SUBSET Utterances
      BY <2>9 DEF MessagesLost, SpeechInv, RustType
    <3>2. Player!Deliver(notices)
      BY <3>1 DEF Player!Deliver
    <3> QED BY <3>1, <3>2 DEF Player!PlayerNext
  <2> QED BY <2>1, <2>1a, <2>2, <2>3, <2>4, <2>5, <2>6, <2>7, <2>8, <2>9 DEF Next, Rust
<1> QED BY <1>1, <1>2, SpeechInvariance, PTL DEF Spec, Player!PlayerSpec
===============================================================================
