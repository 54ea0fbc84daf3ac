--------------------------- MODULE TtsInjectorProofs ---------------------------
(***************************************************************************)
(* Proofs about TtsInjector: its safety properties and that it implements  *)
(* TtsPlayer, for any number of utterances, lengths, frame size and number *)
(* of cancels.                                                             *)
(*                                                                         *)
(* The inductive invariant says where the audio of each utterance is: what *)
(* waits in the channel is of later utterances than what is in the buffer, *)
(* and that of later ones than what was sent; only the last utterance, or  *)
(* one that was given up, can have its "done" waiting or pending; and what *)
(* is in the buffer is, with what was sent, the whole utterance.           *)
(***************************************************************************)
EXTENDS TtsInjector, SequenceTheorems, FiniteSetTheorems, TLAPS

-----------------------------------------------------------------------------
(* Sequences of units in order, and in frames.                             *)
Sent == Utterances \cup {Padding}

InOrder(w) == \A i, j \in DOMAIN w : i < j /\ w[j] # Padding => w[i] <= w[j]

(* No two utterances unless the first was given up.                        *)
SameOf(w, i, j) == w[j] \in {w[i], Padding} \/ w[i] \in givenUp

Unmixed(w) ==
  \A i, j \in DOMAIN w :
    i < j /\ (i - 1) \div FrameUnits = (j - 1) \div FrameUnits => SameOf(w, i, j)

Frame(f) ==
  /\ f \in Seq(Sent) /\ Len(f) = FrameUnits /\ InOrder(f)
  /\ \A i, j \in DOMAIN f : i < j => SameOf(f, i, j)

Whole(w) == w \in Seq(Sent) /\ Len(w) % FrameUnits = 0 /\ InOrder(w) /\ Unmixed(w)

-----------------------------------------------------------------------------
(* The inductive invariant.                                                *)
Audio(u) == [type |-> "Audio", utterance |-> u]
Done(u)  == [type |-> "Done", utterance |-> u]

Count(s, u) == Cardinality({i \in DOMAIN s : s[i] = u})

(* Only what was declared complete is named by a report, or is current.    *)
ClientInv ==
  /\ complete \cup givenUp \subseteq 1..handed
  /\ current_utterance_id \in complete \cup {None}
  /\ \A e \in events : e.utterance \in complete \cup {None}

(* Audio that waits in the channel is of later utterances than all that    *)
(* was taken; a "done" is of the last one, or of one given up.             *)
WaitingAudio(u) ==
  /\ u \in 1..handed /\ ~Reported(u) /\ current_utterance_id # u
  /\ \A j \in DOMAIN pcm_buffer : pcm_buffer[j] < u
  /\ \A j \in DOMAIN wire : wire[j] < u

WaitingDone(u) ==
  /\ u \in complete /\ (u # handed => u \in givenUp)
  /\ ~Reported(u) /\ current_utterance_id # u

WaitsWell(c) ==
  /\ c.type = "Audio" => WaitingAudio(c.utterance)
  /\ c.type = "Done" => WaitingDone(c.utterance)
  /\ c.type = "Cancel" => cancels # 0

(* Audio waits in order, and each "done" behind its own.                   *)
InTurn(c, d) ==
  \/ c.type = "Cancel" \/ d.type = "Cancel" \/ c.utterance < d.utterance
  \/ c.type = "Audio" /\ d.type = "Done" /\ c.utterance = d.utterance

ChannelInv ==
  /\ ~running => ~open /\ channel = <<>> /\ pcm_buffer = <<>>
  /\ \A i \in DOMAIN channel : WaitsWell(channel[i])
  /\ \A i, j \in DOMAIN channel : i < j => InTurn(channel[i], channel[j])

(* A "done" that is pending is of the last utterance, whose end is in the  *)
(* buffer, or of one given up; when none is, the last one was reported.    *)
PendingInv ==
  running =>
    IF pending_done = None
      THEN current_utterance_id # None => Reported(current_utterance_id)
      ELSE /\ pending_done = current_utterance_id
           /\ ~Reported(pending_done) /\ Pacing
           /\ pending_done \notin givenUp => pending_done = handed /\ InBuffer(pending_done)

(* What is in the buffer is in order, none of it is reported, and with     *)
(* what was sent it is the whole utterance.                                *)
BufferInv ==
  \A i \in DOMAIN pcm_buffer :
    LET u == pcm_buffer[i] IN
    /\ u \in 1..handed /\ ~Reported(u)
    /\ Count(wire, u) + Count(pcm_buffer, u) = length[u]
    /\ \A j \in 1..i : pcm_buffer[j] <= u
    /\ \A j \in DOMAIN wire : wire[j] <= u

(* What waits and is not the last is never declared complete.              *)
Orphans == \A u \in 1..(handed - 1) : InBuffer(u) \/ InChannel(u) => u \in givenUp

(* Behind what waits, everything waits.                                    *)
Contiguous ==
  \A u, v \in 1..handed :
    u < v /\ (InBuffer(u) \/ InChannel(u)) => InBuffer(v) \/ InChannel(v)

(* What was sent is whole frames, in order.                                *)
WireInv ==
  /\ Whole(wire)
  /\ \A j \in DOMAIN wire : wire[j] <= handed

(* Without a cancel nothing is dropped.                                    *)
AllPlayed ==
  running /\ cancels = 0 =>
    \A u \in 1..handed : ~InChannel(u) => Count(wire, u) + Count(pcm_buffer, u) = length[u]

DoneInv ==
  cancels = 0 =>
    \A u \in Utterances :
      [type |-> "tts_playback_done", utterance |-> u] \in events => Count(wire, u) = length[u]

Inv ==
  /\ TypeOK /\ ClientInv /\ ChannelInv /\ PendingInv /\ BufferInv /\ Orphans /\ Contiguous
  /\ WireInv /\ AllPlayed /\ DoneInv /\ ActiveWhilePlaying

-----------------------------------------------------------------------------
(* Counting the units of an utterance in a sequence.                       *)

LEMMA CountType ==
  ASSUME NEW S, NEW s \in Seq(S), NEW u
  PROVE  /\ IsFiniteSet({i \in DOMAIN s : s[i] = u})
         /\ Count(s, u) \in Nat
         /\ Count(s, u) = 0 <=> \A i \in DOMAIN s : s[i] # u
<1> DEFINE D == {i \in DOMAIN s : s[i] = u}
<1>1. Len(s) \in Nat /\ DOMAIN s = 1..Len(s)
  OBVIOUS
<1>2. IsFiniteSet(1..Len(s))
  BY <1>1, FS_Interval
<1>3. IsFiniteSet(D)
  BY <1>1, <1>2, FS_Subset
<1>4. Cardinality(D) \in Nat
  BY <1>3, FS_CardinalityType
<1>5. Cardinality(D) = 0 <=> D = {}
  BY <1>3, FS_EmptySet
<1> QED
  BY <1>3, <1>4, <1>5 DEF Count

LEMMA CountConcat ==
  ASSUME NEW S, NEW s \in Seq(S), NEW t \in Seq(S), NEW u
  PROVE  Count(s \o t, u) = Count(s, u) + Count(t, u)
<1> DEFINE A == {i \in DOMAIN s : s[i] = u}
           B == {i \in DOMAIN t : t[i] = u}
           C == {i \in DOMAIN (s \o t) : (s \o t)[i] = u}
           n == Len(s)
           Shifted == C \ A
           f == [i \in B |-> i + n]
<1>1. /\ n \in Nat /\ Len(t) \in Nat
      /\ DOMAIN s = 1..n /\ DOMAIN t = 1..Len(t) /\ DOMAIN (s \o t) = 1..(n + Len(t))
      /\ \A i \in 1..n : (s \o t)[i] = s[i]
      /\ \A i \in 1..Len(t) : (s \o t)[i + n] = t[i]
      /\ \A i \in (n + 1)..(n + Len(t)) : i - n \in 1..Len(t) /\ (s \o t)[i] = t[i - n]
  OBVIOUS
<1>2. IsFiniteSet(A) /\ IsFiniteSet(B) /\ IsFiniteSet(C)
  BY CountType, s \o t \in Seq(S)
<1>3. A \subseteq C
  BY <1>1
<1>4. Shifted = {i \in (n + 1)..(n + Len(t)) : t[i - n] = u}
  BY <1>1
<1>5. f \in Bijection(B, Shifted)
  <2>1. f \in [B -> Shifted]
    BY <1>1, <1>4
  <2>2. \A i, j \in B : f[i] = f[j] => i = j
    BY <1>1
  <2>3. \A k \in Shifted : \E i \in B : f[i] = k
    <3> TAKE k \in Shifted
    <3>1. k - n \in B /\ f[k - n] = k
      BY <1>1, <1>4
    <3> QED
      BY <3>1
  <2> QED
    BY <2>1, <2>2, <2>3 DEF Bijection, Injection, Surjection, IsInjective
<1>6. Cardinality(Shifted) = Cardinality(B)
  BY <1>2, <1>5, FS_Bijection DEF ExistsBijection
<1>7. A \cup Shifted = C /\ A \cap Shifted = {}
  BY <1>3
<1>8. IsFiniteSet(Shifted)
  BY <1>2, FS_Difference
<1>9. Cardinality(C) = Cardinality(A) + Cardinality(Shifted) - Cardinality({})
  <2> HIDE DEF A, Shifted, C
  <2> QED
    BY <1>2, <1>7, <1>8, FS_Union
<1>10. Cardinality(A) \in Nat /\ Cardinality(B) \in Nat /\ Cardinality({}) = 0
  BY <1>2, FS_EmptySet, FS_CardinalityType
<1>11. Cardinality(C) = Cardinality(A) + Cardinality(B)
  <2> HIDE DEF A, B, C, Shifted
  <2> QED
    BY <1>6, <1>9, <1>10
<1> QED
  BY <1>11 DEF Count

LEMMA UnitsOf ==
  ASSUME TypeOK, NEW u \in Utterances
  PROVE  /\ Units(u) \in Seq(Utterances)
         /\ Len(Units(u)) = length[u] /\ length[u] \in Nat \ {0}
         /\ \A i \in DOMAIN Units(u) : Units(u)[i] = u
         /\ Count(Units(u), u) = length[u]
<1>1. length[u] \in Nat \ {0}
  BY InjectorAssumption DEF TypeOK, Utterances
<1>2. /\ Units(u) \in Seq(Utterances)
      /\ Len(Units(u)) = length[u] /\ DOMAIN Units(u) = 1..length[u]
      /\ \A i \in DOMAIN Units(u) : Units(u)[i] = u
  BY <1>1 DEF Units
<1>3. {i \in DOMAIN Units(u) : Units(u)[i] = u} = 1..length[u]
  BY <1>2
<1>4. Cardinality(1..length[u]) = length[u]
  BY <1>1, FS_Interval
<1> QED
  BY <1>1, <1>2, <1>3, <1>4 DEF Count

(* The rest of a whole number of frames and one more.                      *)
LEMMA OneMoreFrame ==
  ASSUME NEW F \in Nat \ {0}, NEW n \in Nat, n % F = 0
  PROVE  (n + F) % F = 0
<1> DEFINE q == n \div F
           m == n + F
           r == m % F
           d == q + 1 - (m \div F)
<1>1. q \in Nat /\ n = F * q
  OBVIOUS
<1>2. m \in Nat /\ m = F * (q + 1)
  BY <1>1
<1> HIDE DEF q, m
<1>3. m % F \in 0..(F - 1) /\ m \div F \in Nat /\ m = (F * (m \div F)) + (m % F)
  BY <1>2
<1>4. r \in 0..(F - 1) /\ d \in Int /\ r = F * d
  BY <1>1, <1>2, <1>3
<1> HIDE DEF r, d
<1>5. r = 0
  <2>1. CASE d >= 1
    BY <1>4, <2>1, F * d >= F
  <2>2. CASE d <= -1
    BY <1>4, <2>2
  <2>3. CASE d = 0
    BY <1>4, <2>3
  <2> QED
    BY <1>4, <2>1, <2>2, <2>3
<1> QED
  BY <1>5 DEF r, m

LEMMA OtherFrame ==
  ASSUME NEW F \in Nat \ {0}, NEW n \in Nat, n % F = 0,
         NEW i \in 0..(n - 1), NEW j \in Nat, n <= j
  PROVE  i \div F # j \div F
OBVIOUS

-----------------------------------------------------------------------------
(* A frame more is a frame more.                                           *)
LEMMA FrameAppended ==
  ASSUME NEW w, Whole(w), NEW f, Frame(f),
         \A i \in DOMAIN w, j \in DOMAIN f : f[j] # Padding => w[i] <= f[j]
  PROVE  Whole(w \o f)
<1> DEFINE n == Len(w)
           v == w \o f
<1>1. FrameUnits \in Nat \ {0}
  BY InjectorAssumption
<1>2. /\ n \in Nat /\ n % FrameUnits = 0 /\ Len(f) = FrameUnits
      /\ v \in Seq(Sent) /\ Len(v) = n + FrameUnits
      /\ DOMAIN w = 1..n /\ DOMAIN f = 1..FrameUnits /\ DOMAIN v = 1..(n + FrameUnits)
      /\ \A i \in 1..n : v[i] = w[i]
      /\ \A i \in (n + 1)..(n + FrameUnits) : i - n \in 1..FrameUnits /\ v[i] = f[i - n]
  BY <1>1 DEF Whole, Frame
<1>3. Len(v) % FrameUnits = 0
  BY <1>1, <1>2, OneMoreFrame
<1> HIDE DEF n, v
<1>4. ASSUME NEW i \in DOMAIN v, NEW j \in DOMAIN v, i < j
      PROVE  /\ v[j] # Padding => v[i] <= v[j]
             /\ (i - 1) \div FrameUnits = (j - 1) \div FrameUnits => SameOf(v, i, j)
  <2>1. CASE j <= n
    <3>1. i \in DOMAIN w /\ j \in DOMAIN w /\ v[i] = w[i] /\ v[j] = w[j]
      BY <1>2, <1>4, <2>1
    <3> QED
      BY <1>4, <3>1 DEF Whole, InOrder, Unmixed, SameOf
  <2>2. CASE i > n
    <3>1. /\ i - n \in DOMAIN f /\ j - n \in DOMAIN f /\ i - n < j - n
          /\ v[i] = f[i - n] /\ v[j] = f[j - n]
      BY <1>1, <1>2, <1>4, <2>2
    <3> QED
      BY <3>1 DEF Frame, InOrder, SameOf
  <2>3. CASE i <= n /\ j > n
    <3>1. i \in DOMAIN w /\ j - n \in DOMAIN f /\ v[i] = w[i] /\ v[j] = f[j - n]
      BY <1>1, <1>2, <1>4, <2>3
    <3>2. (i - 1) \div FrameUnits # (j - 1) \div FrameUnits
      <4>1. i - 1 \in 0..(n - 1) /\ j - 1 \in Nat /\ n <= j - 1
        BY <1>1, <1>2, <1>4, <2>3
      <4> QED
        BY <1>1, <1>2, <4>1, OtherFrame
    <3> QED
      BY <3>1, <3>2
  <2> QED
    BY <1>1, <1>2, <1>4, <2>1, <2>2, <2>3
<1> QED
  BY <1>2, <1>3, <1>4 DEF Whole, InOrder, Unmixed, v

-----------------------------------------------------------------------------
(* The channel.                                                            *)

LEMMA CommandIs ==
  ASSUME NEW c \in Commands
  PROVE  \/ c.type = "Audio" /\ c.utterance \in Utterances /\ c = Audio(c.utterance)
         \/ c.type = "Done" /\ c.utterance \in Utterances /\ c = Done(c.utterance)
         \/ c.type = "Cancel" /\ c = [type |-> "Cancel"]
<1>1. CASE c \in [type : {"Audio", "Done"}, utterance : Utterances]
  BY <1>1 DEF Audio, Done
<1>2. CASE c \in [type : {"Cancel"}]
  BY <1>2
<1> QED
  BY <1>1, <1>2 DEF Commands

LEMMA AudioInChannel ==
  ASSUME TypeOK, NEW u
  PROVE  InChannel(u) <=> \E i \in DOMAIN channel :
                            channel[i].type = "Audio" /\ channel[i].utterance = u
<1>1. ASSUME NEW i \in DOMAIN channel
      PROVE  channel[i] = Audio(u) <=> channel[i].type = "Audio" /\ channel[i].utterance = u
  <2>1. channel[i] \in Commands
    BY <1>1 DEF TypeOK
  <2> QED
    BY <2>1, CommandIs DEF Audio
<1> QED
  BY <1>1 DEF InChannel, Audio

(* A request is put at the end.                                            *)
LEMMA Enqueues ==
  ASSUME TypeOK, NEW c \in Commands, channel' = Append(channel, c)
  PROVE  /\ channel' \in Seq(Commands)
         /\ DOMAIN channel = 1..Len(channel) /\ DOMAIN channel' = 1..(Len(channel) + 1)
         /\ Len(channel) \in Nat
         /\ \A i \in DOMAIN channel : channel'[i] = channel[i]
         /\ channel'[Len(channel) + 1] = c
         /\ \A u : InChannel(u)' <=> InChannel(u) \/ c = Audio(u)
<1>1. /\ channel' \in Seq(Commands)
      /\ DOMAIN channel = 1..Len(channel) /\ DOMAIN channel' = 1..(Len(channel) + 1)
      /\ Len(channel) \in Nat
      /\ \A i \in DOMAIN channel : channel'[i] = channel[i]
      /\ channel'[Len(channel) + 1] = c
  BY DEF TypeOK
<1>2. \A i \in DOMAIN channel' : i \in DOMAIN channel \/ i = Len(channel) + 1
  BY <1>1
<1>3. DOMAIN channel \subseteq DOMAIN channel' /\ Len(channel) + 1 \in DOMAIN channel'
  BY <1>1
<1>4. ASSUME NEW u
      PROVE  InChannel(u)' <=> InChannel(u) \/ c = Audio(u)
  BY <1>1, <1>2, <1>3 DEF InChannel, Audio
<1> QED
  BY <1>1, <1>4

(* What a request at the end has to be for the channel to be in order.     *)
LEMMA EnqueuedInTurn ==
  ASSUME TypeOK, ChannelInv, NEW c \in Commands, channel' = Append(channel, c),
         \A i \in DOMAIN channel : InTurn(channel[i], c)
  PROVE  \A i, j \in DOMAIN channel' : i < j => InTurn(channel'[i], channel'[j])
<1>1. SUFFICES ASSUME NEW i \in DOMAIN channel', NEW j \in DOMAIN channel', i < j
               PROVE  InTurn(channel'[i], channel'[j])
  OBVIOUS
<1>2. i \in DOMAIN channel
  BY <1>1, Enqueues
<1>3. CASE j \in DOMAIN channel
  BY <1>1, <1>2, <1>3, Enqueues DEF ChannelInv
<1>4. CASE j = Len(channel) + 1
  BY <1>2, <1>4, Enqueues
<1> QED
  BY <1>1, <1>3, <1>4, Enqueues

LEMMA EnqueuedInv ==
  ASSUME TypeOK, ChannelInv, NEW c \in Commands, channel' = Append(channel, c),
         open, UNCHANGED <<open, running, pcm_buffer>>,
         \A i \in DOMAIN channel : InTurn(channel[i], c),
         \A i \in DOMAIN channel : WaitsWell(channel[i])',
         WaitsWell(c)'
  PROVE  ChannelInv'
<1>1. ASSUME NEW i \in DOMAIN channel'
      PROVE  WaitsWell(channel[i])'
  <2>1. CASE i \in DOMAIN channel
    BY <2>1
  <2>2. CASE i = Len(channel) + 1
    <3>1. channel'[i] = c
      BY <2>2, Enqueues
    <3> QED
      BY <3>1 DEF WaitsWell
  <2> QED
    BY <2>1, <2>2, Enqueues
<1> QED
  BY <1>1, EnqueuedInTurn DEF ChannelInv

(* The task takes the command at the head.                                 *)
LEMMA Takes ==
  ASSUME TypeOK, ChannelInv, NEW type, Receive(type)
  PROVE  LET c == Head(channel) IN
         /\ c \in Commands /\ c.type = type /\ WaitsWell(c)
         /\ channel' \in Seq(Commands)
         /\ \A i \in DOMAIN channel' :
              \E k \in DOMAIN channel : channel'[i] = channel[k] /\ InTurn(c, channel[k])
         /\ \A i, j \in DOMAIN channel' : i < j => InTurn(channel'[i], channel'[j])
         /\ \A u : InChannel(u) <=> InChannel(u)' \/ c = Audio(u)
         /\ \A u : ~(InChannel(u)' /\ c = Audio(u))
<1> DEFINE c == Head(channel)
<1>1. /\ channel \in Seq(Commands) /\ channel # <<>>
      /\ channel' = Tail(channel) /\ c.type = type
  BY DEF TypeOK, Receive
<1>2. /\ Len(channel) \in Nat \ {0} /\ DOMAIN channel = 1..Len(channel)
      /\ c = channel[1] /\ c \in Commands /\ 1 \in DOMAIN channel
      /\ channel' \in Seq(Commands) /\ DOMAIN channel' = 1..(Len(channel) - 1)
      /\ \A i \in DOMAIN channel' : i + 1 \in DOMAIN channel /\ channel'[i] = channel[i + 1]
  BY <1>1
<1> HIDE DEF c
<1>3. \A i \in DOMAIN channel' : InTurn(c, channel[i + 1])
  BY <1>2 DEF ChannelInv
<1>4. \A i, j \in DOMAIN channel' : i < j => InTurn(channel'[i], channel'[j])
  BY <1>2 DEF ChannelInv
<1>5. ASSUME NEW u
      PROVE  InChannel(u) <=> InChannel(u)' \/ c = Audio(u)
  <2>1. InChannel(u)' => InChannel(u)
    BY <1>2 DEF InChannel
  <2>2. c = Audio(u) => InChannel(u)
    BY <1>2 DEF InChannel, Audio
  <2>3. ASSUME NEW i \in DOMAIN channel, channel[i] = Audio(u)
        PROVE  c = Audio(u) \/ InChannel(u)'
    <3>1. CASE i = 1
      BY <1>2, <2>3, <3>1
    <3>2. CASE i # 1
      <4>1. i - 1 \in DOMAIN channel' /\ channel'[i - 1] = channel[i]
        BY <1>2, <3>2
      <4> QED
        BY <2>3, <4>1 DEF InChannel, Audio
    <3> QED
      BY <3>1, <3>2
  <2> QED
    BY <2>1, <2>2, <2>3 DEF InChannel, Audio
<1>6. ASSUME NEW u, InChannel(u)', c = Audio(u)
      PROVE  FALSE
  <2>1. PICK i \in DOMAIN channel' : channel'[i] = Audio(u)
    BY <1>6 DEF InChannel, Audio
  <2>2. InTurn(c, Audio(u)) /\ u \in 1..handed
    BY <1>2, <1>3, <1>6, <2>1 DEF ChannelInv, WaitsWell, WaitingAudio, Audio
  <2> QED
    BY <1>6, <2>2 DEF InTurn, Audio, TypeOK, Utterances
<1>7. WaitsWell(c)
  BY <1>2 DEF ChannelInv
<1> QED
  BY <1>1, <1>2, <1>3, <1>4, <1>5, <1>6, <1>7 DEF c

-----------------------------------------------------------------------------
(* The requests keep the invariant.                                        *)

LEMMA ReportedIsComplete ==
  ASSUME ClientInv, NEW u \in Utterances, u \notin complete
  PROVE  ~Reported(u) /\ current_utterance_id # u
BY DEF ClientInv, Reported, Utterances, None

LEMMA HandOverInv ==
  ASSUME Inv, HandOver
  PROVE  Inv'
<1> USE DEF Inv
<1>0. PICK u \in Utterances : u = handed + 1
  BY InjectorAssumption DEF HandOver, TypeOK, Utterances
<1>1. /\ handed \in Nat /\ handed' = u /\ u # handed
      /\ Audio(u) \in Commands /\ channel' = Append(channel, Audio(u))
      /\ UNCHANGED <<length, complete, givenUp, cancels, open, task>>
      /\ open /\ running
      /\ handed = 0 \/ Reported(handed) \/ handed \in givenUp
  BY <1>0 DEF HandOver, Enqueue, Audio, Commands, TypeOK, Utterances, ChannelInv
<1>2. u \notin complete /\ ~Reported(u) /\ current_utterance_id # u
  BY <1>0, <1>1, ReportedIsComplete DEF ClientInv
<1>3. ASSUME NEW i \in DOMAIN channel, channel[i].type = "Done"
      PROVE  channel[i].utterance \in givenUp /\ channel[i].utterance \in 1..handed
  <2>1. WaitingDone(channel[i].utterance)
    BY <1>3 DEF ChannelInv, WaitsWell
  <2> QED
    BY <1>1, <2>1 DEF WaitingDone, ClientInv
<1>4. pending_done # None => pending_done \in givenUp
  BY <1>0, <1>1 DEF PendingInv, None
<1>5. TypeOK'
  BY <1>0, <1>1, Enqueues DEF TypeOK, task, Utterances
<1>6. ClientInv'
  BY <1>0, <1>1 DEF ClientInv, task
<1>7. WaitsWell(Audio(u))'
  <2>1. \A j \in DOMAIN pcm_buffer : pcm_buffer[j] < u
    BY <1>0, <1>1 DEF BufferInv
  <2>2. \A j \in DOMAIN wire : wire[j] < u
    BY <1>0, <1>1 DEF WireInv, Whole, Sent, Utterances, Padding
  <2> QED
    BY <1>0, <1>1, <1>2, <2>1, <2>2 DEF WaitsWell, WaitingAudio, Audio, Reported, task
<1>8. \A i \in DOMAIN channel : WaitsWell(channel[i])'
  <2> TAKE i \in DOMAIN channel
  <2>1. WaitsWell(channel[i]) /\ channel'[i] = channel[i]
    BY <1>0, <1>1, Enqueues DEF ChannelInv
  <2>2. channel[i].type = "Done" => channel[i].utterance \in givenUp
    BY <1>3
  <2> QED
    BY <1>0, <1>1, <2>1, <2>2 DEF WaitsWell, WaitingAudio, WaitingDone, Reported, task
<1>9. ChannelInv'
  <2>1. ASSUME NEW i \in DOMAIN channel PROVE InTurn(channel[i], Audio(u))
    <3>1. channel[i] \in Commands /\ WaitsWell(channel[i])
      BY DEF TypeOK, ChannelInv
    <3>2. \/ channel[i].type = "Cancel"
          \/ channel[i].utterance \in 1..handed
      BY <1>3, <3>1, CommandIs DEF WaitsWell, WaitingAudio
    <3> QED
      BY <1>0, <1>1, <3>2 DEF InTurn, Audio
  <2> QED
    BY <1>0, <1>1, <1>7, <1>8, <2>1, EnqueuedInv DEF task
<1>10. PendingInv'
  BY <1>0, <1>1, <1>4 DEF PendingInv, Pacing, Reported, task
<1>11. BufferInv'
  BY <1>0, <1>1 DEF BufferInv, Reported, task
<1>12. \A v : InChannel(v)' <=> InChannel(v) \/ v = u
  BY <1>0, <1>1, Enqueues DEF Audio
<1>13. Orphans'
  <2>1. SUFFICES ASSUME NEW v \in 1..(handed' - 1), InBuffer(v)' \/ InChannel(v)'
                 PROVE  v \in givenUp'
    BY DEF Orphans
  <2>2. v \in 1..handed /\ (InBuffer(v) \/ InChannel(v))
    BY <1>0, <1>1, <1>12, <2>1 DEF InBuffer, task
  <2>3. ~Reported(v)
    BY <2>2, AudioInChannel
       DEF BufferInv, ChannelInv, WaitsWell, WaitingAudio, InBuffer, TypeOK
  <2>4. CASE v = handed
    BY <1>0, <1>1, <2>2, <2>3, <2>4
  <2>5. CASE v # handed
    BY <1>0, <1>1, <2>2, <2>5 DEF Orphans
  <2> QED
    BY <2>4, <2>5
<1>13a. Contiguous'
  <2>1. \A v : InBuffer(v)' <=> InBuffer(v)
    BY <1>1 DEF InBuffer, task
  <2>2. \A v, w \in 1..u : v < w => v \in 1..handed /\ (w \in 1..handed \/ w = u)
    BY <1>0, <1>1
  <2> QED
    BY <1>1, <1>12, <2>1, <2>2 DEF Contiguous
<1>14. WireInv'
  BY <1>0, <1>1 DEF WireInv, Whole, Unmixed, SameOf, InOrder, Sent, Utterances, Padding, task
<1>15. AllPlayed'
  <2>1. SUFFICES ASSUME cancels = 0, NEW v \in 1..u, ~InChannel(v)'
                 PROVE  Count(wire, v) + Count(pcm_buffer, v) = length[v]
    BY <1>0, <1>1 DEF AllPlayed, task
  <2>2. v \in 1..handed /\ ~InChannel(v)
    BY <1>0, <1>1, <1>12, <2>1
  <2> QED
    BY <1>0, <1>1, <2>1, <2>2 DEF AllPlayed
<1>16. DoneInv'
  BY <1>0, <1>1 DEF DoneInv, task
<1>17. ActiveWhilePlaying'
  BY <1>0, <1>1, <1>2 DEF ActiveWhilePlaying, Reported, task
<1> QED
  BY <1>5, <1>6, <1>9, <1>10, <1>11, <1>13, <1>13a, <1>14, <1>15, <1>16, <1>17

LEMMA DeclareCompleteInv ==
  ASSUME Inv, DeclareComplete
  PROVE  Inv'
<1> USE DEF Inv
<1>0. PICK u \in Utterances : u = handed
  BY DEF DeclareComplete, Undeclared, TypeOK, Utterances
<1>1. /\ u \in Nat /\ u \notin complete /\ u \notin givenUp
      /\ complete' = complete \cup {u}
      /\ Done(u) \in Commands /\ channel' = Append(channel, Done(u))
      /\ UNCHANGED <<length, handed, givenUp, cancels, open, task>>
      /\ open /\ running
  BY <1>0 DEF DeclareComplete, Undeclared, Enqueue, Done, Commands, TypeOK, Utterances, ChannelInv
<1>2. ~Reported(u) /\ current_utterance_id # u
  BY <1>0, <1>1, ReportedIsComplete
<1>3. \A i \in DOMAIN channel :
        \/ channel[i].type = "Audio" /\ channel[i].utterance \in 1..u
        \/ channel[i].type = "Done" /\ channel[i].utterance \in 1..(u - 1)
        \/ channel[i].type = "Cancel"
  <2> TAKE i \in DOMAIN channel
  <2>1. channel[i] \in Commands /\ WaitsWell(channel[i])
    BY DEF TypeOK, ChannelInv
  <2>2. channel[i].type = "Audio" => channel[i].utterance \in 1..u
    BY <1>0, <2>1 DEF WaitsWell, WaitingAudio
  <2>3. channel[i].type = "Done" => channel[i].utterance \in complete
    BY <2>1 DEF WaitsWell, WaitingDone
  <2>4. channel[i].type = "Done" => channel[i].utterance \in 1..(u - 1)
    BY <1>0, <1>1, <2>3 DEF ClientInv
  <2> QED
    BY <2>1, <2>2, <2>4, CommandIs
<1>4. TypeOK'
  BY <1>0, <1>1, Enqueues DEF TypeOK, task
<1>5. ClientInv'
  BY <1>0, <1>1 DEF ClientInv, task, Utterances
<1>6. WaitsWell(Done(u))'
  BY <1>0, <1>1, <1>2 DEF WaitsWell, WaitingDone, Done, Reported, task
<1>7. \A i \in DOMAIN channel : WaitsWell(channel[i])'
  <2> TAKE i \in DOMAIN channel
  <2>1. WaitsWell(channel[i]) /\ channel'[i] = channel[i]
    BY <1>0, <1>1, Enqueues DEF ChannelInv
  <2> QED
    BY <1>0, <1>1, <2>1 DEF WaitsWell, WaitingAudio, WaitingDone, Reported, task
<1>8. ChannelInv'
  <2>1. ASSUME NEW i \in DOMAIN channel PROVE InTurn(channel[i], Done(u))
    <3>1. \/ channel[i].type = "Audio" /\ channel[i].utterance \in 1..u
          \/ channel[i].type = "Done" /\ channel[i].utterance \in 1..(u - 1)
          \/ channel[i].type = "Cancel"
      BY <1>3
    <3> QED
      BY <1>1, <3>1 DEF InTurn, Done
  <2> QED
    BY <1>0, <1>1, <1>6, <1>7, <2>1, EnqueuedInv DEF task
<1>9. PendingInv'
  BY <1>0, <1>1 DEF PendingInv, Reported, InBuffer, Pacing, task
<1>10. BufferInv'
  BY <1>0, <1>1 DEF BufferInv, Reported, task
<1>11. \A v : InChannel(v)' <=> InChannel(v)
  BY <1>0, <1>1, Enqueues DEF Audio, Done
<1>12. Orphans' /\ Contiguous'
  BY <1>0, <1>1, <1>11 DEF Orphans, Contiguous, InBuffer, task
<1>13. WireInv'
  BY <1>0, <1>1 DEF WireInv, Whole, Unmixed, SameOf, InOrder, task
<1>14. AllPlayed'
  BY <1>0, <1>1, <1>11 DEF AllPlayed, task
<1>15. DoneInv'
  BY <1>0, <1>1 DEF DoneInv, task
<1>16. ActiveWhilePlaying'
  BY <1>0, <1>1 DEF ActiveWhilePlaying, Reported, task
<1> QED
  BY <1>4, <1>5, <1>8, <1>9, <1>10, <1>12, <1>13, <1>14, <1>15, <1>16

LEMMA GiveUpInv ==
  ASSUME Inv, GiveUp
  PROVE  Inv'
<1> USE DEF Inv
<1>1. /\ handed \in Utterances
      /\ givenUp' = givenUp \cup {handed}
      /\ UNCHANGED <<length, handed, complete, cancels, channel, open, task>>
  BY DEF GiveUp, TypeOK, Utterances
<1>2. TypeOK'
  BY <1>1 DEF TypeOK, task
<1>3. ClientInv'
  BY <1>1 DEF ClientInv, task, Utterances
<1>4. ChannelInv'
  BY <1>1 DEF ChannelInv, WaitsWell, WaitingAudio, WaitingDone, InTurn, Reported, task
<1>5. PendingInv'
  BY <1>1 DEF PendingInv, Reported, InBuffer, Pacing, task
<1>6. BufferInv'
  BY <1>1 DEF BufferInv, Reported, task
<1>7. Orphans' /\ Contiguous'
  BY <1>1 DEF Orphans, Contiguous, InBuffer, InChannel, task
<1>8. WireInv'
  BY <1>1 DEF WireInv, Whole, Unmixed, SameOf, InOrder, task
<1>9. AllPlayed' /\ DoneInv'
  BY <1>1 DEF AllPlayed, DoneInv, InChannel, task
<1>10. ActiveWhilePlaying'
  BY <1>1 DEF ActiveWhilePlaying, Reported, task
<1> QED
  BY <1>2, <1>3, <1>4, <1>5, <1>6, <1>7, <1>8, <1>9, <1>10

LEMMA RequestCancelInv ==
  ASSUME Inv, RequestCancel
  PROVE  Inv'
<1> USE DEF Inv
<1> DEFINE c == [type |-> "Cancel"]
<1>1. /\ c \in Commands /\ c.type = "Cancel" /\ channel' = Append(channel, c)
      /\ cancels' \in 0..MaxCancels /\ cancels' # 0
      /\ UNCHANGED <<length, handed, complete, givenUp, open, task>>
      /\ open /\ running
  BY InjectorAssumption DEF RequestCancel, Enqueue, Commands, TypeOK, ChannelInv
<1> HIDE DEF c
<1>2. TypeOK'
  BY <1>1, Enqueues DEF TypeOK, task
<1>3. ClientInv'
  BY <1>1 DEF ClientInv, task
<1>4. \A i \in DOMAIN channel : WaitsWell(channel[i])'
  <2> TAKE i \in DOMAIN channel
  <2>1. WaitsWell(channel[i]) /\ channel'[i] = channel[i]
    BY <1>1, Enqueues DEF ChannelInv
  <2> QED
    BY <1>1, <2>1 DEF WaitsWell, WaitingAudio, WaitingDone, Reported, task
<1>4a. WaitsWell(c)'
  BY <1>1 DEF WaitsWell
<1>5. ChannelInv'
  <2>1. \A i \in DOMAIN channel : InTurn(channel[i], c)
    BY <1>1 DEF InTurn
  <2> QED
    BY <1>1, <1>4, <1>4a, <2>1, EnqueuedInv DEF task
<1>6. PendingInv'
  BY <1>1 DEF PendingInv, Reported, InBuffer, Pacing, task
<1>7. BufferInv'
  BY <1>1 DEF BufferInv, Reported, task
<1>8. \A v : InChannel(v)' <=> InChannel(v)
  <2>1. \A v : c # Audio(v)
    BY <1>1 DEF Audio
  <2> QED
    BY <1>1, <2>1, Enqueues
<1>9. Orphans' /\ Contiguous'
  BY <1>1, <1>8 DEF Orphans, Contiguous, InBuffer, task
<1>10. WireInv'
  BY <1>1 DEF WireInv, Whole, Unmixed, SameOf, InOrder, task
<1>11. AllPlayed' /\ DoneInv'
  BY <1>1 DEF AllPlayed, DoneInv
<1>12. ActiveWhilePlaying'
  BY <1>1 DEF ActiveWhilePlaying, Reported, task
<1> QED
  BY <1>2, <1>3, <1>5, <1>6, <1>7, <1>9, <1>10, <1>11, <1>12

LEMMA RemoveSessionInv ==
  ASSUME Inv, RemoveSession
  PROVE  Inv'
<1> USE DEF Inv
<1>1. open' = FALSE /\ UNCHANGED <<client, channel, task>>
  BY DEF RemoveSession
<1>2. TypeOK' /\ ClientInv'
  BY <1>1 DEF TypeOK, ClientInv, client, task
<1>3. ChannelInv'
  BY <1>1 DEF ChannelInv, WaitsWell, WaitingAudio, WaitingDone, InTurn, Reported, client, task
<1>4. PendingInv' /\ BufferInv' /\ Orphans' /\ Contiguous'
  BY <1>1 DEF PendingInv, BufferInv, Orphans, Contiguous, Reported, InBuffer, InChannel, Pacing, client, task
<1>5. WireInv'
  BY <1>1 DEF WireInv, Whole, Unmixed, SameOf, InOrder, client, task
<1>6. AllPlayed' /\ DoneInv' /\ ActiveWhilePlaying'
  BY <1>1 DEF AllPlayed, DoneInv, ActiveWhilePlaying, Reported, InChannel, client, task
<1> QED
  BY <1>2, <1>3, <1>4, <1>5, <1>6

-----------------------------------------------------------------------------
(* The frames the task sends.                                              *)

LEMMA BufferRuns ==
  ASSUME Inv
  PROVE  /\ pcm_buffer \in Seq(Utterances)
         /\ \A i, j \in DOMAIN pcm_buffer :
              i < j => pcm_buffer[i] <= pcm_buffer[j] /\ SameOf(pcm_buffer, i, j)
         /\ \A i \in DOMAIN wire, j \in DOMAIN pcm_buffer : wire[i] <= pcm_buffer[j]
<1> USE DEF Inv
<1>1. pcm_buffer \in Seq(Utterances) /\ \A i \in DOMAIN pcm_buffer : i \in Nat \ {0}
  BY DEF TypeOK
<1>2. ASSUME NEW i \in DOMAIN pcm_buffer, NEW j \in DOMAIN pcm_buffer, i < j
      PROVE  pcm_buffer[i] <= pcm_buffer[j] /\ SameOf(pcm_buffer, i, j)
  <2>1. /\ pcm_buffer[i] <= pcm_buffer[j]
        /\ pcm_buffer[i] \in 1..handed /\ pcm_buffer[j] \in 1..handed /\ handed \in Nat
    BY <1>1, <1>2 DEF BufferInv, TypeOK, Utterances
  <2>2. pcm_buffer[i] # pcm_buffer[j] => pcm_buffer[i] \in 1..(handed - 1)
    BY <2>1
  <2>3. pcm_buffer[i] # pcm_buffer[j] => pcm_buffer[i] \in givenUp
    BY <2>2 DEF Orphans, InBuffer
  <2> QED
    BY <2>1, <2>3 DEF SameOf
<1> QED
  BY <1>1, <1>2 DEF BufferInv

(* The first frame and what is behind it.                                  *)
LEMMA Framing ==
  ASSUME Inv, Pacing
  PROVE  /\ FirstFrame \in Seq(Utterances) /\ Len(FirstFrame) = FrameUnits
         /\ AfterFrame \in Seq(Utterances) /\ Len(AfterFrame) = Len(pcm_buffer) - FrameUnits
         /\ DOMAIN FirstFrame = 1..FrameUnits
         /\ DOMAIN AfterFrame = 1..(Len(pcm_buffer) - FrameUnits)
         /\ DOMAIN pcm_buffer = 1..Len(pcm_buffer) /\ Len(pcm_buffer) \in Nat
         /\ \A i \in DOMAIN FirstFrame :
              i \in DOMAIN pcm_buffer /\ FirstFrame[i] = pcm_buffer[i]
         /\ \A i \in DOMAIN AfterFrame :
              i + FrameUnits \in DOMAIN pcm_buffer /\ AfterFrame[i] = pcm_buffer[i + FrameUnits]
         /\ \A u : Count(FirstFrame, u) + Count(AfterFrame, u) = Count(pcm_buffer, u)
<1>1. pcm_buffer \in Seq(Utterances) /\ FrameUnits \in Nat \ {0}
      /\ Len(pcm_buffer) \in Nat /\ Len(pcm_buffer) >= FrameUnits
  BY InjectorAssumption DEF Inv, TypeOK, Pacing
<1>2. /\ FirstFrame \in Seq(Utterances) /\ Len(FirstFrame) = FrameUnits
      /\ AfterFrame \in Seq(Utterances) /\ Len(AfterFrame) = Len(pcm_buffer) - FrameUnits
      /\ DOMAIN FirstFrame = 1..FrameUnits
      /\ DOMAIN AfterFrame = 1..(Len(pcm_buffer) - FrameUnits)
      /\ DOMAIN pcm_buffer = 1..Len(pcm_buffer)
      /\ \A i \in DOMAIN FirstFrame :
           i \in DOMAIN pcm_buffer /\ FirstFrame[i] = pcm_buffer[i]
      /\ \A i \in DOMAIN AfterFrame :
           i + FrameUnits \in DOMAIN pcm_buffer /\ AfterFrame[i] = pcm_buffer[i + FrameUnits]
  BY <1>1 DEF FirstFrame, AfterFrame
<1>3. pcm_buffer = FirstFrame \o AfterFrame
  <2> DEFINE t == FirstFrame \o AfterFrame
  <2>1. /\ t \in Seq(Utterances) /\ Len(t) = Len(pcm_buffer)
        /\ \A i \in 1..Len(t) : t[i] = IF i <= FrameUnits THEN FirstFrame[i]
                                       ELSE AfterFrame[i - FrameUnits]
    BY <1>1, <1>2
  <2> HIDE DEF t
  <2>2. ASSUME NEW i \in 1..Len(pcm_buffer)
        PROVE  t[i] = pcm_buffer[i]
    <3>1. CASE i <= FrameUnits
      <4>1. i \in DOMAIN FirstFrame
        BY <1>1, <1>2, <3>1
      <4> QED
        BY <1>1, <1>2, <2>1, <3>1, <4>1
    <3>2. CASE ~(i <= FrameUnits)
      <4>1. i - FrameUnits \in DOMAIN AfterFrame
        BY <1>1, <1>2, <3>2
      <4>2. (i - FrameUnits) + FrameUnits = i
        BY <1>1
      <4>3. AfterFrame[i - FrameUnits] = pcm_buffer[i]
        BY <1>2, <4>1, <4>2
      <4>4. t[i] = AfterFrame[i - FrameUnits]
        BY <2>1, <3>2
      <4> QED
        BY <4>3, <4>4
    <3> QED
      BY <3>1, <3>2
  <2>3. t = pcm_buffer
    BY <1>1, <2>1, <2>2, SeqEqual
  <2> QED
    BY <2>3 DEF t
<1>4. \A u : Count(FirstFrame, u) + Count(AfterFrame, u) = Count(pcm_buffer, u)
  BY <1>2, <1>3, CountConcat
<1> QED
  BY <1>1, <1>2, <1>4

LEMMA FirstFrameSent ==
  ASSUME Inv, Pacing
  PROVE  /\ Whole(wire \o FirstFrame)
         /\ DOMAIN (wire \o FirstFrame) = 1..(Len(wire) + FrameUnits)
         /\ \A i \in DOMAIN (wire \o FirstFrame) :
              \/ \E k \in DOMAIN wire : (wire \o FirstFrame)[i] = wire[k]
              \/ \E k \in DOMAIN FirstFrame : (wire \o FirstFrame)[i] = FirstFrame[k]
         /\ \A u : Count(wire \o FirstFrame, u) = Count(wire, u) + Count(FirstFrame, u)
<1>1. /\ FirstFrame \in Seq(Utterances) /\ Len(FirstFrame) = FrameUnits
      /\ DOMAIN FirstFrame = 1..FrameUnits /\ FrameUnits \in Nat \ {0}
      /\ \A i \in DOMAIN FirstFrame :
           i \in DOMAIN pcm_buffer /\ FirstFrame[i] = pcm_buffer[i]
  BY Framing, InjectorAssumption
<1>2. FirstFrame \in Seq(Sent)
  BY <1>1, SeqMonotonic DEF Sent
<1>3. Frame(FirstFrame)
  BY <1>1, <1>2, BufferRuns DEF Frame, InOrder, SameOf
<1>4. wire \in Seq(Sent) /\ Whole(wire)
  BY DEF Inv, WireInv, Whole
<1>5. Whole(wire \o FirstFrame)
  BY <1>1, <1>3, <1>4, BufferRuns, FrameAppended
<1>6. \A u : Count(wire \o FirstFrame, u) = Count(wire, u) + Count(FirstFrame, u)
  BY <1>2, <1>4, CountConcat
<1>7. /\ DOMAIN (wire \o FirstFrame) = 1..(Len(wire) + FrameUnits)
      /\ DOMAIN wire = 1..Len(wire) /\ Len(wire) \in Nat
      /\ \A i \in 1..(Len(wire) + FrameUnits) :
           (wire \o FirstFrame)[i] = IF i <= Len(wire) THEN wire[i]
                                     ELSE FirstFrame[i - Len(wire)]
  BY <1>1, <1>2, <1>4
<1>8. ASSUME NEW i \in 1..(Len(wire) + FrameUnits)
      PROVE  \/ \E k \in DOMAIN wire : (wire \o FirstFrame)[i] = wire[k]
             \/ \E k \in DOMAIN FirstFrame : (wire \o FirstFrame)[i] = FirstFrame[k]
  <2>1. CASE i <= Len(wire)
    BY <1>7, <1>8, <2>1
  <2>2. CASE ~(i <= Len(wire))
    <3>1. i - Len(wire) \in DOMAIN FirstFrame
      BY <1>1, <1>7, <1>8, <2>2
    <3> QED
      BY <1>7, <1>8, <2>2, <3>1
  <2> QED
    BY <2>1, <2>2
<1> QED
  BY <1>5, <1>6, <1>7, <1>8

(* The last frame of an utterance is filled up.                            *)
LEMMA LastFrameSent ==
  ASSUME NEW w, Whole(w), NEW rest \in Seq(Utterances), Len(rest) < FrameUnits,
         \A i, j \in DOMAIN rest : i < j => rest[i] <= rest[j] /\ SameOf(rest, i, j),
         \A i \in DOMAIN w, j \in DOMAIN rest : w[i] <= rest[j]
  PROVE  /\ Whole(Flushed(w, rest))
         /\ \A i \in DOMAIN Flushed(w, rest) :
              \/ Flushed(w, rest)[i] = Padding
              \/ \E k \in DOMAIN w : Flushed(w, rest)[i] = w[k]
              \/ \E k \in DOMAIN rest : Flushed(w, rest)[i] = rest[k]
         /\ \A u \in Utterances : Count(Flushed(w, rest), u) = Count(w, u) + Count(rest, u)
<1>1. CASE rest = <<>>
  <2>1. Flushed(w, rest) = w
    BY <1>1 DEF Flushed
  <2>2. ASSUME NEW u
        PROVE  Count(rest, u) = 0
    <3>1. DOMAIN rest = {}
      BY <1>1
    <3> QED
      BY <3>1, CountType
  <2>3. \A u : Count(w, u) \in Nat
    BY CountType DEF Whole
  <2> QED
    BY <2>1, <2>2, <2>3
<1>2. CASE rest # <<>>
  <2> DEFINE n == Len(rest)
             pad == [i \in 1..(FrameUnits - n) |-> Padding]
             f == rest \o pad
  <2>1. /\ FrameUnits \in Nat \ {0} /\ n \in Nat /\ n < FrameUnits
        /\ DOMAIN rest = 1..n /\ w \in Seq(Sent)
    BY InjectorAssumption DEF Whole
  <2>2. pad \in Seq(Sent) /\ Len(pad) = FrameUnits - n /\ rest \in Seq(Sent)
    BY <2>1, SeqMonotonic DEF Sent
  <2>3. /\ f \in Seq(Sent) /\ Len(f) = FrameUnits /\ DOMAIN f = 1..FrameUnits
        /\ \A i \in DOMAIN f : \/ i \in DOMAIN rest /\ f[i] = rest[i]
                               \/ i > n /\ f[i] = Padding
    <3>1. \A i \in 1..(FrameUnits - n) : pad[i] = Padding
      OBVIOUS
    <3>2. DOMAIN pad = 1..(FrameUnits - n)
      OBVIOUS
    <3> HIDE DEF pad
    <3>3. /\ f \in Seq(Sent) /\ Len(f) = FrameUnits
          /\ \A i \in 1..FrameUnits : f[i] = IF i <= n THEN rest[i] ELSE pad[i - n]
      BY <2>1, <2>2, ConcatProperties
    <3>4. DOMAIN f = 1..FrameUnits
      BY <3>3
    <3> HIDE DEF f
    <3>5. ASSUME NEW i \in 1..FrameUnits
          PROVE  \/ i \in DOMAIN rest /\ f[i] = rest[i]
                 \/ i > n /\ f[i] = Padding
      <4>1. CASE i <= n
        BY <2>1, <3>3, <4>1
      <4>2. CASE ~(i <= n)
        <5>1. i - n \in 1..(FrameUnits - n)
          BY <2>1, <4>2
        <5> QED
          <6>1. f[i] = pad[i - n] /\ i > n
            BY <2>1, <3>3, <4>2
          <6>2. pad[i - n] = Padding
            BY <3>1, <5>1
          <6> QED
            BY <6>1, <6>2
      <4> QED
        BY <4>1, <4>2
    <3> QED
      BY <3>3, <3>4, <3>5
  <2>4. Flushed(w, rest) = w \o f
    <3>1. Flushed(w, rest) = (w \o rest) \o pad
      BY <1>2 DEF Flushed
    <3> HIDE DEF pad
    <3>2. w \in Seq(Sent) /\ rest \in Seq(Sent) /\ pad \in Seq(Sent)
      BY <2>1, <2>2
    <3>3. (w \o rest) \o pad = w \o (rest \o pad)
      BY <3>2, ConcatAssociative
    <3> QED
      BY <3>1, <3>3
  <2>5. Frame(f)
    <3> HIDE DEF f, n
    <3> QED
      <4>1. ASSUME NEW i \in DOMAIN f, NEW j \in DOMAIN f, i < j
            PROVE  (f[j] # Padding => f[i] <= f[j]) /\ SameOf(f, i, j)
        <5>1. CASE f[j] = Padding
          BY <5>1 DEF SameOf
        <5>2. CASE f[j] # Padding
          <6>1. j \in DOMAIN rest /\ f[j] = rest[j]
            BY <2>3, <4>1, <5>2
          <6>2. i \in DOMAIN rest
            BY <2>1, <2>3, <4>1, <6>1
          <6>3. f[i] = rest[i]
            BY <2>1, <2>3, <4>1, <6>2
          <6> QED
            BY <4>1, <6>1, <6>2, <6>3 DEF SameOf
        <5> QED
          BY <5>1, <5>2
      <4> QED
        BY <2>3, <4>1 DEF Frame, InOrder
  <2>6. \A i \in DOMAIN w, j \in DOMAIN f : f[j] # Padding => w[i] <= f[j]
    BY <2>3
  <2>7. Whole(w \o f)
    <3> HIDE DEF f
    <3> QED
      BY <2>5, <2>6, FrameAppended
  <2>8. ASSUME NEW u \in Utterances
        PROVE  Count(w \o f, u) = Count(w, u) + Count(rest, u)
    <3>1. Count(w \o f, u) = Count(w, u) + Count(f, u)
      <4> HIDE DEF f
      <4> QED
        BY <2>1, <2>3, CountConcat
    <3>2. Count(f, u) = Count(rest, u) + Count(pad, u)
      <4> HIDE DEF pad
      <4> QED
        BY <2>2, CountConcat
    <3>3. Count(pad, u) = 0
      <4>1. \A i \in DOMAIN pad : pad[i] # u
        BY DEF Utterances, Padding
      <4> HIDE DEF pad
      <4> QED
        BY <2>2, <4>1, CountType
    <3>4. Count(rest, u) \in Nat
      BY <2>2, CountType
    <3> QED
      BY <3>1, <3>2, <3>3, <3>4
  <2>9. ASSUME NEW i \in DOMAIN (w \o f)
        PROVE  \/ (w \o f)[i] = Padding
               \/ \E k \in DOMAIN w : (w \o f)[i] = w[k]
               \/ \E k \in DOMAIN rest : (w \o f)[i] = rest[k]
    <3> HIDE DEF f, n
    <3>1. /\ Len(w) \in Nat /\ DOMAIN w = 1..Len(w) /\ i \in 1..(Len(w) + FrameUnits)
          /\ (w \o f)[i] = IF i <= Len(w) THEN w[i] ELSE f[i - Len(w)]
      BY <2>1, <2>3, <2>9
    <3>2. CASE i <= Len(w)
      BY <3>1, <3>2
    <3>3. CASE ~(i <= Len(w))
      <4>1. i - Len(w) \in DOMAIN f
        BY <2>1, <2>3, <3>1, <3>3
      <4> QED
        BY <2>3, <3>1, <3>3, <4>1
    <3> QED
      BY <3>2, <3>3
  <2> QED
    BY <2>4, <2>7, <2>8, <2>9
<1> QED
  BY <1>1, <1>2

-----------------------------------------------------------------------------
(* The task keeps the invariant.                                           *)

(* The channel after the head was taken, if what waits there waits well.   *)
LEMMA TakenInv ==
  ASSUME TypeOK, ChannelInv, NEW type, Receive(type),
         \A d \in Commands : WaitsWell(d) /\ InTurn(Head(channel), d) => WaitsWell(d)'
  PROVE  ChannelInv'
<1>1. ASSUME NEW i \in DOMAIN channel'
      PROVE  WaitsWell(channel[i])'
  <2>1. PICK k \in DOMAIN channel : channel'[i] = channel[k] /\ InTurn(Head(channel), channel[k])
    BY <1>1, Takes
  <2>2. PICK d \in Commands : d = channel[k]
    BY DEF TypeOK
  <2>3. WaitsWell(d)' /\ channel'[i] = d
    BY <2>1, <2>2 DEF ChannelInv
  <2> QED
    BY <2>3 DEF WaitsWell
<1>2. \A i, j \in DOMAIN channel' : i < j => InTurn(channel[i], channel[j])'
  BY Takes DEF InTurn
<1> QED
  BY <1>1, <1>2 DEF ChannelInv, Receive

LEMMA TakeAudioInv ==
  ASSUME Inv, TakeAudio
  PROVE  Inv'
<1> USE DEF Inv
<1>0. PICK u \in Utterances : Head(channel) = Audio(u)
  BY Takes, CommandIs DEF TakeAudio, Audio
<1>0a. Head(channel).utterance = u
  BY <1>0 DEF Audio
<1>1. /\ Receive("Audio") /\ running
      /\ pcm_buffer' = pcm_buffer \o Units(u)
      /\ tts_active' = (tts_active \/ ~Pacing)
      /\ UNCHANGED <<client, open, running>>
      /\ UNCHANGED <<current_utterance_id, pending_done, wire, events>>
  BY <1>0a DEF TakeAudio, Receive
<1>2. WaitingAudio(u) /\ channel' \in Seq(Commands)
  BY <1>0, <1>1, Takes DEF WaitsWell, Audio
<1>3. /\ pcm_buffer' \in Seq(Utterances) /\ pcm_buffer' # <<>>
      /\ Len(pcm_buffer') = Len(pcm_buffer) + length[u] /\ Len(pcm_buffer) \in Nat
      /\ DOMAIN pcm_buffer = 1..Len(pcm_buffer)
      /\ DOMAIN pcm_buffer' = 1..(Len(pcm_buffer) + length[u])
      /\ length[u] \in Nat \ {0}
      /\ \A i \in DOMAIN pcm_buffer : pcm_buffer'[i] = pcm_buffer[i] /\ i \in DOMAIN pcm_buffer'
      /\ \A i \in DOMAIN pcm_buffer' : i \notin DOMAIN pcm_buffer => pcm_buffer'[i] = u
  <2> DEFINE t == Units(u)
  <2>1. /\ t \in Seq(Utterances) /\ Len(t) = length[u] /\ length[u] \in Nat \ {0}
        /\ \A i \in DOMAIN t : t[i] = u
    BY UnitsOf
  <2>2. pcm_buffer' = pcm_buffer \o t
    BY <1>1
  <2> HIDE DEF t
  <2>3. /\ pcm_buffer' \in Seq(Utterances) /\ Len(pcm_buffer') = Len(pcm_buffer) + Len(t)
        /\ Len(pcm_buffer) \in Nat /\ DOMAIN pcm_buffer = 1..Len(pcm_buffer)
        /\ \A i \in 1..(Len(pcm_buffer) + Len(t)) :
             pcm_buffer'[i] = IF i <= Len(pcm_buffer) THEN pcm_buffer[i]
                              ELSE t[i - Len(pcm_buffer)]
    <3>1. /\ pcm_buffer \in Seq(Utterances) /\ Len(pcm_buffer) \in Nat
          /\ DOMAIN pcm_buffer = 1..Len(pcm_buffer)
      BY DEF TypeOK
    <3>2. /\ pcm_buffer \o t \in Seq(Utterances)
          /\ Len(pcm_buffer \o t) = Len(pcm_buffer) + Len(t)
          /\ \A i \in 1..(Len(pcm_buffer) + Len(t)) :
               (pcm_buffer \o t)[i] = IF i <= Len(pcm_buffer) THEN pcm_buffer[i]
                                      ELSE t[i - Len(pcm_buffer)]
      BY <2>1, <3>1, ConcatProperties
    <3> QED
      BY <2>2, <3>1, <3>2
  <2>4. DOMAIN pcm_buffer' = 1..(Len(pcm_buffer) + length[u]) /\ pcm_buffer' # <<>>
    BY <2>1, <2>3
  <2>5. ASSUME NEW i \in DOMAIN pcm_buffer', i \notin DOMAIN pcm_buffer
        PROVE  pcm_buffer'[i] = u
    <3>1. i - Len(pcm_buffer) \in DOMAIN t
      BY <2>1, <2>3, <2>4, <2>5
    <3> QED
      BY <2>1, <2>3, <2>4, <2>5, <3>1
  <2> QED
    BY <2>1, <2>3, <2>4, <2>5
<1>4. /\ Count(pcm_buffer', u) = Count(pcm_buffer, u) + length[u]
      /\ \A v \in Utterances \ {u} : Count(pcm_buffer', v) = Count(pcm_buffer, v)
  <2>1. \A v : Count(pcm_buffer', v) = Count(pcm_buffer, v) + Count(Units(u), v)
    BY <1>1, UnitsOf, CountConcat DEF TypeOK
  <2>2. \A v \in Utterances \ {u} : Count(Units(u), v) = 0
    BY UnitsOf, CountType
  <2>3. \A v : Count(pcm_buffer, v) \in Nat
    BY CountType DEF TypeOK
  <2> QED
    BY <2>1, <2>2, <2>3, UnitsOf
<1>5. Count(pcm_buffer, u) = 0 /\ Count(wire, u) = 0
  <2>1. \A j \in DOMAIN pcm_buffer : pcm_buffer[j] # u
    BY <1>2 DEF WaitingAudio, TypeOK, Utterances
  <2>2. \A j \in DOMAIN wire : wire[j] # u
    BY <1>2 DEF WaitingAudio, TypeOK, Utterances, Padding
  <2> QED
    BY <2>1, <2>2, CountType DEF TypeOK
<1>6. \A v : InBuffer(v)' <=> InBuffer(v) \/ v = u
  <2>1. Len(pcm_buffer) + 1 \in DOMAIN pcm_buffer' /\ Len(pcm_buffer) + 1 \notin DOMAIN pcm_buffer
    BY <1>3
  <2> QED
    BY <1>3, <2>1 DEF InBuffer
<1>7. \A v : InChannel(v) <=> InChannel(v)' \/ v = u
  BY <1>0, <1>1, Takes DEF Audio
<1>8. TypeOK'
  BY <1>1, <1>2, <1>3 DEF TypeOK, client
<1>9. ClientInv'
  BY <1>1 DEF ClientInv, client
<1>10. ChannelInv'
  <2>1. SUFFICES ASSUME NEW d \in Commands, WaitsWell(d), InTurn(Audio(u), d)
                 PROVE  WaitsWell(d)'
    BY <1>0, <1>1, TakenInv
  <2>2. CASE d.type = "Audio"
    <3>1. u < d.utterance /\ WaitingAudio(d.utterance)
      BY <2>1, <2>2 DEF InTurn, WaitsWell, Audio
    <3>2. \A j \in DOMAIN pcm_buffer' : pcm_buffer'[j] < d.utterance
      BY <1>3, <3>1 DEF WaitingAudio
    <3> QED
      BY <1>1, <2>2, <3>1, <3>2 DEF WaitsWell, WaitingAudio, Reported, client
  <2>3. CASE d.type # "Audio"
    BY <1>1, <2>1, <2>3 DEF WaitsWell, WaitingDone, Reported, client
  <2> QED
    BY <2>2, <2>3
<1>11. PendingInv'
  <2>1. Pacing => Pacing'
    BY <1>3, InjectorAssumption DEF Pacing
  <2> QED
    BY <1>1, <1>6, <2>1 DEF PendingInv, Reported, client
<1>12. BufferInv'
  <2>1. SUFFICES ASSUME NEW i \in DOMAIN pcm_buffer'
                 PROVE  LET v == pcm_buffer'[i] IN
                        /\ v \in 1..handed /\ ~Reported(v)
                        /\ Count(wire, v) + Count(pcm_buffer', v) = length[v]
                        /\ \A j \in 1..i : pcm_buffer'[j] <= v
                        /\ \A j \in DOMAIN wire : wire[j] <= v
    BY <1>1 DEF BufferInv, Reported, client
  <2>2. CASE i \in DOMAIN pcm_buffer
    <3> DEFINE v == pcm_buffer[i]
    <3>1. /\ pcm_buffer'[i] = v /\ v \in Utterances \ {u}
          /\ v \in 1..handed /\ ~Reported(v)
          /\ Count(wire, v) + Count(pcm_buffer, v) = length[v]
          /\ \A j \in 1..i : pcm_buffer[j] <= v
          /\ \A j \in DOMAIN wire : wire[j] <= v
      <4>1. v \in Utterances /\ v < u /\ pcm_buffer'[i] = v
        BY <1>2, <1>3, <2>2 DEF WaitingAudio, TypeOK
      <4>2. u \in Nat
        BY DEF Utterances
      <4> QED
        BY <2>2, <4>1, <4>2 DEF BufferInv, Utterances
    <3>2. \A j \in 1..i : pcm_buffer'[j] = pcm_buffer[j]
      BY <1>3, <2>2
    <3> HIDE DEF v
    <3> QED
      BY <1>4, <3>1, <3>2
  <2>3. CASE i \notin DOMAIN pcm_buffer
    <3>1. pcm_buffer'[i] = u
      BY <1>3, <2>3
    <3>2. Count(wire, u) + Count(pcm_buffer', u) = length[u]
      BY <1>3, <1>4, <1>5
    <3>3. \A j \in DOMAIN pcm_buffer' : pcm_buffer'[j] <= u
      <4>1. u \in Nat /\ \A j \in DOMAIN pcm_buffer : pcm_buffer[j] \in Nat /\ pcm_buffer[j] < u
        <5>1. \A j \in DOMAIN pcm_buffer : pcm_buffer[j] \in Utterances
          BY DEF TypeOK
        <5> QED
          BY <1>2, <5>1 DEF WaitingAudio, Utterances
      <4> QED
        BY <1>3, <4>1
    <3>4. \A j \in 1..i : j \in DOMAIN pcm_buffer'
      BY <1>3
    <3>5. \A j \in DOMAIN wire : wire[j] <= u
      <4>1. \A j \in DOMAIN wire : wire[j] \in Nat
        BY DEF TypeOK, Utterances, Padding
      <4>2. u \in Nat /\ \A j \in DOMAIN wire : wire[j] < u
        BY <1>2 DEF WaitingAudio, Utterances
      <4> QED
        BY <4>1, <4>2
    <3> QED
      BY <1>2, <3>1, <3>2, <3>3, <3>4, <3>5 DEF WaitingAudio
  <2> QED
    BY <2>2, <2>3
<1>13. Orphans' /\ Contiguous'
  BY <1>1, <1>6, <1>7 DEF Orphans, Contiguous, client
<1>14. WireInv'
  BY <1>1 DEF WireInv, Whole, Unmixed, SameOf, InOrder, client
<1>15. AllPlayed'
  <2>1. SUFFICES ASSUME cancels = 0, NEW v \in 1..handed, ~InChannel(v)'
                 PROVE  Count(wire, v) + Count(pcm_buffer', v) = length[v]
    BY <1>1 DEF AllPlayed, client
  <2>2. CASE v = u
    BY <1>3, <1>4, <1>5, <2>2
  <2>3. CASE v # u
    <3>1. v \in Utterances \ {u} /\ ~InChannel(v)
      BY <1>7, <2>1, <2>3, InjectorAssumption DEF TypeOK, Utterances
    <3> QED
      BY <1>1, <1>4, <2>1, <3>1 DEF AllPlayed
  <2> QED
    BY <2>2, <2>3
<1>16. DoneInv'
  BY <1>1 DEF DoneInv, client
<1>17. ActiveWhilePlaying'
  <2>1. Pacing => tts_active
    BY <1>1, InjectorAssumption DEF Pacing, ActiveWhilePlaying, TypeOK
  <2>2. u \in 1..handed /\ handed \in 1..handed /\ InChannel(u)
    BY <1>2, <1>7 DEF WaitingAudio, TypeOK
  <2>3. InBuffer(handed) \/ InChannel(handed)
    <3>1. u = handed \/ u < handed
      BY <2>2 DEF TypeOK
    <3> QED
      BY <2>2, <3>1 DEF Contiguous
  <2>4. ~Reported(handed)
    <3>1. InBuffer(handed) => ~Reported(handed)
      BY DEF InBuffer, BufferInv
    <3>2. InChannel(handed) => ~Reported(handed)
      BY AudioInChannel DEF ChannelInv, WaitsWell, WaitingAudio
    <3> QED
      BY <2>3, <3>1, <3>2
  <2> QED
    <3>1. handed # 0
      BY <2>2
    <3>2. tts_active' /\ handed' = handed /\ events' = events
      BY <1>1, <2>1 DEF client
    <3> QED
      BY <2>4, <3>1, <3>2 DEF ActiveWhilePlaying, Reported
<1> QED
  BY <1>8, <1>9, <1>10, <1>11, <1>12, <1>13, <1>14, <1>15, <1>16, <1>17

(* Behind a "done" wait only later utterances.                             *)
LEMMA TakesDone ==
  ASSUME Inv, Receive("Done")
  PROVE  LET u == Head(channel).utterance IN
         /\ Head(channel) = Done(u) /\ WaitingDone(u)
         /\ u \in Utterances /\ u \in 1..handed /\ ~InChannel(u)
         /\ \A v : InChannel(v)' <=> InChannel(v)
         /\ \A d \in Commands :
              InTurn(Head(channel), d) => d.type = "Cancel" \/ u < d.utterance
<1> USE DEF Inv
<1>0. PICK u : u = Head(channel).utterance
  OBVIOUS
<1>1. /\ Head(channel) \in Commands /\ Head(channel).type = "Done" /\ WaitsWell(Head(channel))
      /\ channel' \in Seq(Commands)
  BY Takes
<1>2. Head(channel) = Done(u) /\ WaitingDone(u) /\ u \in Utterances
  BY <1>0, <1>1, CommandIs DEF WaitsWell, Done
<1>3. u \in 1..handed
  BY <1>2 DEF WaitingDone, ClientInv
<1>4. \A d : InTurn(Head(channel), d) => d.type = "Cancel" \/ u < d.utterance
  BY <1>0, <1>1 DEF InTurn
<1>5. ASSUME NEW v
      PROVE  InChannel(v)' <=> InChannel(v)
  <2>1. Head(channel) # Audio(v)
    BY <1>1 DEF Audio
  <2> QED
    BY <2>1, Takes
<1>6. ~InChannel(u)
  <2>1. SUFFICES ASSUME InChannel(u)' PROVE FALSE
    BY <1>5
  <2>2. PICK i \in DOMAIN channel' : channel'[i] = Audio(u)
    BY <2>1 DEF InChannel, Audio
  <2>3. InTurn(Head(channel), Audio(u))
    BY <2>2, Takes
  <2>4. u < Audio(u).utterance \/ Audio(u).type = "Cancel"
    BY <1>4, <2>3
  <2> QED
    BY <1>2, <2>4 DEF Audio, Utterances
<1> QED
  BY <1>0, <1>2, <1>3, <1>4, <1>5, <1>6

LEMMA TakeDonePacingInv ==
  ASSUME Inv, TakeDone, Pacing
  PROVE  Inv'
<1> USE DEF Inv
<1>0. Receive("Done")
  BY DEF TakeDone
<1>1. PICK u : u = Head(channel).utterance
  OBVIOUS
<1>2. /\ running
      /\ current_utterance_id' = u /\ pending_done' = u
      /\ UNCHANGED <<client, open, running, pcm_buffer, tts_active, wire, events>>
      /\ channel' \in Seq(Commands)
  BY <1>0, <1>1, Takes DEF TakeDone, Receive
<1>3. /\ WaitingDone(u) /\ u \in Utterances /\ u \in 1..handed /\ ~InChannel(u)
      /\ \A v : InChannel(v)' <=> InChannel(v)
      /\ \A d \in Commands : InTurn(Head(channel), d) => d.type = "Cancel" \/ u < d.utterance
  BY <1>0, <1>1, TakesDone
<1>4. TypeOK' /\ ClientInv'
  BY <1>2, <1>3 DEF TypeOK, ClientInv, WaitingDone, client
<1>5. ChannelInv'
  <2>1. SUFFICES ASSUME NEW d \in Commands, WaitsWell(d), d.type = "Cancel" \/ u < d.utterance
                 PROVE  WaitsWell(d)'
    BY <1>0, <1>3, TakenInv
  <2>2. d.type # "Cancel" => d.utterance # u
    BY <1>3, <2>1 DEF Utterances
  <2> QED
    BY <1>2, <2>1, <2>2 DEF WaitsWell, WaitingAudio, WaitingDone, Reported, client
<1>6. u \notin givenUp => u = handed /\ InBuffer(u)
  <2>1. SUFFICES ASSUME u \notin givenUp
                 PROVE  u = handed /\ InBuffer(u)
    OBVIOUS
  <2>2. u = handed
    BY <1>3, <2>1 DEF WaitingDone
  <2>3. 1 \in DOMAIN pcm_buffer
    BY InjectorAssumption DEF Pacing, TypeOK
  <2>4. pcm_buffer[1] \in 1..handed /\ InBuffer(pcm_buffer[1])
    BY <2>3 DEF BufferInv, InBuffer
  <2>5. pcm_buffer[1] = handed \/ pcm_buffer[1] < handed
    BY <2>4 DEF TypeOK
  <2> QED
    BY <1>3, <2>2, <2>4, <2>5 DEF Contiguous
<1>7. PendingInv'
  BY <1>2, <1>3, <1>6
     DEF PendingInv, WaitingDone, Reported, InBuffer, Pacing, client, Utterances, None
<1>8. BufferInv'
  BY <1>2 DEF BufferInv, Reported, client
<1>9. Orphans' /\ Contiguous'
  BY <1>2, <1>3 DEF Orphans, Contiguous, InBuffer, client
<1>10. WireInv'
  BY <1>2 DEF WireInv, Whole, Unmixed, SameOf, InOrder, client
<1>11. AllPlayed' /\ DoneInv'
  BY <1>2, <1>3 DEF AllPlayed, DoneInv, client
<1>12. ActiveWhilePlaying'
  BY <1>2 DEF ActiveWhilePlaying, Reported, client
<1> QED
  BY <1>4, <1>5, <1>7, <1>8, <1>9, <1>10, <1>11, <1>12

(* A report is made, and the buffer is empty: what waited before it waits   *)
(* no less well.                                                           *)
LEMMA ReportedInv ==
  ASSUME Inv, NEW d \in Commands, WaitsWell(d), NEW u,
         d.type = "Cancel" \/ d.utterance # u,
         pcm_buffer' = <<>>, current_utterance_id' = u, UNCHANGED client,
         events' = events \cup {[type |-> "tts_playback_done", utterance |-> u]},
         \A i \in DOMAIN wire' :
           \/ wire'[i] = Padding
           \/ \E k \in DOMAIN wire : wire'[i] = wire[k]
           \/ \E k \in DOMAIN pcm_buffer : wire'[i] = pcm_buffer[k]
  PROVE  WaitsWell(d)'
<1>1. CASE d.type = "Audio"
  <2>1. WaitingAudio(d.utterance) /\ d.utterance # u
    BY <1>1 DEF WaitsWell
  <2>2. \A j \in DOMAIN wire' : wire'[j] < d.utterance
    BY <2>1 DEF WaitingAudio, Padding
  <2>3. \A j \in DOMAIN pcm_buffer' : pcm_buffer'[j] < d.utterance
    BY EmptySeq
  <2>4. ~Reported(d.utterance)'
    BY <2>1 DEF WaitingAudio, Reported
  <2> QED
    BY <1>1, <2>1, <2>2, <2>3, <2>4 DEF WaitsWell, WaitingAudio, client
<1>2. CASE d.type = "Done"
  BY <1>2 DEF WaitsWell, WaitingDone, Reported, client
<1>3. CASE d.type = "Cancel"
  BY <1>3 DEF WaitsWell, client
<1> QED
  BY <1>1, <1>2, <1>3, CommandIs

(* Behind audio in the channel all audio is in the channel.                *)
LEMMA ChannelContiguous ==
  ASSUME Inv, NEW v \in 1..handed, NEW w \in 1..handed, v < w, InChannel(v)
  PROVE  InChannel(w)
<1>1. InBuffer(w) \/ InChannel(w)
  BY DEF Inv, Contiguous
<1>2. WaitingAudio(v)
  BY AudioInChannel DEF Inv, ChannelInv, WaitsWell
<1>3. ~InBuffer(w)
  BY <1>2 DEF InBuffer, WaitingAudio
<1> QED
  BY <1>1, <1>3

LEMMA TakeDoneReportsInv ==
  ASSUME Inv, TakeDone, ~Pacing
  PROVE  Inv'
<1> USE DEF Inv
<1>0. Receive("Done")
  BY DEF TakeDone
<1>0a. PICK u : u = Head(channel).utterance
  OBVIOUS
<1>1. /\ running
      /\ current_utterance_id' = u /\ wire' = Flushed(wire, pcm_buffer)
      /\ pcm_buffer' = <<>> /\ tts_active' = FALSE
      /\ events' = events \cup {[type |-> "tts_playback_done", utterance |-> u]}
      /\ UNCHANGED <<client, open, running, pending_done>>
      /\ channel' \in Seq(Commands)
  BY <1>0, <1>0a, Takes DEF TakeDone, Receive, Broadcast
<1>2. /\ WaitingDone(u) /\ u \in Utterances /\ u \in 1..handed /\ ~InChannel(u)
      /\ handed \in Nat /\ \A v : InChannel(v)' <=> InChannel(v)
      /\ \A d \in Commands : InTurn(Head(channel), d) => d.type = "Cancel" \/ u < d.utterance
  BY <1>0, <1>0a, TakesDone DEF TypeOK
<1>3. /\ Whole(Flushed(wire, pcm_buffer))
      /\ \A i \in DOMAIN Flushed(wire, pcm_buffer) :
           \/ Flushed(wire, pcm_buffer)[i] = Padding
           \/ \E k \in DOMAIN wire : Flushed(wire, pcm_buffer)[i] = wire[k]
           \/ \E k \in DOMAIN pcm_buffer : Flushed(wire, pcm_buffer)[i] = pcm_buffer[k]
      /\ \A v \in Utterances :
           Count(Flushed(wire, pcm_buffer), v) = Count(wire, v) + Count(pcm_buffer, v)
  <2>1. Len(pcm_buffer) < FrameUnits
    BY InjectorAssumption DEF Pacing, TypeOK
  <2> QED
    BY <2>1, BufferRuns, LastFrameSent DEF WireInv
<1>4. WireInv'
  <2>1. Whole(wire)'
    BY <1>1, <1>3 DEF Whole, Unmixed, SameOf, InOrder, client
  <2>2. \A k \in DOMAIN pcm_buffer : pcm_buffer[k] <= handed
    BY DEF BufferInv, TypeOK
  <2>3. \A i \in DOMAIN wire' : wire'[i] <= handed
    BY <1>1, <1>2, <1>3, <2>2 DEF WireInv, Padding
  <2> QED
    BY <1>1, <2>1, <2>3 DEF WireInv, client
<1>5. TypeOK'
  <2>1. events' \subseteq [type : EventTypes, utterance : Utterances \cup {None}]
    BY <1>1, <1>2 DEF TypeOK, EventTypes
  <2> QED
    BY <1>1, <1>2, <1>4, <2>1, EmptySeq DEF TypeOK, WireInv, Whole, Sent, client
<1>6. ClientInv'
  BY <1>1, <1>2 DEF ClientInv, WaitingDone, client
<1>7. ChannelInv'
  <2>1. SUFFICES ASSUME NEW d \in Commands, WaitsWell(d), d.type = "Cancel" \/ u < d.utterance
                 PROVE  WaitsWell(d)'
    BY <1>0, <1>2, TakenInv
  <2>2. d.type = "Cancel" \/ d.utterance # u
    BY <1>2, <2>1 DEF Utterances
  <2> QED
    BY <1>1, <1>3, <2>1, <2>2, ReportedInv
<1>8. \A v : ~InBuffer(v)'
  BY <1>1 DEF InBuffer
<1>9. PendingInv'
  <2>1. pending_done = None
    BY <1>1 DEF PendingInv
  <2> QED
    <3>1. \E e \in events' : e.utterance = u
      <4>1. [type |-> "tts_playback_done", utterance |-> u] \in events'
        BY <1>1
      <4> QED
        BY <4>1
    <3> QED
      BY <1>1, <2>1, <3>1 DEF PendingInv, Reported
<1>10. BufferInv' /\ Orphans' /\ Contiguous'
  <2>1. BufferInv' /\ Orphans'
    BY <1>1, <1>2, <1>8 DEF BufferInv, Orphans, client
  <2>2. Contiguous'
    BY <1>1, <1>2, <1>8, ChannelContiguous DEF Contiguous, client
  <2> QED
    BY <2>1, <2>2
<1>11. \A v \in Utterances : Count(wire', v) = Count(wire, v) + Count(pcm_buffer, v)
  BY <1>1, <1>3
<1>12. AllPlayed'
  <2>1. SUFFICES ASSUME cancels = 0, NEW v \in 1..handed, ~InChannel(v)
                 PROVE  Count(wire', v) + Count(pcm_buffer', v) = length[v]
    BY <1>1, <1>2 DEF AllPlayed, client
  <2>2. Count(pcm_buffer', v) = 0
    <3>1. <<>> \in Seq(Utterances) /\ DOMAIN <<>> = {}
      BY EmptySeq
    <3> QED
      BY <1>1, <3>1, CountType
  <2>3. v \in Utterances /\ Count(wire, v) + Count(pcm_buffer, v) = length[v]
    <3>1. v \in Utterances
      BY <2>1, InjectorAssumption DEF TypeOK, Utterances
    <3>2. running /\ ~InChannel(v)
      BY <1>1, <2>1
    <3> QED
      BY <2>1, <3>1, <3>2 DEF AllPlayed
  <2>4. length[v] \in Nat
    BY <2>3, UnitsOf
  <2> QED
    BY <1>11, <2>2, <2>3, <2>4
<1>13. DoneInv'
  <2>1. SUFFICES ASSUME cancels = 0, NEW v \in Utterances,
                        [type |-> "tts_playback_done", utterance |-> v] \in events'
                 PROVE  Count(wire', v) = length[v]
    BY <1>1 DEF DoneInv, client
  <2>2. CASE v = u
    BY <1>1, <1>2, <1>11, <2>1, <2>2 DEF AllPlayed
  <2>3. CASE v # u
    <3>1. [type |-> "tts_playback_done", utterance |-> v] \in events
      BY <1>1, <2>1, <2>3
    <3>2. Reported(v)
      BY <3>1 DEF Reported
    <3>3. Count(pcm_buffer, v) = 0
      BY <3>2, CountType DEF BufferInv, TypeOK
    <3>4. Count(wire, v) = length[v] /\ length[v] \in Nat
      BY <2>1, <3>1, UnitsOf DEF DoneInv
    <3> QED
      BY <1>11, <3>3, <3>4
  <2> QED
    BY <2>2, <2>3
<1>14. ActiveWhilePlaying'
  BY <1>1 DEF ActiveWhilePlaying
<1> QED
  BY <1>4, <1>5, <1>6, <1>7, <1>9, <1>10, <1>12, <1>13, <1>14

LEMMA TakeCancelInv ==
  ASSUME Inv, TakeCancel
  PROVE  Inv'
<1> USE DEF Inv
<1>0. Receive("Cancel")
  BY DEF TakeCancel
<1>1. /\ running
      /\ pcm_buffer' = <<>> /\ pending_done' = None /\ tts_active' = FALSE
      /\ events' = events \cup {[type |-> "tts_playback_cancelled",
                                 utterance |-> current_utterance_id]}
      /\ UNCHANGED <<client, open, running, current_utterance_id, wire>>
      /\ channel' \in Seq(Commands) /\ cancels # 0
  BY <1>0, Takes DEF TakeCancel, Receive, Broadcast, WaitsWell
<1>2. \A v : InChannel(v)' => InChannel(v)
  BY <1>0, Takes
<1>3. \A v : ~InBuffer(v)'
  BY <1>1 DEF InBuffer
<1>4. TypeOK' /\ ClientInv'
  <2>1. events' \subseteq [type : EventTypes, utterance : Utterances \cup {None}]
    BY <1>1 DEF TypeOK, EventTypes
  <2> QED
    <3>1. TypeOK'
      BY <1>1, <2>1, EmptySeq DEF TypeOK, client
    <3>2. ClientInv'
      BY <1>1 DEF ClientInv, client
    <3> QED
      BY <3>1, <3>2
<1>5. ChannelInv'
  <2>1. SUFFICES ASSUME NEW d \in Commands, WaitsWell(d)
                 PROVE  WaitsWell(d)'
    BY <1>0, TakenInv
  <2> QED
    BY <1>1, <2>1 DEF WaitsWell, WaitingAudio, WaitingDone, Reported, client
<1>6. PendingInv' /\ BufferInv'
  <2>1. \E e \in events' : e.utterance = current_utterance_id
    <3>1. [type |-> "tts_playback_cancelled",
           utterance |-> current_utterance_id] \in events'
      BY <1>1
    <3> QED
      BY <3>1
  <2> QED
    BY <1>1, <2>1 DEF PendingInv, BufferInv, Reported
<1>7. Orphans'
  BY <1>1, <1>2, <1>3 DEF Orphans, client
<1>8. Contiguous'
  <2>1. SUFFICES ASSUME NEW v \in 1..handed, NEW w \in 1..handed, v < w, InChannel(v)'
                 PROVE  InChannel(w)'
    BY <1>1, <1>3 DEF Contiguous, client
  <2>2. InBuffer(w) \/ InChannel(w)
    BY <1>2, <2>1 DEF Contiguous
  <2>3. WaitingAudio(v)
    BY <1>2, <2>1, AudioInChannel DEF ChannelInv, WaitsWell
  <2>4. ~InBuffer(w)
    BY <2>1, <2>3 DEF InBuffer, WaitingAudio
  <2>5. Head(channel) # Audio(w)
    BY <1>0, Takes DEF Audio
  <2> QED
    BY <1>0, <2>2, <2>4, <2>5, Takes
<1>9. WireInv'
  BY <1>1 DEF WireInv, Whole, Unmixed, SameOf, InOrder, client
<1>10. AllPlayed' /\ DoneInv'
  BY <1>1 DEF AllPlayed, DoneInv, client
<1>11. ActiveWhilePlaying'
  BY <1>1 DEF ActiveWhilePlaying
<1> QED
  BY <1>4, <1>5, <1>6, <1>7, <1>8, <1>9, <1>10, <1>11

LEMMA ChannelClosedInv ==
  ASSUME Inv, ChannelClosed
  PROVE  Inv'
<1> USE DEF Inv
<1>1. /\ channel = <<>> /\ ~open /\ running' = FALSE /\ pcm_buffer' = <<>>
      /\ UNCHANGED <<client, channel, open, current_utterance_id, pending_done, tts_active,
                     wire, events>>
  BY DEF ChannelClosed
<1>2. \A v : ~InBuffer(v)' /\ ~InChannel(v)'
  BY <1>1 DEF InBuffer, InChannel
<1>3. TypeOK' /\ ClientInv'
  BY <1>1, EmptySeq DEF TypeOK, ClientInv, client
<1>4. ChannelInv' /\ PendingInv' /\ BufferInv' /\ AllPlayed' /\ ActiveWhilePlaying'
  BY <1>1 DEF ChannelInv, PendingInv, BufferInv, AllPlayed, ActiveWhilePlaying
<1>5. Orphans' /\ Contiguous'
  BY <1>2 DEF Orphans, Contiguous
<1>6. WireInv' /\ DoneInv'
  BY <1>1 DEF WireInv, DoneInv, Whole, Unmixed, SameOf, InOrder, client
<1> QED
  BY <1>3, <1>4, <1>5, <1>6

LEMMA SendFramePlainInv ==
  ASSUME Inv, SendFrame, Len(AfterFrame) >= FrameUnits \/ pending_done = None
  PROVE  Inv'
<1> USE DEF Inv
<1>1. /\ running /\ Pacing
      /\ wire' = wire \o FirstFrame /\ pcm_buffer' = AfterFrame
      /\ UNCHANGED <<pending_done, tts_active, events>>
      /\ UNCHANGED <<client, channel, open, current_utterance_id, running>>
  BY DEF SendFrame
<1>2. /\ FrameUnits \in Nat \ {0} /\ handed \in Nat /\ Len(pcm_buffer) \in Nat
      /\ Len(pcm_buffer) >= FrameUnits /\ pcm_buffer # <<>>
      /\ \A i \in DOMAIN pcm_buffer : pcm_buffer[i] \in 1..handed
  <2>1. FrameUnits \in Nat \ {0} /\ handed \in Nat
    BY InjectorAssumption DEF TypeOK
  <2>2. Len(pcm_buffer) \in Nat /\ Len(pcm_buffer) >= FrameUnits /\ pcm_buffer # <<>>
    BY <1>1, <2>1 DEF Pacing, TypeOK
  <2>3. \A i \in DOMAIN pcm_buffer : pcm_buffer[i] \in 1..handed
    BY DEF BufferInv
  <2> QED
    BY <2>1, <2>2, <2>3
<1>3. /\ AfterFrame \in Seq(Utterances) /\ Len(AfterFrame) = Len(pcm_buffer) - FrameUnits
      /\ DOMAIN AfterFrame = 1..(Len(pcm_buffer) - FrameUnits)
      /\ DOMAIN pcm_buffer = 1..Len(pcm_buffer)
      /\ DOMAIN FirstFrame = 1..FrameUnits /\ FirstFrame \in Seq(Utterances)
      /\ \A i \in DOMAIN FirstFrame :
           i \in DOMAIN pcm_buffer /\ FirstFrame[i] = pcm_buffer[i]
      /\ \A i \in DOMAIN AfterFrame :
           i + FrameUnits \in DOMAIN pcm_buffer /\ AfterFrame[i] = pcm_buffer[i + FrameUnits]
  BY <1>1, Framing
<1>4. /\ Whole(wire \o FirstFrame)
      /\ \A i \in DOMAIN wire' :
           \/ \E k \in DOMAIN wire : wire'[i] = wire[k]
           \/ \E k \in DOMAIN FirstFrame : wire'[i] = pcm_buffer[k]
  BY <1>1, <1>3, FirstFrameSent
<1>5. \A v : /\ Count(wire', v) = Count(wire, v) + Count(FirstFrame, v)
             /\ Count(wire', v) + Count(pcm_buffer', v) = Count(wire, v) + Count(pcm_buffer, v)
  <2> TAKE v
  <2>1. /\ Count(wire, v) \in Nat /\ Count(FirstFrame, v) \in Nat /\ Count(AfterFrame, v) \in Nat
    BY <1>3, CountType DEF TypeOK
  <2>2. Count(wire \o FirstFrame, v) = Count(wire, v) + Count(FirstFrame, v)
    BY <1>1, FirstFrameSent
  <2>3. Count(FirstFrame, v) + Count(AfterFrame, v) = Count(pcm_buffer, v)
    BY <1>1, Framing
  <2> QED
    BY <1>1, <2>1, <2>2, <2>3
<1>6. \A v : InBuffer(v)' => InBuffer(v)
  BY <1>1, <1>3 DEF InBuffer
<1>7. \A v : InChannel(v)' <=> InChannel(v)
  BY <1>1 DEF InChannel
<1>8. WireInv'
  <2>1. Whole(wire)'
    BY <1>1, <1>4 DEF Whole, Unmixed, SameOf, InOrder, client
  <2>2. \A j \in DOMAIN wire' : wire'[j] <= handed
    BY <1>2, <1>3, <1>4 DEF WireInv
  <2> QED
    BY <1>1, <2>1, <2>2 DEF WireInv, client
<1>9. TypeOK'
  BY <1>1, <1>3, <1>8 DEF TypeOK, WireInv, Whole, Sent, client
<1>10. ClientInv'
  BY <1>1 DEF ClientInv, client
<1>11. ChannelInv'
  <2>1. SUFFICES ASSUME NEW d \in Commands, WaitsWell(d)
                 PROVE  WaitsWell(d)'
    BY <1>1 DEF ChannelInv, InTurn, TypeOK
  <2>2. CASE d.type = "Audio"
    <3>1. WaitingAudio(d.utterance)
      BY <2>1, <2>2 DEF WaitsWell
    <3>2. \A j \in DOMAIN pcm_buffer' : pcm_buffer'[j] < d.utterance
      BY <1>1, <1>3, <3>1 DEF WaitingAudio
    <3>3. \A j \in DOMAIN wire' : wire'[j] < d.utterance
      BY <1>3, <1>4, <3>1 DEF WaitingAudio
    <3> QED
      BY <1>1, <2>2, <3>1, <3>2, <3>3 DEF WaitsWell, WaitingAudio, Reported, client
  <2>3. CASE d.type # "Audio"
    BY <1>1, <2>1, <2>3 DEF WaitsWell, WaitingDone, Reported, client
  <2> QED
    BY <2>2, <2>3
<1>12. PendingInv'
  <2>1. CASE pending_done = None
    BY <1>1, <2>1 DEF PendingInv, Reported
  <2>2. CASE pending_done # None
    <3> DEFINE n == Len(pcm_buffer)
    <3>1. /\ pending_done = current_utterance_id
          /\ ~Reported(pending_done) /\ Len(AfterFrame) >= FrameUnits
      BY <1>1, <2>2 DEF PendingInv
    <3>8. Pacing'
      BY <1>1, <3>1 DEF Pacing
    <3>9. SUFFICES ASSUME pending_done \notin givenUp
                   PROVE  pending_done = handed /\ InBuffer(handed)'
      BY <1>1, <2>2, <3>1, <3>8 DEF PendingInv, Reported, InBuffer, client
    <3>10. pending_done = handed
      BY <1>1, <2>2, <3>9 DEF PendingInv
    <3>2. PICK i \in DOMAIN pcm_buffer : pcm_buffer[i] = handed
      BY <1>1, <2>2, <3>9 DEF PendingInv, InBuffer
    <3>3. n \in DOMAIN pcm_buffer /\ i \in 1..n
      BY <1>2, <1>3, <3>2
    <3>4. pcm_buffer[n] = handed
      BY <1>2, <3>2, <3>3 DEF BufferInv
    <3>5. n - FrameUnits \in DOMAIN AfterFrame /\ (n - FrameUnits) + FrameUnits = n
      BY <1>2, <1>3, <3>1
    <3>6. AfterFrame[n - FrameUnits] = handed
      BY <1>3, <3>4, <3>5
    <3>7. InBuffer(handed)'
      BY <1>1, <3>5, <3>6 DEF InBuffer, client
    <3> QED
      BY <3>7, <3>10
  <2> QED
    BY <2>1, <2>2
<1>13. BufferInv'
  <2>1. SUFFICES ASSUME NEW i \in DOMAIN AfterFrame
                 PROVE  LET v == AfterFrame[i] IN
                        /\ v \in 1..handed /\ ~Reported(v)
                        /\ Count(wire', v) + Count(pcm_buffer', v) = length[v]
                        /\ \A j \in 1..i : AfterFrame[j] <= v
                        /\ \A j \in DOMAIN wire' : wire'[j] <= v
    BY <1>1 DEF BufferInv, Reported, client
  <2> DEFINE v == AfterFrame[i]
             m == i + FrameUnits
  <2>2. m \in DOMAIN pcm_buffer /\ v = pcm_buffer[m] /\ i \in Nat \ {0}
    BY <1>3
  <2>3. /\ v \in 1..handed /\ ~Reported(v)
        /\ Count(wire, v) + Count(pcm_buffer, v) = length[v]
        /\ \A j \in 1..m : pcm_buffer[j] <= v
        /\ \A j \in DOMAIN wire : wire[j] <= v
    BY <2>2 DEF BufferInv
  <2>4. \A j \in 1..i : AfterFrame[j] <= v
    <3> TAKE j \in 1..i
    <3>1. j \in DOMAIN AfterFrame /\ j + FrameUnits \in 1..m
      BY <1>2, <1>3, <2>2
    <3> QED
      BY <1>3, <2>3, <3>1
  <2>5. \A j \in DOMAIN wire' : wire'[j] <= v
    <3>1. \A k \in DOMAIN FirstFrame : pcm_buffer[k] <= v
      BY <1>2, <1>3, <2>2, <2>3
    <3> QED
      BY <1>4, <2>3, <3>1
  <2> HIDE DEF v, m
  <2>6. Count(wire', v) + Count(pcm_buffer', v) = length[v]
    BY <1>5, <2>3
  <2> QED
    BY <2>3, <2>4, <2>5, <2>6 DEF v
<1>14. Orphans'
  BY <1>1, <1>6, <1>7 DEF Orphans, client
<1>15. Contiguous'
  <2>1. SUFFICES ASSUME NEW v \in 1..handed, NEW w \in 1..handed, v < w,
                        InBuffer(v)' \/ InChannel(v)
                 PROVE  InBuffer(w)' \/ InChannel(w)
    BY <1>1, <1>7 DEF Contiguous, client
  <2>2. InBuffer(w) \/ InChannel(w)
    BY <1>6, <2>1 DEF Contiguous
  <2>3. CASE InChannel(v)
    <3>1. WaitingAudio(v)
      BY <2>3, AudioInChannel DEF ChannelInv, WaitsWell
    <3>2. ~InBuffer(w)
      BY <2>1, <3>1 DEF InBuffer, WaitingAudio
    <3> QED
      BY <2>2, <3>2
  <2>4. CASE InBuffer(v)' /\ InBuffer(w)
    <3>1. PICK i \in DOMAIN AfterFrame : AfterFrame[i] = v
      BY <1>1, <2>4 DEF InBuffer
    <3>2. PICK k \in DOMAIN pcm_buffer : pcm_buffer[k] = w
      BY <2>4 DEF InBuffer
    <3>3. i + FrameUnits \in DOMAIN pcm_buffer /\ pcm_buffer[i + FrameUnits] = v
      BY <1>3, <3>1
    <3>4. k \notin 1..(i + FrameUnits)
      BY <2>1, <3>2, <3>3 DEF BufferInv
    <3>5. k - FrameUnits \in DOMAIN AfterFrame /\ (k - FrameUnits) + FrameUnits = k
      BY <1>2, <1>3, <3>2, <3>4
    <3>6. AfterFrame[k - FrameUnits] = w
      BY <1>3, <3>2, <3>5
    <3> QED
      BY <1>1, <3>5, <3>6 DEF InBuffer
  <2> QED
    BY <2>1, <2>2, <2>3, <2>4
<1>16. AllPlayed'
  <2>1. SUFFICES ASSUME cancels = 0, NEW v \in 1..handed, ~InChannel(v)
                 PROVE  Count(wire', v) + Count(pcm_buffer', v) = length[v]
    BY <1>1, <1>7 DEF AllPlayed, client
  <2> QED
    BY <1>1, <1>5, <2>1 DEF AllPlayed
<1>17. DoneInv'
  <2>1. SUFFICES ASSUME cancels = 0, NEW v \in Utterances,
                        [type |-> "tts_playback_done", utterance |-> v] \in events
                 PROVE  Count(wire', v) = length[v]
    BY <1>1 DEF DoneInv, client
  <2>2. Reported(v)
    BY <2>1 DEF Reported
  <2>3. Count(FirstFrame, v) = 0
    <3>1. \A i \in DOMAIN FirstFrame : FirstFrame[i] # v
      BY <1>3, <2>2 DEF BufferInv
    <3> QED
      BY <1>3, <3>1, CountType
  <2>4. Count(wire, v) = length[v] /\ length[v] \in Nat
    BY <2>1, UnitsOf DEF DoneInv
  <2> QED
    BY <1>5, <2>3, <2>4
<1>18. ActiveWhilePlaying'
  BY <1>1, <1>2 DEF ActiveWhilePlaying, Reported, client
<1> QED
  BY <1>8, <1>9, <1>10, <1>11, <1>12, <1>13, <1>14, <1>15, <1>16, <1>17, <1>18

(* What is pending is of the utterance declared complete last, and none of *)
(* its audio waits in the channel.                                         *)
LEMMA NothingBehind ==
  ASSUME Inv, running, pending_done # None
  PROVE  /\ pending_done \in complete /\ pending_done \in Utterances /\ pending_done \in 1..handed
         /\ current_utterance_id = pending_done /\ ~Reported(pending_done)
         /\ \A i \in DOMAIN channel :
              channel[i].type = "Cancel" \/ channel[i].utterance # pending_done
         /\ ~InChannel(pending_done)
<1> USE DEF Inv
<1>1. pending_done = current_utterance_id /\ ~Reported(pending_done)
  BY DEF PendingInv
<1>2. pending_done \in complete /\ pending_done \in Utterances
  BY <1>1 DEF ClientInv, TypeOK
<1>3. pending_done \in 1..handed
  BY <1>2 DEF ClientInv
<1>4. ASSUME NEW i \in DOMAIN channel
      PROVE  channel[i].type = "Cancel" \/ channel[i].utterance # pending_done
  <2>1. channel[i] \in Commands /\ WaitsWell(channel[i])
    BY <1>4 DEF TypeOK, ChannelInv
  <2> QED
    BY <1>1, <2>1, CommandIs DEF WaitsWell, WaitingDone, WaitingAudio
<1>5. ~InChannel(pending_done)
  BY <1>4, AudioInChannel
<1> QED
  BY <1>1, <1>2, <1>3, <1>4, <1>5

(* The last whole frame and the one filled up with the rest.               *)
LEMMA TailSent ==
  ASSUME Inv, Pacing, Len(AfterFrame) < FrameUnits
  PROVE  LET last == Flushed(wire \o FirstFrame, AfterFrame) IN
         /\ Whole(last)
         /\ \A i \in DOMAIN last :
              \/ last[i] = Padding
              \/ \E k \in DOMAIN wire : last[i] = wire[k]
              \/ \E k \in DOMAIN pcm_buffer : last[i] = pcm_buffer[k]
         /\ \A v \in Utterances : Count(last, v) = Count(wire, v) + Count(pcm_buffer, v)
<1> USE DEF Inv
<1> DEFINE sent == wire \o FirstFrame
           last == Flushed(sent, AfterFrame)
<1>1. /\ AfterFrame \in Seq(Utterances) /\ FirstFrame \in Seq(Utterances)
      /\ \A i \in DOMAIN FirstFrame :
           i \in DOMAIN pcm_buffer /\ FirstFrame[i] = pcm_buffer[i] /\ i \in 1..FrameUnits
      /\ \A i \in DOMAIN AfterFrame :
           /\ i \in Nat \ {0} /\ FrameUnits \in Nat \ {0}
           /\ i + FrameUnits \in DOMAIN pcm_buffer /\ AfterFrame[i] = pcm_buffer[i + FrameUnits]
      /\ \A v : Count(FirstFrame, v) + Count(AfterFrame, v) = Count(pcm_buffer, v)
  BY Framing, InjectorAssumption
<1>2. /\ Whole(sent)
      /\ \A i \in DOMAIN sent :
           \/ \E k \in DOMAIN wire : sent[i] = wire[k]
           \/ \E k \in DOMAIN FirstFrame : sent[i] = pcm_buffer[k]
      /\ \A v : Count(sent, v) = Count(wire, v) + Count(FirstFrame, v)
  BY <1>1, FirstFrameSent
<1> HIDE DEF sent
<1>3. \A i, j \in DOMAIN AfterFrame :
        i < j => AfterFrame[i] <= AfterFrame[j] /\ SameOf(AfterFrame, i, j)
  BY <1>1, BufferRuns DEF SameOf
<1>4. \A i \in DOMAIN sent, j \in DOMAIN AfterFrame : sent[i] <= AfterFrame[j]
  <2> TAKE i \in DOMAIN sent, j \in DOMAIN AfterFrame
  <2>1. \A k \in DOMAIN FirstFrame : pcm_buffer[k] <= AfterFrame[j]
    <3> TAKE k \in DOMAIN FirstFrame
    <3>1. k \in DOMAIN pcm_buffer /\ k < j + FrameUnits
      BY <1>1
    <3> QED
      BY <1>1, <3>1, BufferRuns
  <2>2. \A k \in DOMAIN wire : wire[k] <= AfterFrame[j]
    BY <1>1, BufferRuns
  <2> QED
    BY <1>2, <2>1, <2>2
<1>5. /\ Whole(last)
      /\ \A i \in DOMAIN last :
           \/ last[i] = Padding
           \/ \E k \in DOMAIN sent : last[i] = sent[k]
           \/ \E k \in DOMAIN AfterFrame : last[i] = AfterFrame[k]
      /\ \A v \in Utterances : Count(last, v) = Count(sent, v) + Count(AfterFrame, v)
  BY <1>1, <1>2, <1>3, <1>4, LastFrameSent
<1> HIDE DEF last
<1>6. \A v \in Utterances : Count(last, v) = Count(wire, v) + Count(pcm_buffer, v)
  <2> TAKE v \in Utterances
  <2>1. Count(wire, v) \in Nat /\ Count(FirstFrame, v) \in Nat /\ Count(AfterFrame, v) \in Nat
    BY <1>1, CountType DEF TypeOK
  <2> QED
    BY <1>1, <1>2, <1>5, <2>1
<1>7. \A i \in DOMAIN last :
        \/ last[i] = Padding
        \/ \E k \in DOMAIN wire : last[i] = wire[k]
        \/ \E k \in DOMAIN pcm_buffer : last[i] = pcm_buffer[k]
  BY <1>1, <1>2, <1>5
<1> QED
  BY <1>5, <1>6, <1>7 DEF last, sent

LEMMA SendFrameReportsInv ==
  ASSUME Inv, SendFrame, ~(Len(AfterFrame) >= FrameUnits \/ pending_done = None)
  PROVE  Inv'
<1> USE DEF Inv
<1>1. /\ running /\ Pacing /\ pending_done # None /\ ~(Len(AfterFrame) >= FrameUnits)
      /\ wire' = Flushed(wire \o FirstFrame, AfterFrame) /\ pcm_buffer' = <<>>
      /\ pending_done' = None /\ tts_active' = FALSE
      /\ events' = events \cup {[type |-> "tts_playback_done", utterance |-> pending_done]}
      /\ UNCHANGED <<client, channel, open, current_utterance_id, running>>
  BY DEF SendFrame, Broadcast
<1>2. /\ pending_done \in Utterances /\ pending_done \in 1..handed /\ handed \in Nat
      /\ current_utterance_id = pending_done /\ pending_done \in complete
      /\ \A i \in DOMAIN channel :
           channel[i].type = "Cancel" \/ channel[i].utterance # pending_done
      /\ ~InChannel(pending_done)
      /\ \A v : InChannel(v)' <=> InChannel(v)
  BY <1>1, NothingBehind DEF TypeOK, InChannel
<1>3. /\ Whole(wire')
      /\ \A i \in DOMAIN wire' :
           \/ wire'[i] = Padding
           \/ \E k \in DOMAIN wire : wire'[i] = wire[k]
           \/ \E k \in DOMAIN pcm_buffer : wire'[i] = pcm_buffer[k]
      /\ \A v \in Utterances : Count(wire', v) = Count(wire, v) + Count(pcm_buffer, v)
  <2>1. Len(AfterFrame) < FrameUnits
    BY <1>1, Framing, InjectorAssumption
  <2> QED
    BY <1>1, <2>1, TailSent
<1>4. WireInv'
  <2>1. Whole(wire)'
    BY <1>1, <1>3 DEF Whole, Unmixed, SameOf, InOrder, client
  <2>2. \A k \in DOMAIN pcm_buffer : pcm_buffer[k] <= handed
    BY DEF BufferInv, TypeOK
  <2>3. \A i \in DOMAIN wire' : wire'[i] <= handed
    BY <1>2, <1>3, <2>2 DEF WireInv, Padding
  <2> QED
    BY <1>1, <2>1, <2>3 DEF WireInv, client
<1>5. TypeOK'
  <2>1. events' \subseteq [type : EventTypes, utterance : Utterances \cup {None}]
    BY <1>1, <1>2 DEF TypeOK, EventTypes
  <2> QED
    BY <1>1, <1>4, <2>1, EmptySeq DEF TypeOK, WireInv, Whole, Sent, client
<1>6. ClientInv'
  BY <1>1, <1>2 DEF ClientInv, client
<1>7. ChannelInv'
  <2>1. ASSUME NEW i \in DOMAIN channel
        PROVE  WaitsWell(channel[i])'
    <3>1. PICK d \in Commands : d = channel[i]
      BY DEF TypeOK
    <3>2. WaitsWell(d) /\ (d.type = "Cancel" \/ d.utterance # pending_done)
      BY <1>2, <3>1 DEF ChannelInv
    <3>3. WaitsWell(d)'
      BY <1>1, <1>2, <1>3, <3>2, ReportedInv
    <3> QED
      BY <1>1, <3>1, <3>3 DEF WaitsWell
  <2> QED
    BY <1>1, <2>1 DEF ChannelInv, InTurn
<1>8. \A v : ~InBuffer(v)'
  BY <1>1 DEF InBuffer
<1>9. PendingInv'
  <2>1. [type |-> "tts_playback_done", utterance |-> pending_done] \in events'
    BY <1>1, <1>2
  <2>2. \E e \in events' : e.utterance = pending_done
    BY <2>1
  <2> QED
    BY <1>1, <1>2, <2>2 DEF PendingInv, Reported
<1>10. BufferInv' /\ Orphans' /\ Contiguous'
  <2>1. BufferInv' /\ Orphans'
    BY <1>1, <1>2, <1>8 DEF BufferInv, Orphans, client
  <2>2. Contiguous'
    BY <1>1, <1>2, <1>8, ChannelContiguous DEF Contiguous, client
  <2> QED
    BY <2>1, <2>2
<1>11. AllPlayed'
  <2>1. SUFFICES ASSUME cancels = 0, NEW v \in 1..handed, ~InChannel(v)
                 PROVE  Count(wire', v) + Count(pcm_buffer', v) = length[v]
    BY <1>1, <1>2 DEF AllPlayed, client
  <2>2. Count(pcm_buffer', v) = 0
    <3>1. <<>> \in Seq(Utterances) /\ DOMAIN <<>> = {}
      BY EmptySeq
    <3> QED
      BY <1>1, <3>1, CountType
  <2>3. v \in Utterances /\ Count(wire, v) + Count(pcm_buffer, v) = length[v]
    <3>1. v \in Utterances
      BY <2>1, InjectorAssumption DEF TypeOK, Utterances
    <3>2. running /\ ~InChannel(v)
      BY <1>1, <2>1
    <3> QED
      BY <2>1, <3>1, <3>2 DEF AllPlayed
  <2>4. length[v] \in Nat
    BY <2>3, UnitsOf
  <2> QED
    BY <1>3, <2>2, <2>3, <2>4
<1>12. DoneInv'
  <2>1. SUFFICES ASSUME cancels = 0, NEW v \in Utterances,
                        [type |-> "tts_playback_done", utterance |-> v] \in events'
                 PROVE  Count(wire', v) = length[v]
    BY <1>1 DEF DoneInv, client
  <2>2. CASE v = pending_done
    BY <1>1, <1>2, <1>3, <2>1, <2>2 DEF AllPlayed
  <2>3. CASE v # pending_done
    <3>1. [type |-> "tts_playback_done", utterance |-> v] \in events
      BY <1>1, <1>2, <2>1, <2>3
    <3>2. Reported(v)
      BY <3>1 DEF Reported
    <3>3. Count(pcm_buffer, v) = 0
      BY <3>2, CountType DEF BufferInv, TypeOK
    <3>4. Count(wire, v) = length[v] /\ length[v] \in Nat
      BY <2>1, <3>1, UnitsOf DEF DoneInv
    <3> QED
      BY <1>3, <3>3, <3>4
  <2> QED
    BY <2>2, <2>3
<1>13. ActiveWhilePlaying'
  BY <1>1 DEF ActiveWhilePlaying
<1> QED
  BY <1>4, <1>5, <1>6, <1>7, <1>9, <1>10, <1>11, <1>12, <1>13

-----------------------------------------------------------------------------
LEMMA InitInv == Init => Inv
<1> SUFFICES ASSUME Init PROVE Inv
  OBVIOUS
<1>1. FrameUnits \in Nat \ {0} /\ MaxUtterances \in Nat \ {0} /\ MaxCancels \in Nat
  BY InjectorAssumption
<1>2. 0 % FrameUnits = 0 /\ DOMAIN <<>> = {} /\ Len(<<>>) = 0
  BY <1>1
<1>3. TypeOK
  <2>1. <<>> \in Seq(Commands) /\ <<>> \in Seq(Utterances)
        /\ <<>> \in Seq(Utterances \cup {Padding})
    BY EmptySeq
  <2>2. None \in Utterances \cup {None} /\ 0 \in 0..MaxUtterances /\ 0 \in 0..MaxCancels
    BY <1>1
  <2> QED
    BY <1>2, <2>1, <2>2 DEF Init, TypeOK
<1>4. Whole(wire)
  BY <1>2 DEF Init, Whole, InOrder, Unmixed, Sent
<1> QED
  BY <1>2, <1>3, <1>4
     DEF Init, Inv, ClientInv, ChannelInv, PendingInv, BufferInv, Orphans, Contiguous, WireInv,
         AllPlayed, DoneInv, ActiveWhilePlaying, InBuffer, InChannel, None

LEMMA NextInv ==
  ASSUME Inv, [Next]_vars
  PROVE  Inv'
<1>1. CASE HandOver
  BY <1>1, HandOverInv
<1>2. CASE DeclareComplete
  BY <1>2, DeclareCompleteInv
<1>3. CASE GiveUp
  BY <1>3, GiveUpInv
<1>4. CASE RequestCancel
  BY <1>4, RequestCancelInv
<1>5. CASE RemoveSession
  BY <1>5, RemoveSessionInv
<1>6. CASE SendFrame
  BY <1>6, SendFramePlainInv, SendFrameReportsInv
<1>7. CASE TakeAudio
  BY <1>7, TakeAudioInv
<1>8. CASE TakeDone
  BY <1>8, TakeDonePacingInv, TakeDoneReportsInv
<1>9. CASE TakeCancel
  BY <1>9, TakeCancelInv
<1>10. CASE ChannelClosed
  BY <1>10, ChannelClosedInv
<1>11. CASE UNCHANGED vars
  <2> USE DEF Inv
  <2>1. UNCHANGED <<client, channel, open, task>>
    BY <1>11 DEF vars
  <2>2. TypeOK' /\ ClientInv'
    BY <2>1 DEF TypeOK, ClientInv, client, task
  <2>3. ChannelInv'
    BY <2>1 DEF ChannelInv, WaitsWell, WaitingAudio, WaitingDone, InTurn, Reported, client, task
  <2>4. PendingInv' /\ BufferInv' /\ Orphans' /\ Contiguous'
    BY <2>1 DEF PendingInv, BufferInv, Orphans, Contiguous, Reported, InBuffer, InChannel, Pacing,
                client, task
  <2>5. WireInv'
    BY <2>1 DEF WireInv, Whole, Unmixed, SameOf, InOrder, client, task
  <2>6. AllPlayed' /\ DoneInv' /\ ActiveWhilePlaying'
    BY <2>1 DEF AllPlayed, DoneInv, ActiveWhilePlaying, Reported, InChannel, client, task
  <2> QED
    BY <2>2, <2>3, <2>4, <2>5, <2>6
<1> QED
  BY <1>1, <1>2, <1>3, <1>4, <1>5, <1>6, <1>7, <1>8, <1>9, <1>10, <1>11 DEF Next, Command

(* The inductive invariant of the task, its channel and its caller holds   *)
(* in every reachable state.                                               *)
THEOREM Invariance == Spec => []Inv
<1>1. Init => Inv
  BY InitInv
<1>2. Inv /\ [Next]_vars => Inv'
  BY NextInv
<1> QED
  BY <1>1, <1>2, PTL DEF Spec

(* Type correctness: the audio the task (tts.rs) sends is always a whole   *)
(* number of frames, and an event names an utterance or nothing.           *)
THEOREM TypeCorrect == Spec => []TypeOK
<1>1. Inv => TypeOK
  BY DEF Inv
<1> QED
  BY <1>1, Invariance, PTL

(* When the task broadcasts "tts_playback_done", all audio of the          *)
(* utterance has been sent, none of it waits, and all that was ever sent   *)
(* is in the order in which it was handed over.                            *)
THEOREM DoneIsTrue == Spec => []DoneMeansPlayed
<1>1. ASSUME Inv
      PROVE  DoneMeansPlayed
  <2> USE <1>1 DEF Inv
  <2>1. ASSUME NEW u \in Utterances,
               [type |-> "tts_playback_done", utterance |-> u] \in events
        PROVE  /\ ~InBuffer(u) /\ ~InChannel(u)
               /\ cancels = 0 => SentUnits(u) = length[u]
    <3>1. Reported(u)
      BY <2>1 DEF Reported
    <3>2. ~InBuffer(u)
      BY <3>1 DEF BufferInv, InBuffer
    <3>3. ~InChannel(u)
      BY <3>1, AudioInChannel DEF ChannelInv, WaitsWell, WaitingAudio
    <3>4. cancels = 0 => SentUnits(u) = length[u]
      BY <2>1 DEF DoneInv, Count, SentUnits
    <3> QED
      BY <3>2, <3>3, <3>4
  <2>2. \A i, j \in DOMAIN wire : i < j /\ wire[j] # Padding => wire[i] <= wire[j]
    BY DEF WireInv, Whole, InOrder
  <2> QED
    BY <2>1, <2>2 DEF DoneMeansPlayed
<1> QED
  BY <1>1, Invariance, PTL

(* As long as there is audio to send the AEC thread is told that the bot   *)
(* speaks, and once all is reported it is told otherwise (tts_active).     *)
THEOREM FlagIsTrue == Spec => []ActiveWhilePlaying
<1>1. Inv => ActiveWhilePlaying
  BY DEF Inv
<1> QED
  BY <1>1, Invariance, PTL

(* The frames of two utterances are kept apart by the padding of the last  *)
(* one, but for an utterance the client gave up.                           *)
THEOREM FramesAreWhole == Spec => []FramesUnmixed
<1>1. Inv => FramesUnmixed
  BY DEF Inv, WireInv, Whole, Unmixed, SameOf, FramesUnmixed
<1> QED
  BY <1>1, Invariance, PTL

-----------------------------------------------------------------------------
(* The refinement.                                                         *)

(* Reported, and the client still waits for it.                            *)
Notified(u) == Reported(u) /\ u \notin givenUp

(* What became of an utterance, case by case.                              *)
FateTable(u) ==
  /\ Fate(u) = "none" <=> u > handed
  /\ u <= handed /\ (~running \/ Reported(u)) => Fate(u) = "over"
  /\ u <= handed /\ running /\ ~Reported(u) =>
       /\ u \in givenUp /\ Waiting(u) => Fate(u) = "orphan"
       /\ u \in givenUp /\ ~Waiting(u) => Fate(u) = "over"
       /\ u \in complete \ givenUp /\ Dropped(u) => Fate(u) = "silent"
       /\ u \in complete \ givenUp /\ ~Dropped(u) => Fate(u) = "done"
       /\ u \notin complete \cup givenUp /\ Dropped(u) => Fate(u) = "cut"
       /\ u \notin complete \cup givenUp /\ ~Dropped(u) => Fate(u) = "audio"

LEMMA FateIs == Inv => \A u \in Utterances : FateTable(u)
<1> SUFFICES ASSUME Inv, NEW u \in Utterances PROVE FateTable(u)
  OBVIOUS
<1> USE DEF FateTable
<1>1. handed \in Nat /\ u \in Nat
  BY DEF Inv, TypeOK, Utterances
<1>2. CASE u > handed
  BY <1>1, <1>2 DEF Fate
<1>3. CASE u <= handed /\ (~running \/ Reported(u))
  <2>1. Fate(u) = "over"
    BY <1>1, <1>3 DEF Fate
  <2> QED
    BY <1>1, <1>3, <2>1
<1>4. CASE u <= handed /\ running /\ ~Reported(u)
  <2>1. Fate(u) = CASE u \in givenUp /\ Waiting(u)              -> "orphan"
           [] u \in givenUp /\ ~Waiting(u)             -> "over"
           [] u \in complete \ givenUp /\ Dropped(u)   -> "silent"
           [] u \in complete \ givenUp /\ ~Dropped(u)  -> "done"
           [] u \notin complete \cup givenUp /\ Dropped(u)  -> "cut"
           [] u \notin complete \cup givenUp /\ ~Dropped(u) -> "audio"
    BY <1>1, <1>4 DEF Fate
  <2>2. CASE u \in givenUp
    BY <1>1, <1>4, <2>1, <2>2 DEF Dropped
  <2>3. CASE u \in complete \ givenUp
    BY <1>1, <1>4, <2>1, <2>3
  <2>4. CASE u \notin complete \cup givenUp
    BY <1>1, <1>4, <2>1, <2>4
  <2> QED
    BY <2>2, <2>3, <2>4
<1> QED
 BY <1>1, <1>2, <1>3, <1>4

LEMMA FateWillBe == (Inv => \A u \in Utterances : FateTable(u))'
BY FateIs, PTL

LEMMA Fates ==
  ASSUME Inv, Inv', NEW u \in Utterances
  PROVE  FateTable(u) /\ FateTable(u)' /\ u \in Nat /\ handed \in Nat
<1>1. FateTable(u)
  BY FateIs
<1>2. FateTable(u)'
  BY FateWillBe
<1>3. u \in Nat /\ handed \in Nat
  BY DEF Inv, TypeOK, Utterances
<1> QED
  BY <1>1, <1>2, <1>3

(* Nothing changes for an utterance of which nothing changes.              *)
LEMMA FateKept ==
  ASSUME Inv, Inv', NEW u \in Utterances,
         UNCHANGED <<handed, running>>,
         Reported(u)' <=> Reported(u),
         u \in givenUp' <=> u \in givenUp, u \in complete' <=> u \in complete,
         Waiting(u)' <=> Waiting(u),
         Dropped(u)' <=> Dropped(u)
  PROVE  Fate(u)' = Fate(u)
<1>1. FateTable(u) /\ FateTable(u)' /\ u \in Nat /\ handed \in Nat
  BY Fates
<1>2. CASE u > handed \/ ~running \/ Reported(u)
  BY <1>1, <1>2 DEF FateTable
<1>3. CASE u <= handed /\ running /\ ~Reported(u) /\ u \in givenUp
  BY <1>1, <1>3 DEF FateTable
<1>4. CASE u <= handed /\ running /\ ~Reported(u) /\ u \notin givenUp
  BY <1>1, <1>4 DEF FateTable
<1> QED
  BY <1>1, <1>2, <1>3, <1>4

(* The steps of TtsPlayer, utterance by utterance.                         *)
LEMMA StutterStep ==
  ASSUME \A u \in Utterances : Fate(u)' = Fate(u),
         \A u \in Utterances : Notified(u)' <=> Notified(u)
  PROVE  Player!PlayerNext \/ UNCHANGED Player!playerVars
<1>1. UNCHANGED Player!playerVars
  BY DEF Player!playerVars, Notified
<1> QED
  BY <1>1

LEMMA PlayedStep ==
  ASSUME NEW us \in SUBSET Utterances, us # {},
         \A u \in us : Fate(u) \in {"done", "silent", "orphan"},
         \A u \in Utterances : Fate(u)' = IF u \in us THEN "over" ELSE Fate(u),
         \A u \in Utterances : Notified(u)' <=> Notified(u) \/ (u \in us /\ Fate(u) # "orphan")
  PROVE  Player!PlayerNext
<1>1. Player!Played(us)
  BY DEF Player!Played, Notified
<1> QED
  BY <1>1 DEF Player!PlayerNext

LEMMA RemoveStep ==
  ASSUME \A u \in Utterances : Fate(u)' = IF Fate(u) = "none" THEN "none" ELSE "over",
         \A u \in Utterances : Notified(u)' <=> Notified(u)
  PROVE  Player!PlayerNext
<1>1. Player!Remove
  BY DEF Player!Remove, Notified
<1> QED
  BY <1>1 DEF Player!PlayerNext

LEMMA CancelStep ==
  ASSUME NEW hit \in SUBSET Utterances, NEW id \in Utterances \cup {None},
         \A u \in hit : Fate(u) \in {"audio", "done", "orphan"},
         id = None \/ Fate(id) = "over" \/ (id \in hit /\ Fate(id) = "done"),
         \A u \in Utterances :
           Fate(u)' = CASE u = id \/ (u \in hit /\ Fate(u) = "orphan") -> "over"
                        [] u # id /\ u \in hit /\ Fate(u) = "audio"    -> "cut"
                        [] u # id /\ u \in hit /\ Fate(u) = "done"     -> "silent"
                        [] OTHER                                       -> Fate(u),
         \A u \in Utterances : Notified(u)' <=> Notified(u) \/ u = id
  PROVE  Player!PlayerNext
<1> DEFINE rust == [u \in Utterances |-> Fate(u)]
<1>1. hit \in SUBSET {u \in Utterances : rust[u] \in {"audio", "done", "orphan"}}
  OBVIOUS
<1>2. id \in {None} \cup {u \in Utterances : rust[u] = "over"}
               \cup {u \in hit : rust[u] = "done"}
  OBVIOUS
<1>3. rust' = [u \in Utterances |->
                    CASE u = id \/ (u \in hit /\ rust[u] = "orphan") -> "over"
                      [] u # id /\ u \in hit /\ rust[u] = "audio"    -> "cut"
                      [] u # id /\ u \in hit /\ rust[u] = "done"     -> "silent"
                      [] OTHER                                       -> rust[u]]
  OBVIOUS
<1>4. {u \in Utterances : Notified(u)}' = {u \in Utterances : Notified(u)} \cup ({id} \ {None})
  BY DEF Utterances, None
<1>5. Player!Cancel
  BY <1>1, <1>2, <1>3, <1>4 DEF Player!Cancel, Notified
<1> QED
  BY <1>5 DEF Player!PlayerNext

LEMMA OneStep ==
  ASSUME NEW u \in Utterances,
         \A v \in Utterances \ {u} : Fate(v)' = Fate(v),
         \/ Fate(u) = "none" /\ Fate(u)' = "audio"
         \/ Fate(u) = "audio" /\ Fate(u)' = "done"
         \/ Fate(u) = "cut" /\ Fate(u)' = "silent"
         \/ Fate(u) \in {"audio", "done"} /\ Fate(u)' = "orphan"
         \/ Fate(u) \in {"audio", "cut", "done", "silent"} /\ Fate(u)' = "over",
         \A v \in Utterances : Notified(v)' <=> Notified(v)
  PROVE  Player!PlayerNext
<1> DEFINE rust == [v \in Utterances |-> Fate(v)]
           notices == {v \in Utterances : Notified(v)}
<1>1. notices' = notices
  OBVIOUS
<1>2. rust' = [rust EXCEPT ![u] = Fate(u)']
  OBVIOUS
<1>3. CASE Fate(u) = "none"
  <2>1. Player!TakeAudio(u)
    BY <1>1, <1>2, <1>3 DEF Player!TakeAudio, Notified
  <2> QED
    BY <2>1 DEF Player!PlayerNext
<1>4. CASE Fate(u) # "none" /\ Fate(u)' \in {"done", "silent"}
  <2>1. Player!TakeDone(u)
    BY <1>1, <1>2, <1>4 DEF Player!TakeDone, Notified
  <2> QED
    BY <2>1 DEF Player!PlayerNext
<1>5. CASE Fate(u) # "none" /\ Fate(u)' \in {"orphan", "over"}
  <2>1. Player!GiveUp(u)
    BY <1>1, <1>2, <1>5 DEF Player!GiveUp, Notified
  <2> QED
    BY <2>1 DEF Player!PlayerNext
<1> QED
  BY <1>3, <1>4, <1>5

(* Every step of the task and its caller is one of TtsPlayer, or none.     *)
PlayerStep == Player!PlayerNext \/ UNCHANGED Player!playerVars

LEMMA NothingHappens ==
  ASSUME Inv, Inv', UNCHANGED <<length, handed, running, complete, givenUp, wire>>,
         \A v \in Utterances : Reported(v)' <=> Reported(v),
         \A v \in Utterances : Waiting(v)' <=> Waiting(v)
  PROVE  PlayerStep
<1>1. \A v \in Utterances : Dropped(v)' <=> Dropped(v)
  BY DEF Dropped, SentUnits
<1>2. \A v \in Utterances : Fate(v)' = Fate(v)
  BY <1>1, FateKept
<1> QED
  BY <1>2, StutterStep DEF PlayerStep, Notified

LEMMA HandOverStep ==
  ASSUME Inv, Inv', HandOver
  PROVE  PlayerStep
<1> USE DEF Inv
<1>1. PICK u \in Utterances : u = handed + 1
  BY InjectorAssumption DEF HandOver, TypeOK, Utterances
<1>2. /\ handed \in Nat /\ handed' = u /\ open /\ running
      /\ Audio(u) \in Commands /\ channel' = Append(channel, Audio(u))
      /\ UNCHANGED <<length, complete, givenUp, cancels, open, task>>
  BY <1>1 DEF HandOver, Enqueue, Audio, Commands, TypeOK, Utterances, ChannelInv
<1>3. \A v : /\ InBuffer(v)' <=> InBuffer(v)
             /\ InChannel(v)' <=> InChannel(v) \/ v = u
             /\ Reported(v)' <=> Reported(v)
  BY <1>2, Enqueues DEF InBuffer, Reported, Audio, task
<1>4. \A v : v # u => (Waiting(v)' <=> Waiting(v)) /\ (Dropped(v)' <=> Dropped(v))
  BY <1>2, <1>3 DEF Waiting, Dropped, SentUnits, task
<1>5. \A v \in Utterances : FateTable(v) /\ FateTable(v)'
  BY Fates
<1>6. ASSUME NEW v \in Utterances \ {u}
      PROVE  Fate(v)' = Fate(v)
  <2>1. /\ v \in Nat /\ (v > handed' <=> v > handed) /\ (v <= handed' <=> v <= handed)
        /\ v <= handed \/ v > handed
    BY <1>1, <1>2 DEF Utterances
  <2>2. FateTable(v) /\ FateTable(v)' /\ running /\ running' /\ givenUp' = givenUp /\ complete' = complete
    BY <1>2, <1>5 DEF task
  <2> QED
    BY <1>3, <1>4, <2>1, <2>2 DEF FateTable
<1>7. Fate(u) = "none" /\ Fate(u)' = "audio"
  <2>1. u > handed /\ u <= handed'
    BY <1>1, <1>2
  <2>2. u \notin complete /\ u \notin givenUp
    BY <1>1, <1>2 DEF ClientInv
  <2>3. ~Reported(u)' /\ ~Dropped(u)'
    BY <1>1, <1>3, <2>2, ReportedIsComplete DEF Dropped, Waiting
  <2>4. FateTable(u) /\ FateTable(u)' /\ running' /\ givenUp' = givenUp /\ complete' = complete
    BY <1>2, <1>5 DEF task
  <2> QED
    BY <2>1, <2>2, <2>3, <2>4 DEF FateTable
<1>8. \A v \in Utterances : Notified(v)' <=> Notified(v)
  BY <1>2, <1>3 DEF Notified
<1> QED
  BY <1>6, <1>7, <1>8, OneStep DEF PlayerStep

LEMMA DeclaredStep ==
  ASSUME Inv, Inv', Undeclared, UNCHANGED <<length, handed, givenUp, cancels, task>>,
         complete' = complete \cup {handed},
         \A v : InChannel(v)' <=> InChannel(v)
  PROVE  PlayerStep
<1> USE DEF Inv
<1>1. /\ handed \in Utterances /\ handed \in Nat /\ handed \notin complete /\ handed \notin givenUp
  BY DEF Undeclared, TypeOK, Utterances
<1>2. \A v : /\ Waiting(v)' <=> Waiting(v)
             /\ Dropped(v)' <=> Dropped(v)
             /\ Reported(v)' <=> Reported(v)
             /\ Notified(v)' <=> Notified(v)
  BY DEF Waiting, Dropped, SentUnits, InBuffer, Reported, Notified, task
<1>3. \A v \in Utterances : FateTable(v) /\ FateTable(v)'
  BY Fates
<1>4. \A v \in Utterances \ {handed} : Fate(v)' = Fate(v)
  BY <1>2, FateKept DEF task
<1>5. ~Reported(handed) /\ ~Reported(handed)' /\ handed <= handed
  BY <1>1, <1>2, ReportedIsComplete
<1>6. CASE ~running
  <2>1. Fate(handed)' = Fate(handed)
    BY <1>1, <1>3, <1>5, <1>6 DEF FateTable, task
  <2>2. \A v \in Utterances : Fate(v)' = Fate(v)
    BY <1>4, <2>1
  <2> QED
    BY <1>2, <2>2, StutterStep DEF PlayerStep
<1>7. CASE running
  <2>1. /\ Dropped(handed) => Fate(handed) = "cut"
        /\ ~Dropped(handed) => Fate(handed) = "audio"
    BY <1>1, <1>3, <1>5, <1>7 DEF FateTable
  <2>2. /\ Dropped(handed) => Fate(handed)' = "silent"
        /\ ~Dropped(handed) => Fate(handed)' = "done"
    BY <1>1, <1>2, <1>3, <1>5, <1>7 DEF FateTable, task
  <2> QED
    BY <1>1, <1>2, <1>4, <2>1, <2>2, OneStep DEF PlayerStep
<1> QED
  BY <1>6, <1>7

(* What the client gives up is no longer reported to it.                   *)
LEMMA GivenUpStep ==
  ASSUME Inv, Inv', GiveUp
  PROVE  PlayerStep
<1> USE DEF Inv
<1>1. /\ handed \in Utterances /\ handed \in Nat /\ handed <= handed /\ ~Reported(handed)
      /\ handed \notin givenUp /\ givenUp' = givenUp \cup {handed}
      /\ UNCHANGED <<length, handed, complete, cancels, channel, open, task>>
  BY DEF GiveUp, TypeOK, Utterances
<1>2. \A v : /\ Waiting(v)' <=> Waiting(v)
             /\ Dropped(v)' <=> Dropped(v)
             /\ Reported(v)' <=> Reported(v)
             /\ Notified(v)' <=> Notified(v)
  BY <1>1 DEF Waiting, Dropped, SentUnits, InBuffer, InChannel, Reported, Notified, task
<1>3. \A v \in Utterances : FateTable(v) /\ FateTable(v)'
  BY Fates
<1>4. \A v \in Utterances \ {handed} : Fate(v)' = Fate(v)
  BY <1>1, <1>2, FateKept DEF task
<1>5. CASE ~running
  <2>1. Fate(handed)' = Fate(handed)
    BY <1>1, <1>3, <1>5 DEF FateTable, task
  <2>2. \A v \in Utterances : Fate(v)' = Fate(v)
    BY <1>1, <1>4, <2>1
  <2> QED
    BY <1>2, <2>2, StutterStep DEF PlayerStep
<1>6. CASE running
  <2>1. /\ Dropped(handed) => Fate(handed) \in {"cut", "silent"}
        /\ ~Dropped(handed) => Fate(handed) \in {"audio", "done"}
    BY <1>1, <1>3, <1>6 DEF FateTable
  <2>2. /\ Waiting(handed) => Fate(handed)' = "orphan"
        /\ ~Waiting(handed) => Fate(handed)' = "over"
    BY <1>1, <1>2, <1>3, <1>6 DEF FateTable, task
  <2>3. Dropped(handed) => ~Waiting(handed)
    BY DEF Dropped
  <2> QED
    BY <1>1, <1>2, <1>4, <2>1, <2>2, <2>3, OneStep DEF PlayerStep
<1> QED
  BY <1>5, <1>6

LEMMA RequestStep ==
  ASSUME Inv, Inv', DeclareComplete \/ GiveUp \/ RequestCancel \/ RemoveSession
  PROVE  PlayerStep
<1> USE DEF Inv
<1>1. CASE DeclareComplete
  <2>1. /\ Undeclared /\ Done(handed) \in Commands /\ channel' = Append(channel, Done(handed))
        /\ complete' = complete \cup {handed}
        /\ UNCHANGED <<length, handed, givenUp, cancels, open, task>>
    BY <1>1 DEF DeclareComplete, Undeclared, Enqueue, Done, Commands, TypeOK, Utterances
  <2>2. \A v : InChannel(v)' <=> InChannel(v)
    BY <2>1, Enqueues DEF Audio, Done
  <2> QED
    BY <2>1, <2>2, DeclaredStep
<1>2. CASE GiveUp
  BY <1>2, GivenUpStep
<1>3. CASE RequestCancel \/ RemoveSession
  <2>1. \A v : InChannel(v)' <=> InChannel(v)
    <3>1. CASE RequestCancel
      <4>1. /\ [type |-> "Cancel"] \in Commands /\ channel' = Append(channel, [type |-> "Cancel"])
        BY <3>1 DEF RequestCancel, Enqueue, Commands
      <4> QED
        BY <4>1, Enqueues DEF Audio
    <3>2. CASE RemoveSession
      BY <3>2 DEF RemoveSession, InChannel
    <3> QED
      BY <1>3, <3>1, <3>2
  <2>2. UNCHANGED <<length, handed, complete, givenUp, task>>
    BY <1>3 DEF RequestCancel, RemoveSession, client
  <2>3. \A v : (Waiting(v)' <=> Waiting(v)) /\ (Reported(v)' <=> Reported(v))
    BY <2>1, <2>2 DEF Waiting, InBuffer, Reported, task
  <2> QED
    BY <2>2, <2>3, NothingHappens DEF task
<1> QED
  BY <1>1, <1>2, <1>3

LEMMA ReceiveStep ==
  ASSUME Inv, Inv', TakeAudio \/ (TakeDone /\ Pacing)
  PROVE  PlayerStep
<1> USE DEF Inv
<1>1. CASE TakeAudio
  <2>1. PICK u \in Utterances : Head(channel) = Audio(u)
    BY <1>1, Takes, CommandIs DEF TakeAudio, Audio
  <2>2. Head(channel).utterance = u
    BY <2>1 DEF Audio
  <2>3. /\ Receive("Audio") /\ pcm_buffer' = pcm_buffer \o Units(u)
        /\ UNCHANGED <<client, open, running, wire, events>>
    BY <1>1, <2>2 DEF TakeAudio, Receive
  <2>4. \A v : InChannel(v) <=> InChannel(v)' \/ v = u
    BY <2>1, <2>3, Takes DEF Audio
  <2>5. \A v : InBuffer(v)' <=> InBuffer(v) \/ v = u
    <3> DEFINE t == Units(u)
    <3>1. /\ t \in Seq(Utterances) /\ Len(t) \in Nat \ {0} /\ DOMAIN t = 1..Len(t)
          /\ \A i \in DOMAIN t : t[i] = u
      BY UnitsOf
    <3> HIDE DEF t
    <3>2. /\ Len(pcm_buffer) \in Nat /\ DOMAIN pcm_buffer = 1..Len(pcm_buffer)
          /\ DOMAIN (pcm_buffer \o t) = 1..(Len(pcm_buffer) + Len(t))
          /\ \A i \in 1..(Len(pcm_buffer) + Len(t)) :
               (pcm_buffer \o t)[i] = IF i <= Len(pcm_buffer) THEN pcm_buffer[i]
                                      ELSE t[i - Len(pcm_buffer)]
      BY <3>1 DEF TypeOK
    <3>3. \A i \in DOMAIN (pcm_buffer \o t) :
            IF i \in DOMAIN pcm_buffer THEN (pcm_buffer \o t)[i] = pcm_buffer[i]
                                       ELSE (pcm_buffer \o t)[i] = u
      BY <3>1, <3>2
    <3>4. /\ DOMAIN pcm_buffer \subseteq DOMAIN (pcm_buffer \o t)
          /\ Len(pcm_buffer) + 1 \in DOMAIN (pcm_buffer \o t)
          /\ Len(pcm_buffer) + 1 \notin DOMAIN pcm_buffer
      BY <3>1, <3>2
    <3>5. pcm_buffer' = pcm_buffer \o t
      BY <2>3 DEF t
    <3> QED
      BY <3>3, <3>4, <3>5 DEF InBuffer
  <2>6. \A v : (Waiting(v)' <=> Waiting(v)) /\ (Reported(v)' <=> Reported(v))
    BY <2>3, <2>4, <2>5 DEF Waiting, Reported
  <2> QED
    BY <2>3, <2>6, NothingHappens DEF client
<1>2. CASE TakeDone /\ Pacing
  <2>1. /\ Receive("Done")
        /\ UNCHANGED <<client, open, running, pcm_buffer, wire, events>>
    BY <1>2 DEF TakeDone, Receive
  <2>2. \A v : (InChannel(v)' <=> InChannel(v)) /\ (InBuffer(v)' <=> InBuffer(v))
    BY <2>1, TakesDone DEF InBuffer
  <2>3. \A v : (Waiting(v)' <=> Waiting(v)) /\ (Reported(v)' <=> Reported(v))
    BY <2>1, <2>2 DEF Waiting, Reported
  <2> QED
    BY <2>1, <2>3, NothingHappens DEF client
<1> QED
  BY <1>1, <1>2

(* With a report the whole buffer is played: what was given up is over     *)
(* with it, and what is handed over and not reported is still expected.    *)
LEMMA ReportStep ==
  ASSUME Inv, Inv', running, NEW u \in Utterances, u \in complete, ~Reported(u), ~InChannel(u),
         u # handed => u \in givenUp,
         UNCHANGED <<client, running>>,
         events' = events \cup {[type |-> "tts_playback_done", utterance |-> u]},
         \A v : (InChannel(v)' <=> InChannel(v)) /\ ~InBuffer(v)',
         \A v \in Utterances : Count(wire', v) = Count(wire, v) + Count(pcm_buffer, v)
  PROVE  PlayerStep
<1> USE DEF Inv
<1> DEFINE us == {v \in Utterances : (v \in givenUp /\ InBuffer(v)) \/ (v = u /\ v \notin givenUp)}
<1>1. \A v \in Utterances : FateTable(v) /\ FateTable(v)' /\ v \in Nat /\ handed \in Nat
  BY Fates
<1>2. \A v \in Utterances : Reported(v)' <=> Reported(v) \/ v = u
  <2>1. [type |-> "tts_playback_done", utterance |-> u] \in events'
    OBVIOUS
  <2>2. \A v : Reported(v)' => Reported(v) \/ v = u
    BY DEF Reported
  <2>3. \A v : Reported(v) \/ v = u => Reported(v)'
    BY <2>1 DEF Reported
  <2> QED
    BY <2>2, <2>3
<1>3. u <= handed /\ (u \notin givenUp => Fate(u) \in {"done", "silent"}) /\ Fate(u)' = "over"
  <2>1. u <= handed
    BY <1>1 DEF ClientInv
  <2>2. FateTable(u) /\ FateTable(u)' /\ Reported(u)' /\ handed' = handed
    BY <1>1, <1>2 DEF client
  <2> QED
    BY <2>1, <2>2 DEF FateTable
<1>4. \A v : InBuffer(v) => /\ v \in 1..handed /\ ~Reported(v) /\ ~InChannel(v)
                            /\ Count(wire, v) + Count(pcm_buffer, v) = length[v]
  <2> SUFFICES ASSUME NEW v, InBuffer(v)
               PROVE  /\ v \in 1..handed /\ ~Reported(v) /\ ~InChannel(v)
                      /\ Count(wire, v) + Count(pcm_buffer, v) = length[v]
    OBVIOUS
  <2>1. PICK i \in DOMAIN pcm_buffer : pcm_buffer[i] = v
    BY DEF InBuffer
  <2>2. /\ v \in 1..handed /\ ~Reported(v)
        /\ Count(wire, v) + Count(pcm_buffer, v) = length[v]
    BY <2>1 DEF BufferInv
  <2>3. ~InChannel(v)
    <3>1. ~(v < v)
      BY <2>2
    <3> QED
      BY <2>1, <3>1, AudioInChannel DEF ChannelInv, WaitsWell, WaitingAudio
  <2> QED
    BY <2>2, <2>3
<1>5. ASSUME NEW v \in Utterances, v \in givenUp, InBuffer(v)
      PROVE  Fate(v) = "orphan" /\ Fate(v)' = "over"
  <2>1. Waiting(v) /\ ~Waiting(v)' /\ v <= handed /\ ~Reported(v)
    BY <1>1, <1>4, <1>5 DEF Waiting
  <2>2. FateTable(v) /\ FateTable(v)' /\ handed' = handed /\ running' = running /\ givenUp' = givenUp
    BY <1>1 DEF client
  <2> QED
    BY <1>5, <2>1, <2>2 DEF FateTable
<1>6. ASSUME NEW v \in Utterances, v \notin us
      PROVE  Fate(v)' = Fate(v)
  <2>1. SentUnits(v) = Count(wire, v) /\ SentUnits(v)' = Count(wire', v)
    BY DEF SentUnits, Count
  <2>2. CASE v = u
    <3>1. v \in givenUp /\ ~InBuffer(v) /\ ~Waiting(v)
      BY <1>6, <2>2 DEF Waiting
    <3>2. Fate(v) = "over"
      BY <1>1, <1>3, <2>2, <3>1 DEF FateTable
    <3>3. Fate(v)' = "over"
      BY <1>3, <2>2
    <3> QED
      BY <3>2, <3>3
  <2>3. CASE v # u /\ ~InBuffer(v)
    <3>1. Waiting(v)' <=> Waiting(v)
      BY <2>3 DEF Waiting
    <3>2. Count(pcm_buffer, v) = 0 /\ Count(wire, v) \in Nat
      BY <2>3, CountType DEF InBuffer, TypeOK
    <3>3. SentUnits(v)' = SentUnits(v)
      BY <2>1, <3>2
    <3>4. Dropped(v)' <=> Dropped(v)
      BY <3>1, <3>3 DEF Dropped, client
    <3> QED
      BY <1>2, <2>3, <3>1, <3>4, FateKept DEF client
  <2>4. CASE v # u /\ InBuffer(v)
    <3>1. v \notin givenUp /\ v <= handed /\ ~Reported(v) /\ ~Reported(v)'
      BY <1>1, <1>2, <1>4, <1>6, <2>4
    <3>2. ~Dropped(v)
      BY <2>4 DEF Dropped, Waiting
    <3>3. SentUnits(v)' = length[v] /\ length' = length /\ length[v] \in Nat
      BY <1>4, <2>1, <2>4, UnitsOf DEF client
    <3>4. ~Dropped(v)'
      BY <3>3 DEF Dropped
    <3>5. /\ FateTable(v) /\ FateTable(v)' /\ handed' = handed /\ running' = running
          /\ givenUp' = givenUp /\ complete' = complete
      BY <1>1 DEF client
    <3> QED
      BY <3>1, <3>2, <3>4, <3>5 DEF FateTable
  <2> QED
    BY <2>2, <2>3, <2>4
<1>7. \A v \in us : Fate(v) \in {"done", "silent", "orphan"} /\ Fate(v)' = "over"
  <2> TAKE v \in us
  <2>1. CASE v \in givenUp /\ InBuffer(v)
    BY <1>5, <2>1
  <2>2. CASE v = u /\ v \notin givenUp
    <3>1. Fate(v)' = "over"
      BY <1>3, <2>2
    <3>2. Fate(v) \in {"done", "silent"}
      BY <1>3, <2>2
    <3> QED
      BY <3>1, <3>2
  <2> QED
    BY <2>1, <2>2
<1>8. ASSUME NEW v \in Utterances
      PROVE  Notified(v)' <=> Notified(v) \/ (v \in us /\ Fate(v) # "orphan")
  <2>1. CASE v \in givenUp
    <3>1. ~Notified(v) /\ ~Notified(v)'
      BY <2>1 DEF Notified, client
    <3>2. v \in us => Fate(v) = "orphan"
      BY <1>5, <2>1
    <3> QED
      BY <3>1, <3>2
  <2>2. CASE v \notin givenUp
    <3>1. v \in us <=> v = u
      BY <2>2
    <3>2. v = u => Fate(v) # "orphan"
      BY <1>3, <2>2
    <3> QED
      BY <1>2, <2>2, <3>1, <3>2 DEF Notified, client
  <2> QED
    BY <2>1, <2>2
<1>9. us \in SUBSET Utterances
  OBVIOUS
<1> HIDE DEF us
<1>10. CASE us = {}
  BY <1>6, <1>8, <1>10, StutterStep DEF PlayerStep
<1>11. CASE us # {}
  BY <1>6, <1>7, <1>8, <1>9, <1>11, PlayedStep DEF PlayerStep
<1> QED
  BY <1>10, <1>11

LEMMA TakeDoneReportsStep ==
  ASSUME Inv, Inv', TakeDone, ~Pacing
  PROVE  PlayerStep
<1> USE DEF Inv
<1>0. PICK u : u = Head(channel).utterance
  OBVIOUS
<1>1. Receive("Done")
  BY DEF TakeDone
<1>2. /\ running /\ wire' = Flushed(wire, pcm_buffer) /\ pcm_buffer' = <<>>
      /\ events' = events \cup {[type |-> "tts_playback_done", utterance |-> u]}
      /\ UNCHANGED <<client, running>>
  BY <1>0, <1>1 DEF TakeDone, Receive, Broadcast
<1>3. /\ WaitingDone(u) /\ u \in Utterances /\ ~InChannel(u)
      /\ \A v : InChannel(v)' <=> InChannel(v)
  BY <1>0, <1>1, TakesDone
<1>4. \A v : ~InBuffer(v)'
  BY <1>2 DEF InBuffer
<1>5. \A v \in Utterances : Count(wire', v) = Count(wire, v) + Count(pcm_buffer, v)
  <2>1. Len(pcm_buffer) < FrameUnits
    BY InjectorAssumption DEF Pacing, TypeOK
  <2> QED
    BY <1>2, <2>1, BufferRuns, LastFrameSent DEF WireInv
<1> QED
  BY <1>2, <1>3, <1>4, <1>5, ReportStep DEF WaitingDone

LEMMA SendFrameReportsStep ==
  ASSUME Inv, Inv', SendFrame, ~(Len(AfterFrame) >= FrameUnits \/ pending_done = None)
  PROVE  PlayerStep
<1> USE DEF Inv
<1>1. /\ running /\ Pacing /\ pending_done # None /\ ~(Len(AfterFrame) >= FrameUnits)
      /\ wire' = Flushed(wire \o FirstFrame, AfterFrame) /\ pcm_buffer' = <<>>
      /\ events' = events \cup {[type |-> "tts_playback_done", utterance |-> pending_done]}
      /\ UNCHANGED <<client, channel, running>>
  BY DEF SendFrame, Broadcast
<1>2. /\ pending_done \in Utterances /\ pending_done \in complete
      /\ ~Reported(pending_done) /\ ~InChannel(pending_done)
      /\ pending_done # handed => pending_done \in givenUp
  BY <1>1, NothingBehind DEF PendingInv
<1>3. \A v : (InChannel(v)' <=> InChannel(v)) /\ ~InBuffer(v)'
  BY <1>1 DEF InBuffer, InChannel
<1>4. \A v \in Utterances : Count(wire', v) = Count(wire, v) + Count(pcm_buffer, v)
  <2>1. Len(AfterFrame) < FrameUnits
    BY <1>1, Framing, InjectorAssumption
  <2> QED
    BY <1>1, <2>1, TailSent
<1> QED
  BY <1>1, <1>2, <1>3, <1>4, ReportStep

(* A frame may end what waits of an utterance never declared complete.     *)
LEMMA SendFramePlainStep ==
  ASSUME Inv, Inv', SendFrame, Len(AfterFrame) >= FrameUnits \/ pending_done = None
  PROVE  PlayerStep
<1> USE DEF Inv
<1>1. /\ running /\ Pacing
      /\ wire' = wire \o FirstFrame /\ pcm_buffer' = AfterFrame
      /\ UNCHANGED <<client, channel, running, events>>
  BY DEF SendFrame
<1>2. \A v : (InChannel(v)' <=> InChannel(v)) /\ (Reported(v)' <=> Reported(v))
  BY <1>1 DEF InChannel, Reported
<1>3. /\ FirstFrame \in Seq(Utterances)
      /\ \A i \in DOMAIN FirstFrame :
           i \in DOMAIN pcm_buffer /\ FirstFrame[i] = pcm_buffer[i]
      /\ AfterFrame \in Seq(Utterances)
      /\ \A i \in DOMAIN AfterFrame :
           i + FrameUnits \in DOMAIN pcm_buffer /\ AfterFrame[i] = pcm_buffer[i + FrameUnits]
  BY <1>1, Framing
<1>4. \A v : InBuffer(v)' => InBuffer(v)
  BY <1>1, <1>3 DEF InBuffer
<1>5. \A v : /\ SentUnits(v) = Count(wire, v) /\ SentUnits(v)' = Count(wire', v)
             /\ Count(wire, v) \in Nat /\ Count(pcm_buffer, v) \in Nat
             /\ Count(wire', v) + Count(pcm_buffer', v) = Count(wire, v) + Count(pcm_buffer, v)
             /\ Count(wire', v) \in Nat /\ Count(pcm_buffer', v) \in Nat
             /\ Count(wire', v) >= Count(wire, v)
             /\ ~InBuffer(v) <=> Count(pcm_buffer, v) = 0
             /\ ~InBuffer(v)' <=> Count(pcm_buffer', v) = 0
  <2> TAKE v
  <2>1. SentUnits(v) = Count(wire, v) /\ SentUnits(v)' = Count(wire', v)
    BY DEF SentUnits, Count
  <2>2. /\ Count(wire, v) \in Nat /\ Count(FirstFrame, v) \in Nat /\ Count(AfterFrame, v) \in Nat
        /\ ~InBuffer(v) <=> Count(pcm_buffer, v) = 0
    BY <1>3, CountType DEF TypeOK, InBuffer
  <2>3. ~InBuffer(v)' <=> Count(pcm_buffer', v) = 0
    <3>1. Count(pcm_buffer', v) = 0 <=> \A i \in DOMAIN pcm_buffer' : pcm_buffer'[i] # v
      <4>1. pcm_buffer' \in Seq(Utterances)
        BY <1>1, <1>3
      <4> QED
        BY <4>1, CountType
    <3> QED
      BY <3>1 DEF InBuffer
  <2>4. /\ Count(wire', v) = Count(wire, v) + Count(FirstFrame, v)
        /\ Count(FirstFrame, v) + Count(pcm_buffer', v) = Count(pcm_buffer, v)
        /\ Count(pcm_buffer', v) = Count(AfterFrame, v)
    BY <1>1, Framing, FirstFrameSent
  <2> QED
    BY <2>1, <2>2, <2>3, <2>4
<1> DEFINE us == {v \in givenUp : InBuffer(v) /\ ~InBuffer(v)'}
<1>6. \A v \in Utterances : FateTable(v) /\ FateTable(v)' /\ v \in Nat /\ handed \in Nat
  BY Fates
<1>7. \A v : InBuffer(v) => /\ v \in 1..handed /\ ~Reported(v) /\ ~InChannel(v)
                            /\ Count(wire, v) + Count(pcm_buffer, v) = length[v]
  <2> SUFFICES ASSUME NEW v, InBuffer(v)
               PROVE  /\ v \in 1..handed /\ ~Reported(v) /\ ~InChannel(v)
                      /\ Count(wire, v) + Count(pcm_buffer, v) = length[v]
    OBVIOUS
  <2>1. PICK i \in DOMAIN pcm_buffer : pcm_buffer[i] = v
    BY DEF InBuffer
  <2>2. /\ v \in 1..handed /\ ~Reported(v)
        /\ Count(wire, v) + Count(pcm_buffer, v) = length[v]
    BY <2>1 DEF BufferInv
  <2>3. ~InChannel(v)
    <3>1. ~(v < v)
      BY <2>2
    <3> QED
      BY <2>1, <3>1, AudioInChannel DEF ChannelInv, WaitsWell, WaitingAudio
  <2> QED
    BY <2>2, <2>3
<1>8. ASSUME NEW v \in us
      PROVE  v \in Utterances /\ Fate(v) = "orphan" /\ Fate(v)' = "over"
  <2>1. v \in Utterances /\ v \in givenUp /\ v <= handed /\ ~Reported(v)
    BY <1>7, <1>8 DEF TypeOK
  <2>2. Waiting(v) /\ ~Waiting(v)'
    BY <1>2, <1>7, <1>8 DEF Waiting
  <2> QED
    BY <1>1, <1>2, <1>6, <2>1, <2>2 DEF FateTable, client
<1>9. ASSUME NEW v \in Utterances, v \notin us
      PROVE  Fate(v)' = Fate(v)
  <2>1. CASE InBuffer(v)' <=> InBuffer(v)
    <3>1. Waiting(v)' <=> Waiting(v)
      BY <1>2, <2>1 DEF Waiting
    <3>2. ~Waiting(v) => SentUnits(v)' = SentUnits(v)
      BY <1>5, <2>1 DEF Waiting
    <3>3. Dropped(v)' <=> Dropped(v)
      BY <1>1, <3>1, <3>2 DEF Dropped, client
    <3> QED
      BY <1>1, <1>2, <3>1, <3>3, FateKept DEF client
  <2>2. CASE InBuffer(v) /\ ~InBuffer(v)'
    <3>1. /\ v <= handed /\ ~Reported(v) /\ v \notin givenUp
      BY <1>6, <1>7, <1>9, <2>2
    <3>2. ~Dropped(v)
      BY <2>2 DEF Dropped, Waiting
    <3>3. SentUnits(v)' = length[v]
      BY <1>5, <1>7, <2>2
    <3>4. ~Dropped(v)'
      <4>1. length' = length /\ length[v] \in Nat
        BY <1>1, UnitsOf DEF client
      <4> QED
        BY <3>3, <4>1 DEF Dropped
    <3> QED
      BY <1>1, <1>2, <1>6, <3>1, <3>2, <3>4 DEF FateTable, client
  <2> QED
    BY <1>4, <2>1, <2>2
<1> HIDE DEF us
<1>9a. \A v \in Utterances : Notified(v)' <=> Notified(v)
  BY <1>1, <1>2 DEF Notified, client
<1>10. CASE us = {}
  BY <1>9, <1>9a, <1>10, StutterStep DEF PlayerStep
<1>11. CASE us # {}
  <2>1. us \in SUBSET Utterances
    BY <1>8
  <2>2. \A v \in us : Fate(v) \in {"done", "silent", "orphan"}
    BY <1>8
  <2>3. \A v \in Utterances : Fate(v)' = IF v \in us THEN "over" ELSE Fate(v)
    BY <1>8, <1>9
  <2>4. \A v \in Utterances : Notified(v)' <=> Notified(v) \/ (v \in us /\ Fate(v) # "orphan")
    BY <1>8, <1>9a
  <2> QED
    BY <1>11, <2>1, <2>2, <2>3, <2>4, PlayedStep DEF PlayerStep
<1> QED
  BY <1>10, <1>11

(* A cancel hits what is in the buffer and names what is current.          *)
LEMMA TakeCancelStep ==
  ASSUME Inv, Inv', TakeCancel
  PROVE  PlayerStep
<1> USE DEF Inv
<1>1. /\ Receive("Cancel") /\ running /\ pcm_buffer' = <<>>
      /\ events' = events \cup {[type |-> "tts_playback_cancelled",
                                 utterance |-> current_utterance_id]}
      /\ UNCHANGED <<client, running, wire>>
  BY DEF TakeCancel, Receive, Broadcast
<1>2. PICK id \in Utterances \cup {None} : id = current_utterance_id
  BY DEF TypeOK
<1>3. \A v : Reported(v)' <=> Reported(v) \/ v = id
  <2>1. [type |-> "tts_playback_cancelled", utterance |-> id] \in events'
    BY <1>1, <1>2
  <2>2. \A v : Reported(v)' => Reported(v) \/ v = id
    BY <1>1, <1>2 DEF Reported
  <2>3. \A v : Reported(v) \/ v = id => Reported(v)'
    BY <1>1, <2>1 DEF Reported
  <2> QED
    BY <2>2, <2>3
<1>4. \A v : InChannel(v)' <=> InChannel(v)
  <2>1. \A v : Head(channel) # Audio(v)
    BY <1>1, Takes DEF Audio
  <2> QED
    BY <1>1, <2>1, Takes
<1>5. \A v \in Utterances : FateTable(v) /\ FateTable(v)' /\ v \in Nat /\ handed \in Nat
  BY Fates
<1> DEFINE hit == {v \in Utterances : InBuffer(v)}
<1>6. ASSUME NEW v \in hit
      PROVE  /\ v <= handed /\ ~Reported(v) /\ Waiting(v) /\ ~Dropped(v)
             /\ ~Waiting(v)' /\ Dropped(v)'
  <2>1. PICK i \in DOMAIN pcm_buffer : pcm_buffer[i] = v
    BY <1>6 DEF InBuffer
  <2>2. /\ v \in 1..handed /\ ~Reported(v)
        /\ Count(wire, v) + Count(pcm_buffer, v) = length[v]
    BY <2>1 DEF BufferInv
  <2>3. ~InChannel(v)
    <3>1. ~(v < v)
      BY <2>2
    <3> QED
      BY <2>1, <3>1, AudioInChannel DEF ChannelInv, WaitsWell, WaitingAudio
  <2>4. Waiting(v) /\ ~Dropped(v) /\ ~Waiting(v)'
    BY <1>1, <1>4, <1>6, <2>3 DEF Waiting, Dropped, InBuffer
  <2>5. Count(wire, v) \in Nat /\ Count(pcm_buffer, v) \in Nat /\ Count(pcm_buffer, v) # 0
    BY <2>1, CountType DEF TypeOK
  <2>6. SentUnits(v)' = Count(wire, v)
    BY <1>1 DEF SentUnits, Count
  <2>7. Dropped(v)'
    BY <1>1, <2>2, <2>4, <2>5, <2>6 DEF Dropped, client
  <2> QED
    BY <1>5, <2>2, <2>4, <2>7
<1>7. ASSUME NEW v \in hit
      PROVE  /\ v \in givenUp => Fate(v) = "orphan"
             /\ v \in complete \ givenUp => Fate(v) = "done"
             /\ v \notin complete \cup givenUp => Fate(v) = "audio"
  BY <1>1, <1>5, <1>6 DEF FateTable
<1>8. ASSUME NEW v \in Utterances, v \notin hit, v # id
      PROVE  Fate(v)' = Fate(v)
  <2>1. Waiting(v)' <=> Waiting(v)
    BY <1>1, <1>4, <1>8 DEF Waiting, InBuffer
  <2>2. Dropped(v)' <=> Dropped(v)
    BY <1>1, <2>1 DEF Dropped, SentUnits, client
  <2> QED
    BY <1>1, <1>3, <1>8, <2>1, <2>2, FateKept DEF client
<1>9. ASSUME NEW v \in hit, v # id
      PROVE  /\ v \in givenUp => Fate(v)' = "over"
             /\ v \in complete \ givenUp => Fate(v)' = "silent"
             /\ v \notin complete \cup givenUp => Fate(v)' = "cut"
  BY <1>1, <1>3, <1>5, <1>6, <1>9 DEF FateTable, client
<1>10. ASSUME id # None
       PROVE  /\ id \in Utterances /\ Fate(id)' = "over"
              /\ id \in givenUp => Fate(id) = "over" \/ (id \in hit /\ Fate(id) = "orphan")
              /\ id \notin givenUp => Fate(id) = "over" \/ (id \in hit /\ Fate(id) = "done")
  <2>1. id \in Utterances /\ id \in complete /\ id <= handed
    BY <1>2, <1>5, <1>10 DEF ClientInv
  <2>2. Fate(id)' = "over"
    BY <1>1, <1>3, <1>5, <2>1 DEF FateTable, client
  <2>3. CASE Reported(id)
    <3>1. FateTable(id)
      BY <1>5, <2>1
    <3>2. Fate(id) = "over"
      BY <2>1, <2>3, <3>1 DEF FateTable
    <3> QED
      BY <2>1, <2>2, <3>2
  <2>4. CASE ~Reported(id) /\ id \in givenUp
    <3>1. CASE id \in hit
      BY <1>7, <2>1, <2>2, <2>4, <3>1
    <3>2. CASE id \notin hit
      <4>1. ~InChannel(id)
        BY <1>2, AudioInChannel DEF ChannelInv, WaitsWell, WaitingAudio
      <4>2. ~Waiting(id)
        BY <2>1, <3>2, <4>1 DEF Waiting
      <4> QED
        BY <1>1, <1>5, <2>1, <2>2, <2>4, <4>2 DEF FateTable
    <3> QED
      BY <3>1, <3>2
  <2>5. CASE ~Reported(id) /\ id \notin givenUp
    <3>1. pending_done # None
      BY <1>1, <1>2, <1>10, <2>5 DEF PendingInv
    <3>2. id \in hit
      BY <1>1, <1>2, <2>1, <2>5, <3>1 DEF PendingInv
    <3> QED
      BY <1>7, <2>1, <2>2, <2>5, <3>2
  <2> QED
    BY <2>3, <2>4, <2>5
<1> HIDE DEF hit
<1>11. hit \in SUBSET Utterances
  BY DEF hit
<1>12. \A v \in hit : Fate(v) \in {"audio", "done", "orphan"}
  BY <1>7
<1>12a. PICK rid \in Utterances \cup {None} : rid = IF id \in givenUp THEN None ELSE id
  BY <1>2
<1>13. ASSUME NEW v \in Utterances
       PROVE  Fate(v)' = CASE v = rid \/ (v \in hit /\ Fate(v) = "orphan") -> "over"
                           [] v # rid /\ v \in hit /\ Fate(v) = "audio"    -> "cut"
                           [] v # rid /\ v \in hit /\ Fate(v) = "done"     -> "silent"
                           [] OTHER                                       -> Fate(v)
  <2>1. CASE v = id
    <3>1. v # None
      BY DEF None, Utterances
    <3>2. Fate(v)' = "over"
      BY <1>10, <2>1, <3>1
    <3>3. CASE v \notin givenUp
      BY <1>12a, <2>1, <3>2, <3>3
    <3>4. CASE v \in givenUp
      <4>1. v # rid
        BY <1>12a, <2>1, <3>1, <3>4
      <4>2. Fate(v) = "over" \/ (v \in hit /\ Fate(v) = "orphan")
        BY <1>10, <2>1, <3>1, <3>4
      <4> QED
        BY <3>2, <4>1, <4>2
    <3> QED
      BY <3>3, <3>4
  <2>2. CASE v # id /\ v \notin hit
    <3>1. v # rid \/ rid = None
      BY <1>12a, <2>2
    <3>2. v # None
      BY DEF None, Utterances
    <3> QED
      BY <1>8, <2>2, <3>1, <3>2
  <2>3. CASE v # id /\ v \in hit
    <3>0. v # rid
      BY <1>12a, <2>3 DEF None, Utterances
    <3>1. CASE v \in givenUp
      BY <1>7, <1>9, <2>3, <3>0, <3>1
    <3>2. CASE v \in complete \ givenUp
      BY <1>7, <1>9, <2>3, <3>0, <3>2
    <3>3. CASE v \notin complete \cup givenUp
      BY <1>7, <1>9, <2>3, <3>0, <3>3
    <3> QED
      BY <3>1, <3>2, <3>3
  <2> QED
    BY <2>1, <2>2, <2>3
<1>14. ASSUME NEW v \in Utterances
       PROVE  Notified(v)' <=> Notified(v) \/ v = rid
  <2>1. v # None
    BY DEF None, Utterances
  <2> QED
    BY <1>1, <1>3, <1>12a, <2>1 DEF Notified, client
<1>15. Player!PlayerNext
  <2>1. rid = None \/ Fate(rid) = "over" \/ (rid \in hit /\ Fate(rid) = "done")
    <3>1. CASE rid # None
      <4>1. rid = id /\ id \notin givenUp
        BY <1>12a, <3>1
      <4> QED
        BY <1>10, <3>1, <4>1
    <3> QED
      BY <3>1
  <2> QED
    BY <1>11, <1>12, <1>13, <1>14, <2>1, CancelStep
<1> QED
  BY <1>15 DEF PlayerStep

LEMMA ChannelClosedStep ==
  ASSUME Inv, Inv', ChannelClosed
  PROVE  PlayerStep
<1>1. running' = FALSE /\ UNCHANGED <<handed, events>>
  BY DEF ChannelClosed, client
<1>2. \A v \in Utterances : Reported(v)' <=> Reported(v)
  BY <1>1 DEF Reported
<1>2a. \A v \in Utterances : Notified(v)' <=> Notified(v)
  BY <1>2 DEF Notified, ChannelClosed, client
<1>3. \A v \in Utterances : FateTable(v) /\ FateTable(v)' /\ v \in Nat /\ handed \in Nat
  BY Fates
<1>4. \A v \in Utterances : Fate(v)' = IF Fate(v) = "none" THEN "none" ELSE "over"
  BY <1>1, <1>3 DEF FateTable
<1> QED
  BY <1>2a, <1>4, RemoveStep DEF PlayerStep

(* The task implements the promises SpeechQueue is built on: whatever the  *)
(* requests and their order, what tts.rs does to the audio of an utterance *)
(* and the events it broadcasts are a behaviour of TtsPlayer.              *)
THEOREM Refinement == Spec => ImplementsPlayer
<1>1. Init => Player!PlayerInit
  <2> SUFFICES ASSUME Init PROVE Player!PlayerInit
    OBVIOUS
  <2>1. Inv /\ handed = 0 /\ \A v : ~Reported(v)
    BY InitInv DEF Init, Reported
  <2>2. \A v \in Utterances : Fate(v) = "none"
    BY <2>1, FateIs DEF FateTable, Utterances
  <2> QED
    BY <2>1, <2>2 DEF Player!PlayerInit
<1>2. ASSUME Inv, Inv', [Next]_vars
      PROVE  [Player!PlayerNext]_(Player!playerVars)
  <2>1. CASE HandOver
    BY <1>2, <2>1, HandOverStep DEF PlayerStep
  <2>2. CASE DeclareComplete \/ GiveUp \/ RequestCancel \/ RemoveSession
    BY <1>2, <2>2, RequestStep DEF PlayerStep
  <2>3. CASE SendFrame
    BY <1>2, <2>3, SendFramePlainStep, SendFrameReportsStep DEF PlayerStep
  <2>4. CASE TakeAudio \/ TakeDone
    BY <1>2, <2>4, ReceiveStep, TakeDoneReportsStep DEF PlayerStep
  <2>5. CASE TakeCancel
    BY <1>2, <2>5, TakeCancelStep DEF PlayerStep
  <2>6. CASE ChannelClosed
    BY <1>2, <2>6, ChannelClosedStep DEF PlayerStep
  <2>7. CASE UNCHANGED vars
    <3>1. UNCHANGED <<length, handed, running, complete, givenUp, wire, events, pcm_buffer, channel>>
      BY <2>7 DEF vars, client, task
    <3>2. \A v : (Reported(v)' <=> Reported(v)) /\ (Waiting(v)' <=> Waiting(v))
      BY <3>1 DEF Reported, Waiting, InBuffer, InChannel
    <3> QED
      BY <1>2, <3>1, <3>2, NothingHappens DEF PlayerStep
  <2> QED
    BY <1>2, <2>1, <2>2, <2>3, <2>4, <2>5, <2>6, <2>7 DEF Next, Command
<1> QED
  BY <1>1, <1>2, Invariance, PTL DEF Spec, ImplementsPlayer, Player!PlayerSpec
===============================================================================
