---------------------------- MODULE TtsClientProofs ----------------------------
(***************************************************************************)
(* For any requests, clients and losses: a promise of synthesize() that    *)
(* has not settled is held exactly once, by the client the controller has  *)
(* now, and the sound a request is given is its own unless a request has   *)
(* timed out on the connection.                                            *)
(*                                                                         *)
(* Neither is inductive.  Connected says what can be under way on a        *)
(* connection where nothing has timed out: the request in flight is with   *)
(* the service, or its answer is on its way, or its sound has come and the *)
(* rest of its answer has not.                                             *)
(***************************************************************************)
EXTENDS TtsClient, SequenceTheorems, TLAPS

PendingRequests == {r \in Requests : Pending(r)}

Held(k) == InFlight(k) \cup Queued(k)

(* Nothing is held twice.                                                  *)
HeldOnce(k) ==
  /\ \A i, j \in DOMAIN k.queue : k.queue[i] = k.queue[j] => i = j
  /\ k.active \notin Queued(k)

Sound(r) == [type |-> "chunk", req |-> r]
Done(r) == [type |-> "tts_done", req |-> r]
Failure(r) == [type |-> "error", req |-> r]

AtService(k) == k.inbox = <<k.active>> /\ k.wire = <<>> /\ k.chunks = <<>>

Answered(k) ==
  /\ k.inbox = <<>> /\ k.chunks = <<>>
  /\ k.wire \in {<<Sound(k.active), Done(k.active)>>, <<Failure(k.active)>>,
                 <<Sound(k.active), Failure(k.active)>>}

Heard(k) ==
  /\ k.inbox = <<>> /\ k.chunks = <<k.active>>
  /\ k.wire \in {<<Done(k.active)>>, <<Failure(k.active)>>}

Connected(k) ==
  /\ k.ws # "open" => k.active = None /\ k.inbox = <<>> /\ k.wire = <<>> /\ ~k.late
  /\ ~k.late /\ k.active = None => k.inbox = <<>> /\ k.wire = <<>>
  /\ ~k.late /\ k.active # None => AtService(k) \/ Answered(k) \/ Heard(k)

Inv ==
  /\ TtsClientTypeOK
  /\ \A c \in Clients : /\ Held(client[c]) = IF c = current THEN PendingRequests ELSE {}
                        /\ HeldOnce(client[c])
                        /\ Connected(client[c])
                        /\ c > current => client[c] = NewClient
  /\ OwnAudioUnlessLate

-----------------------------------------------------------------------------
(* What the helpers on one client do.                                      *)

LEMMA NoneIsNoRequest == None \notin Requests
BY TtsClientAssumption

LEMMA NewClientHolds ==
  /\ NewClient \in ClientRecords
  /\ Held(NewClient) = {} /\ HeldOnce(NewClient) /\ Connected(NewClient)
BY DEF NewClient, ClientRecords, Held, InFlight, Queued, HeldOnce, Connected

(* The records the actions build are clients.                              *)
LEMMA QueueRecord ==
  ASSUME NEW k \in ClientRecords, NEW q \in Seq(Requests)
  PROVE  [k EXCEPT !.queue = q] \in ClientRecords
BY Zenon DEF ClientRecords

LEMMA SentRecord ==
  ASSUME NEW k \in ClientRecords, NEW r \in Requests, NEW q \in Seq(Requests),
         NEW chunks \in Seq(Requests), NEW inbox \in Seq(Requests)
  PROVE  [k EXCEPT !.active = r, !.queue = q, !.chunks = chunks, !.inbox = inbox]
           \in ClientRecords
BY Zenon DEF ClientRecords

LEMMA SocketRecord ==
  ASSUME NEW k \in ClientRecords, NEW ws \in {"none", "connecting", "open"}
  PROVE  /\ [k EXCEPT !.ws = ws] \in ClientRecords
         /\ [k EXCEPT !.timer = FALSE, !.ws = ws] \in ClientRecords
BY Zenon DEF ClientRecords

LEMMA TimerRecord ==
  ASSUME NEW k \in ClientRecords
  PROVE  /\ [k EXCEPT !.timer = TRUE] \in ClientRecords
         /\ [k EXCEPT !.closing = FALSE, !.timer = TRUE] \in ClientRecords
BY Zenon DEF ClientRecords

LEMMA OverRecord ==
  ASSUME NEW k \in ClientRecords
  PROVE  /\ [k EXCEPT !.active = None] \in ClientRecords
         /\ [k EXCEPT !.late = TRUE] \in ClientRecords
BY Zenon DEF ClientRecords

LEMMA WireRecord ==
  ASSUME NEW k \in ClientRecords, NEW w \in Seq(Messages)
  PROVE  [k EXCEPT !.wire = w] \in ClientRecords
BY Zenon DEF ClientRecords

LEMMA AnswerRecord ==
  ASSUME NEW k \in ClientRecords, NEW inbox \in Seq(Requests), NEW w \in Seq(Messages)
  PROVE  [k EXCEPT !.inbox = inbox, !.wire = w] \in ClientRecords
BY Zenon DEF ClientRecords

LEMMA ChunkRecord ==
  ASSUME NEW k \in ClientRecords, NEW w \in Seq(Messages), NEW chunks \in Seq(Requests)
  PROVE  [k EXCEPT !.wire = w, !.chunks = chunks] \in ClientRecords
BY Zenon DEF ClientRecords

LEMMA ClosedRecord ==
  ASSUME NEW k \in ClientRecords, NEW closing \in BOOLEAN, <<>> \in Seq(Requests)
  PROVE  [k EXCEPT !.timer = FALSE, !.queue = <<>>, !.closing = closing] \in ClientRecords
BY Zenon DEF ClientRecords

LEMMA GoneRecord ==
  ASSUME NEW k \in ClientRecords, <<>> \in Seq(Requests), <<>> \in Seq(Messages)
  PROVE  Unplugged(k) \in ClientRecords
BY Zenon DEF ClientRecords, Unplugged

LEMMA UnpluggedRecord ==
  ASSUME NEW k \in ClientRecords
  PROVE  LET j == Unplugged(k)
         IN  /\ j \in ClientRecords /\ j.ws = "none" /\ j.active = None
             /\ j.inbox = <<>> /\ j.wire = <<>> /\ j.late = FALSE /\ j.queue = k.queue
<1>1. <<>> \in Seq(Requests) /\ <<>> \in Seq(Messages)
  OBVIOUS
<1>2. Unplugged(k) \in ClientRecords
  BY <1>1, GoneRecord
<1> QED BY <1>2 DEF Unplugged, ClientRecords

(* drainQueue() moves a request and holds the same as before.              *)
LEMMA DrainedHolds ==
  ASSUME NEW k \in ClientRecords, HeldOnce(k), Connected(k)
  PROVE  /\ Drained(k) \in ClientRecords
         /\ Held(Drained(k)) = Held(k)
         /\ HeldOnce(Drained(k))
         /\ Connected(Drained(k))
<1>1. CASE k.active # None \/ k.queue = <<>> \/ k.ws # "open"
  <2>1. Drained(k) = k
    BY <1>1 DEF Drained
  <2> QED BY <2>1
<1>2. CASE k.active = None /\ k.queue # <<>> /\ k.ws = "open"
  <2> DEFINE r == Head(k.queue)
             d == [k EXCEPT !.active = r, !.queue = Tail(@), !.chunks = <<>>,
                            !.inbox = Append(@, r)]
  <2>1. Drained(k) = d
    BY <1>2 DEF Drained
  <2>2. /\ k.queue \in Seq(Requests) /\ k.queue # <<>>
        /\ k.chunks \in Seq(Requests) /\ k.inbox \in Seq(Requests)
        /\ r \in Requests /\ Tail(k.queue) \in Seq(Requests)
        /\ Append(k.inbox, r) \in Seq(Requests)
        /\ r = k.queue[1] /\ 1 \in DOMAIN k.queue
        /\ Len(Tail(k.queue)) = Len(k.queue) - 1
        /\ \A i \in 1..(Len(k.queue) - 1) : Tail(k.queue)[i] = k.queue[i + 1]
    BY <1>2 DEF ClientRecords
  <2>3. d \in ClientRecords
    <3>1. <<>> \in Seq(Requests)
      OBVIOUS
    <3> HIDE DEF r
    <3> QED BY <3>1, <2>2, SentRecord
  <2>4. d.active = r /\ d.queue = Tail(k.queue) /\ d.chunks = <<>>
        /\ d.inbox = Append(k.inbox, r) /\ d.wire = k.wire /\ d.late = k.late /\ d.ws = k.ws
    BY DEF ClientRecords
  <2>5. r # None
    BY <2>2, NoneIsNoRequest
  <2>6. Queued(k) = Queued(d) \cup {r}
    <3>1. ASSUME NEW i \in DOMAIN k.queue PROVE k.queue[i] \in Queued(d) \cup {r}
      <4>1. CASE i = 1
        BY <4>1, <2>2
      <4>2. CASE i # 1
        <5>1. i - 1 \in 1..(Len(k.queue) - 1) /\ (i - 1) + 1 = i
          BY <4>2, <2>2
        <5>2. i - 1 \in DOMAIN Tail(k.queue) /\ Tail(k.queue)[i - 1] = k.queue[i]
          BY <5>1, <2>2
        <5> QED BY <5>2, <2>4 DEF Queued
      <4> QED BY <4>1, <4>2
    <3>2. ASSUME NEW i \in DOMAIN Tail(k.queue) PROVE Tail(k.queue)[i] \in Queued(k)
      <4>1. i \in 1..(Len(k.queue) - 1) /\ i + 1 \in DOMAIN k.queue
        BY <2>2
      <4> QED BY <4>1, <2>2 DEF Queued
    <3> QED BY <3>1, <3>2, <2>2, <2>4 DEF Queued
  <2>7. Held(d) = Held(k)
    BY <2>4, <2>5, <2>6, <1>2 DEF Held, InFlight
  <2>8. HeldOnce(d)
    <3>1. ASSUME NEW i \in DOMAIN d.queue, NEW j \in DOMAIN d.queue, d.queue[i] = d.queue[j]
          PROVE  i = j
      <4>1. /\ i \in 1..(Len(k.queue) - 1) /\ i + 1 \in DOMAIN k.queue
            /\ j \in 1..(Len(k.queue) - 1) /\ j + 1 \in DOMAIN k.queue
        BY <2>2, <2>4
      <4>2. k.queue[i + 1] = k.queue[j + 1]
        BY <3>1, <4>1, <2>2, <2>4
      <4>3. i + 1 = j + 1
        BY <4>1, <4>2 DEF HeldOnce
      <4> QED BY <4>1, <4>3
    <3>2. ASSUME NEW i \in DOMAIN d.queue PROVE d.queue[i] # r
      <4>1. i \in 1..(Len(k.queue) - 1) /\ i + 1 \in DOMAIN k.queue /\ i + 1 # 1
        BY <2>2, <2>4
      <4>2. d.queue[i] = k.queue[i + 1]
        BY <4>1, <2>2, <2>4
      <4> QED BY <4>1, <4>2, <2>2 DEF HeldOnce
    <3> QED BY <3>1, <3>2, <2>4 DEF HeldOnce, Queued
  <2>9. Connected(d)
    <3>1. CASE k.late
      BY <3>1, <2>4, <1>2 DEF Connected
    <3>2. CASE ~k.late
      <4>1. k.inbox = <<>> /\ k.wire = <<>>
        BY <3>2, <1>2 DEF Connected
      <4>2. Append(<<>>, r) = <<r>>
        BY <2>2
      <4>3. d.inbox = <<r>> /\ d.wire = <<>>
        BY <4>1, <4>2, <2>4
      <4> QED BY <3>2, <4>3, <2>4, <2>5, <1>2 DEF Connected, AtService
    <3> QED BY <3>1, <3>2 DEF ClientRecords
  <2> QED BY <2>1, <2>3, <2>7, <2>8, <2>9
<1> QED BY <1>1, <1>2

(* A client whose requests are as they were holds the same.                *)
LEMMA SameRequests ==
  ASSUME NEW k \in ClientRecords, NEW j \in ClientRecords, HeldOnce(k), Connected(k),
         j.active = k.active, j.queue = k.queue, j.chunks = k.chunks,
         j.inbox = k.inbox, j.wire = k.wire, j.late = k.late,
         k.ws = "open" => j.ws = "open"
  PROVE  Held(j) = Held(k) /\ HeldOnce(j) /\ Connected(j)
<1>1. Held(j) = Held(k) /\ HeldOnce(j)
  BY DEF Held, InFlight, Queued, HeldOnce
<1>2. AtService(k) => AtService(j)
  BY DEF AtService
<1>3. Answered(k) => Answered(j)
  BY DEF Answered
<1>4. Heard(k) => Heard(j)
  BY DEF Heard
<1> QED BY <1>1, <1>2, <1>3, <1>4 DEF Connected

(* A client whose request in flight is over still holds those that wait.   *)
LEMMA Finished ==
  ASSUME NEW k \in ClientRecords, NEW j \in ClientRecords, HeldOnce(k),
         j.active = None, j.queue = k.queue
  PROVE  Held(j) = Held(k) \ InFlight(k) /\ HeldOnce(j)
<1>1. Queued(j) = Queued(k) /\ Queued(k) \subseteq Requests
  BY DEF Queued, ClientRecords
<1>2. None \notin Queued(j)
  BY <1>1, NoneIsNoRequest
<1> QED BY <1>1, <1>2 DEF Held, InFlight, HeldOnce

(* A request that is new is added.                                         *)
LEMMA Added ==
  ASSUME NEW k \in ClientRecords, NEW r \in Requests, r \notin Held(k),
         HeldOnce(k), Connected(k)
  PROVE  LET j == Enqueued(k, r)
         IN  /\ j \in ClientRecords /\ Held(j) = Held(k) \cup {r}
             /\ HeldOnce(j) /\ Connected(j)
<1> DEFINE j == Enqueued(k, r)
           n == Len(k.queue)
<1>1. k.queue \in Seq(Requests) /\ n \in Nat
  BY DEF ClientRecords
<1>2. /\ j.queue = Append(k.queue, r) /\ Append(k.queue, r) \in Seq(Requests)
      /\ j.active = k.active /\ j.chunks = k.chunks /\ j.inbox = k.inbox
      /\ j.wire = k.wire /\ j.late = k.late /\ j.ws = k.ws
  BY <1>1 DEF ClientRecords, Enqueued
<1>3. j \in ClientRecords
  BY <1>2, QueueRecord DEF Enqueued
<1>4. /\ DOMAIN j.queue = 1..(n + 1) /\ DOMAIN k.queue = 1..n
      /\ j.queue[n + 1] = r
      /\ \A i \in 1..n : j.queue[i] = k.queue[i]
  BY <1>1, <1>2
<1> HIDE DEF j
<1>5. Queued(j) = Queued(k) \cup {r}
  BY <1>1, <1>4 DEF Queued
<1>6. Held(j) = Held(k) \cup {r}
  BY <1>2, <1>5 DEF Held, InFlight
<1>7. HeldOnce(j)
  <2>1. ASSUME NEW a \in DOMAIN j.queue, NEW b \in DOMAIN j.queue, j.queue[a] = j.queue[b]
        PROVE  a = b
    <3>1. ASSUME NEW i \in 1..n PROVE j.queue[i] # r
      BY <1>4 DEF Held, Queued
    <3>2. CASE a = n + 1
      BY <1>1, <1>4, <2>1, <3>1, <3>2
    <3>3. CASE b = n + 1
      BY <1>1, <1>4, <2>1, <3>1, <3>3
    <3>4. CASE a # n + 1 /\ b # n + 1
      <4>1. a \in 1..n /\ b \in 1..n
        BY <1>1, <1>4, <3>4
      <4> QED BY <4>1, <1>4, <2>1 DEF HeldOnce
    <3> QED BY <3>2, <3>3, <3>4
  <2>2. j.active \notin Queued(j)
    <3>1. j.active # r
      BY <1>2, NoneIsNoRequest DEF Held, InFlight, HeldOnce
    <3> QED BY <3>1, <1>2, <1>5 DEF HeldOnce
  <2> QED BY <2>1, <2>2 DEF HeldOnce
<1>8. Connected(j)
  BY <1>2 DEF Connected, AtService, Answered, Heard
<1> QED BY <1>3, <1>6, <1>7, <1>8 DEF j

(* What Rejected does to the promises.                                     *)
LEMMA RejectedSettles ==
  ASSUME TtsClientTypeOK, NEW rs, Rejected(rs)
  PROVE  /\ outcome' \in [Requests -> Outcomes]
         /\ PendingRequests' = PendingRequests \ rs
         /\ \A r \in Requests : outcome'[r] = "resolved" => outcome[r] = "resolved"
<1>1. /\ DOMAIN outcome' = Requests
      /\ \A r \in Requests : outcome'[r] = IF r \in rs THEN "rejected" ELSE outcome[r]
  BY DEF Rejected
<1>2. outcome' \in [Requests -> Outcomes]
  BY DEF Rejected, TtsClientTypeOK, Outcomes
<1> QED BY <1>1, <1>2 DEF PendingRequests, Pending

(* A step that changes one client keeps the invariant if what the client   *)
(* holds is what is pending.                                               *)
LEMMA Changed ==
  ASSUME Inv, NEW c \in Clients, NEW k \in ClientRecords,
         client' = [client EXCEPT ![c] = k], UNCHANGED current, losses' \in 0..MaxLosses,
         outcome' \in [Requests -> Outcomes], audio' \in [Requests -> Seq(Requests)],
         tainted' \in [Requests -> BOOLEAN],
         HeldOnce(k), Connected(k), c <= current,
         Held(k) = IF c = current THEN PendingRequests' ELSE {},
         c # current => PendingRequests' = PendingRequests,
         OwnAudioUnlessLate'
  PROVE  Inv'
<1>1. client \in [Clients -> ClientRecords] /\ current \in Clients
  BY DEF Inv, TtsClientTypeOK
<1>2. TtsClientTypeOK'
  BY <1>1 DEF TtsClientTypeOK
<1>3. ASSUME NEW d \in Clients
      PROVE  /\ Held(client'[d]) = IF d = current' THEN PendingRequests' ELSE {}
             /\ HeldOnce(client'[d]) /\ Connected(client'[d])
             /\ d > current' => client'[d] = NewClient
  <2>1. CASE d = c
    <3>1. client'[d] = k
      BY <1>1, <2>1
    <3>2. ~(d > current')
      BY <1>1, <2>1 DEF Clients
    <3> QED BY <3>1, <3>2, <2>1
  <2>2. CASE d # c
    <3>1. client'[d] = client[d]
      BY <1>1, <2>2
    <3> QED BY <3>1, <2>2 DEF Inv
  <2> QED BY <2>1, <2>2
<1> QED BY <1>2, <1>3 DEF Inv

-----------------------------------------------------------------------------
(* The actions, one by one.                                                *)

LEMMA InitInv == TtsClientInit => Inv
<1> SUFFICES ASSUME TtsClientInit PROVE Inv
  OBVIOUS
<1> DEFINE k == [NewClient EXCEPT !.ws = "connecting"]
<1>1. /\ k \in ClientRecords /\ Held(k) = {} /\ HeldOnce(k) /\ Connected(k)
  <2>1. k \in ClientRecords
    BY NewClientHolds, Zenon DEF ClientRecords
  <2>2. /\ k.active = NewClient.active /\ k.queue = NewClient.queue
        /\ k.chunks = NewClient.chunks /\ k.inbox = NewClient.inbox
        /\ k.wire = NewClient.wire /\ k.late = NewClient.late
        /\ NewClient.ws # "open"
    BY DEF NewClient
  <2> QED BY <2>1, <2>2, NewClientHolds, SameRequests
<1>2. /\ client = [c \in Clients |-> IF c = 1 THEN k ELSE NewClient]
      /\ current = 1 /\ 1 \in Clients
  BY TtsClientAssumption DEF TtsClientInit, Clients
<1>3. TtsClientTypeOK
  <2>1. client \in [Clients -> ClientRecords]
    BY <1>1, <1>2, NewClientHolds
  <2>2. audio \in [Requests -> Seq(Requests)]
    BY DEF TtsClientInit
  <2> QED BY <2>1, <2>2, <1>2, TtsClientAssumption DEF TtsClientTypeOK, TtsClientInit, Outcomes
<1>4. PendingRequests = {}
  BY DEF PendingRequests, Pending, TtsClientInit
<1>5. OwnAudioUnlessLate
  BY DEF OwnAudioUnlessLate, TtsClientInit
<1>6. ASSUME NEW c \in Clients
      PROVE  /\ Held(client[c]) = IF c = current THEN PendingRequests ELSE {}
             /\ HeldOnce(client[c]) /\ Connected(client[c])
             /\ c > current => client[c] = NewClient
  <2> HIDE DEF k
  <2>1. CASE c = 1
    <3>1. client[c] = k /\ ~(c > current)
      BY <1>2, <2>1
    <3> QED BY <3>1, <1>1, <1>2, <1>4, <2>1
  <2>2. CASE c # 1
    <3>1. client[c] = NewClient
      BY <1>2, <2>2
    <3> QED BY <3>1, <1>2, <2>2, NewClientHolds
  <2> QED BY <2>1, <2>2
<1> QED BY <1>3, <1>5, <1>6 DEF Inv

(* A client that does something has been made.                             *)
LEMMA Made ==
  ASSUME Inv, NEW c \in Clients,
         \/ client[c].ws # "none" \/ client[c].timer \/ client[c].active # None
         \/ client[c].inbox # <<>> \/ client[c].wire # <<>> \/ client[c].closing
  PROVE  c <= current /\ client[c] \in ClientRecords
<1>1. client[c] \in ClientRecords /\ current \in Clients
  BY DEF Inv, TtsClientTypeOK
<1>2. client[c] # NewClient
  BY DEF NewClient
<1>3. ~(c > current)
  BY <1>2 DEF Inv
<1> QED BY <1>1, <1>3 DEF Clients

(* An action that leaves the promises and what has been resolved alone.    *)
LEMMA Quiet ==
  ASSUME Inv, NEW c \in Clients, NEW k \in ClientRecords, c <= current,
         client' = [client EXCEPT ![c] = k],
         UNCHANGED <<current, outcome, audio, tainted>>, losses' \in 0..MaxLosses,
         Held(k) = Held(client[c]), HeldOnce(k), Connected(k)
  PROVE  Inv'
<1>1. /\ outcome' \in [Requests -> Outcomes] /\ audio' \in [Requests -> Seq(Requests)]
      /\ tainted' \in [Requests -> BOOLEAN] /\ UNCHANGED current
  BY DEF Inv, TtsClientTypeOK
<1>2. PendingRequests' = PendingRequests /\ OwnAudioUnlessLate'
  BY DEF PendingRequests, Pending, Inv, OwnAudioUnlessLate
<1>3. Held(k) = IF c = current THEN PendingRequests' ELSE {}
  BY <1>2 DEF Inv
<1> QED BY <1>1, <1>2, <1>3, Changed

(* An action that rejects what the client held and holds no more.          *)
LEMMA Rejects ==
  ASSUME Inv, NEW c \in Clients, NEW k \in ClientRecords, c <= current, NEW rs,
         rs \subseteq Held(client[c]), Rejected(rs),
         client' = [client EXCEPT ![c] = k],
         UNCHANGED <<current, audio, tainted>>, losses' \in 0..MaxLosses,
         Held(k) = Held(client[c]) \ rs, HeldOnce(k), Connected(k)
  PROVE  Inv'
<1>1. TtsClientTypeOK
  BY DEF Inv
<1>2. /\ outcome' \in [Requests -> Outcomes]
      /\ PendingRequests' = PendingRequests \ rs
      /\ \A r \in Requests : outcome'[r] = "resolved" => outcome[r] = "resolved"
  BY <1>1, RejectedSettles
<1>3. /\ audio' \in [Requests -> Seq(Requests)] /\ tainted' \in [Requests -> BOOLEAN]
      /\ UNCHANGED current
  BY <1>1 DEF TtsClientTypeOK
<1>4. OwnAudioUnlessLate'
  BY <1>2 DEF Inv, OwnAudioUnlessLate
<1>5. Held(client[c]) = IF c = current THEN PendingRequests ELSE {}
  BY DEF Inv
<1>6. /\ Held(k) = IF c = current THEN PendingRequests' ELSE {}
      /\ c # current => PendingRequests' = PendingRequests
  BY <1>2, <1>5
<1> QED BY <1>2, <1>3, <1>4, <1>6, Changed

LEMMA SynthesizeInv == ASSUME Inv, NEW r \in Requests, Synthesize(r) PROVE Inv'
<1> DEFINE k == client[current]
           a == Enqueued(k, r)
<1>1. /\ current \in Clients /\ k \in ClientRecords /\ client \in [Clients -> ClientRecords]
      /\ current <= current /\ outcome \in [Requests -> Outcomes]
  BY DEF Inv, TtsClientTypeOK, Clients
<1>2. /\ Held(k) = PendingRequests /\ HeldOnce(k) /\ Connected(k)
  BY <1>1 DEF Inv
<1>3. r \notin PendingRequests
  BY DEF Synthesize, PendingRequests, Pending
<1>4. /\ UNCHANGED <<current, audio, tainted, losses>> /\ losses' \in 0..MaxLosses
      /\ audio' \in [Requests -> Seq(Requests)] /\ tainted' \in [Requests -> BOOLEAN]
  BY DEF Synthesize, Inv, TtsClientTypeOK
<1>5. CASE client[current].ws = "open"
  <2>1. /\ client' = [client EXCEPT ![current] = Drained(a)]
        /\ outcome' = [outcome EXCEPT ![r] = "pending"]
    BY <1>5, Zenon DEF Synthesize
  <2>2. /\ a \in ClientRecords /\ Held(a) = Held(k) \cup {r}
        /\ HeldOnce(a) /\ Connected(a)
    BY <1>1, <1>2, <1>3, Added
  <2> HIDE DEF a
  <2>3. /\ Drained(a) \in ClientRecords /\ Held(Drained(a)) = Held(a)
        /\ HeldOnce(Drained(a)) /\ Connected(Drained(a))
    BY <2>2, DrainedHolds
  <2>4. outcome' \in [Requests -> Outcomes] /\ PendingRequests' = PendingRequests \cup {r}
    BY <1>1, <2>1 DEF PendingRequests, Pending, Outcomes
  <2>5. OwnAudioUnlessLate'
    BY <1>1, <1>4, <2>1 DEF Inv, OwnAudioUnlessLate
  <2>6. Held(Drained(a)) = IF current = current THEN PendingRequests' ELSE {}
    BY <1>2, <2>2, <2>3, <2>4
  <2> QED BY <1>1, <1>4, <2>1, <2>3, <2>4, <2>5, <2>6, Changed
<1>6. CASE client[current].ws # "open"
  <2>1. Rejected({r}) /\ UNCHANGED client
    BY <1>6 DEF Synthesize
  <2>2. TtsClientTypeOK
    BY DEF Inv
  <2>3. /\ outcome' \in [Requests -> Outcomes]
        /\ PendingRequests' = PendingRequests \ {r}
        /\ \A q \in Requests : outcome'[q] = "resolved" => outcome[q] = "resolved"
    BY <2>1, <2>2, RejectedSettles
  <2>4. PendingRequests' = PendingRequests
    BY <1>3, <2>3
  <2>5. OwnAudioUnlessLate'
    BY <1>4, <2>3 DEF Inv, OwnAudioUnlessLate
  <2>6. TtsClientTypeOK'
    BY <1>4, <2>1, <2>2, <2>3 DEF TtsClientTypeOK
  <2> QED BY <1>4, <2>1, <2>4, <2>5, <2>6 DEF Inv
<1> QED BY <1>5, <1>6

LEMMA OpensInv == ASSUME Inv, NEW c \in Clients, Opens(c) PROVE Inv'
<1> DEFINE k == client[c]
           o == [k EXCEPT !.ws = "open"]
<1>1. /\ c <= current /\ k \in ClientRecords /\ k.ws = "connecting"
      /\ HeldOnce(k) /\ Connected(k)
  BY Made DEF Opens, Inv
<1>2. /\ o \in ClientRecords /\ o.ws = "open" /\ o.active = k.active /\ o.queue = k.queue
      /\ o.chunks = k.chunks /\ o.inbox = k.inbox /\ o.wire = k.wire /\ o.late = k.late
  BY <1>1, SocketRecord DEF ClientRecords
<1>3. client' = [client EXCEPT ![c] = Drained(o)]
  BY Zenon DEF Opens
<1>4. UNCHANGED <<current, outcome, audio, tainted>> /\ losses' \in 0..MaxLosses
  BY DEF Opens, Inv, TtsClientTypeOK
<1> HIDE DEF o
<1>5. Held(o) = Held(k) /\ HeldOnce(o) /\ Connected(o)
  BY <1>1, <1>2, SameRequests
<1>6. /\ Drained(o) \in ClientRecords /\ Held(Drained(o)) = Held(o)
      /\ HeldOnce(Drained(o)) /\ Connected(Drained(o))
  BY <1>2, <1>5, DrainedHolds
<1> QED BY <1>1, <1>3, <1>4, <1>5, <1>6, Quiet

LEMMA ReconnectsInv == ASSUME Inv, NEW c \in Clients, Reconnects(c) PROVE Inv'
<1> DEFINE k == client[c]
           ws == IF k.ws = "none" THEN "connecting" ELSE k.ws
           j == [k EXCEPT !.timer = FALSE, !.ws = ws]
<1>1. /\ c <= current /\ k \in ClientRecords /\ HeldOnce(k) /\ Connected(k)
      /\ client \in [Clients -> ClientRecords]
  BY Made DEF Reconnects, Inv, TtsClientTypeOK
<1>2. ws \in {"none", "connecting", "open"}
  BY <1>1 DEF ClientRecords
<1>3. /\ j \in ClientRecords /\ j.active = k.active /\ j.queue = k.queue
      /\ j.chunks = k.chunks /\ j.inbox = k.inbox /\ j.wire = k.wire /\ j.late = k.late
      /\ j.ws = ws
  BY <1>1, <1>2, SocketRecord DEF ClientRecords
<1>4. client' = [client EXCEPT ![c] = j]
  BY <1>1 DEF Reconnects, ClientRecords
<1>5. UNCHANGED <<current, outcome, audio, tainted>> /\ losses' \in 0..MaxLosses
  BY DEF Reconnects, Inv, TtsClientTypeOK
<1>6. k.ws = "open" => j.ws = "open"
  BY <1>3
<1> HIDE DEF j
<1>7. Held(j) = Held(k) /\ HeldOnce(j) /\ Connected(j)
  BY <1>1, <1>3, <1>6, SameRequests
<1> QED BY <1>1, <1>3, <1>4, <1>5, <1>7, Quiet

LEMMA OldSocketClosesInv == ASSUME Inv, NEW c \in Clients, OldSocketCloses(c) PROVE Inv'
<1> DEFINE k == client[c]
           j == [k EXCEPT !.closing = FALSE, !.timer = TRUE]
<1>1. /\ c <= current /\ k \in ClientRecords /\ HeldOnce(k) /\ Connected(k)
      /\ client \in [Clients -> ClientRecords]
  BY Made DEF OldSocketCloses, Inv, TtsClientTypeOK
<1>2. /\ j \in ClientRecords /\ j.active = k.active /\ j.queue = k.queue
      /\ j.chunks = k.chunks /\ j.inbox = k.inbox /\ j.wire = k.wire /\ j.late = k.late
      /\ j.ws = k.ws
  BY <1>1, TimerRecord DEF ClientRecords
<1>3. client' = [client EXCEPT ![c] = j]
  BY <1>1 DEF OldSocketCloses, ClientRecords
<1>4. UNCHANGED <<current, outcome, audio, tainted>> /\ losses' \in 0..MaxLosses
  BY DEF OldSocketCloses, Inv, TtsClientTypeOK
<1> HIDE DEF j
<1>5. Held(j) = Held(k) /\ HeldOnce(j) /\ Connected(j)
  BY <1>1, <1>2, SameRequests
<1> QED BY <1>1, <1>2, <1>3, <1>4, <1>5, Quiet

(* The connection is lost, and the request in flight with it.              *)
LEMMA ClosesInv == ASSUME Inv, NEW c \in Clients, Closes(c) PROVE Inv'
<1> DEFINE k == client[c]
           j == Unplugged(k)
           t == [j EXCEPT !.timer = TRUE]
<1>1. /\ c <= current /\ k \in ClientRecords /\ HeldOnce(k)
  BY Made DEF Closes, Inv
<1>2. /\ j \in ClientRecords /\ j.ws = "none" /\ j.active = None
      /\ j.inbox = <<>> /\ j.wire = <<>> /\ j.late = FALSE /\ j.queue = k.queue
  BY <1>1, UnpluggedRecord
<1>3. client' = [client EXCEPT ![c] = t]
  BY Zenon DEF Closes
<1> HIDE DEF j
<1>4. /\ t \in ClientRecords /\ t.ws = "none" /\ t.active = None
      /\ t.inbox = <<>> /\ t.wire = <<>> /\ t.late = FALSE /\ t.queue = k.queue
  BY <1>2, TimerRecord DEF ClientRecords
<1> HIDE DEF t
<1>5. Held(t) = Held(k) \ InFlight(k) /\ HeldOnce(t)
  BY <1>1, <1>4, Finished
<1>6. Connected(t)
  BY <1>4 DEF Connected
<1>7. /\ UNCHANGED <<current, audio, tainted>> /\ losses' \in 0..MaxLosses
      /\ Rejected(InFlight(k)) /\ InFlight(k) \subseteq Held(k)
  BY TtsClientAssumption DEF Closes, Inv, TtsClientTypeOK, Held
<1> QED BY <1>1, <1>3, <1>4, <1>5, <1>6, <1>7, Rejects

(* A request in flight that is over on a connection, where nothing is left *)
(* of it or a request has timed out, makes room for the next.              *)
LEMMA NextHolds ==
  ASSUME NEW k \in ClientRecords, HeldOnce(k), k.ws = "open",
         k.late \/ (k.inbox = <<>> /\ k.wire = <<>>)
  PROVE  /\ NextRequest(k) \in ClientRecords
         /\ Held(NextRequest(k)) = Held(k) \ InFlight(k)
         /\ HeldOnce(NextRequest(k))
         /\ Connected(NextRequest(k))
<1> DEFINE j == [k EXCEPT !.active = None]
<1>1. /\ j \in ClientRecords /\ j.active = None /\ j.queue = k.queue
      /\ j.inbox = k.inbox /\ j.wire = k.wire /\ j.late = k.late /\ j.ws = k.ws
  BY OverRecord DEF ClientRecords
<1>2. NextRequest(k) = Drained(j)
  BY DEF NextRequest
<1> HIDE DEF j
<1>3. Held(j) = Held(k) \ InFlight(k) /\ HeldOnce(j)
  BY <1>1, Finished
<1>4. Connected(j)
  BY <1>1 DEF Connected
<1> QED BY <1>1, <1>2, <1>3, <1>4, DrainedHolds

LEMMA TimesOutInv == ASSUME Inv, NEW c \in Clients, TimesOut(c) PROVE Inv'
<1> DEFINE k == client[c]
           j == [k EXCEPT !.late = TRUE]
<1>1. /\ c <= current /\ k \in ClientRecords /\ HeldOnce(k) /\ Connected(k)
      /\ k.active # None
  BY Made DEF TimesOut, Inv
<1>2. k.ws = "open"
  BY <1>1 DEF Connected
<1>3. /\ j \in ClientRecords /\ j.active = k.active /\ j.queue = k.queue
      /\ j.late = TRUE /\ j.ws = k.ws
  BY <1>1, OverRecord DEF ClientRecords
<1>4. client' = [client EXCEPT ![c] = NextRequest(j)]
  BY Zenon DEF TimesOut
<1> HIDE DEF j
<1>5. HeldOnce(j) /\ Held(j) = Held(k) /\ InFlight(j) = InFlight(k)
  BY <1>1, <1>3 DEF HeldOnce, Held, InFlight, Queued
<1>6. /\ NextRequest(j) \in ClientRecords
      /\ Held(NextRequest(j)) = Held(j) \ InFlight(j)
      /\ HeldOnce(NextRequest(j)) /\ Connected(NextRequest(j))
  BY <1>2, <1>3, <1>5, NextHolds
<1>7. /\ UNCHANGED <<current, audio, tainted>> /\ losses' \in 0..MaxLosses
      /\ Rejected(InFlight(k)) /\ InFlight(k) \subseteq Held(k)
  <2>1. InFlight(k) = {k.active}
    BY <1>1 DEF InFlight
  <2>2. Rejected({k.active}) /\ UNCHANGED <<current, audio, tainted, losses>>
    BY DEF TimesOut
  <2> QED BY <2>1, <2>2 DEF Inv, TtsClientTypeOK, Held
<1>8. Held(NextRequest(j)) = Held(k) \ InFlight(k)
  BY <1>5, <1>6
<1> QED BY <1>1, <1>4, <1>6, <1>7, <1>8, Rejects

(* The service answers: what was with it is on the wire.                   *)
LEMMA AnswersInv == ASSUME Inv, NEW c \in Clients, Answers(c) PROVE Inv'
<1> DEFINE k == client[c]
           r == Head(k.inbox)
<1>1. /\ c <= current /\ k \in ClientRecords /\ HeldOnce(k) /\ Connected(k)
      /\ k.inbox # <<>> /\ client \in [Clients -> ClientRecords]
  BY Made DEF Answers, Inv, TtsClientTypeOK
<1>2. PICK answer \in {<<Sound(r), Done(r)>>, <<Failure(r)>>, <<Sound(r), Failure(r)>>} :
        client' = [client EXCEPT ![c].inbox = Tail(@), ![c].wire = @ \o answer]
  BY DEF Answers, Sound, Done, Failure
<1> DEFINE j == [k EXCEPT !.inbox = Tail(k.inbox), !.wire = k.wire \o answer]
<1>3. client' = [client EXCEPT ![c] = j]
  BY <1>1, <1>2 DEF ClientRecords
<1>4. /\ r \in Requests /\ Tail(k.inbox) \in Seq(Requests) /\ k.wire \in Seq(Messages)
  BY <1>1 DEF ClientRecords
<1>5. answer \in Seq(Messages)
  <2>1. Sound(r) \in Messages /\ Done(r) \in Messages /\ Failure(r) \in Messages
    BY <1>4 DEF Messages, Sound, Done, Failure
  <2> HIDE DEF r
  <2>2. CASE answer = <<Sound(r), Done(r)>>
    BY <2>1, <2>2
  <2>3. CASE answer = <<Failure(r)>>
    BY <2>1, <2>3
  <2>4. CASE answer = <<Sound(r), Failure(r)>>
    BY <2>1, <2>4
  <2> QED BY <2>2, <2>3, <2>4
<1>6. k.wire \o answer \in Seq(Messages)
  BY <1>4, <1>5
<1>7. /\ j \in ClientRecords /\ j.active = k.active /\ j.queue = k.queue
      /\ j.chunks = k.chunks /\ j.inbox = Tail(k.inbox) /\ j.wire = k.wire \o answer
      /\ j.late = k.late /\ j.ws = k.ws
  BY <1>1, <1>4, <1>6, AnswerRecord DEF ClientRecords
<1>8. UNCHANGED <<current, outcome, audio, tainted>> /\ losses' \in 0..MaxLosses
  BY DEF Answers, Inv, TtsClientTypeOK
<1> HIDE DEF j
<1>9. Held(j) = Held(k) /\ HeldOnce(j)
  BY <1>1, <1>7 DEF Held, InFlight, Queued, HeldOnce
<1>10. k.ws = "open"
  BY <1>1 DEF Connected
<1>11. Connected(j)
  <2>1. CASE k.late
    BY <2>1, <1>7, <1>10 DEF Connected
  <2>2. CASE ~k.late
    <3>1. k.active # None /\ AtService(k)
      BY <1>1, <2>2 DEF Connected, Answered, Heard
    <3>2. k.active \in Requests /\ k.inbox = <<k.active>> /\ k.wire = <<>> /\ k.chunks = <<>>
      BY <1>1, <3>1 DEF AtService, ClientRecords
    <3>3. r = k.active /\ Tail(k.inbox) = <<>>
      BY <3>2
    <3>4. k.wire \o answer = answer
      BY <3>2, <1>5, ConcatEmptySeq
    <3>5. Answered(j)
      BY <1>2, <1>7, <3>2, <3>3, <3>4 DEF Answered
    <3> QED BY <1>7, <1>10, <2>2, <3>1, <3>5 DEF Connected
  <2> QED BY <2>1, <2>2
<1> QED BY <1>1, <1>3, <1>7, <1>8, <1>9, <1>11, Quiet

LEMMA TwoMessages ==
  ASSUME NEW a, NEW b
  PROVE  Head(<<a, b>>) = a /\ Tail(<<a, b>>) = <<b>>
<1>1. <<a, b>> \in Seq({a, b}) /\ <<b>> \in Seq({a, b}) /\ Tail(<<a, b>>) \in Seq({a, b})
  OBVIOUS
<1>2. Len(Tail(<<a, b>>)) = 1 /\ Tail(<<a, b>>)[1] = b
  OBVIOUS
<1> QED BY <1>1, <1>2

LEMMA OneMessage ==
  ASSUME NEW a
  PROVE  Head(<<a>>) = a /\ Tail(<<a>>) = <<>>
OBVIOUS

(* Sound arrives: it is that of the request in flight.                     *)
LEMMA GetsChunkInv == ASSUME Inv, NEW c \in Clients, GetsChunk(c) PROVE Inv'
<1> DEFINE k == client[c]
           m == Head(k.wire)
           chunks == IF k.active = None THEN k.chunks ELSE Append(k.chunks, m.req)
           j == [k EXCEPT !.wire = Tail(k.wire), !.chunks = chunks]
<1>1. /\ c <= current /\ k \in ClientRecords /\ HeldOnce(k) /\ Connected(k)
      /\ k.wire # <<>> /\ m.type = "chunk" /\ client \in [Clients -> ClientRecords]
  BY Made DEF GetsChunk, Inv, TtsClientTypeOK
<1>2. client' = [client EXCEPT ![c] = j]
  BY <1>1 DEF GetsChunk, ClientRecords
<1>3. /\ k.wire \in Seq(Messages) /\ m \in Messages /\ Tail(k.wire) \in Seq(Messages)
      /\ m.req \in Requests /\ chunks \in Seq(Requests)
  <2>1. k.wire \in Seq(Messages) /\ k.chunks \in Seq(Requests)
    BY <1>1 DEF ClientRecords
  <2>2. m \in Messages /\ Tail(k.wire) \in Seq(Messages)
    BY <1>1, <2>1
  <2>3. m.req \in Requests
    BY <2>2 DEF Messages
  <2> QED BY <2>1, <2>2, <2>3
<1> HIDE DEF chunks
<1>4. /\ j \in ClientRecords /\ j.active = k.active /\ j.queue = k.queue
      /\ j.chunks = chunks /\ j.inbox = k.inbox /\ j.wire = Tail(k.wire)
      /\ j.late = k.late /\ j.ws = k.ws
  BY <1>1, <1>3, ChunkRecord DEF ClientRecords
<1>5. UNCHANGED <<current, outcome, audio, tainted>> /\ losses' \in 0..MaxLosses
  BY DEF GetsChunk, Inv, TtsClientTypeOK
<1> HIDE DEF j
<1>6. Held(j) = Held(k) /\ HeldOnce(j)
  BY <1>1, <1>4 DEF Held, InFlight, Queued, HeldOnce
<1>7. k.ws = "open"
  BY <1>1 DEF Connected
<1>8. Connected(j)
  <2>1. CASE k.late
    BY <2>1, <1>4, <1>7 DEF Connected
  <2>2. CASE ~k.late
    <3>1. k.active # None
      BY <1>1, <2>2 DEF Connected
    <3>2. ~Heard(k)
      BY <1>1 DEF Heard, Done, Failure
    <3>3. Answered(k)
      BY <1>1, <2>2, <3>1, <3>2 DEF Connected, AtService
    <3>4. k.active \in Requests /\ k.inbox = <<>> /\ k.chunks = <<>>
      BY <1>1, <3>1, <3>3 DEF ClientRecords, Answered
    <3>5. \/ k.wire = <<Sound(k.active), Done(k.active)>>
          \/ k.wire = <<Sound(k.active), Failure(k.active)>>
      BY <1>1, <3>3 DEF Answered, Failure
    <3>6. m = Sound(k.active) /\ Tail(k.wire) \in {<<Done(k.active)>>, <<Failure(k.active)>>}
      BY <3>5, TwoMessages, Zenon
    <3>7. chunks = <<k.active>>
      BY <3>1, <3>4, <3>6 DEF chunks, Sound
    <3>8. Heard(j)
      BY <1>4, <3>4, <3>6, <3>7 DEF Heard
    <3> QED BY <1>4, <1>7, <2>2, <3>1, <3>8 DEF Connected
  <2> QED BY <2>1, <2>2
<1> QED BY <1>1, <1>2, <1>4, <1>5, <1>6, <1>8, Quiet

(* An answer other than sound settles the request in flight, and nothing   *)
(* is left of it.                                                          *)
LEMMA AnswerToActive ==
  ASSUME NEW k \in ClientRecords, Connected(k), ~k.late, k.wire # <<>>,
         Head(k.wire).type # "chunk"
  PROVE  /\ k.active # None /\ ForActive(k, Head(k.wire))
         /\ k.inbox = <<>> /\ Tail(k.wire) = <<>>
         /\ Head(k.wire).type = "tts_done" => k.chunks = <<k.active>>
<1>1. k.active # None
  BY DEF Connected
<1>2. Answered(k) \/ Heard(k)
  BY <1>1 DEF Connected, AtService
<1>3. (k.wire = <<Done(k.active)>> /\ Heard(k)) \/ k.wire = <<Failure(k.active)>>
  <2>1. ~(k.wire = <<Sound(k.active), Done(k.active)>>)
    BY TwoMessages DEF Sound
  <2>2. ~(k.wire = <<Sound(k.active), Failure(k.active)>>)
    BY TwoMessages DEF Sound
  <2> QED BY <1>2, <2>1, <2>2 DEF Answered, Heard
<1>4. k.inbox = <<>> /\ Tail(k.wire) = <<>>
  BY <1>2, <1>3, OneMessage DEF Answered, Heard
<1>5. Head(k.wire).req = k.active
  BY <1>3, OneMessage DEF Done, Failure
<1>6. Head(k.wire).type = "tts_done" => k.chunks = <<k.active>>
  BY <1>3, OneMessage DEF Heard, Failure
<1> QED BY <1>1, <1>4, <1>5, <1>6 DEF ForActive

LEMMA GetsAnswerInv == ASSUME Inv, NEW c \in Clients, GetsAnswer(c) PROVE Inv'
<1> DEFINE k == client[c]
           m == Head(k.wire)
           rest == [k EXCEPT !.wire = Tail(k.wire)]
<1>1. /\ c <= current /\ k \in ClientRecords /\ HeldOnce(k) /\ Connected(k)
      /\ k.wire # <<>> /\ m.type # "chunk"
  BY Made DEF GetsAnswer, Inv
<1>2. /\ current' = current /\ losses' \in 0..MaxLosses /\ k.ws = "open"
      /\ TtsClientTypeOK
  BY <1>1 DEF GetsAnswer, Inv, TtsClientTypeOK, Connected
<1>3. k.wire \in Seq(Messages) /\ Tail(k.wire) \in Seq(Messages)
  BY <1>1 DEF ClientRecords
<1>4. /\ rest \in ClientRecords /\ rest.active = k.active /\ rest.queue = k.queue
      /\ rest.chunks = k.chunks /\ rest.inbox = k.inbox /\ rest.wire = Tail(k.wire)
      /\ rest.late = k.late /\ rest.ws = k.ws
  BY <1>1, <1>3, WireRecord DEF ClientRecords
<1>5. /\ ~ForActive(k, m) =>
           /\ client' = [client EXCEPT ![c] = rest]
           /\ UNCHANGED <<outcome, audio, tainted>>
      /\ ForActive(k, m) =>
           /\ client' = [client EXCEPT ![c] = NextRequest(rest)]
           /\ m.type = "error" => Rejected({k.active}) /\ UNCHANGED <<audio, tainted>>
           /\ m.type # "error" =>
                /\ outcome' = [outcome EXCEPT ![k.active] = "resolved"]
                /\ audio' = [audio EXCEPT ![k.active] = k.chunks]
                /\ tainted' = [tainted EXCEPT ![k.active] = k.late]
  BY Zenon DEF GetsAnswer
<1> HIDE DEF rest
<1>6. HeldOnce(rest) /\ Held(rest) = Held(k) /\ InFlight(rest) = InFlight(k)
  BY <1>1, <1>4 DEF HeldOnce, Held, InFlight, Queued
<1>7. CASE ~ForActive(k, m)
  <2>1. k.late
    BY <1>1, <1>7, AnswerToActive DEF ClientRecords
  <2>2. Connected(rest)
    BY <1>2, <1>4, <2>1 DEF Connected
  <2> QED BY <1>1, <1>2, <1>4, <1>5, <1>6, <1>7, <2>2, Quiet
<1>8. CASE ForActive(k, m)
  <2> DEFINE n == NextRequest(rest)
  <2>1. rest.late \/ (rest.inbox = <<>> /\ rest.wire = <<>>)
    BY <1>1, <1>4, AnswerToActive DEF ClientRecords
  <2>2. /\ n \in ClientRecords /\ Held(n) = Held(rest) \ InFlight(rest)
        /\ HeldOnce(n) /\ Connected(n)
    BY <1>2, <1>4, <1>6, <2>1, NextHolds
  <2>3. k.active \in Requests /\ InFlight(k) = {k.active}
    BY <1>1, <1>8 DEF ForActive, InFlight, ClientRecords
  <2>4. client' = [client EXCEPT ![c] = n]
    BY <1>5, <1>8
  <2> HIDE DEF n
  <2>5. Held(n) = Held(k) \ {k.active} /\ {k.active} \subseteq Held(k)
    BY <1>6, <2>2, <2>3 DEF Held
  <2>6. CASE m.type = "error"
    BY <1>1, <1>2, <1>5, <1>8, <2>2, <2>4, <2>5, <2>6, Rejects
  <2>7. CASE m.type # "error"
    <3>1. m.type = "tts_done"
      <4>1. m \in Messages
        BY <1>1, <1>3
      <4> QED BY <1>1, <2>7, <4>1 DEF Messages
    <3>2. ~k.late => k.chunks = <<k.active>>
      BY <1>1, <3>1, AnswerToActive
    <3>3. /\ outcome' = [outcome EXCEPT ![k.active] = "resolved"]
          /\ audio' = [audio EXCEPT ![k.active] = k.chunks]
          /\ tainted' = [tainted EXCEPT ![k.active] = k.late]
      BY <1>5, <1>8, <2>7
    <3>4. k.chunks \in Seq(Requests) /\ k.late \in BOOLEAN
      BY <1>1 DEF ClientRecords
    <3> HIDE DEF k
    <3>5. /\ outcome' \in [Requests -> Outcomes] /\ audio' \in [Requests -> Seq(Requests)]
          /\ tainted' \in [Requests -> BOOLEAN]
      BY <1>2, <2>3, <3>3, <3>4 DEF TtsClientTypeOK, Outcomes
    <3>6. PendingRequests' = PendingRequests \ {k.active}
      BY <1>2, <2>3, <3>3 DEF TtsClientTypeOK, PendingRequests, Pending
    <3>7. OwnAudioUnlessLate'
      <4>1. OwnAudioUnlessLate
        BY DEF Inv
      <4> SUFFICES ASSUME NEW r \in Requests, outcome'[r] = "resolved", ~tainted'[r]
                   PROVE  audio'[r] = <<r>>
        BY DEF OwnAudioUnlessLate
      <4>2. CASE r = k.active
        BY <1>2, <3>2, <3>3, <4>2 DEF TtsClientTypeOK
      <4>3. CASE r # k.active
        <5>1. outcome[r] = "resolved" /\ ~tainted[r] /\ audio'[r] = audio[r]
          BY <1>2, <3>3, <4>3 DEF TtsClientTypeOK
        <5> QED BY <4>1, <5>1 DEF OwnAudioUnlessLate
      <4> QED BY <4>2, <4>3
    <3>8. Held(k) = IF c = current THEN PendingRequests ELSE {}
      BY DEF Inv, k
    <3>9. /\ Held(n) = IF c = current THEN PendingRequests' ELSE {}
          /\ c # current => PendingRequests' = PendingRequests
      BY <2>5, <3>6, <3>8
    <3> QED BY <1>1, <1>2, <2>2, <2>4, <3>5, <3>7, <3>9, Changed
  <2> QED BY <2>6, <2>7
<1> QED BY <1>7, <1>8

(* A new client: what the old one held is rejected.                        *)
LEMMA ReconnectTTSInv == ASSUME Inv, ReconnectTTS PROVE Inv'
<1> DEFINE k == client[current]
           j == Unplugged(k)
           closing == k.closing \/ k.ws # "none"
           old == [j EXCEPT !.timer = FALSE, !.queue = <<>>, !.closing = closing]
           new == [NewClient EXCEPT !.ws = "connecting"]
<1>1. /\ TtsClientTypeOK /\ current \in Clients /\ k \in ClientRecords
      /\ client \in [Clients -> ClientRecords]
      /\ current < MaxClients /\ current' = current + 1
  BY DEF Inv, TtsClientTypeOK, ReconnectTTS
<1>2. current' \in Clients /\ current' # current
  BY <1>1, TtsClientAssumption DEF Clients
<1>3. /\ client[current'] = NewClient /\ HeldOnce(k) /\ Connected(k)
      /\ Held(k) = PendingRequests
  <2>1. current' > current
    BY <1>1, <1>2 DEF Clients
  <2> QED BY <1>1, <1>2, <2>1 DEF Inv
<1>4. /\ j \in ClientRecords /\ j.ws = "none" /\ j.active = None
      /\ j.inbox = <<>> /\ j.wire = <<>> /\ j.late = FALSE /\ j.queue = k.queue
      /\ j.closing = k.closing
  BY <1>1, UnpluggedRecord DEF Unplugged, ClientRecords
<1>5. client' = [[client EXCEPT ![current] = old] EXCEPT ![current'] = new]
  BY <1>1, <1>2, <1>3, <1>4 DEF ReconnectTTS
<1> HIDE DEF j
<1>6. /\ old \in ClientRecords /\ old.ws = "none" /\ old.active = None /\ old.queue = <<>>
      /\ old.inbox = <<>> /\ old.wire = <<>> /\ old.late = FALSE
  <2>1. <<>> \in Seq(Requests) /\ closing \in BOOLEAN
    BY <1>1 DEF ClientRecords
  <2> HIDE DEF closing
  <2> QED BY <1>4, <2>1, ClosedRecord DEF ClientRecords
<1> HIDE DEF old
<1>7. Held(old) = {} /\ HeldOnce(old) /\ Connected(old)
  BY <1>6 DEF Held, InFlight, Queued, HeldOnce, Connected
<1>8. new \in ClientRecords /\ Held(new) = {} /\ HeldOnce(new) /\ Connected(new)
  <2>1. new \in ClientRecords
    BY NewClientHolds, SocketRecord
  <2>2. /\ new.active = NewClient.active /\ new.queue = NewClient.queue
        /\ new.chunks = NewClient.chunks /\ new.inbox = NewClient.inbox
        /\ new.wire = NewClient.wire /\ new.late = NewClient.late
        /\ NewClient.ws # "open"
    BY DEF NewClient
  <2> QED BY <2>1, <2>2, NewClientHolds, SameRequests
<1> HIDE DEF new
<1>9. Rejected(Held(k)) /\ UNCHANGED <<audio, tainted, losses>>
  BY Zenon DEF ReconnectTTS, Held
<1>10. /\ outcome' \in [Requests -> Outcomes]
       /\ PendingRequests' = PendingRequests \ Held(k)
       /\ \A r \in Requests : outcome'[r] = "resolved" => outcome[r] = "resolved"
  BY <1>1, <1>9, RejectedSettles
<1>11. PendingRequests' = {}
  BY <1>3, <1>10
<1>12. OwnAudioUnlessLate'
  BY <1>9, <1>10 DEF Inv, OwnAudioUnlessLate
<1>13. TtsClientTypeOK'
  BY <1>1, <1>2, <1>5, <1>6, <1>8, <1>9, <1>10 DEF TtsClientTypeOK
<1>14. ASSUME NEW d \in Clients
       PROVE  /\ Held(client'[d]) = IF d = current' THEN PendingRequests' ELSE {}
              /\ HeldOnce(client'[d]) /\ Connected(client'[d])
              /\ d > current' => client'[d] = NewClient
  <2>1. CASE d = current'
    <3>1. client'[d] = new /\ ~(d > current')
      BY <1>1, <1>2, <1>5, <2>1 DEF Clients
    <3> QED BY <1>8, <1>11, <2>1, <3>1
  <2>2. CASE d = current
    <3>1. client'[d] = old /\ ~(d > current')
      BY <1>1, <1>2, <1>5, <2>2 DEF Clients
    <3> QED BY <1>2, <1>7, <2>2, <3>1
  <2>3. CASE d # current /\ d # current'
    <3>1. client'[d] = client[d] /\ (d > current' => d > current)
      BY <1>1, <1>2, <1>5, <2>3 DEF Clients
    <3> QED BY <2>3, <3>1 DEF Inv
  <2> QED BY <2>1, <2>2, <2>3
<1> QED BY <1>12, <1>13, <1>14 DEF Inv

-----------------------------------------------------------------------------
LEMMA Step == Inv /\ [TtsClientNext]_ttsVars => Inv'
<1> SUFFICES ASSUME Inv, [TtsClientNext]_ttsVars PROVE Inv'
  OBVIOUS
<1>1. CASE \E r \in Requests : Synthesize(r)
  BY <1>1, SynthesizeInv
<1>2. CASE \E c \in Clients : Opens(c) \/ Closes(c) \/ Reconnects(c) \/ TimesOut(c)
  BY <1>2, OpensInv, ClosesInv, ReconnectsInv, TimesOutInv
<1>3. CASE \E c \in Clients : Answers(c) \/ GetsChunk(c) \/ GetsAnswer(c) \/ OldSocketCloses(c)
  BY <1>3, AnswersInv, GetsChunkInv, GetsAnswerInv, OldSocketClosesInv
<1>4. CASE ReconnectTTS
  BY <1>4, ReconnectTTSInv
<1>5. CASE UNCHANGED ttsVars
  BY <1>5 DEF ttsVars, Inv, TtsClientTypeOK, OwnAudioUnlessLate, PendingRequests, Pending
<1> QED BY <1>1, <1>2, <1>3, <1>4, <1>5 DEF TtsClientNext

(* The invariant holds whatever the service, its connection and the        *)
(* controller do (TtsClient.ts:44-375).                                    *)
THEOREM Invariance == TtsClientSpec => []Inv
<1>1. TtsClientInit => Inv
  BY InitInv
<1>2. Inv /\ [TtsClientNext]_ttsVars => Inv'
  BY Step
<1> QED BY <1>1, <1>2, PTL DEF TtsClientSpec

(* The state of the client has its types (TtsClient.ts:44-59).             *)
THEOREM TypeCorrect == TtsClientSpec => []TtsClientTypeOK
<1>1. Inv => TtsClientTypeOK
  BY DEF Inv
<1> QED BY <1>1, Invariance, PTL

(* A promise that has not settled is held exactly once, by the client the  *)
(* controller has now, whether connections are lost, requests time out or  *)
(* the client is replaced (TtsClient.ts:132-151, 211-252 and 347-374).     *)
THEOREM PromisesAreHeld == TtsClientSpec => []PendingIsHeld
<1>1. Inv => PendingIsHeld
  <2> SUFFICES ASSUME Inv PROVE PendingIsHeld
    OBVIOUS
  <2>1. current \in Clients
    BY DEF Inv, TtsClientTypeOK
  <2>2. \A c \in Clients : Held(client[c]) = IF c = current THEN PendingRequests ELSE {}
    BY DEF Inv
  <2>3. ASSUME NEW c \in Clients, NEW r \in Held(client[c])
        PROVE  c = current /\ Pending(r)
    BY <2>2 DEF PendingRequests
  <2>4. \A r \in Requests : Pending(r) => r \in Held(client[current])
    BY <2>1, <2>2 DEF PendingRequests
  <2>5. HeldOnce(client[current])
    BY <2>1 DEF Inv
  <2> QED BY <2>3, <2>4, <2>5 DEF PendingIsHeld, Held, HeldOnce
<1> QED BY <1>1, Invariance, PTL

(* A request is given its own sound and all of it, as long as no request   *)
(* has timed out on the connection (TtsClient.ts:12-14 and 204-209).       *)
THEOREM OwnAudio == TtsClientSpec => []OwnAudioUnlessLate
<1>1. Inv => OwnAudioUnlessLate
  BY DEF Inv
<1> QED BY <1>1, Invariance, PTL
===============================================================================
