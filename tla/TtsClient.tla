------------------------------- MODULE TtsClient -------------------------------
(***************************************************************************)
(* core/TtsClient.ts: the client of the Kokoro speech service, which sends *)
(* one request at a time over a WebSocket, with the part of                *)
(* AriControllerServer.ts that replaces it and the service                 *)
(* (tts-services/kokoro-service/server.py), which answers the requests of  *)
(* a connection in order.                                                  *)
(*                                                                         *)
(* Each replacement is a new object; the old one lives on, because the     *)
(* close event of its socket comes after close() has cleared its timer.    *)
(***************************************************************************)
EXTENDS Naturals, Sequences

CONSTANTS
  Requests, None,
  SessionOf,     (* the session each request speaks for: what tts_done names *)
  MaxClients,    (* bound: clients made by reconnectTTS()                   *)
  MaxLosses      (* bound: connections lost or refused                      *)

ASSUME TtsClientAssumption ==
  /\ None \notin Requests
  /\ DOMAIN SessionOf = Requests
  /\ MaxClients \in Nat \ {0} /\ MaxLosses \in Nat

Clients == 1..MaxClients

VARIABLES
  client,    (* each client object: see NewClient                            *)
  current,   (* the controller's ttsClient                                   *)
  outcome,   (* what became of the promise of each request                   *)
  audio,     (* whose chunks a resolved request was given                    *)
  tainted,   (* it was resolved on a connection where a request timed out    *)
  losses

ttsVars == <<client, current, outcome, audio, tainted, losses>>

(* ws         the socket: none, connecting or open (then `connected`)        *)
(* closing    a socket given up by close() whose close event is to come      *)
(* timer      reconnectTimer is set                                          *)
(* active, queue, chunks   the request in flight, those that wait, and whose *)
(*            audio has come for the one in flight                           *)
(* inbox, wire   requests the service has not answered, answers on their way *)
(* late       a request has timed out on this connection                     *)
NewClient ==
  [ws |-> "none", closing |-> FALSE, timer |-> FALSE, active |-> None, queue |-> <<>>,
   chunks |-> <<>>, inbox |-> <<>>, wire |-> <<>>, late |-> FALSE]

Messages == [type : {"chunk", "tts_done", "error"}, req : Requests]

ClientRecords ==
  [ws : {"none", "connecting", "open"}, closing : BOOLEAN, timer : BOOLEAN,
   active : Requests \cup {None}, queue : Seq(Requests), chunks : Seq(Requests),
   inbox : Seq(Requests), wire : Seq(Messages), late : BOOLEAN]

Outcomes == {"new", "pending", "resolved", "rejected"}

TtsClientTypeOK ==
  /\ client \in [Clients -> ClientRecords]
  /\ current \in Clients
  /\ outcome \in [Requests -> Outcomes]
  /\ audio \in [Requests -> Seq(Requests)]
  /\ tainted \in [Requests -> BOOLEAN]
  /\ losses \in 0..MaxLosses

TtsClientInit ==
  /\ client = [c \in Clients |-> IF c = 1 THEN [NewClient EXCEPT !.ws = "connecting"]
                                         ELSE NewClient]
  /\ current = 1
  /\ outcome = [r \in Requests |-> "new"]
  /\ audio = [r \in Requests |-> <<>>]
  /\ tainted = [r \in Requests |-> FALSE]
  /\ losses = 0

-----------------------------------------------------------------------------
(* Mutant: the chunks of the last request are kept.                        *)
DrainedKeepsChunks(k) ==
  IF k.active # None \/ k.queue = <<>> \/ k.ws # "open" THEN k
  ELSE [k EXCEPT !.active = Head(k.queue), !.queue = Tail(k.queue),
                 !.inbox = Append(@, Head(k.queue))]

(* drainQueue(): the next request is sent.                                 *)
Drained(k) ==
  IF k.active # None \/ k.queue = <<>> \/ k.ws # "open" THEN k
  ELSE [k EXCEPT !.active = Head(k.queue), !.queue = Tail(k.queue), !.chunks = <<>>,
                 !.inbox = Append(@, Head(k.queue))]

Enqueued(k, r) == [k EXCEPT !.queue = Append(@, r)]

(* The request in flight is over, and the next is sent.                    *)
NextRequest(k) == Drained([k EXCEPT !.active = None])

Rejected(rs) == outcome' = [r \in Requests |-> IF r \in rs THEN "rejected" ELSE outcome[r]]

InFlight(k) == {k.active} \ {None}

Queued(k) == {k.queue[i] : i \in DOMAIN k.queue}

(* The socket is gone, and with it what was under way on it.               *)
Unplugged(k) ==
  [k EXCEPT !.ws = "none", !.active = None, !.inbox = <<>>, !.wire = <<>>, !.late = FALSE]

-----------------------------------------------------------------------------
(* synthesize() and synthesizeToBuffer().                                  *)
Synthesize(r) ==
  /\ outcome[r] = "new"
  /\ IF client[current].ws = "open"
       THEN /\ outcome' = [outcome EXCEPT ![r] = "pending"]
            /\ client' = [client EXCEPT ![current] = Drained(Enqueued(@, r))]
       ELSE Rejected({r}) /\ UNCHANGED client
  /\ UNCHANGED <<current, audio, tainted, losses>>

Opens(c) ==
  /\ client[c].ws = "connecting"
  /\ client' = [client EXCEPT ![c] = Drained([@ EXCEPT !.ws = "open"])]
  /\ UNCHANGED <<current, outcome, audio, tainted, losses>>

(* The close event: refused, or lost.  What waits in the queue stays.      *)
Closes(c) ==
  /\ client[c].ws # "none" /\ losses < MaxLosses
  /\ losses' = losses + 1
  /\ Rejected(InFlight(client[c]))
  /\ client' = [client EXCEPT ![c] = [Unplugged(@) EXCEPT !.timer = TRUE]]
  /\ UNCHANGED <<current, audio, tainted>>

(* The reconnect timer: connect() does nothing if there is a socket.       *)
Reconnects(c) ==
  /\ client[c].timer
  /\ client' = [client EXCEPT ![c].timer = FALSE,
                              ![c].ws = IF @ = "none" THEN "connecting" ELSE @]
  /\ UNCHANGED <<current, outcome, audio, tainted, losses>>

(* Mutant: the next request is not sent.                                   *)
TimesOutOnly(c) ==
  /\ client[c].active # None
  /\ Rejected({client[c].active})
  /\ client' = [client EXCEPT ![c].late = TRUE, ![c].active = None]
  /\ UNCHANGED <<current, audio, tainted, losses>>

(* 15 s without tts_done.  The service is not told.                        *)
TimesOut(c) ==
  /\ client[c].active # None
  /\ Rejected({client[c].active})
  /\ client' = [client EXCEPT ![c] = NextRequest([@ EXCEPT !.late = TRUE])]
  /\ UNCHANGED <<current, audio, tainted, losses>>

-----------------------------------------------------------------------------
(* The service works on one request after the other.                       *)
Answers(c) ==
  /\ client[c].inbox # <<>>
  /\ LET Message(type) == [type |-> type, req |-> Head(client[c].inbox)]
     IN  \E answer \in {<<Message("chunk"), Message("tts_done")>>, <<Message("error")>>,
                        <<Message("chunk"), Message("error")>>} :
           client' = [client EXCEPT ![c].inbox = Tail(@), ![c].wire = @ \o answer]
  /\ UNCHANGED <<current, outcome, audio, tainted, losses>>

(* handleAudioChunk(): a chunk says nothing of whose it is.                *)
GetsChunk(c) ==
  /\ client[c].wire # <<>> /\ Head(client[c].wire).type = "chunk"
  /\ client' = [client EXCEPT
       ![c].wire = Tail(@),
       ![c].chunks = IF client[c].active = None THEN @
                     ELSE Append(@, Head(client[c].wire).req)]
  /\ UNCHANGED <<current, outcome, audio, tainted, losses>>

(* handleJsonMessage() looks at the session, not at the request.           *)
ForActive(k, m) == k.active # None /\ SessionOf[k.active] = SessionOf[m.req]

GetsAnswer(c) ==
  LET k == client[c]
      m == Head(k.wire)
      rest == [k EXCEPT !.wire = Tail(@)]
  IN  /\ k.wire # <<>> /\ m.type # "chunk"
      /\ IF ~ForActive(k, m)
           THEN client' = [client EXCEPT ![c] = rest] /\ UNCHANGED <<outcome, audio, tainted>>
           ELSE /\ client' = [client EXCEPT ![c] = NextRequest(rest)]
                /\ IF m.type = "error"
                     THEN Rejected({k.active}) /\ UNCHANGED <<audio, tainted>>
                     ELSE /\ outcome' = [outcome EXCEPT ![k.active] = "resolved"]
                          /\ audio' = [audio EXCEPT ![k.active] = k.chunks]
                          /\ tainted' = [tainted EXCEPT ![k.active] = k.late]
      /\ UNCHANGED <<current, losses>>

-----------------------------------------------------------------------------
(* Mutant: close() rejects the request in flight alone.                    *)
ReconnectTTSDropsQueue ==
  LET k == client[current]
  IN  /\ current < MaxClients
      /\ current' = current + 1
      /\ Rejected(InFlight(k))
      /\ client' = [client EXCEPT
           ![current] = [Unplugged(k) EXCEPT !.timer = FALSE, !.queue = <<>>,
                                             !.closing = @ \/ k.ws # "none"],
           ![current + 1].ws = "connecting"]
      /\ UNCHANGED <<audio, tainted, losses>>

(* reconnectTTS(): close() and a new client.                               *)
ReconnectTTS ==
  LET k == client[current]
  IN  /\ current < MaxClients
      /\ current' = current + 1
      /\ Rejected(InFlight(k) \cup Queued(k))
      /\ client' = [client EXCEPT
           ![current] = [Unplugged(k) EXCEPT !.timer = FALSE, !.queue = <<>>,
                                             !.closing = @ \/ k.ws # "none"],
           ![current + 1].ws = "connecting"]
      /\ UNCHANGED <<audio, tainted, losses>>

(* The close event of a socket that close() gave up.                       *)
OldSocketCloses(c) ==
  /\ client[c].closing
  /\ client' = [client EXCEPT ![c].closing = FALSE, ![c].timer = TRUE]
  /\ UNCHANGED <<current, outcome, audio, tainted, losses>>

TtsClientNext ==
  \/ \E r \in Requests : Synthesize(r)
  \/ \E c \in Clients :
       \/ Opens(c) \/ Closes(c) \/ Reconnects(c) \/ TimesOut(c)
       \/ Answers(c) \/ GetsChunk(c) \/ GetsAnswer(c) \/ OldSocketCloses(c)
  \/ ReconnectTTS

TtsClientSpec == TtsClientInit /\ [][TtsClientNext]_ttsVars

-----------------------------------------------------------------------------
Pending(r) == outcome[r] = "pending"

(* A promise that has not settled is held exactly once, by the client the  *)
(* controller has now: it is in flight or in the queue, and nothing else   *)
(* is (active, queue, TtsClient.ts:55-59, 132-151, 211-252 and 347-374).   *)
PendingIsHeld ==
  /\ \A c \in Clients : \A r \in InFlight(client[c]) \cup Queued(client[c]) :
       c = current /\ Pending(r)
  /\ \A r \in Requests : Pending(r) =>
       r \in InFlight(client[current]) \cup Queued(client[current])
  /\ LET k == client[current]
     IN  /\ \A i, j \in DOMAIN k.queue : k.queue[i] = k.queue[j] => i = j
         /\ k.active \notin Queued(k)

(* The sound a request is given is its own and all of it, as long as no    *)
(* request has timed out on the connection (TtsClient.ts:12-14 and         *)
(* 204-209).                                                               *)
OwnAudioUnlessLate ==
  \A r \in Requests : outcome[r] = "resolved" /\ ~tainted[r] => audio[r] = <<r>>

(* TtsClient.ts:12-14 without the exception.                               *)
ChunksAreItsOwn == \A r \in Requests : outcome[r] = "resolved" => audio[r] = <<r>>

(* The caller of synthesize() is not left waiting while the service is     *)
(* connected: each request in turn is answered or timed out                *)
(* (TtsClient.ts:214-252).  Without a connection the queue waits.          *)
RequestsSettle ==
  \A r \in Requests : Pending(r) ~> (~Pending(r) \/ client[current].ws # "open")
===============================================================================
