------------------------------ MODULE MCServices ------------------------------
(***************************************************************************)
(* The speech services: the client of the synthesiser in Node, that of the *)
(* recogniser in the Rust server, and the engine that starts processes for *)
(* both servers.  They share nothing, so a behaviour is one of the three.  *)
(***************************************************************************)
EXTENDS TtsClient, Transcription, Engine

VARIABLE part   (* "tts", "stt" or "engine"                                  *)

serviceVars == <<ttsVars, stt, engineVars, part>>

(* Two texts of one call and one of another.                               *)
MCRequests == {"a1", "a2", "b1"}
MCSessionOf == [r \in MCRequests |-> IF r = "b1" THEN "b" ELSE "a"]

MCRestarts == {"restart"}

SttRests == stt = [SttBegins({}) EXCEPT !.pc = "ended", !.removed = TRUE]
EngineRests == EngineBegins("none", "free")

Init ==
  /\ TtsClientInit
  /\ \/ part = "tts" /\ SttRests /\ EngineRests
     \/ part = "stt" /\ SttInit /\ EngineRests
     \/ part = "engine" /\ SttRests /\ EngineInit

OfTts(A) == part = "tts" /\ A /\ UNCHANGED <<stt, engineVars, part>>
OfStt(A) == part = "stt" /\ A /\ UNCHANGED <<ttsVars, engineVars, part>>
OfEngine(A) == part = "engine" /\ A /\ UNCHANGED <<ttsVars, stt, part>>

Next == OfTts(TtsClientNext) \/ OfStt(SttNext) \/ OfEngine(EngineNext)

(* Of the synthesiser's client only its own timers are certain.  The       *)
(* recogniser's task is: connections are made or refused, sleeps end, what *)
(* has come is taken, and a broken connection is noticed.  The engine's    *)
(* polls and checks come round and its probes are answered or time out; no *)
(* process has to come up, or to end.                                      *)
Fairness ==
  /\ \A c \in Clients :
       WF_serviceVars(OfTts(TimesOut(c))) /\ WF_serviceVars(OfTts(Reconnects(c)))
  /\ WF_serviceVars(OfStt(SttTask))
  /\ WF_serviceVars(OfEngine(StartSteps)) /\ WF_serviceVars(OfEngine(RustSteps))
  /\ \A o \in Ops : WF_serviceVars(OfEngine(EngineSteps(o)))

Spec == Init /\ [][Next]_serviceVars /\ Fairness

(* Types.                                                                  *)
ServicesTypeOK ==
  TtsClientTypeOK /\ SttTypeOK /\ EngineTypeOK /\ part \in {"tts", "stt", "engine"}

(* Nobody waits for ever: a text for the synthesiser settles while there   *)
(* is a connection, and a call that starts or restarts a service settles   *)
(* whatever its process does (TtsClient.ts:214-252, Engine.ts:586-609).    *)
WaitersAreReleased == RequestsSettle /\ StartsSettle
===============================================================================
