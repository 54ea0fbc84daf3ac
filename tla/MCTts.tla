--------------------------------- MODULE MCTts ---------------------------------
(* Three utterances of half a frame, a frame, or a frame and a half: each  *)
(* in each place, and three of a kind.                                     *)
EXTENDS TtsInjector

MCLengths == {s \in [1..MaxUtterances -> 1..3] :
                Cardinality({s[u] : u \in DOMAIN s}) \in {1, MaxUtterances}}
===============================================================================
