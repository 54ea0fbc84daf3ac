------------------------------- MODULE MCSpeech -------------------------------
(* Three texts: one to be interrupted, one that meets the interrupted loop *)
(* and one that starts the next; all different, or a repetition, a blank.  *)
EXTENDS SpeechQueue

MCTextChoices == {<<1, 2, 3>>, <<1, 1, Blank>>}

(* Two texts, for the runs that end at their first counterexample.         *)
MCTwoTexts == {<<1, 2>>}
===============================================================================
