-------------------------------- MODULE MCCalls --------------------------------
(* Two calls.                                                              *)
EXTENDS CallLifecycle

CONSTANTS c1, c2

MCCallIds  == {c1, c2}
===============================================================================
