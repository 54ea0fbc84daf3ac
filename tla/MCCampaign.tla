------------------------------ MODULE MCCampaign ------------------------------
(* TLC instance of CampaignControl: two campaigns one after the other.     *)
EXTENDS CampaignControl, TLC

CONSTANTS d1, d2

MCDialers     == {d1, d2}
MCListLengths == (d1 :> {2} @@ d2 :> {1})
===============================================================================
