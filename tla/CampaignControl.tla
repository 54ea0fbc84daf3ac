--------------------------- MODULE CampaignControl ---------------------------
(***************************************************************************)
(* The campaign handlers of core/DashboardServer.ts around AutoDialer: one *)
(* slot, campaignDialer, for the campaign the dashboard controls, and the  *)
(* status it last showed.  The "campaignComplete" listener runs inside the *)
(* dialer's emit(), hence in the dialer's own step.                        *)
(* The ARI client is connected: before that campaignStart only reports an  *)
(* error.                                                                  *)
(***************************************************************************)
EXTENDS AutoDialer

CONSTANT NoDialer   (* null *)

VARIABLES
  campaignDialer,      (* the dialer in the slot, or null                    *)
  lastCampaignStatus   (* <<dialer, status>> of a getStatus() kept, or null  *)

controlVars == <<campaignDialer, lastCampaignStatus>>
allVars     == <<vars, controlVars>>

ControlTypeOK ==
  /\ TypeOK
  /\ campaignDialer \in Dialers \cup {NoDialer}
  /\ lastCampaignStatus \in (Dialers \X Statuses) \cup {NoDialer}

ControlInit ==
  /\ Init
  /\ campaignDialer = NoDialer
  /\ lastCampaignStatus = NoDialer

-----------------------------------------------------------------------------
(* A listener that only keeps the status never frees the slot.             *)
OnCompleteKeepsSlot(d, slot) ==
  /\ campaignDialer' = slot
  /\ lastCampaignStatus' = IF completions'[d] > completions[d] THEN <<slot, status'[slot]>>
                           ELSE lastCampaignStatus

(* A listener that does not look whether the slot is empty.                *)
OnCompleteNoCheck(d, slot) ==
  /\ campaignDialer' = IF completions'[d] > completions[d] THEN NoDialer ELSE slot
  /\ lastCampaignStatus' = IF completions'[d] > completions[d] THEN <<slot, "completed">>
                           ELSE lastCampaignStatus

(* The "campaignComplete" listeners run for each emit of the step of d,    *)
(* with slot in campaignDialer.  The first takes the status of the dialer  *)
(* in the slot, which need not be d, and empties the slot; a further one   *)
(* finds it empty and keeps null.                                          *)
OnComplete(d, slot) ==
  LET emits == completions'[d] - completions[d]
  IN  /\ campaignDialer' = IF emits > 0 THEN NoDialer ELSE slot
      /\ lastCampaignStatus' =
           CASE emits = 0                      -> lastCampaignStatus
             [] emits = 1 /\ slot # NoDialer   -> <<slot, status'[slot]>>
             [] OTHER                          -> NoDialer

(* dashboard:campaignStart.  Null is put in lastCampaignStatus first.      *)
CampaignStart(d) ==
  /\ campaignDialer = NoDialer
  /\ Start(d)
  /\ LET emits == completions'[d] - completions[d]
     IN  /\ campaignDialer' = IF emits > 0 THEN NoDialer ELSE d
         /\ lastCampaignStatus' = IF emits = 1 THEN <<d, status'[d]>> ELSE NoDialer

CampaignPause ==
  /\ campaignDialer # NoDialer
  /\ Pause(campaignDialer)
  /\ UNCHANGED controlVars

CampaignResume ==
  /\ campaignDialer # NoDialer
  /\ Resume(campaignDialer)
  /\ OnComplete(campaignDialer, campaignDialer)

(* dashboard:campaignStop.  stop() emits "campaignComplete", whose         *)
(* listener keeps the status again and empties the slot before this        *)
(* handler does.                                                           *)
CampaignStop ==
  /\ campaignDialer # NoDialer
  /\ Stop(campaignDialer)
  /\ lastCampaignStatus' = <<campaignDialer, "completed">>
  /\ campaignDialer' = NoDialer

(* A callback of any dialer, the one in the slot or an earlier one.        *)
DialerCallback(d) ==
  /\ Callback(d)
  /\ OnComplete(d, campaignDialer)

Environment ==
  /\ (\E d \in Dialers : Asterisk(d)) \/ ConnectionLost
  /\ UNCHANGED controlVars

ControlNext ==
  \/ \E d \in Dialers : CampaignStart(d) \/ DialerCallback(d)
  \/ CampaignPause \/ CampaignResume \/ CampaignStop
  \/ Environment

ControlSpec == ControlInit /\ [][ControlNext]_allVars

(* Node runs every callback that is due, the originate request times out,  *)
(* people hang up, and Asterisk reports it.  Nobody has to pause, resume   *)
(* or stop.                                                                *)
Fairness ==
  \A d \in Dialers :
    /\ WF_allVars(DialerCallback(d))
    /\ WF_allVars(Asterisk(d) /\ UNCHANGED controlVars)

FairControlSpec == ControlSpec /\ Fairness

-----------------------------------------------------------------------------
(* A dialer in the slot is running or paused: a slot that kept a completed *)
(* campaign would refuse every later one ("A campaign is already running") *)
(* and have nothing left to empty it.                                      *)
SlotIsNotStale ==
  campaignDialer # NoDialer => status[campaignDialer] \in {"running", "paused"}

(* As long as its ARI connection lasts and no event comes before the reply *)
(* it belongs to, a campaign left running completes.                       *)
CampaignProgresses ==
  \A d \in Dialers :
    status[d] = "running" ~> (status[d] # "running" \/ missed[d] # {} \/ deaf[d])

(* "the auto-dialer begins calling. You can pause, resume, or stop at any  *)
(* time" (dashboard/content/docs/3.campaigns.md): a campaign that can      *)
(* still dial is the one the dashboard's handlers act on.                  *)
RunningIsControllable ==
  \A d \in Dialers : status[d] \in {"running", "paused"} => campaignDialer = d
===============================================================================
