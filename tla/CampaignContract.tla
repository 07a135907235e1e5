--------------------------- MODULE CampaignContract ---------------------------
(***************************************************************************)
(* What a bulk campaign promises, whatever the agent goes through: the     *)
(* recipients of a command are sent the message in list order and at most  *)
(* once each, one run per campaign at a time, and a run that is over, for  *)
(* whatever reason, never sends again.                                     *)
(***************************************************************************)
EXTENDS Naturals

CONSTANTS Starts, Campaigns, CampaignOf, Total

VARIABLES status,   \* of each start command: waiting, active or over
          sent      \* how often each recipient was sent the message

vars == <<status, sent>>

Recipients == 1 .. Total

Init ==
    /\ status = [c \in Starts |-> "waiting"]
    /\ sent = [c \in Starts |-> [r \in Recipients |-> 0]]

Begin(c) ==
    /\ status[c] = "waiting"
    /\ \A d \in Starts : CampaignOf[d] = CampaignOf[c] => status[d] # "active"
    /\ status' = [status EXCEPT ![c] = "active"]
    /\ UNCHANGED sent

Send(c, r) ==
    /\ status[c] = "active"
    /\ \A q \in Recipients : q >= r => sent[c][q] = 0
    /\ sent' = [sent EXCEPT ![c][r] = 1]
    /\ UNCHANGED status

\* Completed, cancelled, refused, or killed with the process.
End ==
    /\ status' \in [Starts -> {"waiting", "active", "over"}]
    /\ \A c \in Starts : status'[c] \in {status[c], "over"}
    /\ UNCHANGED sent

Next ==
    \/ \E c \in Starts : Begin(c) \/ \E r \in Recipients : Send(c, r)
    \/ End

Spec == Init /\ [][Next]_vars
=============================================================================
