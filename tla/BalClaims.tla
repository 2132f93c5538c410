----------------------------- MODULE BalClaims -----------------------------
(***************************************************************************)
(* What comments of the BMS state machine say of balancing and the request *)
(* slot of module Bal does not keep.                                       *)
(***************************************************************************)
EXTENDS Bal

VARIABLE wanted     \* the last request of the BMS state machine

InitAsked == Init /\ wanted = "ALLOW_BALANCING"

NextAsked ==
    \/ \E r \in BmsRequests : BMS_Trigger(r) /\ wanted' = r
    \/ /\ UNCHANGED wanted
       /\ \/ SYS_ProcessPreRunningState
          \/ \E r \in GlobalRequests, t \in RequestedThresholds : CANRX_BmsStateRequest(r, t)
          \/ BAL_Trigger
          \/ Measure

SpecAsked ==
    InitAsked /\ [][NextAsked]_<<vars, wanted>> /\ WF_<<vars, wanted>>(BAL_Trigger /\ UNCHANGED wanted)

\* bms.c:1723 and 1193, "a fault stops balancing", "balancing must be stopped on
\* power-down": when the last request of the BMS state machine forbids balancing
\* and it stays so, no cell is balanced any more.  The vehicle's next message
\* replaces the request in the slot before BAL_Trigger has taken it.
StoppedByBms == <>[](wanted = "NO_BALANCING") => <>[](cells = {})
=============================================================================
