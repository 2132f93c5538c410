------------------------------ MODULE AppSlot ------------------------------
(***************************************************************************)
(* What the bootloader promises about the application in flash: there is   *)
(* one application or none that can be started, it is replaced only by way *)
(* of having none, and what runs is a whole application that stays as it   *)
(* is for as long as it runs.                                              *)
(***************************************************************************)
CONSTANTS
    Images,     \* the applications a host may load
    None        \* no application can be started, no member of Images

VARIABLES
    app,        \* the application that can be started
    running     \* whether it has been started

slot == <<app, running>>

SlotTypeOK == app \in Images \union {None} /\ running \in BOOLEAN

SlotInit == app \in Images \union {None} /\ running = FALSE

\* A sector of the application is overwritten, or its record is given up.
Spoil == ~running /\ app # None /\ app' = None /\ UNCHANGED running

\* The last piece of an application and of its record is in place.
Install(i) == ~running /\ app = None /\ app' = i /\ UNCHANGED running

Start == ~running /\ app # None /\ running' = TRUE /\ UNCHANGED app

\* Power is switched off and on.
Stop == running /\ running' = FALSE /\ UNCHANGED app

SlotNext == Spoil \/ Start \/ Stop \/ \E i \in Images : Install(i)

SlotSpec == SlotInit /\ [][SlotNext]_slot
=============================================================================
