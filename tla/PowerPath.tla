----------------------------- MODULE PowerPath -----------------------------
(***************************************************************************)
(* What the contactor control promises about the power path of a pack of   *)
(* parallel battery strings, whatever the state machine that keeps the     *)
(* promise looks like.                                                     *)
(*                                                                         *)
(* A string is limited while it feeds the high voltage bus through its     *)
(* precharge resistor, and full while it feeds it through both of its main *)
(* contactors.  The bus is charged through a resistor before any string    *)
(* gets a full connection; the resistor is out of the path before further  *)
(* strings join; and the pack counts as disconnected only when no string   *)
(* has a connection left.                                                  *)
(***************************************************************************)
CONSTANTS
    Strings,        \* the strings of the pack
    Prechargeable   \* those with a precharge resistor, a subset of Strings

VARIABLES
    mode,       \* what the pack is doing
    limited,    \* strings connected through a precharge resistor
    full        \* strings connected through both main contactors

vars == <<mode, limited, full>>

Modes == {"disconnected", "connecting", "connected", "disconnecting"}

TypeOK ==
    /\ mode \in Modes
    /\ limited \subseteq Prechargeable
    /\ full \subseteq Strings

Init == mode = "disconnected" /\ limited = {} /\ full = {}

-----------------------------------------------------------------------------
Connect ==
    /\ mode = "disconnected" /\ mode' = "connecting"
    /\ UNCHANGED <<limited, full>>

\* The first connection of the bus goes through a precharge resistor.
Limit(s) ==
    /\ mode = "connecting" /\ limited = {} /\ full = {}
    /\ limited' = {s}
    /\ UNCHANGED <<mode, full>>

\* Only the string that charged the bus is connected to it directly.
Bypass(s) ==
    /\ mode = "connecting" /\ limited = {s} /\ full = {}
    /\ full' = {s}
    /\ UNCHANGED <<mode, limited>>

\* The precharge is given up, or no longer needed.
EndPrecharge ==
    /\ mode = "connecting" /\ limited' = {}
    /\ UNCHANGED <<mode, full>>

Connected ==
    /\ mode = "connecting" /\ limited = {} /\ full # {}
    /\ mode' = "connected"
    /\ UNCHANGED <<limited, full>>

\* A live bus takes further strings, one at a time.
Join(s) ==
    /\ mode = "connected" /\ full' = full \cup {s}
    /\ UNCHANGED <<mode, limited>>

Disconnect ==
    /\ mode' = "disconnecting"
    /\ limited' \subseteq limited
    /\ UNCHANGED full

Release ==
    /\ mode = "disconnecting"
    /\ limited' \subseteq limited /\ full' \subseteq full
    /\ UNCHANGED mode

Disconnected ==
    /\ mode = "disconnecting" /\ limited = {} /\ full = {}
    /\ mode' = "disconnected"
    /\ UNCHANGED <<limited, full>>

Next ==
    \/ Connect \/ EndPrecharge \/ Connected \/ Disconnect \/ Release \/ Disconnected
    \/ \E s \in Prechargeable : Limit(s) \/ Bypass(s)
    \/ \E s \in Strings : Join(s)

Spec == Init /\ [][Next]_vars
=============================================================================
