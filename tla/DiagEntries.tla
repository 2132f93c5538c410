----------------------------- MODULE DiagEntries -----------------------------
(***************************************************************************)
(* What the diagnosis promises of its entries, and what modules Bms and    *)
(* Contactor take for granted: an entry changes by one whole event at a    *)
(* time, however the tasks that report the events interrupt each other.    *)
(***************************************************************************)
EXTENDS DiagEntry

CONSTANTS
    Keys,       \* the entries, each of one id and one string
    Threshold   \* the threshold of each

VARIABLE entry

Init == entry = [k \in Keys |-> Cleared]

Next ==
    \E k \in Keys :
        entry' \in {[entry EXCEPT ![k] = AfterOk(@)],
                   [entry EXCEPT ![k] = AfterNotOk(@, Threshold[k])]}

Spec == Init /\ [][Next]_entry
=============================================================================
