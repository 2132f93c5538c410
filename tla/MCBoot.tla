------------------------------- MODULE MCBoot -------------------------------
(* Two applications that fill the flash, and one that is too long. *)
EXTENDS BootClaims

CONSTANTS A, B, L

MCImages == {A, B, L}
MCLoops == [i \in MCImages |-> IF i = L THEN Total + 1 ELSE Total]
MCSvcEntry == [i \in MCImages |-> 1]
=============================================================================
