------------------------------- MODULE MCDiag -------------------------------
(* Instances of module Diag, with its history, for TLC. *)
EXTENDS DiagHistory

MCThresholds == [id \in Ids |-> IF id = 0 THEN 1 ELSE 0]
\* The lowest task reports error 1, the highest one the others.
MCTasks == [id \in Ids |-> IF id = 1 THEN 1 ELSE NrOfTasks]
=============================================================================
