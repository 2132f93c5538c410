------------------------------- MODULE MCBms -------------------------------
(* Instances of module Bms for TLC. *)
EXTENDS Bms

MCFirstString == {0}
MCNoContactor == {}
MCOneOfEachString == {<<0, "PLUS">>, <<1, "MINUS">>}
MCPlusOfString0 == {<<0, "PLUS">>}

\* The loss of 30C takes effect at once, every other error after a call.
MCFatalDelay == [e \in FatalIds |-> IF e = Lost30C THEN 0 ELSE 1]
\* Errors with a longer delay than those of the contactors.
MCLongDelay == [e \in FatalIds |-> IF e = Lost30C THEN 0 ELSE 3]
=============================================================================
