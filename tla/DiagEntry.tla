----------------------------- MODULE DiagEntry -----------------------------
(***************************************************************************)
(* One diagnosis entry of one battery string: the debounce counter         *)
(* diag.occurrenceCounter[s][id] and the error that DIAG_Handler raises    *)
(* when the counter passes the configured threshold and takes back when    *)
(* the counter is back at zero (src/src/app/engine/diag/diag.c).           *)
(***************************************************************************)
EXTENDS Naturals

\* An entry that never saw an event, and one that saw a reset.
Cleared == [count |-> 0, error |-> FALSE]

\* Entries of an id whose configured threshold is thr.
Entries(thr) == [count : 0 .. thr + 1, error : BOOLEAN]

\* DIAG_EVENT_OK: count down; the error is taken back on the step to zero.
AfterOk(e) ==
    IF e.count <= 1 THEN Cleared ELSE [e EXCEPT !.count = @ - 1]

\* DIAG_EVENT_NOT_OK: count up to one above the threshold; the error is
\* raised on the step that passes it.
AfterNotOk(e, thr) ==
    CASE e.count < thr -> [e EXCEPT !.count = @ + 1]
      [] e.count = thr -> [count |-> thr + 1, error |-> TRUE]
      [] OTHER         -> e

\* DIAG_GetDiagnosisEntryState of one string: the counter, not the error.
IsActive(e, thr) == e.count > thr
=============================================================================
