----------------------------- MODULE DiagHistory -----------------------------
(***************************************************************************)
(* The number of the active fatal errors and the timer that repeats them.  *)
(* Tasks of different priority report fatal errors, and the queue of the   *)
(* timer task may be full: both can set list, number and timer apart.      *)
(* A history variable tells whether either has happened; with it this      *)
(* module says that nothing else does.                                     *)
(***************************************************************************)
EXTENDS Diag

VARIABLE disturbed      \* history: one of the two has happened

\* A call between the list of active errors and its last command.
CountSteps == {"test for start", "start", "read count", "write count", "test for stop", "stop"}
Counting(t) == call[t].step \in CountSteps

\* It changes the list in the midst of another one.
Overlaps == active' # active /\ \E t \in Tasks : Counting(t)
\* A command finds the queue of the timer task full.
Drops ==
    /\ Len(commands) = TimerQueueLength
    /\ \E t \in Tasks : StartTimer(t) \/ StopTimer(t)

InitHistory == Init /\ disturbed = FALSE
NextHistory == Next /\ disturbed' = (disturbed \/ Overlaps \/ Drops)
SpecHistory == InitHistory /\ [][NextHistory]_<<vars, disturbed>> /\ Fairness

-----------------------------------------------------------------------------
\* Properties.

\* Number and timer agree with the list of active errors whenever nobody is at
\* work on them (diag.c:149, 170), wherever tasks interrupt each other, until a
\* call overlaps with another one that changes the list or a command is dropped.
LastCommand == IF commands = << >> THEN running ELSE commands[Len(commands)] = "start"
CountAndTimerAgree ==
    Quiet /\ ~disturbed =>
        count = Cardinality(active) /\ LastCommand = (active # {})

\* diag.c:81, "timer to periodically resend the fatal errors": as long as an
\* error stays active it is sent again and again, unless they were set apart.
ActiveErrorsAreResent ==
    []~disturbed => \A id \in FatalIds : <>[](id \in active) => []<>(message = id)
=============================================================================
