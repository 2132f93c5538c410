-------------------------------- MODULE Diag --------------------------------
(***************************************************************************)
(* The diagnosis module (src/src/app/engine/diag/diag.c).  Tasks report    *)
(* events to DIAG_Handler, which debounces them in a counter per string    *)
(* and id, sets or resets the flag of an error in the database, keeps the  *)
(* list and the number of the active fatal errors and starts and stops the *)
(* timer that repeats them on CAN.                                         *)
(*                                                                         *)
(* DIAG_Handler is called by every task and takes no lock: a task of       *)
(* higher priority may run a whole call between any two steps of another.  *)
(* An action is a piece of the handler that touches one shared variable    *)
(* once, which is what the processor does without interruption.  One task  *)
(* reports an id as not ok and one task, mostly the same, as ok: an error  *)
(* of system monitoring or of deep discharge is ended by the task that     *)
(* receives the request to do so on CAN.                                   *)
(*                                                                         *)
(* Left out: the error memory, errflag and warnflag, which nothing reads,  *)
(* ids whose evaluation is disabled, and the event DIAG_EVENT_RESET, which *)
(* no module reports.                                                      *)
(***************************************************************************)
EXTENDS Integers, FiniteSets, Sequences

CONSTANTS
    NrOfStrings,        \* BS_NR_OF_STRINGS
    NrOfIds,            \* DIAG_ID_MAX
    FatalIds,           \* ids of severity DIAG_FATAL_ERROR
    SystemIds,          \* ids that are reported with the impact DIAG_SYSTEM
    Threshold,          \* threshold of each id
    NrOfTasks,          \* tasks that report, by rising priority
    NotOkTask, OkTask,  \* the tasks that report an id as not ok, and as ok
    TimerQueueLength,   \* configTIMER_QUEUE_LENGTH
    CountModulus        \* diag_activeFatalErrorCount is a uint8_t: 2^8

Strings == 0 .. NrOfStrings - 1
Ids == 0 .. NrOfIds - 1
Tasks == 1 .. NrOfTasks
Keys == Strings \X Ids
\* The entries in use: those of the system are entries of string 0.
Reported == {k \in Keys : k[2] \in SystemIds => k[1] = 0}

ASSUME DiagAssumption ==
    /\ NrOfStrings \in Nat \ {0} /\ NrOfIds \in Nat \ {0} /\ NrOfTasks \in Nat \ {0}
    /\ FatalIds \subseteq Ids /\ SystemIds \subseteq Ids
    /\ Threshold \in [Ids -> Nat]
    /\ NotOkTask \in [Ids -> Tasks] /\ OkTask \in [Ids -> Tasks]
    /\ TimerQueueLength \in Nat \ {0}
    /\ CountModulus \in Nat /\ CountModulus > Cardinality(FatalIds)

VARIABLES
    counter,    \* diag.occurrenceCounter
    flags,      \* keys whose flag the callbacks have set in diag_kDatabaseShim
    active,     \* ids with diag_activeFatalErrors[id] = 1
    count,      \* diag_activeFatalErrorCount
    call,       \* what each task is doing in DIAG_Handler
    commands,   \* the queue to the timer task
    running,    \* diag_fatalErrorResendTimer is running
    resend,     \* the loop variable of DIAG_ResendFatalErrors
    message     \* the last fatal error message on CAN: an id, DIAG_ID_MAX
                \* (NrOfIds) for a cleared one, -1 before the first

entryVars == <<counter, flags>>
fatalVars == <<active, count>>
timerVars == <<commands, running, resend>>
vars == <<entryVars, fatalVars, call, timerVars, message>>

\* step is what the call does next for the entry key, raising or clearing its
\* error; read is the variable it last read, its counter or the count.
Idle == [step |-> "idle", key |-> <<0, 0>>, raising |-> FALSE, read |-> 0]

Init ==
    /\ counter = [k \in Keys |-> 0] /\ flags = {}
    /\ active = {} /\ count = 0
    /\ call = [t \in Tasks |-> Idle]
    /\ commands = << >> /\ running = FALSE /\ resend = NrOfIds
    /\ message = -1

-----------------------------------------------------------------------------
\* Scheduling: a task runs when every task above it is waiting for its cycle.
\* The timer task has the lowest priority of all.

Runs(t) == \A u \in Tasks : u > t => call[u] = Idle
Quiet == \A u \in Tasks : call[u] = Idle

At(t, step) == Runs(t) /\ call[t].step = step
Goto(t, step) == call' = [call EXCEPT ![t].step = step]
IdOf(t) == call[t].key[2]
Enter(t, k, raise) ==
    call' = [call EXCEPT ![t] = [step |-> "counter", key |-> k, raising |-> raise,
                                 read |-> counter[k]]]

StepAfterCounter(k) == IF k[2] \in FatalIds THEN "list" ELSE "callback"

-----------------------------------------------------------------------------
\* DIAG_Handler(DIAG_EVENT_NOT_OK); a counter above the threshold stays.
ReportNotOk(t, k) ==
    /\ At(t, "idle") /\ t = NotOkTask[k[2]]
    /\ counter[k] <= Threshold[k[2]]
    /\ Enter(t, k, TRUE)
    /\ UNCHANGED <<entryVars, fatalVars, timerVars, message>>

\* DIAG_Handler(DIAG_EVENT_OK); a counter of zero stays.
ReportOk(t, k) ==
    /\ At(t, "idle") /\ t = OkTask[k[2]]
    /\ counter[k] > 0
    /\ Enter(t, k, FALSE)
    /\ UNCHANGED <<entryVars, fatalVars, timerVars, message>>

\* The counter is incremented or decremented; the compiler may have kept the
\* value it tested, or read it again.  The error is raised on the step above the
\* threshold and cleared on the step to zero.
CountUp(t) ==
    LET k == call[t].key IN
    /\ At(t, "counter") /\ call[t].raising
    /\ \E n \in {call[t].read, counter[k]} : counter' = [counter EXCEPT ![k] = n + 1]
    /\ IF call[t].read = Threshold[k[2]]
         THEN Goto(t, StepAfterCounter(k)) ELSE call' = [call EXCEPT ![t] = Idle]
    /\ UNCHANGED <<flags, fatalVars, timerVars, message>>

\* Mutant: the error ends when the counter comes down to the threshold.
CountDown_ToThreshold(t) ==
    LET k == call[t].key IN
    /\ At(t, "counter") /\ ~call[t].raising
    /\ \/ /\ call[t].read = Threshold[k[2]] + 1
          /\ counter' = [counter EXCEPT ![k] = @ - 1] /\ Goto(t, StepAfterCounter(k))
       \/ /\ call[t].read # Threshold[k[2]] + 1
          /\ counter' = [counter EXCEPT ![k] = @ - 1]
          /\ call' = [call EXCEPT ![t] = Idle]
    /\ UNCHANGED <<flags, fatalVars, timerVars, message>>

CountDown(t) ==
    LET k == call[t].key IN
    /\ At(t, "counter") /\ ~call[t].raising
    /\ \/ /\ call[t].read = 1
          /\ counter' = [counter EXCEPT ![k] = 0] /\ Goto(t, StepAfterCounter(k))
       \/ /\ call[t].read > 1
          /\ \E n \in {call[t].read, counter[k]} : counter' = [counter EXCEPT ![k] = n - 1]
          /\ call' = [call EXCEPT ![t] = Idle]
    /\ UNCHANGED <<flags, fatalVars, timerVars, message>>

\* DIAG_SetFatalErrorById and DIAG_ClearFatalErrorById: nothing to do if the
\* id is listed, or not listed, already; else send the message and list it.  That
\* is one step: only the other task of the id can come between the test and the
\* entry with a call for the same element, and it finds nothing to do.
List(t) ==
    /\ At(t, "list") /\ call[t].raising
    /\ \/ /\ IdOf(t) \in active /\ Goto(t, "callback") /\ UNCHANGED <<active, message>>
       \/ /\ IdOf(t) \notin active /\ Goto(t, "test for start")
          /\ active' = active \cup {IdOf(t)} /\ message' = IdOf(t)
    /\ UNCHANGED <<entryVars, count, timerVars>>

\* Mutants: an id that is not listed ends the call; the list keeps the id.
Unlist_NoCallback(t) ==
    /\ At(t, "list") /\ ~call[t].raising
    /\ \/ /\ IdOf(t) \notin active /\ call' = [call EXCEPT ![t] = Idle]
          /\ UNCHANGED <<active, message>>
       \/ /\ IdOf(t) \in active /\ Goto(t, "read count")
          /\ active' = active \ {IdOf(t)} /\ message' = NrOfIds
    /\ UNCHANGED <<entryVars, count, timerVars>>
Unlist_StaysListed(t) ==
    /\ At(t, "list") /\ ~call[t].raising
    /\ \/ /\ IdOf(t) \notin active /\ Goto(t, "callback") /\ UNCHANGED message
       \/ /\ IdOf(t) \in active /\ Goto(t, "read count") /\ message' = NrOfIds
    /\ UNCHANGED <<entryVars, active, count, timerVars>>

Unlist(t) ==
    /\ At(t, "list") /\ ~call[t].raising
    /\ \/ /\ IdOf(t) \notin active /\ Goto(t, "callback") /\ UNCHANGED <<active, message>>
       \/ /\ IdOf(t) \in active /\ Goto(t, "read count")
          /\ active' = active \ {IdOf(t)} /\ message' = NrOfIds
    /\ UNCHANGED <<entryVars, count, timerVars>>

\* TIMER_Start and TIMER_Stop do not wait for room in the queue, and nobody
\* looks at their answer.
Send(command) ==
    commands' = IF Len(commands) < TimerQueueLength THEN Append(commands, command) ELSE commands

\* Mutant: the timer is started with the second error.
TestForStart_Second(t) ==
    /\ At(t, "test for start")
    /\ Goto(t, IF count = 1 THEN "start" ELSE "read count")
    /\ UNCHANGED <<entryVars, fatalVars, timerVars, message>>

TestForStart(t) ==
    /\ At(t, "test for start")
    /\ Goto(t, IF count = 0 THEN "start" ELSE "read count")
    /\ UNCHANGED <<entryVars, fatalVars, timerVars, message>>

StartTimer(t) ==
    /\ At(t, "start") /\ Send("start") /\ Goto(t, "read count")
    /\ UNCHANGED <<entryVars, fatalVars, running, resend, message>>

\* diag_activeFatalErrorCount++ or --: read, add, write.
ReadCount(t) ==
    /\ At(t, "read count")
    /\ call' = [call EXCEPT ![t].step = "write count", ![t].read = count]
    /\ UNCHANGED <<entryVars, fatalVars, timerVars, message>>

WriteCount(t) ==
    /\ At(t, "write count")
    /\ count' = (call[t].read + (IF call[t].raising THEN 1 ELSE CountModulus - 1)) % CountModulus
    /\ Goto(t, IF call[t].raising THEN "callback" ELSE "test for stop")
    /\ UNCHANGED <<entryVars, active, timerVars, message>>

TestForStop(t) ==
    /\ At(t, "test for stop")
    /\ Goto(t, IF count = 0 THEN "stop" ELSE "callback")
    /\ UNCHANGED <<entryVars, fatalVars, timerVars, message>>

StopTimer(t) ==
    /\ At(t, "stop") /\ Send("stop") /\ Goto(t, "callback")
    /\ UNCHANGED <<entryVars, fatalVars, running, resend, message>>

\* The callback of the id sets or resets its flag.
Callback(t) ==
    /\ At(t, "callback")
    /\ flags' = IF call[t].raising THEN flags \cup {call[t].key} ELSE flags \ {call[t].key}
    /\ call' = [call EXCEPT ![t] = Idle]
    /\ UNCHANGED <<counter, fatalVars, timerVars, message>>

-----------------------------------------------------------------------------
\* The timer task: it takes commands from its queue, and when the period of the
\* running timer is over it goes through the list of errors.

TakeCommand ==
    /\ Quiet /\ resend = NrOfIds /\ commands # << >>
    /\ running' = (Head(commands) = "start")
    /\ commands' = Tail(commands)
    /\ UNCHANGED <<entryVars, fatalVars, call, resend, message>>

\* Mutant: the first id of the list is left out.
DIAG_ResendFatalErrors_OffByOne ==
    /\ Quiet /\ resend = NrOfIds /\ running /\ count > 0
    /\ resend' = 1
    /\ UNCHANGED <<entryVars, fatalVars, call, commands, running, message>>

DIAG_ResendFatalErrors ==
    /\ Quiet /\ resend = NrOfIds /\ running /\ count > 0
    /\ resend' = 0
    /\ UNCHANGED <<entryVars, fatalVars, call, commands, running, message>>

ResendNext ==
    /\ Quiet /\ resend < NrOfIds
    /\ message' = IF resend \in active THEN resend ELSE message
    /\ resend' = resend + 1
    /\ UNCHANGED <<entryVars, fatalVars, call, commands, running>>

Handler(t) ==
    \/ CountUp(t) \/ CountDown(t)
    \/ List(t) \/ Unlist(t) \/ TestForStart(t) \/ StartTimer(t) \/ ReadCount(t)
    \/ WriteCount(t) \/ TestForStop(t) \/ StopTimer(t) \/ Callback(t)

TimerTask == TakeCommand \/ DIAG_ResendFatalErrors \/ ResendNext

Next ==
    \/ \E t \in Tasks : Handler(t) \/ \E k \in Reported : ReportNotOk(t, k) \/ ReportOk(t, k)
    \/ TimerTask

Spec == Init /\ [][Next]_vars

\* A call that was begun goes on, and the timer task gets the processor again
\* and again: strong fairness, since those above them keep taking it away.
Fairness ==
    /\ \A t \in Tasks : SF_vars(Handler(t))
    /\ SF_vars(TakeCommand) /\ SF_vars(DIAG_ResendFatalErrors) /\ SF_vars(ResendNext)

-----------------------------------------------------------------------------
\* Properties.

Steps == {"idle", "counter", "list", "test for start", "start", "read count", "write count",
          "test for stop", "stop", "callback"}

Calls == [step : Steps, key : Keys, raising : BOOLEAN, read : Nat]

TypeOK ==
    /\ counter \in [Keys -> Nat] /\ \A k \in Keys : counter[k] <= Threshold[k[2]] + 1
    /\ flags \subseteq Keys
    /\ active \subseteq FatalIds /\ count \in 0 .. CountModulus - 1
    /\ call \in [Tasks -> Calls]
    /\ commands \in Seq({"start", "stop"}) /\ Len(commands) <= TimerQueueLength
    /\ running \in BOOLEAN /\ resend \in 0 .. NrOfIds
    /\ message \in -1 .. NrOfIds

\* A call that has counted the event and not yet called back.
Raising(k) ==
    \E t \in Tasks : call[t].step \notin {"idle", "counter"} /\ call[t].key = k /\ call[t].raising
Clearing(k) ==
    \E t \in Tasks : call[t].step \notin {"idle", "counter"} /\ call[t].key = k /\ ~call[t].raising

\* Entries of ids that one task reports, as ok and as not ok.
Exclusive == {id \in Ids : NotOkTask[id] = OkTask[id]}
ExclusiveKeys == Strings \X Exclusive

\* diag.rst, "debounce counter [...] to avoid unintentional jitter of fault/good
\* conditions": the flag is set above the threshold and not at zero; only the call
\* at work on the entry may be late with it.
FlagsFollowCounters ==
    \A k \in ExclusiveKeys :
        /\ counter[k] > Threshold[k[2]] => k \in flags \/ Raising(k)
        /\ counter[k] = 0 => k \notin flags \/ Clearing(k)

\* A fatal error that is listed, and sent on CAN, has a flag in the database on
\* one string at least, or the call that makes it so is under way.
ListedIsFlagged ==
    \A id \in active \cap Exclusive :
        \E s \in Strings : <<s, id>> \in flags \/ Raising(<<s, id>>)

\* Seen from outside, an entry changes at the end of the call, by one event.
EntryOf(k) ==
    [count |-> CASE Raising(k) -> Threshold[k[2]]
                 [] Clearing(k) -> 1
                 [] OTHER -> counter[k],
     error |-> k \in flags]

Entries == INSTANCE DiagEntries WITH
    Keys <- ExclusiveKeys,
    Threshold <- [k \in ExclusiveKeys |-> Threshold[k[2]]],
    entry <- [k \in ExclusiveKeys |-> EntryOf(k)]

\* The diagnosis keeps the promise of DiagEntries.
ImplementsEntries == Entries!Spec
=============================================================================
