-------------------------------- MODULE Bms --------------------------------
(***************************************************************************)
(* The BMS state machine (src/src/app/application/bms/bms.c): BMS_Trigger, *)
(* called once per cycle of the 10 ms task, drives the contactors of every *)
(* battery string.  One action stands for one call of BMS_Trigger in one   *)
(* substate; all times are counted in calls.                               *)
(*                                                                         *)
(* The rest of the firmware appears through what BMS_Trigger reads: the    *)
(* fatal errors the diagnosis module reports, the request received by CAN, *)
(* the currents and voltages of the pack (reduced to the comparisons made  *)
(* with them) and the contactor feedback.                                  *)
(***************************************************************************)
EXTENDS Contactor, Integers, FiniteSetsExt

CONSTANTS
    FatalIds,           \* diagnosis ids of severity DIAG_FATAL_ERROR
    FatalDelay,         \* delay_ms of each of them
    Lost30C,            \* DIAG_ID_SUPPLY_VOLTAGE_CLAMP_30C_LOST
    FeedbackDelay,      \* delay_ms of the contactor feedback ids
    NoActiveDelay,      \* BMS_NO_ACTIVE_DELAY_TIME_ms, above every delay
    MediumTime,         \* BMS_FSM_MEDIUMTIME
    LongTime,           \* BMS_FSM_LONGTIME
    WaitClosing,        \* BMS_WAIT_TIME_AFTER_CLOSING_STRING_CONTACTOR
    WaitOpening,        \* BMS_WAIT_TIME_AFTER_OPENING_STRING_CONTACTOR
    WaitPrechargeOpen,  \* BMS_TIME_WAIT_AFTER_OPENING_PRECHARGE
    WaitPrechargeFail,  \* BMS_TIME_WAIT_AFTER_PRECHARGE_FAIL
    CloseTimeout,       \* BMS_STRING_CLOSE_TIMEOUT
    OpenTimeout,        \* BMS_STRING_OPEN_TIMEOUT
    OscillationTimeout, \* BMS_OSCILLATION_TIMEOUT
    PrechargeTries,     \* BMS_PRECHARGE_TRIES
    PrechargeDuration,  \* BMS_MAXIMUM_PRECHARGE_DURATION_ms
    FuseDuration,       \* BS_MAIN_FUSE_MAXIMUM_TRIGGER_DURATION_ms
    CountModulus        \* numberOfClosedStrings is a uint8_t: 2^8

ShortTime == 1          \* BMS_FSM_SHORTTIME

Waits == {MediumTime, LongTime, WaitClosing, WaitOpening, WaitPrechargeOpen,
          WaitPrechargeFail}

ASSUME BmsAssumption ==
    /\ Lost30C \in FatalIds
    /\ FatalDelay \in [FatalIds -> Nat]
    /\ FeedbackDelay \in Nat
    /\ NoActiveDelay \in Nat
    /\ FeedbackDelay < NoActiveDelay
    /\ \A e \in FatalIds : FatalDelay[e] < NoActiveDelay
    /\ Waits \subseteq Nat \ {0}
    /\ {CloseTimeout, OpenTimeout, OscillationTimeout} \subseteq Nat \ {0}
    /\ PrechargeTries \in Nat \ {0}
    /\ PrechargeDuration \in Nat
    /\ FuseDuration \in Nat
    /\ CountModulus \in Nat /\ CountModulus > NrOfStrings

NoString == NrOfStrings                     \* BMS_NO_STRING_AVAILABLE
\* No fatal error since the error state was last left; remainingDelay_ms is
\* then loaded before it is read.
NoDelay == [latched |-> FALSE, remaining |-> NoActiveDelay, minimum |-> NoActiveDelay]
CanRequests == {"NOREQ", "STANDBY", "NORMAL", "CHARGE"}

VARIABLES
    state, substate, nextState,     \* the state machine proper
    timer,                          \* calls until the next step is taken
    timeout,                        \* the four countdowns of every call
    stateRequest,                   \* bms_state.stateRequest
    canState,                       \* bmsCanState in the database
    balancing,                      \* the last request made to BAL
    stringNumber, nextString,       \* static locals of BMS_Trigger
    firstString,                    \* firstClosedString
    toOpen,                         \* contactorToBeOpened
    closedStrings, prechargedStrings, \* closedStrings, closedPrechargeContactors
    nrClosed,                       \* numberOfClosedStrings
    tries, prechargeTime,           \* prechargeTryCounter, time since startOfPrecharging
    aboveBreak,                     \* timeAboveContactorBreakCurrent_ms
    overBreak,                      \* strings whose current is too high, or unknown
    fatal, alert,                   \* active fatal errors; ALERT_MODE active
    delay                           \* the countdown to the error state:
                                    \*   latched    transitionToErrorState
                                    \*   remaining  remainingDelay_ms, less the
                                    \*              time since it was last counted
                                    \*   minimum    minimumActiveDelay_ms

fsmVars == <<state, substate, nextState, timer, timeout, stateRequest>>
outVars == <<canState, balancing>>
stringVars == <<stringNumber, nextString, firstString, toOpen>>
closedVars == <<closedStrings, prechargedStrings, nrClosed>>
prechargeVars == <<tries>>
breakVars == <<aboveBreak>>
vars == <<fsmVars, outVars, stringVars, closedVars, prechargeVars, prechargeTime,
          breakVars, overBreak, fatal, alert, delay, contVars>>

Timeouts == {"nextString", "open", "close", "oscillation"}

States == {"UNINITIALIZED", "INITIALIZATION", "INITIALIZED", "IDLE",
           "OPEN_CONTACTORS", "STANDBY", "PRECHARGE", "NORMAL", "ERROR"}

\* The substates each state is ever in.
SubstatesOf(st) ==
    CASE st \in {"UNINITIALIZED", "INITIALIZATION", "INITIALIZED"} -> {"ENTRY"}
      [] st = "IDLE" -> {"ENTRY", "CHECK_ERROR_FLAGS", "CHECK_STATE_REQUESTS"}
      [] st = "OPEN_CONTACTORS" ->
           {"ENTRY", "OPEN_ALL_PRECHARGE", "OPEN_FIRST", "OPEN_SECOND", "CHECK_SECOND",
            "SUPPLY_VOLTAGE_30C_LOSS", "OPEN_STRINGS_EXIT"}
      [] st = "STANDBY" -> {"ENTRY", "CHECK_ERROR_FLAGS_INTERLOCK", "INTERLOCK_CHECKED",
                            "CHECK_ERROR_FLAGS", "CHECK_STATE_REQUESTS"}
      [] st = "PRECHARGE" -> {"ENTRY", "CLOSE_PRECHARGE", "CHECK_PROCESS", "CHECK_CLOSE_SECOND",
                              "CHECK_ERROR_FLAGS_FIRST", "CHECK_ERROR_FLAGS_CLOSING",
                              "OPEN_PRECHARGE", "CHECK_OPEN_PRECHARGE"}
      [] st = "NORMAL" -> {"ENTRY", "CHECK_ERROR_FLAGS", "CHECK_STATE_REQUESTS",
                           "CLOSE_NEXT_STRING", "CLOSE_SECOND"}
      [] st = "ERROR" -> {"ENTRY", "CHECK_ERROR_FLAGS", "CHECK_STATE_REQUESTS"}

Init ==
    /\ state = "UNINITIALIZED" /\ substate = "ENTRY" /\ nextState = "STANDBY"
    /\ timer = 0 /\ timeout = [k \in Timeouts |-> 0]
    /\ stateRequest = "NO_REQUEST"
    /\ canState = "UNINITIALIZED" /\ balancing = "NONE"
    /\ stringNumber = 0 /\ nextString = 0 /\ firstString = 0 /\ toOpen = "UNDEFINED"
    /\ closedStrings = {} /\ prechargedStrings = {} /\ nrClosed = 0
    /\ tries = 0 /\ prechargeTime = 0
    /\ aboveBreak = 0 /\ overBreak = {}
    /\ fatal = {} /\ alert = FALSE
    /\ delay = NoDelay
    /\ ContInit

-----------------------------------------------------------------------------
\* Fatal errors and the delay before they take effect.

FeedbackErrorActive(entries) == \E c \in Contactors : IsActive(entries[c], FbThreshold)

\* DIAG_IsAnyFatalErrorSet, with the feedback entries of this call.
AnyFatalErrorSet == fatal # {} \/ alert \/ FeedbackErrorActive(fbEntry')

\* Mutant: the alert mode has no delay configured.
ActiveDelays_WithoutAlert ==
    {FatalDelay[e] : e \in fatal}
        \cup (IF FeedbackErrorActive(fbEntry') THEN {FeedbackDelay} ELSE {})

\* BMS_IsAnyFatalErrorFlagSet: the least delay of the active errors and of
\* all those seen since the error state was last left.
ActiveDelays ==
    {FatalDelay[e] : e \in fatal}
        \cup (IF alert THEN {0} ELSE {})
        \cup (IF FeedbackErrorActive(fbEntry') THEN {FeedbackDelay} ELSE {})

Least(a, b) == IF a < b THEN a ELSE b

MinimumDelay == Min({delay.minimum} \cup ActiveDelays)

Decremented(n) == IF n > 0 THEN n - 1 ELSE 0

\* Mutant: the time between two evaluations is lost.
Passed_LosesTime == delay

\* A call that does not evaluate the errors only lets time pass.
Passed == IF delay.latched THEN [delay EXCEPT !.remaining = Decremented(@)] ELSE delay

PassDelay == delay' = Passed

\* Mutant: a more urgent error does not shorten a running delay.
Evaluated_NotShortened ==
    CASE delay.latched -> [Passed EXCEPT !.minimum = MinimumDelay]
      [] ~delay.latched /\ AnyFatalErrorSet ->
           [latched |-> TRUE, remaining |-> MinimumDelay, minimum |-> MinimumDelay]
      [] OTHER -> delay

\* BMS_IsBatterySystemStateOkay: the countdown this call leaves behind.
Evaluated ==
    CASE delay.latched ->
           [Passed EXCEPT !.minimum = MinimumDelay, !.remaining = Least(@, MinimumDelay)]
      [] ~delay.latched /\ AnyFatalErrorSet ->
           [latched |-> TRUE, remaining |-> MinimumDelay, minimum |-> MinimumDelay]
      [] OTHER -> delay

\* Mutant: an error that has gone is forgotten.
SystemStateOkay_Forgets ==
    ~(Evaluated.latched /\ Evaluated.remaining = 0 /\ AnyFatalErrorSet)

SystemStateOkay == ~(Evaluated.latched /\ Evaluated.remaining = 0)

EvaluateDelay == delay' = Evaluated

-----------------------------------------------------------------------------
\* The part of BMS_Trigger that every call runs.

Ticked == [k \in Timeouts |-> Decremented(timeout[k])]

At(st, sub) == state = st /\ substate = sub
Goto(st, sub, wait) == state' = st /\ substate' = sub /\ timer' = wait

\* The time since startOfPrecharging matters while the process is monitored.
PrechargeClock ==
    prechargeTime' = IF At("PRECHARGE", "CHECK_PROCESS")
                       THEN Least(prechargeTime + 1, PrechargeDuration + 1) ELSE 0

\* BMS_GetMeasurementValues; the string currents are read in OPEN_FIRST only.
ReadPackValues ==
    overBreak' \in IF At("OPEN_CONTACTORS", "OPEN_FIRST") THEN SUBSET Strings ELSE {{}}

CyclicChecks ==
    IF state = "UNINITIALIZED"
      THEN UNCHANGED <<overBreak, feedback, fbEntry>>
      ELSE ReadPackValues /\ CONT_CheckFeedback

\* A call that goes on to the switch over the states.
Step == timer <= 1 /\ CyclicChecks /\ PrechargeClock /\ UNCHANGED <<stateRequest, fatal>>

\* A call that only counts the timer down.
Wait ==
    /\ timer > 1
    /\ CyclicChecks /\ PrechargeClock /\ PassDelay
    /\ timer' = timer - 1
    /\ timeout' = Ticked
    /\ UNCHANGED <<state, substate, nextState, stateRequest, outVars, stringVars, closedVars,
                   prechargeVars, breakVars, fatal, alert, currentSet>>

\* The database copy of the feedback errors is refreshed by the 1 ms task, so
\* this call reads the errors as they were before or after its own check.
FeedbackValid(s, type) ==
    \E entries \in {fbEntry, fbEntry'} : <<s, type>> \notin FeedbackErrors(entries)
FeedbackInvalid(s, type) ==
    \E entries \in {fbEntry, fbEntry'} : <<s, type>> \in FeedbackErrors(entries)

\* Leave for OPEN_CONTACTORS, to go on to next when the contactors are open.
OpenThen(next, wait) == Goto("OPEN_CONTACTORS", "ENTRY", wait) /\ nextState' = next

\* The check of the error flags most substates make: leave, or go on to sub.
CheckErrorFlags(wait, sub) ==
    /\ EvaluateDelay
    /\ \/ ~SystemStateOkay /\ OpenThen("ERROR", wait)
       \/ SystemStateOkay /\ Goto(state, sub, ShortTime) /\ UNCHANGED nextState

-----------------------------------------------------------------------------
\* Start-up.

\* What most steps leave alone.
OutQuiet == UNCHANGED outVars
StringsQuiet == UNCHANGED <<stringVars, closedVars>>
RestQuiet == UNCHANGED <<tries, aboveBreak, alert>>
OnlyFsm == OutQuiet /\ StringsQuiet /\ RestQuiet /\ UNCHANGED currentSet

\* BMS_SetStateRequest(BMS_STATE_INITIALIZATION_REQUEST), called by SYS_Trigger.
SetInitializationRequest ==
    /\ stateRequest = "NO_REQUEST" /\ state = "UNINITIALIZED"
    /\ stateRequest' = "INITIALIZATION"
    /\ UNCHANGED <<state, substate, nextState, timer, timeout, outVars, stringVars, closedVars,
                   prechargeVars, prechargeTime, breakVars, overBreak, fatal, alert, delay,
                   contVars>>

Uninitialized ==
    /\ state = "UNINITIALIZED" /\ stateRequest = "INITIALIZATION"
    /\ timer <= 1 /\ CyclicChecks /\ PrechargeClock /\ PassDelay
    /\ stateRequest' = "NO_REQUEST"                 \* BMS_TransferStateRequest
    /\ Goto("INITIALIZATION", "ENTRY", ShortTime)
    /\ timeout' = Ticked
    /\ OnlyFsm /\ UNCHANGED <<nextState, fatal>>

\* DIAG_Handler(DIAG_ID_ALERT_MODE, DIAG_EVENT_OK) takes a single error back.
Initialization ==
    /\ state = "INITIALIZATION" /\ Step
    /\ alert' = FALSE
    /\ Goto("INITIALIZED", "ENTRY", LongTime)
    /\ timeout' = Ticked /\ PassDelay
    /\ OutQuiet /\ StringsQuiet /\ UNCHANGED <<nextState, tries, aboveBreak, currentSet>>

\* The insulation monitor may not be ready yet.
Initialized ==
    /\ state = "INITIALIZED" /\ Step
    /\ \/ Goto("INITIALIZED", "ENTRY", LongTime)
       \/ Goto("IDLE", "ENTRY", ShortTime)
    /\ timeout' = Ticked /\ PassDelay
    /\ OnlyFsm /\ UNCHANGED nextState

IdleEntry ==
    /\ At("IDLE", "ENTRY") /\ Step
    /\ canState' = "IDLE"
    /\ Goto("IDLE", "CHECK_ERROR_FLAGS", ShortTime)
    /\ timeout' = Ticked /\ PassDelay
    /\ StringsQuiet /\ RestQuiet /\ UNCHANGED <<nextState, balancing, currentSet>>

IdleCheckErrorFlags ==
    /\ At("IDLE", "CHECK_ERROR_FLAGS") /\ Step
    /\ CheckErrorFlags(ShortTime, "CHECK_STATE_REQUESTS")
    /\ timeout' = Ticked
    /\ OnlyFsm

IdleCheckRequests ==
    /\ At("IDLE", "CHECK_STATE_REQUESTS") /\ Step
    /\ \E request \in CanRequests :
         \/ request = "STANDBY" /\ OpenThen("STANDBY", ShortTime)
         \/ request # "STANDBY" /\ Goto("IDLE", "CHECK_ERROR_FLAGS", ShortTime)
                                /\ UNCHANGED nextState
    /\ timeout' = Ticked /\ PassDelay
    /\ OnlyFsm

-----------------------------------------------------------------------------
\* OPEN_CONTACTORS: open every string, the highest index first.

\* Mutant: balancing goes on.
OpenEntry_KeepsBalancing ==
    /\ At("OPEN_CONTACTORS", "ENTRY") /\ Step
    /\ \/ Lost30C \in fatal /\ Goto(state, "SUPPLY_VOLTAGE_30C_LOSS", ShortTime)
       \/ Lost30C \notin fatal /\ Goto(state, "OPEN_ALL_PRECHARGE", ShortTime)
    /\ timeout' = Ticked /\ PassDelay
    /\ StringsQuiet /\ RestQuiet /\ UNCHANGED <<nextState, outVars, currentSet>>

OpenEntry ==
    /\ At("OPEN_CONTACTORS", "ENTRY") /\ Step
    /\ balancing' = "NONE"
    /\ \/ Lost30C \in fatal /\ Goto(state, "SUPPLY_VOLTAGE_30C_LOSS", ShortTime)
       \/ Lost30C \notin fatal /\ Goto(state, "OPEN_ALL_PRECHARGE", ShortTime)
    /\ timeout' = Ticked /\ PassDelay
    /\ StringsQuiet /\ RestQuiet /\ UNCHANGED <<nextState, canState, currentSet>>

OpenAllPrecharge ==
    /\ At("OPEN_CONTACTORS", "OPEN_ALL_PRECHARGE") /\ Step
    /\ CONT_OpenAllPrechargeContactors
    /\ stringNumber' = NrOfStrings - 1
    /\ Goto(state, "OPEN_FIRST", WaitPrechargeOpen)
    /\ timeout' = Ticked /\ PassDelay
    /\ OutQuiet /\ RestQuiet
    /\ UNCHANGED <<nextState, nextString, firstString, toOpen, closedVars>>

\* BMS_GetFirstContactorToBeOpened has no body in the source; its contract
\* lets the direction of the current decide between the two.
OpenFirstContactor ==
    \E first \in {"PLUS", "MINUS"} :
        /\ toOpen' = first
        /\ CONT_OpenContactor(stringNumber, first)
        /\ Goto(state, "OPEN_SECOND", WaitOpening)

\* Mutant: the current is not looked at.
OpenFirst_AnyCurrent ==
    /\ At("OPEN_CONTACTORS", "OPEN_FIRST") /\ Step
    /\ OpenFirstContactor
    /\ timeout' = [Ticked EXCEPT !["open"] = OpenTimeout]
    /\ PassDelay /\ OutQuiet /\ RestQuiet
    /\ UNCHANGED <<nextState, stringNumber, nextString, firstString, closedVars>>

OpenFirst ==
    /\ At("OPEN_CONTACTORS", "OPEN_FIRST") /\ Step
    /\ stringNumber \notin overBreak'
    /\ OpenFirstContactor
    /\ timeout' = [Ticked EXCEPT !["open"] = OpenTimeout]
    /\ PassDelay /\ OutQuiet /\ RestQuiet
    /\ UNCHANGED <<nextState, stringNumber, nextString, firstString, closedVars>>

\* Mutant: the time is not counted.
TimeAboveBreak_Stands == aboveBreak

\* The time spent above the break current is counted up to its first excess.
TimeAboveBreak == Least(aboveBreak + 1, FuseDuration + 1)

WaitForFuse ==
    /\ At("OPEN_CONTACTORS", "OPEN_FIRST") /\ Step
    /\ stringNumber \in overBreak'
    /\ aboveBreak' = TimeAboveBreak /\ aboveBreak' <= FuseDuration
    /\ Goto(state, substate, 0)
    /\ timeout' = Ticked /\ PassDelay
    /\ OutQuiet /\ StringsQuiet /\ UNCHANGED <<nextState, tries, alert, currentSet>>

ForceOpenFirst ==
    /\ At("OPEN_CONTACTORS", "OPEN_FIRST") /\ Step
    /\ stringNumber \in overBreak'
    /\ aboveBreak' = TimeAboveBreak /\ aboveBreak' > FuseDuration
    /\ alert' = TRUE
    /\ OpenFirstContactor
    /\ timeout' = Ticked /\ PassDelay
    /\ OutQuiet /\ UNCHANGED <<nextState, stringNumber, nextString, firstString, closedVars, tries>>

Other(type) == IF type = "PLUS" THEN "MINUS" ELSE "PLUS"

OpenedOrUnknown == ~ReadsOn(stringNumber, toOpen) \/ FeedbackInvalid(stringNumber, toOpen)
StillClosed == ReadsOn(stringNumber, toOpen) /\ FeedbackValid(stringNumber, toOpen)

OpenSecond ==
    /\ At("OPEN_CONTACTORS", "OPEN_SECOND") /\ Step
    /\ \/ /\ OpenedOrUnknown
          /\ toOpen' = Other(toOpen)                \* BMS_GetSecondContactorToBeOpened
          /\ CONT_OpenContactor(stringNumber, Other(toOpen))
          /\ Goto(state, "CHECK_SECOND", WaitOpening)
       \/ /\ StillClosed
          /\ CONT_OpenContactor(stringNumber, toOpen)
          /\ Goto(state, substate, ShortTime)
          /\ UNCHANGED toOpen
    /\ timeout' = Ticked /\ PassDelay
    /\ OutQuiet /\ RestQuiet
    /\ UNCHANGED <<nextState, stringNumber, nextString, firstString, closedVars>>

StringOpened ==
    /\ At("OPEN_CONTACTORS", "CHECK_SECOND") /\ Step
    /\ OpenedOrUnknown
    /\ toOpen' = "UNDEFINED"
    /\ nrClosed' = Decremented(nrClosed)
    /\ closedStrings' = closedStrings \ {stringNumber}
    /\ \/ /\ stringNumber > 0
          /\ stringNumber' = stringNumber - 1
          /\ Goto(state, "OPEN_FIRST", ShortTime)
       \/ /\ stringNumber = 0
          /\ Goto(state, "OPEN_STRINGS_EXIT", ShortTime)
          /\ UNCHANGED stringNumber
    /\ timeout' = Ticked /\ PassDelay
    /\ OutQuiet /\ RestQuiet
    /\ UNCHANGED <<nextState, nextString, firstString, prechargedStrings, currentSet>>

StringNotOpened ==
    /\ At("OPEN_CONTACTORS", "CHECK_SECOND") /\ Step
    /\ StillClosed
    /\ \/ /\ Ticked["open"] = 0
          /\ Goto(state, "OPEN_FIRST", ShortTime)
          /\ UNCHANGED currentSet
       \/ /\ Ticked["open"] > 0
          /\ CONT_OpenContactor(stringNumber, toOpen)
          /\ Goto(state, substate, ShortTime)
    /\ timeout' = Ticked /\ PassDelay
    /\ OutQuiet /\ StringsQuiet /\ RestQuiet /\ UNCHANGED nextState

\* Mutant: only the precharge contactors are opened.
HandleLost30C_OnlyPrecharge ==
    /\ At("OPEN_CONTACTORS", "SUPPLY_VOLTAGE_30C_LOSS") /\ Step
    /\ CONT_OpenAllPrechargeContactors
    /\ Goto(state, "OPEN_STRINGS_EXIT", ShortTime)
    /\ timeout' = Ticked /\ PassDelay
    /\ OutQuiet /\ StringsQuiet /\ RestQuiet /\ UNCHANGED nextState

\* Neither closedStrings nor numberOfClosedStrings is brought up to date here.
HandleLost30C ==
    /\ At("OPEN_CONTACTORS", "SUPPLY_VOLTAGE_30C_LOSS") /\ Step
    /\ CONT_OpenAllContactors
    /\ Goto(state, "OPEN_STRINGS_EXIT", ShortTime)
    /\ timeout' = Ticked /\ PassDelay
    /\ OutQuiet /\ StringsQuiet /\ RestQuiet /\ UNCHANGED nextState

OpenStringsExit ==
    /\ At("OPEN_CONTACTORS", "OPEN_STRINGS_EXIT") /\ Step
    /\ Goto(IF nextState = "STANDBY" THEN "STANDBY" ELSE "ERROR", "ENTRY", ShortTime)
    /\ timeout' = Ticked /\ PassDelay
    /\ OnlyFsm /\ UNCHANGED nextState

-----------------------------------------------------------------------------
\* STANDBY

StandbyEntry ==
    /\ At("STANDBY", "ENTRY") /\ Step
    /\ balancing' = "ALLOW" /\ canState' = "STANDBY"
    /\ Goto(state, "CHECK_ERROR_FLAGS_INTERLOCK", MediumTime)
    /\ timeout' = Ticked /\ PassDelay
    /\ StringsQuiet /\ RestQuiet /\ UNCHANGED <<nextState, currentSet>>

StandbyCheckErrorFlags ==
    /\ state = "STANDBY" /\ Step
    /\ \/ substate = "CHECK_ERROR_FLAGS_INTERLOCK"
             /\ CheckErrorFlags(ShortTime, "INTERLOCK_CHECKED")
       \/ substate = "CHECK_ERROR_FLAGS" /\ CheckErrorFlags(ShortTime, "CHECK_STATE_REQUESTS")
    /\ timeout' = Ticked
    /\ OnlyFsm

StandbyInterlockChecked ==
    /\ At("STANDBY", "INTERLOCK_CHECKED") /\ Step
    /\ Goto(state, "CHECK_ERROR_FLAGS", ShortTime)
    /\ timeout' = Ticked /\ PassDelay
    /\ OnlyFsm /\ UNCHANGED nextState

\* The request is read twice, and may change in between.
StandbyCheckRequests ==
    /\ At("STANDBY", "CHECK_STATE_REQUESTS") /\ Step
    /\ \E first, second \in CanRequests :
         \/ first = "NORMAL" /\ Goto("PRECHARGE", "ENTRY", ShortTime) /\ nextState' = "DISCHARGE"
         \/ /\ first # "NORMAL" /\ second = "CHARGE"
            /\ Goto("PRECHARGE", "ENTRY", ShortTime) /\ nextState' = "CHARGE"
         \/ /\ first # "NORMAL" /\ second # "CHARGE"
            /\ Goto(state, "CHECK_ERROR_FLAGS", ShortTime) /\ UNCHANGED nextState
    /\ timeout' = Ticked /\ PassDelay
    /\ OnlyFsm

-----------------------------------------------------------------------------
\* PRECHARGE: connect the first string through its precharge resistor.

\* BMS_GetLowestString or BMS_GetHighestString: any string with a precharge
\* path may have the extreme voltage, and none may have a valid one.
PrechargeEntry ==
    /\ At("PRECHARGE", "ENTRY") /\ Step
    /\ canState' = "PRECHARGE"
    /\ \/ /\ stringNumber' = NoString
          /\ OpenThen("ERROR", ShortTime)
          /\ timeout' = Ticked /\ PassDelay
          /\ UNCHANGED <<tries, firstString, currentSet>>
       \/ /\ stringNumber' \in WithPrecharge
          /\ tries' = 0 /\ firstString' = stringNumber'
          /\ \/ /\ Ticked["oscillation"] = 0
                /\ CONT_CloseContactor(stringNumber', "MINUS")
                /\ timeout' = [Ticked EXCEPT !["close"] = CloseTimeout]
                /\ Goto(state, "CLOSE_PRECHARGE", WaitClosing)
                /\ PassDelay /\ UNCHANGED nextState
             \/ /\ Ticked["oscillation"] > 0
                /\ EvaluateDelay
                /\ \/ ~SystemStateOkay /\ OpenThen("ERROR", ShortTime)
                   \/ SystemStateOkay /\ Goto(state, substate, 0) /\ UNCHANGED nextState
                /\ timeout' = Ticked /\ UNCHANGED currentSet
    /\ UNCHANGED <<balancing, nextString, toOpen, closedVars, aboveBreak, alert>>

\* No error flag and no request is looked at until the precharge contactor is set.
PrechargeClosePrecharge ==
    /\ At("PRECHARGE", "CLOSE_PRECHARGE") /\ Step
    /\ \/ /\ ReadsOn(firstString, "MINUS")
          /\ CONT_CloseContactor(firstString, "PRECHARGE")
          /\ prechargedStrings' = prechargedStrings \cup {stringNumber}
          /\ timeout' = [Ticked EXCEPT !["oscillation"] = OscillationTimeout]
          /\ Goto(state, "CHECK_PROCESS", ShortTime)
          /\ UNCHANGED nextState
       \/ /\ ~ReadsOn(firstString, "MINUS") /\ Ticked["close"] = 0
          /\ OpenThen("ERROR", ShortTime)
          /\ timeout' = Ticked /\ UNCHANGED <<prechargedStrings, currentSet>>
       \/ /\ ~ReadsOn(firstString, "MINUS") /\ Ticked["close"] > 0
          /\ CONT_CloseContactor(firstString, "MINUS")
          /\ Goto(state, substate, ShortTime)
          /\ timeout' = Ticked /\ UNCHANGED <<nextState, prechargedStrings>>
    /\ PassDelay /\ OutQuiet /\ RestQuiet
    /\ UNCHANGED <<stringVars, closedStrings, nrClosed>>

\* BMS_MonitorPrechargeProcess: finished is up to the measurements, failed to
\* the time since the precharge contactor was set.
ProcessTimedOut == prechargeTime' > PrechargeDuration

\* Mutant: one try too many.
RetryPrecharge_OneMore ==
    /\ CONT_OpenContactor(firstString, "PRECHARGE")
    /\ prechargedStrings' = prechargedStrings \ {stringNumber}
    /\ timeout' = Ticked
    /\ \/ /\ tries < PrechargeTries
          /\ tries' = tries + 1
          /\ Goto(state, "CLOSE_PRECHARGE", WaitPrechargeFail)
          /\ UNCHANGED nextState
       \/ /\ tries >= PrechargeTries
          /\ OpenThen("ERROR", 0)
          /\ UNCHANGED tries

\* A process that timed out, or a finished one whose contactor does not read on.
RetryPrecharge ==
    /\ CONT_OpenContactor(firstString, "PRECHARGE")
    /\ prechargedStrings' = prechargedStrings \ {stringNumber}
    /\ timeout' = Ticked
    /\ \/ /\ tries < PrechargeTries - 1
          /\ tries' = tries + 1
          /\ Goto(state, "CLOSE_PRECHARGE", WaitPrechargeFail)
          /\ UNCHANGED nextState
       \/ /\ tries >= PrechargeTries - 1
          /\ OpenThen("ERROR", 0)
          /\ UNCHANGED tries

PrechargeCheckProcess ==
    /\ At("PRECHARGE", "CHECK_PROCESS") /\ Step
    /\ EvaluateDelay
    /\ \/ /\ ~SystemStateOkay /\ OpenThen("ERROR", 0)
          /\ timeout' = Ticked /\ UNCHANGED <<tries, prechargedStrings, currentSet>>
       \/ /\ SystemStateOkay
          /\ \E request \in CanRequests, finished \in BOOLEAN :
               \/ /\ request = "STANDBY" /\ OpenThen("STANDBY", 0)
                  /\ timeout' = Ticked /\ UNCHANGED <<tries, prechargedStrings, currentSet>>
               \/ /\ request # "STANDBY" /\ finished /\ ReadsOn(firstString, "PRECHARGE")
                  /\ CONT_CloseContactor(firstString, "PLUS")
                  /\ timeout' = [Ticked EXCEPT !["close"] = CloseTimeout]
                  /\ Goto(state, "CHECK_CLOSE_SECOND", WaitClosing)
                  /\ UNCHANGED <<nextState, tries, prechargedStrings>>
               \/ /\ request # "STANDBY" /\ ~finished /\ ~ProcessTimedOut
                  /\ Goto(state, substate, ShortTime)
                  /\ timeout' = Ticked
                  /\ UNCHANGED <<nextState, tries, prechargedStrings, currentSet>>
               \/ /\ request # "STANDBY"
                  /\ IF finished THEN ~ReadsOn(firstString, "PRECHARGE") ELSE ProcessTimedOut
                  /\ RetryPrecharge
    /\ OutQuiet /\ UNCHANGED <<stringVars, closedStrings, nrClosed, aboveBreak, alert>>

PrechargeCheckCloseSecond ==
    /\ At("PRECHARGE", "CHECK_CLOSE_SECOND") /\ Step
    /\ \/ /\ ReadsOn(firstString, "PLUS")
          /\ closedStrings' = closedStrings \cup {firstString}
          /\ nrClosed' = (nrClosed + 1) % CountModulus
          /\ Goto(state, "CHECK_ERROR_FLAGS_CLOSING", WaitClosing)
          /\ UNCHANGED <<nextState, currentSet>>
       \/ /\ ~ReadsOn(firstString, "PLUS") /\ Ticked["close"] = 0
          /\ OpenThen("ERROR", 0)
          /\ UNCHANGED <<closedStrings, nrClosed, currentSet>>
       \/ /\ ~ReadsOn(firstString, "PLUS") /\ Ticked["close"] > 0
          /\ CONT_CloseContactor(firstString, "PLUS")
          /\ Goto(state, "CHECK_ERROR_FLAGS_FIRST", ShortTime)
          /\ UNCHANGED <<nextState, closedStrings, nrClosed>>
    /\ timeout' = Ticked /\ PassDelay
    /\ OutQuiet /\ RestQuiet /\ UNCHANGED <<stringVars, prechargedStrings>>

PrechargeCheckErrorFlags ==
    /\ state = "PRECHARGE" /\ Step
    /\ \/ substate = "CHECK_ERROR_FLAGS_FIRST" /\ CheckErrorFlags(0, "CHECK_CLOSE_SECOND")
       \/ substate = "CHECK_ERROR_FLAGS_CLOSING" /\ CheckErrorFlags(0, "OPEN_PRECHARGE")
    /\ timeout' = Ticked
    /\ OnlyFsm

\* Mutant: the precharge contactor stays closed in operation.
PrechargeOpenPrecharge_Skipped ==
    /\ At("PRECHARGE", "OPEN_PRECHARGE") /\ Step
    /\ Goto("NORMAL", "ENTRY", ShortTime)
    /\ timeout' = Ticked /\ PassDelay
    /\ OutQuiet /\ StringsQuiet /\ RestQuiet /\ UNCHANGED <<nextState, currentSet>>

PrechargeOpenPrecharge ==
    /\ At("PRECHARGE", "OPEN_PRECHARGE") /\ Step
    /\ CONT_OpenContactor(firstString, "PRECHARGE")
    /\ prechargedStrings' = prechargedStrings \ {stringNumber}
    /\ Goto(state, "CHECK_OPEN_PRECHARGE", WaitPrechargeOpen)
    /\ timeout' = Ticked /\ PassDelay
    /\ OutQuiet /\ RestQuiet /\ UNCHANGED <<nextState, stringVars, closedStrings, nrClosed>>

\* Opening is requested again by way of CHECK_CLOSE_SECOND, which counts the
\* string once more.
PrechargeCheckOpenPrecharge ==
    /\ At("PRECHARGE", "CHECK_OPEN_PRECHARGE") /\ Step
    /\ \/ /\ ~ReadsOn(firstString, "PRECHARGE")
          /\ Goto("NORMAL", "ENTRY", ShortTime)
          /\ UNCHANGED <<nextState, currentSet>>
       \/ /\ ReadsOn(firstString, "PRECHARGE") /\ Ticked["close"] = 0
          /\ OpenThen("ERROR", 0)
          /\ UNCHANGED currentSet
       \/ /\ ReadsOn(firstString, "PRECHARGE") /\ Ticked["close"] > 0
          /\ CONT_OpenContactor(firstString, "PRECHARGE")
          /\ Goto(state, "CHECK_ERROR_FLAGS_FIRST", ShortTime)
          /\ UNCHANGED nextState
    /\ timeout' = Ticked /\ PassDelay
    /\ OutQuiet /\ StringsQuiet /\ RestQuiet

-----------------------------------------------------------------------------
\* NORMAL: watch for errors and requests, and close the other strings.

NormalEntry ==
    /\ At("NORMAL", "ENTRY") /\ Step
    /\ canState' = IF nextState = "CHARGE" THEN "CHARGE" ELSE "NORMAL"
    /\ Goto(state, "CHECK_ERROR_FLAGS", ShortTime)
    /\ timeout' = [Ticked EXCEPT !["nextString"] = 0] /\ PassDelay
    /\ StringsQuiet /\ RestQuiet /\ UNCHANGED <<nextState, balancing, currentSet>>

\* Mutant: the error flags are not checked in operation.
NormalCheckErrorFlags_Skipped ==
    /\ At("NORMAL", "CHECK_ERROR_FLAGS") /\ Step
    /\ Goto(state, "CHECK_STATE_REQUESTS", ShortTime) /\ PassDelay
    /\ timeout' = Ticked
    /\ OnlyFsm /\ UNCHANGED nextState

NormalCheckErrorFlags ==
    /\ At("NORMAL", "CHECK_ERROR_FLAGS") /\ Step
    /\ CheckErrorFlags(0, "CHECK_STATE_REQUESTS")
    /\ timeout' = Ticked
    /\ OnlyFsm

NormalCheckRequests ==
    /\ At("NORMAL", "CHECK_STATE_REQUESTS") /\ Step
    /\ \E request \in CanRequests :
         \/ request = "STANDBY" /\ OpenThen("STANDBY", 0)
         \/ request # "STANDBY" /\ Goto(state, "CLOSE_NEXT_STRING", ShortTime)
                                /\ UNCHANGED nextState
    /\ timeout' = Ticked /\ PassDelay
    /\ OnlyFsm

\* BMS_GetClosestString: any open string may be the closest one, and none may
\* have a valid voltage.  Too far away or too much current: ask again.
NormalCloseNextString ==
    /\ At("NORMAL", "CLOSE_NEXT_STRING") /\ Step
    /\ \/ /\ Ticked["nextString"] > 0
          /\ Goto(state, "CHECK_ERROR_FLAGS", ShortTime)
          /\ timeout' = Ticked /\ UNCHANGED <<nextString, currentSet>>
       \/ /\ Ticked["nextString"] = 0
          /\ nextString' = NoString
          /\ Goto(state, "CHECK_ERROR_FLAGS", ShortTime)
          /\ timeout' = Ticked /\ UNCHANGED currentSet
       \/ /\ Ticked["nextString"] = 0
          /\ nextString' \in Strings \ closedStrings
          /\ \/ /\ CONT_CloseContactor(nextString', "MINUS")
                /\ timeout' = [Ticked EXCEPT !["nextString"] = CloseTimeout]
                /\ Goto(state, "CLOSE_SECOND", WaitClosing)
             \/ /\ Goto(state, substate, 0)
                /\ timeout' = Ticked /\ UNCHANGED currentSet
    /\ PassDelay /\ OutQuiet /\ RestQuiet
    /\ UNCHANGED <<nextState, stringNumber, firstString, toOpen, closedVars>>

\* Once its minus contactor is closed the substate follows itself: the substate
\* CHECK_STRING_CLOSED, which records the string as closed, is never entered.
NormalCloseSecond ==
    /\ At("NORMAL", "CLOSE_SECOND") /\ Step
    /\ \/ /\ ReadsOn(nextString, "MINUS")
          /\ CONT_CloseContactor(nextString, "PLUS")
          /\ Goto(state, substate, WaitClosing) /\ UNCHANGED nextState
       \/ /\ ~ReadsOn(nextString, "MINUS") /\ Ticked["close"] = 0
          /\ OpenThen("ERROR", 0) /\ UNCHANGED currentSet
       \/ /\ ~ReadsOn(nextString, "MINUS") /\ Ticked["close"] > 0
          /\ CONT_CloseContactor(nextString, "MINUS")
          /\ Goto(state, substate, ShortTime) /\ UNCHANGED nextState
    /\ timeout' = Ticked /\ PassDelay
    /\ OutQuiet /\ StringsQuiet /\ RestQuiet

-----------------------------------------------------------------------------
\* ERROR: left for STANDBY on request, when no fatal error is set.

ErrorEntry ==
    /\ At("ERROR", "ENTRY") /\ Step
    /\ canState' = "ERROR" /\ balancing' = "NONE"
    /\ Goto(state, "CHECK_ERROR_FLAGS", ShortTime)
    /\ timeout' = Ticked /\ PassDelay
    /\ StringsQuiet /\ RestQuiet /\ UNCHANGED <<nextState, currentSet>>

ErrorCheckErrorFlags ==
    /\ At("ERROR", "CHECK_ERROR_FLAGS") /\ Step
    /\ \/ /\ AnyFatalErrorSet
          /\ Goto(state, substate, 0) /\ PassDelay
       \/ /\ ~AnyFatalErrorSet
          /\ delay' = NoDelay
          /\ Goto(state, "CHECK_STATE_REQUESTS", ShortTime)
    /\ timeout' = Ticked
    /\ OnlyFsm /\ UNCHANGED nextState

ErrorCheckRequests ==
    /\ At("ERROR", "CHECK_STATE_REQUESTS") /\ Step
    /\ \E request \in CanRequests :
         \/ request = "STANDBY" /\ balancing' = "ALLOW" /\ OpenThen("STANDBY", 0)
         \/ /\ request # "STANDBY" /\ Goto(state, "CHECK_ERROR_FLAGS", ShortTime)
            /\ UNCHANGED <<balancing, nextState>>
    /\ timeout' = Ticked /\ PassDelay
    /\ StringsQuiet /\ RestQuiet /\ UNCHANGED <<canState, currentSet>>

-----------------------------------------------------------------------------
\* The diagnosis module: other tasks report errors between two calls.

FatalErrorChanges ==
    /\ \E e \in FatalIds : fatal' = fatal \cup {e} \/ fatal' = fatal \ {e}
    /\ UNCHANGED <<fsmVars, outVars, stringVars, closedVars, prechargeVars, prechargeTime,
                   breakVars, overBreak, alert, delay, contVars>>

StartUp == Uninitialized \/ Initialization \/ Initialized
            \/ IdleEntry \/ IdleCheckErrorFlags \/ IdleCheckRequests

OpenContactors ==
    \/ OpenEntry \/ OpenAllPrecharge \/ OpenFirst \/ WaitForFuse \/ ForceOpenFirst
    \/ OpenSecond \/ StringOpened \/ StringNotOpened \/ HandleLost30C \/ OpenStringsExit

Standby == StandbyEntry \/ StandbyCheckErrorFlags \/ StandbyInterlockChecked \/ StandbyCheckRequests

Precharge ==
    \/ PrechargeEntry \/ PrechargeClosePrecharge \/ PrechargeCheckProcess
    \/ PrechargeCheckCloseSecond \/ PrechargeCheckErrorFlags \/ PrechargeOpenPrecharge
    \/ PrechargeCheckOpenPrecharge

Normal == NormalEntry \/ NormalCheckErrorFlags \/ NormalCheckRequests
            \/ NormalCloseNextString \/ NormalCloseSecond

Error == ErrorEntry \/ ErrorCheckErrorFlags \/ ErrorCheckRequests

BMS_Trigger == Wait \/ StartUp \/ OpenContactors \/ Standby \/ Precharge \/ Normal \/ Error

Next == BMS_Trigger \/ SetInitializationRequest \/ FatalErrorChanges

Spec == Init /\ [][Next]_vars

\* The 10 ms task calls BMS_Trigger in every cycle, and the system state
\* machine asks for the initialization once.
Fairness == WF_vars(BMS_Trigger) /\ WF_vars(SetInitializationRequest)

FairSpec == Spec /\ Fairness

-----------------------------------------------------------------------------
\* Properties.

\* Every variable stays within the range of its C type and use.
TypeOK ==
    /\ state \in States /\ substate \in SubstatesOf(state)
    /\ nextState \in {"STANDBY", "ERROR", "DISCHARGE", "CHARGE"}
    /\ timer \in {0, ShortTime} \cup UNION {0 .. w : w \in Waits}
    /\ timeout \in [Timeouts -> Nat]
    /\ stateRequest \in {"NO_REQUEST", "INITIALIZATION"}
    /\ canState \in {"UNINITIALIZED", "IDLE", "STANDBY", "PRECHARGE", "NORMAL", "CHARGE", "ERROR"}
    /\ balancing \in {"NONE", "ALLOW"}
    /\ stringNumber \in Strings \cup {NoString} /\ nextString \in Strings \cup {NoString}
    /\ firstString \in Strings /\ toOpen \in {"PLUS", "MINUS", "UNDEFINED"}
    /\ closedStrings \subseteq Strings /\ prechargedStrings \subseteq Strings
    /\ nrClosed \in 0 .. CountModulus - 1
    /\ tries \in 0 .. PrechargeTries - 1
    /\ prechargeTime \in 0 .. PrechargeDuration + 1
    /\ aboveBreak \in 0 .. FuseDuration + 1
    /\ overBreak \subseteq Strings
    /\ fatal \subseteq FatalIds /\ alert \in BOOLEAN
    /\ delay \in [latched : BOOLEAN, remaining : 0 .. NoActiveDelay,
                  minimum : 0 .. NoActiveDelay]
    /\ ContTypeOK

\* What the state machine knows of the contactors in each of its steps.
SafeStates == {"UNINITIALIZED", "INITIALIZATION", "INITIALIZED", "IDLE", "STANDBY", "ERROR"}

\* bms.rst, "STANDBY corresponds to the state where all the contactors are
\* open" and "the ERROR state prevents closing of the contactors": outside
\* OPEN_CONTACTORS, PRECHARGE and NORMAL no contactor is set.  The code opens
\* string by string, in a loop over contactors that may answer late or never.
SafeStatesDisconnected == state \in SafeStates => currentSet = {}

Path(s) == {<<s, "MINUS">>, <<s, "PLUS">>}
Precharge1 == <<firstString, "PRECHARGE">>

\* While precharging, only the first string has contactors set, and no more of
\* them than the substate needs.
PrechargeSteps ==
    state = "PRECHARGE" =>
        /\ substate = "ENTRY" => currentSet = {}
        /\ substate # "ENTRY" => firstString \in WithPrecharge /\ stringNumber = firstString
        /\ substate = "CLOSE_PRECHARGE" => currentSet = {<<firstString, "MINUS">>}
        /\ substate = "CHECK_PROCESS" => currentSet = {<<firstString, "MINUS">>, Precharge1}
        /\ substate \notin {"ENTRY", "CLOSE_PRECHARGE", "CHECK_PROCESS"} =>
             Path(firstString) \subseteq currentSet
               /\ currentSet \subseteq Path(firstString) \cup {Precharge1}
        /\ substate = "CHECK_OPEN_PRECHARGE" => Precharge1 \notin currentSet

\* In operation the first string is connected and no precharge contactor is set.
NormalSteps ==
    state = "NORMAL" =>
        /\ Path(firstString) \subseteq currentSet
        /\ \A c \in currentSet : c[2] # "PRECHARGE"
        /\ substate = "CLOSE_SECOND" => <<nextString, "MINUS">> \in currentSet

\* While opening, every string above the current one is open already.
OpenSteps ==
    state = "OPEN_CONTACTORS" =>
        /\ substate \in {"OPEN_FIRST", "OPEN_SECOND", "CHECK_SECOND"} =>
             /\ stringNumber \in Strings
             /\ \A c \in currentSet : c[1] <= stringNumber /\ c[2] # "PRECHARGE"
        /\ substate \in {"OPEN_SECOND", "CHECK_SECOND"} =>
             toOpen \in {"PLUS", "MINUS"} /\ <<stringNumber, toOpen>> \notin currentSet
        /\ substate = "CHECK_SECOND" => <<stringNumber, Other(toOpen)>> \notin currentSet
        /\ substate = "OPEN_STRINGS_EXIT" => currentSet = {}

\* The contactors that are set agree with the step the state machine is in:
\* BMS_Trigger never looks at what it has set, only at the step it has reached.
ContactorsFollowSteps ==
    SafeStatesDisconnected /\ PrechargeSteps /\ NormalSteps /\ OpenSteps

\* The state shown to the vehicle by way of the database promises no more than
\* the contactors keep: a pack that shows itself off has no contactor set.
ReportedOffIsOff ==
    canState \in {"UNINITIALIZED", "IDLE", "STANDBY", "ERROR"} => currentSet = {}

\* In the error state, whichever way it was reached, the last request of the BMS
\* to BAL forbids balancing (bms.c:1746 allows it on the way out, 1193 forbids it).
\* Whether BAL takes the request is the matter of module BalClaims.
ErrorForbidsBalancing == state = "ERROR" => balancing = "NONE"

\* A main contactor breaks the path of a connected string only in the first
\* opening step, under less than the maximum break current or in the alert
\* mode, or when the supply of the contactors is lost.
PathOf(s, contactors) == Path(s) \subseteq contactors
BreaksPath(s) == PathOf(s, currentSet) /\ ~PathOf(s, currentSet')
BreakCurrentRespected ==
    [][\A s \in Strings : BreaksPath(s) =>
         \/ At("OPEN_CONTACTORS", "OPEN_FIRST") /\ s = stringNumber
              /\ (s \notin overBreak' \/ alert')
         \/ At("OPEN_CONTACTORS", "SUPPLY_VOLTAGE_30C_LOSS")]_vars

\* From the alert mode on no contactor is closed again: the error it raises
\* takes effect without delay and is taken back by the initialization only.
AlertIsFinal == [][alert => currentSet' \subseteq currentSet]_vars

\* The steps in which an alert can be pending.
AlertSteps ==
    alert => \/ state = "OPEN_CONTACTORS"
             \/ state = "STANDBY" /\ substate \in {"ENTRY", "CHECK_ERROR_FLAGS_INTERLOCK"}
             \/ state = "ERROR" /\ substate \in {"ENTRY", "CHECK_ERROR_FLAGS"}

\* The bus is never connected to a string after the delay of a fatal error has
\* run out, except by the closing of further strings, which looks at no error.
DelayExpired == delay'.latched /\ delay'.remaining = 0
NoConnectionAfterDelay ==
    [][DelayExpired /\ state # "NORMAL" =>
         \A s \in Strings : PathOf(s, currentSet') => PathOf(s, currentSet)]_vars

\* The countdown holds a delay of its own errors only: without a latched error
\* it is unloaded, and it never runs beyond the least delay seen.
DelayLoaded ==
    IF delay.latched THEN delay.remaining <= delay.minimum /\ delay.minimum < NoActiveDelay
                     ELSE delay = NoDelay

\* Opening always ends: no feedback, current or error keeps the state machine
\* in OPEN_CONTACTORS for ever.
OpeningEnds == state = "OPEN_CONTACTORS" ~> state \in {"STANDBY", "ERROR"}

\* bms.rst: "once [...] an Error flag is raised, the BMS will subsequently
\* switch, with the configured delay time to ERROR state and open the contactors".
\* In operation an error that stays is acted on ...
ErrorTakesEffect == state = "NORMAL" /\ fatal # {} ~> state = "OPEN_CONTACTORS" \/ fatal = {}

\* ... and once its delay has started to run, the error state is reached even
\* if the error goes away, whatever is requested in the meantime.
ErrorIsReached == delay.latched ~> state = "ERROR"

\* A contactor that answers closed for good although it is not set brings the
\* pack to the error state.
WeldedContactorFound ==
    \A c \in Contactors :
        <>[](c \in feedback /\ c \notin currentSet) => <>[](state = "ERROR")

-----------------------------------------------------------------------------
\* The power path as the contactors make it.

Mode ==
    CASE state \in SafeStates        -> "disconnected"
      [] state = "PRECHARGE"         -> "connecting"
      [] state = "NORMAL"            -> "connected"
      [] state = "OPEN_CONTACTORS"   -> "disconnecting"

Power == INSTANCE PowerPath WITH
    Prechargeable <- WithPrecharge,
    mode <- Mode,
    limited <- {s \in WithPrecharge : {<<s, "MINUS">>, <<s, "PRECHARGE">>} \subseteq currentSet},
    full <- {s \in Strings : Path(s) \subseteq currentSet}

\* The state machine keeps the promises of PowerPath.
ImplementsPowerPath == Power!Spec
=============================================================================
