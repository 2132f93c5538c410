------------------------------ MODULE StartUp ------------------------------
(***************************************************************************)
(* The start of the system: SYS_Trigger (src/src/app/engine/sys/sys.c)     *)
(* brings up the system basis chip, the balancing, the measurement, the    *)
(* insulation monitoring and the BMS one after the other, by requests and  *)
(* by looking at their states, with a limit on most of the waits.          *)
(*                                                                         *)
(* SYS_Trigger, SBC_Trigger and BMS_Trigger run in this order in each pass *)
(* of the 10 ms task, once a turn each; BAL_Trigger and IMD_Trigger run in *)
(* the 100 ms task, which the 10 ms task interrupts and delays.  A trigger *)
(* is one step: of two triggers in different tasks, each takes a request   *)
(* of the other in a critical section, and reads nothing else of it.       *)
(*                                                                         *)
(* Left out: the interlock, FRAM, the self-test and CAN, which no step     *)
(* waits for; what BAL and BMS do once they are initialized; the timers of *)
(* the states nothing leaves.  The insulation monitor is the driver none.  *)
(***************************************************************************)
EXTENDS Sbc

CONSTANTS
    MediumTime, LongTime,               \* waits of SYS and BMS, in passes
    SbcLimit, BalLimit, InitLimit,      \* limits of the waits, in polls
    SlowPeriod,                         \* passes in a period of the 100 ms task
    SlowJitter                          \* passes the 100 ms task may be late

ASSUME StartUpAssumption ==
    /\ SbcLimit \in Nat /\ BalLimit \in Nat /\ InitLimit \in Nat
    /\ MediumTime \in Nat \ {0} /\ LongTime \in Nat \ {0}
    /\ SlowPeriod \in Nat \ {0} /\ SlowJitter \in 1 .. SlowPeriod - 1

\* The 100 ms task runs within the time from the request to the insulation
\* monitor to the next one: 50 ms and 100 ms against its period and jitter.
ASSUME WaitAssumption == SlowPeriod + SlowJitter <= MediumTime + LongTime

\* The limits leave balancing its three calls, and the chip its refreshes and
\* retries: 50 passes against a period of 10, 100 passes against 81.  A chip that
\* has more faults than the driver waits for is not cleared by the retries.
ASSUME LimitAssumption ==
    /\ 3 * SlowPeriod + SlowJitter <= BalLimit + 2
    /\ 3 * MaxRetries + (RefreshLimit + 1) * WatchdogPeriod + 2 <= SbcLimit
    /\ RefreshLimit > 1 /\ MaxRetries <= WatchdogPeriod

VARIABLES
    turn,                   \* the trigger that is next in the 10 ms task
    phase,                  \* passes since the 100 ms task was released
    slow,                   \* the trigger that is next in the 100 ms task
    clock,                  \* RTC_IsRtcModuleInitialized
    sys,                    \* currentState and currentSubstate of SYS
    sysTimer, initializationTimeout,
    balRequest, bal,        \* of BAL
    imdRequest, imd,        \* of IMD
    bmsRequest, bms, bmsTimer

taskVars == <<turn, phase, slow>>
sysVars == <<sys, sysTimer, initializationTimeout>>
balVars == <<balRequest, bal>>
imdVars == <<imdRequest, imd>>
bmsVars == <<bmsRequest, bms, bmsTimer>>
vars == <<sbcVars, taskVars, clock, sysVars, balVars, imdVars, bmsVars>>

\* The steps that only go on, and where to.
Following == [
    UNINITIALIZED |-> "ENTRY_INITIALIZATION",
    ENTRY_INITIALIZATION |-> "CHECK_DEEP_DISCHARGE",
    CHECK_DEEP_DISCHARGE |-> "START_SBC",
    INITIALIZATION_CAN |-> "INITIALIZATION_RTC",
    START_UP_BIST |-> "SEND_BOOT_MESSAGE",
    SEND_BOOT_MESSAGE |-> "ENTRY_PRE_RUNNING",
    ENTRY_PRE_RUNNING |-> "INITIALIZE_INTERLOCK",
    INITIALIZE_INTERLOCK |-> "START_BAL",
    BAL_GLOBAL_ENABLE |-> "START_FIRST_MEASUREMENT",
    START_FIRST_MEASUREMENT |-> "WAIT_FIRST_MEASUREMENT",
    START_CURRENT_SENSOR |-> "WAIT_CURRENT_SENSOR",
    INITIALIZATION_MISC |-> "INITIALIZATION_IMD"]

Restarting == {"INITIALIZE_INTERLOCK", "START_FIRST_MEASUREMENT", "START_CURRENT_SENSOR",
               "INITIALIZATION_MISC"}

Errors == {"SBC_ERROR", "BAL_ERROR", "FIRST_MEASUREMENT_ERROR", "CURRENT_SENSOR_ERROR",
           "IMD_ERROR", "BMS_ERROR"}

ShortTime == 1
Retries == 3            \* SYS_STATE_MACHINE_INITIALIZATION_REQUEST_RETRY_COUNTER

Init ==
    /\ SbcInit
    /\ turn = "SYS" /\ phase \in 0 .. SlowPeriod - 1 /\ slow = "done" /\ clock = FALSE
    /\ sys = "UNINITIALIZED" /\ sysTimer = 0 /\ initializationTimeout = 0
    /\ balRequest = FALSE /\ bal = "UNINITIALIZED"
    /\ imdRequest = "NONE" /\ imd = "HAS_NEVER_RUN"
    /\ bmsRequest = FALSE /\ bms = "UNINITIALIZED" /\ bmsTimer = 0

-----------------------------------------------------------------------------
\* IMD, asked by SYS and by BMS.

\* IMD_CheckStateRequest
ImdAnswer(request) ==
    CASE imdRequest # "NONE" -> "PENDING"
      [] imdRequest = "NONE" /\ request = "INITIALIZE" ->
           IF imd = "UNINITIALIZED" THEN "OK" ELSE "ALREADY_INITIALIZED"
      [] imdRequest = "NONE" /\ request = "SWITCH_ON" ->
           IF imd = "ENABLE" THEN "OK" ELSE "ILLEGAL"

IMD_SetStateRequest(request) ==
    imdRequest' = IF ImdAnswer(request) = "OK" THEN request ELSE imdRequest

-----------------------------------------------------------------------------
\* SYS_Trigger: the passes of the 10 ms task begin with it.

BeginPass ==
    /\ ~standby
    /\ turn = "SYS" /\ turn' = "SBC"
    /\ slow = "done" \/ phase < SlowJitter
    /\ phase' = IF phase = SlowPeriod - 1 THEN 0 ELSE phase + 1
    /\ slow' = IF phase' = 0 THEN "BAL" ELSE slow
    /\ UNCHANGED <<clock, ignition, bal, imd, bms, bmsTimer>>

Goto(step, time) == sys' = step /\ sysTimer' = time
Asks(step) == sys = step /\ sysTimer <= 1
Quiet == UNCHANGED <<sbcVars, balRequest, imdRequest, bmsRequest>>
Restart == initializationTimeout' = 0

SysWaits ==
    /\ sysTimer > 1 /\ sysTimer' = sysTimer - 1
    /\ Quiet /\ UNCHANGED <<sys, initializationTimeout>>

SysStays ==
    /\ \/ sys \in Errors \cup {"RUNNING"}
       \/ Asks("INITIALIZATION_RTC") /\ ~clock
    /\ Goto(sys, 0)
    /\ Quiet /\ UNCHANGED initializationTimeout

\* The request to BAL that BAL_GLOBAL_ENABLE makes is never declined.
SysGoesOn ==
    /\ sysTimer <= 1 /\ sys \in DOMAIN Following
    /\ Goto(Following[sys], IF sys = "START_CURRENT_SENSOR" THEN LongTime ELSE ShortTime)
    /\ IF sys \in Restarting THEN Restart ELSE UNCHANGED initializationTimeout
    /\ Quiet

\* Mutant: the polls are not counted.
Poll_NotCounted(step, ready, next, limit, error, time) ==
    /\ Asks(step)
    /\ Goto(IF ready THEN next ELSE step, IF ready THEN ShortTime ELSE time)
    /\ Quiet /\ UNCHANGED initializationTimeout

\* A wait looks again after a time, up to a limit.
Poll(step, ready, next, limit, error, time) ==
    /\ Asks(step)
    /\ \/ ready /\ Goto(next, ShortTime) /\ UNCHANGED initializationTimeout
       \/ ~ready /\ initializationTimeout > limit
            /\ Goto(error, ShortTime) /\ UNCHANGED initializationTimeout
       \/ ~ready /\ initializationTimeout <= limit
            /\ Goto(step, time) /\ initializationTimeout' = initializationTimeout + 1
    /\ Quiet

StartSbc ==
    /\ Asks("START_SBC")
    /\ SBC_SetStateRequest
    /\ IF SbcAccepts THEN Restart /\ Goto("WAIT_SBC", ShortTime)
                     ELSE Goto(sys, 0) /\ UNCHANGED initializationTimeout
    /\ UNCHANGED <<sbcState, sbcSubstate, sbcTimer, retryCounter, watchdogVars, ignition,
                   ignitionVars, failures, balRequest, imdRequest, bmsRequest>>

WaitSbc ==
    Poll("WAIT_SBC", sbcState = "RUNNING", "INITIALIZATION_CAN", SbcLimit, "SBC_ERROR", ShortTime)

InitializationRtc ==
    /\ Asks("INITIALIZATION_RTC") /\ clock
    /\ Goto("START_UP_BIST", ShortTime)
    /\ Quiet /\ UNCHANGED initializationTimeout

StartBal ==
    /\ Asks("START_BAL")
    /\ balRequest' = TRUE
    /\ Restart /\ Goto("WAIT_BAL", ShortTime)
    /\ UNCHANGED <<sbcVars, imdRequest, bmsRequest>>

WaitBal ==
    Poll("WAIT_BAL", bal = "CHECK_BALANCING", "BAL_GLOBAL_ENABLE", BalLimit, "BAL_ERROR", ShortTime)

WaitFirstMeasurement == \E finished \in BOOLEAN :
    Poll("WAIT_FIRST_MEASUREMENT", finished, "START_CURRENT_SENSOR", InitLimit,
         "FIRST_MEASUREMENT_ERROR", MediumTime)

WaitCurrentSensor == \E present \in BOOLEAN :
    Poll("WAIT_CURRENT_SENSOR", present, "INITIALIZATION_MISC", InitLimit,
         "CURRENT_SENSOR_ERROR", MediumTime)

InitializationImd ==
    /\ Asks("INITIALIZATION_IMD")
    /\ IMD_SetStateRequest("INITIALIZE")
    /\ IF ImdAnswer("INITIALIZE") = "OK"
       THEN Restart /\ Goto("START_BMS", MediumTime)
       ELSE /\ initializationTimeout' = initializationTimeout + 1
            /\ Goto(IF initializationTimeout' >= Retries THEN "IMD_ERROR" ELSE sys, ShortTime)
    /\ UNCHANGED <<sbcVars, balRequest, bmsRequest>>

StartBms ==
    /\ Asks("START_BMS")
    /\ bmsRequest' = TRUE
    /\ Restart /\ Goto("WAIT_BMS", ShortTime)
    /\ UNCHANGED <<sbcVars, balRequest, imdRequest>>

\* BMS_GetInitializationState
WaitBms ==
    Poll("WAIT_BMS", bms \in {"INITIALIZED", "IDLE"}, "RUNNING", InitLimit, "BMS_ERROR", ShortTime)

SYS_Trigger ==
    /\ BeginPass
    /\ \/ SysWaits \/ SysStays \/ SysGoesOn
       \/ StartSbc \/ WaitSbc \/ InitializationRtc \/ StartBal \/ WaitBal
       \/ WaitFirstMeasurement \/ WaitCurrentSensor
       \/ InitializationImd \/ StartBms \/ WaitBms

-----------------------------------------------------------------------------
\* SBC_Trigger and BMS_Trigger, in the same pass.

SbcTurn(good, ok) ==
    /\ turn = "SBC" /\ turn' = "BMS"
    /\ SBC_Trigger(good, ok)
    /\ UNCHANGED <<phase, slow, clock, sysVars, balVars, imdVars, bmsVars>>

BmsGoto(state, time) == bms' = state /\ bmsTimer' = time

BmsWaits == bmsTimer > 1 /\ BmsGoto(bms, bmsTimer - 1) /\ UNCHANGED <<bmsRequest, imdRequest>>

BmsUninitialized ==
    /\ bms = "UNINITIALIZED" /\ bmsRequest' = FALSE
    /\ IF bmsRequest THEN BmsGoto("INITIALIZATION", ShortTime) ELSE BmsGoto(bms, 0)
    /\ UNCHANGED imdRequest

\* Mutant: the wait after the initialization is short.
BmsInitialization_Short ==
    /\ bms = "INITIALIZATION" /\ BmsGoto("INITIALIZED", ShortTime)
    /\ UNCHANGED <<bmsRequest, imdRequest>>

BmsInitialization ==
    /\ bms = "INITIALIZATION" /\ BmsGoto("INITIALIZED", LongTime)
    /\ UNCHANGED <<bmsRequest, imdRequest>>

\* Any answer but "ILLEGAL" counts as ready.
BmsInitialized ==
    /\ bms = "INITIALIZED"
    /\ IMD_SetStateRequest("SWITCH_ON")
    /\ IF ImdAnswer("SWITCH_ON") = "ILLEGAL" THEN BmsGoto(bms, LongTime) ELSE BmsGoto("IDLE", 0)
    /\ UNCHANGED bmsRequest

BmsIdle == bms = "IDLE" /\ UNCHANGED <<bmsVars, imdRequest>>

BMS_Trigger ==
    /\ ~standby
    /\ turn = "BMS" /\ turn' = "SYS"
    /\ \/ BmsWaits
       \/ bmsTimer <= 1 /\ (BmsUninitialized \/ BmsInitialization \/ BmsInitialized \/ BmsIdle)
    /\ UNCHANGED <<sbcVars, phase, slow, clock, sysVars, balVars, imd>>

-----------------------------------------------------------------------------
\* The 100 ms task and the I2C task.

\* BAL needs a call for each state; its timer never skips one.
BalState ==
    CASE bal = "UNINITIALIZED" -> IF balRequest THEN "INITIALIZATION" ELSE bal
      [] bal = "INITIALIZATION" -> "INITIALIZED"
      [] bal \in {"INITIALIZED", "CHECK_BALANCING"} -> "CHECK_BALANCING"

BAL_Trigger ==
    /\ ~standby
    /\ turn = "SYS" /\ slow = "BAL" /\ slow' = "IMD"
    /\ bal' = BalState
    /\ balRequest' = IF bal = "UNINITIALIZED" THEN FALSE ELSE balRequest
    /\ UNCHANGED <<sbcVars, turn, phase, clock, sysVars, imdVars, bmsVars>>

\* The state after a call, and whether the call takes the request.
ImdState ==
    CASE imd = "HAS_NEVER_RUN" -> "UNINITIALIZED"
      [] imd = "UNINITIALIZED" -> IF imdRequest = "INITIALIZE" THEN "INITIALIZATION" ELSE imd
      [] imd = "INITIALIZATION" -> "ENABLE"
      [] imd = "ENABLE" -> IF imdRequest = "SWITCH_ON" THEN "RUNNING" ELSE imd
      [] imd = "RUNNING" -> imd

IMD_Trigger ==
    /\ ~standby
    /\ turn = "SYS" /\ slow = "IMD" /\ slow' = "done"
    /\ imd' = ImdState
    /\ imdRequest' = IF imd \in {"HAS_NEVER_RUN", "INITIALIZATION"} THEN imdRequest ELSE "NONE"
    /\ UNCHANGED <<sbcVars, turn, phase, clock, sysVars, balVars, bmsVars>>

\* RTC_Trigger has read the clock.
ClockInitialized ==
    /\ ~standby /\ ~clock /\ clock' = TRUE
    /\ UNCHANGED <<sbcVars, taskVars, sysVars, balVars, imdVars, bmsVars>>

IgnitionMoves ==
    /\ IgnitionChanges
    /\ UNCHANGED <<taskVars, clock, sysVars, balVars, imdVars, bmsVars>>

\* The chip in standby supplies nothing any more.
PoweredDown == standby /\ UNCHANGED vars

SbcPass == \E good, ok \in BOOLEAN : SbcTurn(good, ok)
Cyclic10ms == SYS_Trigger \/ SbcPass \/ BMS_Trigger
Cyclic100ms == BAL_Trigger \/ IMD_Trigger

Next == Cyclic10ms \/ Cyclic100ms \/ ClockInitialized \/ IgnitionMoves \/ PoweredDown

\* Both tasks run, the clock is read in the end, and the chip, asked again and
\* again, once goes to standby.
Fairness ==
    /\ WF_vars(Cyclic10ms) /\ WF_vars(Cyclic100ms)
    /\ WF_vars(ClockInitialized)
    /\ SF_vars(SbcPass /\ standby')

Spec == Init /\ [][Next]_vars /\ Fairness

-----------------------------------------------------------------------------
\* Properties.

\* The start-up gives up for a reason: for want of the first measurement or of
\* a current sensor, or because the system basis chip failed more often than
\* its driver retries or a refresh of the watchdog failed.  The other limits
\* leave every initialization the time it takes, whatever the phase of the
\* 100 ms task, and the wait for the watchdog refreshes is as long as it must.
ErrorHasCause ==
    /\ sys \notin {"BAL_ERROR", "IMD_ERROR", "BMS_ERROR"}
    /\ sbcState = "ERROR" \/ sys = "SBC_ERROR" =>
         failures > MaxRetries \/ refreshFailed

\* A BMS that takes requests has the insulation measured: the request to switch
\* it on was taken, not just answered by one that was still pending.
InsulationIsMeasured == bms = "IDLE" => imdRequest = "SWITCH_ON" \/ imd = "RUNNING"

\* The start-up ends: in an error, or with a BMS that takes requests.
StartUpEnds == <>(standby \/ sys \in Errors \/ (sys = "RUNNING" /\ bms = "IDLE"))
=============================================================================
