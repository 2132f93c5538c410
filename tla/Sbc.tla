-------------------------------- MODULE Sbc --------------------------------
(***************************************************************************)
(* The driver of the system basis chip (src/src/app/driver/sbc/sbc.c), the *)
(* chip that supplies the microcontroller and resets it unless its         *)
(* watchdog is refreshed.  SBC_Trigger, called every 10 ms, refreshes the  *)
(* watchdog, initializes the chip step by step with retries, and then      *)
(* looks at the ignition signal.                                           *)
(*                                                                         *)
(* The functions of nxpfs85xx.c are calls that do their work or fail; what *)
(* the chip does with a refresh is taken from the comment there (lines     *)
(* 954-959).  Left out: the registers, the last states, the counter of     *)
(* illegal requests and SBC_CheckReEntrance, as only the 10 ms task calls  *)
(* SBC_Trigger.  watchdogState is active from the first value of           *)
(* watchdogTrigger on.                                                     *)
(***************************************************************************)
EXTENDS Integers

CONSTANTS
    WatchdogPeriod,     \* watchdogPeriod_10ms, in calls
    RefreshLimit,       \* of the chip's refresh counter
    PowerUpFaults,      \* values of the chip's fault error counter at power-up
    MaxRetries,         \* of a step of the initialization
    CheckTime           \* SBC_STATEMACHINE_LONGTIME

ASSUME SbcAssumption ==
    /\ WatchdogPeriod \in Nat \ {0, 1}
    /\ RefreshLimit \in Nat \ {0} /\ PowerUpFaults \subseteq Nat
    /\ MaxRetries \in Nat /\ CheckTime \in Nat \ {0}

VARIABLES
    sbcRequest,         \* stateRequest is SBC_STATE_INIT_REQUEST
    sbcState, sbcSubstate, sbcTimer,
    retryCounter,
    watchdogTrigger,
    faults, refreshes,  \* fault error counter and refresh counter of the chip
    ignition,           \* level of the ignition signal
    wake1Level,         \* the level FS85_CheckIgnitionSignal has noted
    standby,            \* the chip was sent to standby: power goes off
    sinceRefresh,       \* history: calls since the last good refresh, it included
    refreshFailed,      \* history: a refresh failed that a call of SBC_Trigger owed
    failures            \* history: calls that failed during the initialization

stepVars == <<sbcRequest, sbcState, sbcSubstate, sbcTimer, retryCounter>>
chipVars == <<faults, refreshes>>
watchdogVars == <<watchdogTrigger, chipVars, sinceRefresh, refreshFailed>>
ignitionVars == <<wake1Level, standby>>
sbcVars == <<stepVars, watchdogVars, ignition, ignitionVars, failures>>

SbcStates == {"UNINITIALIZED", "INITIALIZATION", "RUNNING", "ERROR"}
SbcSubstates == {"ENTRY", "PART1", "PART2", "SAFETY_PATH_CHECK"}

SbcInit ==
    /\ sbcRequest = FALSE
    /\ sbcState = "UNINITIALIZED" /\ sbcSubstate = "ENTRY" /\ sbcTimer = 0 /\ retryCounter = 0
    /\ watchdogTrigger = 0 /\ faults \in PowerUpFaults /\ refreshes = 0
    /\ ignition = TRUE /\ wake1Level = FALSE /\ standby = FALSE
    /\ sinceRefresh = 0 /\ refreshFailed = FALSE /\ failures = 0

-----------------------------------------------------------------------------
\* The chip.

\* A good refresh counts; the one after the limit takes a fault back.
GoodRefresh ==
    IF refreshes = RefreshLimit
    THEN refreshes' = 0 /\ faults' = IF faults > 0 THEN faults - 1 ELSE 0
    ELSE refreshes' = refreshes + 1 /\ UNCHANGED faults

\* A failed one was good and could not be read back, was wrong, or got lost.
FailedRefresh ==
    \/ GoodRefresh
    \/ refreshes' = 0 /\ faults' \in {faults, faults + 1}
    \/ UNCHANGED chipVars

\* FS85_InitializeNumberOfRequiredWatchdogRefreshes
Required(f, r) == f + (RefreshLimit - r)

\* Calls are counted from the first good refresh on, to one above the period.
NoRefresh ==
    sinceRefresh' = IF sinceRefresh \in {0, WatchdogPeriod + 1} THEN sinceRefresh
                                                               ELSE sinceRefresh + 1

-----------------------------------------------------------------------------
\* SBC_Trigger.  The watchdog comes first, whatever the state machine waits for.

\* SBC_CheckStateRequest
SbcAccepts == ~sbcRequest /\ sbcState = "UNINITIALIZED"
SBC_SetStateRequest == sbcRequest' = (sbcRequest \/ SbcAccepts)

SBC_TriggerWatchdogIfRequired(good) ==
    IF watchdogTrigger = 1
    THEN /\ watchdogTrigger' = IF good THEN WatchdogPeriod ELSE 0
         /\ IF good THEN GoodRefresh /\ sinceRefresh' = 1 ELSE FailedRefresh /\ NoRefresh
         /\ refreshFailed' = (refreshFailed \/ ~good)
    ELSE /\ watchdogTrigger' = IF watchdogTrigger > 0 THEN watchdogTrigger - 1 ELSE 0
         /\ NoRefresh
         /\ UNCHANGED <<chipVars, refreshFailed>>

SbcWaits ==
    /\ sbcTimer > 1 /\ sbcTimer' = sbcTimer - 1
    /\ UNCHANGED <<sbcRequest, sbcState, sbcSubstate, retryCounter, ignitionVars, failures>>

Elapsed(state) == sbcTimer <= 1 /\ sbcState = state
Initializing(sub) == Elapsed("INITIALIZATION") /\ sbcSubstate = sub
SbcGoto(state, sub, t) == sbcState' = state /\ sbcSubstate' = sub /\ sbcTimer' = t

SbcUninitialized ==
    /\ Elapsed("UNINITIALIZED")
    /\ sbcRequest' = FALSE
    /\ IF sbcRequest THEN SbcGoto("INITIALIZATION", "ENTRY", 1)
                     ELSE SbcGoto("UNINITIALIZED", sbcSubstate, 0)
    /\ UNCHANGED <<retryCounter, ignitionVars, failures>>

\* A failed step is tried again after t, a limited number of times.
Retry(t) ==
    /\ IF retryCounter < MaxRetries
       THEN retryCounter' = retryCounter + 1 /\ SbcGoto(sbcState, sbcSubstate, t)
       ELSE retryCounter' = 0 /\ SbcGoto("ERROR", "ENTRY", 1)
    /\ UNCHANGED <<sbcRequest, ignitionVars>>

\* Failed calls are counted to the first number that stops a step.
Counted == IF failures > MaxRetries THEN failures ELSE failures + 1
Failed(t) == Retry(t) /\ failures' = Counted

Done(retries, state, sub, t) ==
    /\ retryCounter' = retries /\ SbcGoto(state, sub, t)
    /\ UNCHANGED <<sbcRequest, ignitionVars, failures>>

\* FS85_InitializeFsPhase makes the first refresh itself.  A fault it adds is
\* one too many for the wait that follows, so it counts as failures enough.
InitializeFsPhase(ok) ==
    /\ Initializing("ENTRY")
    /\ IF ok THEN /\ Done(0, "INITIALIZATION", "PART1", 1)
                  /\ watchdogTrigger' = WatchdogPeriod
                  /\ GoodRefresh /\ sinceRefresh' = 1
             ELSE /\ Retry(0)
                  /\ FailedRefresh
                  /\ failures' = IF faults' > faults THEN MaxRetries + 1 ELSE Counted
                  /\ UNCHANGED <<watchdogTrigger, sinceRefresh>>
    /\ UNCHANGED refreshFailed

\* Mutant: one refresh less than required.
RequiredTime_OneLess(f, r) == (Required(f, r) - 1) * WatchdogPeriod

RequiredTime(f, r) == Required(f, r) * WatchdogPeriod

ResetFaultErrorCounterPart1(ok) ==
    /\ Initializing("PART1")
    /\ IF ok THEN Done(0, "INITIALIZATION", "PART2", RequiredTime(faults', refreshes'))
             ELSE Failed(0)

ResetFaultErrorCounterPart2(ok) ==
    /\ Initializing("PART2")
    /\ \/ ok /\ faults' = 0 /\ Done(retryCounter, "INITIALIZATION", "SAFETY_PATH_CHECK", 1)
       \/ ok /\ faults' # 0 /\ Retry(1) /\ UNCHANGED failures
       \/ ~ok /\ Failed(1)

\* The end of the initialization; the history of its failures ends with it.
SafetyPathCheck(ok) ==
    /\ Initializing("SAFETY_PATH_CHECK")
    /\ \/ ~ok /\ Failed(1)
       \/ ok /\ retryCounter' = 0 /\ SbcGoto("RUNNING", "ENTRY", 1)
             /\ failures' = 0
             /\ UNCHANGED <<sbcRequest, ignitionVars>>

\* Mutant: the level is noted although the chip was not sent to standby.
FS85_CheckIgnitionSignal_Forgets(ok) ==
    /\ wake1Level' = ignition
    /\ standby' = (ok /\ wake1Level /\ ~ignition)

\* A falling edge sends the chip to standby; if that fails, the edge stays.
FS85_CheckIgnitionSignal(ok) ==
    /\ wake1Level' = IF ok THEN ignition ELSE wake1Level
    /\ standby' = (ok /\ wake1Level /\ ~ignition)

SbcRunning(ok) ==
    /\ Elapsed("RUNNING")
    /\ SbcGoto("RUNNING", sbcSubstate, CheckTime)
    /\ FS85_CheckIgnitionSignal(ok)
    /\ UNCHANGED <<sbcRequest, retryCounter, failures>>

SbcError ==
    /\ Elapsed("ERROR")
    /\ SbcGoto("ERROR", sbcSubstate, CheckTime)
    /\ UNCHANGED <<sbcRequest, retryCounter, ignitionVars, failures>>

SBC_RunStateMachine(ok) ==
    \/ SbcWaits \/ SbcUninitialized \/ SbcError
    \/ ResetFaultErrorCounterPart1(ok) \/ ResetFaultErrorCounterPart2(ok)
    \/ SafetyPathCheck(ok) \/ SbcRunning(ok)

\* Mutant: the watchdog waits as the state machine does.
SBC_Trigger_WaitsFirst(good, ok) ==
    /\ ~standby /\ UNCHANGED ignition
    /\ \/ InitializeFsPhase(ok)
       \/ sbcTimer <= 1 /\ SBC_TriggerWatchdogIfRequired(good) /\ SBC_RunStateMachine(ok)
       \/ SbcWaits /\ NoRefresh /\ UNCHANGED <<watchdogTrigger, chipVars, refreshFailed>>

SBC_Trigger(good, ok) ==
    /\ ~standby /\ UNCHANGED ignition
    /\ \/ InitializeFsPhase(ok)
       \/ SBC_TriggerWatchdogIfRequired(good) /\ SBC_RunStateMachine(ok)

-----------------------------------------------------------------------------
Request ==
    /\ SBC_SetStateRequest
    /\ UNCHANGED <<sbcState, sbcSubstate, sbcTimer, retryCounter, watchdogVars, ignition,
                   ignitionVars, failures>>

IgnitionChanges ==
    /\ ~standby /\ ignition' = ~ignition
    /\ UNCHANGED <<stepVars, watchdogVars, ignitionVars, failures>>

SbcNext ==
    \/ Request \/ IgnitionChanges
    \/ \E good, ok \in BOOLEAN : SBC_Trigger(good, ok)

SbcSpec == SbcInit /\ [][SbcNext]_sbcVars

-----------------------------------------------------------------------------
\* As long as no refresh fails, the watchdog is refreshed when its period is
\* over, neither before nor after, whatever the state machine waits for.
RefreshInTime ==
    [][sinceRefresh > 0 /\ sinceRefresh' # sinceRefresh /\ ~refreshFailed'
         => (sinceRefresh' = 1 <=> sinceRefresh = WatchdogPeriod)]_sbcVars

\* An ignition that was seen on and is switched off sends the chip to standby.
IgnitionOffIsFollowed == wake1Level /\ ~ignition ~> standby \/ ignition

\* The refreshes the driver has waited for clear the fault error counter: when
\* it looks, after good calls only, the counter is zero.
RequiredRefreshesSuffice ==
    Initializing("PART2") /\ failures = 0 /\ ~refreshFailed => faults = 0
=============================================================================
