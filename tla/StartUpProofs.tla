--------------------------- MODULE StartUpProofs ---------------------------
(***************************************************************************)
(* The watchdog is refreshed in time, a BMS that takes requests has the    *)
(* insulation measured, and the start-up gives up only for a reason: for   *)
(* all periods, limits and waits that meet the assumptions of the modules, *)
(* whatever fails.                                                         *)
(***************************************************************************)
EXTENDS StartUp, TLAPS

-----------------------------------------------------------------------------
\* The watchdog.

\* While no refresh has failed, the calls since the last one and those to the
\* next make up the period; there is no refresh before the first.
WatchdogInv ==
    /\ watchdogTrigger \in 0 .. WatchdogPeriod
    /\ sinceRefresh \in 0 .. WatchdogPeriod + 1
    /\ sinceRefresh = 0 => watchdogTrigger = 0
    /\ sinceRefresh > 0 /\ ~refreshFailed =>
         watchdogTrigger > 0 /\ sinceRefresh = WatchdogPeriod - watchdogTrigger + 1
    /\ sbcState = "UNINITIALIZED" => sinceRefresh = 0
    /\ sbcState = "INITIALIZATION" /\ sbcSubstate = "ENTRY" => sinceRefresh = 0

\* What a step leaves of the chip's driver, if it is not a call of SBC_Trigger.
WatchdogQuiet ==
    UNCHANGED <<sbcState, sbcSubstate, sbcTimer, retryCounter, failures, watchdogTrigger,
                faults, refreshes, sinceRefresh, refreshFailed>>

\* Only SBC_Trigger touches the watchdog; SYS_Trigger only asks the driver.
LEMMA SysLeavesChip ==
    ASSUME SYS_Trigger
    PROVE  WatchdogQuiet
<1>. USE DEF WatchdogQuiet, sbcVars, watchdogVars, chipVars, stepVars
<1>1. CASE StartSbc
  BY <1>1 DEF StartSbc
<1>2. CASE SysWaits \/ SysStays \/ SysGoesOn
  BY <1>2 DEF SysWaits, SysStays, SysGoesOn, Quiet
<1>3. CASE InitializationRtc \/ StartBal \/ InitializationImd \/ StartBms
  BY <1>3 DEF InitializationRtc, StartBal, InitializationImd, StartBms, Quiet
<1>4. CASE WaitSbc \/ WaitBal \/ WaitFirstMeasurement \/ WaitCurrentSensor \/ WaitBms
  BY <1>4 DEF WaitSbc, WaitBal, WaitFirstMeasurement, WaitCurrentSensor, WaitBms, Poll, Quiet
<1>. QED BY <1>1, <1>2, <1>3, <1>4 DEF SYS_Trigger

LEMMA WatchdogSteps ==
    ASSUME [Next]_vars
    PROVE  WatchdogQuiet \/ \E good, ok \in BOOLEAN : SBC_Trigger(good, ok)
<1>. USE DEF WatchdogQuiet, sbcVars, watchdogVars, chipVars, stepVars
<1>1. CASE UNCHANGED vars
  BY <1>1 DEF vars
<1>2. CASE SYS_Trigger
  BY <1>2, SysLeavesChip
<1>3. CASE SbcPass
  BY <1>3 DEF SbcPass, SbcTurn
<1>4. CASE BMS_Trigger
  BY <1>4 DEF BMS_Trigger
<1>5. CASE Cyclic100ms
  BY <1>5 DEF Cyclic100ms, BAL_Trigger, IMD_Trigger
<1>6. CASE ClockInitialized \/ IgnitionMoves
  BY <1>6 DEF ClockInitialized, IgnitionMoves, IgnitionChanges
<1>7. CASE PoweredDown
  BY <1>7 DEF PoweredDown, vars
<1>. QED BY <1>1, <1>2, <1>3, <1>4, <1>5, <1>6, <1>7 DEF Next, Cyclic10ms

\* The state machine never goes back to a step before the first refresh.
LEMMA StepsForward ==
    ASSUME NEW ok \in BOOLEAN, SBC_RunStateMachine(ok)
    PROVE  /\ sbcState' = "UNINITIALIZED" => sbcState = "UNINITIALIZED"
           /\ sbcState' = "INITIALIZATION" /\ sbcSubstate' = "ENTRY" =>
                \/ sbcState = "UNINITIALIZED"
                \/ sbcState = "INITIALIZATION" /\ sbcSubstate = "ENTRY"
BY DEF SBC_RunStateMachine, SbcWaits, SbcUninitialized, SbcError, ResetFaultErrorCounterPart1,
       ResetFaultErrorCounterPart2, SafetyPathCheck, SbcRunning, Failed, Retry, Done, SbcGoto,
       Initializing, Elapsed

\* A call of SBC_Trigger keeps the watchdog in step with its period.
LEMMA WatchdogStep ==
    ASSUME WatchdogInv, [Next]_vars
    PROVE  WatchdogInv'
<1>. USE SbcAssumption DEF WatchdogInv, SbcAssumption
<1>1. CASE WatchdogQuiet
  BY <1>1 DEF WatchdogQuiet
<1>2. ASSUME NEW good \in BOOLEAN, NEW ok \in BOOLEAN,
             SBC_TriggerWatchdogIfRequired(good), SBC_RunStateMachine(ok)
      PROVE  WatchdogInv'
  <2>1. /\ sbcState' = "UNINITIALIZED" => sinceRefresh = 0
        /\ sbcState' = "INITIALIZATION" /\ sbcSubstate' = "ENTRY" => sinceRefresh = 0
    BY <1>2, StepsForward
  <2>2. CASE watchdogTrigger = 1 /\ good
    BY <1>2, <2>1, <2>2 DEF SBC_TriggerWatchdogIfRequired
  <2>3. CASE watchdogTrigger = 1 /\ ~good
    <3>1. watchdogTrigger' = 0 /\ NoRefresh /\ refreshFailed'
      BY <1>2, <2>3 DEF SBC_TriggerWatchdogIfRequired
    <3>. QED BY <2>1, <2>3, <3>1 DEF NoRefresh
  <2>4. CASE watchdogTrigger # 1
    BY <1>2, <2>1, <2>4 DEF SBC_TriggerWatchdogIfRequired, NoRefresh
  <2>. QED BY <2>2, <2>3, <2>4
<1>3. ASSUME NEW ok \in BOOLEAN, InitializeFsPhase(ok)
      PROVE  WatchdogInv'
  <2>1. sinceRefresh = 0 /\ watchdogTrigger = 0 /\ UNCHANGED refreshFailed
    BY <1>3 DEF InitializeFsPhase, Initializing, Elapsed
  <2>2. CASE ok
    <3>1. watchdogTrigger' = WatchdogPeriod /\ sinceRefresh' = 1
      BY <1>3, <2>2 DEF InitializeFsPhase
    <3>2. sbcState' = "INITIALIZATION" /\ sbcSubstate' = "PART1"
      BY <1>3, <2>2 DEF InitializeFsPhase, Done, SbcGoto
    <3>. QED BY <2>1, <3>1, <3>2
  <2>3. CASE ~ok
    <3>1. UNCHANGED <<watchdogTrigger, sinceRefresh>>
      BY <1>3, <2>3 DEF InitializeFsPhase
    <3>2. sbcState' \in {"INITIALIZATION", "ERROR"}
      BY <1>3, <2>3 DEF InitializeFsPhase, Initializing, Elapsed, Retry, SbcGoto
    <3>. QED BY <2>1, <3>1, <3>2
  <2>. QED BY <2>2, <2>3
<1>. QED BY <1>1, <1>2, <1>3, WatchdogSteps DEF SBC_Trigger

\* A good refresh comes when the period is over, and at no other call.
LEMMA RefreshStep ==
    ASSUME WatchdogInv, [Next]_vars, sinceRefresh > 0, sinceRefresh' # sinceRefresh,
           ~refreshFailed'
    PROVE  sinceRefresh' = 1 <=> sinceRefresh = WatchdogPeriod
<1>. USE SbcAssumption DEF WatchdogInv, SbcAssumption
<1>1. PICK good \in BOOLEAN, ok \in BOOLEAN : SBC_Trigger(good, ok)
  BY WatchdogSteps DEF WatchdogQuiet
<1>2. ~InitializeFsPhase(ok)
  BY DEF InitializeFsPhase, Initializing, Elapsed
<1>3. SBC_TriggerWatchdogIfRequired(good)
  BY <1>1, <1>2 DEF SBC_Trigger
<1>4. ~refreshFailed
  BY <1>3 DEF SBC_TriggerWatchdogIfRequired
<1>5. CASE watchdogTrigger = 1
  <2>1. good /\ sinceRefresh' = 1
    BY <1>3, <1>5 DEF SBC_TriggerWatchdogIfRequired
  <2>. QED BY <1>4, <1>5, <2>1
<1>6. CASE watchdogTrigger # 1
  <2>1. NoRefresh
    BY <1>3, <1>6 DEF SBC_TriggerWatchdogIfRequired
  <2>. QED BY <1>4, <1>6, <2>1 DEF NoRefresh
<1>. QED BY <1>5, <1>6

\* The watchdog is in step with its period.
LEMMA WatchdogInit == Init => WatchdogInv
<1>. SUFFICES ASSUME Init PROVE WatchdogInv
  OBVIOUS
<1>1. /\ watchdogTrigger = 0 /\ sinceRefresh = 0 /\ refreshFailed = FALSE
  BY DEF Init, SbcInit
<1>. QED BY <1>1, SbcAssumption DEF WatchdogInv, SbcAssumption

LEMMA WatchdogCorrect == Spec => []WatchdogInv
<1>2. WatchdogInv /\ [Next]_vars => WatchdogInv'
  BY WatchdogStep
<1>. QED BY WatchdogInit, <1>2, PTL DEF Spec

\* While no refresh has failed, SBC_Trigger (sbc.c) refreshes the watchdog when
\* its period is over, neither before nor after, whatever it waits for.
THEOREM RefreshedInTime == Spec => RefreshInTime
<1>1. WatchdogInv /\ [Next]_vars =>
        [sinceRefresh > 0 /\ sinceRefresh' # sinceRefresh /\ ~refreshFailed'
         => (sinceRefresh' = 1 <=> sinceRefresh = WatchdogPeriod)]_sbcVars
  BY RefreshStep
<1>. QED BY <1>1, WatchdogCorrect, PTL DEF Spec, RefreshInTime

-----------------------------------------------------------------------------
\* The insulation monitor.

AtLeastOne(time) == IF time > 1 THEN time ELSE 1

\* The passes of the 10 ms task within which the 100 ms task runs to its end.
Remaining == IF slow = "done" THEN (SlowPeriod - phase) + SlowJitter ELSE SlowJitter - phase

\* The passes that begin before the BMS asks to switch the monitor on, at least.
Left ==
    CASE sys = "START_BMS" -> AtLeastOne(sysTimer) + LongTime
      [] sys # "START_BMS" /\ bms # "INITIALIZED" -> LongTime
      [] sys # "START_BMS" /\ bms = "INITIALIZED" ->
           IF turn = "SYS" THEN AtLeastOne(bmsTimer) ELSE AtLeastOne(bmsTimer) - 1

BmsStarted == sys \in {"WAIT_BMS", "RUNNING", "BMS_ERROR"}

\* The types of what the request to the monitor depends on.
Types ==
    /\ turn \in {"SYS", "SBC", "BMS"}
    /\ phase \in 0 .. SlowPeriod - 1
    /\ slow \in {"done", "BAL", "IMD"}
    /\ slow # "done" => phase <= SlowJitter
    /\ sysTimer \in Nat /\ bmsTimer \in Nat
    /\ imd \in {"HAS_NEVER_RUN", "UNINITIALIZED", "INITIALIZATION", "ENABLE", "RUNNING"}
    /\ imdRequest \in {"NONE", "INITIALIZE", "SWITCH_ON"}
    /\ bms \in {"UNINITIALIZED", "INITIALIZATION", "INITIALIZED", "IDLE"}

\* The BMS does nothing before it is asked.
BmsAsleep == ~BmsStarted => bms = "UNINITIALIZED" /\ ~bmsRequest

\* A request to initialize the monitor is taken before the BMS looks at it.
TakenInTime ==
    imdRequest = "INITIALIZE" =>
        /\ imd = "UNINITIALIZED"
        /\ sys = "START_BMS" \/ BmsStarted
        /\ Remaining < Left

\* The monitor is switched on, or going to be, exactly if the BMS has asked.
SwitchedOn ==
    IF bms = "IDLE" THEN imd = "RUNNING" \/ (imd = "ENABLE" /\ imdRequest = "SWITCH_ON")
                    ELSE imd # "RUNNING" /\ imdRequest # "SWITCH_ON"

ImdInv == Types /\ BmsAsleep /\ TakenInTime /\ SwitchedOn

\* One pass of the 10 ms task: what is left for the 100 ms task becomes less by one.
LEMMA PassCounts ==
    ASSUME Types, BeginPass
    PROVE  /\ turn = "SYS" /\ turn' = "SBC"
           /\ phase' \in 0 .. SlowPeriod - 1 /\ slow' \in {"done", "BAL", "IMD"}
           /\ slow' # "done" => phase' <= SlowJitter
           /\ Remaining' = Remaining - 1
           /\ UNCHANGED <<imd, bms, bmsTimer>>
<1>. USE StartUpAssumption DEF Types, BeginPass, Remaining, StartUpAssumption
<1>1. CASE slow = "done" /\ phase = SlowPeriod - 1
  BY <1>1
<1>2. CASE slow = "done" /\ phase # SlowPeriod - 1
  BY <1>2
<1>3. CASE slow # "done"
  BY <1>3
<1>. QED BY <1>1, <1>2, <1>3

\* The steps of SYS_Trigger that do not go to START_BMS or leave it.
LEMMA OtherSteps ==
    ASSUME Types, BeginPass,
           \/ SysWaits \/ SysStays \/ SysGoesOn
           \/ StartSbc \/ WaitSbc \/ InitializationRtc \/ StartBal \/ WaitBal
           \/ WaitFirstMeasurement \/ WaitCurrentSensor \/ WaitBms
    PROVE  /\ sysTimer' \in Nat
           /\ sys' = "START_BMS" <=> sys = "START_BMS"
           /\ BmsStarted' <=> BmsStarted
           /\ sys = "START_BMS" => sysTimer > 1 /\ sysTimer' = sysTimer - 1
           /\ UNCHANGED <<imdRequest, bmsRequest>>
<1>. USE StartUpAssumption DEF Types, StartUpAssumption, BmsStarted, ShortTime, Goto, Asks
<1>1. CASE SysWaits
  BY <1>1 DEF SysWaits, Quiet
<1>2. CASE SysStays
  BY <1>2 DEF SysStays, Quiet, Errors
<1>3. CASE SysGoesOn
  <2>1. sys # "START_BMS" /\ ~BmsStarted
    BY <1>3 DEF SysGoesOn, Following
  <2>2. Following[sys] \notin {"START_BMS", "WAIT_BMS", "RUNNING", "BMS_ERROR"}
    BY <1>3 DEF SysGoesOn, Following
  <2>. QED BY <1>3, <2>1, <2>2 DEF SysGoesOn, Quiet
<1>4. CASE StartSbc
  BY <1>4 DEF StartSbc
<1>5. CASE WaitSbc
  BY <1>5 DEF WaitSbc, Poll, Quiet
<1>6. CASE InitializationRtc \/ StartBal
  BY <1>6 DEF InitializationRtc, StartBal, Quiet
<1>7. CASE WaitBal
  BY <1>7 DEF WaitBal, Poll, Quiet
<1>8. CASE WaitFirstMeasurement \/ WaitCurrentSensor
  BY <1>8 DEF WaitFirstMeasurement, WaitCurrentSensor, Poll, Quiet
<1>9. CASE WaitBms
  BY <1>9 DEF WaitBms, Poll, Quiet
<1>. QED BY <1>1, <1>2, <1>3, <1>4, <1>5, <1>6, <1>7, <1>8, <1>9

\* A step of SYS_Trigger: the request is made in time, and the BMS started late.
LEMMA SysStep ==
    ASSUME ImdInv, SYS_Trigger
    PROVE  ImdInv'
<1>. USE StartUpAssumption DEF ImdInv, StartUpAssumption
<1>1. BeginPass
  BY DEF SYS_Trigger
<1>2. /\ turn = "SYS" /\ turn' = "SBC"
      /\ phase' \in 0 .. SlowPeriod - 1 /\ slow' \in {"done", "BAL", "IMD"}
      /\ slow' # "done" => phase' <= SlowJitter
      /\ Remaining' = Remaining - 1
      /\ UNCHANGED <<imd, bms, bmsTimer>>
  BY <1>1, PassCounts
<1>3. Remaining \in Int /\ Remaining <= SlowPeriod + SlowJitter
  BY DEF Types, Remaining
<1>4. CASE \/ SysWaits \/ SysStays \/ SysGoesOn
           \/ StartSbc \/ WaitSbc \/ InitializationRtc \/ StartBal \/ WaitBal
           \/ WaitFirstMeasurement \/ WaitCurrentSensor \/ WaitBms
  <2>1. /\ sysTimer' \in Nat
        /\ sys' = "START_BMS" <=> sys = "START_BMS"
        /\ BmsStarted' <=> BmsStarted
        /\ sys = "START_BMS" => sysTimer > 1 /\ sysTimer' = sysTimer - 1
        /\ UNCHANGED <<imdRequest, bmsRequest>>
    BY <1>1, <1>4, OtherSteps
  <2>2. Types'
    BY <1>2, <2>1 DEF Types
  <2>3. TakenInTime'
    BY <1>2, <1>3, <2>1 DEF Types, TakenInTime, Left, AtLeastOne
  <2>. QED BY <1>2, <2>1, <2>2, <2>3 DEF BmsAsleep, SwitchedOn
<1>5. CASE InitializationImd
  <2>1. sys = "INITIALIZATION_IMD" /\ UNCHANGED bmsRequest
    BY <1>5 DEF InitializationImd, Asks
  <2>2. CASE ImdAnswer("INITIALIZE") = "OK"
    <3>1. imdRequest' = "INITIALIZE" /\ sys' = "START_BMS" /\ sysTimer' = MediumTime
      BY <1>5, <2>2 DEF InitializationImd, IMD_SetStateRequest, Goto
    <3>2. imd = "UNINITIALIZED"
      BY <2>2 DEF ImdAnswer, Types
    <3>3. Types'
      BY <1>2, <3>1 DEF Types
    <3>4. TakenInTime'
      BY <1>2, <1>3, <3>1, <3>2, WaitAssumption
         DEF Types, TakenInTime, Left, AtLeastOne, WaitAssumption
    <3>. QED BY <1>2, <2>1, <3>1, <3>3, <3>4 DEF BmsAsleep, SwitchedOn, BmsStarted
  <2>3. CASE ImdAnswer("INITIALIZE") # "OK"
    <3>1. /\ imdRequest' = imdRequest /\ sysTimer' = 1
          /\ sys' \in {"IMD_ERROR", "INITIALIZATION_IMD"}
      BY <1>5, <2>1, <2>3 DEF InitializationImd, IMD_SetStateRequest, Goto, ShortTime
    <3>2. imdRequest # "INITIALIZE"
      BY <2>1 DEF TakenInTime, BmsStarted
    <3>3. Types'
      BY <1>2, <3>1 DEF Types
    <3>. QED BY <1>2, <2>1, <3>1, <3>2, <3>3 DEF BmsAsleep, SwitchedOn, BmsStarted, TakenInTime
  <2>. QED BY <2>2, <2>3
<1>6. CASE StartBms
  <2>1. /\ sys = "START_BMS" /\ sysTimer <= 1 /\ UNCHANGED imdRequest
        /\ sys' = "WAIT_BMS" /\ sysTimer' = 1
    BY <1>6 DEF StartBms, Asks, Goto, ShortTime
  <2>2. Types'
    BY <1>2, <2>1 DEF Types
  <2>3. bms = "UNINITIALIZED"
    BY <2>1 DEF BmsAsleep, BmsStarted
  <2>4. TakenInTime'
    BY <1>2, <1>3, <2>1, <2>3 DEF Types, TakenInTime, Left, AtLeastOne, BmsStarted
  <2>. QED BY <1>2, <2>1, <2>2, <2>3, <2>4 DEF BmsAsleep, SwitchedOn, BmsStarted
<1>. QED BY <1>4, <1>5, <1>6 DEF SYS_Trigger

\* A step of BMS_Trigger: when it asks, no initialization is pending any more.
LEMMA BmsStep ==
    ASSUME ImdInv, BMS_Trigger
    PROVE  ImdInv'
<1>. USE StartUpAssumption DEF ImdInv, StartUpAssumption
<1>1. /\ turn = "BMS" /\ turn' = "SYS"
      /\ UNCHANGED <<phase, slow, sys, sysTimer, imd>>
  BY DEF BMS_Trigger, sysVars
<1>2. Remaining' = Remaining /\ Remaining \in Int /\ Remaining >= 0
  BY <1>1 DEF Types, Remaining
<1>3. BmsStarted' = BmsStarted
  BY <1>1 DEF BmsStarted
<1>4. CASE BmsWaits
  <2>1. /\ bmsTimer > 1 /\ bmsTimer' = bmsTimer - 1
        /\ UNCHANGED <<bms, bmsRequest, imdRequest>>
    BY <1>4 DEF BmsWaits, BmsGoto
  <2>2. Types'
    BY <1>1, <2>1 DEF Types
  <2>3. TakenInTime'
    BY <1>1, <1>2, <1>3, <2>1 DEF Types, TakenInTime, Left, AtLeastOne
  <2>. QED BY <1>1, <1>3, <2>1, <2>2, <2>3 DEF BmsAsleep, SwitchedOn
<1>5. CASE BmsUninitialized
  <2>1. /\ bms = "UNINITIALIZED" /\ bms' \in {"UNINITIALIZED", "INITIALIZATION"}
        /\ bms' = "INITIALIZATION" => bmsRequest
        /\ bmsTimer' \in {0, 1} /\ bmsRequest' = FALSE
        /\ UNCHANGED imdRequest
    BY <1>5 DEF BmsUninitialized, BmsGoto, ShortTime
  <2>2. Types'
    BY <1>1, <2>1 DEF Types
  <2>3. TakenInTime'
    BY <1>1, <1>2, <1>3, <2>1 DEF Types, TakenInTime, Left, AtLeastOne
  <2>. QED BY <1>1, <1>3, <2>1, <2>2, <2>3 DEF BmsAsleep, SwitchedOn
<1>6. CASE BmsInitialization
  <2>1. /\ bms = "INITIALIZATION" /\ bms' = "INITIALIZED" /\ bmsTimer' = LongTime
        /\ UNCHANGED <<bmsRequest, imdRequest>>
    BY <1>6 DEF BmsInitialization, BmsGoto
  <2>2. Types'
    BY <1>1, <2>1 DEF Types
  <2>3. sys # "START_BMS"
    BY <2>1 DEF BmsAsleep, BmsStarted
  <2>4. TakenInTime'
    BY <1>1, <1>2, <1>3, <2>1, <2>3 DEF Types, TakenInTime, Left, AtLeastOne
  <2>. QED BY <1>1, <1>3, <2>1, <2>2, <2>4 DEF BmsAsleep, SwitchedOn
<1>7. CASE bmsTimer <= 1 /\ BmsInitialized
  <2>1. bms = "INITIALIZED" /\ UNCHANGED bmsRequest /\ sys # "START_BMS" /\ BmsStarted
    BY <1>7 DEF BmsInitialized, BmsAsleep, BmsStarted
  <2>2. imdRequest = "NONE"
    <3>1. Left = 0
      BY <1>1, <1>7, <2>1 DEF Left, AtLeastOne, Types
    <3>. QED BY <1>2, <2>1, <3>1 DEF TakenInTime, SwitchedOn, Types
  <2>3. CASE imd = "ENABLE"
    <3>1. ImdAnswer("SWITCH_ON") = "OK"
      BY <2>2, <2>3 DEF ImdAnswer
    <3>2. imdRequest' = "SWITCH_ON" /\ bms' = "IDLE" /\ bmsTimer' = 0
      BY <1>7, <3>1 DEF BmsInitialized, IMD_SetStateRequest, BmsGoto
    <3>3. Types'
      BY <1>1, <3>2 DEF Types
    <3>. QED BY <1>1, <1>3, <2>1, <2>3, <3>2, <3>3 DEF BmsAsleep, SwitchedOn, TakenInTime
  <2>4. CASE imd # "ENABLE"
    <3>1. ImdAnswer("SWITCH_ON") = "ILLEGAL"
      BY <2>2, <2>4 DEF ImdAnswer
    <3>2. imdRequest' = "NONE" /\ bms' = "INITIALIZED" /\ bmsTimer' = LongTime
      BY <1>7, <2>1, <2>2, <3>1 DEF BmsInitialized, IMD_SetStateRequest, BmsGoto
    <3>3. Types'
      BY <1>1, <3>2 DEF Types
    <3>. QED BY <1>1, <1>3, <2>1, <3>2, <3>3 DEF BmsAsleep, SwitchedOn, TakenInTime
  <2>. QED BY <2>3, <2>4
<1>8. CASE BmsIdle
  <2>1. bms = "IDLE" /\ UNCHANGED <<bms, bmsTimer, bmsRequest, imdRequest>>
    BY <1>8 DEF BmsIdle, bmsVars
  <2>2. imdRequest # "INITIALIZE"
    BY <2>1 DEF SwitchedOn, TakenInTime
  <2>3. Types'
    BY <1>1, <2>1 DEF Types
  <2>. QED BY <1>1, <1>3, <2>1, <2>2, <2>3 DEF BmsAsleep, SwitchedOn, TakenInTime
<1>. QED BY <1>4, <1>5, <1>6, <1>7, <1>8 DEF BMS_Trigger

\* Every step keeps ImdInv.
LEMMA ImdStep ==
    ASSUME ImdInv, [Next]_vars
    PROVE  ImdInv'
<1>. USE StartUpAssumption DEF ImdInv, StartUpAssumption
<1>1. CASE UNCHANGED <<phase, slow, sysVars, imdVars, bmsVars>> /\ turn' = turn
  BY <1>1 DEF sysVars, imdVars, bmsVars, Types, BmsAsleep, BmsStarted, TakenInTime, SwitchedOn,
              Remaining, Left
<1>2. CASE SYS_Trigger
  BY <1>2, SysStep
<1>3. CASE SbcPass
  <2>1. turn = "SBC" /\ turn' = "BMS" /\ UNCHANGED <<phase, slow, sysVars, imdVars, bmsVars>>
    BY <1>3 DEF SbcPass, SbcTurn
  <2>. QED BY <2>1 DEF sysVars, imdVars, bmsVars, Types, BmsAsleep, BmsStarted, TakenInTime,
                       SwitchedOn, Remaining, Left
<1>4. CASE BMS_Trigger
  BY <1>4, BmsStep
<1>5. CASE BAL_Trigger
  <2>1. slow = "BAL" /\ slow' = "IMD" /\ UNCHANGED <<turn, phase, sysVars, imdVars, bmsVars>>
    BY <1>5 DEF BAL_Trigger
  <2>. QED BY <2>1 DEF sysVars, imdVars, bmsVars, Types, BmsAsleep, BmsStarted, TakenInTime,
                       SwitchedOn, Remaining, Left
<1>6. CASE IMD_Trigger
  <2>1. slow' = "done" /\ UNCHANGED <<turn, phase, sysVars, bmsVars>>
    BY <1>6 DEF IMD_Trigger
  <2>2. /\ imd' \in {"UNINITIALIZED", "INITIALIZATION", "ENABLE", "RUNNING"}
        /\ imdRequest' \in {imdRequest, "NONE"} /\ imdRequest' # "INITIALIZE"
    BY <1>6 DEF IMD_Trigger, ImdState, Types, TakenInTime
  <2>3. Types'
    BY <2>1, <2>2 DEF sysVars, bmsVars, Types
  <2>4. SwitchedOn'
    BY <1>6, <2>1 DEF IMD_Trigger, ImdState, bmsVars, SwitchedOn, Types
  <2>. QED BY <2>1, <2>2, <2>3, <2>4 DEF sysVars, bmsVars, BmsAsleep, BmsStarted, TakenInTime
<1>7. CASE ClockInitialized \/ IgnitionMoves \/ PoweredDown \/ UNCHANGED vars
  BY <1>1, <1>7 DEF ClockInitialized, IgnitionMoves, PoweredDown, vars, taskVars
<1>. QED BY <1>2, <1>3, <1>4, <1>5, <1>6, <1>7 DEF Next, Cyclic10ms, Cyclic100ms

LEMMA ImdInit == Init => ImdInv
BY StartUpAssumption DEF Init, ImdInv, Types, BmsAsleep, BmsStarted, TakenInTime, SwitchedOn,
                         StartUpAssumption

\* A BMS that has left its initialization has the insulation measured: the
\* request of BMS_Trigger (bms.c:1136) was taken by the insulation monitor and
\* not answered by an older request that the 100 ms task had yet to take.
THEOREM InsulationMeasured == Spec => []InsulationIsMeasured
<1>2. ImdInv /\ [Next]_vars => ImdInv'
  BY ImdStep
<1>3. ImdInv => InsulationIsMeasured
  BY DEF ImdInv, SwitchedOn, InsulationIsMeasured
<1>. QED BY ImdInit, <1>2, <1>3, PTL DEF Spec

-----------------------------------------------------------------------------
\* Why the start-up gives up: the balancing, the monitor and the BMS.

\* The passes of the 10 ms task before the next call of BAL_Trigger, at most,
\* and those from that call to the one that ends the initialization.
ToBalCall == IF slow = "BAL" THEN SlowJitter - phase ELSE (SlowPeriod - phase) + SlowJitter
ToBalEnd ==
    CASE bal = "UNINITIALIZED" -> SlowPeriod + SlowPeriod
      [] bal = "INITIALIZATION" -> SlowPeriod
      [] OTHER -> 0

\* The balancing is initialized before the limit of the wait for it.
BalInTime ==
    /\ bal \in {"UNINITIALIZED", "INITIALIZATION", "INITIALIZED", "CHECK_BALANCING"}
    /\ initializationTimeout \in Nat
    /\ sys = "WAIT_BAL" /\ bal = "UNINITIALIZED" => balRequest
    /\ sys = "WAIT_BAL" /\ bal # "CHECK_BALANCING" =>
         initializationTimeout + ToBalCall + ToBalEnd < 3 * SlowPeriod + SlowJitter
    /\ sys # "BAL_ERROR"

\* The monitor is called behind the balancing, so that it has run once when the
\* balancing is initialized.
AfterBal == {"BAL_GLOBAL_ENABLE", "START_FIRST_MEASUREMENT", "WAIT_FIRST_MEASUREMENT",
             "START_CURRENT_SENSOR", "WAIT_CURRENT_SENSOR", "INITIALIZATION_MISC",
             "INITIALIZATION_IMD"}
ImdInTime ==
    /\ bal = "INITIALIZATION" => imd # "HAS_NEVER_RUN" \/ slow = "IMD"
    /\ bal \in {"INITIALIZED", "CHECK_BALANCING"} => imd # "HAS_NEVER_RUN"
    /\ sys \in AfterBal => bal = "CHECK_BALANCING"
    /\ sys # "START_BMS" /\ ~BmsStarted =>
         imd \in {"HAS_NEVER_RUN", "UNINITIALIZED"} /\ imdRequest = "NONE"
    /\ sys # "IMD_ERROR"

\* The BMS takes its request in the pass it is made, and is initialized in the
\* pass after the next.
BmsInTime ==
    /\ bms \in {"UNINITIALIZED", "INITIALIZATION"} => bmsTimer <= 1
    /\ sys = "WAIT_BMS" =>
         /\ bms = "UNINITIALIZED" => bmsRequest /\ initializationTimeout = 0 /\ turn # "SYS"
         /\ bms = "INITIALIZATION" /\ turn = "SYS" => initializationTimeout = 0
    /\ sys # "BMS_ERROR"

InTime == ImdInv /\ BalInTime /\ ImdInTime /\ BmsInTime

\* One pass of the 10 ms task: the next call of BAL_Trigger comes nearer by one.
LEMMA PassToBal ==
    ASSUME Types, BeginPass
    PROVE  /\ ToBalCall' = ToBalCall - 1 /\ ToBalCall' >= 0 /\ ToBalCall \in Int
           /\ ToBalCall <= SlowPeriod + SlowJitter
           /\ slow = "IMD" => slow' = "IMD"
           /\ UNCHANGED bal
<1>. USE StartUpAssumption DEF Types, BeginPass, ToBalCall, StartUpAssumption
<1>1. CASE slow = "done" /\ phase = SlowPeriod - 1
  BY <1>1
<1>2. CASE slow = "done" /\ phase # SlowPeriod - 1
  BY <1>2
<1>3. CASE slow # "done"
  BY <1>3
<1>. QED BY <1>1, <1>2, <1>3

\* A step of SYS_Trigger that is not about the balancing.
LEMMA NotAboutBal ==
    ASSUME initializationTimeout \in Nat, sys # "BAL_ERROR",
           \/ SysStays \/ SysGoesOn \/ StartSbc \/ WaitSbc \/ InitializationRtc
           \/ WaitFirstMeasurement \/ WaitCurrentSensor \/ InitializationImd
           \/ StartBms \/ WaitBms
    PROVE  /\ sys' \notin {"WAIT_BAL", "BAL_ERROR"}
           /\ initializationTimeout' \in Nat
           /\ balRequest' = balRequest
<1>. USE DEF Goto, Asks, Restart, Quiet
<1>1. CASE SysStays
  BY <1>1 DEF SysStays, Errors
<1>2. CASE SysGoesOn
  <2>1. Following[sys] \notin {"WAIT_BAL", "BAL_ERROR"}
    BY <1>2 DEF SysGoesOn, Following
  <2>2. initializationTimeout' \in {initializationTimeout, 0} /\ balRequest' = balRequest
    BY <1>2 DEF SysGoesOn
  <2>. QED BY <1>2, <2>1, <2>2 DEF SysGoesOn
<1>3. CASE StartSbc
  BY <1>3 DEF StartSbc
<1>4. CASE WaitSbc
  BY <1>4 DEF WaitSbc, Poll
<1>5. CASE InitializationRtc \/ StartBms
  BY <1>5 DEF InitializationRtc, StartBms
<1>6. CASE WaitFirstMeasurement \/ WaitCurrentSensor
  BY <1>6 DEF WaitFirstMeasurement, WaitCurrentSensor, Poll
<1>7. CASE InitializationImd
  BY <1>7 DEF InitializationImd
<1>8. CASE WaitBms
  BY <1>8 DEF WaitBms, Poll
<1>. QED BY <1>1, <1>2, <1>3, <1>4, <1>5, <1>6, <1>7, <1>8

LEMMA SysBalInTime ==
    ASSUME Types, BalInTime, SYS_Trigger
    PROVE  BalInTime'
<1>1. /\ ToBalCall' = ToBalCall - 1 /\ ToBalCall' >= 0 /\ ToBalCall \in Int
      /\ ToBalCall <= SlowPeriod + SlowJitter
      /\ UNCHANGED bal
  BY PassToBal DEF SYS_Trigger
<1>2. /\ SlowPeriod \in Nat /\ SlowJitter \in Nat /\ initializationTimeout \in Nat
      /\ BalLimit \in Nat /\ 3 * SlowPeriod + SlowJitter <= BalLimit + 2
  BY StartUpAssumption, LimitAssumption DEF StartUpAssumption, LimitAssumption, BalInTime
<1>3. ToBalEnd' = ToBalEnd /\ ToBalEnd \in {0, SlowPeriod, SlowPeriod + SlowPeriod}
  BY <1>1 DEF ToBalEnd
<1>4. CASE SysWaits
  BY <1>1, <1>2, <1>3, <1>4 DEF SysWaits, Quiet, BalInTime
<1>5. CASE StartBal
  <2>1. sys' = "WAIT_BAL" /\ initializationTimeout' = 0 /\ balRequest'
    BY <1>5 DEF StartBal, Restart, Goto
  <2>. QED BY <1>1, <1>2, <1>3, <2>1 DEF BalInTime
<1>6. CASE WaitBal
  <2>1. /\ sys = "WAIT_BAL" /\ UNCHANGED balRequest
        /\ \/ bal = "CHECK_BALANCING" /\ sys' = "BAL_GLOBAL_ENABLE"
                /\ UNCHANGED initializationTimeout
           \/ bal # "CHECK_BALANCING" /\ initializationTimeout > BalLimit
           \/ bal # "CHECK_BALANCING" /\ sys' = "WAIT_BAL"
                /\ initializationTimeout' = initializationTimeout + 1
    BY <1>6 DEF WaitBal, Poll, Asks, Goto, Quiet
  <2>. QED BY <1>1, <1>2, <1>3, <2>1 DEF BalInTime
<1>7. CASE \/ SysStays \/ SysGoesOn \/ StartSbc \/ WaitSbc \/ InitializationRtc
           \/ WaitFirstMeasurement \/ WaitCurrentSensor \/ InitializationImd
           \/ StartBms \/ WaitBms
  <2>1. /\ sys' \notin {"WAIT_BAL", "BAL_ERROR"}
        /\ initializationTimeout' \in Nat
    BY <1>7, NotAboutBal DEF BalInTime
  <2>. QED BY <1>1, <2>1 DEF BalInTime
<1>. QED BY <1>4, <1>5, <1>6, <1>7 DEF SYS_Trigger

\* A step of SYS_Trigger comes behind the balancing only when it is initialized,
\* and then the monitor takes the request.
LEMMA SysImdInTime ==
    ASSUME ImdInv, BalInTime, ImdInTime, SYS_Trigger
    PROVE  ImdInTime'
<1>1. BeginPass /\ Types
  BY DEF SYS_Trigger, ImdInv
<1>2. /\ UNCHANGED <<bal, imd>> /\ (slow = "IMD" => slow' = "IMD")
  BY <1>1, PassToBal, PassCounts
<1>3. CASE InitializationImd
  <2>1. sys = "INITIALIZATION_IMD"
    BY <1>3 DEF InitializationImd, Asks
  <2>2. bal = "CHECK_BALANCING" /\ imd = "UNINITIALIZED" /\ imdRequest = "NONE"
    BY <2>1 DEF ImdInTime, AfterBal, BmsStarted
  <2>3. sys' = "START_BMS"
    BY <1>3, <2>2 DEF InitializationImd, ImdAnswer, Goto
  <2>. QED BY <1>2, <2>2, <2>3 DEF ImdInTime, AfterBal
<1>4. CASE StartBms
  <2>1. sys' = "WAIT_BMS"
    BY <1>4 DEF StartBms, Goto
  <2>. QED BY <1>2, <2>1 DEF ImdInTime, AfterBal, BmsStarted
<1>5. CASE \/ SysWaits \/ SysStays \/ SysGoesOn
           \/ StartSbc \/ WaitSbc \/ InitializationRtc \/ StartBal \/ WaitBal
           \/ WaitFirstMeasurement \/ WaitCurrentSensor \/ WaitBms
  <2>1. /\ sys' = "START_BMS" <=> sys = "START_BMS"
        /\ BmsStarted' <=> BmsStarted
        /\ UNCHANGED imdRequest
    BY <1>1, <1>5, OtherSteps
  <2>2. sys' # "IMD_ERROR" /\ (sys' \in AfterBal => sys \in AfterBal \/ bal = "CHECK_BALANCING")
    <3>. USE DEF Goto, Asks, ImdInTime, AfterBal
    <3>1. CASE SysWaits \/ SysStays
      BY <3>1 DEF SysWaits, SysStays
    <3>2. CASE SysGoesOn
      BY <3>2 DEF SysGoesOn, Following
    <3>3. CASE StartSbc \/ InitializationRtc \/ StartBal
      BY <3>3 DEF StartSbc, InitializationRtc, StartBal
    <3>4. CASE WaitSbc \/ WaitBal \/ WaitBms
      BY <3>4 DEF WaitSbc, WaitBal, WaitBms, Poll
    <3>5. CASE WaitFirstMeasurement \/ WaitCurrentSensor
      BY <3>5 DEF WaitFirstMeasurement, WaitCurrentSensor, Poll
    <3>. QED BY <1>5, <3>1, <3>2, <3>3, <3>4, <3>5
  <2>. QED BY <1>2, <2>1, <2>2 DEF ImdInTime
<1>. QED BY <1>3, <1>4, <1>5 DEF SYS_Trigger

LEMMA SysBmsInTime ==
    ASSUME ImdInv, BalInTime, BmsInTime, SYS_Trigger
    PROVE  BmsInTime'
<1>1. turn = "SYS" /\ turn' = "SBC" /\ UNCHANGED <<bms, bmsTimer>>
  BY PassCounts DEF SYS_Trigger, ImdInv
<1>2. CASE StartBms
  <2>1. /\ sys' = "WAIT_BMS" /\ bmsRequest' /\ initializationTimeout' = 0
        /\ sys = "START_BMS"
    BY <1>2 DEF StartBms, Goto, Restart, Asks
  <2>. QED BY <1>1, <2>1 DEF BmsInTime
<1>3. CASE WaitBms
  <2>1. /\ sys = "WAIT_BMS"
        /\ \/ bms \in {"INITIALIZED", "IDLE"} /\ sys' = "RUNNING"
           \/ bms \notin {"INITIALIZED", "IDLE"} /\ initializationTimeout > InitLimit
           \/ bms \notin {"INITIALIZED", "IDLE"} /\ sys' = "WAIT_BMS"
    BY <1>3 DEF WaitBms, Poll, Asks, Goto
  <2>2. InitLimit \in Nat /\ bms \in {"UNINITIALIZED", "INITIALIZATION", "INITIALIZED", "IDLE"}
    BY StartUpAssumption DEF StartUpAssumption, ImdInv, Types
  <2>3. bms = "INITIALIZATION" => initializationTimeout = 0
    BY <1>1, <2>1 DEF BmsInTime
  <2>4. bms # "UNINITIALIZED"
    BY <1>1, <2>1 DEF BmsInTime
  <2>. QED BY <1>1, <2>1, <2>2, <2>3, <2>4 DEF BmsInTime
<1>4. CASE SysWaits
  BY <1>1, <1>4 DEF SysWaits, BmsInTime
<1>5. CASE \/ SysStays \/ SysGoesOn
           \/ StartSbc \/ WaitSbc \/ InitializationRtc \/ StartBal \/ WaitBal
           \/ WaitFirstMeasurement \/ WaitCurrentSensor \/ InitializationImd
  <2>1. sys' \notin {"WAIT_BMS", "BMS_ERROR"}
    <3>. USE DEF Goto, Asks, BmsInTime
    <3>1. CASE SysStays
      BY <3>1 DEF SysStays, Errors
    <3>2. CASE SysGoesOn
      BY <3>2 DEF SysGoesOn, Following
    <3>3. CASE StartSbc \/ InitializationRtc \/ StartBal
      BY <3>3 DEF StartSbc, InitializationRtc, StartBal
    <3>4. CASE WaitSbc \/ WaitBal
      BY <3>4 DEF WaitSbc, WaitBal, Poll
    <3>5. CASE WaitFirstMeasurement \/ WaitCurrentSensor
      BY <3>5 DEF WaitFirstMeasurement, WaitCurrentSensor, Poll
    <3>6. CASE InitializationImd
      BY <3>6 DEF InitializationImd
    <3>. QED BY <1>5, <3>1, <3>2, <3>3, <3>4, <3>5, <3>6
  <2>. QED BY <1>1, <2>1 DEF BmsInTime
<1>. QED BY <1>2, <1>3, <1>4, <1>5 DEF SYS_Trigger

LEMMA BmsTriggerInTime ==
    ASSUME InTime, BMS_Trigger
    PROVE  BalInTime' /\ ImdInTime' /\ BmsInTime'
<1>1. /\ turn = "BMS" /\ turn' = "SYS"
      /\ UNCHANGED <<phase, slow, sys, sysTimer, initializationTimeout, balRequest, bal, imd>>
  BY DEF BMS_Trigger, sysVars, balVars
<1>2. bms # "INITIALIZED" => UNCHANGED imdRequest
  BY DEF BMS_Trigger, BmsWaits, BmsUninitialized, BmsInitialization, BmsInitialized, BmsIdle
<1>3. BalInTime'
  BY <1>1 DEF InTime, BalInTime, ToBalCall, ToBalEnd
<1>4. ImdInTime'
  BY <1>1, <1>2 DEF InTime, ImdInv, BmsAsleep, ImdInTime, BmsStarted
<1>5. BmsInTime'
  <2>. USE <1>1 DEF InTime, BmsInTime, BmsGoto
  <2>1. CASE BmsWaits
    BY <2>1 DEF BmsWaits, ImdInv, Types
  <2>2. CASE bmsTimer <= 1 /\ BmsUninitialized
    <3>1. /\ bms = "UNINITIALIZED" /\ bmsTimer' <= 1
          /\ bms' \in {"UNINITIALIZED", "INITIALIZATION"}
          /\ bms' = "UNINITIALIZED" => ~bmsRequest
      BY <2>2 DEF BmsUninitialized, ShortTime
    <3>. QED BY <3>1
  <2>3. CASE bmsTimer <= 1 /\ BmsInitialization
    BY <2>3 DEF BmsInitialization
  <2>4. CASE bmsTimer <= 1 /\ BmsInitialized
    <3>1. bms' \in {"INITIALIZED", "IDLE"}
      BY <2>4 DEF BmsInitialized
    <3>. QED BY <3>1
  <2>5. CASE bmsTimer <= 1 /\ BmsIdle
    BY <2>5 DEF BmsIdle, bmsVars
  <2>. QED BY <2>1, <2>2, <2>3, <2>4, <2>5 DEF BMS_Trigger
<1>. QED BY <1>3, <1>4, <1>5

LEMMA BalTriggerInTime ==
    ASSUME InTime, BAL_Trigger
    PROVE  BalInTime' /\ ImdInTime' /\ BmsInTime'
<1>1. /\ slow = "BAL" /\ slow' = "IMD" /\ bal' = BalState
      /\ balRequest' = IF bal = "UNINITIALIZED" THEN FALSE ELSE balRequest
      /\ UNCHANGED <<turn, phase, sys, initializationTimeout, imd, imdRequest>>
      /\ UNCHANGED <<bms, bmsTimer, bmsRequest>>
  BY DEF BAL_Trigger, sysVars, imdVars, bmsVars
<1>2. /\ SlowPeriod \in Nat /\ SlowJitter \in Nat /\ phase \in Nat
      /\ bal \in {"UNINITIALIZED", "INITIALIZATION", "INITIALIZED", "CHECK_BALANCING"}
      /\ initializationTimeout \in Nat
  BY StartUpAssumption DEF StartUpAssumption, InTime, ImdInv, Types, BalInTime
<1>3. BalInTime'
  <2>1. CASE bal = "UNINITIALIZED" /\ balRequest
    BY <1>1, <1>2, <2>1 DEF InTime, BalInTime, BalState, ToBalCall, ToBalEnd
  <2>2. CASE bal = "UNINITIALIZED" /\ ~balRequest
    BY <1>1, <1>2, <2>2 DEF InTime, BalInTime, BalState
  <2>3. CASE bal = "INITIALIZATION"
    BY <1>1, <1>2, <2>3 DEF InTime, BalInTime, BalState, ToBalCall, ToBalEnd
  <2>4. CASE bal \in {"INITIALIZED", "CHECK_BALANCING"}
    BY <1>1, <1>2, <2>4 DEF InTime, BalInTime, BalState
  <2>. QED BY <1>2, <2>1, <2>2, <2>3, <2>4
<1>4. ImdInTime'
  BY <1>1, <1>2 DEF InTime, ImdInTime, BmsStarted, BalState
<1>5. BmsInTime'
  BY <1>1 DEF InTime, BmsInTime
<1>. QED BY <1>3, <1>4, <1>5

LEMMA ImdTriggerInTime ==
    ASSUME InTime, IMD_Trigger
    PROVE  BalInTime' /\ ImdInTime' /\ BmsInTime'
<1>1. /\ slow = "IMD" /\ slow' = "done"
      /\ UNCHANGED <<turn, phase, sys, initializationTimeout, bal, balRequest>>
      /\ UNCHANGED <<bms, bmsTimer, bmsRequest>>
  BY DEF IMD_Trigger, sysVars, balVars, bmsVars
<1>2. /\ imd' # "HAS_NEVER_RUN"
      /\ imd \in {"HAS_NEVER_RUN", "UNINITIALIZED"} /\ imdRequest = "NONE" =>
           imd' = "UNINITIALIZED" /\ imdRequest' = "NONE"
  BY DEF InTime, ImdInv, Types, IMD_Trigger, ImdState
<1>3. BalInTime'
  BY <1>1 DEF InTime, BalInTime, ToBalCall, ToBalEnd
<1>4. ImdInTime'
  BY <1>1, <1>2 DEF InTime, ImdInTime, BmsStarted
<1>5. BmsInTime'
  BY <1>1 DEF InTime, BmsInTime
<1>. QED BY <1>3, <1>4, <1>5

\* Every step keeps InTime.
LEMMA InTimeStep ==
    ASSUME InTime, [Next]_vars
    PROVE  InTime'
<1>1. ImdInv'
  BY ImdStep DEF InTime
<1>2. BalInTime' /\ ImdInTime' /\ BmsInTime'
  <2>1. CASE SYS_Trigger
    BY <2>1, SysBalInTime, SysImdInTime, SysBmsInTime DEF InTime, ImdInv
  <2>2. CASE SbcPass
    <3>1. /\ turn' # "SYS"
          /\ UNCHANGED <<phase, slow, sysVars, balVars, imdVars, bmsVars>>
      BY <2>2 DEF SbcPass, SbcTurn
    <3>. QED BY <3>1 DEF InTime, BalInTime, ImdInTime, BmsInTime, ToBalCall, ToBalEnd, BmsStarted,
              sysVars, balVars, imdVars, bmsVars
  <2>3. CASE BMS_Trigger
    BY <2>3, BmsTriggerInTime
  <2>4. CASE Cyclic100ms
    BY <2>4, BalTriggerInTime, ImdTriggerInTime DEF Cyclic100ms
  <2>5. CASE ClockInitialized \/ IgnitionMoves \/ PoweredDown \/ UNCHANGED vars
    <3>1. UNCHANGED <<turn, phase, slow, sysVars, balVars, imdVars, bmsVars>>
      BY <2>5 DEF ClockInitialized, IgnitionMoves, PoweredDown, vars, taskVars
    <3>. QED BY <3>1 DEF InTime, BalInTime, ImdInTime, BmsInTime, ToBalCall, ToBalEnd, BmsStarted,
              sysVars, balVars, imdVars, bmsVars
  <2>. QED BY <2>1, <2>2, <2>3, <2>4, <2>5 DEF Next, Cyclic10ms
<1>. QED BY <1>1, <1>2 DEF InTime

-----------------------------------------------------------------------------
\* Why the start-up gives up: the system basis chip.

\* The refreshes that clear the fault error counter, but for the next one, and
\* the calls of SBC_Trigger to the last of them.
Further(f, r) == (RefreshLimit - r) + (f - 1) * (RefreshLimit + 1)
ToClear == watchdogTrigger + Further(faults, refreshes) * WatchdogPeriod

\* The time of the refreshes for one fault, the most the driver waits in order.
ClearTime == (RefreshLimit + 1) * WatchdogPeriod

\* The calls of SBC_Trigger to the end of a step, its retries included, and to
\* the end of the initialization, at most.
More == AtLeastOne(sbcTimer) + (MaxRetries - retryCounter)
Work ==
    CASE sbcState = "UNINITIALIZED" -> 3 * MaxRetries + ClearTime + 4
      [] sbcState # "UNINITIALIZED" /\ sbcSubstate = "ENTRY" ->
           More + 2 * MaxRetries + ClearTime + 2
      [] sbcState # "UNINITIALIZED" /\ sbcSubstate = "PART1" -> More + MaxRetries + ClearTime + 1
      [] sbcState # "UNINITIALIZED" /\ sbcSubstate = "PART2" -> More + 1
      [] sbcState # "UNINITIALIZED" /\ sbcSubstate = "SAFETY_PATH_CHECK" -> More

\* The driver waits long enough for the faults of the chip, or so much too short
\* that its retries do not help: then a call has failed once too often.
Clean == faults = 0 \/ (faults = 1 /\ ToClear <= sbcTimer)
Spoilt ==
    /\ sbcState = "INITIALIZATION" /\ sbcSubstate = "PART2"
    /\ failures > MaxRetries /\ faults > 0
    /\ ToClear > More

SbcTypes ==
    /\ sbcState \in SbcStates /\ sbcSubstate \in SbcSubstates
    /\ sbcTimer \in Nat /\ retryCounter \in 0 .. MaxRetries
    /\ faults \in Nat /\ refreshes \in 0 .. RefreshLimit
    /\ failures \in 0 .. MaxRetries + 1
    /\ refreshFailed \in BOOLEAN

\* Every retry is a failure, and a failure the end of the initialization only
\* when it is one too many.
SbcCounts ==
    /\ faults > 1 => failures > MaxRetries
    /\ sbcState = "UNINITIALIZED" => retryCounter = 0 /\ sbcTimer <= 1
    /\ sbcState = "INITIALIZATION" =>
         /\ retryCounter <= failures
         /\ sbcSubstate # "ENTRY" => watchdogTrigger > 0
         /\ sbcSubstate = "PART2" => Clean \/ Spoilt
         /\ sbcSubstate = "SAFETY_PATH_CHECK" => faults = 0
    /\ sbcState = "ERROR" => failures > MaxRetries

\* The wait of SYS_Trigger ends before its limit.
SbcInTime ==
    /\ sys = "WAIT_SBC" =>
         /\ sbcState = "UNINITIALIZED" => sbcRequest
         /\ \/ sbcState \in {"RUNNING", "ERROR"} \/ Spoilt
            \/ initializationTimeout + Work
                 <= 3 * MaxRetries + ClearTime + (IF turn = "SBC" THEN 4 ELSE 3)
    /\ sys = "SBC_ERROR" => sbcState = "ERROR" \/ Spoilt

SbcInv == SbcTypes /\ (~refreshFailed => SbcCounts /\ SbcInTime)

\* Products with the period, for the arithmetic of the refreshes.
LEMMA TimesPeriod ==
    /\ \A n \in Int : n * WatchdogPeriod \in Int
    /\ \A n \in Int : (n - 1) * WatchdogPeriod = n * WatchdogPeriod - WatchdogPeriod
    /\ \A m, n \in Int : m <= n => m * WatchdogPeriod <= n * WatchdogPeriod
    /\ 0 * WatchdogPeriod = 0 /\ 1 * WatchdogPeriod = WatchdogPeriod
<1>. USE SbcAssumption DEF SbcAssumption
<1>1. \A n \in Int : n * WatchdogPeriod \in Int
  OBVIOUS
<1>2. \A n \in Int : (n - 1) * WatchdogPeriod = n * WatchdogPeriod - WatchdogPeriod
  OBVIOUS
<1>3. \A m, n \in Int : m <= n => m * WatchdogPeriod <= n * WatchdogPeriod
  <2>. SUFFICES ASSUME NEW m \in Int, NEW n \in Int, m <= n
                PROVE  m * WatchdogPeriod <= n * WatchdogPeriod
    OBVIOUS
  <2>1. (n - m) * WatchdogPeriod >= 0
    OBVIOUS
  <2>2. (n - m) * WatchdogPeriod = n * WatchdogPeriod - m * WatchdogPeriod
    OBVIOUS
  <2>. QED BY <2>1, <2>2
<1>4. 0 * WatchdogPeriod = 0 /\ 1 * WatchdogPeriod = WatchdogPeriod
  OBVIOUS
<1>. QED BY <1>1, <1>2, <1>3, <1>4

\* The constants of the driver, as the steps below need them.
LEMMA SbcConstants ==
    /\ WatchdogPeriod \in Nat /\ WatchdogPeriod > 1
    /\ RefreshLimit \in Nat /\ RefreshLimit > 1
    /\ MaxRetries \in Nat /\ MaxRetries <= WatchdogPeriod
    /\ SbcLimit \in Nat /\ ClearTime \in Nat /\ ClearTime >= 1
    /\ 3 * MaxRetries + ClearTime + 2 <= SbcLimit
<1>1. /\ WatchdogPeriod \in Nat /\ WatchdogPeriod > 1
      /\ RefreshLimit \in Nat /\ RefreshLimit > 1
      /\ MaxRetries \in Nat /\ MaxRetries <= WatchdogPeriod
      /\ SbcLimit \in Nat
      /\ 3 * MaxRetries + ClearTime + 2 <= SbcLimit
  BY SbcAssumption, StartUpAssumption, LimitAssumption
     DEF SbcAssumption, StartUpAssumption, LimitAssumption, ClearTime
<1>2. ClearTime \in Int
  BY <1>1, TimesPeriod DEF ClearTime
<1>3. ClearTime >= WatchdogPeriod
  <2>1. 1 * WatchdogPeriod <= (RefreshLimit + 1) * WatchdogPeriod
    BY <1>1, TimesPeriod
  <2>. QED BY <2>1, TimesPeriod DEF ClearTime
<1>. QED BY <1>1, <1>2, <1>3

\* What the refreshes still to come count down.
LEMMA FurtherCounts ==
    ASSUME NEW f \in Nat, f > 0, NEW r \in 0 .. RefreshLimit
    PROVE  /\ Further(f, r) \in Nat
           /\ Further(f, r) = 0 <=> f = 1 /\ r = RefreshLimit
           /\ Further(1, r) = RefreshLimit - r
           /\ r < RefreshLimit => Further(f, r + 1) = Further(f, r) - 1
           /\ f > 1 => Further(f - 1, 0) = Further(f, RefreshLimit) - 1
           /\ f > 1 => Further(f, r) >= Required(f, r) + 1
<1>. DEFINE L == RefreshLimit
<1>1. L \in Nat /\ L > 1
  BY SbcConstants
<1>. HIDE DEF L
<1>2. L = RefreshLimit
  BY DEF L
<1>3. /\ (f - 1) * (L + 1) \in Nat
      /\ f > 1 => (f - 1) * (L + 1) >= L + 1
      /\ f = 1 => (f - 1) * (L + 1) = 0
  <2>1. f - 1 \in Nat /\ L + 1 \in Nat
    BY <1>1
  <2>2. (f - 1) * (L + 1) \in Nat
    BY <2>1
  <2>3. CASE f > 1
    <3>1. (f - 2) * (L + 1) \in Nat
      <4>1. f - 2 \in Nat
        BY <2>3
      <4>. QED BY <2>1, <4>1
    <3>2. (f - 1) * (L + 1) = (f - 2) * (L + 1) + (L + 1)
      BY <1>1
    <3>. QED BY <1>1, <2>2, <2>3, <3>1, <3>2
  <2>4. CASE f = 1
    <3>1. (f - 1) * (L + 1) = 0
      BY <1>1, <2>4
    <3>. QED BY <2>2, <2>4, <3>1
  <2>. QED BY <2>3, <2>4
<1>4. Further(f, r) \in Nat /\ (Further(f, r) = 0 <=> f = 1 /\ r = L)
  BY <1>1, <1>2, <1>3 DEF Further
<1>5. Further(1, r) = L - r
  <2>1. (1 - 1) * (L + 1) = 0
    BY <1>1
  <2>. QED BY <1>1, <1>2, <2>1 DEF Further
<1>6. r < L => Further(f, r + 1) = Further(f, r) - 1
  BY <1>1, <1>2, <1>3 DEF Further
<1>7. f > 1 => Further(f - 1, 0) = Further(f, L) - 1
  <2>1. (f - 1 - 1) * (L + 1) = (f - 1) * (L + 1) - (L + 1)
    BY <1>1
  <2>. QED BY <1>1, <1>2, <1>3, <2>1 DEF Further
<1>8. f > 1 => Further(f, r) >= Required(f, r) + 1
  <2>. SUFFICES ASSUME f > 1 PROVE Further(f, r) >= Required(f, r) + 1
    OBVIOUS
  <2>1. (f - 1) * (L + 1) = (f - 1) * L + (f - 1)
    BY <1>1
  <2>2. (f - 1) * L >= L
    <3>1. (f - 2) * L \in Nat
      <4>1. f - 2 \in Nat
        OBVIOUS
      <4>. QED BY <1>1, <4>1
    <3>2. (f - 1) * L = (f - 2) * L + L
      BY <1>1
    <3>. QED BY <1>1, <3>1, <3>2
  <2>3. (f - 1) * L \in Int
    BY <1>1
  <2>. QED BY <1>1, <1>2, <2>1, <2>2, <2>3 DEF Further, Required
<1>. QED BY <1>2, <1>4, <1>5, <1>6, <1>7, <1>8

\* A call of SBC_Trigger brings the end of the faults nearer by one call.
LEMMA CallClears ==
    ASSUME SbcTypes, WatchdogInv, ~refreshFailed', NEW good \in BOOLEAN,
           SBC_TriggerWatchdogIfRequired(good)
    PROVE  /\ faults' \in Nat /\ refreshes' \in 0 .. RefreshLimit /\ faults' <= faults
           /\ watchdogTrigger' \in 0 .. WatchdogPeriod
           /\ watchdogTrigger > 0 => watchdogTrigger' > 0
           /\ watchdogTrigger > 0 /\ faults > 0 =>
                /\ ToClear \in Nat /\ ToClear > 0
                /\ ToClear = 1 => faults' = 0
                /\ ToClear > 1 => faults' > 0 /\ ToClear' = ToClear - 1
<1>. DEFINE further == Further(faults, refreshes)
            time == further * WatchdogPeriod
<1>1. /\ faults \in Nat /\ refreshes \in 0 .. RefreshLimit
      /\ watchdogTrigger \in 0 .. WatchdogPeriod
      /\ WatchdogPeriod \in Nat /\ WatchdogPeriod > 1 /\ RefreshLimit \in Nat
  BY SbcConstants DEF SbcTypes, WatchdogInv
<1>2. watchdogTrigger = 1 => watchdogTrigger' = WatchdogPeriod /\ GoodRefresh
  BY DEF SBC_TriggerWatchdogIfRequired
<1>3. watchdogTrigger # 1 =>
        /\ watchdogTrigger' = IF watchdogTrigger > 0 THEN watchdogTrigger - 1 ELSE 0
        /\ UNCHANGED chipVars
  BY DEF SBC_TriggerWatchdogIfRequired
<1>4. /\ faults' \in Nat /\ refreshes' \in 0 .. RefreshLimit /\ faults' <= faults
      /\ watchdogTrigger' \in 0 .. WatchdogPeriod
      /\ watchdogTrigger > 0 => watchdogTrigger' > 0
  <2>1. CASE watchdogTrigger = 1
    BY <1>1, <1>2, <2>1 DEF GoodRefresh
  <2>2. CASE watchdogTrigger # 1
    BY <1>1, <1>3, <2>2 DEF chipVars
  <2>. QED BY <2>1, <2>2
<1>5. ASSUME watchdogTrigger > 0, faults > 0
      PROVE  /\ ToClear \in Nat /\ ToClear > 0
             /\ ToClear = 1 => faults' = 0
             /\ ToClear > 1 => faults' > 0 /\ ToClear' = ToClear - 1
  <2>1. /\ further \in Nat
        /\ further = 0 <=> faults = 1 /\ refreshes = RefreshLimit
        /\ refreshes < RefreshLimit => Further(faults, refreshes + 1) = further - 1
        /\ faults > 1 /\ refreshes = RefreshLimit => Further(faults - 1, 0) = further - 1
    BY <1>1, <1>5, FurtherCounts
  <2>. HIDE DEF further
  <2>2. /\ time \in Int /\ (further - 1) * WatchdogPeriod = time - WatchdogPeriod
        /\ time >= 0 /\ (further = 0 => time = 0) /\ (further > 0 => time >= WatchdogPeriod)
    <3>1. 0 <= further /\ (further > 0 => 1 <= further)
      BY <2>1
    <3>. QED BY <1>1, <2>1, <3>1, TimesPeriod
  <2>. HIDE DEF time
  <2>3. ToClear = watchdogTrigger + time
    BY DEF ToClear, further, time
  <2>4. ToClear \in Nat /\ ToClear > 0 /\ (ToClear = 1 <=> watchdogTrigger = 1 /\ further = 0)
    BY <1>1, <1>5, <2>1, <2>2, <2>3
  <2>5. CASE watchdogTrigger = 1 /\ further = 0
    BY <1>1, <1>2, <2>1, <2>4, <2>5 DEF GoodRefresh
  <2>6. CASE watchdogTrigger = 1 /\ further > 0
    <3>1. faults' > 0 /\ Further(faults', refreshes') = further - 1
      BY <1>1, <1>2, <1>5, <2>1, <2>6 DEF GoodRefresh
    <3>2. ToClear' = WatchdogPeriod + (further - 1) * WatchdogPeriod
      BY <1>2, <2>6, <3>1 DEF ToClear
    <3>. QED BY <1>1, <2>2, <2>3, <2>4, <2>6, <3>1, <3>2
  <2>7. CASE watchdogTrigger > 1
    <3>1. faults' = faults /\ refreshes' = refreshes /\ watchdogTrigger' = watchdogTrigger - 1
      BY <1>1, <1>3, <2>7 DEF chipVars
    <3>2. ToClear' = watchdogTrigger' + time
      BY <3>1 DEF ToClear, further, time
    <3>. QED BY <1>1, <1>5, <2>2, <2>3, <2>4, <2>7, <3>1, <3>2
  <2>. QED BY <1>1, <1>5, <2>1, <2>5, <2>6, <2>7
<1>. QED BY <1>4, <1>5

\* A call of SBC_Trigger goes on: the counts stay right, and the end of the
\* initialization comes nearer by a call, unless it is spoilt or there.
Goes ==
    /\ SbcCounts'
    /\ sbcState' = "UNINITIALIZED" => sbcState = "UNINITIALIZED" /\ ~sbcRequest
    /\ sbcState \in {"UNINITIALIZED", "INITIALIZATION"} =>
         sbcState' \in {"UNINITIALIZED", "RUNNING", "ERROR"} \/ Spoilt' \/ Work' <= Work - 1
    /\ Spoilt => Spoilt' \/ sbcState' = "ERROR"
    /\ sbcState \in {"RUNNING", "ERROR"} => sbcState' = sbcState

\* A failed step is tried again or was one too many.
LEMMA FailedStep ==
    ASSUME SbcTypes, sbcState = "INITIALIZATION", retryCounter <= failures, NEW t \in {0, 1},
           Retry(t), failures' \in {Counted, MaxRetries + 1}
    PROVE  /\ failures' >= failures
           /\ failures > MaxRetries => failures' > MaxRetries
           /\ \/ /\ sbcState' = sbcState /\ sbcSubstate' = sbcSubstate /\ sbcTimer' = t
                 /\ retryCounter' = retryCounter + 1 /\ retryCounter' <= MaxRetries
                 /\ retryCounter' <= failures'
              \/ /\ sbcState' = "ERROR" /\ sbcSubstate' = "ENTRY"
                 /\ failures' > MaxRetries
BY SbcConstants DEF SbcTypes, Retry, SbcGoto, Counted

LEMMA WaitingGoes ==
    ASSUME SbcTypes, SbcCounts, WatchdogInv, ~refreshFailed', NEW good \in BOOLEAN,
           SBC_TriggerWatchdogIfRequired(good), SbcWaits
    PROVE  Goes
<1>. USE SbcConstants DEF SbcTypes
<1>1. /\ sbcTimer > 1 /\ sbcTimer' = sbcTimer - 1
      /\ UNCHANGED <<sbcRequest, sbcState, sbcSubstate, retryCounter, failures>>
  BY DEF SbcWaits
<1>2. /\ faults' \in Nat /\ faults' <= faults
      /\ watchdogTrigger \in Nat /\ watchdogTrigger' \in Nat
      /\ watchdogTrigger > 0 => watchdogTrigger' > 0
      /\ watchdogTrigger > 0 /\ faults > 0 =>
           /\ ToClear \in Nat /\ ToClear > 0
           /\ ToClear = 1 => faults' = 0
           /\ ToClear > 1 => faults' > 0 /\ ToClear' = ToClear - 1
  BY CallClears DEF WatchdogInv
<1>3. sbcState # "UNINITIALIZED"
  BY <1>1 DEF SbcCounts
<1>4. More \in Nat /\ More > 0 /\ More' = More - 1
  BY <1>1 DEF More, AtLeastOne
<1>5. sbcState = "INITIALIZATION" => Work' <= Work - 1
  BY <1>1, <1>3, <1>4 DEF Work, SbcSubstates
<1>6. Spoilt => watchdogTrigger > 0
  BY DEF Spoilt, SbcCounts
<1>7. Spoilt => Spoilt'
  BY <1>1, <1>2, <1>4, <1>6 DEF Spoilt
<1>8. /\ sbcState = "INITIALIZATION" /\ sbcSubstate = "PART2" /\ Clean => Clean'
  BY <1>1, <1>2 DEF Clean, SbcCounts
<1>9. SbcCounts'
  <2>1. faults' > 1 => failures' > MaxRetries
    BY <1>1, <1>2 DEF SbcCounts
  <2>2. CASE sbcState = "INITIALIZATION"
    BY <1>1, <1>2, <1>7, <1>8, <2>1, <2>2 DEF SbcCounts
  <2>3. CASE sbcState # "INITIALIZATION"
    BY <1>1, <1>3, <2>1, <2>3 DEF SbcCounts
  <2>. QED BY <2>2, <2>3
<1>. QED BY <1>1, <1>3, <1>5, <1>7, <1>9 DEF Goes

LEMMA OtherStatesGo ==
    ASSUME SbcTypes, SbcCounts, WatchdogInv, ~refreshFailed', NEW good \in BOOLEAN,
           SBC_TriggerWatchdogIfRequired(good), NEW ok \in BOOLEAN,
           SbcUninitialized \/ SbcError \/ SbcRunning(ok)
    PROVE  Goes
<1>. USE SbcConstants DEF SbcTypes, Elapsed
<1>1. /\ faults' \in Nat /\ faults' <= faults
  BY CallClears
<1>2. UNCHANGED <<retryCounter, failures>>
  BY DEF SbcUninitialized, SbcError, SbcRunning
<1>3. ~Spoilt
  BY DEF Spoilt, SbcUninitialized, SbcError, SbcRunning
<1>4. CASE SbcUninitialized
  <2>1. /\ sbcState = "UNINITIALIZED" /\ retryCounter = 0
    BY <1>4 DEF SbcUninitialized, SbcCounts
  <2>2. CASE sbcRequest
    <3>1. sbcState' = "INITIALIZATION" /\ sbcSubstate' = "ENTRY" /\ sbcTimer' = 1
      BY <1>4, <2>2 DEF SbcUninitialized, SbcGoto
    <3>2. Work' = Work - 1
      BY <1>2, <2>1, <3>1 DEF Work, More, AtLeastOne
    <3>3. SbcCounts'
      BY <1>1, <1>2, <2>1, <3>1 DEF SbcCounts
    <3>. QED BY <1>3, <2>1, <3>1, <3>2, <3>3 DEF Goes
  <2>3. CASE ~sbcRequest
    <3>1. sbcState' = "UNINITIALIZED" /\ sbcTimer' = 0
      BY <1>4, <2>3 DEF SbcUninitialized, SbcGoto
    <3>2. SbcCounts'
      BY <1>1, <1>2, <2>1, <3>1 DEF SbcCounts
    <3>. QED BY <1>3, <2>1, <2>3, <3>1, <3>2 DEF Goes
  <2>. QED BY <2>2, <2>3
<1>5. CASE SbcError \/ SbcRunning(ok)
  <2>1. sbcState \in {"ERROR", "RUNNING"} /\ sbcState' = sbcState
    BY <1>5 DEF SbcError, SbcRunning, SbcGoto
  <2>2. SbcCounts'
    BY <1>1, <1>2, <2>1 DEF SbcCounts
  <2>. QED BY <1>3, <2>1, <2>2 DEF Goes
<1>. QED BY <1>4, <1>5

LEMMA EntryGoes ==
    ASSUME SbcTypes, SbcCounts, WatchdogInv, NEW ok \in BOOLEAN, InitializeFsPhase(ok)
    PROVE  Goes
<1>. USE SbcConstants DEF SbcTypes, Initializing, Elapsed
<1>1. /\ sbcState = "INITIALIZATION" /\ sbcSubstate = "ENTRY" /\ sbcTimer <= 1
      /\ retryCounter <= failures
  BY DEF InitializeFsPhase, SbcCounts
<1>2. ~Spoilt
  BY <1>1 DEF Spoilt
<1>3. CASE ok
  <2>1. /\ retryCounter' = 0 /\ failures' = failures
        /\ sbcState' = "INITIALIZATION" /\ sbcSubstate' = "PART1" /\ sbcTimer' = 1
        /\ watchdogTrigger' = WatchdogPeriod /\ GoodRefresh
    BY <1>3 DEF InitializeFsPhase, Done, SbcGoto
  <2>2. faults' <= faults /\ faults' \in Nat
    BY <2>1 DEF GoodRefresh
  <2>3. Work' <= Work - 1
    BY <1>1, <2>1 DEF Work, More, AtLeastOne
  <2>4. SbcCounts'
    BY <2>1, <2>2 DEF SbcCounts
  <2>. QED BY <1>1, <1>2, <2>1, <2>3, <2>4 DEF Goes
<1>4. CASE ~ok
  <2>1. /\ Retry(0) /\ failures' \in {Counted, MaxRetries + 1} /\ FailedRefresh
        /\ faults' > faults => failures' > MaxRetries
    BY <1>4 DEF InitializeFsPhase
  <2>2. /\ failures' >= failures
        /\ failures > MaxRetries => failures' > MaxRetries
        /\ \/ /\ sbcState' = sbcState /\ sbcSubstate' = sbcSubstate /\ sbcTimer' = 0
              /\ retryCounter' = retryCounter + 1 /\ retryCounter' <= MaxRetries
              /\ retryCounter' <= failures'
           \/ /\ sbcState' = "ERROR" /\ sbcSubstate' = "ENTRY"
              /\ failures' > MaxRetries
    BY <1>1, <2>1, FailedStep
  <2>3. faults' \in Nat
    BY <2>1 DEF FailedRefresh, GoodRefresh, chipVars
  <2>4. faults' > 1 => failures' > MaxRetries
    BY <2>1, <2>2, <2>3 DEF SbcCounts
  <2>5. CASE sbcState' = "ERROR"
    <3>1. SbcCounts'
      BY <2>2, <2>4, <2>5, <1>1 DEF SbcCounts
    <3>. QED BY <1>1, <1>2, <2>5, <3>1 DEF Goes
  <2>6. CASE sbcState' # "ERROR"
    <3>1. SbcCounts'
      BY <2>2, <2>4, <2>6, <1>1 DEF SbcCounts
    <3>2. Work' <= Work - 1
      BY <1>1, <2>2, <2>6 DEF Work, More, AtLeastOne
    <3>. QED BY <1>1, <1>2, <2>2, <2>6, <3>1, <3>2 DEF Goes
  <2>. QED BY <2>5, <2>6
<1>. QED BY <1>3, <1>4

\* The wait that is set is as long as the refreshes for one fault, or too short.
LEMMA WaitSet ==
    ASSUME NEW f \in Nat, NEW r \in 0 .. RefreshLimit
    PROVE  /\ RequiredTime(f, r) \in Nat
           /\ f <= 1 => RequiredTime(f, r) <= ClearTime
           /\ f = 1 => RequiredTime(f, r) = WatchdogPeriod + Further(f, r) * WatchdogPeriod
           /\ f > 1 => /\ RequiredTime(f, r) > 0
                       /\ Further(f, r) * WatchdogPeriod >= RequiredTime(f, r) + MaxRetries
                       /\ Further(f, r) * WatchdogPeriod \in Int
<1>1. Required(f, r) \in Nat /\ Required(f, r) >= f
  BY SbcConstants DEF Required
<1>2. RequiredTime(f, r) \in Nat /\ RequiredTime(f, r) >= Required(f, r)
  <2>1. 0 <= Required(f, r)
    BY <1>1
  <2>2. 0 * WatchdogPeriod <= Required(f, r) * WatchdogPeriod
    BY <1>1, <2>1, TimesPeriod
  <2>3. RequiredTime(f, r) \in Nat
    BY <1>1, <2>2, TimesPeriod DEF RequiredTime
  <2>4. Required(f, r) > 0 => RequiredTime(f, r) >= Required(f, r)
    BY <1>1, SbcConstants DEF RequiredTime
  <2>. QED BY <1>1, <2>3, <2>4
<1>3. f <= 1 => RequiredTime(f, r) <= ClearTime
  <2>. SUFFICES ASSUME f <= 1 PROVE RequiredTime(f, r) <= ClearTime
    OBVIOUS
  <2>1. Required(f, r) <= RefreshLimit + 1 /\ RefreshLimit + 1 \in Int
    BY SbcConstants DEF Required
  <2>. QED BY <1>1, <2>1, TimesPeriod DEF RequiredTime, ClearTime
<1>4. f = 1 => RequiredTime(f, r) = WatchdogPeriod + Further(f, r) * WatchdogPeriod
  <2>. SUFFICES ASSUME f = 1
                PROVE  RequiredTime(f, r) = WatchdogPeriod + Further(f, r) * WatchdogPeriod
    OBVIOUS
  <2>1. Further(f, r) = Required(f, r) - 1
    BY FurtherCounts, SbcConstants DEF Required
  <2>2. Further(f, r) * WatchdogPeriod = RequiredTime(f, r) - WatchdogPeriod
    BY <1>1, <2>1, TimesPeriod DEF RequiredTime
  <2>. QED BY <1>2, <2>2, SbcConstants
<1>5. f > 1 => /\ Further(f, r) * WatchdogPeriod >= RequiredTime(f, r) + MaxRetries
               /\ Further(f, r) * WatchdogPeriod \in Int
  <2>. SUFFICES ASSUME f > 1
                PROVE  /\ Further(f, r) * WatchdogPeriod >= RequiredTime(f, r) + MaxRetries
                       /\ Further(f, r) * WatchdogPeriod \in Int
    OBVIOUS
  <2>1. Further(f, r) \in Nat /\ Required(f, r) <= Further(f, r) - 1
    BY <1>1, FurtherCounts
  <2>2. Required(f, r) * WatchdogPeriod <= (Further(f, r) - 1) * WatchdogPeriod
    BY <1>1, <2>1, TimesPeriod
  <2>3. (Further(f, r) - 1) * WatchdogPeriod = Further(f, r) * WatchdogPeriod - WatchdogPeriod
    BY <2>1, TimesPeriod
  <2>4. Further(f, r) * WatchdogPeriod \in Int
    BY <2>1, TimesPeriod
  <2>5. RequiredTime(f, r) = Required(f, r) * WatchdogPeriod
    BY DEF RequiredTime
  <2>. QED BY <1>2, <2>2, <2>3, <2>4, <2>5, SbcConstants
<1>. QED BY <1>1, <1>2, <1>3, <1>4, <1>5

\* The wait set for one fault is within what is left for it.
LEMMA Nearer ==
    ASSUME NEW m \in Nat, NEW n \in Nat, m <= ClearTime + MaxRetries, n >= 1
    PROVE  m + 1 <= (n + MaxRetries + ClearTime + 1) - 1
BY SbcConstants

\* The steps of the state machine of the driver, one by one.
LEMMA Part1Goes ==
    ASSUME SbcTypes, SbcCounts, WatchdogInv, ~refreshFailed', NEW good \in BOOLEAN,
           SBC_TriggerWatchdogIfRequired(good), NEW ok \in BOOLEAN,
           ResetFaultErrorCounterPart1(ok)
    PROVE  Goes
<1>. USE SbcConstants DEF SbcTypes, Initializing, Elapsed
<1>1. /\ sbcState = "INITIALIZATION" /\ sbcSubstate = "PART1" /\ sbcTimer <= 1
      /\ retryCounter <= failures /\ watchdogTrigger > 0
  BY DEF ResetFaultErrorCounterPart1, SbcCounts
<1>2. /\ faults' \in Nat /\ refreshes' \in 0 .. RefreshLimit /\ faults' <= faults
      /\ watchdogTrigger' \in 1 .. WatchdogPeriod
  BY <1>1, CallClears
<1>3. ~Spoilt
  BY <1>1 DEF Spoilt
<1>4. CASE ok
  <2>1. /\ retryCounter' = 0 /\ failures' = failures
        /\ sbcState' = "INITIALIZATION" /\ sbcSubstate' = "PART2"
        /\ sbcTimer' = RequiredTime(faults', refreshes')
    BY <1>4 DEF ResetFaultErrorCounterPart1, Done, SbcGoto
  <2>2. /\ RequiredTime(faults', refreshes') \in Nat
        /\ faults' <= 1 => RequiredTime(faults', refreshes') <= ClearTime
        /\ faults' = 1 => RequiredTime(faults', refreshes')
                            = WatchdogPeriod + Further(faults', refreshes') * WatchdogPeriod
        /\ faults' > 1 =>
             /\ RequiredTime(faults', refreshes') > 0
             /\ Further(faults', refreshes') * WatchdogPeriod
                  >= RequiredTime(faults', refreshes') + MaxRetries
             /\ Further(faults', refreshes') * WatchdogPeriod \in Int
    BY <1>2, WaitSet
  <2>3. ToClear' = watchdogTrigger' + Further(faults', refreshes') * WatchdogPeriod
    BY DEF ToClear
  <2>4. faults' > 1 => failures' > MaxRetries
    BY <1>2, <2>1 DEF SbcCounts
  <2>5. CASE faults' > 1
    <3>1. Spoilt'
      BY <1>2, <2>1, <2>2, <2>3, <2>4, <2>5 DEF Spoilt, More, AtLeastOne
    <3>2. SbcCounts'
      BY <1>2, <2>1, <2>4, <3>1 DEF SbcCounts
    <3>. QED BY <1>1, <1>3, <2>1, <3>1, <3>2 DEF Goes
  <2>6. CASE faults' <= 1
    <3>1. faults' = 1 => Further(faults', refreshes') * WatchdogPeriod \in Int
      <4>1. faults' = 1 => Further(faults', refreshes') \in Int
        BY <1>2, FurtherCounts
      <4>. QED BY <4>1, TimesPeriod
    <3>2. Clean'
      BY <1>2, <2>1, <2>2, <2>3, <2>6, <3>1 DEF Clean
    <3>3. SbcCounts'
      BY <1>2, <2>1, <2>4, <3>2 DEF SbcCounts
    <3>4. More' <= ClearTime + MaxRetries
      BY <2>1, <2>2, <2>6 DEF More, AtLeastOne
    <3>5. Work' <= Work - 1
      <4>1. Work' = More' + 1
        BY <2>1 DEF Work
      <4>2. Work = More + MaxRetries + ClearTime + 1 /\ More >= 1 /\ More \in Nat
        BY <1>1 DEF Work, More, AtLeastOne
      <4>3. More' \in Nat
        BY <2>1, <2>2 DEF More, AtLeastOne
      <4>4. More' + 1 <= (More + MaxRetries + ClearTime + 1) - 1
        BY <3>4, <4>2, <4>3, Nearer
      <4>. QED BY <4>1, <4>2, <4>4, Zenon
    <3>. QED BY <1>1, <1>3, <2>1, <3>3, <3>5 DEF Goes
  <2>. QED BY <1>2, <2>5, <2>6
<1>5. CASE ~ok
  <2>1. Retry(0) /\ failures' \in {Counted, MaxRetries + 1}
    BY <1>5 DEF ResetFaultErrorCounterPart1, Failed
  <2>2. /\ failures' >= failures
        /\ failures > MaxRetries => failures' > MaxRetries
        /\ \/ /\ sbcState' = sbcState /\ sbcSubstate' = sbcSubstate /\ sbcTimer' = 0
              /\ retryCounter' = retryCounter + 1 /\ retryCounter' <= MaxRetries
              /\ retryCounter' <= failures'
           \/ /\ sbcState' = "ERROR" /\ sbcSubstate' = "ENTRY"
              /\ failures' > MaxRetries
    BY <1>1, <2>1, FailedStep
  <2>3. faults' > 1 => failures' > MaxRetries
    BY <1>2, <2>2 DEF SbcCounts
  <2>4. SbcCounts'
    BY <1>1, <1>2, <2>2, <2>3 DEF SbcCounts
  <2>5. ASSUME sbcState' # "ERROR" PROVE Work' <= Work - 1
    <3>1. More \in Int /\ More' = More - 1
      BY <1>1, <2>2, <2>5 DEF More, AtLeastOne
    <3>2. Work = More + MaxRetries + ClearTime + 1 /\ Work' = More' + MaxRetries + ClearTime + 1
      BY <1>1, <2>2, <2>5 DEF Work
    <3>. QED BY <3>1, <3>2
  <2>. QED BY <1>1, <1>3, <2>2, <2>4, <2>5 DEF Goes
<1>. QED BY <1>4, <1>5

LEMMA Part2Goes ==
    ASSUME SbcTypes, SbcCounts, WatchdogInv, ~refreshFailed', NEW good \in BOOLEAN,
           SBC_TriggerWatchdogIfRequired(good), NEW ok \in BOOLEAN,
           ResetFaultErrorCounterPart2(ok)
    PROVE  Goes
<1>. USE SbcConstants DEF SbcTypes, Initializing, Elapsed
<1>1. /\ sbcState = "INITIALIZATION" /\ sbcSubstate = "PART2" /\ sbcTimer <= 1
      /\ retryCounter <= failures /\ watchdogTrigger > 0 /\ (Clean \/ Spoilt)
  BY DEF ResetFaultErrorCounterPart2, SbcCounts
<1>2. /\ faults' \in Nat /\ faults' <= faults
      /\ watchdogTrigger' > 0
      /\ faults > 0 =>
           /\ ToClear \in Nat /\ ToClear > 0
           /\ ToClear = 1 => faults' = 0
           /\ ToClear > 1 => faults' > 0 /\ ToClear' = ToClear - 1
  BY <1>1, CallClears
<1>3. Clean => faults' = 0
  BY <1>1, <1>2 DEF Clean
<1>4. More = 1 + (MaxRetries - retryCounter) /\ Work = More + 1
  BY <1>1 DEF More, AtLeastOne, Work
<1>5. Spoilt => faults' > 0 /\ ToClear' = ToClear - 1 /\ ToClear \in Nat
  BY <1>2, <1>4 DEF Spoilt
<1>6. CASE ok /\ faults' = 0
  <2>1. /\ retryCounter' = retryCounter /\ failures' = failures
        /\ sbcState' = "INITIALIZATION" /\ sbcSubstate' = "SAFETY_PATH_CHECK" /\ sbcTimer' = 1
    BY <1>6 DEF ResetFaultErrorCounterPart2, Done, SbcGoto
  <2>2. ~Spoilt
    BY <1>5, <1>6
  <2>3. SbcCounts'
    BY <1>1, <1>2, <1>6, <2>1 DEF SbcCounts
  <2>4. Work' <= Work - 1
    <3>1. Work' = More' /\ More' = 1 + (MaxRetries - retryCounter)
      BY <2>1 DEF Work, More, AtLeastOne
    <3>. QED BY <1>4, <3>1
  <2>. QED BY <1>1, <2>1, <2>2, <2>3, <2>4 DEF Goes
<1>7. CASE ~(ok /\ faults' = 0)
  <2>1. Retry(1) /\ \/ failures' = Counted
                    \/ failures' = failures /\ faults' # 0
    BY <1>7 DEF ResetFaultErrorCounterPart2, Failed
  <2>2. failures' = failures => failures > MaxRetries
    BY <1>1, <1>3, <2>1 DEF Spoilt, Counted
  <2>3. failures' \in {Counted, MaxRetries + 1}
    BY <2>1, <2>2
  <2>4. /\ failures' >= failures
        /\ failures > MaxRetries => failures' > MaxRetries
        /\ \/ /\ sbcState' = sbcState /\ sbcSubstate' = sbcSubstate /\ sbcTimer' = 1
              /\ retryCounter' = retryCounter + 1 /\ retryCounter' <= MaxRetries
              /\ retryCounter' <= failures'
           \/ /\ sbcState' = "ERROR" /\ sbcSubstate' = "ENTRY"
              /\ failures' > MaxRetries
    BY <1>1, <2>1, <2>3, FailedStep
  <2>5. faults' > 1 => failures' > MaxRetries
    BY <1>2, <2>4 DEF SbcCounts
  <2>6. CASE sbcState' = "ERROR"
    <3>1. SbcCounts'
      BY <1>1, <2>4, <2>5, <2>6 DEF SbcCounts
    <3>. QED BY <1>1, <2>6, <3>1 DEF Goes
  <2>7. CASE sbcState' # "ERROR"
    <3>1. More' = More - 1 /\ Work' = Work - 1
      BY <1>1, <1>4, <2>4, <2>7 DEF More, AtLeastOne, Work
    <3>2. Spoilt => Spoilt'
      <4>1. Spoilt => ToClear' > More'
        BY <1>4, <1>5, <3>1 DEF Spoilt
      <4>2. Spoilt => failures' > MaxRetries
        BY <2>4 DEF Spoilt
      <4>. QED BY <1>1, <1>5, <2>4, <2>7, <4>1, <4>2 DEF Spoilt
    <3>3. Clean => Clean'
      BY <1>3 DEF Clean
    <3>4. SbcCounts'
      BY <1>1, <1>2, <2>4, <2>5, <2>7, <3>2, <3>3 DEF SbcCounts
    <3>. QED BY <1>1, <2>4, <2>7, <3>1, <3>2, <3>4 DEF Goes
  <2>. QED BY <2>6, <2>7
<1>. QED BY <1>6, <1>7

LEMMA SafetyPathGoes ==
    ASSUME SbcTypes, SbcCounts, WatchdogInv, ~refreshFailed', NEW good \in BOOLEAN,
           SBC_TriggerWatchdogIfRequired(good), NEW ok \in BOOLEAN, SafetyPathCheck(ok)
    PROVE  Goes
<1>. USE SbcConstants DEF SbcTypes, Initializing, Elapsed
<1>1. /\ sbcState = "INITIALIZATION" /\ sbcSubstate = "SAFETY_PATH_CHECK" /\ sbcTimer <= 1
      /\ retryCounter <= failures /\ watchdogTrigger > 0 /\ faults = 0
  BY DEF SafetyPathCheck, SbcCounts
<1>2. faults' = 0 /\ watchdogTrigger' > 0
  <2>1. faults' \in Nat /\ faults' <= faults /\ watchdogTrigger' > 0
    BY <1>1, CallClears
  <2>. QED BY <1>1, <2>1
<1>3. ~Spoilt
  BY <1>1 DEF Spoilt
<1>4. CASE ok
  <2>1. sbcState' = "RUNNING"
    BY <1>4 DEF SafetyPathCheck, SbcGoto
  <2>2. SbcCounts'
    BY <1>2, <2>1 DEF SbcCounts
  <2>. QED BY <1>1, <1>3, <2>1, <2>2 DEF Goes
<1>5. CASE ~ok
  <2>1. Retry(1) /\ failures' \in {Counted, MaxRetries + 1}
    BY <1>5 DEF SafetyPathCheck, Failed
  <2>2. /\ failures' >= failures
        /\ \/ /\ sbcState' = sbcState /\ sbcSubstate' = sbcSubstate /\ sbcTimer' = 1
              /\ retryCounter' = retryCounter + 1 /\ retryCounter' <= MaxRetries
              /\ retryCounter' <= failures'
           \/ /\ sbcState' = "ERROR" /\ sbcSubstate' = "ENTRY"
              /\ failures' > MaxRetries
    BY <1>1, <2>1, FailedStep
  <2>3. SbcCounts'
    BY <1>1, <1>2, <2>2 DEF SbcCounts
  <2>4. sbcState' # "ERROR" => Work' <= Work - 1
    BY <1>1, <2>2 DEF Work, More, AtLeastOne
  <2>. QED BY <1>1, <1>3, <2>2, <2>3, <2>4 DEF Goes
<1>. QED BY <1>4, <1>5

\* All of SBC_Trigger.
LEMMA TriggerGoes ==
    ASSUME SbcTypes, SbcCounts, WatchdogInv, ~refreshFailed',
           NEW good \in BOOLEAN, NEW ok \in BOOLEAN, SBC_Trigger(good, ok)
    PROVE  Goes
<1>1. CASE InitializeFsPhase(ok)
  BY <1>1, EntryGoes
<1>2. CASE SBC_TriggerWatchdogIfRequired(good) /\ SBC_RunStateMachine(ok)
  <2>1. CASE SbcWaits
    BY <1>2, <2>1, WaitingGoes
  <2>2. CASE SbcUninitialized \/ SbcError \/ SbcRunning(ok)
    BY <1>2, <2>2, OtherStatesGo
  <2>3. CASE ResetFaultErrorCounterPart1(ok)
    BY <1>2, <2>3, Part1Goes
  <2>4. CASE ResetFaultErrorCounterPart2(ok)
    BY <1>2, <2>4, Part2Goes
  <2>5. CASE SafetyPathCheck(ok)
    BY <1>2, <2>5, SafetyPathGoes
  <2>. QED BY <1>2, <2>1, <2>2, <2>3, <2>4, <2>5 DEF SBC_RunStateMachine
<1>. QED BY <1>1, <1>2 DEF SBC_Trigger

\* The types of the chip's driver.
LEMMA SbcTyped ==
    ASSUME SbcTypes, [Next]_vars
    PROVE  SbcTypes'
<1>. USE SbcConstants DEF SbcTypes
<1>1. CASE WatchdogQuiet
  BY <1>1 DEF WatchdogQuiet
<1>2. ASSUME NEW good \in BOOLEAN, NEW ok \in BOOLEAN, SBC_Trigger(good, ok)
      PROVE  SbcTypes'
  <2>1. faults' \in Nat /\ refreshes' \in 0 .. RefreshLimit /\ refreshFailed' \in BOOLEAN
    <3>1. GoodRefresh => faults' \in Nat /\ refreshes' \in 0 .. RefreshLimit
      BY DEF GoodRefresh
    <3>2. FailedRefresh => faults' \in Nat /\ refreshes' \in 0 .. RefreshLimit
      BY <3>1 DEF FailedRefresh, chipVars
    <3>3. CASE InitializeFsPhase(ok)
      BY <3>1, <3>2, <3>3 DEF InitializeFsPhase
    <3>4. CASE SBC_TriggerWatchdogIfRequired(good)
      BY <3>1, <3>2, <3>4 DEF SBC_TriggerWatchdogIfRequired, chipVars
    <3>. QED BY <1>2, <3>3, <3>4 DEF SBC_Trigger
  <2>2. Counted \in 0 .. MaxRetries + 1
    BY DEF Counted
  <2>3. ASSUME NEW t \in Nat, Retry(t)
        PROVE  /\ sbcState' \in SbcStates /\ sbcSubstate' \in SbcSubstates
               /\ sbcTimer' \in Nat /\ retryCounter' \in 0 .. MaxRetries
    BY <2>3 DEF Retry, SbcGoto, SbcStates, SbcSubstates
  <2>4. RequiredTime(faults', refreshes') \in Nat
    BY <2>1, WaitSet
  <2>5. /\ sbcState' \in SbcStates /\ sbcSubstate' \in SbcSubstates
        /\ sbcTimer' \in Nat /\ retryCounter' \in 0 .. MaxRetries
        /\ failures' \in 0 .. MaxRetries + 1
    <3>. USE DEF SbcGoto
    <3>1. CASE InitializeFsPhase(ok)
      <4>1. CASE ok
        BY <3>1, <4>1 DEF InitializeFsPhase, Done, SbcStates, SbcSubstates
      <4>2. CASE ~ok
        BY <2>2, <2>3, <3>1, <4>2 DEF InitializeFsPhase
      <4>. QED BY <4>1, <4>2
    <3>2. CASE SbcWaits
      BY <3>2 DEF SbcWaits
    <3>3. CASE SbcUninitialized \/ SbcError \/ SbcRunning(ok)
      BY <3>3, SbcAssumption
         DEF SbcUninitialized, SbcError, SbcRunning, SbcStates, SbcSubstates, SbcAssumption
    <3>4. CASE ResetFaultErrorCounterPart1(ok)
      <4>1. CASE ok
        BY <2>4, <3>4, <4>1 DEF ResetFaultErrorCounterPart1, Done, SbcStates, SbcSubstates
      <4>2. CASE ~ok
        BY <2>2, <2>3, <3>4, <4>2 DEF ResetFaultErrorCounterPart1, Failed
      <4>. QED BY <4>1, <4>2
    <3>5. CASE ResetFaultErrorCounterPart2(ok)
      <4>1. CASE Done(retryCounter, "INITIALIZATION", "SAFETY_PATH_CHECK", 1)
        BY <4>1 DEF Done, SbcStates, SbcSubstates
      <4>2. CASE Retry(1) /\ failures' \in {failures, Counted}
        BY <2>2, <2>3, <4>2
      <4>. QED BY <3>5, <4>1, <4>2 DEF ResetFaultErrorCounterPart2, Failed
    <3>6. CASE SafetyPathCheck(ok)
      <4>1. CASE ok
        BY <3>6, <4>1 DEF SafetyPathCheck, SbcStates, SbcSubstates
      <4>2. CASE ~ok
        BY <2>2, <2>3, <3>6, <4>2 DEF SafetyPathCheck, Failed
      <4>. QED BY <4>1, <4>2
    <3>. QED BY <1>2, <3>1, <3>2, <3>3, <3>4, <3>5, <3>6 DEF SBC_Trigger, SBC_RunStateMachine
  <2>. QED BY <2>1, <2>5
<1>. QED BY <1>1, <1>2, WatchdogSteps

\* What is left is a number of calls, at least one.
WorkLeft == Work \in Nat /\ Work >= 1

LEMMA WorkCounts == SbcTypes => WorkLeft
<1>. SUFFICES ASSUME SbcTypes PROVE WorkLeft
  OBVIOUS
<1>1. More \in Nat /\ More >= 1
  BY SbcConstants DEF SbcTypes, More, AtLeastOne
<1>2. MaxRetries \in Nat /\ ClearTime \in Nat /\ sbcSubstate \in SbcSubstates
  BY SbcConstants DEF SbcTypes
<1>. QED BY <1>1, <1>2 DEF WorkLeft, Work, SbcSubstates

LEMMA WorkCountsNext == SbcTypes' => WorkLeft'
BY WorkCounts, PTL

\* A call less to go, and a turn that comes later.
LEMMA OneCallLess ==
    ASSUME NEW t \in Nat, NEW v \in Nat, NEW w \in Nat, w <= v - 1,
           t + v <= 3 * MaxRetries + ClearTime + 4
    PROVE  t + w <= 3 * MaxRetries + ClearTime + 3
BY SbcConstants

\* A call of SBC_Trigger while SYS waits.
LEMMA PassSbcInTime ==
    ASSUME SbcTypes, initializationTimeout \in Nat, SbcCounts, SbcInTime, WatchdogInv,
           ~refreshFailed', SbcTypes', SbcPass
    PROVE  SbcCounts' /\ SbcInTime'
<1>1. /\ turn = "SBC" /\ turn' = "BMS"
      /\ sys' = sys /\ initializationTimeout' = initializationTimeout
  BY DEF SbcPass, SbcTurn, sysVars
<1>2. Goes
  BY TriggerGoes DEF SbcPass, SbcTurn
<1>3. /\ Work \in Nat /\ Work' \in Nat /\ MaxRetries \in Nat /\ ClearTime \in Nat
      /\ sbcState \in SbcStates
  BY WorkCounts, WorkCountsNext, SbcConstants DEF SbcTypes, WorkLeft
<1>4. sys = "WAIT_SBC" => sbcState' # "UNINITIALIZED"
  BY <1>2 DEF Goes, SbcInTime
<1>5. ASSUME sys = "WAIT_SBC", sbcState' \notin {"RUNNING", "ERROR"}, ~Spoilt'
      PROVE  initializationTimeout + Work' <= 3 * MaxRetries + ClearTime + 3
  <2>1. initializationTimeout + Work <= 3 * MaxRetries + ClearTime + 4
    BY <1>1, <1>2, <1>5 DEF Goes, SbcInTime
  <2>2. Work' <= Work - 1
    BY <1>2, <1>3, <1>4, <1>5 DEF Goes, SbcStates
  <2>. QED BY <1>3, <2>1, <2>2, OneCallLess
<1>6. sys = "SBC_ERROR" => sbcState' = "ERROR" \/ Spoilt'
  BY <1>2 DEF Goes, SbcInTime
<1>7. SbcInTime'
  BY <1>1, <1>4, <1>5, <1>6 DEF SbcInTime
<1>. QED BY <1>2, <1>7 DEF Goes

\* What a step leaves that is not a call of SBC_Trigger.
LEMMA ChipLeft ==
    ASSUME WatchdogQuiet
    PROVE  Work' = Work /\ (Spoilt' <=> Spoilt) /\ (SbcCounts' <=> SbcCounts)
BY DEF WatchdogQuiet, Work, More, Spoilt, SbcCounts, Clean, ToClear

\* A step of SYS_Trigger: it waits for the chip once it has asked the driver.
LEMMA SysSbcInTime ==
    ASSUME SbcTypes, initializationTimeout \in Nat, SbcCounts, SbcInTime, SYS_Trigger
    PROVE  SbcInTime'
<1>1. WatchdogQuiet /\ Work' = Work /\ (Spoilt' <=> Spoilt) /\ sbcState' = sbcState
  BY SysLeavesChip, ChipLeft DEF WatchdogQuiet
<1>2. turn = "SYS" /\ turn' = "SBC"
  BY DEF SYS_Trigger, BeginPass
<1>3. Work \in Nat /\ Work >= 1 /\ 3 * MaxRetries + ClearTime + 2 <= SbcLimit
      /\ MaxRetries \in Nat /\ ClearTime \in Nat /\ SbcLimit \in Nat
  BY WorkCounts, SbcConstants DEF WorkLeft
<1>4. CASE SysWaits
  <2>1. sys' = sys /\ initializationTimeout' = initializationTimeout /\ sbcRequest' = sbcRequest
    BY <1>4 DEF SysWaits, Quiet, sbcVars, stepVars
  <2>. QED BY <1>1, <1>2, <1>3, <2>1 DEF SbcInTime
<1>5. CASE StartSbc
  <2>1. CASE SbcAccepts
    <3>1. sys' = "WAIT_SBC" /\ initializationTimeout' = 0 /\ sbcRequest' = TRUE
      BY <1>5, <2>1 DEF StartSbc, Restart, Goto, SBC_SetStateRequest
    <3>2. Work = 3 * MaxRetries + ClearTime + 4
      BY <2>1 DEF SbcAccepts, Work
    <3>. QED BY <1>1, <1>2, <1>3, <3>1, <3>2 DEF SbcInTime
  <2>2. CASE ~SbcAccepts
    <3>1. sys' = "START_SBC"
      BY <1>5, <2>2 DEF StartSbc, Goto, Asks
    <3>. QED BY <3>1 DEF SbcInTime
  <2>. QED BY <2>1, <2>2
<1>6. CASE WaitSbc
  <2>1. /\ sys = "WAIT_SBC" /\ sbcRequest' = sbcRequest
        /\ \/ sbcState = "RUNNING" /\ sys' = "INITIALIZATION_CAN"
           \/ sbcState # "RUNNING" /\ initializationTimeout > SbcLimit
                /\ sys' = "SBC_ERROR"
           \/ sbcState # "RUNNING" /\ sys' = "WAIT_SBC"
                /\ initializationTimeout' = initializationTimeout + 1
    BY <1>6 DEF WaitSbc, Poll, Asks, Goto, Quiet, sbcVars, stepVars
  <2>2. \/ sbcState \in {"RUNNING", "ERROR"} \/ Spoilt
        \/ initializationTimeout + Work <= 3 * MaxRetries + ClearTime + 3
    BY <1>2, <2>1 DEF SbcInTime
  <2>3. sbcState = "UNINITIALIZED" => sbcRequest
    BY <2>1 DEF SbcInTime
  <2>4. CASE sbcState = "RUNNING"
    BY <2>1, <2>4 DEF SbcInTime
  <2>5. CASE sbcState # "RUNNING" /\ sys' = "SBC_ERROR"
    <3>1. initializationTimeout > SbcLimit
      BY <2>1, <2>5
    <3>2. sbcState = "ERROR" \/ Spoilt
      BY <1>3, <2>2, <2>5, <3>1
    <3>. QED BY <1>1, <2>5, <3>2 DEF SbcInTime
  <2>6. CASE sbcState # "RUNNING" /\ sys' = "WAIT_SBC"
    <3>1. initializationTimeout' = initializationTimeout + 1
      BY <2>1, <2>6
    <3>2. \/ sbcState = "ERROR" \/ Spoilt
          \/ initializationTimeout' + Work <= 3 * MaxRetries + ClearTime + 4
      BY <1>3, <2>2, <2>6, <3>1
    <3>. QED BY <1>1, <1>2, <2>1, <2>3, <2>6, <3>2 DEF SbcInTime
  <2>. QED BY <2>1, <2>4, <2>5, <2>6
<1>7. CASE \/ SysStays \/ SysGoesOn \/ InitializationRtc \/ StartBal \/ WaitBal
           \/ WaitFirstMeasurement \/ WaitCurrentSensor \/ InitializationImd
           \/ StartBms \/ WaitBms
  <2>1. sys' # "WAIT_SBC" /\ (sys' = "SBC_ERROR" => sys = "SBC_ERROR")
    <3>. USE DEF Goto, Asks
    <3>1. CASE SysStays
      BY <3>1 DEF SysStays, Errors
    <3>2. CASE SysGoesOn
      BY <3>2 DEF SysGoesOn, Following
    <3>3. CASE InitializationRtc \/ StartBal \/ StartBms
      BY <3>3 DEF InitializationRtc, StartBal, StartBms
    <3>4. CASE WaitBal \/ WaitBms
      BY <3>4 DEF WaitBal, WaitBms, Poll
    <3>5. CASE WaitFirstMeasurement \/ WaitCurrentSensor
      BY <3>5 DEF WaitFirstMeasurement, WaitCurrentSensor, Poll
    <3>6. CASE InitializationImd
      BY <3>6 DEF InitializationImd
    <3>. QED BY <1>7, <3>1, <3>2, <3>3, <3>4, <3>5, <3>6
  <2>. QED BY <1>1, <2>1 DEF SbcInTime
<1>. QED BY <1>4, <1>5, <1>6, <1>7 DEF SYS_Trigger

\* Every step keeps SbcInv.
LEMMA SbcStep ==
    ASSUME WatchdogInv, InTime, SbcInv, [Next]_vars
    PROVE  SbcInv'
<1>1. SbcTypes /\ SbcTypes' /\ initializationTimeout \in Nat
  BY SbcTyped DEF SbcInv, InTime, BalInTime
<1>2. SUFFICES ASSUME ~refreshFailed' PROVE SbcCounts' /\ SbcInTime'
  BY <1>1 DEF SbcInv
<1>3. ~refreshFailed
  <2>1. CASE WatchdogQuiet
    BY <1>2, <2>1 DEF WatchdogQuiet
  <2>2. ASSUME NEW good \in BOOLEAN, NEW ok \in BOOLEAN, SBC_Trigger(good, ok)
        PROVE  ~refreshFailed
    BY <1>2, <2>2 DEF SBC_Trigger, InitializeFsPhase, SBC_TriggerWatchdogIfRequired
  <2>. QED BY <2>1, <2>2, WatchdogSteps
<1>4. SbcCounts /\ SbcInTime
  BY <1>3 DEF SbcInv
<1>5. CASE SbcPass
  BY <1>1, <1>2, <1>4, <1>5, PassSbcInTime
<1>6. CASE SYS_Trigger
  BY <1>1, <1>4, <1>6, SysSbcInTime, SysLeavesChip, ChipLeft
<1>7. CASE BMS_Trigger \/ Cyclic100ms \/ ClockInitialized \/ IgnitionMoves \/ PoweredDown
           \/ UNCHANGED vars
  <2>1. WatchdogQuiet /\ UNCHANGED <<sbcRequest, sys, initializationTimeout>>
    BY <1>7 DEF WatchdogQuiet, BMS_Trigger, Cyclic100ms, BAL_Trigger, IMD_Trigger,
                ClockInitialized, IgnitionMoves, IgnitionChanges, PoweredDown, vars, sbcVars,
                sysVars, watchdogVars, chipVars, stepVars
  <2>2. turn' = turn \/ (turn # "SBC" /\ turn' # "SBC")
    BY <1>7 DEF BMS_Trigger, Cyclic100ms, BAL_Trigger, IMD_Trigger, taskVars,
                ClockInitialized, IgnitionMoves, PoweredDown, vars
  <2>3. Work' = Work /\ (Spoilt' <=> Spoilt) /\ SbcCounts' /\ sbcState' = sbcState
    BY <1>4, <2>1, ChipLeft DEF WatchdogQuiet
  <2>4. SbcInTime'
    BY <1>4, <2>1, <2>2, <2>3 DEF SbcInTime
  <2>. QED BY <2>3, <2>4
<1>. QED BY <1>5, <1>6, <1>7 DEF Next, Cyclic10ms

\* The first states.
LEMMA CauseInit ==
    ASSUME PowerUpFaults \subseteq {0, 1}, Init
    PROVE  InTime /\ SbcInv
<1>1. BalInTime /\ ImdInTime /\ BmsInTime
  BY DEF Init, BalInTime, ImdInTime, BmsInTime, AfterBal, BmsStarted
<1>2. SbcTypes
  <2>1. /\ sbcState \in SbcStates /\ sbcSubstate \in SbcSubstates
        /\ sbcTimer = 0 /\ retryCounter = 0
        /\ faults \in Nat /\ refreshes = 0 /\ failures = 0
    BY DEF Init, SbcInit, SbcStates, SbcSubstates
  <2>2. refreshFailed \in BOOLEAN
    BY DEF Init, SbcInit
  <2>3. 0 \in 0 .. MaxRetries /\ 0 \in 0 .. RefreshLimit /\ 0 \in 0 .. MaxRetries + 1
    BY SbcConstants
  <2>. QED BY <2>1, <2>2, <2>3 DEF SbcTypes
<1>3. SbcCounts
  BY DEF Init, SbcInit, SbcCounts
<1>4. SbcInTime
  BY DEF Init, SbcInTime
<1>. QED BY <1>1, <1>2, <1>3, <1>4, ImdInit DEF InTime, SbcInv

\* The start-up (SYS_Trigger, sys.c) gives up the balancing, the monitor or the
\* BMS never, and the system basis chip only when a call of its driver failed
\* more often than the driver retries or a refresh of the watchdog failed: for
\* all periods and limits that meet the assumptions and every phase of the
\* tasks, if the chip has at most one fault at power-up.
THEOREM ErrorsHaveCause == PowerUpFaults \subseteq {0, 1} => (Spec => []ErrorHasCause)
<1>. SUFFICES ASSUME PowerUpFaults \subseteq {0, 1} PROVE Spec => []ErrorHasCause
  OBVIOUS
<1>1. Init => InTime /\ SbcInv
  BY CauseInit
<1>2. WatchdogInv /\ InTime /\ SbcInv /\ [Next]_vars => InTime' /\ SbcInv'
  BY InTimeStep, SbcStep
<1>3. InTime /\ SbcInv => ErrorHasCause
  <2>. SUFFICES ASSUME InTime, SbcInv PROVE ErrorHasCause
    OBVIOUS
  <2>1. sys \notin {"BAL_ERROR", "IMD_ERROR", "BMS_ERROR"}
    BY DEF InTime, BalInTime, ImdInTime, BmsInTime
  <2>2. (sbcState = "ERROR" \/ sys = "SBC_ERROR") /\ ~refreshFailed => failures > MaxRetries
    BY DEF SbcInv, SbcCounts, SbcInTime, Spoilt
  <2>. QED BY <2>1, <2>2 DEF ErrorHasCause
<1>. QED BY <1>1, <1>2, <1>3, WatchdogCorrect, PTL DEF Spec
=============================================================================
