-------------------------------- MODULE Bal --------------------------------
(***************************************************************************)
(* Cell balancing by voltage (src/src/app/application/bal/bal.c and        *)
(* bal/voltage/bal_strategy_voltage.c, the strategy of conf/bms/bms.json). *)
(* BAL_Trigger, called every 100 ms, decides step by step whether the      *)
(* cells above the threshold are discharged.  Others ask it for a state by *)
(* a slot for one request: the system state machine at start-up, the BMS   *)
(* state machine (10 ms) and the reception of the vehicle's message (1 ms).*)
(* Both interrupt BAL_Trigger, so it takes the request in one action and   *)
(* processes it in another.                                                *)
(*                                                                         *)
(* A cell enters by its spread, the voltage above the least of its string; *)
(* spread and thresholds are in steps of a voltage, times in calls.  Left  *)
(* out: the last states and the counters, which nothing else reads, the    *)
(* charge, which this strategy only resets, and BAL_CheckReEntrance: only  *)
(* the 100 ms task calls BAL_Trigger.                                      *)
(***************************************************************************)
EXTENDS Integers

CONSTANTS
    NrOfCells,              \* cells of all strings, in the order of the loops
    MaxSpread,              \* bound on the spread of a cell
    RequestedThresholds,    \* thresholds the vehicle may ask for
    MinimumThreshold,       \* BAL_MINIMUM_THRESHOLD_mV
    MaximumThreshold,       \* BAL_MAXIMUM_THRESHOLD_mV
    DefaultThreshold,       \* BAL_DEFAULT_THRESHOLD_mV
    Hysteresis,             \* BAL_HYSTERESIS_mV
    BalancingTime           \* BAL_FSM_BALANCING_TIME_100ms

Cells == 1 .. NrOfCells
Thresholds == MinimumThreshold .. MaximumThreshold

ASSUME BalAssumption ==
    /\ NrOfCells \in Nat \ {0} /\ MaxSpread \in Nat
    /\ RequestedThresholds \subseteq Int
    /\ MinimumThreshold \in Int /\ MaximumThreshold \in Int /\ DefaultThreshold \in Thresholds
    /\ Hysteresis \in Nat
    /\ BalancingTime \in Nat \ {0}

VARIABLES
    startUp,        \* how far SYS_ProcessPreRunningState has come with balancing
    slot,           \* bal_state.stateRequest
    state, substate, timer,     \* of bal_state
    call,           \* the request BAL_Trigger has taken and not yet processed
    allowed,        \* bal_state.balancingAllowed
    global,         \* bal_state.balancingGlobalAllowed
    active,         \* bal_state.active
    enabled,        \* enableBalancing in the database
    cells,          \* cells with activateBalancing in the database
    threshold,      \* bal_state.balancingThreshold
    setThreshold,   \* bal_threshold_mV
    atRest,         \* BMS_GetBatterySystemState() = BMS_AT_REST
    limitHit,       \* a string is below the voltage or above the temperature limit
    spread          \* cell voltages, relative to the least of the string

stepVars == <<state, substate, timer>>
controlVars == <<active, enabled, cells>>
requestVars == <<slot, global>>
environment == <<atRest, limitHit, spread>>
vars == <<startUp, requestVars, stepVars, call, allowed, controlVars, threshold, setThreshold,
          environment>>

BmsRequests == {"NO_BALANCING", "ALLOW_BALANCING"}
GlobalRequests == {"GLOBAL_ENABLE", "GLOBAL_DISABLE"}
Requests == {"INIT", "NO_REQUEST"} \cup BmsRequests \cup GlobalRequests

Init ==
    /\ startUp = "begin"
    /\ slot = "NO_REQUEST" /\ call = "none"
    /\ state = "UNINITIALIZED" /\ substate = "ENTRY" /\ timer = 0
    /\ allowed = TRUE /\ global = FALSE
    /\ active = FALSE /\ enabled = FALSE /\ cells = {}
    /\ threshold = DefaultThreshold + Hysteresis /\ setThreshold = DefaultThreshold
    /\ atRest \in BOOLEAN /\ limitHit \in BOOLEAN /\ spread \in [Cells -> 0 .. MaxSpread]

-----------------------------------------------------------------------------
\* Requests of other tasks.

\* BAL_GetInitializationState() = STD_OK
Initialized == state \in {"CHECK_BALANCING", "BALANCE"}

\* Only the request for initialization looks at the slot; the others replace
\* what is in it.
Accepted(r) ==
    \/ r \in BmsRequests \cup GlobalRequests
    \/ r = "INIT" /\ slot = "NO_REQUEST" /\ state = "UNINITIALIZED"

\* A global request takes effect at once.
BAL_SetStateRequest(r) ==
    /\ slot' = IF Accepted(r) THEN r ELSE slot
    /\ global' = IF r \in GlobalRequests THEN r = "GLOBAL_ENABLE" ELSE global

\* SYS asks for the initialization, waits for it, and sets the default, which
\* is inactive (BS_BALANCING_DEFAULT_INACTIVE).
SYS_ProcessPreRunningState ==
    /\ \/ startUp = "begin" /\ startUp' = "initializing" /\ BAL_SetStateRequest("INIT")
       \/ /\ startUp = "initializing" /\ Initialized
          /\ startUp' = "done" /\ BAL_SetStateRequest("GLOBAL_DISABLE")
    /\ UNCHANGED <<stepVars, call, allowed, controlVars, threshold, setThreshold, environment>>

\* The BMS state machine is initialized later; it allows balancing in STANDBY
\* and forbids it on the way out and in ERROR.
BMS_Trigger(r) ==
    /\ startUp = "done" /\ BAL_SetStateRequest(r)
    /\ UNCHANGED <<startUp, stepVars, call, allowed, controlVars, threshold, setThreshold,
                   environment>>

BAL_SetBalancingThreshold(t) ==
    setThreshold' = IF t > MaximumThreshold THEN MaximumThreshold
                    ELSE IF t < MinimumThreshold THEN MinimumThreshold ELSE t

\* The message of the vehicle enables or disables and sets the threshold.
CANRX_BmsStateRequest(r, t) ==
    /\ IF Initialized THEN BAL_SetStateRequest(r) ELSE UNCHANGED requestVars
    /\ BAL_SetBalancingThreshold(t)
    /\ UNCHANGED <<startUp, stepVars, call, allowed, controlVars, threshold, environment>>

-----------------------------------------------------------------------------
\* BAL_Trigger.

Goto(st, sub, t) == state' = st /\ substate' = sub /\ timer' = t

CountDown ==
    /\ call = "none" /\ timer > 1
    /\ timer' = timer - 1
    /\ UNCHANGED <<startUp, requestVars, state, substate, call, allowed, controlVars, threshold,
                   setThreshold, environment>>

\* The timer has elapsed.  The two states of the initialization leave the slot alone.
Initialize ==
    /\ call = "none" /\ timer <= 1
    /\ \/ state = "INITIALIZATION" /\ enabled' = FALSE /\ Goto("INITIALIZED", "ENTRY", 1)
       \/ state = "INITIALIZED" /\ UNCHANGED enabled /\ Goto("CHECK_BALANCING", "ENTRY", 1)
    /\ UNCHANGED <<startUp, requestVars, call, allowed, active, cells, threshold, setThreshold,
                   environment>>

BAL_TransferStateRequest ==
    /\ call = "none" /\ timer <= 1 /\ state \notin {"INITIALIZATION", "INITIALIZED"}
    /\ call' = slot /\ slot' = "NO_REQUEST" /\ timer' = 0
    /\ UNCHANGED <<startUp, global, state, substate, allowed, controlVars, threshold,
                   setThreshold, environment>>

\* Processing ends the call; what others asked in the meantime stays in the slot.
Process(st) ==
    /\ call # "none" /\ state = st /\ call' = "none"
    /\ UNCHANGED <<startUp, requestVars, setThreshold, environment>>

BAL_ProcessStateUninitialized ==
    /\ Process("UNINITIALIZED")
    /\ IF call = "INIT" THEN Goto("INITIALIZATION", "ENTRY", 1) ELSE UNCHANGED stepVars
    /\ UNCHANGED <<allowed, controlVars, threshold>>

\* What the request makes of balancingAllowed.
Allowed ==
    \/ call = "ALLOW_BALANCING"
    \/ call # "NO_BALANCING" /\ allowed

BAL_Deactivate == active' = FALSE /\ enabled' = FALSE /\ cells' = {}
DeactivateIfActive == IF active THEN BAL_Deactivate ELSE UNCHANGED controlVars

BAL_ProcessStateCheckBalancing ==
    /\ Process("CHECK_BALANCING") /\ allowed' = Allowed
    /\ \/ /\ ~(Allowed /\ global)
          /\ BAL_Deactivate /\ Goto(state, substate, 1)
       \/ /\ Allowed /\ global /\ UNCHANGED controlVars
          /\ IF atRest THEN Goto("BALANCE", "ENTRY", 1) ELSE Goto(state, substate, 1)
    /\ UNCHANGED threshold

\* Mutant: the global switch is not looked at once balancing is under way.
Balancing_WithoutGlobal(sub) == Process("BALANCE") /\ allowed' = Allowed /\ substate = sub

Balancing(sub) == Process("BALANCE") /\ allowed' = Allowed /\ global /\ substate = sub
Leave(t) == DeactivateIfActive /\ Goto("CHECK_BALANCING", "ENTRY", t)

\* Mutant: the state is left, the cells are not.
GloballyForbidden_OnlyLeaves ==
    /\ Process("BALANCE") /\ allowed' = Allowed /\ ~global
    /\ Goto("CHECK_BALANCING", "ENTRY", 1)
    /\ UNCHANGED <<controlVars, threshold>>

GloballyForbidden ==
    /\ Process("BALANCE") /\ allowed' = Allowed /\ ~global
    /\ Leave(1)
    /\ UNCHANGED threshold

BalanceEntry ==
    /\ Balancing("ENTRY")
    /\ IF Allowed THEN Goto("BALANCE", "CHECK_LOWEST_VOLTAGE", 1) /\ UNCHANGED controlVars
                  ELSE Leave(1)
    /\ UNCHANGED threshold

\* Mutant: the limits end nothing.
CheckLowestVoltage_GoesOn ==
    /\ Balancing("CHECK_LOWEST_VOLTAGE")
    /\ Goto("BALANCE", "CHECK_CURRENT", BalancingTime) /\ UNCHANGED controlVars
    /\ UNCHANGED threshold

CheckLowestVoltage ==
    /\ Balancing("CHECK_LOWEST_VOLTAGE")
    /\ IF limitHit THEN Leave(BalancingTime)
                   ELSE Goto("BALANCE", "CHECK_CURRENT", BalancingTime) /\ UNCHANGED controlVars
    /\ UNCHANGED threshold

CheckCurrent ==
    /\ Balancing("CHECK_CURRENT")
    /\ IF atRest
         THEN Goto("BALANCE", "ACTIVATE_BALANCING", BalancingTime) /\ UNCHANGED controlVars
         ELSE Leave(BalancingTime)
    /\ UNCHANGED threshold

\* The loop over the cells lowers the threshold at the first cell it activates,
\* so the cells after it are compared with the one that was set.
Exceeding(t) == {c \in Cells : spread[c] > t}
Activated ==
    {c \in Cells :
        spread[c] > IF \E d \in Exceeding(threshold) : d < c THEN setThreshold ELSE threshold}

\* Mutant: the hysteresis is added to the largest threshold.
BAL_ActivateBalancing_FromMaximum ==
    /\ cells' = Activated
    /\ IF Activated = {}
         THEN /\ threshold' = MaximumThreshold + Hysteresis
              /\ UNCHANGED <<active, enabled>> /\ Goto("CHECK_BALANCING", "ENTRY", BalancingTime)
         ELSE /\ threshold' = setThreshold
              /\ active' = TRUE /\ enabled' = TRUE /\ Goto("BALANCE", "ENTRY", BalancingTime)

\* Without a cell above the threshold balancing is finished.
BAL_ActivateBalancing ==
    /\ cells' = Activated
    /\ IF Activated = {}
         THEN /\ threshold' = setThreshold + Hysteresis
              /\ UNCHANGED <<active, enabled>> /\ Goto("CHECK_BALANCING", "ENTRY", BalancingTime)
         ELSE /\ threshold' = setThreshold
              /\ active' = TRUE /\ enabled' = TRUE /\ Goto("BALANCE", "ENTRY", BalancingTime)

Activate ==
    /\ Balancing("ACTIVATE_BALANCING")
    /\ IF Allowed THEN BAL_ActivateBalancing ELSE Leave(BalancingTime) /\ UNCHANGED threshold

BAL_Trigger ==
    \/ CountDown \/ Initialize \/ BAL_TransferStateRequest
    \/ BAL_ProcessStateUninitialized \/ BAL_ProcessStateCheckBalancing
    \/ GloballyForbidden \/ BalanceEntry \/ CheckLowestVoltage \/ CheckCurrent \/ Activate

-----------------------------------------------------------------------------
\* The measurements change at any time.
Measure ==
    /\ \/ atRest' = ~atRest /\ UNCHANGED <<limitHit, spread>>
       \/ limitHit' = ~limitHit /\ UNCHANGED <<atRest, spread>>
       \/ spread' \in [Cells -> 0 .. MaxSpread] /\ UNCHANGED <<atRest, limitHit>>
    /\ UNCHANGED <<startUp, requestVars, stepVars, call, allowed, controlVars, threshold,
                   setThreshold>>

Next ==
    \/ SYS_ProcessPreRunningState
    \/ \E r \in BmsRequests : BMS_Trigger(r)
    \/ \E r \in GlobalRequests, t \in RequestedThresholds : CANRX_BmsStateRequest(r, t)
    \/ BAL_Trigger
    \/ Measure

Spec == Init /\ [][Next]_vars
\* The 100 ms task calls BAL_Trigger in a loop.
FairSpec == Spec /\ WF_vars(BAL_Trigger)

-----------------------------------------------------------------------------
\* Properties.

TypeOK ==
    /\ startUp \in {"begin", "initializing", "done"}
    /\ slot \in Requests /\ call \in Requests \cup {"none"}
    /\ state \in {"UNINITIALIZED", "INITIALIZATION", "INITIALIZED", "CHECK_BALANCING", "BALANCE"}
    /\ substate \in {"ENTRY", "CHECK_LOWEST_VOLTAGE", "CHECK_CURRENT", "ACTIVATE_BALANCING"}
    /\ timer \in 0 .. BalancingTime
    /\ allowed \in BOOLEAN /\ global \in BOOLEAN
    /\ active \in BOOLEAN /\ enabled \in BOOLEAN /\ cells \subseteq Cells
    /\ setThreshold \in Thresholds
    /\ threshold \in MinimumThreshold .. MaximumThreshold + Hysteresis
    /\ atRest \in BOOLEAN /\ limitHit \in BOOLEAN /\ spread \in [Cells -> 0 .. MaxSpread]

\* Every way out of BALANCE switches the cells off, though only an active flag
\* says so: a cell that is discharged is so in BALANCE, where the checks are.
OnlyWhileBalancing ==
    cells # {} => state = "BALANCE" /\ active /\ enabled

\* BAL_CheckStateRequest sets the global switch at once, bal.c:104-111: once it
\* is off, the next call whose timer has elapsed, at most BAL_FSM_BALANCING_TIME
\* calls away, switches off every cell, whatever it had taken from the slot.
DisableIsObeyed ==
    [][~global /\ call # "none" /\ call' = "none" => cells' = {}]_vars

\* bal_strategy_voltage.c:190-191, "stop balancing if minimum voltage is below
\* minimum threshold or maximum cell temperature breached upper temperature limit",
\* and BAL_CHECK_CURRENT, bal.h:96: under a limit that stays, and in a battery that
\* stays in use, no cell is balanced for good.
LimitOrCurrentStops == <>[]limitHit \/ <>[]~atRest => <>[](cells = {})

\* bal.rst, "activates balancing for all the cells whose voltage is above the
\* minimum + threshold": nothing that stays the same keeps balancing from
\* starting while a cell is above the threshold with hysteresis.
Ready(t) ==
    /\ allowed /\ global /\ atRest /\ ~limitHit /\ setThreshold = t
    /\ Exceeding(t + Hysteresis) # {}
BalancingHappens == \A t \in Thresholds : <>[]Ready(t) => []<>(cells # {})
=============================================================================
