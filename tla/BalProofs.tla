----------------------------- MODULE BalProofs -----------------------------
(***************************************************************************)
(* Theorems about module Bal: its types, that cells are discharged only in *)
(* BALANCE, and that the global switch is obeyed by the next call.         *)
(***************************************************************************)
EXTENDS Bal, TLAPS

\* The types are inductive; that cells are discharged in BALANCE only is so too,
\* given the types: Leave looks at the flag, and the flag tells of the cells.
IInv == TypeOK /\ OnlyWhileBalancing

LEMMA InitIInv == Init => IInv
<1>1. /\ DefaultThreshold \in Thresholds /\ 0 \in 0 .. BalancingTime
      /\ DefaultThreshold + Hysteresis \in MinimumThreshold .. MaximumThreshold + Hysteresis
  BY BalAssumption DEF Thresholds
<1>. QED  BY <1>1 DEF Init, IInv, TypeOK, OnlyWhileBalancing, Requests

\* Leaving BALANCE switches off whatever is on.
LEMMA LeaveSwitchesOff ==
  ASSUME IInv, NEW t \in 0 .. BalancingTime, Leave(t)
  PROVE  /\ cells' = {} /\ active' \in BOOLEAN /\ enabled' \in BOOLEAN
         /\ state' = "CHECK_BALANCING" /\ substate' = "ENTRY" /\ timer' = t
  BY DEF IInv, TypeOK, OnlyWhileBalancing, Leave, DeactivateIfActive, BAL_Deactivate, Goto,
         controlVars

\* The steps of other tasks and of the environment.
LEMMA RequestsKeepIInv ==
  ASSUME IInv, NEW r \in Requests \ {"NO_REQUEST"}, BAL_SetStateRequest(r)
  PROVE  slot' \in Requests /\ global' \in BOOLEAN
  BY DEF IInv, TypeOK, BAL_SetStateRequest, Requests, GlobalRequests, BmsRequests

LEMMA OthersKeepIInv ==
  ASSUME IInv,
         \/ SYS_ProcessPreRunningState
         \/ \E r \in BmsRequests : BMS_Trigger(r)
         \/ \E r \in GlobalRequests, t \in RequestedThresholds : CANRX_BmsStateRequest(r, t)
         \/ Measure
  PROVE  IInv'
<1>1. CASE SYS_ProcessPreRunningState
  <2>1. startUp' \in {"initializing", "done"} /\ slot' \in Requests /\ global' \in BOOLEAN
    BY <1>1, RequestsKeepIInv DEF SYS_ProcessPreRunningState, Requests, GlobalRequests
  <2>. QED  BY <1>1, <2>1
    DEF SYS_ProcessPreRunningState, IInv, TypeOK, OnlyWhileBalancing, stepVars, controlVars,
        environment
<1>2. CASE \E r \in BmsRequests : BMS_Trigger(r)
  <2>1. slot' \in Requests /\ global' \in BOOLEAN
    BY <1>2, RequestsKeepIInv DEF BMS_Trigger, Requests, BmsRequests
  <2>. QED  BY <1>2, <2>1
    DEF BMS_Trigger, IInv, TypeOK, OnlyWhileBalancing, stepVars, controlVars, environment
<1>3. CASE \E r \in GlobalRequests, t \in RequestedThresholds : CANRX_BmsStateRequest(r, t)
  <2>1. PICK r \in GlobalRequests, t \in RequestedThresholds : CANRX_BmsStateRequest(r, t)
    BY <1>3
  <2>2. slot' \in Requests /\ global' \in BOOLEAN
    BY <2>1, RequestsKeepIInv
    DEF CANRX_BmsStateRequest, Requests, GlobalRequests, requestVars, IInv, TypeOK
  <2>3. setThreshold' \in Thresholds
    BY <2>1, BalAssumption DEF CANRX_BmsStateRequest, BAL_SetBalancingThreshold, Thresholds
  <2>. QED  BY <2>1, <2>2, <2>3
    DEF CANRX_BmsStateRequest, IInv, TypeOK, OnlyWhileBalancing, stepVars, controlVars,
        environment
<1>4. CASE Measure
  <2>1. /\ atRest' \in BOOLEAN /\ limitHit' \in BOOLEAN
        /\ spread' \in [Cells -> 0 .. MaxSpread]
    BY <1>4, Zenon DEF Measure, IInv, TypeOK
  <2>. QED  BY <1>4, <2>1
    DEF Measure, IInv, TypeOK, OnlyWhileBalancing, stepVars, controlVars, requestVars
<1>. QED  BY <1>1, <1>2, <1>3, <1>4

\* The steps of BAL_Trigger before a request is processed.
LEMMA StepsBeforeKeepIInv ==
  ASSUME IInv, CountDown \/ Initialize \/ BAL_TransferStateRequest
  PROVE  IInv'
<1>. BalancingTime \in Nat /\ BalancingTime > 0 /\ timer \in 0 .. BalancingTime
  BY BalAssumption DEF IInv, TypeOK
<1>1. CASE CountDown
  <2>1. timer' \in 0 .. BalancingTime
    BY <1>1 DEF CountDown
  <2>. QED  BY <1>1, <2>1
    DEF CountDown, IInv, TypeOK, OnlyWhileBalancing, controlVars, requestVars, environment
<1>2. CASE Initialize
  <2>1. cells' = {} /\ timer' = 1
    BY <1>2 DEF Initialize, Goto, IInv, OnlyWhileBalancing
  <2>2. enabled' \in BOOLEAN
    BY <1>2, Zenon DEF Initialize, IInv, TypeOK
  <2>3. timer' \in 0 .. BalancingTime
    BY <2>1
  <2>. QED  BY <1>2, <2>1, <2>2, <2>3
    DEF Initialize, Goto, IInv, TypeOK, requestVars, environment, OnlyWhileBalancing
<1>3. CASE BAL_TransferStateRequest
  BY <1>3
  DEF BAL_TransferStateRequest, IInv, TypeOK, OnlyWhileBalancing, Requests, controlVars,
      environment
<1>. QED  BY <1>1, <1>2, <1>3

\* What remains of the invariant for a step that processes a request: what it
\* leaves alone keeps its type.
LEMMA ProcessKeepsTypes ==
  ASSUME IInv, NEW st, Process(st)
  PROVE  /\ startUp' \in {"begin", "initializing", "done"}
         /\ slot' \in Requests /\ call' \in Requests \cup {"none"} /\ global' \in BOOLEAN
         /\ setThreshold' \in Thresholds
         /\ atRest' \in BOOLEAN /\ limitHit' \in BOOLEAN
         /\ spread' \in [Cells -> 0 .. MaxSpread]
         /\ Allowed \in BOOLEAN
  BY DEF IInv, TypeOK, Process, requestVars, environment, Allowed

Processing ==
    \/ BAL_ProcessStateUninitialized \/ BAL_ProcessStateCheckBalancing
    \/ GloballyForbidden \/ BalanceEntry \/ CheckLowestVoltage \/ CheckCurrent \/ Activate

\* The steps that process a request: each either leaves BALANCE, or stays and
\* touches no cell, or activates cells with their flags.
LEMMA ProcessingKeepsIInv ==
  ASSUME IInv, Processing
  PROVE  IInv'
<1>. BalancingTime \in Nat /\ 1 \in 0 .. BalancingTime /\ BalancingTime \in 0 .. BalancingTime
  BY BalAssumption
<1>1. CASE BAL_ProcessStateUninitialized
  BY <1>1, ProcessKeepsTypes
  DEF BAL_ProcessStateUninitialized, Goto, Process, IInv, TypeOK, OnlyWhileBalancing, stepVars,
      controlVars
<1>2. CASE BAL_ProcessStateCheckBalancing
  BY <1>2, ProcessKeepsTypes
  DEF BAL_ProcessStateCheckBalancing, BAL_Deactivate, Goto, Process, IInv, TypeOK,
      OnlyWhileBalancing, controlVars
<1>3. CASE GloballyForbidden
  BY <1>3, ProcessKeepsTypes, LeaveSwitchesOff
  DEF GloballyForbidden, IInv, TypeOK, OnlyWhileBalancing
<1>4. CASE BalanceEntry
  BY <1>4, ProcessKeepsTypes, LeaveSwitchesOff
  DEF BalanceEntry, Balancing, Goto, IInv, TypeOK, OnlyWhileBalancing, controlVars
<1>5. CASE CheckLowestVoltage
  BY <1>5, ProcessKeepsTypes, LeaveSwitchesOff
  DEF CheckLowestVoltage, Balancing, Goto, IInv, TypeOK, OnlyWhileBalancing, controlVars
<1>6. CASE CheckCurrent
  BY <1>6, ProcessKeepsTypes, LeaveSwitchesOff
  DEF CheckCurrent, Balancing, Goto, IInv, TypeOK, OnlyWhileBalancing, controlVars
<1>7. CASE Activate
  <2>1. CASE Allowed /\ BAL_ActivateBalancing
    <3>1. threshold' \in MinimumThreshold .. MaximumThreshold + Hysteresis
      BY <2>1, BalAssumption DEF BAL_ActivateBalancing, IInv, TypeOK, Thresholds
    <3>2. cells' \subseteq Cells
      BY <2>1 DEF BAL_ActivateBalancing, Activated
    <3>. QED  BY <1>7, <2>1, <3>1, <3>2, ProcessKeepsTypes
      DEF Activate, Balancing, BAL_ActivateBalancing, Goto, IInv, TypeOK, OnlyWhileBalancing
  <2>2. CASE ~Allowed /\ Leave(BalancingTime) /\ UNCHANGED threshold
    BY <1>7, <2>2, ProcessKeepsTypes, LeaveSwitchesOff
    DEF Activate, Balancing, IInv, TypeOK, OnlyWhileBalancing
  <2>. QED  BY <1>7, <2>1, <2>2 DEF Activate
<1>. QED  BY <1>1, <1>2, <1>3, <1>4, <1>5, <1>6, <1>7 DEF Processing

LEMMA NextKeepsIInv == IInv /\ [Next]_vars => IInv'
<1>. SUFFICES ASSUME IInv, [Next]_vars PROVE IInv'
  OBVIOUS
<1>1. CASE UNCHANGED vars
  BY <1>1
  DEF vars, stepVars, controlVars, requestVars, environment, IInv, TypeOK, OnlyWhileBalancing
<1>2. CASE BAL_Trigger
  BY <1>2, StepsBeforeKeepIInv, ProcessingKeepsIInv DEF BAL_Trigger, Processing
<1>. QED  BY <1>1, <1>2, OthersKeepIInv DEF Next

\* IInv holds in every reachable state.
THEOREM BalInvariance == Spec => []IInv
  BY InitIInv, NextKeepsIInv, PTL DEF Spec

\* Thresholds stay in their bounds, and no wait is longer than the balancing time.
THEOREM BalTypeCorrect == Spec => []TypeOK
<1>1. IInv => TypeOK
  BY DEF IInv
<1>. QED  BY <1>1, BalInvariance, PTL

\* No cell is discharged outside BALANCE or without the flags that say so.
THEOREM CellsOnlyInBalance == Spec => []OnlyWhileBalancing
<1>1. IInv => OnlyWhileBalancing
  BY DEF IInv
<1>. QED  BY <1>1, BalInvariance, PTL

\* Whatever BAL_Trigger is doing and whatever request it has taken: if the global
\* switch is off when it processes a request, no cell is discharged afterwards.
THEOREM GlobalDisableObeyed == Spec => DisableIsObeyed
<1>1. ASSUME IInv, [Next]_vars, ~global, call # "none", call' = "none"
      PROVE  cells' = {}
  <2>1. Processing
    BY <1>1
    DEF Next, BAL_Trigger, Processing, CountDown, Initialize, BAL_TransferStateRequest,
        SYS_ProcessPreRunningState, BMS_Trigger, CANRX_BmsStateRequest, Measure, vars
  <2>2. CASE BAL_ProcessStateUninitialized
    BY <1>1, <2>2
    DEF BAL_ProcessStateUninitialized, Process, IInv, OnlyWhileBalancing, controlVars
  <2>3. CASE BAL_ProcessStateCheckBalancing
    BY <1>1, <2>3 DEF BAL_ProcessStateCheckBalancing, BAL_Deactivate
  <2>4. CASE GloballyForbidden
    BY <1>1, <2>4, LeaveSwitchesOff, BalAssumption DEF GloballyForbidden
  <2>. QED  BY <1>1, <2>1, <2>2, <2>3, <2>4
    DEF Processing, BalanceEntry, CheckLowestVoltage, CheckCurrent, Activate, Balancing
<1>2. IInv /\ [Next]_vars => [~global /\ call # "none" /\ call' = "none" => cells' = {}]_vars
  BY <1>1
<1>. QED  BY <1>2, BalInvariance, PTL DEF Spec, DisableIsObeyed
=============================================================================
