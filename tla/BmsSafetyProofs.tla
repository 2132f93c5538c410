--------------------------- MODULE BmsSafetyProofs ---------------------------
(***************************************************************************)
(* Safety of the BMS state machine beyond its inductive invariant: what is *)
(* reported, and asked of BAL, in which state, and what no step may ever   *)
(* do; and that it implements the power path of module PowerPath.          *)
(***************************************************************************)
EXTENDS BmsProofs

-----------------------------------------------------------------------------
\* Balancing and the reported state.

\* The last request to BAL may allow balancing on entering OPEN_CONTACTORS, but
\* not after it, so not in ERROR, which is entered from there only.
BalancingSteps ==
    state = "ERROR" \/ (state = "OPEN_CONTACTORS" /\ substate # "ENTRY") => balancing = "NONE"

\* Every step keeps BalancingSteps.
LEMMA BalancingStep ==
    ASSUME IInv, BalancingSteps, [Next]_vars
    PROVE  BalancingSteps'
<1>. USE DEF BalancingSteps, Step, CheckErrorFlags, OpenThen, Goto, At, OnlyFsm, OutQuiet
<1>1. CASE StartUp
  BY <1>1 DEF StartUp, outVars, Uninitialized, Initialization, Initialized, IdleEntry,
        IdleCheckErrorFlags, IdleCheckRequests
<1>2. CASE OpenContactors
  BY <1>2 DEF OpenContactors, outVars, OpenEntry, OpenAllPrecharge, OpenFirst, WaitForFuse,
        ForceOpenFirst, OpenFirstContactor, OpenSecond, StringOpened, StringNotOpened,
        HandleLost30C, OpenStringsExit
<1>3. CASE Standby
  BY <1>3 DEF Standby, outVars, StandbyEntry, StandbyCheckErrorFlags, StandbyInterlockChecked,
        StandbyCheckRequests
<1>4. CASE Precharge
  BY <1>4 DEF Precharge, outVars, PrechargeEntry, PrechargeClosePrecharge,
        PrechargeCheckProcess,
        RetryPrecharge, PrechargeCheckCloseSecond, PrechargeCheckErrorFlags,
        PrechargeOpenPrecharge, PrechargeCheckOpenPrecharge
<1>5. CASE Normal
  BY <1>5 DEF Normal, outVars, NormalEntry, NormalCheckErrorFlags, NormalCheckRequests,
        NormalCloseNextString, NormalCloseSecond
<1>6. CASE Error
  BY <1>6 DEF Error, outVars, ErrorEntry, ErrorCheckErrorFlags, ErrorCheckRequests
<1>7. CASE Wait \/ SetInitializationRequest \/ FatalErrorChanges \/ UNCHANGED vars
  BY <1>7 DEF Wait, SetInitializationRequest, FatalErrorChanges, vars, fsmVars, outVars
<1>. QED  BY <1>1, <1>2, <1>3, <1>4, <1>5, <1>6, <1>7 DEF Next, BMS_Trigger

\* The error state is only reached with the last request of the BMS to BAL
\* forbidding balancing (BMS_Trigger, bms.c).
THEOREM BalancingIsForbidden == Spec => []ErrorForbidsBalancing
<1>1. Init => BalancingSteps
  BY DEF Init, BalancingSteps
<1>2. BalancingSteps => ErrorForbidsBalancing
  BY DEF BalancingSteps, ErrorForbidsBalancing
<1>. QED  BY <1>1, <1>2, BalancingStep, Invariance, PTL DEF Spec

\* While contactors are set the database shows PRECHARGE, NORMAL or CHARGE.
ReportSteps ==
    /\ ReportedOffIsOff
    /\ state = "PRECHARGE" /\ substate # "ENTRY" => canState = "PRECHARGE"
    /\ state = "NORMAL" => canState \in {"PRECHARGE", "NORMAL", "CHARGE"}

\* Every step keeps ReportSteps.
LEMMA ReportStep ==
    ASSUME IInv, ReportSteps, [Next]_vars
    PROVE  ReportSteps'
<1>. USE DEF IInv, ContactorsFollowSteps, ReportSteps, ReportedOffIsOff, Step,
        CheckErrorFlags, OpenThen, Goto, At,
        OnlyFsm, OutQuiet
<1>1. CASE StartUp
  BY <1>1 DEF StartUp, outVars, SafeStatesDisconnected, SafeStates, Uninitialized,
        Initialization, Initialized, IdleEntry,
        IdleCheckErrorFlags, IdleCheckRequests
<1>2. CASE OpenContactors
  BY <1>2 DEF OpenContactors, outVars, OpenEntry, OpenAllPrecharge, OpenFirst, WaitForFuse,
        ForceOpenFirst, OpenFirstContactor, OpenSecond, StringOpened, StringNotOpened,
        HandleLost30C, OpenStringsExit, CONT_OpenContactor, CONT_OpenAllPrechargeContactors,
        CONT_OpenAllContactors, StringsQuiet
<1>3. CASE Standby
  BY <1>3 DEF Standby, outVars, SafeStatesDisconnected, SafeStates, StandbyEntry,
        StandbyCheckErrorFlags, StandbyInterlockChecked,
        StandbyCheckRequests
<1>4. CASE Precharge
  BY <1>4 DEF Precharge, outVars, PrechargeEntry, PrechargeClosePrecharge,
        PrechargeCheckProcess,
        RetryPrecharge, PrechargeCheckCloseSecond, PrechargeCheckErrorFlags, PrechargeSteps,
        PrechargeOpenPrecharge, PrechargeCheckOpenPrecharge
<1>5. CASE Normal
  BY <1>5 DEF Normal, outVars, NormalEntry, NormalCheckErrorFlags, NormalCheckRequests,
        NormalCloseNextString, NormalCloseSecond
<1>6. CASE Error
  BY <1>6 DEF Error, outVars, ErrorEntry, ErrorCheckErrorFlags, ErrorCheckRequests,
        SafeStatesDisconnected, SafeStates
<1>7. CASE Wait \/ SetInitializationRequest \/ FatalErrorChanges \/ UNCHANGED vars
  BY <1>7 DEF Wait, SetInitializationRequest, FatalErrorChanges, vars, fsmVars, outVars,
        contVars
<1>. HIDE DEF ReportSteps
<1>. QED  BY <1>1, <1>2, <1>3, <1>4, <1>5, <1>6, <1>7 DEF Next, BMS_Trigger

\* A pack that is shown as off has no contactor set.
THEOREM OffMeansOff == Spec => []ReportedOffIsOff
<1>1. Init => ReportSteps
  BY DEF Init, ContInit, ReportSteps, ReportedOffIsOff
<1>2. ReportSteps => ReportedOffIsOff
  BY DEF ReportSteps
<1>. QED  BY <1>1, <1>2, ReportStep, Invariance, PTL DEF Spec

-----------------------------------------------------------------------------
\* The alert mode.

\* While the alert mode is on, the delay of the active errors is zero.
LEMMA AlertDelay ==
    ASSUME TypeOK, alert
    PROVE  ~SystemStateOkay
<1>1. 0 \in ActiveDelays
  BY DEF ActiveDelays
<1>2. MinimumDelay = 0
  BY <1>1, MinimumDelayType, BmsAssumption
<1>3. Passed.remaining \in 0 .. NoActiveDelay /\ NoActiveDelay \in Nat
  BY DelayType, BmsAssumption DEF Delays
<1>4. delay \in Delays /\ Passed \in Delays
  BY DelayType DEF TypeOK, Delays
<1>5. AnyFatalErrorSet
  BY DEF AnyFatalErrorSet
<1>6. CASE delay.latched
  <2>1. Evaluated = [Passed EXCEPT !.minimum = 0, !.remaining = Least(@, 0)]
    BY <1>2, <1>6 DEF Evaluated
  <2>2. Passed.latched
    BY <1>4, <1>6 DEF Passed, Delays
  <2>3. Least(Passed.remaining, 0) = 0
    BY <1>3 DEF Least
  <2>. QED  BY <1>4, <2>1, <2>2, <2>3 DEF SystemStateOkay, Delays
<1>7. CASE ~delay.latched
  <2>1. Evaluated = [latched |-> TRUE, remaining |-> 0, minimum |-> 0]
    BY <1>2, <1>5, <1>7 DEF Evaluated
  <2>. QED  BY <2>1 DEF SystemStateOkay
<1>. QED  BY <1>6, <1>7

\* Every step keeps AlertSteps: an alert is pending in few steps only.
LEMMA AlertStep ==
    ASSUME IInv, AlertSteps, [Next]_vars
    PROVE  AlertSteps'
<1>. USE DEF AlertSteps, Step, OpenThen, Goto, At, OnlyFsm, RestQuiet
<1>0. alert => ~SystemStateOkay /\ AnyFatalErrorSet
  BY AlertDelay DEF IInv, AnyFatalErrorSet
<1>1. CASE StartUp
  BY <1>1 DEF StartUp, CheckErrorFlags, Uninitialized, Initialization, Initialized, IdleEntry,
        IdleCheckErrorFlags, IdleCheckRequests
<1>2. CASE OpenContactors
  BY <1>2 DEF OpenContactors, OpenEntry, OpenAllPrecharge, OpenFirst, WaitForFuse,
        ForceOpenFirst, OpenFirstContactor, OpenSecond, StringOpened, StringNotOpened,
        HandleLost30C, OpenStringsExit
<1>3. CASE Standby
  BY <1>0, <1>3 DEF Standby, CheckErrorFlags, StandbyEntry, StandbyCheckErrorFlags,
        StandbyInterlockChecked, StandbyCheckRequests
<1>4. CASE Precharge
  BY <1>4 DEF Precharge, CheckErrorFlags, PrechargeEntry, PrechargeClosePrecharge,
        PrechargeCheckProcess, RetryPrecharge, PrechargeCheckCloseSecond,
        PrechargeCheckErrorFlags, PrechargeOpenPrecharge, PrechargeCheckOpenPrecharge
<1>5. CASE Normal
  BY <1>5 DEF Normal, CheckErrorFlags, NormalEntry, NormalCheckErrorFlags, NormalCheckRequests,
        NormalCloseNextString, NormalCloseSecond
<1>6. CASE Error
  BY <1>0, <1>6 DEF Error, ErrorEntry, ErrorCheckErrorFlags, ErrorCheckRequests
<1>7. CASE Wait \/ SetInitializationRequest \/ FatalErrorChanges \/ UNCHANGED vars
  BY <1>7 DEF Wait, SetInitializationRequest, FatalErrorChanges, vars, fsmVars
<1>. HIDE DEF AlertSteps
<1>. QED  BY <1>1, <1>2, <1>3, <1>4, <1>5, <1>6, <1>7 DEF Next, BMS_Trigger

\* The steps an alert can be pending in only ever open contactors.
LEMMA AlertOpensOnly ==
    ASSUME AlertSteps, [Next]_vars, alert
    PROVE  currentSet' \subseteq currentSet
<1>. USE DEF AlertSteps, Step, At, OnlyFsm, StringsQuiet
<1>1. CASE OpenContactors
  BY <1>1 DEF OpenContactors, OpenEntry, OpenAllPrecharge, OpenFirst, WaitForFuse,
        ForceOpenFirst, OpenFirstContactor, OpenSecond, StringOpened, StringNotOpened,
        HandleLost30C, OpenStringsExit, CONT_OpenContactor, CONT_OpenAllPrechargeContactors,
        CONT_OpenAllContactors
<1>2. CASE Standby
  BY <1>2 DEF Standby, StandbyEntry, StandbyCheckErrorFlags, StandbyInterlockChecked,
        StandbyCheckRequests
<1>3. CASE Error
  BY <1>3 DEF Error, ErrorEntry, ErrorCheckErrorFlags, ErrorCheckRequests
<1>4. CASE StartUp \/ Precharge \/ Normal
  BY <1>4 DEF StartUp, Uninitialized, Initialization, Initialized, IdleEntry,
        IdleCheckErrorFlags, IdleCheckRequests, Precharge, PrechargeEntry,
        PrechargeClosePrecharge, PrechargeCheckProcess, PrechargeCheckCloseSecond,
        PrechargeCheckErrorFlags, PrechargeOpenPrecharge, PrechargeCheckOpenPrecharge,
        Normal, NormalEntry, NormalCheckErrorFlags, NormalCheckRequests,
        NormalCloseNextString, NormalCloseSecond
<1>5. CASE Wait \/ SetInitializationRequest \/ FatalErrorChanges \/ UNCHANGED vars
  BY <1>5 DEF Wait, SetInitializationRequest, FatalErrorChanges, vars, contVars
<1>. QED  BY <1>1, <1>2, <1>3, <1>4, <1>5 DEF Next, BMS_Trigger

\* From the alert mode on no contactor is closed again.
THEOREM AlertStaysFinal == Spec => AlertIsFinal
<1>1. Init => AlertSteps
  BY DEF Init, AlertSteps
<1>2. AlertSteps /\ [Next]_vars => [alert => currentSet' \subseteq currentSet]_vars
  BY AlertOpensOnly
<1>. QED  BY <1>1, <1>2, AlertStep, Invariance, PTL DEF Spec, AlertIsFinal

-----------------------------------------------------------------------------
\* The countdown to the error state.

\* An active error has a delay, and every delay is below the unloaded value.
LEMMA MinimumDelayLoaded ==
    ASSUME TypeOK, AnyFatalErrorSet
    PROVE  MinimumDelay < NoActiveDelay
<1>1. PICK d \in ActiveDelays : d \in Nat /\ d < NoActiveDelay
  <2>1. CASE fatal # {}
    <3>1. PICK e \in fatal : e \in FatalIds
      BY <2>1 DEF TypeOK
    <3>. QED  BY <3>1, BmsAssumption DEF ActiveDelays
  <2>2. CASE alert \/ FeedbackErrorActive(fbEntry')
    BY <2>2, BmsAssumption DEF ActiveDelays
  <2>. QED  BY <2>1, <2>2 DEF AnyFatalErrorSet
<1>. QED  BY <1>1, MinimumDelayType, BmsAssumption

\* Passing and evaluating keep the countdown loaded as it should be.
LEMMA DelayStepLoaded ==
    ASSUME IInv, DelayLoaded, [Next]_vars
    PROVE  DelayLoaded'
<1>. USE DEF DelayLoaded
<1>1. delay \in Delays /\ NoActiveDelay \in Nat /\ MinimumDelay \in 0 .. NoActiveDelay
        /\ MinimumDelay <= delay.minimum
  BY MinimumDelayType, BmsAssumption DEF IInv, TypeOK, Delays
<1>2. delay' \in {delay, Passed, Evaluated, NoDelay}
  BY DEF Next, BMS_Trigger, vars, Step, PassDelay, EvaluateDelay, CheckErrorFlags, Wait,
        SetInitializationRequest, FatalErrorChanges, StartUp, Uninitialized, Initialization,
        Initialized, IdleEntry, IdleCheckErrorFlags, IdleCheckRequests, OpenContactors,
        OpenEntry, OpenAllPrecharge, OpenFirst, WaitForFuse, ForceOpenFirst, OpenSecond,
        StringOpened, StringNotOpened, HandleLost30C, OpenStringsExit, Standby, StandbyEntry,
        StandbyCheckErrorFlags, StandbyInterlockChecked, StandbyCheckRequests, Precharge,
        PrechargeEntry, PrechargeClosePrecharge, PrechargeCheckProcess,
        PrechargeCheckCloseSecond, PrechargeCheckErrorFlags, PrechargeOpenPrecharge,
        PrechargeCheckOpenPrecharge, Normal, NormalEntry, NormalCheckErrorFlags,
        NormalCheckRequests, NormalCloseNextString, NormalCloseSecond, Error, ErrorEntry,
        ErrorCheckErrorFlags, ErrorCheckRequests
<1>3. CASE delay' = delay
  BY <1>3 DEF NoDelay
<1>4. CASE delay' = Passed
  BY <1>1, <1>4 DEF Passed, Decremented, Delays, NoDelay
<1>5. CASE delay' = Evaluated
  <2>1. CASE delay.latched
    <3>1. delay' = [Passed EXCEPT !.minimum = MinimumDelay, !.remaining = Least(@, MinimumDelay)]
      BY <1>5, <2>1 DEF Evaluated
    <3>2. Passed \in Delays /\ Passed.latched
      BY <1>1, <2>1, DelayType DEF Passed, IInv, Delays
    <3>3. delay'.latched /\ delay'.minimum = MinimumDelay
            /\ delay'.remaining = Least(Passed.remaining, MinimumDelay)
      BY <3>1, <3>2 DEF Delays
    <3>4. Least(Passed.remaining, MinimumDelay) <= MinimumDelay
      BY <1>1, <3>2 DEF Least, Delays
    <3>5. MinimumDelay < NoActiveDelay
      BY <1>1, <2>1 DEF Delays
    <3>. QED  BY <3>3, <3>4, <3>5
  <2>2. CASE ~delay.latched /\ AnyFatalErrorSet
    <3>1. delay' = [latched |-> TRUE, remaining |-> MinimumDelay, minimum |-> MinimumDelay]
      BY <1>5, <2>2 DEF Evaluated
    <3>2. MinimumDelay < NoActiveDelay
      BY <2>2, MinimumDelayLoaded DEF IInv
    <3>. QED  BY <1>1, <3>1, <3>2
  <2>3. CASE ~delay.latched /\ ~AnyFatalErrorSet
    BY <1>5, <2>3 DEF Evaluated, NoDelay
  <2>. QED  BY <2>1, <2>2, <2>3
<1>6. CASE delay' = NoDelay
  BY <1>6 DEF NoDelay
<1>. QED  BY <1>2, <1>3, <1>4, <1>5, <1>6

\* The countdown is loaded with the delay of an error that was active.
THEOREM DelayIsLoaded == Spec => []DelayLoaded
<1>1. Init => DelayLoaded
  BY DEF Init, DelayLoaded, NoDelay
<1>. QED  BY <1>1, DelayStepLoaded, Invariance, PTL DEF Spec

-----------------------------------------------------------------------------
\* Making and breaking the path of a string.

\* Outside NORMAL only the precharge process completes a path, and it does so
\* only if the countdown has not run out.
LEMMA ConnectionStep ==
    ASSUME IInv, [Next]_vars, DelayExpired, state # "NORMAL", NEW s \in Strings,
           PathOf(s, currentSet')
    PROVE  PathOf(s, currentSet)
<1>. USE DEF Step, At, OnlyFsm, StringsQuiet, PathOf, Path, CONT_OpenContactor,
        CONT_CloseContactor, CONT_OpenAllPrechargeContactors, CONT_OpenAllContactors
<1>1. CASE OpenContactors
  BY <1>1 DEF OpenContactors, OpenEntry, OpenAllPrecharge, OpenFirst, WaitForFuse,
        ForceOpenFirst, OpenFirstContactor, OpenSecond, StringOpened, StringNotOpened,
        HandleLost30C, OpenStringsExit
<1>2. CASE StartUp \/ Standby \/ Error
  BY <1>2 DEF StartUp, Uninitialized, Initialization, Initialized, IdleEntry,
        IdleCheckErrorFlags, IdleCheckRequests, Standby, StandbyEntry, StandbyCheckErrorFlags,
        StandbyInterlockChecked, StandbyCheckRequests, Error, ErrorEntry, ErrorCheckErrorFlags,
        ErrorCheckRequests
<1>3. CASE Precharge
  <2>. USE DEF IInv, ContactorsFollowSteps, PrechargeSteps
  <2>1. CASE PrechargeEntry
    BY <1>3, <2>1 DEF PrechargeEntry
  <2>2. CASE PrechargeClosePrecharge
    BY <1>3, <2>2 DEF PrechargeClosePrecharge, Precharge1
  <2>3. CASE PrechargeCheckProcess
    BY <1>3, <2>3 DEF PrechargeCheckProcess, EvaluateDelay, DelayExpired, SystemStateOkay,
          RetryPrecharge
  <2>4. CASE PrechargeCheckCloseSecond
    BY <1>3, <2>4 DEF PrechargeCheckCloseSecond, Precharge1
  <2>5. CASE PrechargeCheckErrorFlags \/ PrechargeOpenPrecharge \/ PrechargeCheckOpenPrecharge
    BY <1>3, <2>5 DEF PrechargeCheckErrorFlags, PrechargeOpenPrecharge,
        PrechargeCheckOpenPrecharge
  <2>. QED  BY <1>3, <2>1, <2>2, <2>3, <2>4, <2>5 DEF Precharge
<1>4. CASE Normal
  BY <1>4 DEF Normal, NormalEntry, NormalCheckErrorFlags, NormalCheckRequests,
        NormalCloseNextString, NormalCloseSecond
<1>5. CASE Wait \/ SetInitializationRequest \/ FatalErrorChanges \/ UNCHANGED vars
  BY <1>5 DEF Wait, SetInitializationRequest, FatalErrorChanges, vars, contVars
<1>. QED  BY <1>1, <1>2, <1>3, <1>4, <1>5 DEF Next, BMS_Trigger

\* No string is connected to the bus once the delay of an error has run out,
\* except as a further string in operation.
THEOREM NoLateConnection == Spec => NoConnectionAfterDelay
<1>. DEFINE A == DelayExpired /\ state # "NORMAL" =>
                   \A s \in Strings : PathOf(s, currentSet') => PathOf(s, currentSet)
<1>1. IInv /\ [Next]_vars => [A]_vars
  BY ConnectionStep
<1>. QED  BY <1>1, Invariance, PTL DEF Spec, NoConnectionAfterDelay

\* Main contactors leave a connected path in the first opening step only.
LEMMA BreakStep ==
    ASSUME IInv, [Next]_vars, NEW s \in Strings, BreaksPath(s)
    PROVE  \/ At("OPEN_CONTACTORS", "OPEN_FIRST") /\ s = stringNumber
                /\ (s \notin overBreak' \/ alert')
           \/ At("OPEN_CONTACTORS", "SUPPLY_VOLTAGE_30C_LOSS")
<1>. USE DEF Step, At, OnlyFsm, StringsQuiet, BreaksPath, PathOf, Path, CONT_OpenContactor,
        CONT_CloseContactor, CONT_OpenAllPrechargeContactors, CONT_OpenAllContactors
<1>1. CASE OpenContactors
  BY <1>1 DEF IInv, ContactorsFollowSteps, OpenSteps, OpenContactors, OpenEntry, Other,
        OpenAllPrecharge, OpenFirst, WaitForFuse, ForceOpenFirst, OpenFirstContactor,
        OpenSecond, StringOpened, StringNotOpened, HandleLost30C, OpenStringsExit
<1>2. CASE StartUp \/ Standby \/ Error
  BY <1>2 DEF StartUp, Uninitialized, Initialization, Initialized, IdleEntry,
        IdleCheckErrorFlags, IdleCheckRequests, Standby, StandbyEntry, StandbyCheckErrorFlags,
        StandbyInterlockChecked, StandbyCheckRequests, Error, ErrorEntry, ErrorCheckErrorFlags,
        ErrorCheckRequests
<1>3. CASE Precharge
  BY <1>3 DEF Precharge, PrechargeEntry, PrechargeClosePrecharge, PrechargeCheckProcess,
        RetryPrecharge, PrechargeCheckCloseSecond, PrechargeCheckErrorFlags,
        PrechargeOpenPrecharge, PrechargeCheckOpenPrecharge
<1>4. CASE Normal
  BY <1>4 DEF Normal, NormalEntry, NormalCheckErrorFlags, NormalCheckRequests,
        NormalCloseNextString, NormalCloseSecond
<1>5. CASE Wait \/ SetInitializationRequest \/ FatalErrorChanges \/ UNCHANGED vars
  BY <1>5 DEF Wait, SetInitializationRequest, FatalErrorChanges, vars, contVars
<1>. QED  BY <1>1, <1>2, <1>3, <1>4, <1>5 DEF Next, BMS_Trigger

\* A connected path is broken as the break current allows, or in the alert mode.
THEOREM BreakCurrent == Spec => BreakCurrentRespected
<1>. DEFINE A == \A s \in Strings : BreaksPath(s) =>
                   \/ At("OPEN_CONTACTORS", "OPEN_FIRST") /\ s = stringNumber
                        /\ (s \notin overBreak' \/ alert')
                   \/ At("OPEN_CONTACTORS", "SUPPLY_VOLTAGE_30C_LOSS")
<1>1. IInv /\ [Next]_vars => [A]_vars
  BY BreakStep
<1>. QED  BY <1>1, Invariance, PTL DEF Spec, BreakCurrentRespected

-----------------------------------------------------------------------------
\* The power path.

Limited == {s \in WithPrecharge : {<<s, "MINUS">>, <<s, "PRECHARGE">>} \subseteq currentSet}
Full == {s \in Strings : Path(s) \subseteq currentSet}

\* A step of the power path, or none.
PowerStep == Power!Next \/ UNCHANGED <<Mode, Limited, Full>>

\* Opening contactors only takes connections away.
LEMMA OpeningReleases ==
    ASSUME currentSet' \subseteq currentSet
    PROVE  Limited' \subseteq Limited /\ Full' \subseteq Full
BY DEF Limited, Full

\* With no contactor set there is no connection.
LEMMA NothingConnected ==
    ASSUME currentSet = {}
    PROVE  Limited = {} /\ Full = {}
BY DEF Limited, Full, Path

\* Steps that touch no contactor and stay in their mode.
LEMMA SameConnections ==
    ASSUME currentSet' = currentSet
    PROVE  Limited' = Limited /\ Full' = Full
BY DEF Limited, Full

\* Leaving for OPEN_CONTACTORS without touching a contactor.
LEMMA Leaves ==
    ASSUME currentSet' = currentSet, state' = "OPEN_CONTACTORS"
    PROVE  PowerStep
<1>1. Mode' = "disconnecting"
  BY DEF Mode, SafeStates
<1>. QED  BY <1>1, SameConnections DEF PowerStep, Power!Next, Power!Disconnect, Limited, Full

\* Steps within the safe states, and those that leave them.
LEMMA SafePower ==
    ASSUME TypeOK, ContactorsFollowSteps, StartUp \/ Standby \/ Error
    PROVE  PowerStep
<1>. USE DEF Step, CheckErrorFlags, OpenThen, Goto, At, OnlyFsm
<1>1. /\ currentSet' = currentSet /\ state \in SafeStates
      /\ state' \in SafeStates \cup {"OPEN_CONTACTORS", "PRECHARGE"}
  BY DEF StartUp, Standby, Error, SafeStates, Uninitialized, Initialization, Initialized, IdleEntry,
        IdleCheckErrorFlags, IdleCheckRequests, StandbyEntry, StandbyCheckErrorFlags,
        StandbyInterlockChecked, StandbyCheckRequests, ErrorEntry, ErrorCheckErrorFlags,
        ErrorCheckRequests
<1>2. CASE state' = "OPEN_CONTACTORS"
  BY <1>1, <1>2, Leaves
<1>3. CASE state' = "PRECHARGE"
  <2>1. Mode = "disconnected" /\ Mode' = "connecting"
    BY <1>1, <1>3 DEF Mode, SafeStates
  <2>. QED  BY <1>1, <2>1, SameConnections DEF PowerStep, Power!Next, Power!Connect, Limited, Full
<1>4. CASE state' \in SafeStates
  <2>1. Mode' = Mode
    BY <1>1, <1>4 DEF Mode, SafeStates
  <2>. QED  BY <1>1, <2>1, SameConnections DEF PowerStep
<1>. QED  BY <1>1, <1>2, <1>3, <1>4

\* Opening releases the strings; it ends with no contactor set.
LEMMA OpenPower ==
    ASSUME TypeOK, ContactorsFollowSteps, OpenContactors
    PROVE  PowerStep
<1>. USE DEF Step, CheckErrorFlags, OpenThen, Goto, At, OnlyFsm
<1>1. CASE OpenStringsExit
  <2>1. currentSet = {} /\ currentSet' = currentSet
    BY <1>1 DEF OpenStringsExit, ContactorsFollowSteps, OpenSteps
  <2>2. Mode = "disconnecting" /\ Mode' = "disconnected"
    BY <1>1 DEF OpenStringsExit, Mode, SafeStates
  <2>. QED  BY <2>1, <2>2, NothingConnected, SameConnections
              DEF PowerStep, Power!Next, Power!Disconnected, Limited, Full
<1>2. CASE ~OpenStringsExit
  <2>1. state = "OPEN_CONTACTORS" /\ state' = "OPEN_CONTACTORS"
    BY <1>2 DEF OpenContactors, OpenEntry, OpenAllPrecharge, OpenFirst, WaitForFuse,
          ForceOpenFirst, OpenFirstContactor, OpenSecond, StringOpened, StringNotOpened,
          HandleLost30C
  <2>2. currentSet' \subseteq currentSet
    BY <1>2 DEF OpenContactors, OpenEntry, OpenAllPrecharge, OpenFirst, WaitForFuse,
          ForceOpenFirst, OpenFirstContactor, OpenSecond, StringOpened, StringNotOpened,
          HandleLost30C, CONT_OpenContactor, CONT_OpenAllPrechargeContactors,
          CONT_OpenAllContactors
  <2>3. Mode = "disconnecting" /\ Mode' = "disconnecting"
    BY <2>1 DEF Mode, SafeStates
  <2>. QED  BY <2>2, <2>3, OpeningReleases DEF PowerStep, Power!Next, Power!Release, Limited, Full
<1>. QED  BY <1>1, <1>2

\* Precharging: limited first, bypassed by the same string, then not limited.
LEMMA PrechargePower ==
    ASSUME TypeOK, ContactorsFollowSteps, Precharge
    PROVE  PowerStep
<1>. USE DEF Step, CheckErrorFlags, OpenThen, Goto, At, OnlyFsm, StringsQuiet, stringVars
<1>0. state = "PRECHARGE" /\ PrechargeSteps /\ Mode = "connecting"
  <2>1. state = "PRECHARGE"
    BY DEF Precharge, PrechargeEntry, PrechargeClosePrecharge, PrechargeCheckProcess,
          PrechargeCheckCloseSecond, PrechargeCheckErrorFlags, PrechargeOpenPrecharge,
          PrechargeCheckOpenPrecharge
  <2>. QED  BY <2>1 DEF ContactorsFollowSteps, Mode, SafeStates
<1>1. WithPrecharge \subseteq Strings /\ firstString \in Strings
  BY ContactorAssumption DEF TypeOK
<1>2. state' = "PRECHARGE" => Mode' = "connecting"
  BY DEF Mode, SafeStates
<1>3. state' = "OPEN_CONTACTORS" => Mode' = "disconnecting"
  BY DEF Mode, SafeStates
<1>4. ASSUME currentSet' = currentSet, state' \in {"PRECHARGE", "OPEN_CONTACTORS"}
      PROVE  PowerStep
  BY <1>0, <1>2, <1>4, Leaves, SameConnections DEF PowerStep
<1>5. ASSUME CONT_OpenContactor(firstString, "PRECHARGE"), substate # "ENTRY",
             state' \in {"PRECHARGE", "OPEN_CONTACTORS"}
      PROVE  PowerStep
  <2>1. Limited' = {} /\ Limited' \subseteq Limited
    BY <1>0, <1>1, <1>5 DEF PrechargeSteps, CONT_OpenContactor, Limited, Path, Precharge1
  <2>2. Full' = Full
    BY <1>5 DEF CONT_OpenContactor, Full, Path
  <2>3. CASE state' = "PRECHARGE"
    BY <1>0, <1>2, <2>1, <2>2, <2>3 DEF PowerStep, Power!Next, Power!EndPrecharge, Limited, Full
  <2>4. CASE state' = "OPEN_CONTACTORS"
    BY <1>3, <2>1, <2>2, <2>4 DEF PowerStep, Power!Next, Power!Disconnect, Limited, Full
  <2>. QED  BY <1>5, <2>3, <2>4
<1>6. CASE PrechargeEntry
  <2>1. currentSet = {}
    BY <1>0, <1>6 DEF PrechargeEntry, PrechargeSteps
  <2>2. CASE currentSet' = currentSet
    BY <1>4, <1>6, <2>2 DEF PrechargeEntry
  <2>3. CASE currentSet' # currentSet
    <3>1. PICK s \in WithPrecharge : currentSet' = {<<s, "MINUS">>}
      BY <1>6, <2>1, <2>3 DEF PrechargeEntry, CONT_CloseContactor
    <3>2. Limited' = {} /\ Full' = {}
      BY <3>1 DEF Limited, Full, Path
    <3>3. state' = "PRECHARGE"
      BY <1>6, <2>3 DEF PrechargeEntry
    <3>. QED  BY <1>0, <1>2, <2>1, <3>2, <3>3, NothingConnected DEF PowerStep
  <2>. QED  BY <2>2, <2>3
<1>7. CASE PrechargeClosePrecharge
  <2>1. currentSet = {<<firstString, "MINUS">>} /\ firstString \in WithPrecharge
    BY <1>0, <1>7 DEF PrechargeClosePrecharge, PrechargeSteps
  <2>2. Limited = {} /\ Full = {}
    BY <2>1 DEF Limited, Full, Path
  <2>3. CASE CONT_CloseContactor(firstString, "PRECHARGE")
    <3>1. currentSet' = {<<firstString, "MINUS">>, <<firstString, "PRECHARGE">>}
      BY <2>1, <2>3 DEF CONT_CloseContactor
    <3>2. Limited' = {firstString} /\ Full' = {}
      BY <2>1, <3>1 DEF Limited, Full, Path
    <3>3. state' = "PRECHARGE"
      <4>1. <<firstString, "PRECHARGE">> \in currentSet'
              /\ <<firstString, "PRECHARGE">> \notin currentSet
        BY <2>1, <3>1
      <4>. QED  BY <1>7, <4>1 DEF PrechargeClosePrecharge
    <3>. QED  BY <1>0, <1>2, <2>1, <2>2, <3>2, <3>3
                DEF PowerStep, Power!Next, Power!Limit, Limited, Full
  <2>4. CASE ~CONT_CloseContactor(firstString, "PRECHARGE")
    <3>1. currentSet' = currentSet /\ state' \in {"PRECHARGE", "OPEN_CONTACTORS"}
      BY <1>7, <2>1, <2>4 DEF PrechargeClosePrecharge, CONT_CloseContactor
    <3>. QED  BY <1>4, <3>1
  <2>. QED  BY <2>3, <2>4
<1>8. CASE PrechargeCheckProcess
  <2>1. currentSet = {<<firstString, "MINUS">>, <<firstString, "PRECHARGE">>}
          /\ firstString \in WithPrecharge
    BY <1>0, <1>8 DEF PrechargeCheckProcess, PrechargeSteps, Precharge1
  <2>2. Limited = {firstString} /\ Full = {}
    BY <2>1 DEF Limited, Full, Path
  <2>3. CASE CONT_CloseContactor(firstString, "PLUS")
    <3>1. currentSet' = currentSet \cup {<<firstString, "PLUS">>}
      BY <2>3 DEF CONT_CloseContactor
    <3>2. Limited' = {firstString} /\ Full' = {firstString}
      BY <1>1, <2>1, <3>1 DEF Limited, Full, Path
    <3>3. state' = "PRECHARGE"
      <4>1. <<firstString, "PLUS">> \in currentSet' /\ <<firstString, "PLUS">> \notin currentSet
        BY <2>1, <3>1
      <4>. QED  BY <1>8, <4>1 DEF PrechargeCheckProcess, RetryPrecharge, CONT_OpenContactor
    <3>. QED  BY <1>0, <1>2, <2>1, <2>2, <3>2, <3>3
                DEF PowerStep, Power!Next, Power!Bypass, Limited, Full
  <2>4. CASE ~CONT_CloseContactor(firstString, "PLUS")
    <3>1. state' \in {"PRECHARGE", "OPEN_CONTACTORS"}
            /\ (currentSet' = currentSet \/ CONT_OpenContactor(firstString, "PRECHARGE"))
            /\ substate # "ENTRY"
      BY <1>8, <2>4 DEF PrechargeCheckProcess, RetryPrecharge
    <3>. QED  BY <1>4, <1>5, <3>1
  <2>. QED  BY <2>3, <2>4
<1>9. CASE PrechargeCheckCloseSecond
  <2>1. Path(firstString) \subseteq currentSet
    BY <1>0, <1>9 DEF PrechargeCheckCloseSecond, PrechargeSteps
  <2>2. currentSet' = currentSet /\ state' \in {"PRECHARGE", "OPEN_CONTACTORS"}
    BY <1>9, <2>1 DEF PrechargeCheckCloseSecond, CONT_CloseContactor, Path
  <2>. QED  BY <1>4, <2>2
<1>10. CASE PrechargeCheckErrorFlags
  BY <1>4, <1>10 DEF PrechargeCheckErrorFlags
<1>11. CASE PrechargeOpenPrecharge
  BY <1>5, <1>11, <1>0 DEF PrechargeOpenPrecharge
<1>12. CASE PrechargeCheckOpenPrecharge
  <2>1. Path(firstString) \subseteq currentSet /\ currentSet \subseteq Path(firstString)
    BY <1>0, <1>12 DEF PrechargeCheckOpenPrecharge, PrechargeSteps
  <2>2. Limited = {} /\ Full # {}
    BY <1>1, <2>1 DEF Limited, Full, Path
  <2>3. currentSet' = currentSet
    BY <1>12, <2>1 DEF PrechargeCheckOpenPrecharge, CONT_OpenContactor, Path
  <2>4. CASE state' = "NORMAL"
    <3>1. Mode' = "connected"
      BY <2>4 DEF Mode, SafeStates
    <3>. QED  BY <1>0, <2>2, <2>3, <3>1, SameConnections
                DEF PowerStep, Power!Next, Power!Connected, Limited, Full
  <2>5. CASE state' # "NORMAL"
    BY <1>4, <1>12, <2>3, <2>5 DEF PrechargeCheckOpenPrecharge
  <2>. QED  BY <2>4, <2>5
<1>. QED  BY <1>6, <1>7, <1>8, <1>9, <1>10, <1>11, <1>12 DEF Precharge

\* In operation one string joins at a time.
LEMMA NormalPower ==
    ASSUME TypeOK, ContactorsFollowSteps, Normal
    PROVE  PowerStep
<1>. USE DEF Step, CheckErrorFlags, OpenThen, Goto, At, OnlyFsm, StringsQuiet, stringVars
<1>0. state = "NORMAL" /\ NormalSteps /\ Mode = "connected"
  <2>1. state = "NORMAL"
    BY DEF Normal, NormalEntry, NormalCheckErrorFlags, NormalCheckRequests,
          NormalCloseNextString, NormalCloseSecond
  <2>. QED  BY <2>1 DEF ContactorsFollowSteps, Mode, SafeStates
<1>1. state' \in {"NORMAL", "OPEN_CONTACTORS"}
  BY DEF Normal, NormalEntry, NormalCheckErrorFlags, NormalCheckRequests,
        NormalCloseNextString, NormalCloseSecond
<1>2. state' = "NORMAL" => Mode' = "connected"
  BY DEF Mode, SafeStates
<1>3. CASE currentSet' = currentSet
  BY <1>0, <1>1, <1>2, <1>3, Leaves, SameConnections DEF PowerStep
<1>4. CASE currentSet' # currentSet
  <2>1. PICK s \in Strings, type \in {"PLUS", "MINUS"} :
          state' = "NORMAL" /\ currentSet' = currentSet \cup {<<s, type>>}
    <3>1. NormalCloseNextString \/ NormalCloseSecond
      BY <1>4 DEF Normal, NormalEntry, NormalCheckErrorFlags, NormalCheckRequests
    <3>2. CASE NormalCloseNextString
      BY <1>4, <3>2 DEF NormalCloseNextString, CONT_CloseContactor
    <3>3. CASE NormalCloseSecond
      <4>1. nextString \in Strings
        BY <1>0, <3>3 DEF NormalCloseSecond, NormalSteps, TypeOK, ContTypeOK, Contactors
      <4>. QED  BY <1>4, <3>3, <4>1 DEF NormalCloseSecond, CONT_CloseContactor
    <3>. QED  BY <3>1, <3>2, <3>3
  <2>2. Limited' = {} /\ Limited = {}
    BY <1>0, <2>1 DEF NormalSteps, Limited
  <2>3. Full' = Full \/ Full' = Full \cup {s}
    BY <2>1 DEF Full, Path
  <2>. QED  BY <1>0, <1>2, <2>1, <2>2, <2>3 DEF PowerStep, Power!Next, Power!Join, Limited, Full
<1>. QED  BY <1>3, <1>4

\* Every step of the state machine is a step of the power path, or none.
LEMMA NextPower ==
    ASSUME IInv, [Next]_vars
    PROVE  PowerStep
<1>. USE DEF IInv
<1>1. CASE StartUp \/ Standby \/ Error
  BY <1>1, SafePower
<1>2. CASE OpenContactors
  BY <1>2, OpenPower
<1>3. CASE Precharge
  BY <1>3, PrechargePower
<1>4. CASE Normal
  BY <1>4, NormalPower
<1>5. CASE Wait \/ SetInitializationRequest \/ FatalErrorChanges \/ UNCHANGED vars
  <2>1. UNCHANGED <<state, currentSet>>
    BY <1>5 DEF Wait, SetInitializationRequest, FatalErrorChanges, vars, fsmVars, contVars
  <2>. QED  BY <2>1, SameConnections DEF PowerStep, Mode
<1>. QED  BY <1>1, <1>2, <1>3, <1>4, <1>5 DEF Next, BMS_Trigger

\* The state machine implements the power path: the first connection goes
\* through the precharge resistor and is bypassed by the same string, further
\* strings join a connected pack only, and the pack counts as disconnected
\* only when no string has a connection left.
THEOREM PowerPathImplemented == Spec => ImplementsPowerPath
<1>1. Init => Power!Init
  BY NothingConnected DEF Init, ContInit, Power!Init, Mode, SafeStates, Limited, Full
<1>2. IInv /\ [Next]_vars => [Power!Next]_(Power!vars)
  BY NextPower DEF PowerStep, Power!vars, Limited, Full
<1>. QED  BY <1>1, <1>2, Invariance, PTL DEF Spec, ImplementsPowerPath, Power!Spec
=============================================================================
