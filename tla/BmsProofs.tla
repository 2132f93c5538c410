------------------------------ MODULE BmsProofs ------------------------------
(***************************************************************************)
(* Proofs about the BMS state machine: what module MCBms checks on small   *)
(* packs, for every number of strings and every configuration.             *)
(***************************************************************************)
EXTENDS Bms, WellFoundedInduction, TLAPS

-----------------------------------------------------------------------------
\* Helpers of the countdowns.

\* The minimum of a nonempty set of naturals is its least element.
LEMMA MinProperties ==
    ASSUME NEW S \in SUBSET Nat, S # {}
    PROVE  Min(S) \in S /\ \A x \in S : Min(S) <= x
<1>. DEFINE R == {p \in Nat \X Nat : p[1] < p[2]}
<1>1. IsWellFoundedOn(R, Nat)
  BY NatLessThanWellFounded, Zenon DEF OpToRel
<1>2. \E n \in S : \A x \in S : <<x, n>> \notin R
  <2>. HIDE DEF R
  <2>. QED  BY <1>1, WFMin
<1>3. \A m, n \in S : <<m, n>> \notin R => n <= m
  OBVIOUS
<1>4. \E n \in S : \A x \in S : n <= x
  <2>. HIDE DEF R
  <2>. QED  BY <1>2, <1>3
<1>. QED  BY <1>4 DEF Min

\* A countdown stays a natural and never goes up.
LEMMA DecrementedType ==
    ASSUME NEW n \in Nat
    PROVE  Decremented(n) \in Nat /\ Decremented(n) <= n
BY DEF Decremented

\* One call counts every timeout down within its type.
LEMMA TickedType ==
    ASSUME TypeOK
    PROVE  /\ Ticked \in [Timeouts -> Nat]
           /\ \A k \in Timeouts, n \in Nat : [Ticked EXCEPT ![k] = n] \in [Timeouts -> Nat]
<1>1. Ticked \in [Timeouts -> Nat]
  BY DecrementedType DEF Ticked, TypeOK
<1>. QED  BY <1>1

\* The delays of the active errors are bounded, and so is their minimum.
LEMMA MinimumDelayType ==
    ASSUME TypeOK
    PROVE  MinimumDelay \in 0 .. NoActiveDelay /\ MinimumDelay <= delay.minimum
             /\ \A d \in ActiveDelays : MinimumDelay <= d
<1>. DEFINE T == {delay.minimum} \cup ActiveDelays
<1>1. delay.minimum \in 0 .. NoActiveDelay
  BY DEF TypeOK
<1>2. ActiveDelays \subseteq 0 .. NoActiveDelay
  BY BmsAssumption DEF ActiveDelays, TypeOK
<1>3. NoActiveDelay \in Nat
  BY BmsAssumption
<1>4. T \subseteq 0 .. NoActiveDelay
  BY <1>1, <1>2
<1>5. T \in SUBSET Nat /\ T # {}
  BY <1>3, <1>4
<1>6. Min(T) \in T /\ \A x \in T : Min(T) <= x
  <2>. HIDE DEF T
  <2>. QED  BY <1>5, MinProperties
<1>. QED  BY <1>1, <1>4, <1>6 DEF MinimumDelay

\* The countdowns to the error state.
Delays == [latched : BOOLEAN, remaining : 0 .. NoActiveDelay, minimum : 0 .. NoActiveDelay]

\* Whatever a call makes of the countdown to the error state has its type.
LEMMA DelayType ==
    ASSUME TypeOK
    PROVE  Passed \in Delays /\ Evaluated \in Delays /\ NoDelay \in Delays
<1>1. delay \in Delays /\ NoActiveDelay \in Nat
  BY BmsAssumption DEF TypeOK, Delays
<1>2. Decremented(delay.remaining) \in 0 .. NoActiveDelay
  BY <1>1 DEF Delays, Decremented
<1>3. Passed \in Delays
  BY <1>1, <1>2 DEF Passed, Delays
<1>4. MinimumDelay \in 0 .. NoActiveDelay
  BY MinimumDelayType
<1>5. Least(Passed.remaining, MinimumDelay) \in 0 .. NoActiveDelay
  BY <1>3, <1>4 DEF Least, Delays
<1>6. Evaluated \in Delays
  BY <1>1, <1>3, <1>4, <1>5 DEF Evaluated, Delays
<1>. QED  BY <1>1, <1>3, <1>6 DEF NoDelay, Delays

\* The values of the timer.
Timers == {0, ShortTime} \cup UNION {0 .. w : w \in Waits}

\* Every wait the state machine asks for is a value of its timer.
LEMMA TimerType ==
    /\ Timers \in SUBSET Nat /\ {0, ShortTime} \subseteq Timers /\ Waits \subseteq Timers
           /\ \A t \in Timers : t > 1 => t - 1 \in Timers
<1>1. \A w \in Waits : w \in Nat /\ w \in 0 .. w
  BY BmsAssumption
<1>2. Timers \in SUBSET Nat /\ {0, ShortTime} \subseteq Timers
  BY <1>1 DEF Timers, ShortTime
<1>3. Waits \subseteq Timers
  BY <1>1 DEF Timers
<1>4. ASSUME NEW t \in Timers, t > 1  PROVE t - 1 \in Timers
  <2>1. PICK w \in Waits : t \in 0 .. w
    BY <1>4 DEF Timers, ShortTime
  <2>2. t - 1 \in 0 .. w
    BY <1>1, <1>4, <2>1
  <2>. QED  BY <2>2 DEF Timers
<1>. QED  BY <1>2, <1>3, <1>4

\* What every call reads before it looks at the state.
ReadType ==
    /\ overBreak \subseteq Strings /\ prechargeTime \in 0 .. PrechargeDuration + 1
    /\ feedback \in SUBSET Contactors /\ fbEntry \in [Contactors -> Entries(FbThreshold)]

\* An event leaves the diagnosis entry of a contactor within its type.
LEMMA EntryType ==
    ASSUME NEW e \in Entries(FbThreshold)
    PROVE  AfterOk(e) \in Entries(FbThreshold)
             /\ AfterNotOk(e, FbThreshold) \in Entries(FbThreshold)
             /\ Cleared \in Entries(FbThreshold)
BY ContactorAssumption DEF Entries, AfterOk, AfterNotOk, Cleared

\* The checks every call makes leave what they read within its type.
LEMMA CyclicType ==
    ASSUME TypeOK, CyclicChecks, PrechargeClock
    PROVE  ReadType'
<1>1. overBreak' \subseteq Strings
  BY DEF CyclicChecks, ReadPackValues, TypeOK
<1>2. prechargeTime' \in 0 .. PrechargeDuration + 1
  BY BmsAssumption DEF PrechargeClock, TypeOK, Least
<1>3. CASE CONT_CheckFeedback
  <2>1. feedback' \in SUBSET Contactors
    BY <1>3 DEF CONT_CheckFeedback, Readings
  <2>2. fbEntry' \in [Contactors -> Entries(FbThreshold)]
    BY <1>3, EntryType DEF CONT_CheckFeedback, TypeOK, ContTypeOK
  <2>. QED  BY <1>1, <1>2, <2>1, <2>2 DEF ReadType
<1>4. CASE UNCHANGED <<overBreak, feedback, fbEntry>>
  BY <1>2, <1>4 DEF ReadType, TypeOK, ContTypeOK
<1>. QED  BY <1>3, <1>4 DEF CyclicChecks

-----------------------------------------------------------------------------
\* Type correctness, one lemma per state.

\* Every call of BMS_Trigger leaves the inputs, the countdowns and the timer in
\* their types, whatever substate it runs.
LEMMA TriggerType ==
    ASSUME TypeOK, BMS_Trigger
    PROVE  ReadType' /\ timeout' \in [Timeouts -> Nat] /\ delay' \in Delays /\ timer' \in Timers
<1>. USE DEF Step, PassDelay, EvaluateDelay, CheckErrorFlags, OpenThen, Goto
<1>1. CyclicChecks /\ PrechargeClock
  BY DEF BMS_Trigger, Wait, StartUp, OpenContactors, Standby, Precharge, Normal, Error,
        Uninitialized, Initialization, Initialized, IdleEntry, IdleCheckErrorFlags,
        IdleCheckRequests, OpenEntry, OpenAllPrecharge, OpenFirst, WaitForFuse, ForceOpenFirst,
        OpenSecond, StringOpened, StringNotOpened, HandleLost30C, OpenStringsExit,
        StandbyEntry, StandbyCheckErrorFlags, StandbyInterlockChecked, StandbyCheckRequests,
        PrechargeEntry, PrechargeClosePrecharge, PrechargeCheckProcess,
        PrechargeCheckCloseSecond, PrechargeCheckErrorFlags, PrechargeOpenPrecharge,
        PrechargeCheckOpenPrecharge, NormalEntry, NormalCheckErrorFlags, NormalCheckRequests,
        NormalCloseNextString, NormalCloseSecond, ErrorEntry, ErrorCheckErrorFlags,
        ErrorCheckRequests
<1>2. ReadType'
  BY <1>1, CyclicType
<1>3. timeout' = Ticked \/ \E k \in Timeouts, n \in Nat : timeout' = [Ticked EXCEPT ![k] = n]
  BY BmsAssumption DEF BMS_Trigger, Wait, StartUp, OpenContactors, Standby, Precharge, Normal,
        Error, Uninitialized, Initialization, Initialized, IdleEntry, IdleCheckErrorFlags,
        IdleCheckRequests, OpenEntry, OpenAllPrecharge, OpenFirst, WaitForFuse, ForceOpenFirst,
        OpenSecond, StringOpened, StringNotOpened, HandleLost30C, OpenStringsExit,
        StandbyEntry, StandbyCheckErrorFlags, StandbyInterlockChecked, StandbyCheckRequests,
        PrechargeEntry, PrechargeClosePrecharge, PrechargeCheckProcess,
        PrechargeCheckCloseSecond, PrechargeCheckErrorFlags, PrechargeOpenPrecharge,
        PrechargeCheckOpenPrecharge, NormalEntry, NormalCheckErrorFlags, NormalCheckRequests,
        NormalCloseNextString, NormalCloseSecond, ErrorEntry, ErrorCheckErrorFlags,
        ErrorCheckRequests, RetryPrecharge, Timeouts
<1>4. delay' \in {Passed, Evaluated, NoDelay}
  BY DEF BMS_Trigger, Wait, StartUp, OpenContactors, Standby, Precharge, Normal, Error,
        Uninitialized, Initialization, Initialized, IdleEntry, IdleCheckErrorFlags,
        IdleCheckRequests, OpenEntry, OpenAllPrecharge, OpenFirst, WaitForFuse, ForceOpenFirst,
        OpenSecond, StringOpened, StringNotOpened, HandleLost30C, OpenStringsExit,
        StandbyEntry, StandbyCheckErrorFlags, StandbyInterlockChecked, StandbyCheckRequests,
        PrechargeEntry, PrechargeClosePrecharge, PrechargeCheckProcess,
        PrechargeCheckCloseSecond, PrechargeCheckErrorFlags, PrechargeOpenPrecharge,
        PrechargeCheckOpenPrecharge, NormalEntry, NormalCheckErrorFlags, NormalCheckRequests,
        NormalCloseNextString, NormalCloseSecond, ErrorEntry, ErrorCheckErrorFlags,
        ErrorCheckRequests, RetryPrecharge
<1>5. timer' \in {0, ShortTime} \cup Waits \/ (timer > 1 /\ timer' = timer - 1)
  BY DEF BMS_Trigger, Wait, StartUp, OpenContactors, Standby, Precharge, Normal, Error,
        Uninitialized, Initialization, Initialized, IdleEntry, IdleCheckErrorFlags,
        IdleCheckRequests, OpenEntry, OpenAllPrecharge, OpenFirst, WaitForFuse, ForceOpenFirst,
        OpenSecond, StringOpened, StringNotOpened, HandleLost30C, OpenStringsExit,
        StandbyEntry, StandbyCheckErrorFlags, StandbyInterlockChecked, StandbyCheckRequests,
        PrechargeEntry, PrechargeClosePrecharge, PrechargeCheckProcess,
        PrechargeCheckCloseSecond, PrechargeCheckErrorFlags, PrechargeOpenPrecharge,
        PrechargeCheckOpenPrecharge, NormalEntry, NormalCheckErrorFlags, NormalCheckRequests,
        NormalCloseNextString, NormalCloseSecond, ErrorEntry, ErrorCheckErrorFlags,
        ErrorCheckRequests, RetryPrecharge, OpenFirstContactor, Waits
<1>6. timer \in Timers
  BY DEF TypeOK, Timers
<1>. QED  BY <1>2, <1>3, <1>4, <1>5, <1>6, TickedType, DelayType, TimerType

\* Type correctness: the steps of start-up.
LEMMA StartUpType ==
    ASSUME TypeOK, ContactorsFollowSteps, StartUp
    PROVE  TypeOK'
<1>. USE ContactorAssumption, BmsAssumption DEF Step, CheckErrorFlags, OpenThen, Goto, At,
        OnlyFsm, OutQuiet, StringsQuiet, RestQuiet, TypeOK, ContTypeOK, ReadType, Delays,
        Timers, States, SubstatesOf, stringVars, closedVars, outVars, contVars
<1>1. ReadType' /\ timeout' \in [Timeouts -> Nat] /\ delay' \in Delays /\ timer' \in Timers
  BY TriggerType DEF BMS_Trigger
<1>2. CASE Uninitialized
  BY <1>1, <1>2, SMTT(20) DEF Uninitialized
<1>3. CASE Initialization
  <2>1. alert' \in BOOLEAN /\ fatal' \subseteq FatalIds /\ stateRequest' = stateRequest
    BY <1>3 DEF Initialization
  <2>2. state' = "INITIALIZED" /\ substate' = "ENTRY" /\ nextState' = nextState
    BY <1>3 DEF Initialization
  <2>3. UNCHANGED <<canState, balancing, stringVars, closedVars, tries, aboveBreak, currentSet>>
    BY <1>3 DEF Initialization
  <2>. QED  BY <1>1, <2>1, <2>2, <2>3
<1>4. CASE Initialized
  BY <1>1, <1>4, SMTT(20) DEF Initialized
<1>5. CASE IdleEntry
  BY <1>1, <1>5, SMTT(20) DEF IdleEntry
<1>6. CASE IdleCheckErrorFlags
  BY <1>1, <1>6, SMTT(20) DEF IdleCheckErrorFlags
<1>7. CASE IdleCheckRequests
  BY <1>1, <1>7, SMTT(20) DEF IdleCheckRequests
<1>. HIDE DEF TypeOK
<1>. QED  BY <1>2, <1>3, <1>4, <1>5, <1>6, <1>7 DEF StartUp

\* Type correctness: the steps of opening.
LEMMA OpenContactorsType ==
    ASSUME TypeOK, ContactorsFollowSteps, OpenContactors
    PROVE  TypeOK'
<1>. USE ContactorAssumption, BmsAssumption DEF Step, CheckErrorFlags, OpenThen, Goto, At,
        OnlyFsm, OutQuiet, StringsQuiet, RestQuiet, TypeOK, ContTypeOK, ReadType, Delays,
        Timers, States, SubstatesOf, stringVars, closedVars, outVars, contVars
<1>1. ReadType' /\ timeout' \in [Timeouts -> Nat] /\ delay' \in Delays /\ timer' \in Timers
  BY TriggerType DEF BMS_Trigger
<1>2. CASE OpenEntry
  BY <1>1, <1>2, SMTT(20) DEF OpenEntry
<1>3. CASE OpenAllPrecharge
  BY <1>1, <1>3, SMTT(20) DEF OpenAllPrecharge, CONT_OpenAllPrechargeContactors, Strings,
        Contactors
<1>4. CASE OpenFirst
  BY <1>1, <1>4, SMTT(20) DEF OpenFirst, OpenFirstContactor, CONT_OpenContactor, Strings,
        Contactors
<1>5. CASE WaitForFuse
  BY <1>1, <1>5, SMTT(20) DEF WaitForFuse, TimeAboveBreak, Least
<1>6. CASE ForceOpenFirst
  BY <1>1, <1>6, SMTT(20) DEF ForceOpenFirst, OpenFirstContactor, TimeAboveBreak,
        CONT_OpenContactor, Least, Strings, Contactors
<1>7. CASE OpenSecond
  BY <1>1, <1>7, SMTT(20) DEF OpenSecond, CONT_OpenContactor, Other, Strings, Contactors
<1>8. CASE StringOpened
  <2>1. nrClosed' \in 0 .. CountModulus - 1
    BY <1>8 DEF StringOpened, Decremented
  <2>2. stringNumber' \in Strings
    BY <1>8 DEF StringOpened, Strings, NoString
  <2>. QED  BY <1>1, <1>8, <2>1, <2>2 DEF StringOpened
<1>9. CASE StringNotOpened
  BY <1>1, <1>9, SMTT(20) DEF StringNotOpened, CONT_OpenContactor, Strings, Contactors
<1>10. CASE HandleLost30C
  BY <1>1, <1>10, SMTT(20) DEF HandleLost30C, CONT_OpenAllContactors, Strings, Contactors
<1>11. CASE OpenStringsExit
  BY <1>1, <1>11, SMTT(20) DEF OpenStringsExit
<1>. HIDE DEF TypeOK
<1>. QED  BY <1>2, <1>3, <1>4, <1>5, <1>6, <1>7, <1>8, <1>9, <1>10, <1>11 DEF OpenContactors

\* Type correctness: the steps of STANDBY.
LEMMA StandbyType ==
    ASSUME TypeOK, ContactorsFollowSteps, Standby
    PROVE  TypeOK'
<1>. USE ContactorAssumption, BmsAssumption DEF Step, CheckErrorFlags, OpenThen, Goto, At,
        OnlyFsm, OutQuiet, StringsQuiet, RestQuiet, TypeOK, ContTypeOK, ReadType, Delays,
        Timers, States, SubstatesOf, stringVars, closedVars, outVars, contVars
<1>1. ReadType' /\ timeout' \in [Timeouts -> Nat] /\ delay' \in Delays /\ timer' \in Timers
  BY TriggerType DEF BMS_Trigger
<1>2. CASE StandbyEntry
  BY <1>1, <1>2, SMTT(20) DEF StandbyEntry
<1>3. CASE StandbyCheckErrorFlags
  BY <1>1, <1>3, SMTT(20) DEF StandbyCheckErrorFlags
<1>4. CASE StandbyInterlockChecked
  BY <1>1, <1>4, SMTT(20) DEF StandbyInterlockChecked
<1>5. CASE StandbyCheckRequests
  BY <1>1, <1>5, SMTT(20) DEF StandbyCheckRequests
<1>. HIDE DEF TypeOK
<1>. QED  BY <1>2, <1>3, <1>4, <1>5 DEF Standby

\* Type correctness: the steps of precharging.
LEMMA PrechargeType ==
    ASSUME TypeOK, ContactorsFollowSteps, Precharge
    PROVE  TypeOK'
<1>. USE ContactorAssumption, BmsAssumption DEF Step, CheckErrorFlags, OpenThen, Goto, At,
        OnlyFsm, OutQuiet, StringsQuiet, RestQuiet, TypeOK, ContTypeOK, ReadType, Delays,
        Timers, States, SubstatesOf, stringVars, closedVars, outVars, contVars
<1>1. ReadType' /\ timeout' \in [Timeouts -> Nat] /\ delay' \in Delays /\ timer' \in Timers
  BY TriggerType DEF BMS_Trigger
<1>2. CASE PrechargeEntry
  BY <1>1, <1>2, SMTT(20) DEF PrechargeEntry, CONT_CloseContactor, NoString, Strings,
        Contactors
<1>3. CASE PrechargeClosePrecharge
  BY <1>1, <1>3, SMTT(20) DEF PrechargeClosePrecharge, CONT_CloseContactor, Strings,
        Contactors, ContactorsFollowSteps, PrechargeSteps
<1>4. CASE PrechargeCheckProcess
  BY <1>1, <1>4, SMTT(20) DEF PrechargeCheckProcess, RetryPrecharge, CONT_CloseContactor,
        CONT_OpenContactor, Strings, Contactors
<1>5. CASE PrechargeCheckCloseSecond
  BY <1>1, <1>5, SMTT(20) DEF PrechargeCheckCloseSecond, CONT_CloseContactor, Strings,
        Contactors
<1>6. CASE PrechargeCheckErrorFlags
  BY <1>1, <1>6, SMTT(20) DEF PrechargeCheckErrorFlags
<1>7. CASE PrechargeOpenPrecharge
  BY <1>1, <1>7, SMTT(20) DEF PrechargeOpenPrecharge, CONT_OpenContactor, Strings, Contactors
<1>8. CASE PrechargeCheckOpenPrecharge
  BY <1>1, <1>8, SMTT(20) DEF PrechargeCheckOpenPrecharge, CONT_OpenContactor, Strings,
        Contactors
<1>. HIDE DEF TypeOK
<1>. QED  BY <1>2, <1>3, <1>4, <1>5, <1>6, <1>7, <1>8 DEF Precharge

\* Type correctness: the steps of operation.
LEMMA NormalType ==
    ASSUME TypeOK, ContactorsFollowSteps, Normal
    PROVE  TypeOK'
<1>. USE ContactorAssumption, BmsAssumption DEF Step, CheckErrorFlags, OpenThen, Goto, At,
        OnlyFsm, OutQuiet, StringsQuiet, RestQuiet, TypeOK, ContTypeOK, ReadType, Delays,
        Timers, States, SubstatesOf, stringVars, closedVars, outVars, contVars
<1>1. ReadType' /\ timeout' \in [Timeouts -> Nat] /\ delay' \in Delays /\ timer' \in Timers
  BY TriggerType DEF BMS_Trigger
<1>2. CASE NormalEntry
  BY <1>1, <1>2, SMTT(20) DEF NormalEntry
<1>3. CASE NormalCheckErrorFlags
  BY <1>1, <1>3, SMTT(20) DEF NormalCheckErrorFlags
<1>4. CASE NormalCheckRequests
  BY <1>1, <1>4, SMTT(20) DEF NormalCheckRequests
<1>5. CASE NormalCloseNextString
  BY <1>1, <1>5, SMTT(20) DEF NormalCloseNextString, CONT_CloseContactor, NoString, Strings,
        Contactors
<1>6. CASE NormalCloseSecond
  BY <1>1, <1>6, SMTT(20) DEF NormalCloseSecond, CONT_CloseContactor, Strings, Contactors,
        ContactorsFollowSteps, NormalSteps
<1>. HIDE DEF TypeOK
<1>. QED  BY <1>2, <1>3, <1>4, <1>5, <1>6 DEF Normal

\* Type correctness: the steps of ERROR.
LEMMA ErrorType ==
    ASSUME TypeOK, ContactorsFollowSteps, Error
    PROVE  TypeOK'
<1>. USE ContactorAssumption, BmsAssumption DEF Step, CheckErrorFlags, OpenThen, Goto, At,
        OnlyFsm, OutQuiet, StringsQuiet, RestQuiet, TypeOK, ContTypeOK, ReadType, Delays,
        Timers, States, SubstatesOf, stringVars, closedVars, outVars, contVars
<1>1. ReadType' /\ timeout' \in [Timeouts -> Nat] /\ delay' \in Delays /\ timer' \in Timers
  BY TriggerType DEF BMS_Trigger
<1>2. CASE ErrorEntry
  BY <1>1, <1>2, SMTT(20) DEF ErrorEntry
<1>3. CASE ErrorCheckErrorFlags
  BY <1>1, <1>3, SMTT(20) DEF ErrorCheckErrorFlags
<1>4. CASE ErrorCheckRequests
  BY <1>1, <1>4, SMTT(20) DEF ErrorCheckRequests
<1>. HIDE DEF TypeOK
<1>. QED  BY <1>2, <1>3, <1>4 DEF Error

\* Contactors and steps agree: the steps of start-up.
LEMMA StartUpFollowed ==
    ASSUME TypeOK, ContactorsFollowSteps, StartUp
    PROVE  ContactorsFollowSteps'
<1>. USE DEF Step, CheckErrorFlags, OpenThen, Goto, At, OnlyFsm, StringsQuiet, stringVars,
        ContactorsFollowSteps, SafeStatesDisconnected, SafeStates, PrechargeSteps, NormalSteps,
        OpenSteps, Path, Precharge1, Other
<1>1. CASE Uninitialized
  BY <1>1 DEF Uninitialized
<1>2. CASE Initialization
  BY <1>2 DEF Initialization
<1>3. CASE Initialized
  BY <1>3 DEF Initialized
<1>4. CASE IdleEntry
  BY <1>4 DEF IdleEntry
<1>5. CASE IdleCheckErrorFlags
  BY <1>5 DEF IdleCheckErrorFlags
<1>6. CASE IdleCheckRequests
  BY <1>6 DEF IdleCheckRequests
<1>. HIDE DEF ContactorsFollowSteps
<1>. QED  BY <1>1, <1>2, <1>3, <1>4, <1>5, <1>6 DEF StartUp

\* Contactors and steps agree: the steps of opening.
LEMMA OpenContactorsFollowed ==
    ASSUME TypeOK, ContactorsFollowSteps, OpenContactors
    PROVE  ContactorsFollowSteps'
<1>. USE DEF Step, CheckErrorFlags, OpenThen, Goto, At, OnlyFsm, StringsQuiet, stringVars,
        ContactorsFollowSteps, SafeStatesDisconnected, SafeStates, PrechargeSteps, NormalSteps,
        OpenSteps, Path, Precharge1, Other
<1>1. CASE OpenEntry
  BY <1>1 DEF OpenEntry
<1>2. CASE OpenAllPrecharge
  BY <1>2 DEF OpenAllPrecharge, CONT_OpenAllPrechargeContactors, TypeOK, ContTypeOK, Strings,
        Contactors
<1>3. CASE OpenFirst
  BY <1>3 DEF OpenFirst, OpenFirstContactor, CONT_OpenContactor, TypeOK, ContTypeOK, Strings,
        Contactors
<1>4. CASE WaitForFuse
  BY <1>4 DEF WaitForFuse
<1>5. CASE ForceOpenFirst
  BY <1>5 DEF ForceOpenFirst, OpenFirstContactor, CONT_OpenContactor, TypeOK, ContTypeOK,
        Strings, Contactors
<1>6. CASE OpenSecond
  BY <1>6 DEF OpenSecond, CONT_OpenContactor, TypeOK, ContTypeOK, Strings, Contactors
<1>7. CASE StringOpened
  <2>1. \A c \in currentSet : c[1] \in Strings /\ c[1] < stringNumber /\ c[2] # "PRECHARGE"
    <3>. SUFFICES ASSUME NEW c \in currentSet
                  PROVE  c[1] \in Strings /\ c[1] < stringNumber /\ c[2] # "PRECHARGE"
      OBVIOUS
    <3>1. c \in Strings \X {"PLUS", "MINUS", "PRECHARGE"} /\ c = <<c[1], c[2]>>
      BY ContactorAssumption DEF TypeOK, ContTypeOK, Contactors
    <3>2. c[1] <= stringNumber /\ c[2] \in {toOpen, Other(toOpen)}
      BY <1>7, <3>1 DEF StringOpened
    <3>3. c[1] # stringNumber
      BY <1>7, <3>1, <3>2 DEF StringOpened
    <3>. QED  BY <1>7, <3>1, <3>2, <3>3 DEF StringOpened, Strings
  <2>2. stringNumber \in Strings
    BY <1>7 DEF StringOpened
  <2>3. CASE stringNumber > 0
    BY <1>7, <2>1, <2>2, <2>3, ContactorAssumption DEF StringOpened, Strings
  <2>4. CASE stringNumber = 0
    <3>1. currentSet = {}
      BY <2>1, <2>4, ContactorAssumption DEF Strings
    <3>. QED  BY <1>7, <2>4, <3>1 DEF StringOpened
  <2>. QED  BY <2>2, <2>3, <2>4, ContactorAssumption DEF Strings
<1>8. CASE StringNotOpened
  BY <1>8 DEF StringNotOpened, CONT_OpenContactor, TypeOK, ContTypeOK, Strings, Contactors
<1>9. CASE HandleLost30C
  BY <1>9 DEF HandleLost30C, CONT_OpenAllContactors, TypeOK, ContTypeOK, Strings, Contactors
<1>10. CASE OpenStringsExit
  BY <1>10 DEF OpenStringsExit
<1>. HIDE DEF ContactorsFollowSteps
<1>. QED  BY <1>1, <1>2, <1>3, <1>4, <1>5, <1>6, <1>7, <1>8, <1>9, <1>10 DEF OpenContactors

\* Contactors and steps agree: the steps of STANDBY.
LEMMA StandbyFollowed ==
    ASSUME TypeOK, ContactorsFollowSteps, Standby
    PROVE  ContactorsFollowSteps'
<1>. USE DEF Step, CheckErrorFlags, OpenThen, Goto, At, OnlyFsm, StringsQuiet, stringVars,
        ContactorsFollowSteps, SafeStatesDisconnected, SafeStates, PrechargeSteps, NormalSteps,
        OpenSteps, Path, Precharge1, Other
<1>1. CASE StandbyEntry
  BY <1>1 DEF StandbyEntry
<1>2. CASE StandbyCheckErrorFlags
  BY <1>2 DEF StandbyCheckErrorFlags
<1>3. CASE StandbyInterlockChecked
  BY <1>3 DEF StandbyInterlockChecked
<1>4. CASE StandbyCheckRequests
  BY <1>4 DEF StandbyCheckRequests
<1>. HIDE DEF ContactorsFollowSteps
<1>. QED  BY <1>1, <1>2, <1>3, <1>4 DEF Standby

\* Contactors and steps agree: the steps of precharging.
LEMMA PrechargeFollowed ==
    ASSUME TypeOK, ContactorsFollowSteps, Precharge
    PROVE  ContactorsFollowSteps'
<1>. USE DEF Step, CheckErrorFlags, OpenThen, Goto, At, OnlyFsm, StringsQuiet, stringVars,
        ContactorsFollowSteps, SafeStatesDisconnected, SafeStates, PrechargeSteps, NormalSteps,
        OpenSteps, Path, Precharge1, Other
<1>1. CASE PrechargeEntry
  BY <1>1 DEF PrechargeEntry, CONT_CloseContactor, TypeOK, ContTypeOK, Strings, Contactors
<1>2. CASE PrechargeClosePrecharge
  BY <1>2 DEF PrechargeClosePrecharge, CONT_CloseContactor, TypeOK, ContTypeOK, Strings,
        Contactors
<1>3. CASE PrechargeCheckProcess
  BY <1>3 DEF PrechargeCheckProcess, RetryPrecharge, CONT_CloseContactor, CONT_OpenContactor,
        TypeOK, ContTypeOK, Strings, Contactors
<1>4. CASE PrechargeCheckCloseSecond
  BY <1>4 DEF PrechargeCheckCloseSecond, CONT_CloseContactor, TypeOK, ContTypeOK, Strings,
        Contactors
<1>5. CASE PrechargeCheckErrorFlags
  BY <1>5 DEF PrechargeCheckErrorFlags
<1>6. CASE PrechargeOpenPrecharge
  BY <1>6 DEF PrechargeOpenPrecharge, CONT_OpenContactor, TypeOK, ContTypeOK, Strings,
        Contactors
<1>7. CASE PrechargeCheckOpenPrecharge
  BY <1>7 DEF PrechargeCheckOpenPrecharge, CONT_OpenContactor, TypeOK, ContTypeOK, Strings,
        Contactors
<1>. HIDE DEF ContactorsFollowSteps
<1>. QED  BY <1>1, <1>2, <1>3, <1>4, <1>5, <1>6, <1>7 DEF Precharge

\* Contactors and steps agree: the steps of operation.
LEMMA NormalFollowed ==
    ASSUME TypeOK, ContactorsFollowSteps, Normal
    PROVE  ContactorsFollowSteps'
<1>. USE DEF Step, CheckErrorFlags, OpenThen, Goto, At, OnlyFsm, StringsQuiet, stringVars,
        ContactorsFollowSteps, SafeStatesDisconnected, SafeStates, PrechargeSteps, NormalSteps,
        OpenSteps, Path, Precharge1, Other
<1>1. CASE NormalEntry
  BY <1>1 DEF NormalEntry
<1>2. CASE NormalCheckErrorFlags
  BY <1>2 DEF NormalCheckErrorFlags
<1>3. CASE NormalCheckRequests
  BY <1>3 DEF NormalCheckRequests
<1>4. CASE NormalCloseNextString
  BY <1>4 DEF NormalCloseNextString, CONT_CloseContactor, TypeOK, ContTypeOK, Strings,
        Contactors
<1>5. CASE NormalCloseSecond
  BY <1>5 DEF NormalCloseSecond, CONT_CloseContactor, TypeOK, ContTypeOK, Strings, Contactors
<1>. HIDE DEF ContactorsFollowSteps
<1>. QED  BY <1>1, <1>2, <1>3, <1>4, <1>5 DEF Normal

\* Contactors and steps agree: the steps of ERROR.
LEMMA ErrorFollowed ==
    ASSUME TypeOK, ContactorsFollowSteps, Error
    PROVE  ContactorsFollowSteps'
<1>. USE DEF Step, CheckErrorFlags, OpenThen, Goto, At, OnlyFsm, StringsQuiet, stringVars,
        ContactorsFollowSteps, SafeStatesDisconnected, SafeStates, PrechargeSteps, NormalSteps,
        OpenSteps, Path, Precharge1, Other
<1>1. CASE ErrorEntry
  BY <1>1 DEF ErrorEntry
<1>2. CASE ErrorCheckErrorFlags
  BY <1>2 DEF ErrorCheckErrorFlags
<1>3. CASE ErrorCheckRequests
  BY <1>3 DEF ErrorCheckRequests
<1>. HIDE DEF ContactorsFollowSteps
<1>. QED  BY <1>1, <1>2, <1>3 DEF Error

-----------------------------------------------------------------------------
\* The inductive invariant.  The types depend on what the state machine knows
\* of its contactors (the string whose contactor is closed exists), so the two
\* are proved together.
IInv == TypeOK /\ ContactorsFollowSteps

\* The pack starts with every contactor off.
LEMMA InitIInv ==
    ASSUME Init
    PROVE  IInv
<1>1. NrOfStrings \in Nat \ {0} /\ 0 \in Strings
  BY ContactorAssumption DEF Strings
<1>2. ContTypeOK
  BY ContactorAssumption DEF Init, ContInit, ContTypeOK, Entries, Cleared
<1>3. delay \in [latched : BOOLEAN, remaining : 0 .. NoActiveDelay, minimum : 0 .. NoActiveDelay]
  BY BmsAssumption DEF Init, NoDelay
<1>4. TypeOK
  <2>1. substate \in SubstatesOf(state) /\ state \in States
    BY DEF Init, SubstatesOf, States
  <2>2. timeout \in [Timeouts -> Nat]
    BY DEF Init
  <2>3. nrClosed \in 0 .. CountModulus - 1 /\ tries \in 0 .. PrechargeTries - 1
    BY <1>1, BmsAssumption DEF Init
  <2>4. prechargeTime \in 0 .. PrechargeDuration + 1 /\ aboveBreak \in 0 .. FuseDuration + 1
    BY BmsAssumption DEF Init
  <2>. QED  BY <1>1, <1>2, <1>3, <2>1, <2>2, <2>3, <2>4 DEF Init, TypeOK
<1>5. ContactorsFollowSteps
  BY DEF Init, ContInit, ContactorsFollowSteps, SafeStatesDisconnected, SafeStates,
        PrechargeSteps, NormalSteps, OpenSteps
<1>. QED  BY <1>4, <1>5 DEF IInv

\* Calls that only wait, requests, errors reported by other tasks.
LEMMA OtherStepsIInv ==
    ASSUME IInv, Wait \/ SetInitializationRequest \/ FatalErrorChanges \/ UNCHANGED vars
    PROVE  IInv'
<1>. USE DEF fsmVars, outVars, stringVars, closedVars, prechargeVars, breakVars, contVars
<1>1. CASE Wait
  <2>1. ReadType' /\ timeout' \in [Timeouts -> Nat] /\ delay' \in Delays /\ timer' \in Timers
    BY <1>1, TriggerType DEF IInv, BMS_Trigger
  <2>2. UNCHANGED <<state, substate, nextState, stateRequest, outVars, stringVars, closedVars,
                    prechargeVars, breakVars, fatal, alert, currentSet>>
    BY <1>1 DEF Wait
  <2>3. TypeOK'
    BY <2>1, <2>2 DEF IInv, TypeOK, ContTypeOK, ReadType, Delays, Timers
  <2>4. ContactorsFollowSteps'
    BY <2>2 DEF IInv, ContactorsFollowSteps, SafeStatesDisconnected, PrechargeSteps,
          NormalSteps, OpenSteps, Path, Precharge1
  <2>. QED  BY <2>3, <2>4 DEF IInv
<1>2. CASE SetInitializationRequest \/ FatalErrorChanges \/ UNCHANGED vars
  <2>1. UNCHANGED <<state, substate, nextState, timer, timeout, outVars, stringVars, closedVars,
                    prechargeVars, prechargeTime, breakVars, overBreak, alert, delay, contVars>>
    BY <1>2 DEF SetInitializationRequest, FatalErrorChanges, vars
  <2>2. fatal' \subseteq FatalIds /\ stateRequest' \in {"NO_REQUEST", "INITIALIZATION"}
    BY <1>2 DEF IInv, TypeOK, SetInitializationRequest, FatalErrorChanges, vars
  <2>3. TypeOK'
    BY <2>1, <2>2 DEF IInv, TypeOK, ContTypeOK
  <2>4. ContactorsFollowSteps'
    BY <2>1 DEF IInv, ContactorsFollowSteps, SafeStatesDisconnected, PrechargeSteps,
          NormalSteps, OpenSteps, Path, Precharge1
  <2>. QED  BY <2>3, <2>4 DEF IInv
<1>. QED  BY <1>1, <1>2

\* Every step keeps the invariant.
LEMMA NextIInv ==
    ASSUME IInv, [Next]_vars
    PROVE  IInv'
<1>1. CASE StartUp
  BY <1>1, StartUpType, StartUpFollowed DEF IInv
<1>2. CASE OpenContactors
  BY <1>2, OpenContactorsType, OpenContactorsFollowed DEF IInv
<1>3. CASE Standby
  BY <1>3, StandbyType, StandbyFollowed DEF IInv
<1>4. CASE Precharge
  BY <1>4, PrechargeType, PrechargeFollowed DEF IInv
<1>5. CASE Normal
  BY <1>5, NormalType, NormalFollowed DEF IInv
<1>6. CASE Error
  BY <1>6, ErrorType, ErrorFollowed DEF IInv
<1>7. CASE Wait \/ SetInitializationRequest \/ FatalErrorChanges \/ UNCHANGED vars
  BY <1>7, OtherStepsIInv
<1>. QED  BY <1>1, <1>2, <1>3, <1>4, <1>5, <1>6, <1>7 DEF Next, BMS_Trigger

\* In every reachable state the variables have their types and the contactors
\* that are set agree with the step of BMS_Trigger.
THEOREM Invariance == Spec => []IInv
<1>. QED  BY InitIInv, NextIInv, PTL DEF Spec

\* Every variable keeps its type, in packs of every size and configuration.
THEOREM TypeCorrect == Spec => []TypeOK
<1>1. IInv => TypeOK
  BY DEF IInv
<1>. QED  BY <1>1, Invariance, PTL

\* The contactors that are set agree with the step BMS_Trigger has reached.
THEOREM StepsFollowed == Spec => []ContactorsFollowSteps
<1>1. IInv => ContactorsFollowSteps
  BY DEF IInv
<1>. QED  BY <1>1, Invariance, PTL

\* Outside OPEN_CONTACTORS, PRECHARGE and NORMAL every contactor is off.
THEOREM SafeStatesAreSafe == Spec => []SafeStatesDisconnected
<1>1. IInv => SafeStatesDisconnected
  BY DEF IInv, ContactorsFollowSteps
<1>. QED  BY <1>1, Invariance, PTL
=============================================================================
