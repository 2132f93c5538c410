----------------------------- MODULE SpsProofs -----------------------------
(***************************************************************************)
(* Proofs about the driver of the smart power switches: its types, how     *)
(* long an output may differ from its request, and how long the measured   *)
(* currents may differ from the outputs, for any set of channels and any   *)
(* reset time.                                                             *)
(***************************************************************************)
EXTENDS Sps, TLAPS

\* A step of a request, and what one leaves alone.
Request ==
    \/ SPS_RequestContactorState \/ SPS_RequestGeneralIoState
    \/ SPS_SwitchOffAllGeneralIoChannels

LEMMA RequestFrame ==
    ASSUME TypeOK, Request
    PROVE  /\ UNCHANGED <<driverVars, switchVars, steady, failed>>
           /\ requested' \subseteq Channels
           /\ age' \in [Channels -> 0 .. OnCalls]
           /\ \A c \in Channels : (c \in requested' <=> c \in requested) \/ age'[c] = 0
           /\ \A c \in Channels : age'[c] = age[c] \/ age'[c] = 0
<1>. USE SpsAssumption DEF TypeOK, OnCalls
<1>1. ASSUME NEW c \in Channels, NEW on \in BOOLEAN, SPS_RequestChannelState(c, on)
      PROVE  /\ UNCHANGED <<driverVars, switchVars, steady, failed>>
             /\ requested' \subseteq Channels
             /\ age' \in [Channels -> 0 .. OnCalls]
             /\ \A d \in Channels : (d \in requested' <=> d \in requested) \/ age'[d] = 0
             /\ \A d \in Channels : age'[d] = age[d] \/ age'[d] = 0
  BY <1>1 DEF SPS_RequestChannelState
<1>2. CASE SPS_RequestContactorState
  <2>1. PICK c \in Channels \ GeneralIo, on \in BOOLEAN : SPS_RequestChannelState(c, on)
    BY <1>2 DEF SPS_RequestContactorState
  <2>. QED  BY <1>1, <2>1
<1>3. CASE SPS_RequestGeneralIoState
  <2>1. PICK c \in GeneralIo, on \in BOOLEAN : SPS_RequestChannelState(c, on)
    BY <1>3 DEF SPS_RequestGeneralIoState
  <2>. QED  BY <1>1, <2>1
<1>4. CASE SPS_SwitchOffAllGeneralIoChannels
  BY <1>4 DEF SPS_SwitchOffAllGeneralIoChannels
<1>. QED  BY <1>2, <1>3, <1>4 DEF Request

\* What a call counts.
LEMMA CountedTypes ==
    ASSUME TypeOK, NEW failing \in BOOLEAN, Counted(failing)
    PROVE  /\ age' \in [Channels -> 0 .. OnCalls]
           /\ \A c \in Channels : age'[c] >= age[c] /\ age'[c] <= age[c] + 1
           /\ steady' \in 0 .. FeedbackCalls /\ steady' <= steady + 1
           /\ steady' # 0 => ~failing /\ outputs' = outputs
           /\ failed' = (failed \/ failing)
<1>. USE SpsAssumption DEF TypeOK, OnCalls, OffCalls, FeedbackCalls, Counted
<1>1. age' \in [Channels -> 0 .. OnCalls]
  <2>1. ASSUME NEW c \in Channels
        PROVE  (IF age[c] < (IF c \in requested THEN OnCalls ELSE OffCalls)
                THEN age[c] + 1 ELSE age[c]) \in 0 .. OnCalls
    <3>1. age[c] \in 0 .. OnCalls
      OBVIOUS
    <3>. QED  BY <3>1
  <2>. QED  BY <2>1
<1>2. ASSUME NEW c \in Channels PROVE age'[c] >= age[c] /\ age'[c] <= age[c] + 1
  <2>1. age[c] \in 0 .. OnCalls /\ age'[c] \in {age[c], age[c] + 1}
    OBVIOUS
  <2>. QED  BY <2>1
<1>3. steady' \in 0 .. FeedbackCalls /\ steady' <= steady + 1
  OBVIOUS
<1>4. steady' # 0 => ~failing /\ outputs' = outputs
  OBVIOUS
<1>. QED  BY <1>1, <1>2, <1>3, <1>4

LEMMA CountedCall ==
    ASSUME TypeOK, Counted(FALSE)
    PROVE  /\ age' \in [Channels -> 0 .. OnCalls]
           /\ \A c \in Channels : age'[c] >= age[c] /\ age'[c] <= age[c] + 1
           /\ steady' \in 0 .. FeedbackCalls /\ steady' <= steady + 1
           /\ steady' # 0 => outputs' = outputs
           /\ failed' \in BOOLEAN /\ failed' = failed
<1>1. FALSE \in BOOLEAN
  OBVIOUS
<1>2. failed \in BOOLEAN
  BY DEF TypeOK
<1>3. failed' = (failed \/ FALSE)
  BY DEF Counted
<1>4. failed' \in BOOLEAN /\ failed' = failed
  BY <1>2, <1>3, Zenon
<1>. QED  BY <1>1, <1>4, CountedTypes

LEMMA CountedFailure ==
    ASSUME TypeOK, Counted(TRUE)
    PROVE  /\ age' \in [Channels -> 0 .. OnCalls]
           /\ \A c \in Channels : age'[c] >= age[c] /\ age'[c] <= age[c] + 1
           /\ steady' = 0 /\ steady' \in 0 .. FeedbackCalls
           /\ failed' \in BOOLEAN /\ failed'
<1>1. TRUE \in BOOLEAN
  OBVIOUS
<1>2. steady' = 0
  BY DEF Counted
<1>3. failed' = TRUE
  <2>1. failed' = (failed \/ TRUE)
    BY DEF Counted
  <2>. QED  BY <2>1, Zenon
<1>. QED  BY <1>1, <1>2, <1>3, CountedTypes

\* A step in which words are transmitted, with what became of them.
TransmitAs(s, first, second) ==
    LET ok == first = "done" /\ second = "done" IN
    /\ Due(s)
    /\ SPS_SetContactorsTxBuffer
    /\ Taken(s, first, second)
    /\ SPS_GlobalReadCurrent(s, first, second)
    /\ state' = AfterTransmit(s, ok)
    /\ Counted(~ok)
    /\ timer' = 0
    /\ UNCHANGED requested

LEMMA TransmitCases ==
    ASSUME NEW s \in Transmitting, Transmit(s)
    PROVE  \E first, second \in Outcomes : TransmitAs(s, first, second)
BY DEF Transmit, TransmitAs

\* The steps of the specification, as the proofs below distinguish them.
LEMMA NextCases ==
    ASSUME [Next]_vars
    PROVE  \/ Request \/ Waiting \/ Start \/ ResetLow \/ ResetHigh
           \/ \E s \in Transmitting, first, second \in Outcomes : TransmitAs(s, first, second)
           \/ UNCHANGED vars
<1>1. CASE SPS_Ctrl
  <2>1. ASSUME NEW s \in Transmitting, Transmit(s)
        PROVE  \E t \in Transmitting, first, second \in Outcomes : TransmitAs(t, first, second)
    BY <2>1, TransmitCases
  <2>. QED  BY <1>1, <2>1 DEF SPS_Ctrl
<1>. QED  BY <1>1 DEF Next, Request

\* Where a transmission leads.
LEMMA TransmitGoes ==
    ASSUME NEW s \in Transmitting, NEW first \in Outcomes, NEW second \in Outcomes,
           TransmitAs(s, first, second)
    PROVE  /\ state = s /\ timer <= 1 /\ timer' = 0
           /\ IF first = "done" /\ second = "done"
              THEN state' = Following(s) /\ state' \in Cycle /\ Counted(FALSE)
              ELSE state' = "START" /\ Counted(TRUE)
<1>. USE DEF TransmitAs, Due, AfterTransmit
<1>1. CASE first = "done" /\ second = "done"
  <2>1. Following(s) \in Cycle
    BY DEF Following, Cycle, Transmitting, Reads
  <2>2. (~(first = "done" /\ second = "done")) = FALSE
    BY <1>1
  <2>3. Counted(FALSE)
    BY <2>2 DEF Counted
  <2>. QED  BY <1>1, <2>1, <2>3
<1>2. CASE ~(first = "done" /\ second = "done")
  <2>1. (~(first = "done" /\ second = "done")) = TRUE
    BY <1>2
  <2>2. Counted(TRUE)
    BY <2>1 DEF Counted
  <2>. QED  BY <1>2, <2>2
<1>. QED  BY <1>1, <1>2

-----------------------------------------------------------------------------
(* Types *)

LEMMA InitTypes == Init => TypeOK
<1>. SUFFICES ASSUME Init PROVE TypeOK
  OBVIOUS
<1>1. OnCalls \in Nat /\ FeedbackCalls \in Nat
  BY SpsAssumption DEF OnCalls, FeedbackCalls
<1>2. age \in [Channels -> 0 .. OnCalls] /\ steady \in 0 .. FeedbackCalls
  BY <1>1 DEF Init
<1>3. failed \in BOOLEAN
  BY DEF Init
<1>. QED  BY <1>2, <1>3, SpsAssumption DEF Init, TypeOK, States

LEMMA StepTypes ==
    ASSUME TypeOK, [Next]_vars
    PROVE  TypeOK'
<1>. USE SpsAssumption DEF TypeOK, States
<1>1. CASE Request
  BY <1>1, RequestFrame DEF driverVars, switchVars
<1>2. CASE Waiting
  BY <1>2, CountedCall DEF Waiting, switchVars
<1>3. CASE Start
  BY <1>3, CountedCall DEF Start, switchVars
<1>4. CASE ResetLow
  BY <1>4, CountedCall DEF ResetLow
<1>5. CASE ResetHigh
  BY <1>5, CountedCall DEF ResetHigh, Transmitting, switchVars
<1>6. ASSUME NEW s \in Transmitting, NEW first \in Outcomes, NEW second \in Outcomes,
             TransmitAs(s, first, second)
      PROVE  TypeOK'
  <2>1. channel' \subseteq Channels /\ tx' \subseteq Channels /\ UNCHANGED requested
    BY <1>6 DEF TransmitAs, SPS_SetContactorsTxBuffer
  <2>2. outputs' \subseteq Channels /\ measured' \subseteq Channels
    BY <1>6, <2>1 DEF TransmitAs, Taken
  <2>3. current' \subseteq Channels
    BY <1>6 DEF TransmitAs, SPS_GlobalReadCurrent, ReadBy
  <2>4. timer' = 0 /\ state' \in States
    BY <1>6, TransmitGoes DEF Transmitting
  <2>5. Counted(FALSE) \/ Counted(TRUE)
    BY <1>6, TransmitGoes
  <2>6. /\ age' \in [Channels -> 0 .. OnCalls] /\ steady' \in 0 .. FeedbackCalls
        /\ failed' \in BOOLEAN
    BY <2>5, CountedCall, CountedFailure
  <2>. QED  BY <2>1, <2>2, <2>3, <2>4, <2>6
<1>7. CASE UNCHANGED vars
  BY <1>7 DEF vars
<1>. QED  BY <1>1, <1>2, <1>3, <1>4, <1>5, <1>6, <1>7, NextCases

\* Every variable keeps the type of what it stands for in the code.
THEOREM SpsTypeCorrect == Spec => []TypeOK
BY InitTypes, StepTypes, PTL DEF Spec

-----------------------------------------------------------------------------
(* The way through the states *)

\* The calls it takes at most to come to a state after a failure or a start.
Elapsed(n) ==
    /\ state = "START" => n = 0
    /\ state = "RESET_LOW" => n <= 1
    /\ state = "RESET_HIGH" => n <= ResetTicks + 2 - timer
    /\ state = "CONFIGURE" => n <= 2 * ResetTicks + 2 - timer

\* The timer runs in the two states that wait, the outputs are off while the
\* switches are reset, and as they were sent in the cycle; a bit that is sent
\* belongs to a channel that is on, and only after a failure not the other way.
Way ==
    /\ state \notin {"RESET_HIGH", "CONFIGURE"} => timer = 0
    /\ state \in {"RESET_HIGH", "CONFIGURE"} => timer >= 1 /\ outputs = {}
    /\ state \in Cycle => outputs = tx
    /\ tx \subseteq channel
    /\ ~failed => channel = tx
    /\ ~failed /\ state = "START" => channel = {}

\* A call of each state, as it changes the way.
LEMMA WaitingStep ==
    ASSUME TypeOK, Way, Waiting
    PROVE  /\ state \in {"RESET_HIGH", "CONFIGURE"}
           /\ UNCHANGED <<state, requested, channel, current, tx, outputs, measured>>
           /\ timer' = timer - 1 /\ timer >= 2 /\ Counted(FALSE) /\ failed' = failed
<1>1. state \in {"RESET_HIGH", "CONFIGURE"} /\ timer >= 2
  BY DEF Way, Waiting, TypeOK
<1>2. Counted(FALSE) /\ failed' = failed
  BY CountedCall DEF Waiting
<1>. QED  BY <1>1, <1>2 DEF Waiting, switchVars

LEMMA StepWay ==
    ASSUME TypeOK, Way, [Next]_vars
    PROVE  Way'
<1>. USE SpsAssumption DEF Way
<1>1. CASE Request
  BY <1>1, RequestFrame DEF driverVars, switchVars
<1>2. CASE Waiting
  <2>1. /\ state \in {"RESET_HIGH", "CONFIGURE"} /\ failed' = failed
        /\ UNCHANGED <<state, channel, tx, outputs>> /\ timer' = timer - 1 /\ timer >= 2
    BY <1>2, WaitingStep
  <2>. QED  BY <2>1 DEF TypeOK, Cycle, Reads
<1>3. CASE Start
  <2>1. failed' = failed
    BY <1>3, CountedCall DEF Start, TypeOK
  <2>. QED  BY <1>3, <2>1 DEF Start, Due, switchVars, Cycle, Reads
<1>4. CASE ResetLow
  <2>1. failed' = failed
    BY <1>4, CountedCall DEF ResetLow, TypeOK
  <2>. QED  BY <1>4, <2>1 DEF ResetLow, Cycle, Reads, TypeOK
<1>5. CASE ResetHigh
  <2>1. failed' = failed
    BY <1>5, CountedCall DEF ResetHigh, TypeOK
  <2>. QED  BY <1>5, <2>1 DEF ResetHigh, Due, Cycle, Reads, switchVars, TypeOK
<1>6. ASSUME NEW s \in Transmitting, NEW first \in Outcomes, NEW second \in Outcomes,
             TransmitAs(s, first, second)
      PROVE  Way'
  <2>1. tx' \subseteq channel' /\ (channel = tx => channel' = tx')
    BY <1>6 DEF TransmitAs, SPS_SetContactorsTxBuffer, TypeOK
  <2>2. CASE first = "done" /\ second = "done"
    <3>1. state' \in Cycle /\ timer' = 0 /\ Counted(FALSE)
      BY <1>6, <2>2, TransmitGoes
    <3>2. failed' = failed
      BY <3>1, CountedCall DEF TypeOK
    <3>3. outputs' = tx'
      BY <1>6, <2>2 DEF TransmitAs, Taken
    <3>4. state' \notin {"START", "RESET_HIGH", "CONFIGURE"}
      BY <3>1 DEF Cycle, Reads
    <3>5. ~failed' => channel' = tx'
      BY <2>1, <3>2
    <3>6. tx' \subseteq channel'
      BY <2>1
    <3>. HIDE DEF Way
    <3>. QED  BY <3>1, <3>3, <3>4, <3>5, <3>6 DEF Way
  <2>3. CASE ~(first = "done" /\ second = "done")
    <3>1. state' = "START" /\ timer' = 0 /\ Counted(TRUE)
      BY <1>6, <2>3, TransmitGoes
    <3>2. failed'
      BY <3>1, CountedFailure
    <3>3. tx' \subseteq channel'
      BY <2>1
    <3>4. state' \notin Cycle \cup {"RESET_HIGH", "CONFIGURE"}
      BY <3>1 DEF Cycle, Reads
    <3>. HIDE DEF Way
    <3>. QED  BY <3>1, <3>2, <3>3, <3>4 DEF Way
  <2>. QED  BY <2>2, <2>3
<1>7. CASE UNCHANGED vars
  BY <1>7 DEF vars
<1>. QED  BY <1>1, <1>2, <1>3, <1>4, <1>5, <1>6, <1>7, NextCases

\* What has counted the calls since a failure or a start, and no more than one
\* in a call, is as far as the state.
LEMMA ElapsedNext ==
    ASSUME TypeOK, Way, NEW n \in Nat, NEW m \in Nat, Elapsed(n), m <= n + 1,
           Waiting \/ Start \/ ResetLow \/ ResetHigh
    PROVE  Elapsed(m)'
<1>. USE SpsAssumption DEF Way, TypeOK, Elapsed
<1>1. CASE Waiting
  <2>1. /\ state \in {"RESET_HIGH", "CONFIGURE"} /\ state' = state
        /\ timer' = timer - 1 /\ timer >= 2
    BY <1>1, WaitingStep
  <2>. QED  BY <2>1
<1>2. CASE Start
  BY <1>2 DEF Start, Due
<1>3. CASE ResetLow
  BY <1>3 DEF ResetLow, Due
<1>4. CASE ResetHigh
  BY <1>4 DEF ResetHigh, Due
<1>. QED  BY <1>1, <1>2, <1>3, <1>4

-----------------------------------------------------------------------------
(* Requests *)

\* In the cycle a channel differs from its request only since the last call;
\* one that is on without a request is on its way to the reset pin otherwise;
\* and until the first transmission a request is as old as the driver at most.
Ages ==
    /\ state \in Cycle => \A c \in Channels : (c \in channel <=> c \in requested) \/ age[c] = 0
    /\ \A c \in Channels \ requested :
         /\ state = "START" /\ c \in outputs => age[c] <= 1
         /\ state = "RESET_LOW" /\ c \in outputs => age[c] <= 2
    /\ ~failed => \A c \in requested : Elapsed(age[c])

LEMMA StepAges ==
    ASSUME TypeOK, Way, Ages, [Next]_vars
    PROVE  Ages'
<1>1. CASE Request
  <2>1. /\ UNCHANGED <<state, timer, channel, outputs>> /\ failed' = failed
        /\ \A c \in Channels : (c \in requested' <=> c \in requested) \/ age'[c] = 0
        /\ \A c \in Channels : age'[c] = age[c] \/ age'[c] = 0
        /\ requested' \subseteq Channels
    BY <1>1, RequestFrame DEF driverVars, switchVars
  <2>2. state \in Cycle =>
          \A c \in Channels : (c \in channel' <=> c \in requested') \/ age'[c] = 0
    BY <2>1 DEF Ages
  <2>3. ASSUME NEW c \in Channels \ requested'
        PROVE  /\ state = "START" /\ c \in outputs => age'[c] <= 1
               /\ state = "RESET_LOW" /\ c \in outputs => age'[c] <= 2
    BY <2>1 DEF Ages
  <2>4. ASSUME ~failed, NEW c \in requested'
        PROVE  Elapsed(age[c])' 
    BY <2>1, <2>4, SpsAssumption DEF Ages, Elapsed, Way, TypeOK
  <2>. QED  BY <2>1, <2>2, <2>3, <2>4 DEF Ages
<1>2. ASSUME Waiting \/ Start \/ ResetLow \/ ResetHigh, Counted(FALSE)
      PROVE  Ages'
  <2>a. OnCalls \in Nat
    BY SpsAssumption DEF OnCalls
  <2>b. \A c \in Channels : age'[c] \in Nat /\ age[c] \in Nat /\ age'[c] <= age[c] + 1
    BY <1>2, <2>a, CountedCall DEF TypeOK
  <2>c. requested' = requested
    BY <1>2 DEF Waiting, Start, ResetLow, ResetHigh
  <2>1. /\ failed' = failed /\ requested' = requested
        /\ \A c \in Channels : age'[c] \in Nat /\ age[c] \in Nat /\ age'[c] <= age[c] + 1
    BY <1>2, <2>b, <2>c, CountedCall
  <2>2. ASSUME ~failed, NEW c \in requested
        PROVE  Elapsed(age[c])'
    <3>1. c \in Channels /\ Elapsed(age[c])
      BY <2>2 DEF TypeOK, Ages
    <3>2. PICK m \in Nat : m = age'[c]
      BY <2>1, <3>1
    <3>3. Elapsed(m)'
      BY <1>2, <2>1, <3>1, <3>2, ElapsedNext
    <3>. QED  BY <3>2, <3>3 DEF Elapsed
  <2>3. state' \notin Cycle
    BY <1>2, WaitingStep DEF Start, ResetLow, ResetHigh, Cycle, Reads
  <2>4. ASSUME NEW c \in Channels \ requested, c \in outputs'
        PROVE  state' # "START" /\ (state' = "RESET_LOW" => age'[c] <= 2)
    <3>1. CASE Start
      <4>1. state = "START" /\ outputs' = outputs
        BY <3>1 DEF Start, Due, switchVars
      <4>2. age[c] <= 1
        BY <2>4, <4>1 DEF Ages
      <4>. QED  BY <2>1, <3>1, <4>2 DEF Start
    <3>2. CASE ~Start
      BY <1>2, <3>2, WaitingStep DEF ResetLow, ResetHigh
    <3>. QED  BY <3>1, <3>2
  <2>. QED  BY <2>1, <2>2, <2>3, <2>4 DEF Ages
<1>3. ASSUME NEW s \in Transmitting, NEW first \in Outcomes, NEW second \in Outcomes,
             TransmitAs(s, first, second)
      PROVE  Ages'
  <2>1. channel' = requested /\ requested' = requested
    BY <1>3 DEF TransmitAs, SPS_SetContactorsTxBuffer
  <2>2. tx' \subseteq requested
    BY <2>1, <1>3 DEF TransmitAs, SPS_SetContactorsTxBuffer, Way
  <2>3. CASE first = "done" /\ second = "done"
    <3>1. state' \in Cycle
      BY <1>3, <2>3, TransmitGoes
    <3>2. state' \notin {"START", "RESET_LOW", "RESET_HIGH", "CONFIGURE"}
      BY <3>1 DEF Cycle, Reads
    <3>. QED  BY <2>1, <3>2 DEF Ages, Elapsed
  <2>4. CASE ~(first = "done" /\ second = "done")
    <3>1. state' = "START" /\ Counted(TRUE) /\ state = s
      BY <1>3, <2>4, TransmitGoes
    <3>2. failed' /\ \A c \in Channels : age[c] \in Nat /\ age'[c] \in Nat /\ age'[c] <= age[c] + 1
      BY <3>1, CountedFailure DEF TypeOK
    <3>3. ASSUME NEW c \in Channels \ requested, c \in outputs'
          PROVE  age'[c] <= 1
      <4>1. outputs' = outputs
        BY <1>3, <2>2, <3>3 DEF TransmitAs, Taken
      <4>2. s \in Cycle /\ outputs = tx /\ tx \subseteq channel
        BY <3>1, <3>3, <4>1 DEF Way, Transmitting
      <4>3. age[c] = 0
        BY <3>1, <3>3, <4>1, <4>2 DEF Ages
      <4>. QED  BY <3>2, <4>3
    <3>4. state' \notin Cycle /\ state' # "RESET_LOW"
      BY <3>1 DEF Cycle, Reads
    <3>. QED  BY <2>1, <3>2, <3>3, <3>4 DEF Ages
  <2>. QED  BY <2>3, <2>4
<1>4. CASE UNCHANGED vars
  BY <1>4 DEF vars, Ages, Elapsed
<1>5. Waiting \/ Start \/ ResetLow \/ ResetHigh => Counted(FALSE)
  BY DEF Waiting, Start, ResetLow, ResetHigh
<1>. QED  BY <1>1, <1>2, <1>3, <1>4, <1>5, NextCases

LEMMA InitRequests == Init => Way /\ Ages
<1>. SUFFICES ASSUME Init PROVE Way /\ Ages
  OBVIOUS
<1>1. state = "START" /\ state \notin Cycle /\ age = [c \in Channels |-> 0]
  BY DEF Init, Cycle, Reads
<1>. QED  BY <1>1 DEF Init, Way, Ages, Elapsed

LEMMA RequestsInvariant == Spec => [](TypeOK /\ Way /\ Ages)
<1>1. TypeOK /\ Way /\ Ages /\ [Next]_vars => (TypeOK /\ Way /\ Ages)'
  BY StepTypes, StepWay, StepAges
<1>. QED  BY <1>1, InitTypes, InitRequests, PTL DEF Spec

\* A channel requested off is off at the third call, whatever the interface
\* does (SPS_Ctrl, sps.c:486-600).
THEOREM OffIsObeyed == Spec => []OffTakesEffect
<1>1. TypeOK /\ Way /\ Ages => OffTakesEffect
  <2>. SUFFICES ASSUME TypeOK, Way, Ages, NEW c \in Channels \ requested,
                       age[c] >= OffCalls, c \in outputs
                PROVE  FALSE
    BY DEF OffTakesEffect
  <2>1. age[c] \in Nat /\ age[c] >= 3
    BY DEF TypeOK, OffCalls
  <2>2. CASE state \in Cycle
    BY <2>1, <2>2 DEF Way, Ages
  <2>3. CASE state \in {"RESET_HIGH", "CONFIGURE"}
    BY <2>3 DEF Way
  <2>4. CASE state \in {"START", "RESET_LOW"}
    BY <2>1, <2>4 DEF Ages
  <2>. QED  BY <2>2, <2>3, <2>4 DEF TypeOK, States, Transmitting
<1>. QED  BY <1>1, RequestsInvariant, PTL

\* As long as no transfer fails a request takes effect while the switches are
\* reset and configured (SPS_Ctrl, sps.c:486-600).
THEOREM OnIsObeyed == Spec => []OnTakesEffect
<1>1. TypeOK /\ Way /\ Ages => OnTakesEffect
  <2>. SUFFICES ASSUME TypeOK, Way, Ages, ~failed, NEW c \in requested, age[c] >= OnCalls
                PROVE  c \in outputs
    BY DEF OnTakesEffect
  <2>1. c \in Channels /\ age[c] \in Nat /\ age[c] >= 2 * ResetTicks + 2 /\ age[c] > 0
    BY SpsAssumption DEF TypeOK, OnCalls
  <2>2. CASE state \in Cycle
    BY <2>1, <2>2 DEF Way, Ages
  <2>3. CASE state \in {"START", "RESET_LOW", "RESET_HIGH", "CONFIGURE"}
    <3>1. Elapsed(age[c])
      BY DEF Ages
    <3>2. FALSE
      BY <2>1, <2>3, <3>1, SpsAssumption DEF Elapsed, Way, TypeOK
    <3>. QED  BY <3>2
  <2>. QED  BY <2>2, <2>3 DEF TypeOK, States, Transmitting
<1>. QED  BY <1>1, RequestsInvariant, PTL

-----------------------------------------------------------------------------
(* Feedback *)

\* The place of a state in the cycle, and the channels that have been read
\* since the measurement was triggered.
Place == [TRIGGER |-> 0, READ_EN_IRQ_PIN |-> 1, READ1 |-> 2, READ2 |-> 3,
          READ3 |-> 4, READ4 |-> 5]
AlreadyRead == {c \in Channels : (c % 4) + 2 < Place[state]}

Agrees(c) == c \in current <=> c \in outputs

\* Until the first transmission no more calls are counted than the state has
\* taken.  In the cycle the measurement is as old as the cycle, what has been
\* read since is right if the outputs have not changed since it, and what has
\* not been read yet was read in the round before, unless there was none.
Feedback ==
    /\ Elapsed(steady)
    /\ state \in Cycle =>
         /\ state # "TRIGGER" /\ steady >= Place[state] => measured = outputs
         /\ \A c \in Channels : ~Agrees(c) =>
              IF c \in AlreadyRead THEN steady < Place[state]
                                   ELSE steady <= 2 * ResetTicks + 2 + Place[state]

\* The next place, and what a state of the cycle reads.
LEMMA Places ==
    ASSUME NEW s \in Cycle
    PROVE  /\ Place[s] \in 0 .. 5
           /\ s # "READ4" => /\ Following(s) \in Cycle \ {"TRIGGER"}
                             /\ Place[Following(s)] = Place[s] + 1
           /\ s = "READ4" => Following(s) = "TRIGGER" /\ Place[s] = 5
           /\ s = "TRIGGER" <=> Place[s] = 0
           /\ Place["TRIGGER"] = 0
           /\ ReadBy(s) = {c \in Channels : (c % 4) + 2 = Place[s]}
<1>1. \A c \in Channels : c % 4 \in 0 .. 3
  BY SpsAssumption
<1>2. s \in Reads => OutputOf[s] + 2 = Place[s] /\ OutputOf[s] \in 0 .. 3
  BY DEF Reads, OutputOf, Place
<1>3. s \notin Reads => Place[s] \in {0, 1}
  BY DEF Cycle, Place
<1>4. ReadBy(s) = {c \in Channels : (c % 4) + 2 = Place[s]}
  BY <1>1, <1>2, <1>3 DEF ReadBy
<1>. QED  BY <1>4 DEF Cycle, Reads, Place, Following

\* A transmission of the cycle that succeeds.
LEMMA CycleFeedback ==
    ASSUME TypeOK, Feedback, NEW s \in Cycle, TransmitAs(s, "done", "done")
    PROVE  Feedback'
<1>1. state = s /\ state' = Following(s) /\ state' \in Cycle /\ Counted(FALSE)
  BY TransmitGoes DEF Transmitting, Outcomes
<1>2. /\ steady \in Nat /\ steady' \in Nat /\ steady' <= steady + 1
      /\ steady' # 0 => outputs' = outputs
  <2>1. FeedbackCalls \in Nat
    BY SpsAssumption DEF FeedbackCalls
  <2>. QED  BY <1>1, <2>1, CountedCall DEF TypeOK
<1>. DEFINE p == Place[s]  q == Place[state']
<1>3. /\ p \in 0 .. 5 /\ q \in 0 .. 5
      /\ s # "READ4" => q = p + 1 /\ state' # "TRIGGER"
      /\ s = "READ4" => q = 0 /\ p = 5 /\ state' = "TRIGGER"
      /\ s = "TRIGGER" <=> p = 0
      /\ ReadBy(s) = {c \in Channels : (c % 4) + 2 = p}
  BY <1>1, Places
<1>4. \A c \in Channels : c % 4 \in 0 .. 3
  BY SpsAssumption
<1>5. measured' = IF s = "TRIGGER" THEN outputs ELSE measured
  BY DEF TransmitAs, Taken
<1>6. current' = (current \ ReadBy(s)) \cup (measured \cap ReadBy(s))
  BY DEF TransmitAs, SPS_GlobalReadCurrent
<1>7. s # "TRIGGER" /\ steady >= p => measured = outputs
  BY <1>1 DEF Feedback
<1>8. \A c \in Channels : ~Agrees(c) =>
        IF (c % 4) + 2 < p THEN steady < p ELSE steady <= 2 * ResetTicks + 2 + p
  BY <1>1 DEF Feedback, AlreadyRead
<1>. HIDE DEF p, q
<1>9. state' # "TRIGGER" /\ steady' >= q => measured' = outputs'
  <2>. SUFFICES ASSUME state' # "TRIGGER", steady' >= q PROVE measured' = outputs'
    OBVIOUS
  <2>1. q = p + 1 /\ outputs' = outputs /\ steady >= p
    BY <1>2, <1>3
  <2>. QED  BY <2>1, <1>5, <1>7
<1>10. ASSUME NEW c \in Channels, ~Agrees(c)'
       PROVE  IF (c % 4) + 2 < q THEN steady' < q ELSE steady' <= 2 * ResetTicks + 2 + q
  <2>1. CASE steady' = 0
    BY <2>1, <1>3, <1>4, SpsAssumption
  <2>2. CASE steady' # 0 /\ (c % 4) + 2 = p
    <3>1. outputs' = outputs /\ (c \in current' <=> c \in measured)
      BY <2>2, <1>2, <1>3, <1>6
    <3>2. measured # outputs
      BY <3>1, <1>10 DEF Agrees
    <3>3. steady < p
      BY <3>2, <2>2, <1>2, <1>3, <1>4, <1>7
    <3>. QED  BY <3>3, <2>2, <1>2, <1>3, <1>4, SpsAssumption
  <2>3. CASE steady' # 0 /\ (c % 4) + 2 # p
    <3>1. outputs' = outputs /\ (c \in current' <=> c \in current)
      BY <2>3, <1>2, <1>3, <1>6
    <3>2. ~Agrees(c)
      BY <3>1, <1>10 DEF Agrees
    <3>3. IF (c % 4) + 2 < p THEN steady < p ELSE steady <= 2 * ResetTicks + 2 + p
      BY <3>2, <1>8
    <3>. QED  BY <3>3, <2>3, <1>2, <1>3, <1>4, SpsAssumption
  <2>. QED  BY <2>1, <2>2, <2>3
<1>11. Elapsed(steady)'
  <2>1. state' \notin {"START", "RESET_LOW", "RESET_HIGH", "CONFIGURE"}
    BY <1>1 DEF Cycle, Reads
  <2>. QED  BY <2>1 DEF Elapsed
<1>. QED  BY <1>9, <1>10, <1>11 DEF Feedback, AlreadyRead, q

LEMMA StepFeedback ==
    ASSUME TypeOK, Way, Feedback, [Next]_vars
    PROVE  Feedback'
<1>a. FeedbackCalls \in Nat
  BY SpsAssumption DEF FeedbackCalls
<1>1. CASE Request
  BY <1>1, RequestFrame DEF driverVars, switchVars, Feedback, Elapsed, AlreadyRead, Agrees
<1>2. ASSUME Waiting \/ Start \/ ResetLow \/ ResetHigh, Counted(FALSE)
      PROVE  Feedback'
  <2>1. steady \in Nat /\ steady' \in Nat /\ steady' <= steady + 1
    BY <1>2, <1>a, CountedCall DEF TypeOK
  <2>2. PICK m \in Nat : m = steady'
    BY <2>1
  <2>3. Elapsed(m)'
    BY <1>2, <2>1, <2>2, ElapsedNext DEF Feedback
  <2>4. Elapsed(steady)'
    BY <2>2, <2>3 DEF Elapsed
  <2>5. state' \notin Cycle
    BY <1>2, WaitingStep DEF Start, ResetLow, ResetHigh, Cycle, Reads
  <2>. QED  BY <2>4, <2>5 DEF Feedback
<1>3. ASSUME NEW s \in Transmitting, NEW first \in Outcomes, NEW second \in Outcomes,
             TransmitAs(s, first, second)
      PROVE  Feedback'
  <2>1. CASE ~(first = "done" /\ second = "done")
    <3>1. state' = "START" /\ Counted(TRUE)
      BY <1>3, <2>1, TransmitGoes
    <3>2. steady' = 0
      BY <3>1, CountedFailure
    <3>. QED  BY <3>1, <3>2 DEF Feedback, Elapsed, Cycle, Reads
  <2>2. CASE first = "done" /\ second = "done" /\ s \in Cycle
    BY <1>3, <2>2, CycleFeedback
  <2>3. CASE first = "done" /\ second = "done" /\ s = "CONFIGURE"
    <3>1. state = "CONFIGURE" /\ state' = "TRIGGER" /\ Counted(FALSE)
      BY <1>3, <2>3, TransmitGoes DEF Following
    <3>2. steady \in Nat /\ steady' \in Nat /\ steady' <= steady + 1
      BY <3>1, <1>a, CountedCall DEF TypeOK
    <3>3. steady <= 2 * ResetTicks + 1
      BY <3>1, <3>2, SpsAssumption DEF Feedback, Elapsed, Way, TypeOK
    <3>4. steady' <= 2 * ResetTicks + 2
      BY <3>2, <3>3, SpsAssumption
    <3>5. Place["TRIGGER"] = 0
      BY DEF Place
    <3>6. \A c \in Channels : ~((c % 4) + 2 < 0)
      BY SpsAssumption
    <3>. QED  BY <3>1, <3>2, <3>4, <3>5, <3>6, SpsAssumption DEF Feedback, Elapsed, AlreadyRead
  <2>. QED  BY <2>1, <2>2, <2>3 DEF Transmitting
<1>4. CASE UNCHANGED vars
  BY <1>4 DEF vars, Feedback, Elapsed, AlreadyRead, Agrees
<1>5. Waiting \/ Start \/ ResetLow \/ ResetHigh => Counted(FALSE)
  BY DEF Waiting, Start, ResetLow, ResetHigh
<1>. QED  BY <1>1, <1>2, <1>3, <1>4, <1>5, NextCases

\* The currents that are read back show the outputs as they are once these have
\* not changed and no transfer has failed for a round of measurements, or a
\* reset of the switches and one (SPS_GetChannelCurrentFeedback, sps.c:625-639).
THEOREM FeedbackIsInTime == Spec => []FeedbackShowsOutputs
<1>1. Init => Feedback
  BY DEF Init, Feedback, Elapsed, Cycle, Reads
<1>2. TypeOK /\ Way /\ Feedback /\ [Next]_vars => (TypeOK /\ Way /\ Feedback)'
  BY StepTypes, StepWay, StepFeedback
<1>3. TypeOK /\ Way /\ Feedback => FeedbackShowsOutputs
  <2>. SUFFICES ASSUME TypeOK, Way, Feedback, steady >= FeedbackCalls
                PROVE  current = outputs
    BY DEF FeedbackShowsOutputs
  <2>1. steady \in Nat /\ steady >= 2 * ResetTicks + 8
    BY SpsAssumption DEF TypeOK, FeedbackCalls
  <2>2. CASE state \notin Cycle
    <3>1. state \in {"START", "RESET_LOW", "RESET_HIGH", "CONFIGURE"}
      BY <2>2 DEF TypeOK, States, Transmitting
    <3>2. FALSE
      BY <2>1, <3>1, SpsAssumption DEF Feedback, Elapsed, TypeOK
    <3>. QED  BY <3>2
  <2>3. CASE state \in Cycle
    <3>1. Place[state] \in 0 .. 5
      BY <2>3, Places
    <3>2. ASSUME NEW c \in Channels PROVE Agrees(c)
      BY <2>1, <2>3, <3>1, SpsAssumption DEF Feedback
    <3>. QED  BY <3>2 DEF Agrees, TypeOK
  <2>. QED  BY <2>2, <2>3
<1>. QED  BY <1>1, <1>2, <1>3, InitTypes, InitRequests, PTL DEF Spec
=============================================================================
