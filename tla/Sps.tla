-------------------------------- MODULE Sps --------------------------------
(***************************************************************************)
(* The driver of the smart power switches (src/src/app/driver/sps/sps.c):  *)
(* the outputs that drive the coils of the contactors.  A request changes  *)
(* RAM only; SPS_Ctrl, called every 10 ms, sends the output word to the    *)
(* daisy chain, reads back the currents, and starts all over with a reset  *)
(* of the switches when a transfer fails.                                  *)
(*                                                                         *)
(* All callers run in the 10 ms task, so a step is one call: of SPS_Ctrl,  *)
(* or of a function that requests.  A set of channels stands for an array  *)
(* or for the bits of a register: the members are on.  The position in the *)
(* daisy chain and the speed of the interface are left out.                *)
(***************************************************************************)
EXTENDS Naturals

CONSTANTS
    Channels,       \* the channels in use, of SPS_NR_OF_AVAILABLE_SPS_CHANNELS
    GeneralIo,      \* those of them with the affiliation SPS_AFF_GENERAL_IO
    ResetTicks      \* SPS_RESET_WAIT_TIME_TICKS

ASSUME SpsAssumption ==
    /\ Channels \subseteq Nat /\ GeneralIo \subseteq Channels
    /\ ResetTicks \in Nat /\ ResetTicks >= 2

VARIABLES
    state,          \* sps_state
    timer,          \* sps_timer
    requested,      \* sps_channelStatus[].channelRequested
    channel,        \* sps_channelStatus[].channel
    current,        \* channels whose current_mA is above the threshold
    tx,             \* sps_spiTxWriteToChannelChannelControlRegister
    outputs,        \* the outputs of the switches
    measured,       \* the currents their last measurement has found
    age,            \* history: calls of SPS_Ctrl since the request changed
    steady,         \* history: calls since a transfer failed or an output changed
    failed          \* history: a transfer has failed

driverVars == <<state, timer, channel, current, tx>>
switchVars == <<outputs, measured>>
vars == <<state, timer, requested, channel, current, tx, outputs, measured,
          age, steady, failed>>

Reads == {"READ1", "READ2", "READ3", "READ4"}
Cycle == {"TRIGGER", "READ_EN_IRQ_PIN"} \cup Reads
Transmitting == {"CONFIGURE"} \cup Cycle
States == {"START", "RESET_LOW", "RESET_HIGH"} \cup Transmitting

\* The channels whose current a state reads: one output of every switch.
OutputOf == [READ1 |-> 0, READ2 |-> 1, READ3 |-> 2, READ4 |-> 3]
ReadBy(s) == IF s \in Reads THEN {c \in Channels : c % 4 = OutputOf[s]} ELSE {}

\* What requests and outputs take at most, in calls of SPS_Ctrl: a request to
\* switch off, one to switch on, and the current of an output.
OffCalls == 3
OnCalls == 2 * ResetTicks + 2
FeedbackCalls == 2 * ResetTicks + 8

-----------------------------------------------------------------------------
(* Requests *)

SPS_RequestChannelState(c, on) ==
    /\ requested' = IF on THEN requested \cup {c} ELSE requested \ {c}
    /\ age' = IF requested' = requested THEN age ELSE [age EXCEPT ![c] = 0]
    /\ UNCHANGED <<driverVars, switchVars, steady, failed>>

SPS_RequestContactorState ==
    \E c \in Channels \ GeneralIo, on \in BOOLEAN : SPS_RequestChannelState(c, on)

SPS_RequestGeneralIoState ==
    \E c \in GeneralIo, on \in BOOLEAN : SPS_RequestChannelState(c, on)

SPS_SwitchOffAllGeneralIoChannels ==
    /\ requested' = requested \ GeneralIo
    /\ age' = [c \in Channels |-> IF c \in requested \cap GeneralIo THEN 0 ELSE age[c]]
    /\ UNCHANGED <<driverVars, switchVars, steady, failed>>

-----------------------------------------------------------------------------
(* SPS_Ctrl *)

\* Every call counts, up to the bounds above.
Counted(failing) ==
    /\ age' = [c \in Channels |->
                 IF age[c] < (IF c \in requested THEN OnCalls ELSE OffCalls)
                 THEN age[c] + 1 ELSE age[c]]
    /\ steady' = IF failing \/ outputs' # outputs THEN 0
                 ELSE IF steady < FeedbackCalls THEN steady + 1 ELSE steady
    /\ failed' = (failed \/ failing)

\* The timer is decremented first, and the state is due when it is zero then.
Waiting ==
    /\ timer > 1
    /\ timer' = timer - 1
    /\ UNCHANGED <<state, requested, channel, current, tx, switchVars>>
    /\ Counted(FALSE)

Due(s) == state = s /\ timer <= 1

\* SPS_InitializeBuffers: the output word is empty, the array is not looked at.
Start ==
    /\ Due("START")
    /\ state' = "RESET_LOW" /\ timer' = 0
    /\ tx' = {}
    /\ UNCHANGED <<requested, channel, current, switchVars>>
    /\ Counted(FALSE)

\* The reset pin goes low, and every output with it.
ResetLow ==
    /\ Due("RESET_LOW")
    /\ state' = "RESET_HIGH" /\ timer' = ResetTicks
    /\ outputs' = {}
    /\ UNCHANGED <<requested, channel, current, tx, measured>>
    /\ Counted(FALSE)

ResetHigh ==
    /\ Due("RESET_HIGH")
    /\ state' = "CONFIGURE" /\ timer' = ResetTicks
    /\ UNCHANGED <<requested, channel, current, tx, switchVars>>
    /\ Counted(FALSE)

\* Mutant: the bits of other channels are replaced (SPS_replaceCurrentValue).
SPS_SetContactorsTxBuffer_Replaces ==
    /\ channel' = requested
    /\ tx' = IF requested = channel THEN tx ELSE requested \ channel

\* Only a channel whose request differs from its state changes its bit.
SPS_SetContactorsTxBuffer ==
    /\ channel' = requested
    /\ tx' = (tx \cup (requested \ channel)) \ (channel \ requested)

\* A transfer is done, reported as failed although the switches took it, or
\* not taken: the interface is shared, and SPI_Lock refuses it when in use.
Outcomes == {"done", "doubtful", "refused"}

\* Mutant: the measurement is not triggered again.
Following_MeasuresOnce(s) ==
    CASE s = "CONFIGURE"       -> "TRIGGER"
      [] s = "TRIGGER"         -> "READ_EN_IRQ_PIN"
      [] s = "READ_EN_IRQ_PIN" -> "READ1"
      [] s = "READ1"           -> "READ2"
      [] s = "READ2"           -> "READ3"
      [] s = "READ3"           -> "READ4"
      [] s = "READ4"           -> "READ_EN_IRQ_PIN"

Following(s) ==
    CASE s = "CONFIGURE"       -> "TRIGGER"
      [] s = "TRIGGER"         -> "READ_EN_IRQ_PIN"
      [] s = "READ_EN_IRQ_PIN" -> "READ1"
      [] s = "READ1"           -> "READ2"
      [] s = "READ2"           -> "READ3"
      [] s = "READ3"           -> "READ4"
      [] s = "READ4"           -> "TRIGGER"

\* Mutant: a failure is answered without a reset.
AfterTransmit_NoReset(s, ok) == IF ok THEN Following(s) ELSE "CONFIGURE"

AfterTransmit(s, ok) == IF ok THEN Following(s) ELSE "START"

\* The switches: the first word triggers a measurement or asks for its result,
\* the second one sets the outputs.
Taken(s, first, second) ==
    /\ measured' = IF s = "TRIGGER" /\ first # "refused" THEN outputs ELSE measured
    /\ outputs' = IF second # "refused" THEN tx' ELSE outputs

\* SPS_GlobalReadCurrent, also after a failure, when the buffer holds anything.
SPS_GlobalReadCurrent(s, first, second) ==
    \E answer \in SUBSET ReadBy(s) :
        /\ first # "refused" /\ second = "done" => answer = measured \cap ReadBy(s)
        /\ current' = (current \ ReadBy(s)) \cup answer

Transmit(s) ==
    /\ Due(s)
    /\ SPS_SetContactorsTxBuffer
    /\ \E first, second \in Outcomes :
         LET ok == first = "done" /\ second = "done" IN
         /\ Taken(s, first, second)
         /\ SPS_GlobalReadCurrent(s, first, second)
         /\ state' = AfterTransmit(s, ok)
         /\ Counted(~ok)
    /\ timer' = 0
    /\ UNCHANGED requested

SPS_Ctrl ==
    Waiting \/ Start \/ ResetLow \/ ResetHigh \/ \E s \in Transmitting : Transmit(s)

-----------------------------------------------------------------------------
(* Specification *)

\* After a reset of the microcontroller the outputs are as they were left.
Init ==
    /\ state = "START" /\ timer = 0
    /\ requested = {} /\ channel = {} /\ current = {} /\ tx = {}
    /\ outputs \in SUBSET Channels /\ measured \in SUBSET Channels
    /\ age = [c \in Channels |-> 0] /\ steady = 0 /\ failed = FALSE

Next ==
    \/ SPS_RequestContactorState \/ SPS_RequestGeneralIoState
    \/ SPS_SwitchOffAllGeneralIoChannels
    \/ SPS_Ctrl

Spec == Init /\ [][Next]_vars

-----------------------------------------------------------------------------
(* Properties *)

TypeOK ==
    /\ state \in States /\ timer \in 0 .. ResetTicks
    /\ requested \subseteq Channels /\ channel \subseteq Channels
    /\ current \subseteq Channels /\ tx \subseteq Channels
    /\ outputs \subseteq Channels /\ measured \subseteq Channels
    /\ age \in [Channels -> 0 .. OnCalls]
    /\ steady \in 0 .. FeedbackCalls /\ failed \in BOOLEAN

\* A channel that is requested off is off at the third call of SPS_Ctrl at the
\* latest, also if every transfer fails: the way through SPS_START to the reset
\* pin needs no transfer (sps.c:494-511).
OffTakesEffect ==
    \A c \in Channels \ requested : age[c] >= OffCalls => c \notin outputs

\* As long as no transfer has failed, a channel that is requested on is on as
\* soon as the switches can have been reset and configured, whatever is
\* requested of the other channels of its switch.
OnTakesEffect ==
    ~failed => \A c \in requested : age[c] >= OnCalls => c \in outputs

\* SPS_GetChannelCurrentFeedback tells the outputs as they are, with on one side
\* a round of measurements, on the other a whole reset, between the output and
\* its current: after 18 calls with the ticks of the code, two less than the
\* twenty events the diagnosis waits for (diag_cfg.c:173-175).
FeedbackShowsOutputs == steady >= FeedbackCalls => current = outputs

\* sps.c:144-145, SPS_SetContactorsTxBuffer, "The actual contactor or channel
\* state is taken from the current state of the array": when a transmission has
\* succeeded, the outputs are as sps_channelStatus[].channel tells.
StatusIsSent == state \in Cycle => outputs = channel
=============================================================================
