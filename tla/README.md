# foxBMS 2: models, checks and proofs

A TLA+ development beside the firmware of the foxBMS 2 battery management system
(`src/src/app`, C on FreeRTOS). It models the parts of the firmware whose correctness depends on
the order of many small steps, checks them with TLC on small configurations, and proves the
central results for every configuration with TLAPS.

## 1. The system

The firmware runs on one microcontroller, as a handful of periodic tasks of different priority
(`src/src/app/task`). A task calls the triggers of its modules once per cycle; a module is a state
machine that does one small step per call and counts its waiting times in calls.

| task (highest priority first) | cycle | what it runs |
|---|---|---|
| engine | 1 ms | copies database entries, checks the timing of the other tasks |
| 1 ms | 1 ms | timer, updates the diagnosis flags, measurement, CAN reception |
| 10 ms | 10 ms | stores timing violations, system state machine, interlock, SPS, CAN transmission, SOF, SBC, redundancy, and as the last one the BMS state machine |
| 100 ms | 100 ms | state estimation, balancing, insulation monitor, LED |
| algorithm | 100 ms | the algorithms that may take long |

`src/src/app/task/config/ftask_cfg.c`, the file of the tasks, holds a part of FreeRTOS+TCP in this version
of the code; what a task calls, and in which order, is taken from its test,
`src/tests/unit/app/task/config/test_ftask_cfg.c`.

A task is preempted by every task of higher priority. The modules share state through the database
(copies made by the engine task), through the diagnosis entries, and through request slots that a
caller fills and the owner's trigger empties.

### Inventory

For each component: the state it keeps, its operations, whom it talks to, and what makes it correct.
`PROJECT.json` lists the same components with their sources and their status, and the hazards with
the line where each one bites.

- **BMS state machine** (`application/bms`). *State:* state, substate and wait, four countdowns, the
  string at hand, which strings and precharge contactors it believes closed, the retries of
  precharging, the countdown from a fatal error to the error state. *Operations:* `BMS_Trigger`,
  `BMS_SetStateRequest`, and the getters that others ask. *Talks to:* diagnosis (are there fatal
  errors?), contactors, balancing, interlock and insulation monitor, database, CAN requests through
  the database. *Hard:* contactors answer late, wrongly or never; errors and requests come at any
  call and are looked at in some substates only; flags that mirror the contactors are kept by hand.
  *Correct if:* nothing is connected in a safe state, the bus is precharged before it is connected,
  no contactor breaks too high a current, an error opens the contactors after its delay and never
  later, opening always ends.
- **Contactor driver** (`driver/contactor`). *State:* the registry with setting and feedback of each
  contactor. *Operations:* open and close, read and check the feedback. *Correct if:* a mismatch that
  lasts becomes a diagnosis error and one that does not last does not.
- **Smart power switches** (`driver/sps`). *State:* requested channel states and the step of the SPI
  sequence that makes them take effect. *Correct if:* the last request of a channel takes effect.
- **Diagnosis** (`engine/diag`). *State:* a debounce counter per string and id, the ids whose fatal
  error is active and their number, the timer that repeats the report. *Operations:* `DIAG_Handler`
  (called by every task), the queries for fatal errors. *Talks to:* the callbacks that set the flags
  in the database, CAN. *Hard:* it is called by tasks that preempt each other, between the steps of
  one call. *Correct if:* flags agree with the counters, the number of active errors is right.
- **System monitoring** (`engine/sys_mon`). *State:* the notifications of each task, the record of
  violations in RAM and FRAM. *Operations:* `SYSM_Notify` (each task, at begin and end of a cycle),
  `SYSM_CheckNotifications` (engine), clearing and storing the record. *Hard:* the engine task looks
  at another task's times, several tasks share one diagnosis entry, the store may fail or be cut.
  *Correct if:* an overrun is recorded, kept until it is cleared, and survives a reset.
- **Database** (`engine/database`). *State:* the entries and a queue of pointers to requests.
  *Operations:* read and write of one to four entries. *Correct if:* a reader gets the entry as a
  writer left it, and a request is answered.
- **System state machine** (`engine/sys`). *State:* the step of the start-up, the time waited.
  *Operations:* `SYS_Trigger`, `SYS_SetStateRequest`. *Talks to:* SBC, RTC, CAN, balancing, current
  sensor, insulation monitor, BMS. *Correct if:* start-up ends in RUNNING or ERROR.
- **Tasks and start-up** (`main`, `task`). *State:* `os_boot`, the start time of the scheduler.
  *Correct if:* no task runs its cycle before the initialization is over, and all start together.
- **Cell balancing** (`application/bal`). *State:* request slot, state, the cells being balanced.
  *Correct if:* no cell is balanced while it is forbidden; only cells above the threshold discharge.
- **Interlock, insulation monitor, system basis chip** (`driver/interlock`, `imd`, `sbc`). State
  machines with a request slot each. *Correct if:* an accepted request is carried out.
- **SOA, plausibility and redundancy** (`application/soa`, `plausibility`, `redundancy`). Comparisons
  of the measurements, reported to the diagnosis. *Correct if:* a stale or implausible measurement is
  neither used nor reported as good.
- **State estimation, algorithms** (`application/algorithm`). Floating-point estimation of the state
  of charge and moving averages.
- **CAN** (`driver/can`). *State:* reception queue between interrupt and task, periods of the messages.
  *Correct if:* the last request of the vehicle is the one the BMS sees.
- **SPI, I2C, DMA, port expander; RTC, FRAM, humidity sensor** (`driver/spi` ...). Locks and
  hand-over between tasks and interrupts.
- **Analogue front ends and temperature sensors** (`driver/afe`, `meas`, `adc`, `ts`). Vendor
  protocols that fill the measurements.
- **Ethernet, UART, LED, PWM, IO, CRC, math, reset causes.** Interfaces and helpers.
- **Bootloader** (`src/src/bootloader`) and its host program (`cli/cmd_bootloader`). *State:* the step
  of the transfer, moved by the callbacks of the messages, and of the boot process, moved by the main
  loop; the flash with the application, its record and two vector tables. *Hard:* messages are lost
  either way, power and flash operations fail, and the bootloader's own supervisor calls go through
  the vector table it is replacing. *Correct if:* only a whole application is started, what the host
  reports is so, and the bootloader can always be used again.
- **FreeRTOS, HAL, command line tools.** Vendored or generated code and development tools.

## 2. Modules

| module | what it is | code |
|---|---|---|
| `DiagEntry` | one debounced diagnosis entry, as operators | `engine/diag/diag.c` |
| `Contactor` | registry, feedback and its check | `driver/contactor/contactor.c` |
| `PowerPath` | abstract: what the contactor control promises about the power path | |
| `Bms` | the BMS state machine, composed with `Contactor` and `DiagEntry` | `application/bms/bms.c` |
| `DiagEntries` | abstract: entries change by one whole event at a time | |
| `Diag` | the diagnosis handler, called by tasks that interrupt each other | `engine/diag/diag.c` |
| `DiagHistory` | when the number of fatal errors and their timer may leave the list | |
| `Bal` | balancing by voltage, with the requests of SYS, BMS and the vehicle | `application/bal` |
| `BalClaims` | what comments say of stopping balancing and the request slot does not keep | |
| `SysMon` | what becomes of a timing violation: report, record, FRAM, clearing | `engine/sys_mon`, `driver/fram` |
| `Sps` | the smart power switches: from a request to the output and back | `driver/sps` |
| `Sbc` | the driver of the system basis chip: initialization, watchdog, ignition | `driver/sbc` |
| `StartUp` | the start of the system: SYS, composed with `Sbc`, the BMS, balancing and insulation monitor as far as it waits for them | `engine/sys`, `driver/imd`, `task` |
| `AppSlot` | abstract: one whole application can be started, or none | |
| `Bootloader` | callbacks, main loop, flash and power of the bootloader | `src/src/bootloader` |
| `BootLoad` | the host program and the CAN bus, composed with `Bootloader` | `cli/cmd_bootloader` |
| `BootClaims` | what is checked of the two | |
| `BmsProofs`, `BmsSafetyProofs` | theorems about `Bms`, its refinement of `PowerPath` among them | |
| `DiagProofs` | theorems about `Diag` | |
| `BalProofs` | theorems about `Bal` | |
| `SysMonProofs` | theorems about `SysMon` | |
| `SpsProofs` | theorems about `Sps` | |
| `StartUpProofs` | theorems about `StartUp` | |
| `BootProofs` | theorems about `BootLoad` | |
| `MCBms`, `MCDiag`, `MCBoot` | instances for TLC | |

### Bms and Contactor

One action is one call of `BMS_Trigger` in one substate: its guard is the substate, its alternatives
the branches of the code, and it includes all that is done in every call (`CyclicChecks`: the
feedback check, the countdowns). `Wait` is the call that only counts the wait down. All times are
calls, that is multiples of 10 ms. Calls are atomic: `BMS_Trigger` has one caller, the 10 ms task, so
the reentrance counter `triggerentry` is always 0 and not modelled. What other tasks do in between is
`FatalErrorChanges` and `SetInitializationRequest`.

- `currentSet` is the set of contactors that are switched on, `feedback` those that read closed.
  The outputs follow `SPS_Ctrl`, which runs in another step, so what reads closed is chosen from
  `Readings`: a contactor outside `Faulty` reads as set; a faulty one is late, stuck or drops out
  (`SensorFaults = FALSE`), or reads anything (`TRUE`).
- `fbEntry` is the debounced mismatch. A decision that reads the error flags through the database may
  see them as they were before or after this call: the copy is refreshed by another task.
- Fatal errors are a set `fatal` that other tasks change, plus the feedback errors and the alert mode,
  which `BMS_Trigger` itself reports. Each has a delay. `delay` is the countdown to the error state;
  the code stores time stamps and subtracts, the model counts down in each call while latched.
- Voltages and currents enter only through comparisons, each of which may come out either way in each
  call (`overBreak` for the break current, choices in the precharge and closing steps).
- Requests from CAN are read twice in some steps; each read has its own value.
- Left out: parts that cannot run (`CHECK_STRING_CLOSED` is never entered; the failure returns of
  contactor functions for contactors that are in the registry), `BMS_CheckOpenSenseWire` (it reports
  to the diagnosis only), `BMS_UpdateBatterySystemState` and the direction of the current, which
  nothing else in the state machine reads. `BMS_GetFirstContactorToBeOpened` is declared without a
  body, so which contactor is opened first is a free choice.

`BMS_UpdateBatterySystemState` is defined twice and some macros of the configuration are missing in
this version of the code; the model takes the intended parts.

### Diag and DiagEntries

`DIAG_Handler` has no lock, and all tasks call it. A task holds the processor until it waits for its
next cycle, unless a task of higher priority becomes ready (`configUSE_PREEMPTION`, no time slicing);
so a task takes a step only if every task above it is idle (`Runs`), and a task above may make a whole
call in between. An action is a piece of the call with one access to a shared variable: the counter,
the list of active errors, their number (read and written back in two actions), the command queue of
the timer. The timer task is the lowest of all; it takes commands from its queue and walks through
the list of errors to send them again, in steps that any task interrupts.

An id of `SystemIds` has one entry, that of string 0 (diag.c:372), the others one for each string.
`NotOkTask` and `OkTask` name the tasks that report an id. For nearly all ids they are the same; deep
discharge and timing violations are cleared by the 1 ms task when the request arrives on CAN.

`DiagEntries` is what `Bms` and `Contactor` take for granted when they update an entry in one step:
seen from outside, an entry changes by one event at a time. `Diag` implements it for ids that one
task reports (`ImplementsEntries`). The others are different: the clearing call of the 1 ms task may
run whole between the counter and the callback of the raising one, whose callback then sets the flag
last, with the counter at zero. With `OkTask` above `NotOkTask` the model has that behaviour.

`DiagHistory` is about the list of active fatal errors, their number and the timer. Tasks of different
priority report fatal errors, and nothing keeps the calls apart: one may find the number at one and not
start the timer, be interrupted by another one, whose error ends and stops it, and go on. Then an error is
active and nothing repeats it (diag.c:154). Nor does anybody notice that a command was dropped (diag.c:155).
The history variable `disturbed` records the two: a call changes the list while another one is between
the list and its last command (`Overlaps`), or a command finds the queue full (`Drops`). What the module
says is that these are the only ways: up to the first of them the three agree whenever nobody is at work on
them (`CountAndTimerAgree`), however the calls interrupt each other otherwise, and without them an active
error is sent again and again (`ActiveErrorsAreResent`).

### Bal

`BAL_Trigger` runs in the 100 ms task; `BMS_Trigger` (10 ms) and the reception of the vehicle's message
(1 ms) interrupt it and write its request slot and the global switch. Taking the request
(`BAL_TransferStateRequest`, a critical section) and processing it are two actions; processing looks
at the switch, the current and the limits once each, so it is one action per state and substate.
Only in the loop of `BAL_ActivateBalancing` the threshold that is set is read several times; the model
takes it as it is at the beginning. `CountDown` is the call that only counts the wait down.

- A cell enters by its `spread`, the voltage above the least of its string. (bal.rst takes the least
  of the complete pack, the code that of each string.) The loop over strings, modules and cells
  lowers the threshold at the first cell above it: `Activated` says which threshold a cell meets.
- Current, limits and spreads change at any time (`Measure`), the limits as one Boolean of all strings.
- `startUp` is how far the system state machine has come; the BMS state machine asks only later. Its
  requests come in any order. `BalClaims` adds the last of them as a variable, for the claim it states.

Observed while modelling, and not the subject of a run: `timeAboveContactorBreakCurrent_ms` is only
ever incremented, so the calls above the break current in earlier openings count for a later one,
whose fuse gets less than the time `battery_system_cfg.h:172` gives it. Supervisor calls are served after a first sector was overwritten only if
both applications have their handler in the same place, which nothing in the bootloader checks.
A loop number that is not the one expected leaves the CAN state alone, so that after a lost word the
next one is taken although its number was wrong (can_cbs.c:547); the CRC finds it.
`ILCK_SetStateRequest` answers a second request as pending or as already done and stores it all the same
(interlock.c:258), where the other modules leave the slot alone; the interlock has one request and one caller.

`numberOfClosedStrings` of the BMS state machine is in `Bms` as `nrClosed`: a precharge contactor that
opens late makes one string count again, and the loss of 30C does not take the strings off, so it is
then not "the number of connected strings" of bms.h:294. Nor does that loss, or a precharge that is given
up (bms.c:1467), reset `closedStrings` and `prechargedStrings`: with every contactor open,
`BMS_IsStringClosed` and `BMS_IsStringPrecharging` (bms.h:282, 289) go on returning true, and the safe operating area
takes a current on that string for a normal one (soa_cfg.c:121). In `Diag`, the list of active errors has
one element per id: when two strings have the same error, the recovery of one takes the id off the
list (diag.c:408), and the other one is not sent again. No run checks these.

### SysMon

The engine task finds violations in one step (it has the highest priority, and looks at the times and
records what it finds without waiting); then the record goes its way through three tasks. An action
is a critical section of `sys_mon.c`, the beginning of `CRC_CalculateCrc`, `SPI_Lock`, the transfer of one
field or a call of `DIAG_Handler`, whose own interleavings are the subject of `Diag`. The 1 ms task and the 10 ms
task both store the record (`SYSM_UpdateFramData`), and the first interrupts the second anywhere; tasks
of lower priority hold the CRC unit and the SPI interface for blocks of their own.

- A record is the set of its fields that are not zero; a second violation of the same task changes
  their values only. `SYSM_RecordTimingViolation` notes each as a change, which is what counts.
- `SYSM_Initialize` reads the FRAM without fail. It runs in the initialization of the engine task
  (test_ftask_cfg.c:164), before any other task gets past its wait for `os_boot` (ftask.c:82-107), and every
  transfer before it has ended, so it does not find the SPI interface in use, the only case in which
  `FRAM_ReadData` reads nothing.
- The CRC is not a variable: `SYSM_Initialize` does not look at the result of `FRAM_ReadData`, which
  leaves what it has read in the record, whether or not its CRC was right. So a record cut by a reset is
  used, and what was in it before and in the new one is kept (`RecordKept`). The version check of
  `FRAM_Initialize`, which runs before any task, is left out.
- `refused` says that the last call of `FRAM_WriteData` found an interface busy. The request has been
  taken back by then and nobody repeats it: the record stays in RAM until the next change. The
  properties speak of the other calls; this is the one way to lose a record short of a reset.
- Which violations there are is not modelled: any set of tasks at any time. In the code, a task is late
  if its last entry is longer ago than its cycle and jitter *and* its last finished run took longer than
  its cycle (sys_mon.c:180). `OS_DelayTaskUntil` returns at once after a run that was too long, and the next
  entry replaces the time: a single overrun is seen only if the next run is late as well, and a run
  that never ends after a short one is not seen at all.

`SYSM_ClearAllTimingViolations` reports `DIAG_EVENT_OK` once for every task (sys_mon.c:246), but the tasks of
one class share a counter whose threshold is zero: only the first of them passes it, and only the flag
its callback belongs to is taken back, where sys_mon.rst:115 says that clearing resets the current
flags and the recorded ones. `SysMon` has this behaviour (`counter`, `flags`); no run checks the sentence.

### Sps

All that touches the driver runs in the 10 ms task: the requests of the contactors, of the port
functions and `SPS_Ctrl`. A step is one call of one of them. Arrays of channels and bits of a register are the sets
of channels that are on.

- A call sends two words: one that triggers a measurement or asks for its result, one that sets the
  outputs. Each transfer is done, reported as failed though the switches took it, or refused because
  the interface is in use (`Outcomes`). After a failure the buffer is evaluated all the same
  (`SPS_GlobalReadCurrent`), so the currents it tells are arbitrary.
- `outputs` and `measured` are what the hardware holds; a reset of the microcontroller leaves them as
  they were. The reset pin switches all outputs off.
- Left out: the order in the daisy chain, the mode and configuration registers, the speed.
- `age`, `steady` and `failed` are history variables; they count calls of `SPS_Ctrl`.

What `SpsLost` shows: a transmission that fails leads back to `SPS_START`, which empties the output
word but not `sps_channelStatus[].channel`. `SPS_SetContactorsTxBuffer` changes the bits of the channels
whose request differs from that array, so a channel that was on stays off until it is requested off
and on again. For a contactor with a feedback, that becomes a feedback error; a precharge contactor has
none.

`FeedbackShowsOutputs` matters to a contactor whose feedback is `CONT_FEEDBACK_THROUGH_CURRENT`; in the
configuration as it is delivered the feedback comes through the port expander. Its bound of
`2 * ResetTicks + 8` calls is 18 with the code's value of five, two below the twenty events the diagnosis
waits for before it reports a contactor (diag_cfg.c:173).

### Sbc and StartUp

`SBC_Trigger` refreshes the watchdog first, whatever its state machine waits for; then it does one step
of the initialization or looks at the ignition. The functions of `nxpfs85xx.c` do their work or fail. What
a refresh does to the two counters of the chip is taken from nxpfs85xx.c:954-959: a good one counts up to
a limit and the one after it takes back a fault; one that failed may have been good, wrong or lost.
`sinceRefresh`, `refreshFailed` and `failures` are history variables.

`StartUp` runs the triggers in the order of their tasks. `turn` is the next one in a pass of the 10 ms task,
`phase` counts passes since the 100 ms task was released, which the 10 ms task may keep from its triggers
for `SlowJitter` passes more. `SYS_Trigger` has one action per step that waits or requests; the steps that
only go on are a table (`Following`). BMS, balancing and insulation monitor are here what the start-up sees
of them: the states up to being initialized, and their request slots. The monitor is driven by
`none_none.c`, the one that needs no device. First measurement and current sensor may be there at any poll,
or never.

- A refresh that fails leaves `watchdogTrigger` at zero (sbc.c:217), which means that none is due: it is not
  repeated, and the chip resets the controller. `RefreshInTime` holds until then.
- `RESET_FAULT_ERROR_COUNTER_PART2` leaves its retries to `SAFETY_PATH_CHECK`, which then has fewer.
- An ignition that is off when `SBC_Trigger` first looks at it is no falling edge: the system stays on.
- The waits for the first measurement and for the current sensor count polls, 50 ms apart, against limits
  in units of 10 ms, so they are five times as long as their names say.
- `INITIALIZATION_RTC` (sys.c:328) has no time limit. It ends because the clock's own initialization gives up
  waiting for the device (rtc.c:568), which is the fairness of `ClockInitialized`.
- `WAIT_INITIALIZATION_BAL_GLOBAL_ENABLE` (sys.c:413) has an error path, but balancing never declines that
  request.

What `SbcTwoFaults` shows: with two faults at power-up, the driver waits for seven refreshes where the chip
needs thirteen, finds a fault left, looks four times within 40 ms and gives up. With one fault or none the
number is right, and `ErrorHasCause` holds.

### Bootloader, BootLoad and AppSlot

The callbacks run in the interrupt of a message, between two passes of the main loop; each callback is
one operator, taken by the host's action that sends the message. A pass of the main loop is one
action: it disables the interrupts wherever it writes. `canState` is moved by both, `bootState` by the
main loop only.

- A word of eight bytes is a pair of its origin and its number; a CRC is represented by the contents
  it was calculated from. Applications fill the flash, so that the CRC over the length of a program
  is the one over all its sectors.
- A flash operation leaves the old contents, the erased sector or the new contents (`Outcomes`); the
  sector of the record, whose parts are written one after the other, also every prefix
  (`TornStores`). Power may fail at each of these points and between two passes. `mishaps` counts both.
- Raising the privileges needs no supervisor call while the processor is in system mode, as it is
  after power-up. Later the call goes through the second vector table, and is served by the
  bootloader's handler or by the one in the first sector of the application that table belongs to
  (`Served`); if neither is there, the processor is lost until power is switched off (`Halt`).
- `CLEARED` is the zero that `BOOT_CleanUpRam` leaves in the state, which is no state's number.
- `BOOT_UpdateProgramInfoIntoFlash` uses the sector buffer as scratch memory; the buffer is not read
  again before it is cleared, so the model leaves it as it was.
- The host waits for an acknowledgement for seconds and takes a step when the main loop has dealt with
  the last message (`Settled`), which it does in microseconds; only the timeout after power-up comes in
  between. Messages and acknowledgements are lost (`Lose`, at most `MaxLost`), never reordered: CAN
  delivers frames of one sender in order.
- Power is switched off on purpose only between sessions; `PowerFails` covers all other times.

`AppSlot` is what the two promise: an application is replaced by way of having none, and what runs is
whole and stays as it is.

After a sector whose CRC is rejected, bootloader.rst:280 says "Otherwise, the bootloader will wait for the
same sector data again." The callbacks do: boot.c:218 restores the transfer and, in the first sector,
the state. The main loop is then in `BOOT_FSM_STATE_ERROR` (boot.c:306), which only a reset leaves: the
sector is taken and acknowledged again, and neither written nor validated. The model has this behaviour;
no run checks the sentence.

### PowerPath

The abstract specification: a pack is disconnected, connecting, connected or disconnecting; the first
connection is through a precharge resistor, only the string that charged the bus may bypass it, the
resistor is out of the path before further strings join one at a time, and the pack is disconnected
only when no string has a connection left. `Bms` implements it under the mapping at the end of
`Bms.tla` (`ImplementsPowerPath`).

## 3. What the runs show

| run | question |
|---|---|
| `BmsPath` | Two strings, one with a precharge path, one main contactor of each read anything at any time: the state machine implements the power path of module PowerPath (first connection through the resistor, bypass by the same string, disconnected only when nothing is connected), reports off only what is off, is in error only with its last request to BAL forbidding balancing, breaks currents as configured, and closes nothing again after an alert. |
| `BmsLive` | One string whose plus contactor is late, sticks or drops out, errors of different delays that come and go in every step, and a 10 ms task that keeps running: what is set agrees with the step reached, the countdown to the error state is loaded correctly, the bus is not connected after it has run out, opening ends, an error in operation is acted on, a latched delay leads to the error state, and a welded contactor is found. |
| `BmsTwoStrings` | With a second string to close the state machine stays in the substate that closes its second contactor and acts on no error and no request any more. *(violation)* |
| `DiagFlags` | Two tasks that report fatal errors, of two strings and of the system, the one interrupted anywhere by the other, and a timer task whose queue may be full: flags and list agree with the counters, each entry changes by whole events as DiagEntries promises, and list, number and timer agree, and an active error is sent again and again, until a call overlaps with one that changes the list or a command is dropped. |
| `BalVoltage` | Two cells, and requests of the vehicle and the BMS state machine that come at any moment: cells are discharged in BALANCE only, the global switch, the limits and a current end it, and nothing that stays the same keeps it from starting. |
| `BalStopped` | The message of the vehicle replaces the request of the BMS state machine to stop balancing before BAL_Trigger has taken it, and balancing goes on. *(violation)* |
| `Boot` | Two applications, and one that is too long, are loaded one over the other with a message lost, a flash operation failing or power failing at any point: what is started is always one whole application, what is reported is so, and every session ends. |
| `SysMon` | Violations of two tasks, messages that clear them or write all blocks, busy interfaces and resets at any step: the FRAM holds the record whenever nobody is at work on it, loses nothing it has taken, and takes each violation in the end. |
| `Sps` | Two channels of one switch, requested at any moment, and an SPI interface that fails at any transfer, before or after the switches have taken it: a channel requested off is off at the third call, one requested on is on in time as long as nothing has failed, and the feedback is right in time for the diagnosis. |
| `SpsLost` | After one failed transfer a channel that is requested on, and noted as on, stays off for good. *(violation)* |
| `StartUp` | The start of the system with a chip, a clock, a measurement and a current sensor that fail or come late, and an ignition that is switched at any time: it ends, it gives up for a reason only, the BMS takes requests with the insulation measured only, the watchdog is refreshed in time throughout, and an ignition switched off is followed. |
| `SbcTwoFaults` | With two faults counted at power-up, the wait for the refreshes that are to clear them ends before they do. *(violation)* |

Bounds. Waits are one call (more for the delays in `BmsLive`), time limits two to four, because only their order
relative to the debounce of the feedback and to each other matters: a limit long enough to be met and
short enough to run out. The delays of `BmsLive` are longer than one call so that errors come and go
while one runs. Two strings are the least where closing a further string, opening in order and the
choice of the string to precharge happen; in `BmsPath` a main contactor of each reads anything, in
`BmsLive`, with one string, the plus contactor is late, sticks or drops out. `CountModulus` stands for 256: it is one above what the strings need, so that a wrap of
`numberOfClosedStrings` is near. Deadlock is checked in every run: `BMS_Trigger` can always be called.

`DiagFlags` has two tasks and two strings, so that the upper task interrupts the lower one at each of its
steps; thresholds of 0 and 1 show both an error raised at once and one that is debounced. The lower task
reports a fatal error of each string, the upper one a fatal error and a lesser one of the system, so that
two fatal errors and two strings meet in the list; and the queue of the timer holds one command and so is full as soon as the timer
task has not run in between: calls overlap and commands are dropped.

`BalVoltage` has two cells, so that one comes after the first that is activated, spreads and thresholds
of up to two steps with a hysteresis of one, and a requested threshold above the largest. The
balancing time is two calls: longer than the short wait, and long enough for requests to come between.

`SysMon` has two monitored tasks: one that is late while the record of the other is on its way, and
three fields, so that a transfer has a first, a middle and a last step.

`Sps` has two channels of one switch, one of them of general purpose, and the reset time of the code:
the bounds of its properties are met exactly. They count calls, so no fairness is assumed.

`StartUp` scales times down and keeps their order: the watchdog's period is longer than a retry, the
100 ms task has four passes and may be one late (its jitter of 5 ms is less than a pass), the limits for
chip and balancing are just enough for the longest way that is in order, and one retry shows the last of
them. Zero or one fault at power-up; `SbcTwoFaults` has the numbers of the code.

`Boot` has two applications that fill two sectors of two words each, in sub-sectors of two words, and a
vector table of two: least sizes at which there is a first and a last sector, a word before the last
of each, and a repetition that begins after something was taken. The third application is too long.
Two sessions load one application over another, over the same or over an interrupted load; the flash
is empty or holds an application at first. One message is lost and one flash operation or power fails
(`MaxLost`, `MaxMishaps`): enough for each message, each acknowledgement and each operation in turn,
and for a loss together with a failure. A sub-sector is sent four times and an application three times
as by the host's defaults.

Fairness. `WF(BMS_Trigger)`: the 10 ms task is a loop around `OS_DelayTaskUntil`. `WF` of the
initialization request: `SYS_Trigger` repeats nothing, it makes the request once and checks its
answer. Errors are raised and taken back without fairness.
`WF(BAL_Trigger)`: likewise, the 100 ms task. Requests, messages and measurements come without fairness.
In `BootLoad`, the main loop runs for ever, its timer runs out, and the host program goes on; messages
are lost, power fails and the user interferes without fairness.
In `SysMon`, the call of a message goes on (`WF`); the 10 ms task and the holders of the interfaces get
the processor again and again between the calls of those above them (`SF`).
In `StartUp`, both tasks run and the clock is read in the end (`WF`), and the chip that is asked again and
again goes to standby once (`SF`: transfers do not fail for ever); all else comes without fairness.
In `Diag`, a call that was begun goes on, interrupted by those above it (`SF`), and the timer task gets the processor again and again
(`SF`: it has the lowest priority, and the tasks wait for their next cycle in between).

The runs whose expected result is a violation check one sentence of a comment or document each; the
findings in `PROJECT.json` quote it and say what the counterexample does.

## 4. What is proved

The theorems about `Bms` hold for every number of strings, every set of fatal errors, every choice of
faulty contactors and all times, under `BmsAssumption` and `ContactorAssumption`: delays are below
`BMS_NO_ACTIVE_DELAY_TIME_ms`, waits and limits are positive, strings with a precharge path are
strings, the modulus of the counter exceeds the number of strings. Those about `Diag` hold for every
number of tasks, strings and ids, all thresholds and every assignment of ids to tasks, under
`DiagAssumption` (types, and a modulus of the count above the number of fatal ids). Those about `Bal`
hold for every number of cells and all thresholds and times, under `BalAssumption` (types, and a
default threshold within its bounds). Those about `StartUp` hold for all periods, limits, waits and faults,
under `SbcAssumption`, `StartUpAssumption` (types, and a 100 ms task that is late by less than its period) and
`WaitAssumption` (its period and jitter are no longer than the two waits between the requests to the insulation
monitor: 50 ms and 100 ms) and `LimitAssumption` (the limits of the waits leave the balancing three calls of the
100 ms task and the chip its refreshes for one fault and its retries: 50 passes against a period of 10, 100
passes against 81). One theorem has a hypothesis besides: `ErrorsHaveCause` is about a chip with at most one
fault at power-up; with two it is false, which is the finding of `SbcTwoFaults`.

| theorem | what it says |
|---|---|
| `BmsProofs!Invariance` | The inductive invariant: the types, and that the contactors set agree with the step of BMS_Trigger; neither is inductive alone. |
| `BmsProofs!TypeCorrect` | Every variable of the BMS state machine keeps its type, for every number of strings and every configuration. |
| `BmsProofs!StepsFollowed` | In every step of precharging, operating and opening the contactors set are those the step stands for, whatever the feedback reads. |
| `BmsProofs!SafeStatesAreSafe` | Outside OPEN_CONTACTORS, PRECHARGE and NORMAL no contactor is set. |
| `BmsSafetyProofs!BalancingIsForbidden` | The error state is only reached with the last request of the BMS to BAL forbidding balancing. |
| `BmsSafetyProofs!OffMeansOff` | While the database shows a state that is off, no contactor is set. |
| `BmsSafetyProofs!AlertStaysFinal` | After the alert mode was raised no contactor is closed. |
| `BmsSafetyProofs!DelayIsLoaded` | The countdown to the error state never runs beyond the least delay of the errors seen. |
| `BmsSafetyProofs!NoLateConnection` | No string is connected to the bus after the delay of a fatal error has run out, except by the closing of further strings. |
| `BmsSafetyProofs!BreakCurrent` | A connected string is only broken in OPEN_FIRST, with the current below its limit or the alert mode raised, or by the handling of a lost 30C supply. |
| `BmsSafetyProofs!PowerPathImplemented` | The state machine implements the abstract power path: initial states and steps map to those of PowerPath. |
| `DiagProofs!DiagTypeCorrect` | However tasks interrupt each other between reading and writing a counter, no counter passes its threshold by more than one or falls below zero. |
| `DiagProofs!FlagsAreRight` | For every id that one task reports, the flag is set with the counter above the threshold and reset with the counter at zero, but for the call at work on it. |
| `DiagProofs!ListedErrorsAreFlagged` | A fatal error on the list of active errors has its flag set on some string, or the call that sets it is under way. |
| `DiagProofs!CountAndTimerFollow` | When no call is at work on them, the number of active errors is that of the list and the timer runs, or is about to, exactly if there is one, whichever tasks report them, until a call overlaps with another one that changes the list or a command finds the queue full. |
| `DiagProofs!EntriesImplemented` | Initial states and steps of the diagnosis map to those of DiagEntries, for the ids that one task reports: each entry changes by whole events. |
| `BalProofs!BalTypeCorrect` | Thresholds stay within their bounds and no wait exceeds the balancing time, for every number of cells and all thresholds. |
| `BalProofs!CellsOnlyInBalance` | No cell is discharged outside BALANCE or without the flags that say so. |
| `BalProofs!GlobalDisableObeyed` | A call that processes a request while balancing is globally disabled ends with no cell being discharged. |
| `BootProofs!BootTypeCorrect` | Every variable of the bootloader keeps its type, and no word of a vector table is written behind its end, for every size and every application. |
| `BootProofs!OwnTableIsKept` | Whatever is loaded, repeated, torn or reset, the bootloader's own vector table is in force or saved. |
| `BootProofs!AcknowledgedSectorsStay` | What the transfer counts as validated is in flash, whatever was lost or failed on the way. |
| `BootProofs!SlotImplemented` | Whatever is lost, interrupted, torn or loaded one over the other, what can be started is one whole application with its own vector table: every step of the bootloader and the host is a step of the abstract slot or leaves it alone. |
| `BootProofs!ReportsAreTrue` | If no flash operation and no power fails and the applications fill the flash, what the host reports as loaded is what can be started, and after a reset nothing can, whatever messages were lost and whenever the user interrupts the host or asks to run. |
| `BootProofs!SupervisorCallsServed` | If the applications have their handler of supervisor calls in one place and fill a flash of more than one sector, no flash operation and no power fails and no data is lost, the bootloader never calls a handler that is not there: not while one application is written over another, not between the new table and the reset, not during the erasure. |
| `BootProofs!UploadsSurviveLosses` | If applications fill a flash of more than one sector, which whole sub-sectors fill, have their handler of supervisor calls in one place and are sent at least three times, the host gives up no upload as long as nothing fails, no data or acknowledgement is lost, fewer loop numbers are lost than a sub-sector is tried and at most one word of the vector table is. |
| `SysMonProofs!SysMonTypeCorrect` | Every variable of the monitoring keeps its type, for any number of tasks, with resets and messages at any step. |
| `SysMonProofs!RecordStaysInStep` | Whenever no task is storing the record, nothing is left to be stored and the last call was not refused, the FRAM holds exactly the local record. |
| `SysMonProofs!RecordIsKept` | Resets, refused and interrupted transfers lose nothing that the FRAM has taken; only the message that clears the record does. |
| `SpsProofs!SpsTypeCorrect` | Every variable of the driver keeps its type, for any channels and any reset time of at least two ticks. |
| `SpsProofs!OffIsObeyed` | A channel requested off is off at the third call of SPS_Ctrl at the latest, whichever transfers fail. |
| `SpsProofs!OnIsObeyed` | As long as no transfer has failed, a channel requested on is on after the calls that reset and configuration take. |
| `SpsProofs!FeedbackIsInTime` | The currents read back show the outputs after a whole reset and a round of measurements at the latest, if no output changes and no transfer fails in the meantime. |
| `StartUpProofs!RefreshedInTime` | While no refresh has failed, the watchdog is refreshed when its period is over, neither before nor after, whatever the driver waits for. |
| `StartUpProofs!InsulationMeasured` | A BMS that takes requests has the insulation measured: the 100 ms task has taken the request to initialize the monitor before the BMS asks to switch it on. |
| `StartUpProofs!ErrorsHaveCause` | The start-up never gives up the balancing, the insulation monitor or the BMS, and the system basis chip only if a call of its driver failed more often than it retries or a refresh of the watchdog failed: with at most one fault of the chip at power-up, whatever the phase and the delay of the 100 ms task. |

*The invariant.* `TypeOK` is not inductive: in `NORMAL_CLOSE_SECOND` the string at hand must be one of
the pack, which depends on what the step before established. `ContactorsFollowSteps` is not inductive
without it either, so `BmsProofs` proves the conjunction `IInv`: for each substate, which contactors
may be set. This is the fact the code relies on and never states, since `BMS_Trigger` looks at the
step it has reached and never at what it has set. `SafeStatesDisconnected` is a conjunct of it, and no
run lists it on its own.

*The safety theorems* strengthen it where the property needs more: `AlertSteps` says in which steps the
alert mode can be pending, `BalancingSteps` where balancing may have been allowed again, `ReportSteps`
how the reported state trails the actual one. `DelayLoaded` is inductive with the types.

*The refinement* is proved step by step: from `IInv`, every action of `Bms` maps to an action of
`PowerPath` or leaves its variables alone.

*The diagnosis.* `TypeOK` of `Diag` says that no counter passes its threshold by more than one, though
the value written may be one that was read before other tasks ran. It needs `CounterWasRead`: while a
call holds such a value, the counter has moved only away from the threshold that call is about to
pass, because the one other task that writes it reports the opposite event. The flags need
`LateCounter`, what a call on its way to the callback has made of its counter, and the list
`UnlistedWhenClearing`. These three, and the refinement, are about the ids that one task reports;
the argument is that two calls on such an id are the same call (`OneCall`).
`CountAndTimerFollow` has no hypothesis on tasks or queue. Its invariant (`HistoryInv`) says that until
`disturbed` one call at a time is at work on the number (`OneCounts`), and how far it has got: a call that has
changed the list has yet to change the number (`HalfDone`), one that has changed the number has yet to send the
command, and with nobody at work all agree (`AllDone`, together `CountInv`); it counts the list with the theorems
about cardinality.

*Balancing.* `OnlyWhileBalancing` is inductive with the types: whoever leaves `BALANCE` looks at the
flag `active`, and the invariant says that no cell is on without it. `GlobalDisableObeyed` follows in
each step from it; with the bound on `timer` in `TypeOK`, the cells are off at most
`BAL_FSM_BALANCING_TIME_100ms` calls after the switch.

*System monitoring.* The theorems hold for any number of monitored tasks. `RecordInStep` speaks of the
moments between the calls; `StepInv` is what is true in the midst of them: without a change to be copied
the two records in RAM agree (`Copied`), at most one task transfers (`OneSends`), and the fields already
transferred agree with RAM (`SentAgrees`), unless the 1 ms task has replaced the record under the
transfer of the 10 ms task, whose interface its own call then finds busy (`Behind`, `refused`).
`RecordKept` needs `KeptInv`: what the FRAM has taken is in both records in RAM, except between the clearing
and the copy that follows it in the same call.

*Smart power switches.* The theorems hold for any set of channels and every reset time of two ticks or
more (`SpsAssumption`). `Way` says what each state knows of timer, outputs and the two images of a channel;
`Elapsed` how many calls lead to each state after a failure or a start. `Ages` and `Feedback` add what has
been waiting for how long: in the cycle of measurements a channel differs from its request since the
last call only, and a current that has not been read since its output changed waits for its state,
whose place in the cycle bounds the calls (`Place`, `AlreadyRead`).

*Start-up.* `WatchdogInv` says that the calls since the last refresh and those to the next make up the
period. `InsulationMeasured` is an argument about time between two tasks: when the BMS asks, the 100 ms task
must have taken the earlier request. `Remaining` bounds the passes of the 10 ms task until the 100 ms task has
run, `Left` those until the BMS asks; each pass takes one from the former and at most one from the latter,
so `Remaining < Left`, which `WaitAssumption` gives when the request is made, is kept (`TakenInTime`).
`ErrorsHaveCause` follows the time of every wait in the same way. For the balancing, the polls made so far, the
passes to its next call (`ToBalCall`) and those from there to the end (`ToBalEnd`) stay below three periods and
the jitter (`BalInTime`). For the chip, `Work` is the number of calls to the end of its initialization, retries
included, and the polls and `Work` stay within the limit (`SbcInTime`). The wait for the refreshes is what needs
the chip: `ToClear` is the number of calls until its last fault is taken back, and either the wait that was set
is that long (`Clean`) or a call has already failed once too often (`Spoilt`): then the retries end before the
faults do, so that the driver never gets to `RUNNING` by luck, and its error has a cause.

*The bootloader.* The theorems hold for every number and size of sectors, every length of the vector
table, all applications and every number of losses and failures, under `SizeAssumption`,
`OriginAssumption` (the bootloader's words, zeros and erased words belong to no application) and
`HostAssumption`. `OwnTableInv` adds to `OwnTableKept` where a table of an application can be: a torn
record has neither table, and the copy in RAM is never saved twice. `AcknowledgedIsInFlash` needs
`FlashInv`, which follows the transfer from the host to the flash: the progress the callbacks count
(`ProgressTypes`), the step of the host that a taken word belongs to (`HostTypes`), nothing counted
before the first sector (`NothingBefore`) and, sector by sector, that the CRC counted so far is the one
of what is in flash (`SectorsInFlash`). The types need it too: `TableWordsCounted` keeps the count of the
vector table's words within the table.

`SlotImplemented` rests on the same invariants and on `OneImageInv`: between the host, the copy in RAM, the
record and the flash, everything that has been received belongs to one application, and a CRC that matches
tells which (`TableCrc`, `FlashOfOne`; words of different origin differ, `WordAssumption`). `ReportsAreTrue` is the
theorem about both sides: `Acknowledged` says what the host has been told and what the main loop has done or is
about to do, from the acknowledgement to the last write. It needs `LoopsCounted` (loop, sector and position of a
transfer follow from one another, so that the last loop is the last word of the flash), `StatesAgree` (which
states of the CAN communication occur in which states of the main loop), `AllOnBoard` (behind the last sector
the CRC is the one of the flash) and, if nothing fails, `TableOfOne`. Its hypothesis `FillsFlash` says that a
sector has more than one loop (the controller's have 4096 or 16384) and that no application is announced with
fewer loops than the flash has, which is what the model takes an application to be (see `Bootloader` above);
with a single loop a sector a transfer would end one sector early.

`SupervisorCallsServed` follows the second vector table and the first sector of the flash together (`CallsServed`):
either the bootloader's own table is in force, or the record has an application and the first sector is one of
an application. What is written there comes from the buffer, so the proof needs `FirstSectorBuffered`: what
has been received of the first sector is of one application, word for word. That holds because a number the
bootloader has taken is followed by the word it belongs to (`NumberInTurn`): a lost number makes it drop
the word too, and only a lost word, which the property excludes, leaves a hole. Besides `FillsFlash` the
theorem asks for more than one sector (the controller has 25 for applications), so that the first sector is not
cut short as the last one may be.

`UploadsSurviveLosses` says what host and bootloader know of each other at every message of a session. As long
as no more is lost than the property allows (`Bearable`), `Uploading` gives for each state of the host what
the callbacks have received and which loop they expect, `BeforeNumber` before a loop number is sent,
`BeforeData`, `AfterSubSector`, `BeforeCrc` and `AfterCrc` in a sector, and four more in the vector table;
`Preparing` and `BootBegins` lead there. The host never is in `failed`, whence the theorem. Each repetition
of a sub-sector is charged to a loop number that was lost since (`Repeated`), and the bootloader drops what
it has already got. What needs an argument is where a repetition begins: the loop expected is never before the
sub-sector that is sent (`InSector`), because a sector ends with one, which is the hypothesis that
`SubSectorLoops` divides `SectorLoops` (1024, and 4096 or 16384). A lost word of the vector table costs two
attempts, not one: the first word of the repetition completes the table of the first attempt, the CRC refuses
it, and only the next attempt begins a table anew (`WordLost`, `SecondAttempt`). Hence the hypothesis
`Attempts >= 3`, which the host's default meets exactly. The other hypotheses are those of
`SupervisorCallsServed`, which the proof uses: a halted bootloader would acknowledge nothing.

With this, every invariant and action property of the passing runs is stated by a theorem. Only model-checked
are the liveness properties, since TLAPS does not prove properties under fairness, and the expected
violations, which are behaviours to be shown and not facts to be proved.

## 5. Not modelled, and the plan

Not modelled at all, with the reason in `PROJECT.json`: the algorithms in floating point, register
protocols of the vendor drivers, Ethernet and UART, tools and vendored code.

Planned, in this order, the most important behaviour first:

1. `Sps` composed with `Bms` and `Contactor`: replaces `Readings` by the outputs and their way back.
2. The times of the tasks in `SysMon`: which overruns the comparison of sys_mon.c:180 finds.
3. `Bms` composed with `Bal`, instead of its variable `balancing`.
4. `Database`: the queue of pointers; abstract specification: an atomic memory. Theorem: refinement.
5. `Tasks`: the hand-over of the boot phase.
6. `Spi`: the lock of the interface between tasks and interrupts.
7. `Can`, `Redundancy`, `Interlock`.
