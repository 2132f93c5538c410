------------------------------- MODULE SysMon -------------------------------
(***************************************************************************)
(* System monitoring (src/src/app/engine/sys_mon/sys_mon.c): what becomes  *)
(* of a timing violation that the engine task has found.  It is reported   *)
(* to the diagnosis, recorded in RAM, copied to the record of the FRAM     *)
(* module and written to the FRAM, from which it is read back after a      *)
(* reset; a message on CAN clears it.                                      *)
(*                                                                         *)
(* Four tasks take part, by falling priority: the engine task finds the    *)
(* violations in one step, the 1 ms task receives the messages, the 10 ms  *)
(* task stores the record, and those of lower priority write their own     *)
(* blocks, for which they hold the CRC unit or the SPI interface.  A task  *)
(* takes a step only if those above it have nothing to do.  An action is   *)
(* a critical section, a call of DIAG_Handler, whose own interleavings are *)
(* the subject of Diag, or the transfer of one field.                      *)
(*                                                                         *)
(* Task i has the id i - 1; 1 is the engine task.  A record is a set: the  *)
(* tasks whose duration and time stamp are not zero, and 0 for             *)
(* anyTimingIssueOccurred, in the order they are transferred.  The CRC is  *)
(* left out: SYSM_Initialize uses what it has read, right or wrong.        *)
(***************************************************************************)
EXTENDS Naturals

CONSTANT NrOfTasks      \* SYSM_TASK_ID_MAX

ASSUME SysMonAssumption == NrOfTasks \in Nat \ {0}

Tasks == 1 .. NrOfTasks
Fields == 0 .. NrOfTasks
Callers == {"cyclic1ms", "cyclic10ms"}

VARIABLES
    local,      \* sysm_localFramCopy
    changed,    \* sysm_flagFramCopyHasChanges
    ram,        \* fram_sysMonViolationRecord
    fram,       \* its block in the FRAM
    call,       \* what each task is doing in SYSM_UpdateFramData or before
    entry,      \* the loop variable of SYSM_ClearAllTimingViolations
    sent,       \* the fields FRAM_WriteData has transferred
    refused,    \* FRAM_WriteData found an interface busy, and has not
                \* begun to write the record since
    other,      \* what a task of lower priority holds for its own block
    counter,    \* diag.occurrenceCounter of DIAG_ID_SYSTEM_MONITORING
    flags,      \* tasks whose timing violation error is set in the database
    stored      \* history: what the FRAM has taken since the last clearing

diagVars == <<counter, flags>>
recordVars == <<local, changed>>
writeVars == <<ram, fram, sent, refused, stored>>
vars == <<local, changed, ram, fram, call, entry, sent, refused, other,
          counter, flags, stored>>

Steps == {"idle", "clear", "record", "look", "copy", "crc", "lock", "send"}

\* A task runs if those of higher priority wait for their next cycle.
Runs(c) == c = "cyclic10ms" => call["cyclic1ms"] = "idle"
At(c, s) == Runs(c) /\ call[c] = s
GoTo(c, s) == call' = [call EXCEPT ![c] = s]
AllIdle == \A c \in Callers : call[c] = "idle"

-----------------------------------------------------------------------------
(* The engine task *)

SYSM_RecordTimingViolation(late) ==
    /\ local' = local \union late \union {0}
    /\ changed' = TRUE

\* DIAG_EVENT_NOT_OK for each of the tasks: the entry has one counter and a
\* threshold of zero, so only the first of them calls the callback, and only
\* if the error is not active.
Raise(late) ==
    /\ counter' = 1
    /\ flags' = IF counter = 1 THEN flags
                ELSE flags \union {t \in late : \A u \in late : t <= u}

SYSM_CheckNotifications ==
    \E late \in SUBSET Tasks \ {{}} :
        /\ Raise(late) /\ SYSM_RecordTimingViolation(late)
        /\ UNCHANGED <<call, entry, other, writeVars>>

-----------------------------------------------------------------------------
(* The 1 ms task: messages on CAN *)

CANRX_ClearAllPersistentFlags ==
    /\ At("cyclic1ms", "idle") /\ GoTo("cyclic1ms", "clear")
    /\ entry' = 1
    /\ UNCHANGED <<recordVars, writeVars, other, diagVars>>

\* DIAG_EVENT_OK for the next task: with the counter at zero there is
\* nothing to do for it.
ClearEntry ==
    /\ At("cyclic1ms", "clear")
    /\ entry' = IF entry = NrOfTasks THEN entry ELSE entry + 1
    /\ GoTo("cyclic1ms", IF entry = NrOfTasks THEN "record" ELSE "clear")
    /\ counter' = 0
    /\ flags' = IF counter = 1 THEN flags \ {entry} ELSE flags
    /\ UNCHANGED <<recordVars, writeVars, other>>

ClearRecord ==
    /\ At("cyclic1ms", "record") /\ GoTo("cyclic1ms", "look")
    /\ local' = {} /\ changed' = TRUE /\ stored' = {}
    /\ UNCHANGED <<ram, fram, entry, sent, refused, other, diagVars>>

\* The debug message that writes all blocks again as they are in RAM.
FRAM_ReinitializeAllEntries ==
    /\ At("cyclic1ms", "idle") /\ GoTo("cyclic1ms", "crc")
    /\ UNCHANGED <<recordVars, writeVars, entry, other, diagVars>>

-----------------------------------------------------------------------------
(* SYSM_UpdateFramData and FRAM_WriteData, by the 1 ms and the 10 ms task *)

Unrecorded == UNCHANGED <<recordVars, entry, other, diagVars>>

\* Mutant: only a first violation is stored.
Look_StoresFirst(c) ==
    /\ At(c, IF c = "cyclic1ms" THEN "look" ELSE "idle")
    /\ GoTo(c, IF changed /\ fram = {} THEN "copy" ELSE "idle")
    /\ Unrecorded /\ UNCHANGED writeVars

Look(c) ==
    /\ At(c, IF c = "cyclic1ms" THEN "look" ELSE "idle")
    /\ GoTo(c, IF changed THEN "copy" ELSE "idle")
    /\ Unrecorded /\ UNCHANGED writeVars

Copy(c) ==
    /\ At(c, "copy") /\ GoTo(c, "crc")
    /\ ram' = local /\ changed' = FALSE
    /\ UNCHANGED <<local, fram, entry, sent, refused, other, diagVars, stored>>

\* CRC_CalculateCrc and SPI_Lock return at once if they are in use.
CrcBusy == other = "crc" \/ \E c \in Callers : call[c] = "lock"
SpiBusy == other = "spi" \/ \E c \in Callers : call[c] = "send"

CalculateCrc(c) ==
    /\ At(c, "crc") /\ GoTo(c, IF CrcBusy THEN "idle" ELSE "lock")
    /\ refused' = (refused \/ CrcBusy)
    /\ Unrecorded /\ UNCHANGED <<ram, fram, sent, stored>>

Lock(c) ==
    /\ At(c, "lock") /\ GoTo(c, IF SpiBusy THEN "idle" ELSE "send")
    /\ refused' = SpiBusy
    /\ sent' = IF SpiBusy THEN sent ELSE 0
    /\ Unrecorded /\ UNCHANGED <<ram, fram, stored>>

\* One field of the record, as it is at this time.
Send(c) ==
    /\ At(c, "send") /\ sent <= NrOfTasks
    /\ sent' = sent + 1
    /\ fram' = IF sent \in ram THEN fram \union {sent} ELSE fram \ {sent}
    /\ stored' = IF sent \in ram THEN stored \union {sent} ELSE stored
    /\ Unrecorded /\ UNCHANGED <<ram, call, refused>>

\* Mutant: the change counts as stored when the transfer has ended.
Unlock_ForgetsChange(c) ==
    /\ At(c, "send") /\ sent = NrOfTasks + 1 /\ GoTo(c, "idle")
    /\ changed' = FALSE
    /\ UNCHANGED <<local, entry, other, diagVars, writeVars>>

\* SPI_Unlock.
Unlock(c) ==
    /\ At(c, "send") /\ sent = NrOfTasks + 1 /\ GoTo(c, "idle")
    /\ Unrecorded /\ UNCHANGED writeVars

SYSM_UpdateFramData(c) ==
    Look(c) \/ Copy(c) \/ CalculateCrc(c) \/ Lock(c) \/ Send(c) \/ Unlock(c)

\* FRAM_WriteData of another block by a task of lower priority.
OtherBlock ==
    /\ AllIdle
    /\ other' = CASE other = "idle" -> "crc" [] other = "crc" -> "spi"
                  [] other = "spi" -> "idle"
    /\ UNCHANGED <<recordVars, writeVars, call, entry, diagVars>>

-----------------------------------------------------------------------------
(* Reset and specification *)

\* Mutant: the local record starts anew and is to be stored.
SYSM_Initialize_StartsAnew == ram' = fram /\ local' = {} /\ changed' = TRUE

\* FRAM_ReadData into the record, and the copy of it.  It runs in the
\* initialization of the engine task, before any other task and with no transfer
\* under way, so SPI_Lock does not refuse it; that the CRC is wrong, or cannot be
\* calculated, leaves what was read in the record, and nobody looks at the answer.
SYSM_Initialize == ram' = fram /\ local' = fram /\ changed' = FALSE

\* A reset at any time: only the FRAM keeps what it has.
Restart ==
    /\ SYSM_Initialize
    /\ call' = [c \in Callers |-> "idle"] /\ entry' = 1 /\ sent' = 0
    /\ refused' = FALSE /\ other' = "idle" /\ counter' = 0 /\ flags' = {}
    /\ UNCHANGED <<fram, stored>>

Init ==
    /\ fram \in SUBSET Fields /\ stored = fram
    /\ local = fram /\ ram = fram /\ changed = FALSE
    /\ call = [c \in Callers |-> "idle"] /\ entry = 1 /\ sent = 0
    /\ refused = FALSE /\ other = "idle" /\ counter = 0 /\ flags = {}

Next ==
    \/ SYSM_CheckNotifications
    \/ CANRX_ClearAllPersistentFlags \/ ClearEntry \/ ClearRecord
    \/ FRAM_ReinitializeAllEntries
    \/ \E c \in Callers : SYSM_UpdateFramData(c)
    \/ OtherBlock
    \/ Restart

\* A call that was begun goes on, and the tasks of lower priority get the
\* processor again and again.
Spec ==
    /\ Init /\ [][Next]_vars
    /\ WF_vars(ClearEntry) /\ WF_vars(ClearRecord)
    /\ WF_vars(SYSM_UpdateFramData("cyclic1ms"))
    /\ SF_vars(SYSM_UpdateFramData("cyclic10ms"))
    /\ SF_vars(other # "idle" /\ OtherBlock)

-----------------------------------------------------------------------------
(* Properties *)

TypeOK ==
    /\ local \subseteq Fields /\ ram \subseteq Fields /\ fram \subseteq Fields
    /\ stored \subseteq Fields /\ flags \subseteq Tasks
    /\ changed \in BOOLEAN /\ refused \in BOOLEAN
    /\ call \in [Callers -> Steps]
    /\ entry \in Tasks /\ sent \in 0 .. NrOfTasks + 1
    /\ other \in {"idle", "crc", "spi"} /\ counter \in {0, 1}

\* When nobody is at work on it, no change is left to be stored and the last
\* call of FRAM_WriteData was not refused, the FRAM holds the record: no
\* violation found between two steps of storing it, and no clearing in the
\* midst of it, is forgotten (sys_mon.c:267-278).
RecordInStep ==
    AllIdle /\ ~changed /\ ~refused => fram = local

\* What the FRAM has taken stays in it until a message clears it, whatever
\* is written, refused or cut off by a reset (sys_mon.rst, "These flags will
\* not be cleared automatically").
RecordKept == stored \subseteq fram

\* A violation in the record is stored, unless it is cleared, or FRAM_WriteData
\* is refused and nobody looks at it (sys_mon.c:277).
ViolationIsStored ==
    \A t \in Tasks : t \in local ~> (t \in fram \/ t \notin local \/ refused)
=============================================================================
