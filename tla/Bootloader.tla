----------------------------- MODULE Bootloader -----------------------------
(***************************************************************************)
(* The embedded bootloader (src/src/bootloader): the state of the CAN      *)
(* communication, which the callbacks of the received messages move, and   *)
(* the state of the boot process, which the main loop moves; the flash     *)
(* sectors of the application and the sector with the program information, *)
(* the backup of the bootloader's vector table and the vector table in     *)
(* force.                                                                  *)
(*                                                                         *)
(* Callbacks run in the interrupt of a message, between two steps of the   *)
(* main loop; every step that disables the interrupts is one action.       *)
(*                                                                         *)
(* A word of 8 bytes is a pair <<origin, number>>.  The CRC of a sector is *)
(* chained to the one of the sectors before it; it is represented by the   *)
(* contents it was calculated from, so that different contents have        *)
(* different CRCs.                                                         *)
(***************************************************************************)
EXTENDS Integers, Sequences

CONSTANTS
    Images,         \* the applications a host may load
    Loops,          \* the number of transfer loops each of them needs
    NumSectors,     \* flash sectors of the application
    SectorLoops,    \* transfer loops (words) in a sector
    SubSectorLoops, \* transfer loops that are acknowledged at a time
    TableWords,     \* words in a vector table
    SvcEntry,       \* where an application has its supervisor call handler
    Own,            \* origin of the bootloader's own vector table
    Zero, Erased,   \* origin of words that are written as 0, of erased words
    MaxMishaps,     \* bound: failing flash operations and power failures
    MaxLost         \* bound: CAN messages that are lost

ASSUME SizeAssumption ==
    /\ NumSectors \in Nat \ {0}
    /\ SectorLoops \in Nat \ {0}
    /\ SubSectorLoops \in Nat \ {0}
    /\ TableWords \in Nat \ {0}
    /\ MaxMishaps \in Nat /\ MaxLost \in Nat

ASSUME OriginAssumption ==
    /\ {Own, Zero, Erased} \intersect Images = {}
    /\ Own # Zero /\ Own # Erased /\ Zero # Erased

VARIABLES
    canState,       \* can_stateOfCanCommunication
    bootState,      \* boot_state
    transfer,       \* can_infoOfDataTransfer
    copy,           \* can_copyOfInfoOfDataTransfer
    validations,    \* boot_numOfCurrentCrcValidation
    buffer,         \* the sector buffer in RAM
    flash,          \* the sectors of the application
    store,          \* the program info sector with the two vector tables
    autoRun,        \* finishedOneAutoRun
    privileged,     \* whether the processor is in system mode
    mode,           \* what the processor executes
    mishaps,        \* flash operations that failed, power failures
    acks,           \* acknowledgements sent and not yet read by the host
    lost            \* CAN messages lost so far, by kind

progress == <<transfer, copy, buffer>>
persistent == <<flash, store, mishaps>>
processor == <<autoRun, privileged, mode>>
bus == <<acks, lost>>
boot == <<canState, bootState, validations, progress, persistent, processor,
          bus>>

-----------------------------------------------------------------------------
(* Data *)

Total == NumSectors * SectorLoops

SectorOf(i, s) ==
    [n \in 1 .. SectorLoops |-> <<i, (s - 1) * SectorLoops + n>>]
ProgramOf(i) == [s \in 1 .. NumSectors |-> SectorOf(i, s)]
TableOf(i) == [k \in 1 .. TableWords |-> <<i, -k>>]
Fill(origin, size) == [k \in 1 .. size |-> <<origin, 0>>]

Chain(root, sector) == Append(root, sector)

\* CLEARED is the 0 that BOOT_CleanUpRam leaves, which is no state's number.
CanStates == {"CLEARED", "NO_COMMUNICATION", "WAIT_FOR_INFO", "WAIT_FOR_DATA_LOOPS",
    "RECEIVED_LOOP_NUMBER", "RECEIVED_8_BYTES_DATA", "RECEIVED_8_BYTES_CRC",
    "FINISHED_FINAL_VALIDATION", "FINISHED_TRANSFER_VECTOR_TABLE",
    "VALIDATED_VECTOR_TABLE", "RUN_PROGRAM", "RESET_BOOT", "ERROR"}
LoadStates == {"WAIT_FOR_INFO", "WAIT_FOR_DATA_LOOPS",
    "RECEIVED_LOOP_NUMBER", "RECEIVED_8_BYTES_DATA", "RECEIVED_8_BYTES_CRC",
    "FINISHED_FINAL_VALIDATION", "FINISHED_TRANSFER_VECTOR_TABLE",
    "VALIDATED_VECTOR_TABLE"}
BootStates == {"WAIT", "LOAD", "RUN", "RESET", "ERROR"}

Ack(message, yes) == [message |-> message, yes |-> yes]
Messages == {"TRANSFER", "INFO", "SUB_SECTOR", "CRC", "TABLE", "TABLE_CRC",
             "RESET"}

InitialTransfer ==
    [total |-> 0, loop |-> 0, crc |-> <<>>, onBoard |-> <<>>, sector |-> 1,
     position |-> 0, received |-> 0, table |-> Fill(Zero, TableWords),
     tableCrc |-> <<>>]

\* BOOT_CleanUpRam leaves zeros, also where the addresses of the first sector
\* and of the sector buffer have been.
ClearedTransfer == [InitialTransfer EXCEPT !.sector = 0, !.position = -1]

InitialStore ==
    [magic |-> FALSE, available |-> FALSE, crc |-> <<>>,
     tableCrc |-> <<>>, backup |-> Fill(Erased, TableWords),
     table |-> TableOf(Own)]
InstalledStore(i) ==
    [magic |-> TRUE, available |-> TRUE, crc |-> ProgramOf(i),
     tableCrc |-> TableOf(i), backup |-> TableOf(Own), table |-> TableOf(i)]

HasZero(table) == \E k \in 1 .. TableWords : table[k] = <<Zero, 0>>

\* What BOOT_LoadProgramInfoFromFlash leaves in RAM.
Loaded ==
    IF store.magic
    THEN store
    ELSE [store EXCEPT !.available = FALSE, !.crc = <<>>, !.tableCrc = <<>>,
                       !.backup = Fill(Zero, TableWords)]

\* Whether a supervisor call is served: the second vector table leads to the
\* bootloader's own handler or to that of an application, which is in its
\* first sector.
Served(table, sectors) ==
    \/ table = TableOf(Own)
    \/ \E i, j \in Images : /\ table = TableOf(i)
                            /\ sectors[1] = SectorOf(j, 1)
                            /\ SvcEntry[i] = SvcEntry[j]

\* Mutant: only the vector table is checked.
Validated_TableOnly == Loaded.available /\ Loaded.tableCrc = store.table

\* What BOOT_LoadProgramInfoFromFlash finds available and valid.
Validated ==
    /\ Loaded.available
    /\ Loaded.crc = flash
    /\ Loaded.tableCrc = store.table

\* A flash operation that is to leave new: it may fail before or after the
\* erasing, when torn is what it leaves.
Outcomes(old, new, torn) ==
    {[left |-> new, ok |-> TRUE]} \union
    (IF mishaps < MaxMishaps
     THEN {[left |-> old, ok |-> FALSE]} \union
          {[left |-> t, ok |-> FALSE] : t \in torn}
     ELSE {})

\* The info sector is written from its beginning: the magic number, the
\* record, the backup table, and at its end the table in force.
TornStores(new) ==
    LET blank == [new EXCEPT !.magic = FALSE, !.available = FALSE,
                             !.crc = <<>>, !.tableCrc = <<>>,
                             !.backup = Fill(Erased, TableWords),
                             !.table = Fill(Erased, TableWords)]
    IN {blank, [blank EXCEPT !.magic = new.magic],
        [new EXCEPT !.backup = blank.backup, !.table = blank.table],
        [new EXCEPT !.table = blank.table]}

TornSectors == {Fill(Erased, SectorLoops)}

Restarted(m) ==
    /\ mode' = m
    /\ canState' = "NO_COMMUNICATION" /\ bootState' = "WAIT"
    /\ transfer' = InitialTransfer /\ copy' = ClearedTransfer
    /\ validations' = 0 /\ buffer' = Fill(Zero, SectorLoops)
    /\ autoRun' = FALSE /\ privileged' = TRUE

Mishap == mishaps < MaxMishaps /\ mishaps' = mishaps + 1

\* The handler of a supervisor call is gone: the bootloader executes nothing
\* that makes sense until power is switched off and on.
Halt == Restarted("halted")

-----------------------------------------------------------------------------
(* Callbacks of the received messages *)

Lose(kind) ==
    /\ lost["number"] + lost["table"] + lost["other"] < MaxLost
    /\ lost' = [lost EXCEPT ![kind] = @ + 1]
    /\ UNCHANGED acks

\* CAN_SendAcknowledgeMessage: its result is not looked at.
Send(a) ==
    \/ acks' = Append(acks, a) /\ UNCHANGED lost
    \/ Lose("other")

Silent == UNCHANGED bus

RxTransferRequest ==
    IF canState = "NO_COMMUNICATION"
    THEN canState' = "WAIT_FOR_INFO" /\ Send(Ack("TRANSFER", FALSE))
    ELSE UNCHANGED canState /\ Silent

RxRunRequest ==
    /\ canState' = IF canState = "NO_COMMUNICATION" THEN "RUN_PROGRAM"
                                                    ELSE canState
    /\ Silent

RxResetRequest == canState' = "RESET_BOOT" /\ Send(Ack("RESET", FALSE))

RxActionRequest(request) ==
    /\ CASE request = "TRANSFER" -> RxTransferRequest
         [] request = "RUN" -> RxRunRequest
         [] request = "RESET" -> RxResetRequest
    /\ UNCHANGED <<bootState, validations, progress, persistent, processor>>

RxTransferProcessInfo(loops) ==
    /\ IF canState = "WAIT_FOR_INFO" /\ loops <= Total
       THEN /\ transfer' = [transfer EXCEPT !.total = loops]
            /\ canState' = "WAIT_FOR_DATA_LOOPS"
       ELSE UNCHANGED <<canState, transfer>>
    /\ IF canState = "WAIT_FOR_INFO" THEN Send(Ack("INFO", loops <= Total))
                                     ELSE Silent
    /\ UNCHANGED <<bootState, validations, copy, buffer, persistent,
                   processor>>

RxLoopInfo(loop) ==
    LET current == IF transfer.loop = 0 THEN 1 ELSE transfer.loop
        started == [transfer EXCEPT !.loop = current]
        first == \/ current = 1 /\ canState = "WAIT_FOR_DATA_LOOPS"
                 \/ canState = "RECEIVED_8_BYTES_CRC"
        expected == \/ first
                    \/ canState \in {"RECEIVED_LOOP_NUMBER",
                                     "RECEIVED_8_BYTES_DATA"}
    IN /\ IF canState \in {"WAIT_FOR_DATA_LOOPS", "RECEIVED_LOOP_NUMBER",
                           "RECEIVED_8_BYTES_DATA", "RECEIVED_8_BYTES_CRC"}
          THEN /\ transfer' = started
               /\ IF current = loop /\ expected
                  THEN canState' = "RECEIVED_LOOP_NUMBER"
                  ELSE UNCHANGED canState
               /\ IF current = loop /\ first
                  THEN copy' = started /\ buffer' = Fill(Zero, SectorLoops)
                  ELSE UNCHANGED <<copy, buffer>>
          ELSE UNCHANGED <<canState, progress>>
       /\ Silent
       /\ UNCHANGED <<bootState, validations, persistent, processor>>

RxTableWord(word) ==
    LET received == transfer.received + 1
    IN /\ transfer' = [transfer EXCEPT !.table[received] = word,
                                       !.received = received]
       /\ IF received = TableWords
          THEN /\ canState' = "FINISHED_TRANSFER_VECTOR_TABLE"
               /\ Send(Ack("TABLE", FALSE))
          ELSE UNCHANGED canState /\ Silent
       /\ UNCHANGED buffer

RxProgramWord(word) ==
    LET position == transfer.position + 1
        last == transfer.loop = transfer.total
    IN IF position \notin 1 .. SectorLoops
       THEN canState' = "ERROR" /\ UNCHANGED <<transfer, buffer>> /\ Silent
       ELSE /\ buffer' = [buffer EXCEPT ![position] = word]
            /\ canState' = "RECEIVED_8_BYTES_DATA"
            /\ transfer' = IF last THEN transfer
                           ELSE [transfer EXCEPT !.position = position,
                                                 !.loop = @ + 1]
            /\ CASE last -> Send(Ack("SUB_SECTOR", TRUE))
                 [] ~last /\ transfer.loop % SubSectorLoops = 0 ->
                      Send(Ack("SUB_SECTOR", FALSE))
                 [] ~last /\ transfer.loop % SubSectorLoops # 0 -> Silent

RxData8Bytes(word) ==
    /\ CASE canState = "FINISHED_FINAL_VALIDATION" -> RxTableWord(word)
         [] canState = "RECEIVED_LOOP_NUMBER" -> RxProgramWord(word)
         [] canState \notin {"FINISHED_FINAL_VALIDATION",
                            "RECEIVED_LOOP_NUMBER"} ->
              UNCHANGED <<canState, transfer, buffer>> /\ Silent
    /\ UNCHANGED <<bootState, validations, copy, persistent, processor>>

\* Mutant: the CRC of the vector table is not compared.
RxTableCrc_TakesAny(crc) ==
    /\ canState' = "VALIDATED_VECTOR_TABLE"
    /\ transfer' = [transfer EXCEPT !.tableCrc = crc]
    /\ Send(Ack("TABLE_CRC", TRUE))

RxTableCrc(crc) ==
    IF crc = transfer.table
    THEN /\ canState' = "VALIDATED_VECTOR_TABLE"
         /\ transfer' = [transfer EXCEPT !.tableCrc = crc]
         /\ Send(Ack("TABLE_CRC", TRUE))
    ELSE /\ canState' = "FINISHED_FINAL_VALIDATION"
         /\ transfer' = [transfer EXCEPT !.table = Fill(Zero, TableWords),
                                         !.received = 0, !.tableCrc = <<>>]
         /\ Send(Ack("TABLE_CRC", FALSE))

RxSectorCrc(crc) ==
    /\ IF \/ transfer.position >= SectorLoops
          \/ transfer.loop = transfer.total
       THEN /\ canState' = "RECEIVED_8_BYTES_CRC"
            /\ transfer' = [transfer EXCEPT !.crc = crc]
       ELSE UNCHANGED <<canState, transfer>>
    /\ Silent

RxCrc8Bytes(crc) ==
    /\ CASE canState = "FINISHED_TRANSFER_VECTOR_TABLE" -> RxTableCrc(crc)
         [] canState = "RECEIVED_8_BYTES_DATA" -> RxSectorCrc(crc)
         [] canState \notin {"FINISHED_TRANSFER_VECTOR_TABLE",
                            "RECEIVED_8_BYTES_DATA"} ->
              UNCHANGED <<canState, transfer>> /\ Silent
    /\ UNCHANGED <<bootState, validations, copy, buffer, persistent,
                   processor>>

-----------------------------------------------------------------------------
(* The main loop *)

In(state) == mode = "boot" /\ bootState = state

\* The processor is in system mode, or a supervisor call gets it there.
Raised(sectors, table) == privileged \/ Served(table, sectors)

TimeOut ==
    /\ In("WAIT") /\ ~autoRun
    /\ autoRun' = TRUE /\ bootState' = "RUN"
    /\ UNCHANGED <<canState, validations, progress, persistent, privileged,
                   mode, bus>>

BOOT_GetBootState ==
    CASE canState = "NO_COMMUNICATION" -> "WAIT"
      [] canState = "RUN_PROGRAM" -> "RUN"
      [] canState = "RESET_BOOT" -> "RESET"
      [] canState \in {"ERROR", "CLEARED"} -> "ERROR"
      [] canState \in LoadStates -> "LOAD"

Wait ==
    /\ In("WAIT")
    /\ bootState' = BOOT_GetBootState
    /\ UNCHANGED <<canState, validations, progress, persistent, processor,
                   bus>>

\* Mutant: what is compared is the sector as it was received, not as it was
\* written.
SectorWritten_ChecksBuffer(w) ==
    LET good == Chain(transfer.onBoard, buffer) = transfer.crc
        last == transfer.loop = transfer.total
    IN /\ privileged' = FALSE
       /\ Send(Ack("CRC", good))
       /\ validations' = IF good THEN 1 ELSE 0
       /\ bootState' = IF good THEN bootState ELSE "ERROR"
       /\ canState' = IF good /\ last THEN "FINISHED_FINAL_VALIDATION"
                      ELSE canState
       /\ transfer' = IF good
                      THEN [transfer EXCEPT
                             !.onBoard = transfer.crc,
                             !.position = IF last THEN @ ELSE 0,
                             !.sector = IF last THEN @ ELSE @ + 1]
                      ELSE copy

\* Mutant: the buffer is not used from its beginning again.
SectorWritten_KeepsPosition(w) ==
    LET good == w.ok /\ Chain(transfer.onBoard, w.left) = transfer.crc
        last == transfer.loop = transfer.total
    IN /\ privileged' = FALSE
       /\ Send(Ack("CRC", good))
       /\ validations' = IF good THEN 1 ELSE 0
       /\ bootState' = IF good THEN bootState ELSE "ERROR"
       /\ canState' = IF good /\ last THEN "FINISHED_FINAL_VALIDATION"
                      ELSE canState
       /\ transfer' = IF good
                      THEN [transfer EXCEPT
                             !.onBoard = transfer.crc,
                             !.sector = IF last THEN @ ELSE @ + 1]
                      ELSE copy

\* The sector has been written with w, and privileges are raised once more
\* for the calculation of its CRC.
SectorWritten(w) ==
    LET good == w.ok /\ Chain(transfer.onBoard, w.left) = transfer.crc
        last == transfer.loop = transfer.total
    IN /\ privileged' = FALSE
       /\ Send(Ack("CRC", good))
       /\ IF good
          THEN /\ validations' = 1 /\ UNCHANGED bootState
               /\ IF last
                  THEN /\ canState' = "FINISHED_FINAL_VALIDATION"
                       /\ transfer' = [transfer EXCEPT !.onBoard = transfer.crc]
                  ELSE /\ UNCHANGED canState
                       /\ transfer' = [transfer EXCEPT
                                        !.onBoard = transfer.crc,
                                        !.position = 0, !.sector = @ + 1]
          ELSE /\ validations' = 0 /\ bootState' = "ERROR"
               /\ transfer' = copy
               /\ canState' = IF copy.loop = 1 THEN "WAIT_FOR_DATA_LOOPS"
                                              ELSE canState

WriteTurn ==
    In("LOAD") /\ canState = "RECEIVED_8_BYTES_CRC" /\ validations = 0

BOOT_WriteAndValidateCurrentSector ==
    /\ WriteTurn
    /\ CASE ~Raised(flash, store.table) ->
              Halt /\ UNCHANGED <<flash, mishaps, bus>>
         [] Raised(flash, store.table) /\ transfer.sector \notin 1 .. NumSectors ->
              /\ privileged' = TRUE /\ bootState' = "ERROR"
              /\ UNCHANGED <<canState, validations, progress, flash, mishaps,
                             autoRun, mode, bus>>
         [] Raised(flash, store.table) /\ transfer.sector \in 1 .. NumSectors ->
              \E w \in Outcomes(flash[transfer.sector], buffer, TornSectors) :
                 /\ flash' = [flash EXCEPT ![transfer.sector] = w.left]
                 /\ mishaps' = mishaps + (IF w.ok THEN 0 ELSE 1)
                 /\ IF Served(store.table, flash')
                    THEN /\ SectorWritten(w)
                         /\ UNCHANGED <<copy, buffer, mode, autoRun>>
                    ELSE Halt /\ UNCHANGED bus
    /\ UNCHANGED store

\* BOOT_UpdateProgramInfoIntoFlash refuses a table with a zero in it.
Refused(new) == HasZero(new.backup) \/ HasZero(new.table)

Written(w) == store' = w.left /\ mishaps' = mishaps + (IF w.ok THEN 0 ELSE 1)

\* Mutant: the table in force is saved each time.
ProgramStore_SavesAgain ==
    [magic |-> TRUE, available |-> TRUE, crc |-> transfer.crc,
     tableCrc |-> transfer.tableCrc, backup |-> store.table,
     table |-> transfer.table]

\* Mutant: the program is not made available.
ProgramStore_NotAvailable ==
    [magic |-> TRUE, available |-> Loaded.available, crc |-> transfer.crc,
     tableCrc |-> transfer.tableCrc,
     backup |-> IF HasZero(Loaded.backup) THEN store.table ELSE Loaded.backup,
     table |-> transfer.table]

\* The record of a validated vector table: the table in force is saved
\* unless that was done before, and the received table takes its place.
ProgramStore ==
    [magic |-> TRUE, available |-> TRUE, crc |-> transfer.crc,
     tableCrc |-> transfer.tableCrc,
     backup |-> IF HasZero(Loaded.backup) THEN store.table ELSE Loaded.backup,
     table |-> transfer.table]

StoreTurn == In("LOAD") /\ canState = "VALIDATED_VECTOR_TABLE"

\* The part of BOOT_GetBootStateDuringLoad that writes it and resets the MCU.
StoreProgram ==
    LET Failed == /\ bootState' = "ERROR" /\ validations' = 0
                  /\ UNCHANGED <<canState, progress, autoRun, mode>>
    IN /\ StoreTurn
       /\ IF Refused(ProgramStore)
          THEN Failed /\ UNCHANGED <<store, mishaps, privileged>>
          ELSE IF ~Raised(flash, store.table)
          THEN Halt /\ UNCHANGED <<store, mishaps>>
          ELSE \E w \in Outcomes(store, ProgramStore, TornStores(ProgramStore)) :
                 /\ Written(w)
                 /\ IF ~w.ok
                    THEN Failed /\ privileged' = FALSE
                    ELSE IF Served(ProgramStore.table, flash)
                    THEN Restarted("boot") ELSE Halt
       /\ UNCHANGED <<flash, bus>>

\* The other cases of BOOT_GetBootStateDuringLoad.
Load ==
    /\ In("LOAD") /\ canState # "VALIDATED_VECTOR_TABLE"
    /\ canState = "RECEIVED_8_BYTES_CRC" => validations > 0
    /\ validations' = IF canState = "RECEIVED_8_BYTES_CRC" THEN validations
                                                          ELSE 0
    /\ bootState' = CASE canState \in LoadStates -> "LOAD"
                      [] canState = "RESET_BOOT" -> "RESET"
                      [] canState \notin LoadStates \union {"RESET_BOOT"} ->
                           "ERROR"
    /\ UNCHANGED <<canState, progress, persistent, processor, bus>>

\* BOOT_IsProgramAvailableAndValidated, and the jump into the application.
Run ==
    /\ In("RUN")
    /\ IF Loaded.available /\ ~Raised(flash, store.table) THEN Halt
       ELSE IF Validated
       THEN IF Served(store.table, flash) THEN Restarted("app") ELSE Halt
       ELSE /\ canState' = "NO_COMMUNICATION" /\ bootState' = "WAIT"
            /\ privileged' = (privileged /\ ~Loaded.available)
            /\ UNCHANGED <<validations, progress, autoRun, mode>>
    /\ UNCHANGED <<persistent, bus>>

\* FLASH_EraseFlashForApp writes zeros, sector after sector, and stops at the
\* first that fails.
ErasedUpTo(s, left) ==
    [t \in 1 .. NumSectors |-> CASE t < s -> Fill(Zero, SectorLoops)
                                [] t = s -> left
                                [] t > s -> flash[t]]

CutErasures ==
    UNION {{ErasedUpTo(s, w) : w \in {flash[s]} \union TornSectors} :
        s \in 1 .. NumSectors}

\* The record BOOT_ResetBootInfo writes.
ResetStore ==
    [magic |-> TRUE, available |-> FALSE, crc |-> <<>>, tableCrc |-> <<>>,
     backup |-> Loaded.backup,
     table |-> IF Loaded.available /\ ~HasZero(Loaded.backup)
               THEN Loaded.backup ELSE store.table]

\* The MCU is reset, whatever could be reset before.
SoftwareReset(served) == IF served THEN Restarted("boot") ELSE Halt

EraseApp ==
    \/ /\ flash' = ErasedUpTo(NumSectors + 1, <<>>)
       /\ Restarted("boot") /\ UNCHANGED mishaps
    \/ /\ Mishap
       /\ flash' \in CutErasures
       /\ canState' = "CLEARED" /\ bootState' = "ERROR"
       /\ transfer' = ClearedTransfer /\ copy' = ClearedTransfer
       /\ buffer' = Fill(Zero, SectorLoops) /\ validations' = 0
       /\ privileged' = FALSE /\ UNCHANGED <<autoRun, mode>>

BOOT_ResetBootloader ==
    /\ In("RESET")
    /\ IF Refused(ResetStore)
       THEN /\ SoftwareReset(Raised(flash, store.table))
            /\ UNCHANGED persistent
       ELSE IF ~Raised(flash, store.table)
       THEN Halt /\ UNCHANGED persistent
       ELSE \E w \in Outcomes(store, ResetStore, TornStores(ResetStore)) :
              /\ store' = w.left
              /\ CASE ~w.ok -> /\ SoftwareReset(Served(w.left.table, flash))
                               /\ Mishap /\ UNCHANGED flash
                   [] w.ok /\ ~Served(w.left.table, flash) ->
                        Halt /\ UNCHANGED <<flash, mishaps>>
                   [] w.ok /\ Served(w.left.table, flash) -> EraseApp
    /\ UNCHANGED bus

BOOT_GetBootStateDuringError ==
    /\ In("ERROR") /\ canState = "RESET_BOOT"
    /\ bootState' = "RESET"
    /\ UNCHANGED <<canState, validations, progress, persistent, processor,
                   bus>>

MainLoop ==
    Wait \/ BOOT_WriteAndValidateCurrentSector \/ StoreProgram \/ Load \/ Run
    \/ BOOT_ResetBootloader \/ BOOT_GetBootStateDuringError

\* The main loop has nothing to do until a message or the time comes.
Settled ==
    mode = "boot" =>
        \/ bootState = "WAIT" /\ canState = "NO_COMMUNICATION"
        \/ /\ bootState = "LOAD"
           /\ canState \in LoadStates \ {"VALIDATED_VECTOR_TABLE"}
           /\ canState = "RECEIVED_8_BYTES_CRC" <=> validations > 0
        \/ bootState = "ERROR" /\ canState # "RESET_BOOT"

-----------------------------------------------------------------------------
(* Power *)

Cut == Mishap /\ Restarted("boot") /\ UNCHANGED bus

PowerFailure == mode = "boot" /\ Cut /\ UNCHANGED <<flash, store>>

PowerFailureInSector ==
    /\ WriteTurn /\ Raised(flash, store.table)
    /\ transfer.sector \in 1 .. NumSectors
    /\ Cut
    /\ \E torn \in TornSectors :
          flash' = [flash EXCEPT ![transfer.sector] = torn]
    /\ UNCHANGED store

PowerFailureInStore ==
    /\ StoreTurn /\ ~Refused(ProgramStore) /\ Raised(flash, store.table)
    /\ Cut
    /\ store' \in TornStores(ProgramStore)
    /\ UNCHANGED flash

PowerFailureInReset ==
    /\ In("RESET") /\ ~Refused(ResetStore) /\ Raised(flash, store.table)
    /\ Cut
    /\ \/ store' \in TornStores(ResetStore) /\ UNCHANGED flash
       \/ /\ Served(ResetStore.table, flash)
          /\ store' = ResetStore
          /\ flash' \in CutErasures

\* Power is switched off and on while the application runs or the bootloader
\* is halted.
PowerCycle ==
    /\ mode # "boot"
    /\ Restarted("boot")
    /\ UNCHANGED <<persistent, bus>>

PowerFails ==
    PowerFailure \/ PowerFailureInSector \/ PowerFailureInStore
    \/ PowerFailureInReset

-----------------------------------------------------------------------------
\* The bootloader was flashed by a debugger, or has installed an application.
Init ==
    /\ mode = "boot" /\ canState = "NO_COMMUNICATION" /\ bootState = "WAIT"
    /\ transfer = InitialTransfer /\ copy = ClearedTransfer
    /\ validations = 0 /\ buffer = Fill(Zero, SectorLoops)
    /\ autoRun = FALSE /\ privileged = TRUE
    /\ \/ /\ store = InitialStore
          /\ flash = [s \in 1 .. NumSectors |-> Fill(Erased, SectorLoops)]
       \/ \E i \in Images : /\ Loops[i] = Total
                            /\ store = InstalledStore(i)
                            /\ flash = ProgramOf(i)
    /\ mishaps = 0 /\ acks = <<>>
    /\ lost = [kind \in {"number", "table", "other"} |-> 0]

\* The application that is started.
App ==
    {i \in Images : Validated /\ flash = ProgramOf(i) /\ store.table = TableOf(i)}
=============================================================================
