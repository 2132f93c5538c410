----------------------------- MODULE BootProofs -----------------------------
(***************************************************************************)
(* Theorems about the bootloader and the program that loads it, for any    *)
(* applications, sizes and losses, and any number of failures.             *)
(***************************************************************************)
EXTENDS BootClaims, SequenceTheorems, TLAPS

USE SizeAssumption, OriginAssumption

-----------------------------------------------------------------------------
(* The bootloader's own vector table *)

\* Nothing has been written yet, or the record has the table in its backup.
OwnTableSaved == store.magic /\ store.backup = TableOf(Own)

OwnTableInv ==
    /\ mishaps \in Nat
    /\ mishaps = 0 => store = InitialStore \/ OwnTableSaved

\* The bootloader's own table has no zero in it, and a cleared one has.
LEMMA OwnHasNoZero == ~HasZero(TableOf(Own)) /\ HasZero(Fill(Zero, TableWords))
  <1>1. ASSUME NEW k \in 1 .. TableWords PROVE TableOf(Own)[k] # <<Zero, 0>>
    BY DEF TableOf
  <1>2. 1 \in 1 .. TableWords /\ Fill(Zero, TableWords)[1] = <<Zero, 0>>
    BY DEF Fill
  <1> QED BY <1>1, <1>2 DEF HasZero

\* What a flash operation leaves, if it does not fail, is what it was to leave.
LEMMA OutcomeIsNew ==
  ASSUME NEW old, NEW new, NEW torn, NEW w \in Outcomes(old, new, torn)
  PROVE  \/ w.ok = TRUE /\ w.left = new
         \/ /\ w.ok = FALSE /\ mishaps < MaxMishaps
            /\ w.left \in torn \union {old}
  <1>1. CASE w = [left |-> new, ok |-> TRUE]
    BY <1>1
  <1>2. CASE w = [left |-> old, ok |-> FALSE] /\ mishaps < MaxMishaps
    BY <1>2
  <1>3. CASE /\ w \in {[left |-> t, ok |-> FALSE] : t \in torn}
             /\ mishaps < MaxMishaps
    BY <1>3
  <1> QED BY <1>1, <1>2, <1>3 DEF Outcomes

\* The record of an application has the bootloader's own table in its backup.
LEMMA ProgramStoreSaves ==
  ASSUME store = InitialStore \/ OwnTableSaved
  PROVE  ProgramStore.magic /\ ProgramStore.backup = TableOf(Own)
  <1>1. CASE store = InitialStore
    <2>1. Loaded.backup = Fill(Zero, TableWords)
      BY <1>1 DEF Loaded, InitialStore
    <2> QED BY <1>1, <2>1, OwnHasNoZero DEF ProgramStore, InitialStore
  <1>2. CASE OwnTableSaved
    <2>1. Loaded.backup = TableOf(Own)
      BY <1>2 DEF Loaded, OwnTableSaved
    <2> QED BY <2>1, OwnHasNoZero DEF ProgramStore
  <1> QED BY <1>1, <1>2

\* A reset is refused while nothing is saved, and keeps what is saved.
LEMMA ResetStoreSaves ==
  ASSUME store = InitialStore \/ OwnTableSaved, ~Refused(ResetStore)
  PROVE  ResetStore.magic /\ ResetStore.backup = TableOf(Own)
  <1>1. CASE store = InitialStore
    <2>1. Loaded.backup = Fill(Zero, TableWords)
      BY <1>1 DEF Loaded, InitialStore
    <2> QED BY <2>1, OwnHasNoZero DEF ResetStore, Refused
  <1>2. CASE OwnTableSaved
    BY <1>2 DEF Loaded, OwnTableSaved, ResetStore
  <1> QED BY <1>1, <1>2

\* Actions that write neither the record nor count a failure.
LEMMA OwnTableUntouched ==
  ASSUME OwnTableInv, UNCHANGED store, mishaps' \in {mishaps, mishaps + 1}
  PROVE  OwnTableInv'
  BY DEF OwnTableInv, OwnTableSaved, InitialStore, TableOf, Fill

LEMMA OwnTableLost ==
  ASSUME OwnTableInv, mishaps' = mishaps + 1
  PROVE  OwnTableInv'
  BY DEF OwnTableInv

LEMMA OwnTableStored ==
  ASSUME OwnTableInv, StoreProgram
  PROVE  OwnTableInv'
  <1>1. CASE UNCHANGED <<store, mishaps>>
    BY <1>1, OwnTableUntouched
  <1>2. CASE \E w \in Outcomes(store, ProgramStore, TornStores(ProgramStore)) : Written(w)
    <2>1. PICK w \in Outcomes(store, ProgramStore, TornStores(ProgramStore)) : Written(w)
      BY <1>2
    <2>2. (w.ok = TRUE /\ w.left = ProgramStore) \/ w.ok = FALSE
      BY OutcomeIsNew
    <2>3. CASE w.ok = FALSE
      BY <2>1, <2>3, OwnTableLost DEF Written
    <2>4. CASE w.ok = TRUE /\ w.left = ProgramStore
      <3>1. store' = ProgramStore /\ mishaps' = mishaps
        BY <2>1, <2>4 DEF Written, OwnTableInv
      <3>2. mishaps = 0 => OwnTableSaved'
        BY <3>1, ProgramStoreSaves DEF OwnTableInv, OwnTableSaved, TableOf
      <3> QED BY <3>1, <3>2 DEF OwnTableInv
    <2> QED BY <2>2, <2>3, <2>4
  <1> QED BY <1>1, <1>2 DEF StoreProgram, Halt

LEMMA OwnTableReset ==
  ASSUME OwnTableInv, BOOT_ResetBootloader
  PROVE  OwnTableInv'
  <1>1. CASE UNCHANGED <<store, mishaps>>
    BY <1>1, OwnTableUntouched
  <1>2. CASE mishaps' = mishaps + 1
    BY <1>2, OwnTableLost
  <1>3. CASE ~Refused(ResetStore) /\ store' = ResetStore /\ UNCHANGED mishaps
    <2>1. mishaps = 0 => OwnTableSaved'
      BY <1>3, ResetStoreSaves DEF OwnTableInv, OwnTableSaved, TableOf
    <2> QED BY <1>3, <2>1 DEF OwnTableInv
  <1>4. ASSUME ~Refused(ResetStore),
               NEW w \in Outcomes(store, ResetStore, TornStores(ResetStore)),
               store' = w.left, w.ok = TRUE => EraseApp \/ UNCHANGED mishaps,
               w.ok = FALSE => Mishap
        PROVE  OwnTableInv'
    <2>1. (w.ok = TRUE /\ w.left = ResetStore) \/ w.ok = FALSE
      BY OutcomeIsNew
    <2>2. EraseApp => mishaps' \in {mishaps, mishaps + 1}
      BY Zenon DEF EraseApp, Mishap
    <2>3. \/ mishaps' = mishaps + 1
          \/ mishaps' = mishaps /\ store' = ResetStore
      <3>1. CASE w.ok = TRUE /\ w.left = ResetStore
        BY <1>4, <2>2, <3>1
      <3>2. CASE w.ok = FALSE
        <4>1. Mishap
          BY <1>4, <3>2, Zenon
        <4> QED BY <4>1 DEF Mishap
      <3> QED BY <2>1, <3>1, <3>2
    <2> QED BY <1>2, <1>3, <1>4, <2>3
  <1>5. CASE ~Refused(ResetStore) /\ Raised(flash, store.table)
    <2>1. PICK w \in Outcomes(store, ResetStore, TornStores(ResetStore)) :
              /\ store' = w.left
              /\ CASE ~w.ok -> /\ SoftwareReset(Served(w.left.table, flash))
                               /\ Mishap /\ UNCHANGED flash
                   [] w.ok /\ ~Served(w.left.table, flash) ->
                        Halt /\ UNCHANGED <<flash, mishaps>>
                   [] w.ok /\ Served(w.left.table, flash) -> EraseApp
      BY <1>5, Zenon DEF BOOT_ResetBootloader
    <2>2. (w.ok = TRUE => EraseApp \/ UNCHANGED mishaps) /\ (w.ok = FALSE => Mishap)
      BY <2>1
    <2> QED BY <1>4, <1>5, <2>1, <2>2
  <1> QED BY <1>1, <1>5 DEF BOOT_ResetBootloader, persistent

\* The host's steps leave the loader and the flash where they are.
LEMMA HostLeaves ==
  ASSUME HostStep
  PROVE  UNCHANGED <<bootState, mode, persistent, image>>
  <1> USE DEF Sent, boot, RxActionRequest, RxTransferProcessInfo, RxLoopInfo,
          RxData8Bytes, RxCrc8Bytes, persistent, processor, Waited
  <1>1. CASE Reset \/ Transfer BY <1>1 DEF Reset, Transfer, SendRequest
  <1>2. CASE ResetAck \/ ResetPoll \/ TransferAck \/ InfoAck
    BY <1>2 DEF ResetAck, ResetPoll, TransferAck, InfoAck
  <1>3. CASE SendInfo BY <1>3 DEF SendInfo
  <1>4. CASE SendNumber BY <1>4 DEF SendNumber
  <1>5. CASE SendData BY <1>5 DEF SendData
  <1>6. CASE SubSectorAck \/ CrcAck \/ TableAck \/ TableCrcAck
    BY <1>6 DEF SubSectorAck, CrcAck, TableAck, TableCrcAck
  <1>7. CASE SendCrc BY <1>7 DEF SendCrc
  <1>8. CASE SendTableWord BY <1>8 DEF SendTableWord
  <1>9. CASE SendTableCrc BY <1>9 DEF SendTableCrc
  <1> QED BY <1>1, <1>2, <1>3, <1>4, <1>5, <1>6, <1>7, <1>8, <1>9 DEF HostStep

LEMMA OwnTableStep ==
  ASSUME OwnTableInv, [LoadNext]_vars
  PROVE  OwnTableInv'
  <1>1. CASE UNCHANGED persistent
    BY <1>1, OwnTableUntouched DEF persistent
  <1>2. CASE mishaps' = mishaps + 1
    BY <1>2, OwnTableLost
  <1>3. CASE BOOT_WriteAndValidateCurrentSector
    <2>1. UNCHANGED store /\ mishaps' \in {mishaps, mishaps + 1}
      <3>1. mishaps \in Nat
        BY DEF OwnTableInv
      <3>2. CASE mishaps' = mishaps
        BY <1>3, <3>2 DEF BOOT_WriteAndValidateCurrentSector
      <3>3. CASE \E w \in Outcomes(flash[transfer.sector], buffer, TornSectors) :
                   mishaps' = mishaps + (IF w.ok THEN 0 ELSE 1)
        BY <1>3, <3>1, <3>3 DEF BOOT_WriteAndValidateCurrentSector
      <3> QED BY <1>3, <3>2, <3>3, Zenon DEF BOOT_WriteAndValidateCurrentSector
    <2> QED BY <2>1, OwnTableUntouched
  <1>4. CASE StoreProgram
    BY <1>4, OwnTableStored
  <1>5. CASE BOOT_ResetBootloader
    BY <1>5, OwnTableReset
  <1>6. CASE Wait \/ Load \/ Run \/ BOOT_GetBootStateDuringError \/ TimeOut \/ PowerCycle
    BY <1>1, <1>6 DEF Wait, Load, Run, BOOT_GetBootStateDuringError, TimeOut, PowerCycle
  <1>7. CASE PowerFails
    BY <1>2, <1>7 DEF PowerFails, PowerFailure, PowerFailureInSector,
                      PowerFailureInStore, PowerFailureInReset, Cut, Mishap
  <1>8. CASE HostStep
    BY <1>1, <1>8, HostLeaves
  <1>9. CASE Interrupt \/ RunApp \/ \E i \in Images \union {NoImage} : StartSession(i)
    BY <1>1, <1>9 DEF Interrupt, RunApp, StartSession, RxActionRequest, boot, persistent
  <1>10. CASE UNCHANGED vars
    BY <1>1, <1>10 DEF vars, boot
  <1> QED BY <1>3, <1>4, <1>5, <1>6, <1>7, <1>8, <1>9, <1>10
          DEF LoadNext, Device, MainLoop

\* Unless a write of the program information failed or power failed, the
\* bootloader's own vector table is in force or saved, however many
\* applications have been loaded one over the other (boot.c:337).
THEOREM OwnTableIsKept == LoadSpec => []OwnTableKept
  <1>1. LoadInit => OwnTableInv
    BY DEF LoadInit, Init, OwnTableInv, OwnTableSaved, InstalledStore
  <1>2. OwnTableInv => OwnTableKept
    BY DEF OwnTableInv, OwnTableKept, OwnTableSaved, InitialStore
  <1>3. OwnTableInv /\ [LoadNext]_vars => OwnTableInv'
    BY OwnTableStep
  <1> QED BY <1>1, <1>2, <1>3, PTL DEF LoadSpec
-----------------------------------------------------------------------------
(* What has been acknowledged *)

Words == Origins \X Int
Sectors == [1 .. SectorLoops -> Words]
FlashContents == [1 .. NumSectors -> Sectors]

IsTransfer(t) ==
    /\ DOMAIN t = {"total", "loop", "crc", "onBoard", "sector", "position",
                   "received", "table", "tableCrc"}
    /\ t.loop \in Nat /\ t.sector \in Nat
    /\ t.position \in -1 .. SectorLoops
    /\ t.received \in 0 .. TableWords

\* The CAN states in which sectors are received, and those after the last one.
SectorStates == {"NO_COMMUNICATION", "WAIT_FOR_INFO", "WAIT_FOR_DATA_LOOPS",
    "RECEIVED_LOOP_NUMBER", "RECEIVED_8_BYTES_DATA", "RECEIVED_8_BYTES_CRC"}
TableStates == {"FINISHED_FINAL_VALIDATION", "FINISHED_TRANSFER_VECTOR_TABLE",
    "VALIDATED_VECTOR_TABLE"}

ProgressTypes ==
    /\ IsTransfer(transfer) /\ IsTransfer(copy)
    /\ buffer \in Sectors /\ flash \in FlashContents

HostTypes ==
    /\ image \in Images \union {NoImage} /\ loop \in Nat /\ start \in Nat
    /\ host = "table" => loop \in 1 .. TableWords

\* Words of the vector table are counted only after the last sector.
TableWordsCounted ==
    /\ copy.received = 0
    /\ canState \in SectorStates => transfer.received = 0
    /\ canState = "FINISHED_FINAL_VALIDATION" => transfer.received < TableWords

\* Nothing has been transferred as long as the main loop is not loading.
NothingBefore ==
    bootState \in {"WAIT", "RUN"} =>
        /\ transfer.onBoard = <<>> /\ transfer.sector = 1
        /\ transfer.received = 0 /\ canState \notin TableStates

\* While it is, the sectors acknowledged are the first ones in flash, and the
\* next one is written behind them.
SectorsInFlash ==
    bootState = "LOAD" =>
        /\ transfer.onBoard \in Seq(Sectors)
        /\ Len(transfer.onBoard) <= NumSectors
        /\ \A k \in 1 .. Len(transfer.onBoard) : transfer.onBoard[k] = flash[k]
        /\ canState \in SectorStates =>
              transfer.sector = Len(transfer.onBoard) + 1

FlashInv ==
    /\ ProgressTypes /\ HostTypes /\ TableWordsCounted
    /\ NothingBefore /\ SectorsInFlash

\* A callback of the bus leaves what is on board where it is.
Kept ==
    /\ IsTransfer(transfer') /\ copy' \in {copy, transfer'} /\ buffer' \in Sectors
    /\ transfer'.onBoard = transfer.onBoard /\ transfer'.sector = transfer.sector
    /\ transfer'.received # transfer.received => canState \in TableStates
    /\ canState' = "FINISHED_FINAL_VALIDATION" => transfer'.received < TableWords
    /\ copy' # copy => canState \in SectorStates
    /\ canState' \in SectorStates => canState \in SectorStates
    /\ canState' \in TableStates => canState \in TableStates
    /\ UNCHANGED <<flash, bootState>>

LEMMA FillIsSector ==
  /\ \A o \in {Own, Zero, Erased} : Fill(o, SectorLoops) \in Sectors
  /\ \A i \in Images : ProgramOf(i) \in FlashContents
  BY DEF Fill, Sectors, Words, Origins, ProgramOf, SectorOf, FlashContents

LEMMA InitialIsTransfer == IsTransfer(InitialTransfer) /\ IsTransfer(ClearedTransfer)
  BY DEF IsTransfer, InitialTransfer, ClearedTransfer

LEMMA KeptStep ==
  ASSUME FlashInv, Kept, HostTypes'
  PROVE  FlashInv'
  <1> USE DEF FlashInv, Kept
  <1>1. ProgressTypes'
    BY DEF ProgressTypes, IsTransfer
  <1>2. TableWordsCounted'
    BY DEF TableWordsCounted, SectorStates, TableStates
  <1>3. NothingBefore'
    BY DEF NothingBefore
  <1>4. SectorsInFlash'
    BY DEF SectorsInFlash
  <1> QED BY <1>1, <1>2, <1>3, <1>4

LEMMA RestartedStep ==
  ASSUME FlashInv, NEW m, Restarted(m), flash' \in FlashContents, HostTypes'
  PROVE  FlashInv'
  <1> USE DEF Restarted
  <1>1. ProgressTypes'
    BY FillIsSector, InitialIsTransfer DEF ProgressTypes
  <1>2. TableWordsCounted'
    BY DEF TableWordsCounted, InitialTransfer, ClearedTransfer
  <1>3. NothingBefore'
    BY DEF NothingBefore, InitialTransfer, TableStates
  <1>4. SectorsInFlash'
    BY DEF SectorsInFlash
  <1> QED BY <1>1, <1>2, <1>3, <1>4 DEF FlashInv

LEMMA ActionRequestKept ==
  ASSUME FlashInv, NEW r \in {"TRANSFER", "RUN", "RESET"}, RxActionRequest(r)
  PROVE  Kept
  <1>1. UNCHANGED <<transfer, copy, buffer, flash, bootState>>
    BY DEF RxActionRequest, progress, persistent
  <1>2. /\ canState' \in SectorStates => canState \in SectorStates
        /\ canState' \in TableStates => canState' = canState
    BY DEF RxActionRequest, RxTransferRequest, RxRunRequest, RxResetRequest,
           SectorStates, TableStates
  <1> QED BY <1>1, <1>2 DEF Kept, FlashInv, ProgressTypes, IsTransfer,
              TableWordsCounted, TableStates

LEMMA TransferProcessInfoKept ==
  ASSUME FlashInv, NEW n, RxTransferProcessInfo(n)
  PROVE  Kept
  <1>1. UNCHANGED <<copy, buffer, flash, bootState>>
    BY DEF RxTransferProcessInfo, persistent
  <1>2. /\ transfer' \in {transfer, [transfer EXCEPT !.total = n]}
        /\ canState' \in SectorStates => canState \in SectorStates
        /\ canState' \in TableStates => canState' = canState
    BY DEF RxTransferProcessInfo, SectorStates, TableStates
  <1> QED BY <1>1, <1>2 DEF Kept, FlashInv, ProgressTypes, IsTransfer,
              TableWordsCounted, TableStates

LEMMA LoopInfoKept ==
  ASSUME FlashInv, NEW n \in Nat, RxLoopInfo(n)
  PROVE  Kept
  <1>1. UNCHANGED <<flash, bootState>>
    BY DEF RxLoopInfo, persistent
  <1>2. PICK current \in Nat :
          /\ transfer' \in {transfer, [transfer EXCEPT !.loop = current]}
          /\ copy' \in {copy, transfer'}
          /\ copy' # copy => canState \in SectorStates
    <2>1. CASE transfer.loop = 0
      BY <2>1 DEF RxLoopInfo, progress, SectorStates
    <2>2. CASE transfer.loop # 0
      BY <2>2 DEF RxLoopInfo, progress, SectorStates, FlashInv, ProgressTypes,
                  IsTransfer
    <2> QED BY <2>1, <2>2
  <1>3. buffer' \in {buffer, Fill(Zero, SectorLoops)}
    BY DEF RxLoopInfo, progress
  <1>4. /\ canState' \in SectorStates => canState \in SectorStates
        /\ canState' \in TableStates => canState' = canState
    BY DEF RxLoopInfo, SectorStates, TableStates
  <1> QED BY <1>1, <1>2, <1>3, <1>4, FillIsSector
          DEF Kept, FlashInv, ProgressTypes, IsTransfer, TableWordsCounted,
              TableStates

LEMMA Data8BytesKept ==
  ASSUME FlashInv, NEW word \in Words, RxData8Bytes(word)
  PROVE  Kept
  <1>1. UNCHANGED <<copy, flash, bootState>>
    BY DEF RxData8Bytes, persistent
  <1> USE DEF FlashInv, ProgressTypes, TableWordsCounted, Kept
  <1>2. CASE canState = "FINISHED_FINAL_VALIDATION" /\ RxTableWord(word)
    <2>1. /\ transfer' = [transfer EXCEPT !.table[transfer.received + 1] = word,
                                          !.received = transfer.received + 1]
          /\ UNCHANGED buffer
          /\ canState' \in {"FINISHED_TRANSFER_VECTOR_TABLE", canState}
          /\ canState' = canState => transfer.received + 1 # TableWords
      BY <1>2 DEF RxTableWord
    <2>2. /\ DOMAIN transfer' = DOMAIN transfer
          /\ transfer'.loop = transfer.loop /\ transfer'.sector = transfer.sector
          /\ transfer'.position = transfer.position
          /\ transfer'.onBoard = transfer.onBoard
          /\ transfer'.received = transfer.received + 1
      BY <2>1 DEF IsTransfer
    <2>3. IsTransfer(transfer')
      BY <1>2, <2>2 DEF IsTransfer
    <2>4. canState' = "FINISHED_FINAL_VALIDATION" => transfer'.received < TableWords
      BY <1>2, <2>1, <2>2 DEF IsTransfer
    <2> QED BY <1>1, <1>2, <2>1, <2>2, <2>3, <2>4 DEF SectorStates, TableStates
  <1>3. CASE canState = "RECEIVED_LOOP_NUMBER" /\ RxProgramWord(word)
    <2>1. canState' \in {"ERROR", "RECEIVED_8_BYTES_DATA"}
      BY <1>3 DEF RxProgramWord
    <2>2. /\ \/ transfer' = transfer
             \/ /\ transfer.position + 1 \in 1 .. SectorLoops
                /\ transfer' = [transfer EXCEPT !.position = transfer.position + 1,
                                                !.loop = @ + 1]
          /\ \/ buffer' = buffer
             \/ /\ transfer.position + 1 \in 1 .. SectorLoops
                /\ buffer' = [buffer EXCEPT ![transfer.position + 1] = word]
      BY <1>3 DEF RxProgramWord
    <2>3. /\ IsTransfer(transfer') /\ transfer'.received = transfer.received
          /\ transfer'.onBoard = transfer.onBoard
          /\ transfer'.sector = transfer.sector
      <3>1. CASE transfer' = transfer
        BY <3>1 DEF IsTransfer
      <3>2. CASE /\ transfer.position + 1 \in 1 .. SectorLoops
                 /\ transfer' = [transfer EXCEPT !.position = transfer.position + 1,
                                                 !.loop = @ + 1]
        <4>1. /\ DOMAIN transfer' = DOMAIN transfer
              /\ transfer'.loop = transfer.loop + 1
              /\ transfer'.position = transfer.position + 1
              /\ transfer'.received = transfer.received
              /\ transfer'.onBoard = transfer.onBoard
              /\ transfer'.sector = transfer.sector
          BY <3>2 DEF IsTransfer
        <4> QED BY <3>2, <4>1 DEF IsTransfer
      <3> QED BY <2>2, <3>1, <3>2
    <2>4. buffer' \in Sectors
      BY <2>2 DEF Sectors
    <2> QED BY <1>1, <1>3, <2>1, <2>3, <2>4 DEF SectorStates, TableStates
  <1>4. CASE UNCHANGED <<canState, transfer, buffer>>
    BY <1>1, <1>4 DEF TableStates
  <1> QED BY <1>2, <1>3, <1>4, Zenon DEF RxData8Bytes

LEMMA Crc8BytesKept ==
  ASSUME FlashInv, NEW crc, RxCrc8Bytes(crc)
  PROVE  Kept
  <1>1. UNCHANGED <<copy, buffer, flash, bootState>>
    BY DEF RxCrc8Bytes, persistent
  <1> USE DEF FlashInv, ProgressTypes, TableWordsCounted, Kept
  <1>2. CASE canState = "FINISHED_TRANSFER_VECTOR_TABLE" /\ RxTableCrc(crc)
    <2>1. \/ /\ canState' = "VALIDATED_VECTOR_TABLE"
             /\ transfer' = [transfer EXCEPT !.tableCrc = crc]
          \/ /\ canState' = "FINISHED_FINAL_VALIDATION"
             /\ transfer' = [transfer EXCEPT !.table = Fill(Zero, TableWords),
                                             !.received = 0, !.tableCrc = <<>>]
      BY <1>2 DEF RxTableCrc
    <2>2. /\ DOMAIN transfer' = DOMAIN transfer
          /\ transfer'.loop = transfer.loop
          /\ transfer'.position = transfer.position
          /\ transfer'.onBoard = transfer.onBoard
          /\ transfer'.sector = transfer.sector
      BY <2>1 DEF IsTransfer
    <2>3. /\ transfer'.received \in {0, transfer.received}
          /\ canState' = "FINISHED_FINAL_VALIDATION" => transfer'.received = 0
      BY <2>1 DEF IsTransfer
    <2>4. IsTransfer(transfer')
      BY <2>2, <2>3 DEF IsTransfer
    <2> QED BY <1>1, <1>2, <2>1, <2>2, <2>3, <2>4 DEF SectorStates, TableStates
  <1>3. CASE canState = "RECEIVED_8_BYTES_DATA" /\ RxSectorCrc(crc)
    <2>1. /\ transfer' \in {transfer, [transfer EXCEPT !.crc = crc]}
          /\ canState' \in {canState, "RECEIVED_8_BYTES_CRC"}
      BY <1>3 DEF RxSectorCrc
    <2> QED BY <1>1, <1>3, <2>1 DEF IsTransfer, SectorStates, TableStates
  <1>4. CASE UNCHANGED <<canState, transfer>>
    BY <1>1, <1>4 DEF TableStates
  <1> QED BY <1>2, <1>3, <1>4, Zenon DEF RxCrc8Bytes

LEMMA UnchangedIsKept ==
  ASSUME FlashInv, UNCHANGED <<canState, bootState, transfer, copy, buffer, flash>>
  PROVE  Kept
  BY DEF FlashInv, ProgressTypes, TableWordsCounted, Kept, IsTransfer

LEMMA HostKept ==
  ASSUME FlashInv, HostStep
  PROVE  Kept /\ HostTypes'
  <1> USE DEF HostTypes, FlashInv
  <1> DEFINE Nothing == UNCHANGED <<canState, bootState, transfer, copy, buffer, flash>>
  <1>w. Waited => Nothing /\ UNCHANGED image
    BY DEF Waited, progress, persistent
  <1>s. ASSUME \/ UNCHANGED <<canState, bootState, validations, progress,
                               persistent, processor>>
               \/ UNCHANGED boot
        PROVE  Kept
    BY <1>s, UnchangedIsKept DEF boot, progress, persistent
  <1>1. ASSUME NEW r \in {"TRANSFER", "RUN", "RESET"}, NEW from,
               NEW to \in {"resetAck", "transferAck"}, SendRequest(r, from, to)
        PROVE  Kept /\ HostTypes'
    <2>1. Kept
      BY <1>1, <1>s, ActionRequestKept, Zenon DEF SendRequest, Sent
    <2>2. HostTypes'
      BY <1>1 DEF SendRequest, counters
    <2> QED BY <2>1, <2>2
  <1>2. CASE ResetAck \/ ResetPoll \/ TransferAck \/ InfoAck
    <2>1. Nothing /\ UNCHANGED <<image, loop, start>> /\ host' # "table"
      BY <1>2, <1>w DEF ResetAck, ResetPoll, TransferAck, InfoAck, counters
    <2> QED BY <2>1, UnchangedIsKept
  <1>3. CASE SendInfo
    <2>1. Kept
      BY <1>3, <1>s, TransferProcessInfoKept, Zenon DEF SendInfo, Sent
    <2>2. HostTypes'
      BY <1>3 DEF SendInfo, counters
    <2> QED BY <2>1, <2>2
  <1>4. CASE SendNumber
    <2>1. Kept
      BY <1>4, <1>s, LoopInfoKept, Zenon DEF SendNumber, Sent
    <2>2. HostTypes'
      BY <1>4 DEF SendNumber, counters
    <2> QED BY <2>1, <2>2
  <1>5. CASE SendData
    <2>1. <<image, loop>> \in Words
      BY DEF Words, Origins
    <2>2. Kept
      BY <1>5, <1>s, <2>1, Data8BytesKept, Zenon DEF SendData, Sent
    <2>3. HostTypes'
      BY <1>5 DEF SendData
    <2> QED BY <2>2, <2>3
  <1>6. CASE SendCrc
    <2>1. Kept
      BY <1>6, <1>s, Crc8BytesKept, Zenon DEF SendCrc, Sent
    <2>2. HostTypes'
      BY <1>6 DEF SendCrc, counters
    <2> QED BY <2>1, <2>2
  <1>7. CASE SendTableWord
    <2>1. TableOf(image)[loop] \in Words
      BY <1>7 DEF SendTableWord, TableOf, Words, Origins
    <2>2. Kept
      BY <1>7, <1>s, <2>1, Data8BytesKept, Zenon DEF SendTableWord, Sent
    <2>3. HostTypes'
      BY <1>7 DEF SendTableWord
    <2> QED BY <2>2, <2>3
  <1>8. CASE SendTableCrc
    <2>1. Kept
      BY <1>8, <1>s, Crc8BytesKept, Zenon DEF SendTableCrc, Sent
    <2>2. HostTypes'
      BY <1>8 DEF SendTableCrc, counters
    <2> QED BY <2>1, <2>2
  <1>9. CASE SubSectorAck \/ CrcAck \/ TableAck \/ TableCrcAck
    <2>1. Nothing /\ UNCHANGED image
      BY <1>9, <1>w DEF SubSectorAck, CrcAck, TableAck, TableCrcAck
    <2>2. /\ loop' \in {loop, start, 1} /\ start' \in {loop, start, 1}
          /\ host' = "table" => loop' = 1
      <3> USE DEF AttemptFailed, counters
      <3>1. CASE SubSectorAck BY <3>1 DEF SubSectorAck
      <3>2. CASE CrcAck BY <3>2 DEF CrcAck, StartTable
      <3>3. CASE TableAck BY <3>3 DEF TableAck
      <3>4. CASE TableCrcAck BY <3>4 DEF TableCrcAck
      <3> QED BY <1>9, <3>1, <3>2, <3>3, <3>4
    <2>3. HostTypes'
      BY <2>1, <2>2
    <2> QED BY <2>1, <2>3, UnchangedIsKept
  <1>10. CASE Reset
    BY <1>1, <1>10 DEF Reset
  <1>11. CASE Transfer
    BY <1>1, <1>11 DEF Transfer
  <1> QED BY <1>2, <1>3, <1>4, <1>5, <1>6, <1>7, <1>8, <1>9, <1>10, <1>11
          DEF HostStep

LEMMA LeftIsSector ==
  ASSUME FlashInv, NEW s \in 1 .. NumSectors,
         NEW w \in Outcomes(flash[s], buffer, TornSectors)
  PROVE  w.left \in Sectors
  <1>1. /\ flash[s] \in Sectors /\ buffer \in Sectors
        /\ \A t \in TornSectors : t \in Sectors
    BY FillIsSector DEF FlashInv, ProgressTypes, FlashContents, TornSectors
  <1>2. \/ w = [left |-> buffer, ok |-> TRUE]
        \/ w = [left |-> flash[s], ok |-> FALSE]
        \/ \E t \in TornSectors : w = [left |-> t, ok |-> FALSE]
    BY DEF Outcomes
  <1> QED BY <1>1, <1>2

\* The step that adds a sector to those on board.
LEMMA SectorWrittenStep ==
  ASSUME FlashInv, WriteTurn, transfer.sector \in 1 .. NumSectors,
         NEW w, w.left \in Sectors,
         flash' = [flash EXCEPT ![transfer.sector] = w.left],
         SectorWritten(w), UNCHANGED <<copy, buffer>>, UNCHANGED program
  PROVE  FlashInv'
  <1> USE DEF FlashInv
  <1>1. HostTypes'
    BY DEF HostTypes, program, counters
  <1>2. flash' \in FlashContents
    BY DEF ProgressTypes, FlashContents
  <1> DEFINE good == w.ok /\ Chain(transfer.onBoard, w.left) = transfer.crc
             onBoard == transfer.onBoard
  <1>3. bootState = "LOAD" /\ canState = "RECEIVED_8_BYTES_CRC"
    BY DEF WriteTurn, In
  <1>4. CASE ~good
    <2>1. /\ bootState' = "ERROR" /\ transfer' = copy
          /\ canState' \in {"WAIT_FOR_DATA_LOOPS", canState}
      BY <1>4 DEF SectorWritten
    <2>2. ProgressTypes'
      BY <1>2, <2>1 DEF ProgressTypes
    <2>3. TableWordsCounted'
      BY <1>3, <2>1 DEF TableWordsCounted
    <2> QED BY <1>1, <2>1, <2>2, <2>3 DEF NothingBefore, SectorsInFlash
  <1>5. CASE good
    <2>1. /\ onBoard \in Seq(Sectors)
          /\ transfer.sector = Len(onBoard) + 1
          /\ \A k \in 1 .. Len(onBoard) : onBoard[k] = flash[k]
      BY <1>3 DEF SectorsInFlash, SectorStates
    <2>2. transfer.crc = Append(onBoard, w.left)
      BY <1>5 DEF Chain
    <2>3. /\ bootState' = "LOAD"
          /\ \/ /\ canState' = "FINISHED_FINAL_VALIDATION"
                /\ transfer' = [transfer EXCEPT !.onBoard = transfer.crc]
             \/ /\ canState' = canState
                /\ transfer' = [transfer EXCEPT !.onBoard = transfer.crc,
                                   !.position = 0, !.sector = @ + 1]
      BY <1>3, <1>5 DEF SectorWritten
    <2>4. /\ DOMAIN transfer' = DOMAIN transfer
          /\ transfer'.onBoard = Append(onBoard, w.left)
          /\ transfer'.loop = transfer.loop
          /\ transfer'.received = transfer.received
          /\ transfer'.position \in {0, transfer.position}
          /\ transfer'.sector \in {transfer.sector, transfer.sector + 1}
          /\ canState' = canState => transfer'.sector = transfer.sector + 1
      BY <1>3, <2>2, <2>3 DEF ProgressTypes, IsTransfer
    <2>5. ProgressTypes'
      <3>1. IsTransfer(transfer)
        BY DEF FlashInv, ProgressTypes
      <3>2. IsTransfer(transfer')
        BY <2>4, <3>1 DEF IsTransfer
      <3> QED BY <1>2, <3>2 DEF ProgressTypes, IsTransfer
    <2>6. TableWordsCounted'
      BY <1>3, <2>3, <2>4 DEF TableWordsCounted, SectorStates
    <2>7. SectorsInFlash'
      <3>1. /\ transfer'.onBoard \in Seq(Sectors)
            /\ Len(transfer'.onBoard) = Len(onBoard) + 1
            /\ Len(onBoard) \in Nat
        BY <2>1, <2>4
      <3>2. ASSUME NEW k \in 1 .. Len(transfer'.onBoard)
            PROVE  transfer'.onBoard[k] = flash'[k]
        <4>1. CASE k \in 1 .. Len(onBoard)
          <5>1. k # transfer.sector /\ k \in 1 .. NumSectors
            BY <2>1, <3>1, <4>1
          <5>2. flash'[k] = flash[k]
            BY <5>1 DEF ProgressTypes, FlashContents
          <5>3. transfer'.onBoard[k] = onBoard[k]
            BY <2>1, <2>4, <4>1
          <5> QED BY <2>1, <4>1, <5>2, <5>3
        <4>2. CASE k = Len(onBoard) + 1
          <5>1. flash'[k] = w.left
            BY <2>1, <4>2 DEF ProgressTypes, FlashContents
          <5>2. transfer'.onBoard[k] = w.left
            BY <2>1, <2>4, <4>2
          <5> QED BY <5>1, <5>2
        <4> QED BY <3>1, <4>1, <4>2
      <3>3. canState' \in SectorStates =>
              transfer'.sector = Len(transfer'.onBoard) + 1
        BY <1>3, <2>1, <2>3, <2>4, <3>1 DEF SectorStates
      <3> QED BY <2>1, <3>1, <3>2, <3>3 DEF SectorsInFlash
    <2> QED BY <1>1, <2>3, <2>5, <2>6, <2>7 DEF NothingBefore
  <1> QED BY <1>4, <1>5

LEMMA WriteStep ==
  ASSUME FlashInv, BOOT_WriteAndValidateCurrentSector, UNCHANGED program
  PROVE  FlashInv'
  <1>1. HostTypes'
    BY DEF FlashInv, HostTypes, program, counters
  <1>2. CASE Halt /\ UNCHANGED flash
    BY <1>1, <1>2, RestartedStep DEF Halt, FlashInv, ProgressTypes
  <1>3. CASE bootState' = "ERROR" /\ UNCHANGED <<canState, progress, flash>>
    BY <1>1, <1>3 DEF FlashInv, ProgressTypes, TableWordsCounted, NothingBefore,
                      SectorsInFlash, progress
  <1>4. CASE /\ transfer.sector \in 1 .. NumSectors
             /\ \E w \in Outcomes(flash[transfer.sector], buffer, TornSectors) :
                 /\ flash' = [flash EXCEPT ![transfer.sector] = w.left]
                 /\ \/ SectorWritten(w) /\ UNCHANGED <<copy, buffer>>
                    \/ Halt
    <2>1. PICK w \in Outcomes(flash[transfer.sector], buffer, TornSectors) :
                 /\ flash' = [flash EXCEPT ![transfer.sector] = w.left]
                 /\ \/ SectorWritten(w) /\ UNCHANGED <<copy, buffer>>
                    \/ Halt
      BY <1>4
    <2>2. w.left \in Sectors
      BY <1>4, LeftIsSector
    <2>3. flash' \in FlashContents
      BY <2>1, <2>2 DEF FlashInv, ProgressTypes, FlashContents
    <2>4. CASE Halt
      BY <1>1, <2>3, <2>4, RestartedStep DEF Halt
    <2>5. CASE SectorWritten(w) /\ UNCHANGED <<copy, buffer>>
      <3>1. WriteTurn
        BY DEF BOOT_WriteAndValidateCurrentSector
      <3> QED BY <1>4, <2>1, <2>2, <2>5, <3>1, SectorWrittenStep
    <2> QED BY <2>1, <2>4, <2>5
  <1>5. CASE ~Raised(flash, store.table)
    BY <1>2, <1>5 DEF BOOT_WriteAndValidateCurrentSector
  <1>6. CASE Raised(flash, store.table) /\ transfer.sector \notin 1 .. NumSectors
    BY <1>3, <1>6 DEF BOOT_WriteAndValidateCurrentSector
  <1>7. CASE Raised(flash, store.table) /\ transfer.sector \in 1 .. NumSectors
    BY <1>4, <1>7 DEF BOOT_WriteAndValidateCurrentSector
  <1> QED BY <1>5, <1>6, <1>7

LEMMA ErasedIsFlash ==
  ASSUME FlashInv
  PROVE  /\ ErasedUpTo(NumSectors + 1, <<>>) \in FlashContents
         /\ CutErasures \subseteq FlashContents
  <1>1. /\ Fill(Zero, SectorLoops) \in Sectors
        /\ \A t \in TornSectors : t \in Sectors
        /\ \A s \in 1 .. NumSectors : flash[s] \in Sectors
    BY FillIsSector DEF FlashInv, ProgressTypes, FlashContents, TornSectors
  <1>2. ErasedUpTo(NumSectors + 1, <<>>) \in FlashContents
    BY <1>1 DEF ErasedUpTo, FlashContents
  <1>3. ASSUME NEW s \in 1 .. NumSectors, NEW left \in Sectors
        PROVE  ErasedUpTo(s, left) \in FlashContents
    BY <1>1, <1>3 DEF ErasedUpTo, FlashContents
  <1>4. ASSUME NEW f \in CutErasures PROVE f \in FlashContents
    <2>1. PICK s \in 1 .. NumSectors :
              f \in {ErasedUpTo(s, w) : w \in {flash[s]} \union TornSectors}
      BY <1>4 DEF CutErasures
    <2>2. PICK w \in {flash[s]} \union TornSectors : f = ErasedUpTo(s, w)
      BY <2>1
    <2> QED BY <1>1, <1>3, <2>2
  <1> QED BY <1>2, <1>4

LEMMA ResetStep ==
  ASSUME FlashInv, BOOT_ResetBootloader, HostTypes'
  PROVE  FlashInv'
  <1>1. ASSUME NEW m, Restarted(m), UNCHANGED flash
        PROVE  FlashInv'
    BY <1>1, RestartedStep DEF FlashInv, ProgressTypes
  <1>2. ASSUME NEW b \in BOOLEAN, SoftwareReset(b), UNCHANGED flash
        PROVE  FlashInv'
    BY <1>1, <1>2, Zenon DEF SoftwareReset, Halt
  <1>3. CASE EraseApp
    <2>1. flash' \in FlashContents
      BY <1>3, ErasedIsFlash DEF EraseApp
    <2>2. CASE Restarted("boot")
      BY <2>1, <2>2, RestartedStep
    <2>3. CASE /\ canState' = "CLEARED" /\ bootState' = "ERROR"
               /\ transfer' = ClearedTransfer /\ copy' = ClearedTransfer
               /\ buffer' = Fill(Zero, SectorLoops)
      BY <2>1, <2>3, FillIsSector, InitialIsTransfer
         DEF FlashInv, ProgressTypes, TableWordsCounted, ClearedTransfer,
             InitialTransfer, SectorStates, NothingBefore, SectorsInFlash
    <2> QED BY <1>3, <2>2, <2>3 DEF EraseApp
  <1>4. Raised(flash, store.table) \in BOOLEAN
        /\ \A t : Served(t, flash) \in BOOLEAN
    BY Zenon DEF Served, Raised
  <1>5. CASE Refused(ResetStore)
    <2>1. SoftwareReset(Raised(flash, store.table)) /\ UNCHANGED flash
      BY <1>5 DEF BOOT_ResetBootloader, persistent
    <2>2. Restarted("boot") \/ Restarted("halted")
      BY <2>1, Zenon DEF SoftwareReset, Halt
    <2> QED BY <1>1, <2>1, <2>2
  <1>6. CASE ~Refused(ResetStore) /\ ~Raised(flash, store.table)
    BY <1>1, <1>6 DEF BOOT_ResetBootloader, persistent, Halt
  <1>7. CASE ~Refused(ResetStore) /\ Raised(flash, store.table)
    <2>1. PICK w \in Outcomes(store, ResetStore, TornStores(ResetStore)) :
              /\ store' = w.left
              /\ CASE ~w.ok -> /\ SoftwareReset(Served(w.left.table, flash))
                               /\ Mishap /\ UNCHANGED flash
                   [] w.ok /\ ~Served(w.left.table, flash) ->
                        Halt /\ UNCHANGED <<flash, mishaps>>
                   [] w.ok /\ Served(w.left.table, flash) -> EraseApp
      BY <1>7, Zenon DEF BOOT_ResetBootloader
    <2>2. CASE ~w.ok
      <3>1. SoftwareReset(Served(w.left.table, flash)) /\ UNCHANGED flash
        BY <2>1, <2>2
      <3>2. Restarted("boot") \/ Restarted("halted")
        BY <3>1, Zenon DEF SoftwareReset, Halt
      <3> QED BY <1>1, <3>1, <3>2
    <2>3. CASE w.ok /\ ~Served(w.left.table, flash)
      BY <1>1, <2>1, <2>3 DEF Halt
    <2>4. CASE w.ok /\ Served(w.left.table, flash)
      BY <1>3, <2>1, <2>4
    <2> QED BY <2>2, <2>3, <2>4
  <1> QED BY <1>5, <1>6, <1>7

LEMMA FlashStep ==
  ASSUME FlashInv, [LoadNext]_vars
  PROVE  FlashInv'
  <1>1. ASSUME NEW m, Restarted(m), UNCHANGED flash, HostTypes'
        PROVE  FlashInv'
    BY <1>1, RestartedStep DEF FlashInv, ProgressTypes
  <1>2. UNCHANGED program => HostTypes'
    BY DEF FlashInv, HostTypes, program, counters
  <1>3. CASE Device
    <2>1. UNCHANGED program /\ HostTypes'
      BY <1>2, <1>3 DEF Device
    <2>2. CASE Wait \/ TimeOut \/ Load \/ BOOT_GetBootStateDuringError
      <3>1. UNCHANGED <<canState, progress, flash>>
        BY <2>2 DEF Wait, TimeOut, Load, BOOT_GetBootStateDuringError, persistent
      <3>2. \/ bootState = "WAIT"
            \/ bootState = "LOAD" /\ bootState' \in {"LOAD", "RESET", "ERROR"}
            \/ bootState' = "RESET"
        BY <2>2 DEF Wait, TimeOut, Load, BOOT_GetBootStateDuringError, In
      <3>3. ProgressTypes' /\ TableWordsCounted'
        BY <3>1 DEF FlashInv, ProgressTypes, TableWordsCounted, progress
      <3>4. NothingBefore' /\ SectorsInFlash'
        <4>1. CASE bootState = "WAIT"
          <5>1. /\ transfer'.onBoard = <<>> /\ transfer'.sector = 1
                /\ transfer'.received = 0 /\ canState' \notin TableStates
            BY <3>1, <4>1 DEF FlashInv, NothingBefore, progress
          <5> QED BY <5>1 DEF NothingBefore, SectorsInFlash
        <4>2. CASE bootState = "LOAD" /\ bootState' \in {"LOAD", "RESET", "ERROR"}
          BY <3>1, <4>2 DEF FlashInv, NothingBefore, SectorsInFlash, progress
        <4>3. CASE bootState' = "RESET"
          BY <4>3 DEF NothingBefore, SectorsInFlash
        <4> QED BY <3>2, <4>1, <4>2, <4>3
      <3> QED BY <2>1, <3>3, <3>4 DEF FlashInv
    <2>3. CASE BOOT_WriteAndValidateCurrentSector
      BY <2>1, <2>3, WriteStep
    <2>4. CASE StoreProgram
      <3>1. UNCHANGED flash
        BY <2>4 DEF StoreProgram
      <3>2. \/ Restarted("boot") \/ Restarted("halted")
            \/ bootState' = "ERROR" /\ UNCHANGED <<canState, progress>>
        BY <2>4, Zenon DEF StoreProgram, Halt
      <3>3. CASE bootState' = "ERROR" /\ UNCHANGED <<canState, progress>>
        BY <2>1, <3>1, <3>3 DEF FlashInv, ProgressTypes, TableWordsCounted,
              NothingBefore, SectorsInFlash, progress
      <3> QED BY <1>1, <2>1, <3>1, <3>2, <3>3
    <2>5. CASE Run
      <3>1. UNCHANGED flash /\ bootState = "RUN"
        BY <2>5 DEF Run, persistent, In
      <3>2. \/ Restarted("app") \/ Restarted("halted")
            \/ /\ canState' = "NO_COMMUNICATION" /\ bootState' = "WAIT"
               /\ UNCHANGED progress
        BY <2>5, Zenon DEF Run, Halt
      <3>3. CASE /\ canState' = "NO_COMMUNICATION" /\ bootState' = "WAIT"
                 /\ UNCHANGED progress
        BY <2>1, <3>1, <3>3 DEF FlashInv, ProgressTypes, TableWordsCounted,
              NothingBefore, SectorsInFlash, progress, TableStates
      <3> QED BY <1>1, <2>1, <3>1, <3>2, <3>3
    <2>6. CASE BOOT_ResetBootloader
      BY <2>1, <2>6, ResetStep
    <2> QED BY <1>3, <2>2, <2>3, <2>4, <2>5, <2>6 DEF Device, MainLoop
  <1>4. CASE HostStep
    BY <1>4, HostKept, KeptStep
  <1>5. CASE Interrupt
    BY <1>5 DEF Interrupt, FlashInv, ProgressTypes, HostTypes, TableWordsCounted,
           NothingBefore, SectorsInFlash, boot, progress, persistent, counters
  <1>6. CASE RunApp
    <2>1. HostTypes' /\ RxActionRequest("RUN")
      BY <1>2, <1>6 DEF RunApp
    <2> QED BY <2>1, ActionRequestKept, KeptStep
  <1>7. ASSUME NEW i \in Images \union {NoImage}, StartSession(i)
        PROVE  FlashInv'
    BY <1>7 DEF StartSession, FlashInv, ProgressTypes, HostTypes, TableWordsCounted,
           NothingBefore, SectorsInFlash, progress, persistent
  <1>8. CASE PowerFails /\ UNCHANGED program
    <2>1. Restarted("boot")
      BY <1>8 DEF PowerFails, PowerFailure, PowerFailureInSector,
                  PowerFailureInStore, PowerFailureInReset, Cut
    <2>2. flash' \in FlashContents
      <3>1. CASE PowerFailure \/ PowerFailureInStore
        BY <3>1 DEF PowerFailure, PowerFailureInStore, FlashInv, ProgressTypes
      <3>2. CASE PowerFailureInSector
        <4>1. PICK torn \in TornSectors :
                flash' = [flash EXCEPT ![transfer.sector] = torn]
          BY <3>2 DEF PowerFailureInSector
        <4>2. torn \in Sectors
          BY FillIsSector DEF TornSectors
        <4> QED BY <4>1, <4>2 DEF FlashInv, ProgressTypes, FlashContents
      <3>3. CASE PowerFailureInReset
        BY <3>3, ErasedIsFlash DEF PowerFailureInReset, FlashInv, ProgressTypes
      <3> QED BY <1>8, <3>1, <3>2, <3>3 DEF PowerFails
    <2> QED BY <1>2, <1>8, <2>1, <2>2, RestartedStep
  <1>9. CASE PowerCycle /\ UNCHANGED program
    BY <1>1, <1>2, <1>9 DEF PowerCycle, persistent
  <1>10. CASE UNCHANGED vars
    BY <1>10 DEF vars, FlashInv, ProgressTypes, HostTypes, TableWordsCounted,
           NothingBefore, SectorsInFlash, boot, progress, persistent, program,
           counters
  <1> QED BY <1>3, <1>4, <1>5, <1>6, <1>7, <1>8, <1>9, <1>10 DEF LoadNext

\* The first sectors of flash as a sequence.
LEMMA FirstSectors ==
  ASSUME NEW f \in FlashContents, NEW s \in Seq(Sectors), Len(s) <= NumSectors,
         \A k \in 1 .. Len(s) : s[k] = f[k]
  PROVE  s = SubSeq(f, 1, Len(s))
  <1>1. f \in Seq(Sectors) /\ Len(f) = NumSectors
    BY DEF FlashContents
  <1>2. /\ SubSeq(f, 1, Len(s)) \in Seq(Sectors)
        /\ Len(SubSeq(f, 1, Len(s))) = Len(s)
        /\ \A k \in 1 .. Len(s) : SubSeq(f, 1, Len(s))[k] = f[k]
    BY <1>1
  <1> QED BY <1>2, SeqEqual

LEMMA InitialFlash == LoadInit => FlashInv
  <1> SUFFICES ASSUME LoadInit PROVE FlashInv
    OBVIOUS
  <1>1. IsTransfer(transfer) /\ IsTransfer(copy)
    BY InitialIsTransfer DEF LoadInit, Init
  <1>2. ProgressTypes
    BY <1>1, FillIsSector DEF LoadInit, Init, ProgressTypes, FlashContents
  <1>3. HostTypes
    BY DEF LoadInit, HostTypes
  <1>4. TableWordsCounted /\ NothingBefore /\ SectorsInFlash
    BY DEF LoadInit, Init, TableWordsCounted, NothingBefore, SectorsInFlash,
           InitialTransfer, ClearedTransfer, TableStates
  <1> QED BY <1>2, <1>3, <1>4 DEF FlashInv

\* Whatever is lost, sent again or refused, and wherever power fails: as long
\* as an application is being loaded, the sectors acknowledged are in flash as
\* they were received (boot.c:162-216).
THEOREM AcknowledgedSectorsStay == LoadSpec => []AcknowledgedIsInFlash
  <1>1. LoadInit => FlashInv
    BY InitialFlash
  <1>2. FlashInv => AcknowledgedIsInFlash
    BY FirstSectors DEF FlashInv, ProgressTypes, SectorsInFlash, AcknowledgedIsInFlash
  <1>3. FlashInv /\ [LoadNext]_vars => FlashInv'
    BY FlashStep
  <1> QED BY <1>1, <1>2, <1>3, PTL DEF LoadSpec

-----------------------------------------------------------------------------
(* Type correctness *)

ControlTypes ==
    /\ canState \in CanStates /\ bootState \in BootStates
    /\ mode \in {"boot", "app", "halted"}
    /\ autoRun \in BOOLEAN /\ privileged \in BOOLEAN
    /\ validations \in 0 .. 1

IsStore(r) ==
    /\ DOMAIN r = {"magic", "available", "crc", "tableCrc", "backup", "table"}
    /\ r.magic \in BOOLEAN /\ r.available \in BOOLEAN

BootTypes == ControlTypes /\ mishaps \in 0 .. MaxMishaps /\ IsStore(store)

LEMMA StoresAreTyped ==
  ASSUME BootTypes
  PROVE  /\ Loaded.available \in BOOLEAN
         /\ IsStore(ProgramStore) /\ IsStore(ResetStore)
  <1>1. Loaded.available \in BOOLEAN
    BY DEF Loaded, BootTypes, IsStore
  <1>2. IsStore(ProgramStore)
    BY DEF ProgramStore, IsStore
  <1>3. IsStore(ResetStore)
    BY DEF ResetStore, IsStore
  <1> QED BY <1>1, <1>2, <1>3

LEMMA TornIsTyped ==
  ASSUME NEW new, IsStore(new), NEW t \in TornStores(new)
  PROVE  IsStore(t)
  <1> DEFINE blank == [new EXCEPT !.magic = FALSE, !.available = FALSE,
                             !.crc = <<>>, !.tableCrc = <<>>,
                             !.backup = Fill(Erased, TableWords),
                             !.table = Fill(Erased, TableWords)]
  <1>1. IsStore(blank)
    BY DEF IsStore
  <1>2. IsStore([blank EXCEPT !.magic = new.magic])
    BY <1>1 DEF IsStore
  <1>3. IsStore([new EXCEPT !.backup = blank.backup, !.table = blank.table])
    BY DEF IsStore
  <1>4. IsStore([new EXCEPT !.table = blank.table])
    BY DEF IsStore
  <1> QED BY <1>1, <1>2, <1>3, <1>4 DEF TornStores

LEMMA OutcomeIsCounted ==
  ASSUME mishaps \in 0 .. MaxMishaps,
         NEW old, NEW new, NEW torn, NEW w \in Outcomes(old, new, torn)
  PROVE  mishaps + (IF w.ok THEN 0 ELSE 1) \in 0 .. MaxMishaps
  <1>1. mishaps \in Nat /\ MaxMishaps \in Nat
    BY SizeAssumption
  <1>2. CASE w.ok = TRUE
    BY <1>1, <1>2
  <1>3. CASE w.ok = FALSE /\ mishaps < MaxMishaps
    BY <1>1, <1>3
  <1>4. w.ok = TRUE \/ (w.ok = FALSE /\ mishaps < MaxMishaps)
    BY <1>1 DEF Outcomes
  <1> QED BY <1>2, <1>3, <1>4

LEMMA OutcomeIsTyped ==
  ASSUME BootTypes, NEW new, IsStore(new),
         NEW w \in Outcomes(store, new, TornStores(new))
  PROVE  IsStore(w.left)
  <1>1. CASE w.left = new
    BY <1>1
  <1>2. CASE w.left \in TornStores(new)
    BY <1>2, TornIsTyped
  <1>3. CASE w.left = store
    BY <1>3 DEF BootTypes
  <1>4. w.left = new \/ w.left \in TornStores(new) \union {store}
    BY OutcomeIsNew
  <1> QED BY <1>1, <1>2, <1>3, <1>4

LEMMA RestartedIsTyped ==
  ASSUME NEW m \in {"boot", "app", "halted"}, Restarted(m)
  PROVE  ControlTypes'
  <1>1. /\ canState' = "NO_COMMUNICATION" /\ bootState' = "WAIT" /\ mode' = m
        /\ validations' = 0 /\ autoRun' = FALSE /\ privileged' = TRUE
    BY DEF Restarted
  <1>2. autoRun' \in BOOLEAN /\ privileged' \in BOOLEAN
    BY <1>1, Zenon
  <1> QED BY <1>1, <1>2 DEF ControlTypes, CanStates, BootStates

LEMMA CallbackIsTyped ==
  ASSUME ControlTypes,
         \/ \E r \in {"TRANSFER", "RUN", "RESET"} : RxActionRequest(r)
         \/ \E n : RxTransferProcessInfo(n)
         \/ \E n : RxLoopInfo(n)
         \/ \E word : RxData8Bytes(word)
         \/ \E crc : RxCrc8Bytes(crc)
  PROVE  ControlTypes'
  <1>1. UNCHANGED <<bootState, validations, mode, autoRun, privileged>>
    BY DEF RxActionRequest, RxTransferProcessInfo, RxLoopInfo, RxData8Bytes,
           RxCrc8Bytes, processor
  <1>2. canState' \in CanStates
    <2> USE DEF ControlTypes, CanStates
    <2>1. CASE \E r \in {"TRANSFER", "RUN", "RESET"} : RxActionRequest(r)
      BY <2>1 DEF RxActionRequest, RxTransferRequest, RxRunRequest, RxResetRequest
    <2>2. CASE \E n : RxTransferProcessInfo(n)
      BY <2>2 DEF RxTransferProcessInfo
    <2>3. CASE \E n : RxLoopInfo(n)
      BY <2>3 DEF RxLoopInfo
    <2>4. CASE \E word : RxData8Bytes(word)
      BY <2>4 DEF RxData8Bytes, RxTableWord, RxProgramWord
    <2>5. CASE \E crc : RxCrc8Bytes(crc)
      BY <2>5 DEF RxCrc8Bytes, RxTableCrc, RxSectorCrc
    <2> QED BY <2>1, <2>2, <2>3, <2>4, <2>5
  <1> QED BY <1>1, <1>2 DEF ControlTypes

LEMMA HostIsTyped ==
  ASSUME ControlTypes, HostStep
  PROVE  ControlTypes'
  <1>1. CASE UNCHANGED <<canState, bootState, validations, processor>>
    BY <1>1 DEF ControlTypes, processor
  <1>2. UNCHANGED boot => UNCHANGED <<canState, bootState, validations, processor>>
    BY DEF boot
  <1>3. CASE Reset \/ Transfer
    <2>1. ASSUME NEW r \in {"TRANSFER", "RUN", "RESET"}, NEW from, NEW to,
                 SendRequest(r, from, to)
          PROVE  ControlTypes'
      BY <1>1, <1>2, <2>1, CallbackIsTyped, Zenon DEF SendRequest, Sent
    <2> QED BY <1>3, <2>1 DEF Reset, Transfer
  <1>4. CASE SendInfo
    BY <1>1, <1>2, <1>4, CallbackIsTyped, Zenon DEF SendInfo, Sent
  <1>5. CASE SendNumber
    BY <1>1, <1>2, <1>5, CallbackIsTyped, Zenon DEF SendNumber, Sent
  <1>6. CASE SendData \/ SendTableWord
    BY <1>1, <1>2, <1>6, CallbackIsTyped, Zenon DEF SendData, SendTableWord, Sent
  <1>7. CASE SendCrc \/ SendTableCrc
    BY <1>1, <1>2, <1>7, CallbackIsTyped, Zenon DEF SendCrc, SendTableCrc, Sent
  <1>8. CASE ResetAck \/ ResetPoll \/ TransferAck \/ InfoAck \/ SubSectorAck
             \/ CrcAck \/ TableAck \/ TableCrcAck
    BY <1>1, <1>8, Zenon DEF ResetAck, ResetPoll, TransferAck, InfoAck, SubSectorAck,
                      CrcAck, TableAck, TableCrcAck, Waited
  <1> QED BY <1>3, <1>4, <1>5, <1>6, <1>7, <1>8 DEF HostStep

LEMMA WriteIsTyped ==
  ASSUME BootTypes, BOOT_WriteAndValidateCurrentSector
  PROVE  BootTypes'
  <1>1. ASSUME Halt, UNCHANGED store, mishaps' \in 0 .. MaxMishaps PROVE BootTypes'
    BY <1>1, RestartedIsTyped DEF Halt, BootTypes
  <1>2. UNCHANGED store
    BY DEF BOOT_WriteAndValidateCurrentSector
  <1>3. CASE ~Raised(flash, store.table)
    BY <1>1, <1>2, <1>3 DEF BOOT_WriteAndValidateCurrentSector, BootTypes
  <1>4. CASE Raised(flash, store.table) /\ transfer.sector \notin 1 .. NumSectors
    BY <1>2, <1>4 DEF BOOT_WriteAndValidateCurrentSector, BootTypes, ControlTypes,
                      BootStates
  <1>5. CASE Raised(flash, store.table) /\ transfer.sector \in 1 .. NumSectors
    <2>1. PICK w \in Outcomes(flash[transfer.sector], buffer, TornSectors) :
                 /\ mishaps' = mishaps + (IF w.ok THEN 0 ELSE 1)
                 /\ \/ SectorWritten(w) /\ UNCHANGED <<mode, autoRun>>
                    \/ Halt
      BY <1>5 DEF BOOT_WriteAndValidateCurrentSector
    <2>3. mishaps' \in 0 .. MaxMishaps
      <3>1. PICK old : old = flash[transfer.sector]
        OBVIOUS
      <3>2. w \in Outcomes(old, buffer, TornSectors)
        BY <3>1
      <3> QED BY <2>1, <3>2, OutcomeIsCounted DEF BootTypes
    <2>4. CASE SectorWritten(w) /\ UNCHANGED <<mode, autoRun>>
      <3>1. canState' \in CanStates /\ bootState' \in BootStates
        BY <2>4 DEF SectorWritten, BootTypes, ControlTypes, CanStates, BootStates
      <3>2. validations' \in 0 .. 1
        BY <2>4 DEF SectorWritten
      <3>3. privileged' \in BOOLEAN
        <4>1. privileged' = FALSE
          BY <2>4 DEF SectorWritten
        <4> QED BY <4>1, Zenon
      <3>4. ControlTypes'
        BY <2>4, <3>1, <3>2, <3>3 DEF BootTypes, ControlTypes
      <3> QED BY <1>2, <2>3, <3>4 DEF BootTypes
    <2> QED BY <1>1, <1>2, <2>1, <2>3, <2>4
  <1> QED BY <1>3, <1>4, <1>5

LEMMA StoreIsTyped ==
  ASSUME BootTypes, StoreProgram
  PROVE  BootTypes'
  <1>1. IsStore(store') /\ mishaps' \in 0 .. MaxMishaps
    <2>1. CASE UNCHANGED <<store, mishaps>>
      BY <2>1 DEF BootTypes
    <2>2. ASSUME NEW w \in Outcomes(store, ProgramStore, TornStores(ProgramStore)),
                 Written(w)
          PROVE  IsStore(store') /\ mishaps' \in 0 .. MaxMishaps
      <3>1. IsStore(store')
        BY <2>2, StoresAreTyped, OutcomeIsTyped DEF Written
      <3> QED BY <2>2, <3>1, OutcomeIsCounted DEF Written, BootTypes
    <2> QED BY <2>1, <2>2, Zenon DEF StoreProgram, Halt
  <1>2. \/ Restarted("boot") \/ Restarted("halted")
        \/ /\ bootState' = "ERROR" /\ validations' = 0
           /\ UNCHANGED <<canState, autoRun, mode>>
           /\ privileged' \in {FALSE, privileged}
    BY DEF StoreProgram, Halt
  <1>3. CASE /\ bootState' = "ERROR" /\ validations' = 0
             /\ UNCHANGED <<canState, autoRun, mode>>
             /\ privileged' \in {FALSE, privileged}
    <2>1. privileged' \in BOOLEAN
      BY <1>3, Zenon DEF BootTypes, ControlTypes
    <2>2. ControlTypes'
      BY <1>3, <2>1 DEF BootTypes, ControlTypes, BootStates
    <2> QED BY <1>1, <2>2 DEF BootTypes
  <1>4. CASE Restarted("boot") \/ Restarted("halted")
    BY <1>1, <1>4, RestartedIsTyped DEF BootTypes
  <1> QED BY <1>1, <1>2, <1>3, <1>4 DEF BootTypes

LEMMA ResetIsTyped ==
  ASSUME BootTypes, BOOT_ResetBootloader
  PROVE  BootTypes'
  <1>1. ASSUME NEW m \in {"boot", "halted"}, Restarted(m), IsStore(store'),
               mishaps' \in 0 .. MaxMishaps
        PROVE  BootTypes'
    BY <1>1, RestartedIsTyped DEF BootTypes
  <1>2. CASE Refused(ResetStore)
    <2>1. /\ Restarted("boot") \/ Restarted("halted")
          /\ UNCHANGED <<store, mishaps>>
      BY <1>2, Zenon DEF BOOT_ResetBootloader, SoftwareReset, Halt, persistent
    <2> QED BY <1>1, <2>1 DEF BootTypes
  <1>3. CASE ~Refused(ResetStore) /\ ~Raised(flash, store.table)
    BY <1>1, <1>3 DEF BOOT_ResetBootloader, persistent, Halt, BootTypes
  <1>4. CASE ~Refused(ResetStore) /\ Raised(flash, store.table)
    <2>1. PICK w \in Outcomes(store, ResetStore, TornStores(ResetStore)) :
              /\ store' = w.left
              /\ CASE ~w.ok -> /\ SoftwareReset(Served(w.left.table, flash))
                               /\ Mishap /\ UNCHANGED flash
                   [] w.ok /\ ~Served(w.left.table, flash) ->
                        Halt /\ UNCHANGED <<flash, mishaps>>
                   [] w.ok /\ Served(w.left.table, flash) -> EraseApp
      BY <1>4, Zenon DEF BOOT_ResetBootloader
    <2>2. IsStore(store')
      BY <2>1, StoresAreTyped, OutcomeIsTyped
    <2>3. CASE ~w.ok
      <3>1. (Restarted("boot") \/ Restarted("halted")) /\ Mishap
        BY <2>1, <2>3, Zenon DEF SoftwareReset, Halt
      <3> QED BY <1>1, <2>2, <3>1 DEF Mishap, BootTypes
    <2>4. CASE w.ok /\ ~Served(w.left.table, flash)
      <3>1. Restarted("halted") /\ UNCHANGED mishaps
        BY <2>1, <2>4 DEF Halt
      <3> QED BY <1>1, <2>2, <3>1 DEF BootTypes
    <2>5. CASE EraseApp
      <3>1. CASE Restarted("boot") /\ UNCHANGED mishaps
        BY <1>1, <2>2, <3>1 DEF BootTypes
      <3>2. CASE /\ Mishap /\ canState' = "CLEARED" /\ bootState' = "ERROR"
                 /\ validations' = 0 /\ privileged' = FALSE
                 /\ UNCHANGED <<autoRun, mode>>
        <4>1. privileged' \in BOOLEAN
          BY <3>2, Zenon
        <4>2. ControlTypes'
          BY <3>2, <4>1 DEF BootTypes, ControlTypes, CanStates, BootStates
        <4> QED BY <2>2, <3>2, <4>2 DEF Mishap, BootTypes
      <3> QED BY <2>5, <3>1, <3>2 DEF EraseApp
    <2> QED BY <2>1, <2>3, <2>4, <2>5
  <1> QED BY <1>2, <1>3, <1>4

LEMMA TypesStep ==
  ASSUME BootTypes, [LoadNext]_vars
  PROVE  BootTypes'
  <1>1. CASE ControlTypes' /\ UNCHANGED <<store, mishaps>>
    BY <1>1 DEF BootTypes
  <1>2. CASE UNCHANGED <<canState, bootState, validations, processor, persistent>>
    BY <1>2 DEF BootTypes, ControlTypes, processor, persistent
  <1>3. CASE MainLoop \/ TimeOut
    <2> USE DEF BootTypes, ControlTypes, BootStates, CanStates, processor, persistent
    <2>1. CASE Wait
      <3>1. BOOT_GetBootState \in BootStates
        BY DEF BOOT_GetBootState, LoadStates
      <3> QED BY <2>1, <3>1 DEF Wait
    <2>2. CASE TimeOut
      BY <2>2 DEF TimeOut
    <2>3. CASE Load
      BY <2>3 DEF Load
    <2>4. CASE BOOT_GetBootStateDuringError
      BY <2>4 DEF BOOT_GetBootStateDuringError
    <2>5. CASE Run
      <3>1. UNCHANGED <<store, mishaps>>
        BY <2>5 DEF Run
      <3>2. \/ Restarted("app") \/ Restarted("halted")
            \/ /\ canState' = "NO_COMMUNICATION" /\ bootState' = "WAIT"
               /\ privileged' = (privileged /\ ~Loaded.available)
               /\ UNCHANGED <<validations, autoRun, mode>>
        BY <2>5, Zenon DEF Run, Halt
      <3>3. CASE /\ canState' = "NO_COMMUNICATION" /\ bootState' = "WAIT"
                 /\ privileged' = (privileged /\ ~Loaded.available)
                 /\ UNCHANGED <<validations, autoRun, mode>>
        <4>1. privileged' \in BOOLEAN
          BY <3>3, Zenon
        <4> QED BY <3>1, <3>3, <4>1
      <3> QED BY <3>1, <3>2, <3>3, RestartedIsTyped
    <2> QED BY <1>3, <2>1, <2>2, <2>3, <2>4, <2>5, WriteIsTyped, StoreIsTyped,
               ResetIsTyped DEF MainLoop
  <1>4. CASE HostStep
    BY <1>1, <1>4, HostIsTyped, HostLeaves DEF BootTypes, persistent
  <1>5. CASE RunApp
    <2>1. RxActionRequest("RUN") /\ UNCHANGED <<store, mishaps>>
      BY <1>5 DEF RunApp, RxActionRequest, persistent
    <2> QED BY <1>1, <2>1, CallbackIsTyped DEF BootTypes
  <1>6. CASE Interrupt \/ \E i \in Images \union {NoImage} : StartSession(i)
    BY <1>2, <1>6 DEF Interrupt, StartSession, boot
  <1>7. CASE PowerFails
    <2>1. Restarted("boot") /\ Mishap
      BY <1>7 DEF PowerFails, PowerFailure, PowerFailureInSector,
                  PowerFailureInStore, PowerFailureInReset, Cut
    <2>2. IsStore(store')
      BY <1>7, StoresAreTyped, TornIsTyped
         DEF PowerFails, PowerFailure, PowerFailureInSector, BootTypes,
             PowerFailureInStore, PowerFailureInReset
    <2> QED BY <2>1, <2>2, RestartedIsTyped DEF BootTypes, Mishap
  <1>8. CASE PowerCycle
    BY <1>1, <1>8, RestartedIsTyped DEF PowerCycle, persistent
  <1>9. CASE UNCHANGED vars
    BY <1>2, <1>9 DEF vars, boot
  <1> QED BY <1>3, <1>4, <1>5, <1>6, <1>7, <1>8, <1>9 DEF LoadNext, Device

LEMMA InitialTypes == LoadInit => BootTypes
  <1> SUFFICES ASSUME LoadInit PROVE BootTypes
    OBVIOUS
  <1>1. ControlTypes
    <2>1. autoRun \in BOOLEAN /\ privileged \in BOOLEAN
      BY Zenon DEF LoadInit, Init
    <2> QED BY <2>1 DEF LoadInit, Init, ControlTypes, CanStates, BootStates
  <1>2. IsStore(InitialStore) /\ \A i \in Images : IsStore(InstalledStore(i))
    BY DEF IsStore, InitialStore, InstalledStore
  <1>3. IsStore(store)
    BY <1>2, Zenon DEF LoadInit, Init
  <1> QED BY <1>1, <1>3, SizeAssumption DEF LoadInit, Init, BootTypes

\* Every variable keeps its type, and no word of the vector table is written
\* behind its end (can_cbs.c:329-342), for every size and every application.
THEOREM BootTypeCorrect == LoadSpec => []TypeOK
  <1>1. LoadInit => BootTypes
    BY InitialTypes
  <1>2. BootTypes /\ [LoadNext]_vars => BootTypes'
    BY TypesStep
  <1>3. LoadInit => FlashInv
    BY InitialFlash
  <1>4. FlashInv /\ [LoadNext]_vars => FlashInv'
    BY FlashStep
  <1>5. BootTypes /\ FlashInv => TypeOK
    BY DEF BootTypes, ControlTypes, IsStore, FlashInv, ProgressTypes, IsTransfer, TypeOK
  <1> QED BY <1>1, <1>2, <1>3, <1>4, <1>5, PTL DEF LoadSpec

-----------------------------------------------------------------------------
(* The application that can be started *)

Tables == [1 .. TableWords -> Words]

\* The CRCs the host sends: that of the first sectors, that of the table.
CrcsOf(i) == {SubSeq(ProgramOf(i), 1, n) : n \in Nat} \union {TableOf(i)}

\* Where the host is while it loads an application.
Loading == {"transfer", "transferAck", "info", "infoAck", "number", "data",
    "subSectorAck", "crc", "crcAck", "table", "tableAck", "tableCrc",
    "tableCrcAck"}

\* What the bootloader holds is of the application that is being loaded.
ReceivedFromHost ==
    host \in Loading => /\ image \in Images
                        /\ transfer.crc \in CrcsOf(image)
                        /\ copy.crc \in CrcsOf(image)

\* The vector table validated and the sectors on board are of one application.
ValidatedOfOne ==
    canState = "VALIDATED_VECTOR_TABLE" =>
        \E i \in Images : /\ transfer.tableCrc = TableOf(i)
                          /\ transfer.crc \in CrcsOf(i)

NothingReceived ==
    bootState \in {"WAIT", "RUN"} => transfer.crc = <<>> /\ copy.crc = <<>>

\* The record in flash is of one application.
StoredOfOne(r) ==
    r.magic /\ r.available =>
        \E i \in Images : r.tableCrc = TableOf(i) /\ r.crc \in CrcsOf(i)

OneImageInv ==
    /\ transfer.table \in Tables /\ copy.table \in Tables
    /\ ReceivedFromHost /\ ValidatedOfOne /\ NothingReceived
    /\ StoredOfOne(store)

\* A step of the host or a callback that brings no CRC.
Carried ==
    /\ transfer'.crc = transfer.crc /\ copy'.crc \in {copy.crc, transfer.crc}
    /\ transfer'.table \in Tables /\ copy'.table \in {copy.table, transfer'.table}
    /\ canState' = "VALIDATED_VECTOR_TABLE" =>
          canState = canState' /\ transfer'.tableCrc = transfer.tableCrc

LEMMA NothingIsStart == \A i : <<>> \in CrcsOf(i)
  <1>1. ASSUME NEW i PROVE SubSeq(ProgramOf(i), 1, 0) = <<>>
    BY DEF ProgramOf
  <1> QED BY <1>1 DEF CrcsOf

LEMMA FillsAreTables == \A o \in {Own, Zero, Erased} : Fill(o, TableWords) \in Tables
  BY DEF Tables, Fill, Words, Origins

LEMMA ImagesAreTables == \A i \in Images : TableOf(i) \in Tables
  BY DEF Tables, TableOf, Words, Origins

\* A table is no sequence of sectors.
LEMMA SectorIsNoWord == Sectors \intersect Words = {}
  <1> SUFFICES ASSUME NEW w \in Sectors, w \in Words PROVE FALSE
    OBVIOUS
  <1>1. w[1] \in Words
    BY DEF Sectors
  <1>2. w[1] \in Origins
    BY DEF Words
  <1> QED BY <1>1, <1>2, WordAssumption DEF WordAssumption, Words

LEMMA TableIsNoFlash == Tables \intersect FlashContents = {}
  <1> SUFFICES ASSUME NEW t \in Tables, t \in FlashContents PROVE FALSE
    OBVIOUS
  <1>1. t[1] \in Words
    BY DEF Tables
  <1>2. t[1] \in Sectors
    BY DEF FlashContents
  <1> QED BY <1>1, <1>2, SectorIsNoWord

\* The CRC of sectors is not that of a table.
LEMMA SectorsAreNoTable ==
  ASSUME NEW i \in Images, NEW n \in Nat
  PROVE  SubSeq(ProgramOf(i), 1, n) \notin Tables
  <1>1. ASSUME NEW t \in Tables, t = SubSeq(ProgramOf(i), 1, n) PROVE FALSE
    <2>1. ProgramOf(i) \in FlashContents
      BY FillIsSector
    <2>2. CASE n = 0
      <3>1. DOMAIN SubSeq(ProgramOf(i), 1, 0) = 1 .. 0
        BY DEF ProgramOf
      <3>2. DOMAIN t = 1 .. TableWords
        BY DEF Tables
      <3> QED BY <1>1, <2>2, <3>1, <3>2
    <2>3. CASE n > 0
      <3>1. t[1] = ProgramOf(i)[1]
        BY <1>1, <2>3 DEF ProgramOf
      <3>2. t[1] \in Sectors
        BY <2>1, <3>1 DEF FlashContents
      <3>3. t[1] \in Words
        BY DEF Tables
      <3> QED BY <3>2, <3>3, SectorIsNoWord
    <2> QED BY <2>2, <2>3
  <1> QED BY <1>1

\* What a CRC can be of tells the table, and a flash of its size.
LEMMA TableCrc ==
  ASSUME NEW i \in Images, NEW t \in Tables, t \in CrcsOf(i)
  PROVE  t = TableOf(i)
  BY SectorsAreNoTable DEF CrcsOf

LEMMA FlashOfOne ==
  ASSUME NEW i \in Images, NEW f \in FlashContents, f \in CrcsOf(i)
  PROVE  f = ProgramOf(i)
  <1>1. f # TableOf(i)
    BY TableIsNoFlash, ImagesAreTables
  <1>2. PICK n \in Nat : f = SubSeq(ProgramOf(i), 1, n)
    BY <1>1 DEF CrcsOf
  <1>3. n = NumSectors
    <2>1. DOMAIN f = 1 .. NumSectors
      BY DEF FlashContents
    <2>2. DOMAIN f = 1 .. n
      BY <1>2 DEF ProgramOf
    <2> QED BY <2>1, <2>2
  <1>4. SubSeq(ProgramOf(i), 1, NumSectors) = ProgramOf(i)
    BY DEF ProgramOf
  <1> QED BY <1>2, <1>3, <1>4

LEMMA ActionRequestCarries ==
  ASSUME FlashInv, transfer.table \in Tables, NEW r \in {"TRANSFER", "RUN", "RESET"},
         RxActionRequest(r)
  PROVE  Carried
  BY DEF RxActionRequest, RxTransferRequest, RxRunRequest, RxResetRequest,
         progress, Carried

LEMMA TransferProcessInfoCarries ==
  ASSUME FlashInv, transfer.table \in Tables, NEW n, RxTransferProcessInfo(n)
  PROVE  Carried
  <1>1. /\ transfer' \in {transfer, [transfer EXCEPT !.total = n]}
        /\ UNCHANGED copy
        /\ canState' = "VALIDATED_VECTOR_TABLE" => canState' = canState
    BY DEF RxTransferProcessInfo
  <1> QED BY <1>1 DEF Carried, FlashInv, ProgressTypes, IsTransfer

LEMMA LoopInfoCarries ==
  ASSUME FlashInv, transfer.table \in Tables, NEW n, RxLoopInfo(n)
  PROVE  Carried
  <1>1. PICK current :
          /\ transfer' \in {transfer, [transfer EXCEPT !.loop = current]}
          /\ copy' \in {copy, transfer'}
    BY DEF RxLoopInfo, progress
  <1>2. canState' = "VALIDATED_VECTOR_TABLE" => canState' = canState
    BY DEF RxLoopInfo
  <1> QED BY <1>1, <1>2 DEF Carried, FlashInv, ProgressTypes, IsTransfer

LEMMA Data8BytesCarries ==
  ASSUME FlashInv, transfer.table \in Tables, NEW word \in Words, RxData8Bytes(word)
  PROVE  Carried
  <1>1. UNCHANGED copy
    BY DEF RxData8Bytes
  <1>2. CASE canState = "FINISHED_FINAL_VALIDATION" /\ RxTableWord(word)
    <2>1. /\ transfer' = [transfer EXCEPT !.table[transfer.received + 1] = word,
                                          !.received = transfer.received + 1]
          /\ canState' # "VALIDATED_VECTOR_TABLE"
      BY <1>2 DEF RxTableWord
    <2>2. /\ transfer'.crc = transfer.crc
          /\ transfer'.table = [transfer.table EXCEPT ![transfer.received + 1] = word]
      BY <2>1 DEF FlashInv, ProgressTypes, IsTransfer
    <2>3. transfer'.table \in Tables
      BY <2>2 DEF Tables
    <2> QED BY <1>1, <2>1, <2>2, <2>3 DEF Carried
  <1>3. CASE canState = "RECEIVED_LOOP_NUMBER" /\ RxProgramWord(word)
    <2>1. canState' # "VALIDATED_VECTOR_TABLE"
      BY <1>3 DEF RxProgramWord
    <2>2. PICK p, l :
            transfer' \in {transfer, [transfer EXCEPT !.position = p, !.loop = l]}
      BY <1>3 DEF RxProgramWord
    <2> QED BY <1>1, <2>1, <2>2 DEF Carried, FlashInv, ProgressTypes, IsTransfer
  <1>4. CASE UNCHANGED <<canState, transfer, buffer>>
    BY <1>1, <1>4 DEF Carried
  <1> QED BY <1>2, <1>3, <1>4, Zenon DEF RxData8Bytes

\* A CRC is that of sectors or that of the vector table.
LEMMA Crc8BytesTakes ==
  ASSUME FlashInv, transfer.table \in Tables, NEW crc, RxCrc8Bytes(crc)
  PROVE  /\ UNCHANGED copy
         /\ \/ Carried
            \/ /\ canState = "RECEIVED_8_BYTES_DATA"
               /\ canState' = "RECEIVED_8_BYTES_CRC" /\ transfer'.crc = crc
               /\ transfer'.table = transfer.table
            \/ /\ canState = "FINISHED_TRANSFER_VECTOR_TABLE"
               /\ transfer'.crc = transfer.crc /\ transfer'.table \in Tables
               /\ crc = transfer.table /\ transfer'.tableCrc = crc
  <1>1. UNCHANGED copy
    BY DEF RxCrc8Bytes
  <1> USE DEF FlashInv, ProgressTypes, IsTransfer, Carried
  <1>2. CASE canState = "FINISHED_TRANSFER_VECTOR_TABLE" /\ RxTableCrc(crc)
    BY <1>1, <1>2, FillsAreTables DEF RxTableCrc
  <1>3. CASE canState = "RECEIVED_8_BYTES_DATA" /\ RxSectorCrc(crc)
    BY <1>1, <1>3 DEF RxSectorCrc
  <1>4. CASE UNCHANGED <<canState, transfer>>
    BY <1>1, <1>4
  <1> QED BY <1>1, <1>2, <1>3, <1>4, Zenon DEF RxCrc8Bytes

LEMMA CarriedStep ==
  ASSUME OneImageInv, Carried, UNCHANGED <<bootState, store>>,
         host' \in Loading =>
            \/ host \in Loading /\ UNCHANGED image
            \/ bootState = "WAIT" /\ image' \in Images
  PROVE  OneImageInv'
  <1> USE DEF OneImageInv, Carried
  <1>1. ReceivedFromHost'
    <2> SUFFICES ASSUME host' \in Loading PROVE ReceivedFromHost'
      BY DEF ReceivedFromHost
    <2>1. CASE host \in Loading /\ UNCHANGED image
      BY <2>1 DEF ReceivedFromHost
    <2>2. CASE bootState = "WAIT" /\ image' \in Images
      <3>1. transfer'.crc = <<>> /\ copy'.crc = <<>>
        BY <2>2 DEF NothingReceived
      <3>2. <<>> \in CrcsOf(image')
        BY NothingIsStart
      <3> QED BY <2>2, <3>1, <3>2 DEF ReceivedFromHost
    <2> QED BY <2>1, <2>2
  <1>2. ValidatedOfOne'
    BY DEF ValidatedOfOne
  <1>3. NothingReceived'
    BY DEF NothingReceived
  <1>4. StoredOfOne(store)'
    BY DEF StoredOfOne
  <1>5. transfer'.table \in Tables /\ copy'.table \in Tables
    OBVIOUS
  <1> QED BY <1>1, <1>2, <1>3, <1>4, <1>5

\* Nothing but a change of the host's own state.
LEMMA WaitedStep ==
  ASSUME OneImageInv, UNCHANGED <<canState, bootState, transfer, copy, store>>,
         host' \in Loading =>
            \/ host \in Loading /\ UNCHANGED image
            \/ bootState = "WAIT" /\ image' \in Images
  PROVE  OneImageInv'
  BY CarriedStep DEF Carried, OneImageInv

LEMMA CrcStep ==
  ASSUME FlashInv, OneImageInv, host \in Loading, Settled, mode = "boot",
         UNCHANGED <<bootState, store, image>>,
         NEW crc \in CrcsOf(image), RxCrc8Bytes(crc)
  PROVE  OneImageInv'
  <1>1. CASE Carried
    BY <1>1, CarriedStep
  <1>2. UNCHANGED copy
    BY Crc8BytesTakes DEF OneImageInv
  <1>3. /\ image \in Images /\ transfer.crc \in CrcsOf(image)
        /\ copy.crc \in CrcsOf(image) /\ StoredOfOne(store)
    BY DEF OneImageInv, ReceivedFromHost
  <1>4. CASE ~Carried
    <2>1. \/ /\ canState = "RECEIVED_8_BYTES_DATA"
             /\ canState' = "RECEIVED_8_BYTES_CRC" /\ transfer'.crc = crc
             /\ transfer'.table = transfer.table
          \/ /\ canState = "FINISHED_TRANSFER_VECTOR_TABLE"
             /\ transfer'.crc = transfer.crc /\ transfer'.table \in Tables
             /\ crc = transfer.table /\ transfer'.tableCrc = crc
      BY <1>4, Crc8BytesTakes DEF OneImageInv
    <2>2. bootState \notin {"WAIT", "RUN"}
      BY <2>1 DEF Settled
    <2>3. transfer'.crc \in CrcsOf(image) /\ transfer'.table \in Tables
      BY <1>3, <2>1 DEF OneImageInv
    <2>4. canState' = "VALIDATED_VECTOR_TABLE" => transfer'.tableCrc = TableOf(image)
      BY <1>3, <2>1, TableCrc DEF OneImageInv
    <2> QED BY <1>2, <1>3, <2>2, <2>3, <2>4
            DEF OneImageInv, ReceivedFromHost, ValidatedOfOne, NothingReceived,
                StoredOfOne
  <1> QED BY <1>1, <1>4

\* The steps of the host: what it sends is of the application it loads.
LEMMA HostOneImage ==
  ASSUME FlashInv, OneImageInv, HostStep
  PROVE  OneImageInv'
  <1> USE DEF HostTypes
  <1>0. HostTypes /\ UNCHANGED <<bootState, mode, persistent, image>>
        /\ UNCHANGED <<flash, store>> /\ transfer.table \in Tables
        /\ copy.table \in Tables
    BY HostLeaves DEF FlashInv, persistent, OneImageInv
  <1> DEFINE Still == UNCHANGED <<canState, transfer, copy>>
  <1>w. Waited => Still
    BY DEF Waited, progress
  <1>i. host \in Loading => image \in Images
    BY DEF OneImageInv, ReceivedFromHost
  <1>s. ASSUME \/ UNCHANGED <<canState, bootState, validations, progress,
                               persistent, processor>>
               \/ UNCHANGED boot
        PROVE  Still
    BY <1>s DEF boot, progress, persistent
  <1>c. Still => Carried
    BY <1>0 DEF Carried
  <1>1. CASE Reset \/ Transfer
    <2>1. ASSUME NEW r \in {"TRANSFER", "RUN", "RESET"}, NEW from, NEW to,
                 SendRequest(r, from, to)
          PROVE  Carried
      BY <1>0, <1>s, <1>c, <2>1, ActionRequestCarries, Zenon DEF SendRequest, Sent
    <2>2. Carried
      BY <1>1, <2>1 DEF Reset, Transfer
    <2>3. host' \in Loading => host \in Loading
      BY <1>1 DEF Reset, Transfer, SendRequest, Loading
    <2> QED BY <1>0, <2>2, <2>3, CarriedStep
  <1>2. CASE ResetAck \/ TransferAck \/ InfoAck
    <2>1. Still /\ (host' \in Loading => host \in Loading)
      BY <1>2, <1>w DEF ResetAck, TransferAck, InfoAck, Loading
    <2> QED BY <1>0, <2>1, WaitedStep
  <1>3. CASE ResetPoll
    <2>1. Still
      BY <1>3, <1>w DEF ResetPoll
    <2>2. host' \in Loading => AtBeginning /\ image # NoImage
      <3>1. CASE AtBeginning /\ image # NoImage
        BY <3>1
      <3>2. CASE ~AtBeginning
        BY <1>3, <3>2 DEF ResetPoll, Loading
      <3>3. CASE AtBeginning /\ image = NoImage
        BY <1>3, <3>3 DEF ResetPoll, Loading
      <3> QED BY <3>1, <3>2, <3>3
    <2> QED BY <1>0, <2>1, <2>2, WaitedStep DEF AtBeginning
  <1>4. CASE SendInfo
    <2>1. Carried
      BY <1>0, <1>4, <1>s, <1>c, TransferProcessInfoCarries, Zenon DEF SendInfo, Sent
    <2> QED BY <1>0, <1>4, <2>1, CarriedStep DEF SendInfo, Loading
  <1>5. CASE SendNumber
    <2>1. Carried
      BY <1>0, <1>5, <1>s, <1>c, LoopInfoCarries, Zenon DEF SendNumber, Sent
    <2> QED BY <1>0, <1>5, <2>1, CarriedStep DEF SendNumber, Loading
  <1>6. CASE SendData
    <2>1. <<image, loop>> \in Words
      BY <1>0 DEF Words, Origins
    <2>2. Carried
      BY <1>0, <1>6, <1>s, <1>c, <2>1, Data8BytesCarries, Zenon DEF SendData, Sent
    <2> QED BY <1>0, <1>6, <2>2, CarriedStep DEF SendData, Loading
  <1>7. CASE SendTableWord
    <2>1. TableOf(image)[loop] \in Words
      BY <1>0, <1>7 DEF SendTableWord, TableOf, Words, Origins
    <2>2. Carried
      BY <1>0, <1>7, <1>s, <1>c, <2>1, Data8BytesCarries, Zenon DEF SendTableWord, Sent
    <2> QED BY <1>0, <1>7, <2>2, CarriedStep DEF SendTableWord, Loading
  <1>8. ASSUME NEW crc \in CrcsOf(image), host \in Loading, Settled,
               Sent(RxCrc8Bytes(crc), "other")
        PROVE  OneImageInv'
    <2>1. CASE mode = "boot" /\ RxCrc8Bytes(crc)
      BY <1>0, <1>8, <2>1, CrcStep
    <2>2. CASE Carried
      BY <1>0, <1>8, <2>2, CarriedStep
    <2> QED BY <1>8, <1>s, <1>c, <2>1, <2>2, Zenon DEF Sent
  <1>9. CASE SendCrc
    <2>1. SubSeq(ProgramOf(image), 1, (loop - 1) \div SectorLoops) \in CrcsOf(image)
      BY <1>0 DEF CrcsOf
    <2> QED BY <1>8, <1>9, <2>1 DEF SendCrc, Loading
  <1>10. CASE SendTableCrc
    <2>1. TableOf(image) \in CrcsOf(image)
      BY DEF CrcsOf
    <2> QED BY <1>8, <1>10, <2>1 DEF SendTableCrc, Loading
  <1>11. CASE SubSectorAck \/ CrcAck \/ TableAck \/ TableCrcAck
    <2>1. Still /\ host \in Loading
      BY <1>11, <1>w DEF SubSectorAck, CrcAck, TableAck, TableCrcAck, Loading
    <2> QED BY <1>0, <2>1, WaitedStep
  <1> QED BY <1>1, <1>2, <1>3, <1>4, <1>5, <1>6, <1>7, <1>9, <1>10, <1>11 DEF HostStep

LEMMA ClearedIsOfAny ==
  /\ InitialTransfer.crc = <<>> /\ ClearedTransfer.crc = <<>>
  /\ InitialTransfer.table \in Tables /\ ClearedTransfer.table \in Tables
  BY FillsAreTables DEF InitialTransfer, ClearedTransfer

\* After a restart nothing is received, whatever was.
LEMMA RestartedOneImage ==
  ASSUME OneImageInv, NEW m, Restarted(m), StoredOfOne(store'), UNCHANGED program
  PROVE  OneImageInv'
  <1>1. /\ transfer'.crc = <<>> /\ copy'.crc = <<>>
        /\ transfer'.table \in Tables /\ copy'.table \in Tables
        /\ canState' = "NO_COMMUNICATION"
    BY ClearedIsOfAny DEF Restarted
  <1>2. host' \in Loading => image' \in Images
    BY DEF OneImageInv, ReceivedFromHost, program
  <1>3. <<>> \in CrcsOf(image')
    BY NothingIsStart
  <1> QED BY <1>1, <1>2, <1>3
          DEF OneImageInv, ReceivedFromHost, ValidatedOfOne, NothingReceived,
              StoredOfOne

LEMMA TornOfOne ==
  ASSUME NEW new, IsStore(new), StoredOfOne(new), NEW t \in TornStores(new)
  PROVE  StoredOfOne(t)
  <1> DEFINE blank == [new EXCEPT !.magic = FALSE, !.available = FALSE,
                             !.crc = <<>>, !.tableCrc = <<>>,
                             !.backup = Fill(Erased, TableWords),
                             !.table = Fill(Erased, TableWords)]
  <1>1. blank.available = FALSE /\ [blank EXCEPT !.magic = new.magic].available = FALSE
    BY DEF IsStore
  <1>2. CASE t \in {blank, [blank EXCEPT !.magic = new.magic]}
    BY <1>1, <1>2 DEF StoredOfOne
  <1>3. CASE t \in {[new EXCEPT !.backup = blank.backup, !.table = blank.table],
                    [new EXCEPT !.table = blank.table]}
    <2>1. /\ t.magic = new.magic /\ t.available = new.available
          /\ t.tableCrc = new.tableCrc /\ t.crc = new.crc
      BY <1>3 DEF IsStore
    <2> QED BY <2>1 DEF StoredOfOne
  <1> QED BY <1>2, <1>3 DEF TornStores

\* The record that is written is of one application, or of none.
LEMMA RecordsOfOne ==
  ASSUME OneImageInv
  PROVE  /\ canState = "VALIDATED_VECTOR_TABLE" => StoredOfOne(ProgramStore)
         /\ ResetStore.available = FALSE /\ StoredOfOne(ResetStore)
  BY DEF OneImageInv, ValidatedOfOne, StoredOfOne, ProgramStore, ResetStore

LEMMA OutcomeOfOne ==
  ASSUME OneImageInv, NEW new, IsStore(new), StoredOfOne(new),
         NEW w \in Outcomes(store, new, TornStores(new))
  PROVE  StoredOfOne(w.left)
  <1>1. w.left = new \/ w.left \in TornStores(new) \union {store}
    BY OutcomeIsNew
  <1>2. CASE w.left \in TornStores(new)
    BY <1>2, TornOfOne
  <1> QED BY <1>1, <1>2 DEF OneImageInv

LEMMA WriteOneImage ==
  ASSUME FlashInv, OneImageInv, BOOT_WriteAndValidateCurrentSector, UNCHANGED program
  PROVE  OneImageInv'
  <1>1. UNCHANGED store /\ StoredOfOne(store)
    BY DEF BOOT_WriteAndValidateCurrentSector, OneImageInv
  <1>2. CASE Halt
    BY <1>1, <1>2, RestartedOneImage DEF Halt
  <1>3. CASE bootState' = "ERROR" /\ UNCHANGED <<canState, progress>>
    BY <1>1, <1>3 DEF OneImageInv, ReceivedFromHost, ValidatedOfOne,
         NothingReceived, StoredOfOne, progress, program
  <1>4. ASSUME NEW w, SectorWritten(w), UNCHANGED copy PROVE OneImageInv'
    <2>1. bootState = "LOAD" /\ canState = "RECEIVED_8_BYTES_CRC"
      BY DEF BOOT_WriteAndValidateCurrentSector, WriteTurn, In
    <2>2. /\ bootState' \in {"LOAD", "ERROR"}
          /\ canState' # "VALIDATED_VECTOR_TABLE"
      BY <1>4, <2>1 DEF SectorWritten
    <2>3. transfer'.crc \in {transfer.crc, copy.crc}
          /\ transfer'.table \in {transfer.table, copy.table}
      BY <1>4 DEF SectorWritten, FlashInv, ProgressTypes, IsTransfer
    <2> QED BY <1>1, <1>4, <2>2, <2>3 DEF OneImageInv, ReceivedFromHost,
               ValidatedOfOne, NothingReceived, StoredOfOne, program
  <1>5. CASE ~Raised(flash, store.table)
    BY <1>2, <1>5 DEF BOOT_WriteAndValidateCurrentSector
  <1>6. CASE Raised(flash, store.table) /\ transfer.sector \notin 1 .. NumSectors
    BY <1>3, <1>6 DEF BOOT_WriteAndValidateCurrentSector
  <1>7. CASE Raised(flash, store.table) /\ transfer.sector \in 1 .. NumSectors
    <2>1. Halt \/ \E w : SectorWritten(w) /\ UNCHANGED copy
      BY <1>7 DEF BOOT_WriteAndValidateCurrentSector
    <2> QED BY <1>2, <1>4, <2>1
  <1> QED BY <1>5, <1>6, <1>7

LEMMA StoreOneImage ==
  ASSUME BootTypes, OneImageInv, StoreProgram, UNCHANGED program
  PROVE  OneImageInv'
  <1>1. StoredOfOne(store) /\ StoredOfOne(ProgramStore) /\ IsStore(ProgramStore)
    BY RecordsOfOne, StoresAreTyped DEF StoreProgram, StoreTurn, OneImageInv
  <1>2. StoredOfOne(store')
    <2>1. CASE UNCHANGED store
      BY <1>1, <2>1
    <2>2. ASSUME NEW w \in Outcomes(store, ProgramStore, TornStores(ProgramStore)),
                 Written(w)
          PROVE  StoredOfOne(store')
      BY <1>1, <2>2, OutcomeOfOne DEF Written
    <2> QED BY <2>1, <2>2, Zenon DEF StoreProgram, Halt
  <1>3. \/ Restarted("boot") \/ Restarted("halted")
        \/ bootState' = "ERROR" /\ UNCHANGED <<canState, progress>>
    BY Zenon DEF StoreProgram, Halt
  <1>4. CASE bootState' = "ERROR" /\ UNCHANGED <<canState, progress>>
    BY <1>2, <1>4 DEF OneImageInv, ReceivedFromHost, ValidatedOfOne,
         NothingReceived, StoredOfOne, progress, program
  <1> QED BY <1>2, <1>3, <1>4, RestartedOneImage

LEMMA ResetOneImage ==
  ASSUME BootTypes, OneImageInv, BOOT_ResetBootloader, UNCHANGED program
  PROVE  OneImageInv'
  <1>1. StoredOfOne(store) /\ StoredOfOne(ResetStore) /\ IsStore(ResetStore)
    BY RecordsOfOne, StoresAreTyped DEF OneImageInv
  <1>2. StoredOfOne(store')
    <2>1. CASE UNCHANGED store
      BY <1>1, <2>1
    <2>2. ASSUME NEW w \in Outcomes(store, ResetStore, TornStores(ResetStore)),
                 store' = w.left
          PROVE  StoredOfOne(store')
      BY <1>1, <2>2, OutcomeOfOne
    <2> QED BY <2>1, <2>2, Zenon DEF BOOT_ResetBootloader, persistent
  <1>3. \/ Restarted("boot") \/ Restarted("halted") \/ EraseApp
    <2>1. CASE Refused(ResetStore)
      BY <2>1, Zenon DEF BOOT_ResetBootloader, SoftwareReset, Halt
    <2>2. CASE ~Refused(ResetStore) /\ ~Raised(flash, store.table)
      BY <2>2 DEF BOOT_ResetBootloader, Halt
    <2>3. CASE ~Refused(ResetStore) /\ Raised(flash, store.table)
      <3>1. PICK w \in Outcomes(store, ResetStore, TornStores(ResetStore)) :
              /\ store' = w.left
              /\ CASE ~w.ok -> /\ SoftwareReset(Served(w.left.table, flash))
                               /\ Mishap /\ UNCHANGED flash
                   [] w.ok /\ ~Served(w.left.table, flash) ->
                        Halt /\ UNCHANGED <<flash, mishaps>>
                   [] w.ok /\ Served(w.left.table, flash) -> EraseApp
        BY <2>3, Zenon DEF BOOT_ResetBootloader
      <3>2. CASE ~w.ok
        BY <3>1, <3>2, Zenon DEF SoftwareReset, Halt
      <3>3. CASE w.ok
        BY <3>1, <3>3 DEF Halt
      <3> QED BY <3>2, <3>3
    <2> QED BY <2>1, <2>2, <2>3
  <1>4. CASE EraseApp
    <2>1. CASE Restarted("boot")
      BY <1>2, <2>1, RestartedOneImage
    <2>2. CASE /\ canState' = "CLEARED" /\ bootState' = "ERROR"
               /\ transfer' = ClearedTransfer /\ copy' = ClearedTransfer
      <3>1. <<>> \in CrcsOf(image)
        BY NothingIsStart
      <3> QED BY <1>2, <2>2, <3>1, ClearedIsOfAny
              DEF OneImageInv, ReceivedFromHost, ValidatedOfOne, NothingReceived,
                  StoredOfOne, program
    <2> QED BY <1>4, <2>1, <2>2 DEF EraseApp
  <1> QED BY <1>2, <1>3, <1>4, RestartedOneImage

LEMMA OneImageStep ==
  ASSUME FlashInv, BootTypes, OneImageInv, [LoadNext]_vars
  PROVE  OneImageInv'
  <1>1. UNCHANGED store => StoredOfOne(store')
    BY DEF OneImageInv, StoredOfOne
  <1>2. ASSUME NEW m, Restarted(m), UNCHANGED store, UNCHANGED program
        PROVE  OneImageInv'
    BY <1>1, <1>2, RestartedOneImage
  <1>p. UNCHANGED program => (host' \in Loading => host \in Loading) /\ UNCHANGED image
    BY DEF program
  <1>3. CASE Device
    <2>1. UNCHANGED program
      BY <1>3 DEF Device
    <2>2. CASE Wait \/ TimeOut \/ Load \/ BOOT_GetBootStateDuringError
      <3>1. UNCHANGED <<canState, transfer, copy, store>>
        BY <2>2 DEF Wait, TimeOut, Load, BOOT_GetBootStateDuringError, progress,
                    persistent
      <3>2. bootState' \in {"WAIT", "RUN"} => bootState = "WAIT"
        BY <2>2 DEF Wait, TimeOut, Load, BOOT_GetBootStateDuringError, In
      <3> QED BY <2>1, <3>1, <3>2 DEF OneImageInv, ReceivedFromHost,
                 ValidatedOfOne, NothingReceived, StoredOfOne, program
    <2>3. CASE Run
      <3>1. UNCHANGED store /\ bootState = "RUN"
        BY <2>3 DEF Run, persistent, In
      <3>2. \/ Restarted("app") \/ Restarted("halted")
            \/ canState' = "NO_COMMUNICATION" /\ UNCHANGED progress
        BY <2>3, Zenon DEF Run, Halt
      <3>3. CASE canState' = "NO_COMMUNICATION" /\ UNCHANGED progress
        BY <2>1, <3>1, <3>3 DEF OneImageInv, ReceivedFromHost, ValidatedOfOne,
              NothingReceived, StoredOfOne, program, progress
      <3> QED BY <1>2, <2>1, <3>1, <3>2, <3>3
    <2> QED BY <1>3, <2>1, <2>2, <2>3, WriteOneImage, StoreOneImage, ResetOneImage
            DEF Device, MainLoop
  <1>4. CASE HostStep
    BY <1>4, HostOneImage
  <1>5. CASE Interrupt
    <2>1. UNCHANGED <<canState, bootState, transfer, copy, store>>
      BY <1>5 DEF Interrupt, boot, progress, persistent
    <2>2. host' \notin Loading
      BY <1>5 DEF Interrupt, Loading
    <2> QED BY <2>1, <2>2, WaitedStep
  <1>6. CASE RunApp
    <2>1. RxActionRequest("RUN") /\ UNCHANGED <<bootState, store>>
      BY <1>6 DEF RunApp, RxActionRequest, persistent
    <2>2. Carried
      BY <2>1 DEF RxActionRequest, RxRunRequest, progress, Carried, OneImageInv
    <2> QED BY <1>6, <1>p, <2>1, <2>2, CarriedStep DEF RunApp
  <1>7. ASSUME NEW i \in Images \union {NoImage}, StartSession(i)
        PROVE  OneImageInv'
    <2>1. UNCHANGED <<canState, bootState, transfer, copy, store>>
      BY <1>7 DEF StartSession, progress, persistent
    <2>2. host' \in Loading => AtBeginning /\ image' \in Images
      BY <1>7 DEF StartSession, Loading
    <2> QED BY <2>1, <2>2, WaitedStep DEF AtBeginning
  <1>8. CASE PowerFails /\ UNCHANGED program
    <2>1. Restarted("boot")
      BY <1>8 DEF PowerFails, PowerFailure, PowerFailureInSector,
                  PowerFailureInStore, PowerFailureInReset, Cut
    <2>2. StoredOfOne(store')
      <3>1. CASE PowerFailure \/ PowerFailureInSector
        BY <1>1, <3>1 DEF PowerFailure, PowerFailureInSector
      <3>2. CASE PowerFailureInStore
        BY <3>2, RecordsOfOne, StoresAreTyped, TornOfOne
           DEF PowerFailureInStore, StoreTurn
      <3>3. CASE PowerFailureInReset
        BY <1>1, <3>3, RecordsOfOne, StoresAreTyped, TornOfOne DEF PowerFailureInReset
      <3> QED BY <1>8, <3>1, <3>2, <3>3 DEF PowerFails
    <2> QED BY <1>8, <2>1, <2>2, RestartedOneImage
  <1>9. CASE PowerCycle /\ UNCHANGED program
    BY <1>2, <1>9 DEF PowerCycle, persistent
  <1>10. CASE UNCHANGED vars
    <2>1. UNCHANGED <<canState, bootState, transfer, copy, store>> /\ UNCHANGED program
      BY <1>10 DEF vars, boot, progress, persistent
    <2> QED BY <1>p, <2>1, WaitedStep
  <1> QED BY <1>3, <1>4, <1>5, <1>6, <1>7, <1>8, <1>9, <1>10 DEF LoadNext

LEMMA InitialOneImage == LoadInit => OneImageInv
  <1> SUFFICES ASSUME LoadInit PROVE OneImageInv
    OBVIOUS
  <1>1. StoredOfOne(store)
    <2>1. CASE store = InitialStore
      BY <2>1 DEF StoredOfOne, InitialStore
    <2>2. ASSUME NEW i \in Images, store = InstalledStore(i) PROVE StoredOfOne(store)
      <3>1. ProgramOf(i) = SubSeq(ProgramOf(i), 1, NumSectors)
        BY DEF ProgramOf
      <3>2. ProgramOf(i) \in CrcsOf(i)
        BY <3>1 DEF CrcsOf
      <3> QED BY <2>2, <3>2 DEF StoredOfOne, InstalledStore
    <2> QED BY <2>1, <2>2 DEF LoadInit, Init
  <1> QED BY <1>1, ClearedIsOfAny DEF LoadInit, Init, OneImageInv, ReceivedFromHost,
             ValidatedOfOne, NothingReceived, Loading

-----------------------------------------------------------------------------
\* What is found valid is one application, whole and with its vector table.
LEMMA ValidIsOne ==
  FlashInv /\ BootTypes /\ OneImageInv /\ Validated
    => \E i \in Images : flash = ProgramOf(i) /\ store.table = TableOf(i)
  <1> SUFFICES ASSUME FlashInv, BootTypes, OneImageInv, Validated
               PROVE  \E i \in Images : flash = ProgramOf(i) /\ store.table = TableOf(i)
    OBVIOUS
  <1>1. store.magic /\ Loaded = store
    BY DEF Validated, Loaded, BootTypes, IsStore
  <1>2. PICK i \in Images : store.tableCrc = TableOf(i) /\ store.crc \in CrcsOf(i)
    BY <1>1 DEF OneImageInv, StoredOfOne, Validated
  <1>3. flash \in FlashContents /\ flash \in CrcsOf(i) /\ store.table = TableOf(i)
    BY <1>1, <1>2 DEF Validated, FlashInv, ProgressTypes
  <1> QED BY <1>3, FlashOfOne

LEMMA OneTableOneProgram ==
  ASSUME NEW i, NEW j, TableOf(i) = TableOf(j) \/ ProgramOf(i) = ProgramOf(j)
  PROVE  i = j
  <1>1. TableOf(i)[1] = <<i, -1>> /\ TableOf(j)[1] = <<j, -1>>
    BY DEF TableOf
  <1>2. ProgramOf(i)[1][1] = <<i, 1>> /\ ProgramOf(j)[1][1] = <<j, 1>>
    BY DEF ProgramOf, SectorOf
  <1> QED BY <1>1, <1>2

BootInv == FlashInv /\ BootTypes /\ OneImageInv

\* One application can be started, if one is valid.
StartableIsValid ==
    \/ ~Validated /\ Startable = NoImage
    \/ \E i \in Images : /\ Validated /\ Startable = i
                         /\ flash = ProgramOf(i) /\ store.table = TableOf(i)

LEMMA StartableIs == BootInv => StartableIsValid
  <1> SUFFICES ASSUME FlashInv, BootTypes, OneImageInv, Validated
               PROVE  \E i \in Images : /\ Validated /\ Startable = i
                         /\ flash = ProgramOf(i) /\ store.table = TableOf(i)
    BY DEF Startable, App, BootInv, StartableIsValid
  <1>1. PICK i \in Images : flash = ProgramOf(i) /\ store.table = TableOf(i)
    BY ValidIsOne
  <1>2. i \in App /\ \A j \in App : j = i
    BY <1>1, OneTableOneProgram DEF App
  <1>3. Startable = i
    BY <1>2 DEF Startable
  <1> QED BY <1>1, <1>3

LEMMA StartableStays == BootInv' => StartableIsValid'
  BY StartableIs, PTL

\* Flash and the record are not written at once, unless the record is given up.
LEMMA SlotStep ==
  ASSUME BootInv, BootInv', mode # "app", mode' # "app",
         UNCHANGED flash \/ UNCHANGED store \/ store'.available = FALSE
  PROVE  Slot!SlotNext \/ UNCHANGED Slot!slot
  <1>1. StartableIsValid /\ StartableIsValid'
    BY StartableIs, StartableStays
  <1>3. NoImage \notin Images
    BY HostAssumption DEF HostAssumption
  <1>4. store'.available = FALSE => ~Validated'
    BY DEF BootInv, BootTypes, IsStore, Validated, Loaded
  <1>5. CASE Startable = NoImage /\ Startable' \in Images
    BY <1>5 DEF Slot!SlotNext, Slot!Install
  <1>6. CASE Startable \in Images /\ Startable' = NoImage
    BY <1>3, <1>6 DEF Slot!SlotNext, Slot!Spoil
  <1>7. CASE Startable \in Images /\ Startable' \in Images
    <2>1. PICK i \in Images : /\ Startable = i /\ flash = ProgramOf(i)
                              /\ store.table = TableOf(i)
      BY <1>1, <1>3, <1>7 DEF StartableIsValid
    <2>2. PICK j \in Images : /\ Validated' /\ Startable' = j /\ flash' = ProgramOf(j)
                              /\ store'.table = TableOf(j)
      BY <1>1, <1>3, <1>7 DEF StartableIsValid
    <2>3. i = j
      BY <1>4, <2>1, <2>2, OneTableOneProgram
    <2> QED BY <2>1, <2>2, <2>3 DEF Slot!slot
  <1>8. CASE Startable = NoImage /\ Startable' = NoImage
    BY <1>8 DEF Slot!slot
  <1> QED BY <1>1, <1>5, <1>6, <1>7, <1>8 DEF StartableIsValid

\* What a step does to flash and to what the processor executes.
LEMMA SlotWrites ==
  ASSUME MainLoop \/ PowerFails
  PROVE  /\ mode = "boot"
         /\ UNCHANGED flash \/ UNCHANGED store \/ store'.available = FALSE
         /\ mode' = "app" => Run
  <1>1. CASE Wait \/ Load \/ BOOT_GetBootStateDuringError
    BY <1>1 DEF Wait, Load, BOOT_GetBootStateDuringError, In, persistent, processor
  <1>2. CASE Run
    BY <1>2 DEF Run, In, persistent
  <1>3. CASE StoreProgram
    <2>1. mode' \in {mode, "boot", "halted"}
      BY <1>3, Zenon DEF StoreProgram, Restarted, Halt
    <2> QED BY <1>3, <2>1 DEF StoreProgram, StoreTurn, In
  <1>4. CASE BOOT_WriteAndValidateCurrentSector
    <2>1. mode' \in {mode, "halted"}
      <3>1. CASE ~Raised(flash, store.table)
        BY <1>4, <3>1 DEF BOOT_WriteAndValidateCurrentSector, Halt, Restarted
      <3>2. CASE Raised(flash, store.table) /\ transfer.sector \notin 1 .. NumSectors
        BY <1>4, <3>2 DEF BOOT_WriteAndValidateCurrentSector
      <3>3. CASE Raised(flash, store.table) /\ transfer.sector \in 1 .. NumSectors
        <4>1. Halt \/ UNCHANGED mode
          BY <1>4, <3>3 DEF BOOT_WriteAndValidateCurrentSector
        <4> QED BY <4>1 DEF Halt, Restarted
      <3> QED BY <3>1, <3>2, <3>3
    <2> QED BY <1>4, <2>1 DEF BOOT_WriteAndValidateCurrentSector, WriteTurn, In
  <1>5. CASE BOOT_ResetBootloader
    <2>1. mode = "boot"
      BY <1>5 DEF BOOT_ResetBootloader, In
    <2>2. CASE UNCHANGED flash /\ (Restarted("boot") \/ Restarted("halted"))
      BY <2>1, <2>2 DEF Restarted
    <2>3. CASE Refused(ResetStore)
      BY <1>5, <2>2, <2>3, Zenon
         DEF BOOT_ResetBootloader, SoftwareReset, Halt, persistent
    <2>4. CASE ~Refused(ResetStore) /\ ~Raised(flash, store.table)
      BY <1>5, <2>2, <2>4 DEF BOOT_ResetBootloader, Halt, persistent
    <2>5. CASE ~Refused(ResetStore) /\ Raised(flash, store.table)
      <3>1. PICK w \in Outcomes(store, ResetStore, TornStores(ResetStore)) :
              /\ store' = w.left
              /\ CASE ~w.ok -> /\ SoftwareReset(Served(w.left.table, flash))
                               /\ Mishap /\ UNCHANGED flash
                   [] w.ok /\ ~Served(w.left.table, flash) ->
                        Halt /\ UNCHANGED <<flash, mishaps>>
                   [] w.ok /\ Served(w.left.table, flash) -> EraseApp
        BY <1>5, <2>5, Zenon DEF BOOT_ResetBootloader
      <3>2. CASE ~w.ok
        BY <2>2, <3>1, <3>2, Zenon DEF SoftwareReset, Halt
      <3>3. CASE w.ok /\ ~Served(w.left.table, flash)
        BY <2>2, <3>1, <3>3 DEF Halt
      <3>4. CASE w.ok /\ EraseApp
        <4>1. w.left = ResetStore
          BY <3>4, OutcomeIsNew
        <4>2. store'.available = FALSE
          BY <3>1, <4>1 DEF ResetStore
        <4>3. mode' \in {mode, "boot"}
          BY <3>4, Zenon DEF EraseApp, Restarted
        <4> QED BY <2>1, <4>2, <4>3
      <3> QED BY <3>1, <3>2, <3>3, <3>4
    <2> QED BY <2>3, <2>4, <2>5
  <1>6. CASE PowerFails
    <2>1. mode' = "boot"
      BY <1>6 DEF PowerFails, PowerFailure, PowerFailureInSector,
                  PowerFailureInStore, PowerFailureInReset, Cut, Restarted
    <2>2. mode = "boot"
      BY <1>6 DEF PowerFails, PowerFailure, PowerFailureInSector, WriteTurn,
                  PowerFailureInStore, StoreTurn, PowerFailureInReset, In
    <2>3. UNCHANGED flash \/ UNCHANGED store \/ store' = ResetStore
      BY <1>6 DEF PowerFails, PowerFailure, PowerFailureInSector,
                  PowerFailureInStore, PowerFailureInReset
    <2> QED BY <2>1, <2>2, <2>3 DEF ResetStore
  <1> QED BY <1>1, <1>2, <1>3, <1>4, <1>5, <1>6 DEF MainLoop

\* What the other steps do to it: power is switched off and on.
LEMMA SlotStays ==
  ASSUME LoadNext, ~MainLoop, ~PowerFails
  PROVE  /\ UNCHANGED <<flash, store>>
         /\ UNCHANGED mode \/ (mode # "boot" /\ mode' = "boot")
  <1>1. CASE Device
    BY <1>1 DEF Device, TimeOut, persistent
  <1>2. CASE HostStep
    BY <1>2, HostLeaves DEF persistent
  <1>3. CASE Interrupt \/ RunApp \/ \E i \in Images \union {NoImage} : StartSession(i)
    BY <1>3 DEF Interrupt, RunApp, StartSession, RxActionRequest, boot, persistent,
                processor
  <1>4. CASE PowerCycle
    BY <1>4 DEF PowerCycle, Restarted, persistent
  <1> QED BY <1>1, <1>2, <1>3, <1>4 DEF LoadNext

LEMMA SlotTakesStep ==
  ASSUME BootInv, BootInv', [LoadNext]_vars
  PROVE  Slot!SlotNext \/ UNCHANGED Slot!slot
  <1>1. UNCHANGED <<flash, store>> => UNCHANGED <<Startable, Validated>>
    BY DEF Startable, App, Validated, Loaded
  <1>2. ASSUME UNCHANGED <<flash, store>>,
               UNCHANGED mode \/ (mode # "boot" /\ mode' = "boot")
        PROVE  Slot!SlotNext \/ UNCHANGED Slot!slot
    <2>1. CASE mode = "app" /\ mode' = "boot"
      BY <1>1, <1>2, <2>1 DEF Slot!SlotNext, Slot!Stop
    <2>2. CASE mode # "app" \/ UNCHANGED mode
      BY <1>1, <1>2, <2>2 DEF Slot!slot
    <2> QED BY <1>2, <2>1, <2>2
  <1>3. CASE (MainLoop \/ PowerFails) /\ mode' # "app"
    BY <1>3, SlotWrites, SlotStep
  <1>4. CASE (MainLoop \/ PowerFails) /\ mode' = "app"
    <2>1. Run /\ mode = "boot"
      BY <1>4, SlotWrites
    <2>2. UNCHANGED <<flash, store>>
      BY <2>1 DEF Run, persistent
    <2>3. Validated
      BY <1>4, <2>1 DEF Run, Halt, Restarted
    <2>4. Startable # NoImage
      BY <2>3, StartableIs, HostAssumption DEF HostAssumption, StartableIsValid
    <2> QED BY <1>1, <1>4, <2>1, <2>2, <2>4 DEF Slot!SlotNext, Slot!Start
  <1>5. CASE LoadNext /\ ~MainLoop /\ ~PowerFails
    BY <1>2, <1>5, SlotStays
  <1>6. CASE UNCHANGED vars
    BY <1>2, <1>6 DEF vars, boot, persistent, processor
  <1> QED BY <1>3, <1>4, <1>5, <1>6

LEMMA BootInvariant == LoadSpec => []BootInv
  <1>1. LoadInit => BootInv
    BY InitialFlash, InitialTypes, InitialOneImage DEF BootInv
  <1>2. BootInv /\ [LoadNext]_vars => BootInv'
    BY FlashStep, TypesStep, OneImageStep DEF BootInv
  <1> QED BY <1>1, <1>2, PTL DEF LoadSpec

\* A sector, a record and a vector table that belong to different applications
\* are never taken for one, whatever is lost, interrupted or torn: what is
\* started is a whole application that stays as it is as long as it runs, and
\* it is replaced only by way of having none (boot.c:350-394, boot.c:162-216).
THEOREM SlotImplemented == LoadSpec => ImplementsAppSlot
  <1>1. LoadInit => Slot!SlotInit
    <2>1. LoadInit => BootInv
      BY InitialFlash, InitialTypes, InitialOneImage DEF BootInv
    <2>2. LoadInit => mode # "app"
      BY DEF LoadInit, Init
    <2> QED BY <2>1, <2>2, StartableIs DEF StartableIsValid, Slot!SlotInit
  <1>2. BootInv /\ BootInv' /\ [LoadNext]_vars => [Slot!SlotNext]_(Slot!slot)
    BY SlotTakesStep
  <1> QED BY <1>1, <1>2, BootInvariant, PTL DEF LoadSpec, ImplementsAppSlot, Slot!SlotSpec

-----------------------------------------------------------------------------
(* What the reports of the host rest on *)

\* The applications a bootloader takes fill its flash.
FillsFlash ==
    SectorLoops > 1 /\ \A i \in Images : Loops[i] \in Nat /\ Loops[i] >= Total

\* Nothing is being loaded or reset.
QuietBoot == bootState \in {"WAIT", "RUN"} /\ canState \in {"NO_COMMUNICATION", "RUN_PROGRAM"}

\* The loop that is expected next follows from the sector and its position.
FirstLoop(t) == t.loop = 0 /\ t.sector = 1 /\ t.position = 0
LoopInSector(t) ==
    /\ t.position >= 0 /\ t.loop \in 1 .. Total
    /\ t.loop = (t.sector - 1) * SectorLoops + t.position + 1

LoopNumbered == {"RECEIVED_LOOP_NUMBER", "RECEIVED_8_BYTES_DATA", "RECEIVED_8_BYTES_CRC"}

LoopsCounted ==
    /\ bootState \in {"WAIT", "RUN"} => FirstLoop(transfer)
    /\ bootState = "LOAD" /\ canState \in SectorStates =>
         /\ \/ LoopInSector(transfer)
            \/ FirstLoop(transfer) /\ canState \notin LoopNumbered
         /\ canState \notin {"NO_COMMUNICATION", "WAIT_FOR_INFO"} => transfer.total = Total
         /\ canState = "RECEIVED_8_BYTES_CRC" /\ validations = 0 =>
              transfer.position = SectorLoops \/ transfer.loop = Total

\* Where the CAN communication can be in the states of the main loop.
StatesAgree ==
    /\ mode # "boot" => bootState = "WAIT" /\ canState = "NO_COMMUNICATION"
    /\ bootState \in {"WAIT", "RUN"} =>
         canState \in {"NO_COMMUNICATION", "WAIT_FOR_INFO", "RUN_PROGRAM", "RESET_BOOT"}
    /\ canState \in TableStates /\ mishaps = 0 => bootState = "LOAD"

\* Behind the last sector, all of it is in flash and supervisor calls are served.
AllOnBoard ==
    bootState = "LOAD" /\ canState \in TableStates =>
        /\ transfer.onBoard = flash /\ transfer.crc = flash
        /\ Served(store.table, flash)
        /\ canState = "VALIDATED_VECTOR_TABLE" => transfer.table = transfer.tableCrc

TableOfOne == mishaps = 0 => \E x \in Images \union {Own} : store.table = TableOf(x)

\* What an acknowledged request to reset has led to.
ResetTaken == canState = "RESET_BOOT" \/ (QuietBoot /\ (mode = "boot" => ~Validated))

\* What an acknowledged vector table has led to.
ToBeStored(i) ==
    /\ canState = "VALIDATED_VECTOR_TABLE" /\ bootState = "LOAD"
    /\ flash = ProgramOf(i) /\ transfer.table = TableOf(i)
StoredIs(i) ==
    QuietBoot /\ Validated /\ flash = ProgramOf(i) /\ store.table = TableOf(i)

Stored(i) == ToBeStored(i) \/ StoredIs(i)

NoneOf(message) == Answers(message) = {}

\* What the host has been told has happened, or is about to.
ToldRight ==
    /\ host = "reset" => NoneOf("RESET")
    /\ host = "resetAck" => NoneOf("RESET") \/ ResetTaken
    /\ host = "resetPoll" => ResetTaken
    /\ host \notin Over \union {"tableCrcAck"} => ~Yes("TABLE_CRC")
    /\ host = "tableCrcAck" => ~Yes("TABLE_CRC") \/ Stored(image)
    /\ host = "done" => IF image = NoImage THEN QuietBoot /\ ~Validated ELSE Stored(image)

Acknowledged == mishaps = 0 => ToldRight

Acks == [message : Messages, yes : BOOLEAN]
AcksTyped == acks \in Seq(Acks)

AttemptsLeft == attempts \in Nat /\ (host \notin Over => attempts < Attempts)

ReportInv ==
    /\ AcksTyped /\ AttemptsLeft /\ LoopsCounted /\ StatesAgree /\ AllOnBoard
    /\ TableOfOne /\ Acknowledged

\* What the host has a callback of the bootloader called for.
Callback ==
    \/ \E r \in {"TRANSFER", "RUN", "RESET"} : RxActionRequest(r)
    \/ \E i \in Images : RxTransferProcessInfo(Loops[i])
    \/ \E n \in Nat : RxLoopInfo(n)
    \/ \E word \in Words : RxData8Bytes(word)
    \/ \E crc : RxCrc8Bytes(crc)

\* A callback is called when the main loop has settled; everything else the
\* host does is waiting.
LEMMA HostCalls ==
  ASSUME FlashInv, OneImageInv, HostStep
  PROVE  \/ UNCHANGED <<canState, bootState, validations, progress, persistent, processor>>
         \/ mode = "boot" /\ Settled /\ Callback
  <1> DEFINE Still == UNCHANGED <<canState, bootState, validations, progress, persistent,
                                  processor>>
  <1>0. HostTypes /\ (host \in Loading => image \in Images)
    BY DEF FlashInv, OneImageInv, ReceivedFromHost
  <1>1. UNCHANGED boot => Still
    BY DEF boot
  <1>2. Waited => Still
    BY DEF Waited
  <1>3. ASSUME NEW r \in {"TRANSFER", "RUN", "RESET"}, NEW from, NEW to,
               SendRequest(r, from, to)
        PROVE  Still \/ (mode = "boot" /\ Settled /\ Callback)
    BY <1>1, <1>3, Zenon DEF SendRequest, Sent, Callback
  <1>4. CASE Reset \/ Transfer
    BY <1>3, <1>4, Zenon DEF Reset, Transfer
  <1>5. CASE SendInfo
    <2>1. image \in Images
      BY <1>0, <1>5 DEF SendInfo, Loading
    <2> QED BY <1>1, <1>5, <2>1, Zenon DEF SendInfo, Sent, Callback
  <1>6. CASE SendNumber
    <2>1. loop \in Nat
      BY <1>0 DEF HostTypes
    <2> QED BY <1>1, <1>6, <2>1, Zenon DEF SendNumber, Sent, Callback
  <1>7. CASE SendData
    <2>1. <<image, loop>> \in Words
      BY <1>0 DEF HostTypes, Words, Origins
    <2> QED BY <1>1, <1>7, <2>1, Zenon DEF SendData, Sent, Callback
  <1>8. CASE SendTableWord
    <2>1. TableOf(image)[loop] \in Words
      BY <1>0, <1>8 DEF SendTableWord, HostTypes, TableOf, Words, Origins
    <2> QED BY <1>1, <1>8, <2>1, Zenon DEF SendTableWord, Sent, Callback
  <1>9. CASE SendCrc \/ SendTableCrc
    BY <1>1, <1>9, Zenon DEF SendCrc, SendTableCrc, Sent, Callback
  <1>10. CASE ResetAck \/ ResetPoll \/ TransferAck \/ InfoAck \/ SubSectorAck \/ CrcAck
              \/ TableAck \/ TableCrcAck
    BY <1>2, <1>10, Zenon DEF ResetAck, ResetPoll, TransferAck, InfoAck, SubSectorAck, CrcAck,
                       TableAck, TableCrcAck
  <1> QED BY <1>4, <1>5, <1>6, <1>7, <1>8, <1>9, <1>10 DEF HostStep

-----------------------------------------------------------------------------
(* Loops *)

LEMMA NextSector ==
  ASSUME NEW s \in Int, NEW m \in Int, NEW t, t = s + 1
  PROVE  (s - 1) * m + m = (t - 1) * m
  BY SMTT(30)

LEMMA LastSector ==
  ASSUME NEW s \in Int, NEW m \in Nat, m > 1, NEW p \in 0 .. m,
         (s - 1) * m + p + 1 = NumSectors * m
  PROVE  s = NumSectors
  <1>1. PICK d \in Int : d = NumSectors - s
    OBVIOUS
  <1>2. NumSectors * m = (s - 1) * m + d * m + m
    <2>1. NumSectors = (s - 1) + d + 1
      BY <1>1
    <2> QED BY <2>1, SMTT(30)
  <1>3. (s - 1) * m \in Int /\ d * m \in Int
    OBVIOUS
  <1>4. d * m = p + 1 - m
    BY <1>2, <1>3
  <1>5. d <= -1 => d * m <= -m
    <2> SUFFICES ASSUME d + 1 <= 0 PROVE (d + 1) * m <= 0
      BY SMTT(30)
    <2> QED BY SMTT(30)
  <1>6. d >= 1 => d * m >= m
    <2> SUFFICES ASSUME d - 1 >= 0 PROVE (d - 1) * m >= 0
      BY SMTT(30)
    <2> QED BY SMTT(30)
  <1>7. ~(d <= -1)
    BY <1>3, <1>4, <1>5
  <1>8. ~(d >= 1)
    BY <1>3, <1>4, <1>6
  <1> QED BY <1>1, <1>7, <1>8

LEMMA CallbackCountsLoops ==
  ASSUME FillsFlash, FlashInv, LoopsCounted, Settled, mode = "boot", Callback
  PROVE  LoopsCounted'
  <1>a. UNCHANGED <<bootState, validations>>
    BY DEF Callback, RxActionRequest, RxTransferProcessInfo, RxLoopInfo, RxData8Bytes,
           RxCrc8Bytes
  <1>b. SectorLoops \in Nat /\ NumSectors \in Nat /\ Total \in Nat
    BY SMTT(30) DEF Total
  <1>0. /\ UNCHANGED <<bootState, validations>> /\ IsTransfer(transfer)
        /\ SectorLoops \in Nat /\ NumSectors \in Nat /\ Total \in Nat
    BY <1>a, <1>b DEF FlashInv, ProgressTypes
  <1> SUFFICES ASSUME bootState # "ERROR" PROVE LoopsCounted'
    BY <1>a DEF LoopsCounted
  <1> USE DEF LoopsCounted, FirstLoop, LoopInSector, SectorStates, LoopNumbered
  <1>1. ASSUME UNCHANGED transfer,
               canState' \in SectorStates =>
                  canState' = canState \/ bootState # "LOAD"
        PROVE  LoopsCounted'
    BY <1>0, <1>1
  <1>2. CASE \E r \in {"TRANSFER", "RUN", "RESET"} : RxActionRequest(r)
    <2>1. UNCHANGED transfer
      BY <1>2 DEF RxActionRequest, progress
    <2>2. canState' \in {canState, "RUN_PROGRAM", "RESET_BOOT"}
          \/ canState = "NO_COMMUNICATION"
      BY <1>2 DEF RxActionRequest, RxTransferRequest, RxRunRequest, RxResetRequest
    <2>3. canState = "NO_COMMUNICATION" => bootState # "LOAD"
      BY DEF Settled, LoadStates
    <2> QED BY <1>1, <2>1, <2>2, <2>3
  <1>3. ASSUME NEW i \in Images, RxTransferProcessInfo(Loops[i])
        PROVE  LoopsCounted'
    <2>1. CASE UNCHANGED <<canState, transfer>>
      BY <1>1, <2>1
    <2>2. CASE /\ canState = "WAIT_FOR_INFO" /\ Loops[i] <= Total
               /\ transfer' = [transfer EXCEPT !.total = Loops[i]]
               /\ canState' = "WAIT_FOR_DATA_LOOPS"
      <3>0. Loops[i] = Total
        BY <1>0, <2>2 DEF FillsFlash
      <3>1. /\ transfer'.total = Total /\ transfer'.loop = transfer.loop
            /\ transfer'.sector = transfer.sector
            /\ transfer'.position = transfer.position
        BY <1>0, <2>2, <3>0 DEF IsTransfer
      <3> QED BY <1>0, <2>2, <3>1
    <2> QED BY <1>3, <2>1, <2>2 DEF RxTransferProcessInfo
  <1>4. ASSUME NEW n \in Nat, RxLoopInfo(n)
        PROVE  LoopsCounted'
    <2>1. CASE UNCHANGED <<canState, transfer>>
      BY <1>1, <2>1
    <2>2. CASE canState \in {"WAIT_FOR_DATA_LOOPS", "RECEIVED_LOOP_NUMBER",
                             "RECEIVED_8_BYTES_DATA", "RECEIVED_8_BYTES_CRC"}
      <3>1. bootState = "LOAD"
        BY <2>2 DEF Settled
      <3>2. PICK current \in Nat : /\ transfer' = [transfer EXCEPT !.loop = current]
                                   /\ current = IF transfer.loop = 0 THEN 1 ELSE transfer.loop
        <4>1. CASE transfer.loop = 0
          BY <1>4, <2>2, <4>1 DEF RxLoopInfo
        <4>2. CASE transfer.loop # 0
          BY <1>0, <1>4, <2>2, <4>2 DEF RxLoopInfo, IsTransfer
        <4> QED BY <4>1, <4>2
      <3>3. /\ transfer'.total = Total /\ transfer'.loop = current
            /\ transfer'.sector = transfer.sector
            /\ transfer'.position = transfer.position
        BY <1>0, <2>2, <3>1, <3>2 DEF IsTransfer
      <3>4. canState' \in {canState, "RECEIVED_LOOP_NUMBER"}
        BY <1>4 DEF RxLoopInfo
      <3>5. canState = "RECEIVED_8_BYTES_CRC" => validations' # 0
        BY <1>0, <2>2, <3>1 DEF Settled
      <3>6. Total >= 1
        BY <1>0, SMTT(30) DEF Total
      <3>7. LoopInSector(transfer')
        <4>1. CASE LoopInSector(transfer)
          <5>1. current = transfer.loop
            BY <1>0, <3>2, <4>1 DEF IsTransfer
          <5> QED BY <3>3, <4>1, <5>1
        <4>2. CASE FirstLoop(transfer)
          <5>1. (1 - 1) * SectorLoops = 0
            BY <1>0
          <5> QED BY <3>2, <3>3, <3>6, <4>2, <5>1
        <4> QED BY <2>2, <3>1, <4>1, <4>2
      <3> QED BY <1>0, <2>2, <3>1, <3>3, <3>4, <3>5, <3>7
    <2> QED BY <1>4, <2>1, <2>2 DEF RxLoopInfo, progress
  <1>5. ASSUME NEW word \in Words, RxData8Bytes(word)
        PROVE  LoopsCounted'
    <2>1. CASE UNCHANGED <<canState, transfer>>
      BY <1>1, <2>1
    <2>2. CASE canState = "FINISHED_FINAL_VALIDATION" /\ RxTableWord(word)
      <3>1. bootState = "LOAD" /\ canState' \notin SectorStates
        BY <2>2 DEF Settled, RxTableWord
      <3> QED BY <1>0, <3>1
    <2>3. CASE canState = "RECEIVED_LOOP_NUMBER" /\ RxProgramWord(word)
      <3>1. bootState = "LOAD" /\ canState' # "RECEIVED_8_BYTES_CRC"
        BY <2>3 DEF Settled, RxProgramWord
      <3>2. transfer.total = Total /\ LoopInSector(transfer)
        BY <2>3, <3>1
      <3>3. \/ transfer' = transfer
            \/ /\ transfer.loop # transfer.total
               /\ transfer' = [transfer EXCEPT !.position = transfer.position + 1,
                                               !.loop = @ + 1]
        BY <2>3 DEF RxProgramWord
      <3>4. CASE transfer' = transfer
        BY <1>0, <3>1, <3>2, <3>4
      <3>5. CASE /\ transfer.loop # transfer.total
                 /\ transfer' = [transfer EXCEPT !.position = transfer.position + 1,
                                                 !.loop = @ + 1]
        <4>1. /\ transfer'.total = Total /\ transfer'.loop = transfer.loop + 1
              /\ transfer'.sector = transfer.sector
              /\ transfer'.position = transfer.position + 1
          BY <1>0, <3>2, <3>5 DEF IsTransfer
        <4>2. /\ transfer.position \in Int /\ transfer.loop \in Nat
              /\ (transfer.sector - 1) * SectorLoops \in Int
          BY <1>0 DEF IsTransfer
        <4>3. LoopInSector(transfer')
          BY <1>0, <3>2, <3>5, <4>1, <4>2
        <4> QED BY <1>0, <3>1, <4>1, <4>3
      <3> QED BY <3>3, <3>4, <3>5
    <2> QED BY <1>5, <2>1, <2>2, <2>3, Zenon DEF RxData8Bytes
  <1>6. ASSUME NEW crc, RxCrc8Bytes(crc)
        PROVE  LoopsCounted'
    <2>1. CASE UNCHANGED <<canState, transfer>>
      BY <1>1, <2>1
    <2>2. CASE canState = "FINISHED_TRANSFER_VECTOR_TABLE" /\ RxTableCrc(crc)
      <3>1. bootState = "LOAD" /\ canState' \notin SectorStates
        BY <2>2 DEF Settled, RxTableCrc
      <3> QED BY <1>0, <3>1
    <2>3. CASE canState = "RECEIVED_8_BYTES_DATA" /\ RxSectorCrc(crc)
      <3>1. bootState = "LOAD"
        BY <2>3 DEF Settled
      <3>2. CASE /\ transfer.position >= SectorLoops \/ transfer.loop = transfer.total
                 /\ transfer' = [transfer EXCEPT !.crc = crc]
        <4>1. /\ transfer'.total = transfer.total /\ transfer'.loop = transfer.loop
              /\ transfer'.sector = transfer.sector
              /\ transfer'.position = transfer.position
          BY <1>0, <3>2 DEF IsTransfer
        <4>2. transfer.position = SectorLoops \/ transfer.loop = Total
          <5>1. transfer.total = Total
            BY <2>3, <3>1
          <5>2. transfer.position \in -1 .. SectorLoops
            BY <1>0 DEF IsTransfer
          <5> QED BY <1>0, <3>2, <5>1, <5>2
        <4> QED BY <1>0, <2>3, <3>1, <4>1, <4>2
      <3> QED BY <1>1, <2>3, <3>2 DEF RxSectorCrc
    <2> QED BY <1>6, <2>1, <2>2, <2>3, Zenon DEF RxCrc8Bytes
  <1> QED BY <1>2, <1>3, <1>4, <1>5, <1>6, Zenon DEF Callback

LEMMA RestartedLoops ==
  ASSUME NEW m, Restarted(m)
  PROVE  LoopsCounted'
  BY DEF Restarted, LoopsCounted, FirstLoop, InitialTransfer

LEMMA WriteCountsLoops ==
  ASSUME FillsFlash, FlashInv, LoopsCounted, BOOT_WriteAndValidateCurrentSector
  PROVE  LoopsCounted'
  <1>1. CASE Halt
    BY <1>1, RestartedLoops DEF Halt
  <1>2. CASE bootState' = "ERROR"
    BY <1>2 DEF LoopsCounted
  <1>3. ASSUME NEW w, SectorWritten(w), bootState' # "ERROR"
        PROVE  LoopsCounted'
    <2>1. /\ bootState = "LOAD" /\ canState = "RECEIVED_8_BYTES_CRC" /\ validations = 0
          /\ bootState' = "LOAD" /\ validations' = 1
      BY <1>3 DEF BOOT_WriteAndValidateCurrentSector, WriteTurn, In, SectorWritten
    <2>2. /\ LoopInSector(transfer) /\ transfer.total = Total /\ IsTransfer(transfer)
          /\ transfer.position = SectorLoops \/ transfer.loop = Total
      BY <2>1 DEF LoopsCounted, SectorStates, LoopNumbered, FlashInv, ProgressTypes
    <2>3. \/ canState' = "FINISHED_FINAL_VALIDATION"
          \/ /\ UNCHANGED canState /\ transfer.loop # transfer.total
             /\ transfer' = [transfer EXCEPT !.onBoard = transfer.crc, !.position = 0,
                                             !.sector = @ + 1]
      BY <1>3, <2>1 DEF SectorWritten
    <2>4. CASE canState' = "FINISHED_FINAL_VALIDATION"
      BY <2>1, <2>4 DEF LoopsCounted, SectorStates
    <2>5. CASE /\ UNCHANGED canState /\ transfer.loop # transfer.total
               /\ transfer' = [transfer EXCEPT !.onBoard = transfer.crc, !.position = 0,
                                               !.sector = @ + 1]
      <3>1. /\ transfer'.total = Total /\ transfer'.loop = transfer.loop
            /\ transfer'.position = 0 /\ transfer'.sector = transfer.sector + 1
        BY <2>2, <2>5 DEF IsTransfer
      <3>2. /\ transfer.sector \in Int /\ transfer.position = SectorLoops
        BY <2>2, <2>5 DEF IsTransfer
      <3>3. transfer'.loop = (transfer'.sector - 1) * SectorLoops + 1
        <4>1. transfer.loop = (transfer.sector - 1) * SectorLoops + SectorLoops + 1
          BY <2>2, <3>2 DEF LoopInSector
        <4>2. (transfer.sector - 1) * SectorLoops + SectorLoops
                = (transfer'.sector - 1) * SectorLoops
          BY <3>1, <3>2, NextSector, SectorLoops \in Int
        <4>3. transfer'.loop = transfer.loop
          BY <3>1
        <4> QED BY <4>1, <4>2, <4>3
      <3>4. (transfer'.sector - 1) * SectorLoops \in Int
        BY <3>1, <3>2
      <3>5. LoopInSector(transfer')
        BY <2>2, <3>1, <3>3, <3>4 DEF LoopInSector
      <3> QED BY <2>1, <2>5, <3>1, <3>5 DEF LoopsCounted
    <2> QED BY <2>3, <2>4, <2>5
  <1>4. CASE ~Raised(flash, store.table)
    BY <1>1, <1>4 DEF BOOT_WriteAndValidateCurrentSector
  <1>5. CASE Raised(flash, store.table) /\ transfer.sector \notin 1 .. NumSectors
    BY <1>2, <1>5 DEF BOOT_WriteAndValidateCurrentSector
  <1>6. CASE Raised(flash, store.table) /\ transfer.sector \in 1 .. NumSectors
    <2>1. Halt \/ \E w : SectorWritten(w)
      BY <1>6 DEF BOOT_WriteAndValidateCurrentSector
    <2> QED BY <1>1, <1>2, <1>3, <2>1
  <1> QED BY <1>4, <1>5, <1>6

\* What the other steps of the main loop can leave of a transfer.
LEMMA StoreEnds ==
  ASSUME StoreProgram \/ BOOT_ResetBootloader
  PROVE  \/ Restarted("boot") \/ Restarted("halted")
         \/ bootState' = "ERROR"
  <1>1. CASE StoreProgram
    BY <1>1, Zenon DEF StoreProgram, Halt
  <1>2. CASE BOOT_ResetBootloader /\ Refused(ResetStore)
    BY <1>2, Zenon DEF BOOT_ResetBootloader, SoftwareReset, Halt
  <1>3. CASE BOOT_ResetBootloader /\ ~Refused(ResetStore) /\ ~Raised(flash, store.table)
    BY <1>3 DEF BOOT_ResetBootloader, Halt
  <1>4. CASE BOOT_ResetBootloader /\ ~Refused(ResetStore) /\ Raised(flash, store.table)
    <2>1. PICK w \in Outcomes(store, ResetStore, TornStores(ResetStore)) :
              CASE ~w.ok -> /\ SoftwareReset(Served(w.left.table, flash))
                            /\ Mishap /\ UNCHANGED flash
                [] w.ok /\ ~Served(w.left.table, flash) ->
                     Halt /\ UNCHANGED <<flash, mishaps>>
                [] w.ok /\ Served(w.left.table, flash) -> EraseApp
      BY <1>4, Zenon DEF BOOT_ResetBootloader
    <2>2. CASE ~w.ok
      BY <2>1, <2>2, Zenon DEF SoftwareReset, Halt
    <2>3. CASE w.ok
      BY <2>1, <2>3 DEF Halt, EraseApp
    <2> QED BY <2>2, <2>3
  <1> QED BY <1>1, <1>2, <1>3, <1>4

LEMMA LoopsStep ==
  ASSUME FillsFlash, FlashInv, OneImageInv, StatesAgree, LoopsCounted, [LoadNext]_vars
  PROVE  LoopsCounted'
  <1> DEFINE Still == UNCHANGED <<canState, bootState, validations, progress>>
  <1>1. CASE Still
    BY <1>1 DEF LoopsCounted, progress, FirstLoop, LoopInSector
  <1>2. CASE MainLoop \/ TimeOut
    <2>1. CASE Wait \/ TimeOut
      <3>1. /\ bootState = "WAIT" /\ UNCHANGED <<canState, transfer>>
        BY <2>1 DEF Wait, TimeOut, In, progress
      <3>2. FirstLoop(transfer)
            /\ canState \in {"NO_COMMUNICATION", "WAIT_FOR_INFO", "RUN_PROGRAM", "RESET_BOOT"}
        BY <3>1 DEF LoopsCounted, StatesAgree
      <3> QED BY <3>1, <3>2 DEF LoopsCounted, LoopNumbered, SectorStates, FirstLoop
    <2>2. CASE Load
      <3>1. /\ bootState = "LOAD" /\ UNCHANGED <<canState, transfer>>
            /\ bootState' \notin {"WAIT", "RUN"}
            /\ canState = "RECEIVED_8_BYTES_CRC" => UNCHANGED validations
        BY <2>2 DEF Load, In, progress
      <3> QED BY <3>1 DEF LoopsCounted, FirstLoop, LoopInSector
    <2>3. CASE BOOT_GetBootStateDuringError
      BY <2>3 DEF BOOT_GetBootStateDuringError, LoopsCounted
    <2>4. CASE Run
      <3>1. \/ Restarted("app") \/ Restarted("halted")
            \/ bootState' = "WAIT" /\ UNCHANGED progress
        BY <2>4, Zenon DEF Run, Halt
      <3>2. CASE bootState' = "WAIT" /\ UNCHANGED progress
        BY <2>4, <3>2 DEF Run, In, LoopsCounted, progress, FirstLoop
      <3> QED BY <3>1, <3>2, RestartedLoops
    <2>5. CASE StoreProgram \/ BOOT_ResetBootloader
      <3>1. CASE bootState' = "ERROR"
        BY <3>1 DEF LoopsCounted
      <3> QED BY <2>5, <3>1, StoreEnds, RestartedLoops
    <2> QED BY <1>2, <2>1, <2>2, <2>3, <2>4, <2>5, WriteCountsLoops DEF MainLoop
  <1>3. CASE HostStep
    <2>1. Still \/ (mode = "boot" /\ Settled /\ Callback)
      BY <1>3, HostCalls
    <2> QED BY <1>1, <2>1, CallbackCountsLoops
  <1>4. CASE RunApp
    BY <1>4, CallbackCountsLoops DEF RunApp, Callback
  <1>5. CASE Interrupt \/ \E i \in Images \union {NoImage} : StartSession(i)
    BY <1>1, <1>5 DEF Interrupt, StartSession, boot
  <1>6. CASE PowerFails \/ PowerCycle
    BY <1>6, RestartedLoops DEF PowerFails, PowerFailure, PowerFailureInSector,
            PowerFailureInStore, PowerFailureInReset, Cut, PowerCycle
  <1>7. CASE UNCHANGED vars
    BY <1>1, <1>7 DEF vars, boot
  <1> QED BY <1>2, <1>3, <1>4, <1>5, <1>6, <1>7 DEF LoadNext, Device

-----------------------------------------------------------------------------
(* What is stored if nothing fails *)

\* Failures are counted, and power failures are.
LEMMA MishapsStay ==
  ASSUME BootTypes, [LoadNext]_vars
  PROVE  mishaps' >= mishaps /\ (PowerFails => mishaps' > mishaps)
  <1>0. mishaps \in Nat
    BY DEF BootTypes
  <1>1. CASE UNCHANGED persistent
    BY <1>0, <1>1 DEF persistent, PowerFails, PowerFailure, PowerFailureInSector,
                      PowerFailureInStore, PowerFailureInReset, Cut, Mishap
  <1>2. PowerFails => mishaps' = mishaps + 1
    BY DEF PowerFails, PowerFailure, PowerFailureInSector, PowerFailureInStore,
           PowerFailureInReset, Cut, Mishap
  <1>3. CASE BOOT_WriteAndValidateCurrentSector \/ StoreProgram \/ BOOT_ResetBootloader
    <2>1. CASE BOOT_WriteAndValidateCurrentSector
      <3>1. CASE mishaps' = mishaps
        BY <1>0, <1>2, <3>1
      <3>2. CASE \E w : mishaps' = mishaps + (IF w.ok THEN 0 ELSE 1)
        BY <1>0, <1>2, <3>2
      <3> QED BY <2>1, <3>1, <3>2, Zenon DEF BOOT_WriteAndValidateCurrentSector
    <2>2. CASE StoreProgram
      <3>1. CASE mishaps' = mishaps
        BY <1>0, <1>2, <3>1
      <3>2. CASE \E w : Written(w)
        BY <1>0, <1>2, <3>2 DEF Written
      <3> QED BY <2>2, <3>1, <3>2, Zenon DEF StoreProgram
    <2>3. CASE BOOT_ResetBootloader
      <3>1. CASE UNCHANGED mishaps
        BY <1>0, <1>2, <3>1
      <3>2. CASE Mishap
        BY <1>0, <1>2, <3>2 DEF Mishap
      <3>3. UNCHANGED mishaps \/ Mishap
        <4>1. CASE Refused(ResetStore) \/ ~Raised(flash, store.table)
          BY <2>3, <4>1, Zenon DEF BOOT_ResetBootloader, persistent
        <4>2. CASE ~Refused(ResetStore) /\ Raised(flash, store.table)
          <5>1. PICK w \in Outcomes(store, ResetStore, TornStores(ResetStore)) :
                  CASE ~w.ok -> /\ SoftwareReset(Served(w.left.table, flash))
                                /\ Mishap /\ UNCHANGED flash
                    [] w.ok /\ ~Served(w.left.table, flash) ->
                         Halt /\ UNCHANGED <<flash, mishaps>>
                    [] w.ok /\ Served(w.left.table, flash) -> EraseApp
            BY <2>3, <4>2, Zenon DEF BOOT_ResetBootloader
          <5>2. EraseApp => UNCHANGED mishaps \/ Mishap
            BY DEF EraseApp
          <5> QED BY <5>1, <5>2
        <4> QED BY <4>1, <4>2
      <3> QED BY <3>1, <3>2, <3>3
    <2> QED BY <1>3, <2>1, <2>2, <2>3
  <1>4. CASE Wait \/ Load \/ Run \/ BOOT_GetBootStateDuringError \/ TimeOut \/ PowerCycle
    BY <1>1, <1>4 DEF Wait, Load, Run, BOOT_GetBootStateDuringError, TimeOut, PowerCycle
  <1>5. CASE PowerFails
    BY <1>0, <1>2, <1>5
  <1>6. CASE HostStep
    BY <1>1, <1>6, HostLeaves
  <1>7. CASE Interrupt \/ RunApp \/ \E i \in Images \union {NoImage} : StartSession(i)
    BY <1>1, <1>7 DEF Interrupt, RunApp, StartSession, RxActionRequest, boot, persistent
  <1>8. CASE UNCHANGED vars
    BY <1>1, <1>8 DEF vars, boot
  <1> QED BY <1>3, <1>4, <1>5, <1>6, <1>7, <1>8 DEF LoadNext, Device, MainLoop

LEMMA TablesHaveNoZero ==
  ASSUME NEW x \in Images \union {Own}
  PROVE  ~HasZero(TableOf(x))
  <1>1. x # Zero
    BY DEF OriginAssumption
  <1> QED BY <1>1 DEF HasZero, TableOf

\* Without a failure, a validated vector table is stored with its application.
LEMMA ProgramIsStored ==
  ASSUME BootInv, OwnTableInv, AllOnBoard, StoreProgram, mishaps' = 0
  PROVE  /\ mishaps = 0 /\ store' = ProgramStore
         /\ \/ Restarted("boot") /\ Served(ProgramStore.table, flash)
            \/ Restarted("halted") /\ ~Served(ProgramStore.table, flash)
         /\ \E i \in Images : transfer.table = TableOf(i) /\ transfer.tableCrc = TableOf(i)
         /\ UNCHANGED <<flash, bus>>
  <1>1. /\ bootState = "LOAD" /\ canState = "VALIDATED_VECTOR_TABLE"
        /\ mishaps \in Nat /\ UNCHANGED <<flash, bus>>
    BY DEF StoreProgram, StoreTurn, In, BootInv, BootTypes
  <1>2. PICK i \in Images : transfer.tableCrc = TableOf(i)
    BY <1>1 DEF BootInv, OneImageInv, ValidatedOfOne
  <1>3. transfer.table = TableOf(i) /\ Served(store.table, flash)
    BY <1>1, <1>2 DEF AllOnBoard, TableStates
  <1>4. mishaps = 0 => ~Refused(ProgramStore)
    <2> SUFFICES ASSUME mishaps = 0 PROVE ~Refused(ProgramStore)
      OBVIOUS
    <2>1. ProgramStore.backup = TableOf(Own)
      BY ProgramStoreSaves DEF OwnTableInv
    <2>2. ProgramStore.table = TableOf(i)
      BY <1>3 DEF ProgramStore
    <2> QED BY <2>1, <2>2, TablesHaveNoZero DEF Refused
  <1>5. Raised(flash, store.table)
    BY <1>3 DEF Raised
  <1>6. CASE Refused(ProgramStore)
    BY <1>1, <1>4, <1>6 DEF StoreProgram
  <1>7. CASE ~Refused(ProgramStore)
    <2>1. PICK w \in Outcomes(store, ProgramStore, TornStores(ProgramStore)) :
                 /\ Written(w)
                 /\ w.ok => IF Served(ProgramStore.table, flash)
                            THEN Restarted("boot") ELSE Halt
      BY <1>5, <1>7 DEF StoreProgram
    <2>2. w.ok /\ w.left = ProgramStore
      <3>1. CASE w.ok = FALSE
        BY <1>1, <2>1, <3>1 DEF Written
      <3>2. w.ok = FALSE \/ (w.ok = TRUE /\ w.left = ProgramStore)
        BY OutcomeIsNew
      <3> QED BY <3>1, <3>2
    <2>3. mishaps' = mishaps
      BY <1>1, <2>1, <2>2 DEF Written
    <2> QED BY <1>1, <1>2, <1>3, <2>1, <2>2, <2>3 DEF Written, Halt
  <1> QED BY <1>6, <1>7

\* Without a failure, a reset makes the application unavailable, or there was
\* none to start.
LEMMA ResetIsStored ==
  ASSUME BootInv, OwnTableInv, TableOfOne, BOOT_ResetBootloader, mishaps' = 0
  PROVE  /\ mishaps = 0
         /\ Restarted("boot") \/ Restarted("halted")
         /\ mode' = "boot" => ~Validated'
         /\ \E x \in Images \union {Own} : store'.table = TableOf(x)
         /\ UNCHANGED bus
  <1>0. mishaps \in Nat /\ UNCHANGED bus
    BY DEF BootInv, BootTypes, BOOT_ResetBootloader
  <1>m. ~Mishap
    BY <1>0 DEF Mishap
  <1>1. mishaps = 0
    <2>1. UNCHANGED mishaps
      <3>1. CASE Refused(ResetStore) \/ ~Raised(flash, store.table)
        BY <3>1, Zenon DEF BOOT_ResetBootloader, persistent
      <3>2. CASE ~Refused(ResetStore) /\ Raised(flash, store.table)
        <4>1. PICK w \in Outcomes(store, ResetStore, TornStores(ResetStore)) :
              CASE ~w.ok -> /\ SoftwareReset(Served(w.left.table, flash))
                            /\ Mishap /\ UNCHANGED flash
                [] w.ok /\ ~Served(w.left.table, flash) ->
                     Halt /\ UNCHANGED <<flash, mishaps>>
                [] w.ok /\ Served(w.left.table, flash) -> EraseApp
          BY <3>2, Zenon DEF BOOT_ResetBootloader
        <4>2. EraseApp => UNCHANGED mishaps
          BY <1>m, Zenon DEF EraseApp
        <4> QED BY <1>m, <4>1, <4>2
      <3> QED BY <3>1, <3>2
    <2> QED BY <2>1
  <1>2. /\ store = InitialStore \/ OwnTableSaved
        /\ \E x \in Images \union {Own} : store.table = TableOf(x)
    BY <1>1 DEF OwnTableInv, TableOfOne
  <1>3. CASE Refused(ResetStore)
    <2>1. store = InitialStore
      <3>1. CASE OwnTableSaved
        <4>1. ResetStore.backup = TableOf(Own)
          BY <3>1 DEF OwnTableSaved, Loaded, ResetStore
        <4>2. ResetStore.table \in {TableOf(Own), store.table}
          BY <3>1 DEF OwnTableSaved, Loaded, ResetStore
        <4> QED BY <1>2, <1>3, <4>1, <4>2, TablesHaveNoZero DEF Refused
      <3> QED BY <1>2, <3>1
    <2>2. (Restarted("boot") \/ Restarted("halted")) /\ UNCHANGED store
      BY <1>3, Zenon DEF BOOT_ResetBootloader, SoftwareReset, Halt, persistent
    <2>3. ~Validated'
      <3>1. store'.magic = FALSE
        BY <2>1, <2>2 DEF InitialStore
      <3>2. IsStore(store)
        BY DEF BootInv, BootTypes
      <3>3. Loaded.available = FALSE
        BY <2>1, <3>2 DEF Loaded, InitialStore
      <3>4. ~Validated
        BY <3>3 DEF Validated
      <3>5. Loaded'.available = FALSE
        BY <2>2, <3>3 DEF Loaded
      <3> QED BY <3>5 DEF Validated
    <2> QED BY <1>0, <1>1, <1>2, <2>2, <2>3
  <1>4. CASE ~Refused(ResetStore) /\ ~Raised(flash, store.table)
    <2>1. Restarted("halted") /\ UNCHANGED store
      BY <1>4 DEF BOOT_ResetBootloader, Halt, persistent
    <2>2. mode' # "boot"
      BY <2>1 DEF Restarted
    <2> QED BY <1>0, <1>1, <1>2, <2>1, <2>2
  <1>5. CASE ~Refused(ResetStore) /\ Raised(flash, store.table)
    <2>1. PICK w \in Outcomes(store, ResetStore, TornStores(ResetStore)) :
              /\ store' = w.left
              /\ CASE ~w.ok -> /\ SoftwareReset(Served(w.left.table, flash))
                               /\ Mishap /\ UNCHANGED flash
                   [] w.ok /\ ~Served(w.left.table, flash) ->
                        Halt /\ UNCHANGED <<flash, mishaps>>
                   [] w.ok /\ Served(w.left.table, flash) -> EraseApp
      BY <1>5, Zenon DEF BOOT_ResetBootloader
    <2>2. w.ok /\ w.left = ResetStore
      <3>1. ~(w.ok = FALSE)
        BY <1>m, <2>1, Zenon
      <3>2. w.ok = FALSE \/ (w.ok = TRUE /\ w.left = ResetStore)
        BY OutcomeIsNew
      <3> QED BY <3>1, <3>2
    <2>3. Restarted("boot") \/ Restarted("halted")
      <3>1. EraseApp => Restarted("boot")
        BY <1>m, Zenon DEF EraseApp
      <3> QED BY <2>1, <2>2, <3>1 DEF Halt
    <2>4. ~Validated'
      <3>1. store'.available = FALSE
        BY <2>1, <2>2 DEF ResetStore
      <3>2. Loaded'.available = FALSE
        BY <2>1, <2>2, <3>1 DEF Loaded, ResetStore
      <3> QED BY <3>2 DEF Validated
    <2>5. store'.table \in {TableOf(Own), store.table}
      <3>1. CASE store = InitialStore
        BY <2>1, <2>2, <3>1 DEF ResetStore, Loaded, InitialStore
      <3>2. CASE OwnTableSaved
        BY <2>1, <2>2, <3>2 DEF ResetStore, Loaded, OwnTableSaved
      <3> QED BY <1>2, <3>1, <3>2
    <2> QED BY <1>0, <1>1, <1>2, <2>3, <2>4, <2>5
  <1> QED BY <1>3, <1>4, <1>5

-----------------------------------------------------------------------------
(* What is on board *)

\* What callbacks leave behind the last sector, and how a table is validated.
LEMMA CallbackTables ==
  ASSUME FlashInv, transfer.table \in Tables, Callback
  PROVE  /\ UNCHANGED <<bootState, validations, persistent, processor>>
         /\ canState' \in TableStates =>
              /\ canState \in TableStates
              /\ transfer'.onBoard = transfer.onBoard /\ transfer'.crc = transfer.crc
         /\ canState' = "VALIDATED_VECTOR_TABLE" =>
              \/ canState = canState' /\ UNCHANGED transfer
              \/ /\ canState = "FINISHED_TRANSFER_VECTOR_TABLE"
                 /\ transfer'.table = transfer.table /\ transfer'.tableCrc = transfer.table
  <1>1. UNCHANGED <<bootState, validations, persistent, processor>>
    BY DEF Callback, RxActionRequest, RxTransferProcessInfo, RxLoopInfo, RxData8Bytes,
           RxCrc8Bytes
  <1>2. Kept
    BY ActionRequestKept, TransferProcessInfoKept, LoopInfoKept, Data8BytesKept,
       Crc8BytesKept, Zenon DEF Callback
  <1>3. canState' \in TableStates => transfer'.crc = transfer.crc
    <2>1. CASE Carried
      BY <2>1 DEF Carried
    <2>2. CASE \E crc : RxCrc8Bytes(crc)
      <3>1. \/ Carried
            \/ canState' = "RECEIVED_8_BYTES_CRC"
            \/ transfer'.crc = transfer.crc
        BY <2>2, Crc8BytesTakes
      <3> QED BY <2>1, <3>1 DEF TableStates
    <2> QED BY <2>1, <2>2, ActionRequestCarries, TransferProcessInfoCarries,
               LoopInfoCarries, Data8BytesCarries, Zenon DEF Callback
  <1>4. ASSUME canState' = "VALIDATED_VECTOR_TABLE"
        PROVE  \/ canState = canState' /\ UNCHANGED transfer
               \/ /\ canState = "FINISHED_TRANSFER_VECTOR_TABLE"
                  /\ transfer'.table = transfer.table /\ transfer'.tableCrc = transfer.table
    <2>1. CASE \E r \in {"TRANSFER", "RUN", "RESET"} : RxActionRequest(r)
      BY <1>4, <2>1 DEF RxActionRequest, RxTransferRequest, RxRunRequest, RxResetRequest,
                        progress
    <2>2. CASE \E i \in Images : RxTransferProcessInfo(Loops[i])
      BY <1>4, <2>2 DEF RxTransferProcessInfo
    <2>3. CASE \E n \in Nat : RxLoopInfo(n)
      BY <1>4, <2>3 DEF RxLoopInfo, progress
    <2>4. CASE \E word \in Words : RxData8Bytes(word)
      BY <1>4, <2>4 DEF RxData8Bytes, RxTableWord, RxProgramWord
    <2>5. CASE \E crc : RxCrc8Bytes(crc)
      <3>1. PICK crc : RxCrc8Bytes(crc)
        BY <2>5
      <3>2. CASE canState = "FINISHED_TRANSFER_VECTOR_TABLE"
        <4>1. RxTableCrc(crc)
          BY <3>1, <3>2 DEF RxCrc8Bytes
        <4>2. crc = transfer.table /\ transfer' = [transfer EXCEPT !.tableCrc = crc]
          BY <1>4, <4>1 DEF RxTableCrc
        <4> QED BY <3>2, <4>2 DEF FlashInv, ProgressTypes, IsTransfer
      <3>3. CASE canState # "FINISHED_TRANSFER_VECTOR_TABLE"
        BY <1>4, <3>1, <3>3 DEF RxCrc8Bytes, RxSectorCrc
      <3> QED BY <3>2, <3>3
    <2> QED BY <2>1, <2>2, <2>3, <2>4, <2>5, Zenon DEF Callback
  <1> QED BY <1>1, <1>2, <1>3, <1>4 DEF Kept

\* The last sector acknowledged is the last one in flash.
LEMMA LastSectorWritten ==
  ASSUME FillsFlash, FlashInv, FlashInv', LoopsCounted,
         BOOT_WriteAndValidateCurrentSector,
         bootState' = "LOAD", canState' \in TableStates
  PROVE  /\ canState' = "FINISHED_FINAL_VALIDATION"
         /\ transfer'.onBoard = flash' /\ transfer'.crc = flash'
         /\ Served(store'.table, flash') /\ UNCHANGED store
  <1>1. /\ bootState = "LOAD" /\ canState = "RECEIVED_8_BYTES_CRC" /\ validations = 0
        /\ UNCHANGED store
    BY DEF BOOT_WriteAndValidateCurrentSector, WriteTurn, In
  <1>2. /\ LoopInSector(transfer) /\ transfer.total = Total
        /\ IsTransfer(transfer) /\ flash \in FlashContents /\ flash' \in FlashContents
    BY <1>1 DEF LoopsCounted, SectorStates, LoopNumbered, FlashInv, ProgressTypes
  <1>3. Raised(flash, store.table) /\ transfer.sector \in 1 .. NumSectors
    <2>1. CASE ~Raised(flash, store.table)
      BY <2>1 DEF BOOT_WriteAndValidateCurrentSector, Halt, Restarted
    <2>2. CASE Raised(flash, store.table) /\ transfer.sector \notin 1 .. NumSectors
      BY <2>2 DEF BOOT_WriteAndValidateCurrentSector
    <2> QED BY <2>1, <2>2
  <1>4. PICK w : SectorWritten(w) /\ Served(store.table, flash')
    BY <1>3 DEF BOOT_WriteAndValidateCurrentSector, Halt, Restarted
  <1>5. /\ canState' = "FINISHED_FINAL_VALIDATION" /\ transfer.loop = transfer.total
        /\ transfer' = [transfer EXCEPT !.onBoard = transfer.crc]
        /\ transfer.crc = Append(transfer.onBoard, w.left)
    <2>1. canState' # "RECEIVED_8_BYTES_CRC"
      BY DEF TableStates
    <2> QED BY <1>1, <1>4, <2>1 DEF SectorWritten, Chain
  <1>6. transfer.sector = NumSectors
    <2>1. transfer.position \in 0 .. SectorLoops /\ transfer.loop \in Nat
      BY <1>2 DEF IsTransfer, LoopInSector
    <2>2. (transfer.sector - 1) * SectorLoops + transfer.position + 1
            = NumSectors * SectorLoops
      BY <1>2, <1>5 DEF LoopInSector, Total
    <2> QED BY <1>3, <2>1, <2>2, LastSector DEF FillsFlash
  <1>7. transfer.onBoard \in Seq(Sectors) /\ transfer.sector = Len(transfer.onBoard) + 1
    BY <1>1 DEF FlashInv, SectorsInFlash, SectorStates
  <1>8. /\ transfer'.onBoard = transfer.crc /\ transfer'.crc = transfer.crc
    BY <1>2, <1>5 DEF IsTransfer
  <1>9. /\ transfer'.onBoard \in Seq(Sectors)
        /\ \A k \in 1 .. Len(transfer'.onBoard) : transfer'.onBoard[k] = flash'[k]
    BY DEF FlashInv, SectorsInFlash
  <1>10. Len(transfer'.onBoard) = NumSectors
    <2>1. Len(transfer'.onBoard) = Len(Append(transfer.onBoard, w.left))
      BY <1>5, <1>8
    <2>2. Len(Append(transfer.onBoard, w.left)) = Len(transfer.onBoard) + 1
      BY <1>7
    <2> QED BY <1>6, <1>7, <2>1, <2>2
  <1>11. transfer'.onBoard = flash'
    <2>1. transfer'.onBoard = SubSeq(flash', 1, NumSectors)
      BY <1>2, <1>9, <1>10, FirstSectors
    <2>2. flash' = SubSeq(flash', 1, NumSectors)
      BY <1>2 DEF FlashContents
    <2> QED BY <2>1, <2>2
  <1> QED BY <1>1, <1>4, <1>5, <1>8, <1>11

LEMMA OnBoardStep ==
  ASSUME FillsFlash, BootInv, BootInv', LoopsCounted, AllOnBoard, [LoadNext]_vars
  PROVE  AllOnBoard'
  <1> DEFINE Still == UNCHANGED <<canState, transfer, flash, store>>
  <1>0. FlashInv /\ FlashInv' /\ OneImageInv /\ transfer.table \in Tables
    BY DEF BootInv, OneImageInv
  <1>1. ASSUME Still, bootState' = "LOAD" => bootState = "LOAD" \/ canState \notin TableStates
        PROVE  AllOnBoard'
    BY <1>1 DEF AllOnBoard, Served
  <1>2. CASE bootState' # "LOAD"
    BY <1>2 DEF AllOnBoard
  <1>3. CASE MainLoop \/ TimeOut
    <2>1. CASE Wait
      <3>1. Still /\ canState \notin TableStates
        BY <1>0, <2>1 DEF Wait, In, progress, persistent, FlashInv, NothingBefore
      <3> QED BY <1>1, <3>1
    <2>2. CASE Load
      <3>1. Still /\ bootState = "LOAD"
        BY <2>2 DEF Load, In, progress, persistent
      <3> QED BY <1>1, <3>1
    <2>3. CASE Run
      <3>1. bootState' # "LOAD"
        BY <2>3, Zenon DEF Run, Halt, Restarted
      <3> QED BY <1>2, <3>1
    <2>4. CASE StoreProgram \/ BOOT_ResetBootloader
      BY <1>2, <2>4, StoreEnds DEF Restarted
    <2>5. CASE BOOT_WriteAndValidateCurrentSector
      BY <1>0, <2>5, LastSectorWritten DEF AllOnBoard
    <2>6. CASE TimeOut \/ BOOT_GetBootStateDuringError
      BY <1>2, <2>6 DEF TimeOut, BOOT_GetBootStateDuringError
    <2> QED BY <1>3, <2>1, <2>2, <2>3, <2>4, <2>5, <2>6 DEF MainLoop
  <1>4. CASE mode = "boot" /\ Settled /\ Callback
    <2>1. /\ UNCHANGED <<bootState, flash, store>>
          /\ canState' \in TableStates =>
              /\ canState \in TableStates
              /\ transfer'.onBoard = transfer.onBoard /\ transfer'.crc = transfer.crc
          /\ canState' = "VALIDATED_VECTOR_TABLE" =>
              \/ canState = canState' /\ UNCHANGED transfer
              \/ transfer'.table = transfer.table /\ transfer'.tableCrc = transfer.table
      BY <1>0, <1>4, CallbackTables DEF persistent
    <2>2. Served(store.table, flash) => Served(store'.table, flash')
      BY <2>1 DEF Served
    <2> QED BY <2>1, <2>2 DEF AllOnBoard
  <1>5. CASE HostStep
    <2>1. (Still /\ UNCHANGED bootState) \/ (mode = "boot" /\ Settled /\ Callback)
      BY <1>0, <1>5, HostCalls DEF progress, persistent
    <2> QED BY <1>1, <1>4, <2>1
  <1>6. CASE RunApp
    BY <1>4, <1>6, Zenon DEF RunApp, Callback
  <1>7. CASE Interrupt \/ \E i \in Images \union {NoImage} : StartSession(i)
    BY <1>1, <1>7 DEF Interrupt, StartSession, boot, progress, persistent
  <1>8. CASE PowerFails \/ PowerCycle
    BY <1>2, <1>8 DEF PowerFails, PowerFailure, PowerFailureInSector,
            PowerFailureInStore, PowerFailureInReset, Cut, PowerCycle, Restarted
  <1>9. CASE UNCHANGED vars
    BY <1>1, <1>9 DEF vars, boot, progress, persistent
  <1> QED BY <1>3, <1>5, <1>6, <1>7, <1>8, <1>9 DEF LoadNext, Device

LEMMA CallbackAtBeginning ==
  ASSUME Callback, canState = "NO_COMMUNICATION"
  PROVE  canState' \in {"NO_COMMUNICATION", "WAIT_FOR_INFO", "RUN_PROGRAM", "RESET_BOOT"}
  <1>1. CASE \E r \in {"TRANSFER", "RUN", "RESET"} : RxActionRequest(r)
    BY <1>1 DEF RxActionRequest, RxTransferRequest, RxRunRequest, RxResetRequest
  <1>2. CASE ~ \E r \in {"TRANSFER", "RUN", "RESET"} : RxActionRequest(r)
    BY <1>2 DEF Callback, RxTransferProcessInfo, RxLoopInfo, RxData8Bytes, RxCrc8Bytes
  <1> QED BY <1>1, <1>2

\* A failed write leaves a state in which no vector table is received.
LEMMA WriteLeavesState ==
  ASSUME BOOT_WriteAndValidateCurrentSector
  PROVE  \/ Restarted("halted")
         \/ /\ UNCHANGED mode /\ bootState' \in {"LOAD", "ERROR"}
            /\ canState' \in TableStates => bootState' = "LOAD"
  <1>1. bootState = "LOAD" /\ canState = "RECEIVED_8_BYTES_CRC"
    BY DEF BOOT_WriteAndValidateCurrentSector, WriteTurn, In
  <1>2. CASE ~Raised(flash, store.table)
    BY <1>2 DEF BOOT_WriteAndValidateCurrentSector, Halt
  <1>3. CASE Raised(flash, store.table) /\ transfer.sector \notin 1 .. NumSectors
    BY <1>1, <1>3 DEF BOOT_WriteAndValidateCurrentSector, TableStates
  <1>4. CASE Raised(flash, store.table) /\ transfer.sector \in 1 .. NumSectors
    <2>1. Halt \/ \E w : SectorWritten(w) /\ UNCHANGED mode
      BY <1>4 DEF BOOT_WriteAndValidateCurrentSector
    <2>2. ASSUME NEW w, SectorWritten(w)
          PROVE  /\ bootState' \in {"LOAD", "ERROR"}
                 /\ canState' \in TableStates => bootState' = "LOAD"
      BY <1>1, <2>2 DEF SectorWritten, TableStates
    <2> QED BY <2>1, <2>2 DEF Halt
  <1> QED BY <1>2, <1>3, <1>4

LEMMA AgreeStep ==
  ASSUME BootInv, OwnTableInv, AllOnBoard, TableOfOne, StatesAgree, [LoadNext]_vars
  PROVE  StatesAgree'
  <1> DEFINE Still == UNCHANGED <<canState, bootState, mode>>
  <1>0. FlashInv /\ OneImageInv /\ mishaps \in Nat /\ mishaps' >= mishaps /\ mishaps' \in Nat
    BY MishapsStay, TypesStep DEF BootInv, BootTypes
  <1>t. mishaps' = 0 => mishaps = 0
    BY <1>0
  <1>1. CASE Still
    BY <1>t, <1>1 DEF StatesAgree
  <1>2. ASSUME NEW m, Restarted(m) PROVE StatesAgree'
    BY <1>2 DEF Restarted, StatesAgree, TableStates
  <1>3. CASE MainLoop \/ TimeOut
    <2>0. mode = "boot"
      BY <1>3 DEF MainLoop, Wait, BOOT_WriteAndValidateCurrentSector, WriteTurn, Load, Run,
             StoreProgram, StoreTurn, BOOT_ResetBootloader, BOOT_GetBootStateDuringError,
             TimeOut, In
    <2>1. CASE Wait \/ TimeOut
      <3>1. /\ bootState = "WAIT" /\ UNCHANGED <<canState, mode>>
        BY <2>1 DEF Wait, TimeOut, In, processor
      <3>2. canState \in {"NO_COMMUNICATION", "WAIT_FOR_INFO", "RUN_PROGRAM", "RESET_BOOT"}
        BY <3>1 DEF StatesAgree
      <3> QED BY <2>0, <3>1, <3>2 DEF StatesAgree, TableStates
    <2>2. CASE Load
      <3>1. /\ bootState = "LOAD" /\ UNCHANGED <<canState, mode>>
            /\ bootState' \in {"LOAD", "RESET", "ERROR"}
            /\ canState \in TableStates => bootState' = "LOAD"
        BY <2>2 DEF Load, In, processor, LoadStates, TableStates
      <3> QED BY <2>0, <3>1 DEF StatesAgree
    <2>3. CASE Run
      <3>1. \/ Restarted("app") \/ Restarted("halted")
            \/ canState' = "NO_COMMUNICATION" /\ bootState' = "WAIT" /\ UNCHANGED mode
        BY <2>3, Zenon DEF Run, Halt
      <3>2. CASE canState' = "NO_COMMUNICATION" /\ bootState' = "WAIT" /\ UNCHANGED mode
        BY <2>0, <3>2 DEF StatesAgree, TableStates
      <3> QED BY <1>2, <3>1, <3>2
    <2>4. CASE StoreProgram
      <3>1. CASE mishaps' = 0
        BY <1>2, <2>4, <3>1, ProgramIsStored
      <3>2. CASE bootState' = "ERROR" /\ mishaps' # 0 /\ UNCHANGED mode
        BY <2>0, <3>2 DEF StatesAgree
      <3>3. \/ Restarted("boot") \/ Restarted("halted")
            \/ bootState' = "ERROR" /\ UNCHANGED mode
        BY <2>4, Zenon DEF StoreProgram, Halt
      <3> QED BY <1>2, <3>1, <3>2, <3>3
    <2>5. CASE BOOT_ResetBootloader
      <3>1. CASE Restarted("boot") \/ Restarted("halted")
        BY <1>2, <3>1
      <3>2. CASE EraseApp
        <4>1. \/ Restarted("boot")
              \/ canState' = "CLEARED" /\ bootState' = "ERROR" /\ UNCHANGED mode
          BY <3>2, Zenon DEF EraseApp
        <4> QED BY <1>2, <2>0, <4>1 DEF StatesAgree, TableStates
      <3>3. Restarted("boot") \/ Restarted("halted") \/ EraseApp
        <4>1. CASE Refused(ResetStore)
          BY <2>5, <4>1, Zenon DEF BOOT_ResetBootloader, SoftwareReset, Halt
        <4>2. CASE ~Refused(ResetStore) /\ ~Raised(flash, store.table)
          BY <2>5, <4>2 DEF BOOT_ResetBootloader, Halt
        <4>3. CASE ~Refused(ResetStore) /\ Raised(flash, store.table)
          <5>1. PICK w \in Outcomes(store, ResetStore, TornStores(ResetStore)) :
              CASE ~w.ok -> /\ SoftwareReset(Served(w.left.table, flash))
                            /\ Mishap /\ UNCHANGED flash
                [] w.ok /\ ~Served(w.left.table, flash) ->
                     Halt /\ UNCHANGED <<flash, mishaps>>
                [] w.ok /\ Served(w.left.table, flash) -> EraseApp
            BY <2>5, <4>3, Zenon DEF BOOT_ResetBootloader
          <5>2. CASE ~w.ok
            BY <5>1, <5>2, Zenon DEF SoftwareReset, Halt
          <5>3. CASE w.ok
            BY <5>1, <5>3 DEF Halt
          <5> QED BY <5>2, <5>3
        <4> QED BY <4>1, <4>2, <4>3
      <3> QED BY <3>1, <3>2, <3>3
    <2>6. CASE BOOT_GetBootStateDuringError
      BY <2>0, <2>6 DEF BOOT_GetBootStateDuringError, processor, StatesAgree, TableStates
    <2>7. CASE BOOT_WriteAndValidateCurrentSector
      <3>1. CASE /\ UNCHANGED mode /\ bootState' \in {"LOAD", "ERROR"}
                 /\ canState' \in TableStates => bootState' = "LOAD"
        BY <2>0, <3>1 DEF StatesAgree
      <3> QED BY <1>2, <2>7, <3>1, WriteLeavesState
    <2> QED BY <1>3, <2>1, <2>2, <2>3, <2>4, <2>5, <2>6, <2>7 DEF MainLoop
  <1>4. CASE mode = "boot" /\ Settled /\ Callback
    <2>1. /\ UNCHANGED <<bootState, mode>>
          /\ canState' \in TableStates => canState \in TableStates
      BY <1>0, <1>4, CallbackTables DEF processor, OneImageInv
    <2>2. bootState \in {"WAIT", "RUN"} =>
            canState' \in {"NO_COMMUNICATION", "WAIT_FOR_INFO", "RUN_PROGRAM", "RESET_BOOT"}
      BY <1>4, CallbackAtBeginning DEF Settled
    <2> QED BY <1>t, <1>4, <2>1, <2>2 DEF StatesAgree
  <1>5. CASE HostStep
    <2>1. Still \/ (mode = "boot" /\ Settled /\ Callback)
      BY <1>0, <1>5, HostCalls DEF processor
    <2> QED BY <1>1, <1>4, <2>1
  <1>6. CASE RunApp
    BY <1>4, <1>6, Zenon DEF RunApp, Callback
  <1>7. CASE Interrupt \/ \E i \in Images \union {NoImage} : StartSession(i)
    BY <1>1, <1>7 DEF Interrupt, StartSession, boot, processor
  <1>8. CASE PowerFails \/ PowerCycle
    BY <1>2, <1>8 DEF PowerFails, PowerFailure, PowerFailureInSector,
            PowerFailureInStore, PowerFailureInReset, Cut, PowerCycle
  <1>9. CASE UNCHANGED vars
    BY <1>1, <1>9 DEF vars, boot, processor
  <1> QED BY <1>3, <1>5, <1>6, <1>7, <1>8, <1>9 DEF LoadNext, Device

\* The record is written in two steps of the main loop.
LEMMA StoreStays ==
  ASSUME [LoadNext]_vars, ~StoreProgram, ~BOOT_ResetBootloader, ~PowerFails
  PROVE  UNCHANGED store
  <1>1. CASE MainLoop \/ TimeOut
    BY <1>1 DEF MainLoop, TimeOut, Wait, BOOT_WriteAndValidateCurrentSector, Load, Run,
                BOOT_GetBootStateDuringError, persistent
  <1>2. CASE HostStep
    BY <1>2, HostLeaves DEF persistent
  <1>3. CASE Interrupt \/ RunApp \/ \E i \in Images \union {NoImage} : StartSession(i)
    BY <1>3 DEF Interrupt, RunApp, StartSession, RxActionRequest, boot, persistent
  <1>4. CASE PowerCycle
    BY <1>4 DEF PowerCycle, persistent
  <1>5. CASE UNCHANGED vars
    BY <1>5 DEF vars, boot, persistent
  <1> QED BY <1>1, <1>2, <1>3, <1>4, <1>5 DEF LoadNext, Device

LEMMA TableOfOneStep ==
  ASSUME BootInv, OwnTableInv, AllOnBoard, TableOfOne, [LoadNext]_vars
  PROVE  TableOfOne'
  <1> SUFFICES ASSUME mishaps' = 0
               PROVE  \E x \in Images \union {Own} : store'.table = TableOf(x)
    BY DEF TableOfOne, TableOf
  <1>0. mishaps = 0 /\ ~PowerFails
    BY MishapsStay, TypesStep DEF BootInv, BootTypes
  <1>1. CASE StoreProgram
    BY <1>1, ProgramIsStored DEF ProgramStore
  <1>2. CASE BOOT_ResetBootloader
    BY <1>2, ResetIsStored
  <1>3. CASE UNCHANGED store
    BY <1>0, <1>3 DEF TableOfOne
  <1> QED BY <1>0, <1>1, <1>2, <1>3, StoreStays

-----------------------------------------------------------------------------
(* Acknowledgements *)

\* No answer to the message, and no agreement, that was not there before.
NoneNew(message) ==
    (NoneOf(message) => NoneOf(message)') /\ (~Yes(message) => ~Yes(message)')

\* A step that acknowledges at most a message of one of the kinds.
Acknowledges(kinds) ==
    acks' = acks \/ \E a \in Acks : a.message \in kinds /\ acks' = Append(acks, a)

LEMMA NothingAcknowledged ==
  ASSUME acks' = <<>>
  PROVE  \A m : NoneOf(m)' /\ ~Yes(m)'
  <1>1. Len(acks') = 0
    <2>1. <<>> \in Seq({})
      OBVIOUS
    <2> QED BY <2>1, EmptySeq
  <1>2. \A k : k \notin 1 .. Len(acks')
    BY <1>1
  <1> QED BY <1>2 DEF NoneOf, Yes, Answers

LEMMA AcksStay ==
  ASSUME UNCHANGED acks
  PROVE  \A m : NoneNew(m)
  BY DEF NoneNew, NoneOf, Yes, Answers

LEMMA AcknowledgedIsTyped ==
  ASSUME AcksTyped, NEW kinds, Acknowledges(kinds)
  PROVE  AcksTyped'
  BY DEF AcksTyped, Acknowledges

\* What is appended is an answer to its own message only.
LEMMA AppendedAnswer ==
  ASSUME AcksTyped, NEW a \in Acks, acks' = Append(acks, a), NEW m,
         a.message # m
  PROVE  NoneNew(m)
  <1>1. /\ Len(acks) \in Nat /\ Len(acks') = Len(acks) + 1
        /\ acks'[Len(acks) + 1] = a
        /\ \A k \in 1 .. Len(acks) : acks'[k] = acks[k]
    BY DEF AcksTyped
  <1>2. Answers(m)' = {k \in 1 .. Len(acks') : acks'[k].message = m}
    BY DEF Answers
  <1>3. ASSUME NEW k \in Answers(m)' PROVE k \in Answers(m) /\ acks'[k] = acks[k]
    BY <1>1, <1>2, <1>3 DEF Answers
  <1>4. NoneOf(m) => NoneOf(m)'
    BY <1>3 DEF NoneOf
  <1>5. ~Yes(m) => ~Yes(m)'
    BY <1>3 DEF Yes
  <1> QED BY <1>4, <1>5 DEF NoneNew

LEMMA OtherAcknowledged ==
  ASSUME AcksTyped, NEW kinds, Acknowledges(kinds), NEW m, m \notin kinds
  PROVE  NoneNew(m)
  BY AppendedAnswer, AcksStay DEF Acknowledges

\* An answer that is taken takes those before it.
LEMMA AnswerTaken ==
  ASSUME AcksTyped, NEW message, Answered(message)
  PROVE  AcksTyped' /\ \A m : NoneNew(m)
  <1>1. PICK n \in 1 .. Len(acks) : acks' = SubSeq(acks, n + 1, Len(acks))
    BY DEF Answered, Answers
  <1>2. /\ AcksTyped' /\ Len(acks) \in Nat /\ Len(acks') = Len(acks) - n
        /\ \A k \in 1 .. Len(acks) - n : acks'[k] = acks[k + n]
    BY <1>1 DEF AcksTyped
  <1>3. ASSUME NEW m PROVE NoneNew(m)
    <2>1. Answers(m)' = {k \in 1 .. Len(acks') : acks'[k].message = m}
      BY DEF Answers
    <2>2. ASSUME NEW k \in Answers(m)'
          PROVE  k + n \in Answers(m) /\ acks'[k] = acks[k + n]
      BY <1>1, <1>2, <2>1, <2>2 DEF Answers
    <2>3. NoneOf(m) => NoneOf(m)'
      BY <2>2 DEF NoneOf
    <2>4. ~Yes(m) => ~Yes(m)'
      BY <2>2 DEF Yes
    <2> QED BY <2>3, <2>4 DEF NoneNew
  <1> QED BY <1>2, <1>3

LEMMA SentAcknowledges ==
  ASSUME NEW a \in Acks, NEW kinds, a.message \in kinds, Send(a)
  PROVE  Acknowledges(kinds)
  BY DEF Send, Lose, Acknowledges

LEMMA AckIsTyped ==
  ASSUME NEW m \in Messages, NEW yes \in BOOLEAN
  PROVE  Ack(m, yes) \in Acks /\ Ack(m, yes).message = m /\ Ack(m, yes).yes = yes
  BY DEF Ack, Acks

\* A request to reset is acknowledged when it is taken.
LEMMA ResetAnswered ==
  ASSUME RxActionRequest("RESET")
  PROVE  Acknowledges({"RESET"}) /\ canState' = "RESET_BOOT"
  <1>1. RxResetRequest
    BY DEF RxActionRequest
  <1> QED BY <1>1, AckIsTyped, SentAcknowledges DEF RxResetRequest, Messages

LEMMA OthersAnswered ==
  ASSUME \/ RxActionRequest("TRANSFER") \/ RxActionRequest("RUN")
         \/ \E n \in Nat : RxTransferProcessInfo(n)
         \/ \E n : RxLoopInfo(n)
         \/ \E word : RxData8Bytes(word)
  PROVE  Acknowledges({"TRANSFER", "INFO", "SUB_SECTOR", "TABLE"})
  <1> DEFINE kinds == {"TRANSFER", "INFO", "SUB_SECTOR", "TABLE"}
  <1> SUFFICES Acknowledges(kinds)
    OBVIOUS
  <1>1. ASSUME NEW m \in kinds, NEW yes \in BOOLEAN, Send(Ack(m, yes))
        PROVE  Acknowledges(kinds)
    BY <1>1, AckIsTyped, SentAcknowledges DEF Messages
  <1>2. Silent => Acknowledges(kinds)
    BY DEF Silent, bus, Acknowledges
  <1> HIDE DEF kinds
  <1>k. "TRANSFER" \in kinds /\ "INFO" \in kinds /\ "SUB_SECTOR" \in kinds /\ "TABLE" \in kinds
    BY DEF kinds
  <1>3. CASE RxActionRequest("TRANSFER")
    <2>1. RxTransferRequest
      BY <1>3 DEF RxActionRequest
    <2> QED BY <1>1, <1>2, <1>k, <2>1 DEF RxTransferRequest
  <1>4. CASE RxActionRequest("RUN")
    <2>1. RxRunRequest
      BY <1>4 DEF RxActionRequest
    <2> QED BY <1>2, <2>1 DEF RxRunRequest
  <1>5. ASSUME NEW n \in Nat, RxTransferProcessInfo(n) PROVE Acknowledges(kinds)
    <2>1. (n <= Total) \in BOOLEAN
      <3>1. (n <= Total) = TRUE \/ (n <= Total) = FALSE
        BY SMT
      <3> QED BY <3>1, Zenon
    <2>2. Send(Ack("INFO", n <= Total)) \/ Silent
      BY <1>5, Zenon DEF RxTransferProcessInfo
    <2> QED BY <1>1, <1>2, <1>k, <2>1, <2>2, Zenon
  <1>6. CASE \E n : RxLoopInfo(n)
    BY <1>2, <1>6 DEF RxLoopInfo
  <1>7. ASSUME NEW word, RxData8Bytes(word) PROVE Acknowledges(kinds)
    <2>1. CASE RxTableWord(word)
      BY <1>1, <1>2, <1>k, <2>1 DEF RxTableWord
    <2>2. CASE RxProgramWord(word)
      <3>1. Silent \/ Send(Ack("SUB_SECTOR", TRUE)) \/ Send(Ack("SUB_SECTOR", FALSE))
        BY <2>2 DEF RxProgramWord
      <3> QED BY <1>1, <1>2, <1>k, <3>1
    <2> QED BY <1>2, <1>7, <2>1, <2>2 DEF RxData8Bytes
  <1> QED BY <1>3, <1>4, <1>5, <1>6, <1>7

\* A vector table is agreed to when its CRC is that of what was received.
LEMMA CrcAnswered ==
  ASSUME NEW crc, RxCrc8Bytes(crc)
  PROVE  /\ Acknowledges({"TABLE_CRC"})
         /\ \/ acks' = acks
            \/ \E a \in Acks : acks' = Append(acks, a) /\ a.yes = FALSE
            \/ /\ canState = "FINISHED_TRANSFER_VECTOR_TABLE"
               /\ canState' = "VALIDATED_VECTOR_TABLE" /\ crc = transfer.table
  <1>1. CASE canState = "FINISHED_TRANSFER_VECTOR_TABLE"
    <2>1. RxTableCrc(crc)
      BY <1>1 DEF RxCrc8Bytes
    <2>2. \/ /\ canState' = "VALIDATED_VECTOR_TABLE" /\ crc = transfer.table
             /\ Send(Ack("TABLE_CRC", TRUE))
          \/ Send(Ack("TABLE_CRC", FALSE))
      BY <2>1 DEF RxTableCrc
    <2>3. /\ Ack("TABLE_CRC", TRUE) \in Acks /\ Ack("TABLE_CRC", FALSE) \in Acks
          /\ Ack("TABLE_CRC", FALSE).yes = FALSE
          /\ Ack("TABLE_CRC", TRUE).message = "TABLE_CRC"
          /\ Ack("TABLE_CRC", FALSE).message = "TABLE_CRC"
      BY AckIsTyped DEF Messages
    <2>4. Acknowledges({"TABLE_CRC"})
      BY <2>2, <2>3, SentAcknowledges
    <2> QED BY <1>1, <2>2, <2>3, <2>4 DEF Send, Lose
  <1>2. CASE canState # "FINISHED_TRANSFER_VECTOR_TABLE"
    <2>1. UNCHANGED acks
      BY <1>2 DEF RxCrc8Bytes, RxSectorCrc, Silent, bus
    <2> QED BY <2>1 DEF Acknowledges
  <1> QED BY <1>1, <1>2

\* The main loop acknowledges nothing but sectors.
LEMMA DeviceAnswers ==
  ASSUME MainLoop \/ TimeOut
  PROVE  Acknowledges({"CRC"})
  <1>1. UNCHANGED acks => Acknowledges({"CRC"})
    BY DEF Acknowledges
  <1>2. CASE BOOT_WriteAndValidateCurrentSector
    <2>1. ASSUME NEW w, SectorWritten(w) PROVE Acknowledges({"CRC"})
      <3>1. PICK good \in BOOLEAN : Send(Ack("CRC", good))
        BY <2>1, Zenon DEF SectorWritten
      <3> QED BY <3>1, AckIsTyped, SentAcknowledges DEF Messages
    <2>2. UNCHANGED acks \/ \E w : SectorWritten(w)
      BY <1>2 DEF BOOT_WriteAndValidateCurrentSector, bus
    <2> QED BY <1>1, <2>1, <2>2
  <1>3. CASE Wait \/ TimeOut \/ StoreProgram \/ Load \/ Run \/ BOOT_ResetBootloader
             \/ BOOT_GetBootStateDuringError
    BY <1>1, <1>3 DEF Wait, TimeOut, StoreProgram, Load, Run, BOOT_ResetBootloader,
                      BOOT_GetBootStateDuringError, bus
  <1> QED BY <1>2, <1>3 DEF MainLoop

-----------------------------------------------------------------------------
(* What the host reports *)

LEMMA AppendedNo ==
  ASSUME AcksTyped, NEW a \in Acks, acks' = Append(acks, a), a.yes = FALSE, NEW m, ~Yes(m)
  PROVE  ~Yes(m)'
  <1>1. /\ Len(acks) \in Nat /\ Len(acks') = Len(acks) + 1
        /\ acks'[Len(acks) + 1] = a
        /\ \A k \in 1 .. Len(acks) : acks'[k] = acks[k]
    BY DEF AcksTyped
  <1>2. ASSUME NEW k \in 1 .. Len(acks'), acks'[k].message = m, acks'[k].yes
        PROVE  FALSE
    <2>1. CASE k = Len(acks) + 1
      BY <1>1, <1>2, <2>1
    <2>2. CASE k \in 1 .. Len(acks)
      BY <1>1, <1>2, <2>2 DEF Yes, Answers
    <2> QED BY <1>1, <2>1, <2>2
  <1> QED BY <1>2 DEF Yes, Answers

AgreesNot == ~Yes("TABLE_CRC") => ~Yes("TABLE_CRC")'

\* Nobody but the last message of a session can be answered with an agreement to
\* the vector table.
LEMMA HostAnswers ==
  ASSUME FillsFlash, FlashInv, OneImageInv, AcksTyped, HostStep
  PROVE  AcksTyped' /\ (AgreesNot \/ SendTableCrc)
  <1> DEFINE others == {"TRANSFER", "INFO", "SUB_SECTOR", "TABLE"}
  <1>1. ASSUME Acknowledges({"RESET"}) \/ Acknowledges(others)
        PROVE  AcksTyped' /\ AgreesNot
    <2>1. PICK kinds : Acknowledges(kinds) /\ "TABLE_CRC" \notin kinds
      BY <1>1
    <2> QED BY <2>1, AcknowledgedIsTyped, OtherAcknowledged DEF AgreesNot, NoneNew
  <1>2. UNCHANGED acks => Acknowledges(others)
    BY DEF Acknowledges
  <1>3. (\E kind : Lose(kind)) \/ UNCHANGED boot => UNCHANGED acks
    BY DEF Lose, boot, bus
  <1>4. (\E m : Answered(m)) => AcksTyped' /\ AgreesNot
    BY AnswerTaken DEF AgreesNot, NoneNew
  <1>5. acks' = <<>> => AcksTyped' /\ AgreesNot
    BY NothingAcknowledged DEF AgreesNot, AcksTyped
  <1> HIDE DEF others
  <1>6. CASE Reset
    BY <1>1, <1>2, <1>3, <1>6, ResetAnswered, Zenon DEF Reset, SendRequest, Sent
  <1>7. CASE Transfer
    BY <1>1, <1>2, <1>3, <1>7, OthersAnswered, Zenon DEF Transfer, SendRequest, Sent, others
  <1>8. CASE SendInfo
    <2>1. image \in Images
      BY <1>8 DEF SendInfo, OneImageInv, ReceivedFromHost, Loading
    <2>2. Loops[image] \in Nat
      BY <2>1 DEF FillsFlash
    <2> QED BY <1>1, <1>2, <1>3, <1>8, <2>2, OthersAnswered, Zenon DEF SendInfo, Sent, others
  <1>9. CASE SendNumber \/ SendData \/ SendTableWord
    BY <1>1, <1>2, <1>3, <1>9, OthersAnswered, Zenon
       DEF SendNumber, SendData, SendTableWord, Sent, others
  <1>10. CASE SendCrc
    <2>1. PICK crc \in {SubSeq(ProgramOf(image), 1, n) : n \in Nat} :
            Sent(RxCrc8Bytes(crc), "other")
      <3>1. SubSeq(ProgramOf(image), 1, (loop - 1) \div SectorLoops)
              \in {SubSeq(ProgramOf(image), 1, n) : n \in Nat}
        BY DEF FlashInv, HostTypes
      <3> QED BY <1>10, <3>1 DEF SendCrc
    <2>2. crc \notin Tables
      <3>1. image \in Images
        BY <1>10 DEF SendCrc, OneImageInv, ReceivedFromHost, Loading
      <3> QED BY <2>1, <3>1, SectorsAreNoTable
    <2>3. ASSUME RxCrc8Bytes(crc) PROVE AcksTyped' /\ AgreesNot
      <3>1. Acknowledges({"TABLE_CRC"})
        BY <2>3, CrcAnswered
      <3>2. acks' = acks \/ \E a \in Acks : acks' = Append(acks, a) /\ a.yes = FALSE
        <4>1. crc # transfer.table
          BY <2>2 DEF OneImageInv
        <4> QED BY <2>3, <4>1, CrcAnswered
      <3> QED BY <1>1, <1>2, <3>1, <3>2, AcknowledgedIsTyped, AppendedNo DEF AgreesNot
    <2> QED BY <1>1, <1>2, <1>3, <2>1, <2>3, Zenon DEF Sent
  <1>11. CASE SendTableCrc
    <2>1. UNCHANGED acks \/ Acknowledges({"TABLE_CRC"})
      BY <1>3, <1>11, CrcAnswered, Zenon DEF SendTableCrc, Sent
    <2> QED BY <1>1, <1>2, <1>11, <2>1, AcknowledgedIsTyped
  <1>12. CASE ResetPoll
    BY <1>1, <1>2, <1>12 DEF ResetPoll
  <1>13. CASE ResetAck \/ TransferAck \/ InfoAck \/ SubSectorAck \/ CrcAck \/ TableAck
              \/ TableCrcAck
    <2>1. (\E m : Answered(m)) \/ acks' = <<>>
      BY <1>13, Zenon DEF ResetAck, TransferAck, InfoAck, SubSectorAck, CrcAck, TableAck,
                          TableCrcAck, Unanswered
    <2> QED BY <1>4, <1>5, <2>1
  <1> QED BY <1>6, <1>7, <1>8, <1>9, <1>10, <1>11, <1>12, <1>13 DEF HostStep

LEMMA AcksStep ==
  ASSUME FillsFlash, FlashInv, OneImageInv, AcksTyped, [LoadNext]_vars
  PROVE  AcksTyped'
  <1>1. CASE UNCHANGED acks
    BY <1>1 DEF AcksTyped
  <1>2. CASE Device
    BY <1>2, DeviceAnswers, AcknowledgedIsTyped DEF Device
  <1>3. CASE RunApp
    BY <1>3, OthersAnswered, AcknowledgedIsTyped, Zenon DEF RunApp
  <1>4. CASE Interrupt
    BY <1>1, <1>4 DEF Interrupt, boot, bus
  <1>5. CASE \E i \in Images \union {NoImage} : StartSession(i)
    BY <1>5 DEF StartSession, AcksTyped
  <1>6. CASE PowerFails \/ PowerCycle
    BY <1>1, <1>6 DEF PowerFails, PowerFailure, PowerFailureInSector, PowerFailureInStore,
                      PowerFailureInReset, Cut, PowerCycle, bus
  <1>7. CASE UNCHANGED vars
    BY <1>1, <1>7 DEF vars, boot, bus
  <1> QED BY <1>2, <1>3, <1>4, <1>5, <1>6, <1>7, HostAnswers DEF LoadNext

LEMMA AttemptsStep ==
  ASSUME AttemptsLeft, [LoadNext]_vars
  PROVE  AttemptsLeft'
  <1>0. Attempts \in Nat /\ 0 < Attempts
    BY HostAssumption DEF HostAssumption
  <1>1. CASE UNCHANGED attempts /\ (host' \notin Over => host \notin Over)
    BY <1>1 DEF AttemptsLeft
  <1>2. ASSUME AttemptFailed, host \notin Over PROVE AttemptsLeft'
    <2>1. /\ attempts' = attempts + 1
          /\ attempts + 1 = Attempts => host' = "failed"
          /\ attempts + 1 < Attempts \/ attempts + 1 = Attempts
      BY <1>0, <1>2 DEF AttemptFailed, AttemptsLeft
    <2> QED BY <1>0, <1>2, <2>1 DEF AttemptsLeft, Over
  <1>3. CASE HostStep
    <2>1. host \notin Over
      BY <1>3 DEF HostStep, Reset, ResetAck, ResetPoll, Transfer, TransferAck, SendInfo,
             InfoAck, SendNumber, SendData, SubSectorAck, SendCrc, CrcAck, SendTableWord,
             TableAck, SendTableCrc, TableCrcAck, SendRequest, Over
    <2>2. UNCHANGED attempts \/ AttemptFailed
      <3>1. CASE Reset \/ Transfer \/ SendInfo \/ SendNumber \/ SendCrc \/ SendTableCrc
        BY <3>1 DEF Reset, Transfer, SendRequest, SendInfo, SendNumber, SendCrc, SendTableCrc,
                    counters
      <3>2. CASE ResetAck \/ ResetPoll \/ TransferAck \/ InfoAck
        BY <3>2 DEF ResetAck, ResetPoll, TransferAck, InfoAck, counters
      <3>3. CASE SendData \/ SendTableWord
        BY <3>3 DEF SendData, SendTableWord
      <3>4. CASE SubSectorAck \/ CrcAck \/ TableAck \/ TableCrcAck
        BY <3>4 DEF SubSectorAck, CrcAck, TableAck, TableCrcAck, counters
      <3> QED BY <1>3, <3>1, <3>2, <3>3, <3>4 DEF HostStep
    <2> QED BY <1>1, <1>2, <2>1, <2>2
  <1>4. CASE \E i \in Images \union {NoImage} : StartSession(i)
    BY <1>0, <1>4 DEF StartSession, AttemptsLeft
  <1>5. CASE Interrupt
    BY <1>1, <1>5 DEF Interrupt, counters, Over
  <1>6. CASE UNCHANGED program
    BY <1>1, <1>6 DEF program, counters
  <1> QED BY <1>3, <1>4, <1>5, <1>6 DEF LoadNext, Device, RunApp, vars

\* Until the main loop has done what was acknowledged, and afterwards.
BootKeeps ==
    /\ ResetTaken => ResetTaken'
    /\ QuietBoot /\ ~Validated => QuietBoot' /\ ~Validated'
    /\ \A i \in Images : Stored(i) => Stored(i)'

LEMMA ValidStays ==
  ASSUME UNCHANGED <<flash, store>>
  PROVE  Validated' = Validated
  BY DEF Validated, Loaded

LEMMA UnchangedKeeps ==
  ASSUME UNCHANGED <<canState, bootState, transfer, flash, store, mode>>
  PROVE  BootKeeps
  BY ValidStays DEF BootKeeps, ResetTaken, QuietBoot, Stored, ToBeStored, StoredIs

LEMMA ProgramIsValid ==
  ASSUME BootInv, OwnTableInv, AllOnBoard, StoreProgram, mishaps' = 0,
         NEW i, ToBeStored(i)
  PROVE  StoredIs(i)'
  <1>1. /\ store' = ProgramStore /\ UNCHANGED flash
        /\ Restarted("boot") \/ Restarted("halted")
    BY ProgramIsStored
  <1>2. transfer.crc = flash /\ transfer.table = transfer.tableCrc
    BY DEF ToBeStored, AllOnBoard, TableStates
  <1>3. /\ store'.magic = TRUE /\ store'.available = TRUE /\ store'.crc = flash
        /\ store'.tableCrc = transfer.table /\ store'.table = transfer.table
    BY <1>1, <1>2 DEF ProgramStore
  <1>4. Loaded' = store'
    BY <1>3 DEF Loaded
  <1>5. Validated'
    <2>1. Loaded'.available
      BY <1>3, <1>4, Zenon
    <2> QED BY <1>1, <1>3, <1>4, <2>1 DEF Validated
  <1>6. QuietBoot'
    BY <1>1, ProgramIsStored DEF Restarted, QuietBoot
  <1> QED BY <1>1, <1>3, <1>5, <1>6 DEF ToBeStored, StoredIs, ProgramOf, SectorOf, TableOf

LEMMA DeviceKeeps ==
  ASSUME BootInv, OwnTableInv, StatesAgree, AllOnBoard, TableOfOne, mishaps' = 0,
         MainLoop \/ TimeOut
  PROVE  BootKeeps
  <1> USE DEF BootKeeps
  <1>0. mode = "boot"
    BY DEF MainLoop, Wait, BOOT_WriteAndValidateCurrentSector, WriteTurn, Load, Run,
           StoreProgram, StoreTurn, BOOT_ResetBootloader, BOOT_GetBootStateDuringError,
           TimeOut, In
  <1>1. CASE Wait \/ TimeOut
    <2>0. /\ bootState = "WAIT" /\ UNCHANGED <<canState, flash, store, mode>>
          /\ bootState' \in {"RUN", BOOT_GetBootState}
      BY <1>1 DEF Wait, TimeOut, In, persistent, processor
    <2>1. QuietBoot => QuietBoot'
      <3>1. CASE canState = "NO_COMMUNICATION"
        <4>1. BOOT_GetBootState = "WAIT"
          BY <3>1 DEF BOOT_GetBootState, LoadStates
        <4> QED BY <2>0, <3>1, <4>1 DEF QuietBoot
      <3>2. CASE canState = "RUN_PROGRAM"
        <4>1. BOOT_GetBootState = "RUN"
          BY <3>2 DEF BOOT_GetBootState, LoadStates
        <4> QED BY <2>0, <3>2, <4>1 DEF QuietBoot
      <3> QED BY <3>1, <3>2 DEF QuietBoot
    <2> QED BY <1>0, <2>0, <2>1, ValidStays DEF ResetTaken, Stored, ToBeStored, StoredIs
  <1>2. CASE Load \/ BOOT_GetBootStateDuringError
    <2>1. /\ bootState \notin {"WAIT", "RUN"} /\ UNCHANGED canState
          /\ bootState = "LOAD" => canState # "VALIDATED_VECTOR_TABLE"
      BY <1>2 DEF Load, BOOT_GetBootStateDuringError, In
    <2> QED BY <2>1 DEF ResetTaken, QuietBoot, Stored, ToBeStored, StoredIs
  <1>3. CASE BOOT_WriteAndValidateCurrentSector
    <2>1. bootState = "LOAD" /\ canState = "RECEIVED_8_BYTES_CRC"
      BY <1>3 DEF BOOT_WriteAndValidateCurrentSector, WriteTurn, In
    <2> QED BY <2>1 DEF ResetTaken, QuietBoot, Stored, ToBeStored, StoredIs
  <1>4. CASE StoreProgram
    <2>1. bootState = "LOAD" /\ canState = "VALIDATED_VECTOR_TABLE"
      BY <1>4 DEF StoreProgram, StoreTurn, In
    <2> QED BY <1>4, <2>1, ProgramIsValid DEF ResetTaken, QuietBoot, Stored, StoredIs
  <1>5. CASE Run
    <2>1. bootState = "RUN" /\ UNCHANGED <<flash, store>>
      BY <1>5 DEF Run, In, persistent
    <2>2. \/ Restarted("app") \/ Restarted("halted")
          \/ /\ ~Validated /\ canState' = "NO_COMMUNICATION" /\ bootState' = "WAIT"
             /\ UNCHANGED mode
      BY <1>5, Zenon DEF Run, Halt
    <2>3. QuietBoot'
      BY <2>2 DEF Restarted, QuietBoot
    <2>4. mode' = "boot" => ~Validated
      BY <2>2 DEF Restarted
    <2>5. Validated' = Validated
      BY <2>1, ValidStays
    <2> QED BY <2>1, <2>3, <2>4, <2>5 DEF ResetTaken, Stored, ToBeStored, StoredIs
  <1>6. CASE BOOT_ResetBootloader
    <2>1. bootState = "RESET"
      BY <1>6 DEF BOOT_ResetBootloader, In
    <2>2. QuietBoot' /\ (mode' = "boot" => ~Validated')
      BY <1>6, ResetIsStored DEF Restarted, QuietBoot
    <2> QED BY <2>1, <2>2 DEF ResetTaken, QuietBoot, Stored, ToBeStored, StoredIs
  <1> QED BY <1>1, <1>2, <1>3, <1>4, <1>5, <1>6 DEF MainLoop

\* What else happens while the host program does not run.
LEMMA OverKeeps ==
  ASSUME StatesAgree, RunApp \/ PowerCycle
  PROVE  /\ QuietBoot /\ ~Validated => QuietBoot' /\ ~Validated'
         /\ \A i \in Images : Stored(i) => Stored(i)'
  <1>1. CASE RunApp
    <2>1. /\ UNCHANGED <<bootState, transfer, flash, store>> /\ mode = "boot"
          /\ canState' \in {canState, "RUN_PROGRAM"} /\ Settled
      BY <1>1 DEF RunApp, RxActionRequest, RxRunRequest, progress, persistent
    <2>2. QuietBoot => QuietBoot'
      BY <2>1 DEF QuietBoot
    <2>3. \A i : ~ToBeStored(i)
      BY <2>1 DEF Settled, ToBeStored
    <2> QED BY <2>1, <2>2, <2>3, ValidStays DEF Stored, StoredIs
  <1>2. CASE PowerCycle
    <2>1. QuietBoot' /\ UNCHANGED <<flash, store>> /\ mode # "boot"
      BY <1>2 DEF PowerCycle, Restarted, persistent, QuietBoot
    <2>2. \A i : ~ToBeStored(i)
      BY <2>1 DEF StatesAgree, ToBeStored
    <2> QED BY <2>1, <2>2, ValidStays DEF Stored, StoredIs
  <1> QED BY <1>1, <1>2

\* The steps of the host.
LEMMA HostToldRight ==
  ASSUME FillsFlash, BootInv, StatesAgree, AllOnBoard, AcksTyped, AttemptsLeft,
         mishaps = 0, ToldRight, HostStep
  PROVE  ToldRight'
  <1> DEFINE NothingNew == UNCHANGED <<canState, bootState, transfer, flash, store, mode>>
  <1>0. /\ AgreesNot \/ SendTableCrc
        /\ FlashInv /\ OneImageInv /\ HostTypes
        /\ UNCHANGED <<bootState, mode, flash, store, image>>
    BY HostAnswers, HostLeaves DEF BootInv, FlashInv, persistent
  <1>w. Waited => NothingNew
    BY <1>0 DEF Waited, progress
  <1>k. NothingNew => BootKeeps
    BY UnchangedKeeps
  <1> DEFINE Silence == host \notin Over \union {"tableCrcAck"} => ~Yes("TABLE_CRC")
  <1>1. ASSUME AgreesNot, host \notin Over \union {"tableCrcAck"},
               host' \notin {"reset", "resetAck", "resetPoll", "tableCrcAck", "done"}
        PROVE  ToldRight'
    BY <1>1 DEF ToldRight, AgreesNot
  <1>2. CASE Reset
    <2>1. /\ host = "reset" /\ host' = "resetAck" /\ NoneOf("RESET") /\ AgreesNot
      BY <1>0, <1>2 DEF Reset, SendRequest, SendTableCrc, ToldRight
    <2>2. canState' = "RESET_BOOT" \/ UNCHANGED acks
      BY <1>2, ResetAnswered, Zenon DEF Reset, SendRequest, Sent, Lose, boot, bus
    <2>3. NoneOf("RESET")' \/ ResetTaken'
      BY <2>1, <2>2, AcksStay DEF NoneNew, ResetTaken
    <2> QED BY <2>1, <2>3 DEF ToldRight, AgreesNot, Over
  <1>3. CASE ResetAck
    <2>1. /\ host = "resetAck" /\ host' \in {"resetPoll", "refused"} /\ NothingNew
          /\ AgreesNot
      BY <1>0, <1>3, <1>w DEF ResetAck, SendTableCrc
    <2>2. host' = "resetPoll" => ResetTaken'
      <3>1. host' = "resetPoll" => ~NoneOf("RESET")
        BY <1>3 DEF ResetAck, Answered, NoneOf
      <3> QED BY <1>k, <2>1, <3>1 DEF ToldRight, BootKeeps
    <2> QED BY <2>1, <2>2 DEF ToldRight, AgreesNot, Over
  <1>4. CASE ResetPoll
    <2>1. /\ host = "resetPoll" /\ NothingNew /\ AgreesNot /\ ResetTaken
      BY <1>0, <1>4, <1>w DEF ResetPoll, SendTableCrc, ToldRight
    <2>2. CASE AtBeginning /\ image = NoImage
      <3>1. host' = "done" /\ image' = NoImage
        BY <1>0, <1>4, <2>2 DEF ResetPoll
      <3>2. QuietBoot /\ ~Validated
        BY <2>1, <2>2 DEF AtBeginning, ResetTaken
      <3> QED BY <1>k, <2>1, <3>1, <3>2 DEF ToldRight, BootKeeps, Over
    <2>3. CASE ~AtBeginning
      <3>1. host' = "refused"
        BY <1>4, <2>3 DEF ResetPoll
      <3> QED BY <3>1 DEF ToldRight, Over
    <2>4. CASE AtBeginning /\ image # NoImage
      <3>1. host' = "transfer"
        BY <1>4, <2>4 DEF ResetPoll
      <3> QED BY <1>1, <2>1, <3>1 DEF Over
    <2> QED BY <2>2, <2>3, <2>4
  <1>5. CASE Transfer \/ TransferAck \/ SendInfo \/ InfoAck \/ SendNumber \/ SendData
             \/ SendCrc \/ SendTableWord
    <2>1. /\ host \notin Over \union {"tableCrcAck", "tableCrc"}
          /\ host' \notin {"reset", "resetAck", "resetPoll", "tableCrcAck", "done"}
      BY <1>5 DEF Transfer, SendRequest, TransferAck, SendInfo, InfoAck, SendNumber,
                  SendData, SendCrc, SendTableWord, Over
    <2> QED BY <1>0, <1>1, <2>1 DEF SendTableCrc
  <1>f. AttemptFailed /\ host \notin Over => host' \in {"failed", "table", "number"}
    <2>1. SUFFICES ASSUME AttemptFailed, host \notin Over
                   PROVE  host' \in {"failed", "table", "number"}
      OBVIOUS
    <2>2. attempts + 1 < Attempts \/ attempts + 1 = Attempts
      BY <2>1, HostAssumption DEF AttemptsLeft, HostAssumption
    <2> QED BY <2>1, <2>2 DEF AttemptFailed
  <1>6. CASE SubSectorAck \/ CrcAck \/ TableAck
    <2>1. /\ host \notin Over \union {"tableCrcAck", "tableCrc"}
          /\ host' \notin {"reset", "resetAck", "resetPoll", "tableCrcAck", "done"}
      BY <1>6, <1>f DEF SubSectorAck, CrcAck, TableAck, StartTable, Over
    <2> QED BY <1>0, <1>1, <2>1 DEF SendTableCrc
  <1>7. CASE SendTableCrc
    <2>1. host = "tableCrc" /\ host' = "tableCrcAck" /\ ~Yes("TABLE_CRC")
      BY <1>7 DEF SendTableCrc, ToldRight, Over
    <2>2. image \in Images /\ transfer.crc \in CrcsOf(image)
      BY <1>0, <1>7 DEF SendTableCrc, OneImageInv, ReceivedFromHost, Loading
    <2>3. ~Yes("TABLE_CRC")' \/ ToBeStored(image)'
      <3>1. CASE UNCHANGED acks
        BY <2>1, <3>1, AcksStay DEF NoneNew
      <3>2. CASE RxCrc8Bytes(TableOf(image))
        <4>1. CASE \E a \in Acks : acks' = Append(acks, a) /\ a.yes = FALSE
          BY <2>1, <4>1, AppendedNo
        <4>2. CASE /\ canState = "FINISHED_TRANSFER_VECTOR_TABLE"
                   /\ canState' = "VALIDATED_VECTOR_TABLE" /\ TableOf(image) = transfer.table
          <5>1. bootState = "LOAD"
            BY <4>2 DEF StatesAgree, TableStates
          <5>2. flash = transfer.crc /\ flash \in FlashContents
            BY <1>0, <4>2, <5>1 DEF AllOnBoard, TableStates, FlashInv, ProgressTypes
          <5>3. flash = ProgramOf(image)
            BY <2>2, <5>2, FlashOfOne
          <5>4. transfer'.table = transfer.table
            <6>1. Callback
              BY <3>2 DEF Callback
            <6>2. transfer.table \in Tables
              BY <1>0 DEF OneImageInv
            <6> QED BY <1>0, <4>2, <6>1, <6>2, CallbackTables
          <5> QED BY <1>0, <4>2, <5>1, <5>3, <5>4
                  DEF ToBeStored, ProgramOf, SectorOf, TableOf
        <4> QED BY <3>1, <3>2, <4>1, <4>2, CrcAnswered
      <3> QED BY <1>7, <3>1, <3>2, Zenon DEF SendTableCrc, Sent, Lose, boot, bus
    <2>4. (~Yes("TABLE_CRC") \/ Stored(image))'
      BY <2>3 DEF Stored
    <2> QED BY <2>1, <2>4 DEF ToldRight, Over
  <1>8. CASE TableCrcAck
    <2>1. /\ host = "tableCrcAck" /\ NothingNew /\ AgreesNot
      BY <1>0, <1>8, <1>w DEF TableCrcAck, SendTableCrc
    <2>2. image \in Images /\ NoImage \notin Images
      BY <1>0, <2>1, HostAssumption
         DEF OneImageInv, ReceivedFromHost, Loading, HostAssumption
    <2>3. CASE Yes("TABLE_CRC") /\ host' = "done"
      <3>1. Stored(image)
        BY <2>1, <2>3 DEF ToldRight
      <3>2. Stored(image)'
        BY <1>0, <1>k, <2>1, <2>2, <3>1 DEF BootKeeps
      <3> QED BY <1>0, <2>2, <2>3, <3>2 DEF ToldRight, Over
    <2>4. CASE AttemptFailed /\ (~Yes("TABLE_CRC") \/ acks' = <<>>)
      <3>1. host' \in {"failed", "table", "number"}
        BY <1>f, <2>1, <2>4 DEF Over
      <3>2. ~Yes("TABLE_CRC")'
        BY <2>1, <2>4, NothingAcknowledged DEF AgreesNot
      <3> QED BY <3>1, <3>2 DEF ToldRight, Over
    <2> QED BY <1>8, <2>3, <2>4, Zenon DEF TableCrcAck, Unanswered
  <1> QED BY <1>2, <1>3, <1>4, <1>5, <1>6, <1>7, <1>8 DEF HostStep

LEMMA ToldStep ==
  ASSUME FillsFlash, BootInv, OwnTableInv, StatesAgree, AllOnBoard, TableOfOne, AcksTyped,
         AttemptsLeft, Acknowledged, [LoadNext]_vars
  PROVE  Acknowledged'
  <1> SUFFICES ASSUME mishaps' = 0 PROVE ToldRight'
    BY DEF Acknowledged
  <1>0. mishaps = 0 /\ ~PowerFails /\ ToldRight
    BY MishapsStay, TypesStep DEF BootInv, BootTypes, Acknowledged
  <1>1. ASSUME BootKeeps, UNCHANGED program, \A m \in {"RESET", "TABLE_CRC"} : NoneNew(m)
        PROVE  ToldRight'
    <2>1. UNCHANGED <<host, image>> /\ image \in Images \union {NoImage}
      BY <1>1 DEF program, BootInv, FlashInv, HostTypes
    <2>2. image \in Images => (Stored(image) => Stored(image)')
      BY <1>1, <2>1 DEF BootKeeps
    <2>3. (NoneOf("RESET") => NoneOf("RESET")') /\ (~Yes("TABLE_CRC") => ~Yes("TABLE_CRC")')
      BY <1>1 DEF NoneNew
    <2>4. image = NoImage \/ image \in Images
      BY <2>1
    <2>5. CASE host \in {"reset", "resetAck", "resetPoll"}
      BY <1>0, <1>1, <2>1, <2>3, <2>5 DEF ToldRight, BootKeeps, Over
    <2>6. CASE host = "tableCrcAck"
      <3>1. image \in Images
        BY <2>6 DEF BootInv, OneImageInv, ReceivedFromHost, Loading
      <3> QED BY <1>0, <2>1, <2>2, <2>3, <2>6, <3>1 DEF ToldRight, Over
    <2>7. CASE host = "done"
      BY <1>0, <1>1, <2>1, <2>2, <2>4, <2>7 DEF ToldRight, BootKeeps, Over
    <2>8. CASE host \notin {"reset", "resetAck", "resetPoll", "tableCrcAck", "done"}
      BY <1>0, <2>1, <2>3, <2>8 DEF ToldRight, Over
    <2> QED BY <2>5, <2>6, <2>7, <2>8
  <1>2. CASE Device
    <2>1. BootKeeps /\ UNCHANGED program
      BY <1>2, DeviceKeeps DEF Device
    <2>2. \A m \in {"RESET", "TABLE_CRC"} : NoneNew(m)
      BY <1>2, DeviceAnswers, OtherAcknowledged DEF Device
    <2> QED BY <1>1, <2>1, <2>2
  <1>3. CASE HostStep
    BY <1>0, <1>3, HostToldRight
  <1>4. CASE Interrupt
    BY <1>4 DEF Interrupt, ToldRight, Over
  <1>5. CASE host \in Over /\ (RunApp \/ PowerCycle) /\ UNCHANGED program
    <2>1. UNCHANGED <<host, image>> /\ image \in Images \union {NoImage}
      BY <1>5 DEF program, BootInv, FlashInv, HostTypes
    <2>2. /\ QuietBoot /\ ~Validated => QuietBoot' /\ ~Validated'
          /\ \A i \in Images : Stored(i) => Stored(i)'
      BY <1>5, OverKeeps
    <2> QED BY <1>0, <1>5, <2>1, <2>2 DEF ToldRight, Over
  <1>6. ASSUME NEW i \in Images \union {NoImage}, StartSession(i)
        PROVE  ToldRight'
    <2>1. acks' = <<>> /\ host' \in {"reset", "transfer"}
      BY <1>6 DEF StartSession
    <2>2. NoneOf("RESET")' /\ ~Yes("TABLE_CRC")'
      BY <2>1, NothingAcknowledged
    <2>3. CASE host' = "reset"
      BY <2>2, <2>3 DEF ToldRight, Over
    <2>4. CASE host' = "transfer"
      BY <2>2, <2>4 DEF ToldRight, Over
    <2> QED BY <2>1, <2>3, <2>4
  <1>7. CASE UNCHANGED vars
    <2>1. UNCHANGED <<canState, bootState, transfer, flash, store, mode, acks>>
          /\ UNCHANGED program
      BY <1>7 DEF vars, boot, progress, persistent, processor, bus
    <2> QED BY <1>1, <2>1, UnchangedKeeps, AcksStay
  <1> QED BY <1>0, <1>2, <1>3, <1>4, <1>5, <1>6, <1>7 DEF LoadNext, RunApp

LEMMA ReportStep ==
  ASSUME FillsFlash, BootInv, BootInv', OwnTableInv, ReportInv, [LoadNext]_vars
  PROVE  ReportInv'
  BY LoopsStep, AgreeStep, OnBoardStep, TableOfOneStep, AcksStep, AttemptsStep, ToldStep
     DEF ReportInv, BootInv

LEMMA InitialReport == LoadInit => ReportInv
  <1> SUFFICES ASSUME LoadInit PROVE ReportInv
    OBVIOUS
  <1> USE DEF LoadInit, Init
  <1>1. AcksTyped /\ AttemptsLeft
    BY DEF AcksTyped, AttemptsLeft, Over
  <1>2. LoopsCounted /\ StatesAgree /\ AllOnBoard
    BY DEF LoopsCounted, FirstLoop, InitialTransfer, StatesAgree, AllOnBoard, TableStates
  <1>3. TableOfOne
    BY DEF TableOfOne, InitialStore, InstalledStore
  <1>4. Acknowledged
    BY DEF Acknowledged, ToldRight, Over
  <1> QED BY <1>1, <1>2, <1>3, <1>4 DEF ReportInv

LEMMA SettledReport == BootInv /\ ReportInv => ReportedIsSo
  <1> SUFFICES ASSUME BootInv, ReportInv, host = "done", Settled, mishaps = 0
               PROVE  App = IF image = NoImage THEN {} ELSE {image}
    BY DEF ReportedIsSo
  <1>1. IF image = NoImage THEN QuietBoot /\ ~Validated ELSE Stored(image)
    BY DEF ReportInv, Acknowledged, ToldRight
  <1>2. CASE image = NoImage
    BY <1>1, <1>2 DEF App
  <1>3. CASE image # NoImage
    <2>1. ~ToBeStored(image)
      <3>1. CASE mode = "boot"
        BY <3>1 DEF Settled, ToBeStored
      <3>2. CASE mode # "boot"
        BY <3>2 DEF ReportInv, StatesAgree, ToBeStored
      <3> QED BY <3>1, <3>2
    <2>2. Validated /\ flash = ProgramOf(image) /\ store.table = TableOf(image)
      BY <1>1, <1>3, <2>1 DEF Stored, StoredIs
    <2>3. image \in Images
      BY <1>3 DEF BootInv, FlashInv, HostTypes
    <2>4. \A j \in App : j = image
      BY <2>2, OneTableOneProgram DEF App
    <2> QED BY <1>3, <2>2, <2>3, <2>4 DEF App
  <1> QED BY <1>2, <1>3

\* What the host reports as loaded can be started, and nothing else, and what it
\* reports as reset cannot, if no flash operation and no power fails: from the
\* acknowledgement to the last write there is no way in which the bootloader
\* does not do what it has agreed to, whatever messages were lost and however
\* the user interrupts the host or asks for the application to run
\* (can_cbs.c:369-412, boot.c:218-272, cli/cmd_bootloader).
THEOREM ReportsAreTrue == FillsFlash => (LoadSpec => []ReportedIsSo)
  <1> SUFFICES ASSUME FillsFlash PROVE LoadSpec => []ReportedIsSo
    OBVIOUS
  <1>1. LoadInit => ReportInv /\ OwnTableInv
    BY InitialReport DEF LoadInit, Init, OwnTableInv, OwnTableSaved, InstalledStore
  <1>2. BootInv /\ BootInv' /\ OwnTableInv /\ ReportInv /\ [LoadNext]_vars
          => ReportInv' /\ OwnTableInv'
    BY ReportStep, OwnTableStep
  <1>3. BootInv /\ ReportInv => ReportedIsSo
    BY SettledReport
  <1> QED BY <1>1, <1>2, <1>3, BootInvariant, PTL DEF LoadSpec

-----------------------------------------------------------------------------
(* Supervisor calls *)

LossKinds == {"number", "table", "other"}
LossesCounted == lost \in [LossKinds -> Nat]

\* Nothing has failed, and no data has been lost on its way.
Undisturbed == mishaps = 0 /\ lost["other"] = 0

\* A loop number that was taken is the one of the word that is sent next, or the
\* host has given up and will reset the bootloader.
NumberInTurn ==
    lost["other"] = 0 /\ canState = "RECEIVED_LOOP_NUMBER" =>
        host \in Over \union {"reset"} \/ (host = "data" /\ loop = transfer.loop)

\* What the buffer holds of the first sector is of the application being loaded.
FirstSectorBuffered ==
    Undisturbed /\ bootState = "LOAD" /\ canState \in LoopNumbered /\ transfer.sector = 1 =>
        /\ validations = 0
        /\ \E i \in Images :
              /\ host \in Loading => i = image
              /\ \A k \in 1 .. transfer.position : buffer[k] = <<i, k>>

\* Supervisor calls are served, and the own table is in force unless there is
\* an application in the record.
CallsServed ==
    Undisturbed => /\ mode # "halted" /\ Served(store.table, flash)
                   /\ store.available \/ store.table = TableOf(Own)

CallsInv == LossesCounted /\ NumberInTurn /\ FirstSectorBuffered /\ CallsServed
OneEntry == \A i, j \in Images : SvcEntry[i] = SvcEntry[j]

-----------------------------------------------------------------------------
(* Losses *)

Loses(kinds) ==
    lost' = lost \/ \E kind \in kinds : lost' = [lost EXCEPT ![kind] = @ + 1]

LEMMA SendLoses == ASSUME NEW a, Send(a) PROVE Loses({"other"})
  BY DEF Send, Lose, Loses

LEMMA CallbackLoses ==
  ASSUME \/ \E r \in {"TRANSFER", "RUN", "RESET"} : RxActionRequest(r)
         \/ \E n : RxTransferProcessInfo(n)
         \/ \E n : RxLoopInfo(n)
         \/ \E word : RxData8Bytes(word)
         \/ \E crc : RxCrc8Bytes(crc)
  PROVE  Loses({"other"})
  <1>1. Silent => Loses({"other"})
    BY DEF Silent, bus, Loses
  <1>2. CASE \E r \in {"TRANSFER", "RUN", "RESET"} : RxActionRequest(r)
    BY <1>1, <1>2, SendLoses DEF RxActionRequest, RxTransferRequest, RxRunRequest, RxResetRequest
  <1>3. CASE \E n : RxTransferProcessInfo(n)
    <2>1. Silent \/ \E a : Send(a)
      BY <1>3, Zenon DEF RxTransferProcessInfo
    <2> QED BY <1>1, <2>1, SendLoses
  <1>4. CASE \E n : RxLoopInfo(n)
    BY <1>1, <1>4 DEF RxLoopInfo
  <1>5. ASSUME NEW word, RxData8Bytes(word) PROVE Loses({"other"})
    <2>1. CASE RxTableWord(word)
      BY <1>1, <2>1, SendLoses DEF RxTableWord
    <2>2. CASE RxProgramWord(word)
      BY <1>1, <2>2, SendLoses DEF RxProgramWord
    <2> QED BY <1>1, <1>5, <2>1, <2>2 DEF RxData8Bytes
  <1>6. ASSUME NEW crc, RxCrc8Bytes(crc) PROVE Loses({"other"})
    BY <1>1, <1>6, SendLoses DEF RxCrc8Bytes, RxTableCrc, RxSectorCrc
  <1> QED BY <1>2, <1>3, <1>4, <1>5, <1>6

LEMMA DeviceLoses ==
  ASSUME MainLoop \/ TimeOut
  PROVE  Loses({"other"})
  <1>1. lost' = lost => Loses({"other"})
    BY DEF Loses
  <1>2. CASE BOOT_WriteAndValidateCurrentSector
    <2>1. ASSUME NEW w, SectorWritten(w) PROVE Loses({"other"})
      <3>1. \E a : Send(a)
        BY <2>1, Zenon DEF SectorWritten
      <3> QED BY <3>1, SendLoses
    <2>2. lost' = lost \/ \E w : SectorWritten(w)
      BY <1>2 DEF BOOT_WriteAndValidateCurrentSector, bus
    <2> QED BY <1>1, <2>1, <2>2
  <1>3. CASE Wait \/ TimeOut \/ StoreProgram \/ Load \/ Run \/ BOOT_ResetBootloader
             \/ BOOT_GetBootStateDuringError
    BY <1>1, <1>3 DEF Wait, TimeOut, StoreProgram, Load, Run, BOOT_ResetBootloader,
                      BOOT_GetBootStateDuringError, bus
  <1> QED BY <1>2, <1>3 DEF MainLoop

\* What a step of the host that sends a message can lose.
LEMMA HostLoses ==
  ASSUME HostStep
  PROVE  Loses(LossKinds)
  <1>0. Loses({"other"}) => Loses(LossKinds)
    BY DEF Loses, LossKinds
  <1>1. lost' = lost => Loses(LossKinds)
    BY DEF Loses
  <1>2. UNCHANGED boot => Loses(LossKinds)
    BY <1>1 DEF boot, bus
  <1>3. ASSUME NEW kind \in LossKinds, Lose(kind) PROVE Loses(LossKinds)
    BY <1>3 DEF Lose, Loses
  <1>k. "number" \in LossKinds /\ "table" \in LossKinds /\ "other" \in LossKinds
    BY DEF LossKinds
  <1>4. ASSUME NEW r \in {"TRANSFER", "RUN", "RESET"}, NEW from, NEW to,
               SendRequest(r, from, to)
        PROVE  Loses(LossKinds)
    <2>1. RxActionRequest(r) => Loses(LossKinds)
      BY <1>0, CallbackLoses
    <2> QED BY <1>2, <1>3, <1>4, <1>k, <2>1, Zenon DEF SendRequest, Sent
  <1>5. CASE Reset \/ Transfer
    BY <1>4, <1>5 DEF Reset, Transfer
  <1>6. CASE SendInfo
    BY <1>0, <1>2, <1>3, <1>6, <1>k, CallbackLoses, Zenon DEF SendInfo, Sent
  <1>7. CASE SendNumber
    BY <1>0, <1>2, <1>3, <1>7, <1>k, CallbackLoses, Zenon DEF SendNumber, Sent
  <1>8. CASE SendData
    BY <1>0, <1>2, <1>3, <1>8, <1>k, CallbackLoses, Zenon DEF SendData, Sent
  <1>9. CASE SendTableWord
    BY <1>0, <1>2, <1>3, <1>9, <1>k, CallbackLoses, Zenon DEF SendTableWord, Sent
  <1>10. CASE SendCrc \/ SendTableCrc
    BY <1>0, <1>2, <1>3, <1>10, <1>k, CallbackLoses, Zenon DEF SendCrc, SendTableCrc, Sent
  <1>11. CASE ResetAck \/ ResetPoll \/ TransferAck \/ InfoAck \/ SubSectorAck \/ CrcAck
              \/ TableAck \/ TableCrcAck
    <2>1. Waited
      BY <1>11, Zenon DEF ResetAck, ResetPoll, TransferAck, InfoAck, SubSectorAck, CrcAck,
                       TableAck, TableCrcAck
    <2> QED BY <1>1, <2>1 DEF Waited
  <1> QED BY <1>5, <1>6, <1>7, <1>8, <1>9, <1>10, <1>11 DEF HostStep

LEMMA LossesStep ==
  ASSUME LossesCounted, [LoadNext]_vars
  PROVE  LossesCounted' /\ \A kind \in LossKinds : lost'[kind] >= lost[kind]
  <1>1. Loses(LossKinds)
    <2>1. Loses({"other"}) => Loses(LossKinds)
      BY DEF Loses, LossKinds
    <2>2. lost' = lost => Loses(LossKinds)
      BY DEF Loses
    <2>3. CASE MainLoop \/ TimeOut
      BY <2>1, <2>3, DeviceLoses
    <2>4. CASE HostStep
      BY <2>4, HostLoses
    <2>5. CASE RunApp
      BY <2>1, <2>5, CallbackLoses DEF RunApp
    <2>6. CASE Interrupt \/ PowerFails \/ PowerCycle
               \/ \E i \in Images \union {NoImage} : StartSession(i)
      BY <2>2, <2>6 DEF Interrupt, StartSession, boot, bus, PowerFails, PowerFailure,
              PowerFailureInSector, PowerFailureInStore, PowerFailureInReset, Cut, PowerCycle
    <2>7. CASE UNCHANGED vars
      BY <2>2, <2>7 DEF vars, boot, bus
    <2> QED BY <2>3, <2>4, <2>5, <2>6, <2>7 DEF LoadNext, Device
  <1>2. CASE lost' = lost
    BY <1>2 DEF LossesCounted
  <1>3. ASSUME NEW kind \in LossKinds, lost' = [lost EXCEPT ![kind] = @ + 1]
        PROVE  LossesCounted' /\ \A k \in LossKinds : lost'[k] >= lost[k]
    BY <1>3 DEF LossesCounted
  <1> QED BY <1>1, <1>2, <1>3 DEF Loses

LEMMA UndisturbedBefore ==
  ASSUME BootTypes, LossesCounted, Undisturbed', [LoadNext]_vars
  PROVE  Undisturbed /\ ~PowerFails
  <1>1. mishaps \in Nat /\ mishaps' = 0 /\ lost'["other"] = 0 /\ lost["other"] \in Nat
    BY DEF BootTypes, Undisturbed, LossesCounted, LossKinds
  <1>2. lost'["other"] >= lost["other"]
    BY LossesStep DEF LossKinds
  <1>3. mishaps' >= mishaps /\ (PowerFails => mishaps' > mishaps)
    BY MishapsStay
  <1> QED BY <1>1, <1>2, <1>3 DEF Undisturbed

-----------------------------------------------------------------------------
(* The first sector in the buffer *)

\* What other messages than numbers and words leave of a sector.
SectorUntouched ==
    canState' \in LoopNumbered =>
        /\ canState \in LoopNumbered /\ UNCHANGED <<validations, buffer, bootState>>
        /\ transfer'.position = transfer.position /\ transfer'.sector = transfer.sector
        /\ canState' = "RECEIVED_LOOP_NUMBER" =>
              canState = canState' /\ transfer'.loop = transfer.loop

LEMMA OthersLeaveSector ==
  ASSUME IsTransfer(transfer),
         \/ \E r \in {"TRANSFER", "RUN", "RESET"} : RxActionRequest(r)
         \/ \E n : RxTransferProcessInfo(n)
         \/ \E crc : RxCrc8Bytes(crc)
  PROVE  SectorUntouched
  <1> USE DEF SectorUntouched, LoopNumbered
  <1>1. CASE \E r \in {"TRANSFER", "RUN", "RESET"} : RxActionRequest(r)
    <2>1. canState' \in {canState, "WAIT_FOR_INFO", "RUN_PROGRAM", "RESET_BOOT"}
      BY <1>1 DEF RxActionRequest, RxTransferRequest, RxRunRequest, RxResetRequest
    <2>2. UNCHANGED <<bootState, validations, progress>>
      BY <1>1 DEF RxActionRequest
    <2> QED BY <2>1, <2>2 DEF progress
  <1>2. CASE \E n : RxTransferProcessInfo(n)
    <2>1. \/ UNCHANGED <<canState, transfer>>
          \/ canState' = "WAIT_FOR_DATA_LOOPS"
      BY <1>2, Zenon DEF RxTransferProcessInfo
    <2>2. UNCHANGED <<bootState, validations, buffer>>
      BY <1>2, Zenon DEF RxTransferProcessInfo
    <2> QED BY <2>1, <2>2
  <1>3. ASSUME NEW crc, RxCrc8Bytes(crc) PROVE SectorUntouched
    <2>1. UNCHANGED <<bootState, validations, buffer>>
      BY <1>3 DEF RxCrc8Bytes
    <2>2. CASE RxTableCrc(crc)
      BY <2>2 DEF RxTableCrc
    <2>3. CASE canState = "RECEIVED_8_BYTES_DATA" /\ RxSectorCrc(crc)
      <3>1. \/ UNCHANGED <<canState, transfer>>
            \/ /\ canState' = "RECEIVED_8_BYTES_CRC"
               /\ transfer' = [transfer EXCEPT !.crc = crc]
        BY <2>3, Zenon DEF RxSectorCrc
      <3> QED BY <2>1, <2>3, <3>1 DEF IsTransfer
    <2>4. CASE UNCHANGED <<canState, transfer>>
      BY <2>1, <2>4
    <2> QED BY <1>3, <2>2, <2>3, <2>4 DEF RxCrc8Bytes
  <1> QED BY <1>1, <1>2, <1>3

\* Where the host is before and after a step that does not concern a sector.
HostStays ==
    /\ host' \in Loading => host \in Loading
    /\ image' = image

LEMMA SectorStays ==
  ASSUME SectorUntouched, Undisturbed' => Undisturbed, FirstSectorBuffered,
         HostStays \/ canState' \notin LoopNumbered
  PROVE  FirstSectorBuffered'
  <1> SUFFICES ASSUME Undisturbed', bootState' = "LOAD", canState' \in LoopNumbered,
                      transfer'.sector = 1
               PROVE  /\ validations' = 0
                      /\ \E i \in Images :
                            /\ host' \in Loading => i = image'
                            /\ \A k \in 1 .. transfer'.position : buffer'[k] = <<i, k>>
    BY DEF FirstSectorBuffered, Undisturbed
  <1>1. /\ validations = 0
        /\ \E i \in Images : /\ host \in Loading => i = image
                             /\ \A k \in 1 .. transfer.position : buffer[k] = <<i, k>>
    BY DEF FirstSectorBuffered, SectorUntouched
  <1> QED BY <1>1 DEF SectorUntouched, HostStays

\* A loop number that was taken leads to its word.
LEMMA NumberTaken ==
  ASSUME IsTransfer(transfer), loop \in Nat, RxLoopInfo(loop), canState # "RECEIVED_LOOP_NUMBER"
  PROVE  canState' = "RECEIVED_LOOP_NUMBER" => transfer'.loop = loop
  <1> SUFFICES ASSUME canState' = "RECEIVED_LOOP_NUMBER" PROVE transfer'.loop = loop
    OBVIOUS
  <1>1. CASE transfer.loop = 0
    <2>1. transfer' = [transfer EXCEPT !.loop = 1] /\ 1 = loop
      BY <1>1 DEF RxLoopInfo
    <2> QED BY <2>1 DEF IsTransfer
  <1>2. CASE transfer.loop # 0
    <2>1. transfer' = [transfer EXCEPT !.loop = transfer.loop] /\ transfer.loop = loop
      BY <1>2 DEF RxLoopInfo
    <2> QED BY <2>1 DEF IsTransfer
  <1> QED BY <1>1, <1>2

LEMMA NumberLeavesSector ==
  ASSUME FlashInv, BootTypes, LoopsCounted, FirstSectorBuffered, Settled, mode = "boot",
         Undisturbed,
         host \in Loading, image \in Images, UNCHANGED image, RxLoopInfo(loop)
  PROVE  FirstSectorBuffered'
  <1>0. IsTransfer(transfer) /\ loop \in Nat /\ UNCHANGED <<bootState, validations>>
    BY DEF FlashInv, ProgressTypes, HostTypes, RxLoopInfo
  <1> SUFFICES ASSUME bootState = "LOAD", canState' \in LoopNumbered, transfer'.sector = 1
               PROVE  /\ validations' = 0
                      /\ \E i \in Images :
                            /\ host' \in Loading => i = image'
                            /\ \A k \in 1 .. transfer'.position : buffer'[k] = <<i, k>>
    BY <1>0 DEF FirstSectorBuffered
  <1>1. transfer'.sector = transfer.sector /\ transfer'.position = transfer.position
    <2>1. CASE UNCHANGED transfer
      BY <2>1
    <2>2. CASE transfer' = [transfer EXCEPT !.loop = IF transfer.loop = 0
                                                     THEN 1 ELSE transfer.loop]
      BY <1>0, <2>2 DEF IsTransfer
    <2> QED BY <2>1, <2>2, Zenon DEF RxLoopInfo, progress
  <1>2. canState # "RECEIVED_8_BYTES_CRC"
    <2>1. canState = "RECEIVED_8_BYTES_CRC" => validations > 0
      BY DEF Settled
    <2>2. canState = "RECEIVED_8_BYTES_CRC" => validations = 0
      BY <1>1 DEF FirstSectorBuffered, LoopNumbered
    <2> QED BY <2>1, <2>2
  <1>3. CASE canState = "WAIT_FOR_DATA_LOOPS"
    <2>1. validations = 0
      BY <1>3 DEF Settled, BootTypes, ControlTypes
    <2>2. transfer.loop \in {0, 1}
      <3>1. CASE transfer.loop = 0
        BY <3>1
      <3>2. CASE transfer.loop # 0
        BY <1>3, <3>2, Zenon DEF RxLoopInfo, LoopNumbered
      <3> QED BY <3>1, <3>2
    <2>3. transfer.position = 0
      <3>1. LoopInSector(transfer) \/ FirstLoop(transfer)
        BY <1>3 DEF LoopsCounted, SectorStates
      <3>2. CASE LoopInSector(transfer)
        <4>1. (1 - 1) * SectorLoops = 0
          OBVIOUS
        <4> QED BY <1>0, <1>1, <2>2, <3>2, <4>1 DEF LoopInSector, IsTransfer
      <3> QED BY <3>1, <3>2 DEF FirstLoop
    <2> QED BY <1>0, <1>1, <2>1, <2>3
  <1>4. CASE canState \in {"RECEIVED_LOOP_NUMBER", "RECEIVED_8_BYTES_DATA"}
    <2>1. UNCHANGED buffer
      BY <1>4 DEF RxLoopInfo
    <2> QED BY <1>0, <1>1, <1>4, <2>1 DEF FirstSectorBuffered, LoopNumbered
  <1>5. canState \in {"WAIT_FOR_DATA_LOOPS", "RECEIVED_LOOP_NUMBER",
                       "RECEIVED_8_BYTES_DATA", "RECEIVED_8_BYTES_CRC"}
    BY DEF RxLoopInfo, LoopNumbered
  <1> QED BY <1>2, <1>3, <1>4, <1>5

LEMMA WordInSector ==
  ASSUME FlashInv, LoopsCounted, NumberInTurn, FirstSectorBuffered, Undisturbed,
         host = "data", image \in Images, UNCHANGED image,
         RxData8Bytes(<<image, loop>>)
  PROVE  FirstSectorBuffered'
  <1>0. /\ IsTransfer(transfer) /\ loop \in Nat /\ buffer \in Sectors
        /\ UNCHANGED <<bootState, validations>>
    BY DEF FlashInv, ProgressTypes, HostTypes, RxData8Bytes
  <1>1. CASE UNCHANGED <<canState, transfer, buffer>>
    BY <1>0, <1>1 DEF FirstSectorBuffered, Loading
  <1>2. CASE canState = "FINISHED_FINAL_VALIDATION" /\ RxTableWord(<<image, loop>>)
    <2>1. canState' \notin LoopNumbered
      BY <1>2 DEF RxTableWord, LoopNumbered
    <2> QED BY <2>1 DEF FirstSectorBuffered
  <1>3. CASE canState = "RECEIVED_LOOP_NUMBER" /\ RxProgramWord(<<image, loop>>)
    <2> DEFINE position == transfer.position + 1
    <2>1. CASE position \notin 1 .. SectorLoops
      <3>1. canState' = "ERROR"
        BY <1>3, <2>1 DEF RxProgramWord
      <3> QED BY <3>1 DEF FirstSectorBuffered, LoopNumbered
    <2>2. CASE position \in 1 .. SectorLoops
      <3> SUFFICES ASSUME bootState = "LOAD", transfer'.sector = 1
                   PROVE  /\ validations' = 0
                          /\ \A k \in 1 .. transfer'.position : buffer'[k] = <<image, k>>
        BY <1>0, Zenon DEF FirstSectorBuffered
      <3>1. /\ buffer' = [buffer EXCEPT ![position] = <<image, loop>>]
            /\ transfer' = transfer \/ transfer' = [transfer EXCEPT !.position = position,
                                                                  !.loop = @ + 1]
        BY <1>3, <2>2 DEF RxProgramWord
      <3>2. transfer'.position \in {transfer.position, position} /\ transfer.sector = 1
        BY <1>0, <3>1 DEF IsTransfer
      <3>3. loop = transfer.loop
        BY <1>3 DEF NumberInTurn, Undisturbed, Over
      <3>4. transfer.loop = position
        <4>1. LoopInSector(transfer)
          BY <1>3 DEF LoopsCounted, SectorStates, LoopNumbered
        <4>2. (1 - 1) * SectorLoops = 0
          OBVIOUS
        <4> QED BY <1>0, <3>2, <4>1, <4>2 DEF LoopInSector, IsTransfer
      <3>5. validations = 0 /\ \A k \in 1 .. transfer.position : buffer[k] = <<image, k>>
        BY <1>3, <3>2 DEF FirstSectorBuffered, LoopNumbered, Loading
      <3>6. ASSUME NEW k \in 1 .. transfer'.position PROVE buffer'[k] = <<image, k>>
        <4>1. k \in 1 .. SectorLoops /\ (k = position \/ k \in 1 .. transfer.position)
          BY <1>0, <2>2, <3>2 DEF IsTransfer
        <4>2. DOMAIN buffer = 1 .. SectorLoops
          BY <1>0 DEF Sectors
        <4>3. CASE k = position
          BY <2>2, <3>1, <3>3, <3>4, <4>2, <4>3
        <4>4. CASE k # position
          BY <3>1, <3>5, <4>1, <4>2, <4>4
        <4> QED BY <4>3, <4>4
      <3> QED BY <1>0, <3>5, <3>6
    <2> QED BY <2>1, <2>2
  <1> QED BY <1>1, <1>2, <1>3, Zenon DEF RxData8Bytes

\* Nothing is lost that is not counted: a message of the host that arrives is
\* dealt with, or there is no bootloader to deal with it.
LEMMA SentArrives ==
  ASSUME LossesCounted, NEW Done, NEW kind \in LossKinds, lost'["other"] = 0,
         Sent(Done, kind)
  PROVE  \/ mode = "boot" /\ Done
         \/ /\ UNCHANGED <<canState, bootState, validations, progress, persistent, processor>>
            /\ mode # "boot" \/ kind # "other"
  <1>1. Lose("other") => FALSE
    <2>1. Lose("other") => lost' = [lost EXCEPT !["other"] = @ + 1]
      BY DEF Lose
    <2>2. lost["other"] \in Nat
      BY DEF LossesCounted, LossKinds
    <2> QED BY <2>1, <2>2 DEF LossesCounted, LossKinds
  <1> QED BY <1>1, Zenon DEF Sent, boot

LEMMA HostKeepsSector ==
  ASSUME BootInv, LossesCounted, LoopsCounted, StatesAgree, NumberInTurn, FirstSectorBuffered,
         lost'["other"] = 0, HostStep
  PROVE  NumberInTurn' /\ (Undisturbed => FirstSectorBuffered')
  <1> DEFINE Still == UNCHANGED <<canState, bootState, validations, progress>>
  <1>0. /\ FlashInv /\ BootTypes /\ IsTransfer(transfer) /\ loop \in Nat
        /\ host \in Loading => image \in Images
    BY DEF BootInv, FlashInv, ProgressTypes, HostTypes, OneImageInv, ReceivedFromHost
  <1>l. lost["other"] = 0
    <2>1. lost'["other"] >= lost["other"] /\ lost["other"] \in Nat
      <3>1. Loses(LossKinds)
        BY HostLoses
      <3>2. ASSUME NEW kind \in LossKinds, lost' = [lost EXCEPT ![kind] = @ + 1]
            PROVE  lost'["other"] >= lost["other"]
        BY <3>2 DEF LossesCounted, LossKinds
      <3> QED BY <3>1, <3>2 DEF Loses, LossesCounted, LossKinds
    <2> QED BY <2>1
  <1>n. host \notin Over \union {"reset", "data"} => canState # "RECEIVED_LOOP_NUMBER"
    BY <1>l DEF NumberInTurn
  <1>1. Still => SectorUntouched
    BY DEF SectorUntouched, progress
  <1>2. Waited => Still
    BY DEF Waited
  <1>3. ASSUME SectorUntouched, host \notin Over \union {"reset", "data"}, HostStays
        PROVE  NumberInTurn' /\ (Undisturbed => FirstSectorBuffered')
    <2>1. canState' # "RECEIVED_LOOP_NUMBER"
      BY <1>n, <1>3 DEF SectorUntouched, LoopNumbered
    <2>2. Undisturbed => FirstSectorBuffered'
      BY <1>3, SectorStays
    <2> QED BY <2>1, <2>2 DEF NumberInTurn
  <1>4. ASSUME canState' \notin LoopNumbered
        PROVE  NumberInTurn' /\ (Undisturbed => FirstSectorBuffered')
    BY <1>4 DEF NumberInTurn, FirstSectorBuffered, LoopNumbered
  <1>5. CASE Reset
    <2>1. \/ mode = "boot" /\ RxActionRequest("RESET")
          \/ UNCHANGED canState /\ mode # "boot"
      BY <1>5, SentArrives, Zenon DEF Reset, SendRequest, LossKinds
    <2>2. canState' = "RESET_BOOT" \/ canState' = "NO_COMMUNICATION"
      BY <2>1, ResetAnswered DEF StatesAgree
    <2> QED BY <1>4, <2>2 DEF LoopNumbered
  <1>6. CASE ResetPoll
    <2>1. CASE AtBeginning
      <3>1. canState' = "NO_COMMUNICATION"
        BY <1>6, <2>1 DEF ResetPoll, Waited, AtBeginning
      <3> QED BY <1>4, <3>1 DEF LoopNumbered
    <2>2. CASE ~AtBeginning
      <3>1. host = "resetPoll" /\ host' = "refused" /\ Waited
        BY <1>6, <2>2 DEF ResetPoll
      <3>2. HostStays
        BY <3>1 DEF HostStays, Loading, Waited
      <3> QED BY <1>1, <1>2, <1>3, <3>1, <3>2 DEF Over
    <2> QED BY <2>1, <2>2
  <1>7. CASE ResetAck
    <2>1. host = "resetAck" /\ host' \in {"resetPoll", "refused"} /\ Waited
      BY <1>7 DEF ResetAck
    <2>2. HostStays
      BY <2>1 DEF HostStays, Loading, Waited
    <2> QED BY <1>1, <1>2, <1>3, <2>1, <2>2 DEF Over
  <1>8. CASE TransferAck \/ InfoAck \/ SubSectorAck \/ CrcAck \/ TableAck \/ TableCrcAck
    <2>1. host \in {"transferAck", "infoAck", "subSectorAck", "crcAck", "tableAck",
                    "tableCrcAck"} /\ Waited
      BY <1>8, Zenon DEF TransferAck, InfoAck, SubSectorAck, CrcAck, TableAck, TableCrcAck
    <2>2. HostStays
      BY <2>1 DEF HostStays, Loading, Waited
    <2> QED BY <1>1, <1>2, <1>3, <2>1, <2>2 DEF Over
  <1>9. CASE Transfer \/ SendInfo \/ SendCrc \/ SendTableCrc
    <2>1. host \in {"transfer", "info", "crc", "tableCrc"} /\ HostStays
      BY <1>9 DEF Transfer, SendRequest, SendInfo, SendCrc, SendTableCrc, HostStays, Loading
    <2>2. \/ \E r \in {"TRANSFER", "RUN", "RESET"} : RxActionRequest(r)
          \/ \E n : RxTransferProcessInfo(n)
          \/ \E crc : RxCrc8Bytes(crc)
          \/ Still
      BY <1>9, SentArrives, Zenon
         DEF Transfer, SendRequest, SendInfo, SendCrc, SendTableCrc, LossKinds
    <2> QED BY <1>0, <1>1, <1>3, <2>1, <2>2, OthersLeaveSector DEF Over
  <1>10. CASE SendTableWord
    <2>1. host = "table" /\ HostStays
      BY <1>10 DEF SendTableWord, HostStays, Loading
    <2>2. Still \/ RxData8Bytes(TableOf(image)[loop])
      BY <1>10, SentArrives, Zenon DEF SendTableWord, LossKinds
    <2>3. canState # "RECEIVED_LOOP_NUMBER"
      BY <1>n, <2>1 DEF Over
    <2>4. ASSUME RxData8Bytes(TableOf(image)[loop]) PROVE SectorUntouched
      <3>1. CASE UNCHANGED <<canState, transfer, buffer>>
        BY <2>4, <3>1 DEF SectorUntouched, RxData8Bytes
      <3>2. CASE canState = "FINISHED_FINAL_VALIDATION"
                 /\ RxTableWord(TableOf(image)[loop])
        BY <3>2 DEF SectorUntouched, RxTableWord, LoopNumbered
      <3> QED BY <2>3, <2>4, <3>1, <3>2, Zenon DEF RxData8Bytes
    <2> QED BY <1>1, <1>3, <2>1, <2>2, <2>4 DEF Over
  <1>11. CASE SendNumber
    <2>1. /\ host = "number" /\ host' = "data" /\ Settled
          /\ UNCHANGED <<image, loop>> /\ HostStays
      BY <1>11 DEF SendNumber, HostStays, Loading, counters
    <2>2. Still \/ (mode = "boot" /\ RxLoopInfo(loop))
      BY <1>11, SentArrives, Zenon DEF SendNumber, LossKinds
    <2>3. CASE mode = "boot" /\ RxLoopInfo(loop)
      <3>1. canState' = "RECEIVED_LOOP_NUMBER" => transfer'.loop = loop
        BY <1>0, <1>n, <2>1, <2>3, NumberTaken DEF Over
      <3>2. Undisturbed => FirstSectorBuffered'
        BY <1>0, <2>1, <2>3, NumberLeavesSector DEF Loading
      <3> QED BY <2>1, <3>1, <3>2 DEF NumberInTurn
    <2> QED BY <1>1, <1>3, <2>1, <2>2, <2>3 DEF Over
  <1>12. CASE SendData
    <2>1. host = "data" /\ host' \in {"subSectorAck", "number"} /\ UNCHANGED image
      BY <1>12 DEF SendData
    <2>2. \/ mode = "boot" /\ RxData8Bytes(<<image, loop>>)
          \/ Still /\ mode # "boot"
      BY <1>12, SentArrives, Zenon DEF SendData, LossKinds
    <2>3. CASE RxData8Bytes(<<image, loop>>)
      <3>1. canState' # "RECEIVED_LOOP_NUMBER"
        BY <2>3 DEF RxData8Bytes, RxTableWord, RxProgramWord
      <3>2. Undisturbed => FirstSectorBuffered'
        BY <1>0, <2>1, <2>3, WordInSector DEF Loading
      <3> QED BY <3>1, <3>2 DEF NumberInTurn
    <2>4. CASE Still /\ mode # "boot"
      <3>1. canState' = "NO_COMMUNICATION"
        BY <2>4 DEF StatesAgree
      <3> QED BY <1>4, <3>1 DEF LoopNumbered
    <2> QED BY <2>2, <2>3, <2>4
  <1> QED BY <1>5, <1>6, <1>7, <1>8, <1>9, <1>10, <1>11, <1>12 DEF HostStep

\* The main loop leaves a sector where it is, or has written it.
LEMMA DeviceKeepsSector ==
  ASSUME FlashInv, StatesAgree, NumberInTurn, FirstSectorBuffered,
         Undisturbed' => Undisturbed, lost'["other"] = 0 => lost["other"] = 0,
         MainLoop \/ TimeOut, UNCHANGED program
  PROVE  NumberInTurn' /\ FirstSectorBuffered'
  <1>0. UNCHANGED <<host, image, loop>>
    BY DEF program, counters
  <1>1. ASSUME canState' \notin LoopNumbered
        PROVE  NumberInTurn' /\ FirstSectorBuffered'
    BY <1>1 DEF NumberInTurn, FirstSectorBuffered, LoopNumbered
  <1>2. ASSUME UNCHANGED <<canState, transfer>>
        PROVE  NumberInTurn'
    BY <1>0, <1>2 DEF NumberInTurn
  <1>r. ASSUME NEW m, Restarted(m) PROVE NumberInTurn' /\ FirstSectorBuffered'
    BY <1>1, <1>r DEF Restarted, LoopNumbered
  <1>3. CASE Wait \/ TimeOut
    <2>1. bootState = "WAIT" /\ UNCHANGED canState
      BY <1>3 DEF Wait, TimeOut, In
    <2> QED BY <1>1, <2>1 DEF StatesAgree, LoopNumbered
  <1>4. CASE Load
    <2>1. /\ bootState = "LOAD" /\ UNCHANGED <<canState, transfer, buffer>>
          /\ validations = 0 => validations' = 0
      BY <1>4 DEF Load, In, progress
    <2>2. FirstSectorBuffered'
      BY <1>0, <2>1 DEF FirstSectorBuffered
    <2> QED BY <1>2, <2>1, <2>2
  <1>5. CASE BOOT_GetBootStateDuringError
    <2>1. bootState' = "RESET" /\ UNCHANGED <<canState, transfer>>
      BY <1>5 DEF BOOT_GetBootStateDuringError, progress
    <2> QED BY <1>2, <2>1 DEF FirstSectorBuffered
  <1>6. CASE Run
    <2>1. Restarted("app") \/ Restarted("halted") \/ canState' = "NO_COMMUNICATION"
      BY <1>6, Zenon DEF Run, Halt
    <2> QED BY <1>1, <1>r, <2>1 DEF LoopNumbered
  <1>7. CASE StoreProgram
    <2>1. \/ Restarted("boot") \/ Restarted("halted")
          \/ UNCHANGED canState /\ canState = "VALIDATED_VECTOR_TABLE"
      BY <1>7, Zenon DEF StoreProgram, StoreTurn, Halt
    <2> QED BY <1>1, <1>r, <2>1 DEF LoopNumbered
  <1>8. CASE BOOT_ResetBootloader
    <2>1. Restarted("boot") \/ Restarted("halted") \/ canState' = "CLEARED"
      <3>1. CASE Refused(ResetStore)
        BY <1>8, <3>1, Zenon DEF BOOT_ResetBootloader, SoftwareReset, Halt
      <3>2. CASE ~Refused(ResetStore) /\ ~Raised(flash, store.table)
        BY <1>8, <3>2 DEF BOOT_ResetBootloader, Halt
      <3>3. CASE ~Refused(ResetStore) /\ Raised(flash, store.table)
        <4>1. PICK w \in Outcomes(store, ResetStore, TornStores(ResetStore)) :
              CASE ~w.ok -> /\ SoftwareReset(Served(w.left.table, flash))
                            /\ Mishap /\ UNCHANGED flash
                [] w.ok /\ ~Served(w.left.table, flash) ->
                     Halt /\ UNCHANGED <<flash, mishaps>>
                [] w.ok /\ Served(w.left.table, flash) -> EraseApp
          BY <1>8, <3>3, Zenon DEF BOOT_ResetBootloader
        <4>2. CASE ~w.ok
          BY <4>1, <4>2, Zenon DEF SoftwareReset, Halt
        <4>3. CASE w.ok
          BY <4>1, <4>3 DEF Halt, EraseApp
        <4> QED BY <4>2, <4>3
      <3> QED BY <3>1, <3>2, <3>3
    <2> QED BY <1>1, <1>r, <2>1 DEF LoopNumbered
  <1>9. CASE BOOT_WriteAndValidateCurrentSector
    <2>1. bootState = "LOAD" /\ canState = "RECEIVED_8_BYTES_CRC"
      BY <1>9 DEF BOOT_WriteAndValidateCurrentSector, WriteTurn, In
    <2>2. ASSUME NEW w, SectorWritten(w), transfer.sector \in 1 .. NumSectors
          PROVE  NumberInTurn' /\ FirstSectorBuffered'
      <3>1. CASE bootState' = "ERROR" /\ canState' \in {canState, "WAIT_FOR_DATA_LOOPS"}
        BY <2>1, <3>1 DEF NumberInTurn, FirstSectorBuffered
      <3>2. CASE canState' = "FINISHED_FINAL_VALIDATION"
        BY <1>1, <3>2 DEF LoopNumbered
      <3>3. CASE /\ UNCHANGED canState
                 /\ transfer' = [transfer EXCEPT !.onBoard = transfer.crc,
                                                 !.position = 0, !.sector = @ + 1]
        <4>1. transfer'.sector = transfer.sector + 1
          BY <3>3 DEF FlashInv, ProgressTypes, IsTransfer
        <4>2. transfer'.sector # 1
          BY <2>2, <4>1
        <4> QED BY <2>1, <3>3, <4>2 DEF NumberInTurn, FirstSectorBuffered
      <3> QED BY <2>2, <3>1, <3>2, <3>3, Zenon DEF SectorWritten
    <2>3. CASE ~Raised(flash, store.table)
      BY <1>9, <1>r, <2>3 DEF BOOT_WriteAndValidateCurrentSector, Halt
    <2>4. CASE Raised(flash, store.table) /\ transfer.sector \notin 1 .. NumSectors
      <3>1. bootState' = "ERROR" /\ UNCHANGED <<canState, transfer>>
        BY <1>9, <2>4 DEF BOOT_WriteAndValidateCurrentSector, progress
      <3> QED BY <1>2, <3>1 DEF FirstSectorBuffered
    <2>5. CASE Raised(flash, store.table) /\ transfer.sector \in 1 .. NumSectors
      <3>1. Halt \/ \E w : SectorWritten(w)
        BY <1>9, <2>5 DEF BOOT_WriteAndValidateCurrentSector
      <3> QED BY <1>r, <2>2, <2>5, <3>1 DEF Halt
    <2> QED BY <2>3, <2>4, <2>5
  <1> QED BY <1>3, <1>4, <1>5, <1>6, <1>7, <1>8, <1>9 DEF MainLoop

LEMMA SectorStep ==
  ASSUME BootInv, LossesCounted, LoopsCounted, StatesAgree, NumberInTurn, FirstSectorBuffered,
         [LoadNext]_vars
  PROVE  NumberInTurn' /\ FirstSectorBuffered'
  <1>0. /\ FlashInv /\ BootTypes /\ IsTransfer(transfer)
        /\ host \in Loading => image \in Images
    BY DEF BootInv, FlashInv, ProgressTypes, OneImageInv, ReceivedFromHost
  <1>b. Undisturbed' => Undisturbed /\ ~PowerFails
    BY <1>0, UndisturbedBefore
  <1>l. lost'["other"] = 0 => lost["other"] = 0
    <2>1. lost'["other"] >= lost["other"] /\ lost["other"] \in Nat
      BY LossesStep DEF LossesCounted, LossKinds
    <2> QED BY <2>1
  <1>1. CASE Device
    BY <1>0, <1>b, <1>l, <1>1, DeviceKeepsSector DEF Device
  <1>2. CASE HostStep
    <2>1. CASE lost'["other"] = 0
      <3>1. NumberInTurn' /\ (Undisturbed => FirstSectorBuffered')
        BY <1>2, <2>1, HostKeepsSector
      <3> QED BY <1>b, <3>1 DEF FirstSectorBuffered
    <2>2. CASE lost'["other"] # 0
      BY <2>2 DEF NumberInTurn, FirstSectorBuffered, Undisturbed
    <2> QED BY <2>1, <2>2
  <1>3. ASSUME canState' \notin LoopNumbered
        PROVE  NumberInTurn' /\ FirstSectorBuffered'
    BY <1>3 DEF NumberInTurn, FirstSectorBuffered, LoopNumbered
  <1>4. CASE Interrupt
    <2>1. host' = "idle" /\ UNCHANGED <<canState, transfer, lost>>
          /\ SectorUntouched /\ HostStays
      BY <1>4 DEF Interrupt, boot, bus, SectorUntouched, HostStays, Loading, progress
    <2>2. NumberInTurn'
      BY <2>1 DEF NumberInTurn, Over
    <2> QED BY <1>b, <2>1, <2>2, SectorStays
  <1>5. CASE RunApp
    <2>1. /\ UNCHANGED <<host, image>> /\ RxActionRequest("RUN") /\ host \in Over
      BY <1>5 DEF RunApp, program
    <2>2. SectorUntouched /\ HostStays
      BY <1>0, <2>1, OthersLeaveSector DEF HostStays
    <2>3. FirstSectorBuffered'
      BY <1>b, <2>2, SectorStays
    <2>4. NumberInTurn'
      BY <2>1 DEF NumberInTurn
    <2> QED BY <2>3, <2>4
  <1>6. ASSUME NEW i \in Images \union {NoImage}, StartSession(i)
        PROVE  NumberInTurn' /\ FirstSectorBuffered'
    <2>1. CASE AtBeginning
      <3>1. canState' = "NO_COMMUNICATION"
        BY <1>6, <2>1 DEF StartSession, AtBeginning
      <3> QED BY <1>3, <3>1 DEF LoopNumbered
    <2>2. CASE ~AtBeginning
      <3>1. host' = "reset"
            /\ UNCHANGED <<canState, bootState, validations, progress, lost, mishaps>>
        BY <1>6, <2>2 DEF StartSession, persistent
      <3>2. NumberInTurn'
        BY <3>1 DEF NumberInTurn
      <3>3. FirstSectorBuffered'
        BY <3>1 DEF FirstSectorBuffered, Loading, Undisturbed, progress
      <3> QED BY <3>2, <3>3
    <2> QED BY <2>1, <2>2
  <1>7. CASE PowerFails \/ PowerCycle
    <2>1. \E m : Restarted(m)
      BY <1>7 DEF PowerFails, PowerFailure, PowerFailureInSector,
            PowerFailureInStore, PowerFailureInReset, Cut, PowerCycle
    <2> QED BY <1>3, <2>1 DEF Restarted, LoopNumbered
  <1>8. CASE UNCHANGED vars
    BY <1>8 DEF vars, boot, progress, persistent, bus, program, counters, NumberInTurn,
                FirstSectorBuffered, Undisturbed
  <1> QED BY <1>1, <1>2, <1>4, <1>5, <1>6, <1>7, <1>8 DEF LoadNext

-----------------------------------------------------------------------------
(* Supervisor calls are served *)

LEMMA OwnIsServed == ASSUME NEW f PROVE Served(TableOf(Own), f)
  BY DEF Served

LEMMA FirstIsServed ==
  ASSUME OneEntry, NEW i \in Images, NEW j \in Images, NEW f, f[1] = SectorOf(j, 1)
  PROVE  Served(TableOf(i), f)
  BY DEF Served, OneEntry

\* What has been received of the first sector when it is written is all of it.
LEMMA FirstSectorIsWhole ==
  ASSUME FillsFlash, NumSectors > 1, FlashInv, LoopsCounted, FirstSectorBuffered, Undisturbed,
         WriteTurn, transfer.sector = 1
  PROVE  \E i \in Images : buffer = SectorOf(i, 1)
  <1>1. bootState = "LOAD" /\ canState = "RECEIVED_8_BYTES_CRC" /\ validations = 0
    BY DEF WriteTurn, In
  <1>2. /\ LoopInSector(transfer)
        /\ transfer.position = SectorLoops \/ transfer.loop = Total
    BY <1>1 DEF LoopsCounted, SectorStates, LoopNumbered
  <1>3. transfer.position = SectorLoops
    <2>1. transfer.position \in -1 .. SectorLoops /\ transfer.loop \in Nat
      BY DEF FlashInv, ProgressTypes, IsTransfer
    <2>2. transfer.loop = transfer.position + 1
      <3>1. (1 - 1) * SectorLoops = 0
        OBVIOUS
      <3> QED BY <1>2, <2>1, <3>1 DEF LoopInSector
    <2>3. Total >= SectorLoops + SectorLoops
      <3>1. ASSUME NEW n \in Nat, NEW s \in Nat, n > 1 PROVE n * s >= s + s
        <4>1. n * s = (n - 2) * s + 2 * s
          BY SMTT(30)
        <4>2. (n - 2) * s >= 0
          BY <3>1, SMTT(30)
        <4> QED BY <3>1, <4>1, <4>2
      <3> QED BY <3>1 DEF Total
    <2> QED BY <1>2, <2>1, <2>2, <2>3 DEF FillsFlash
  <1>4. PICK i \in Images : \A k \in 1 .. SectorLoops : buffer[k] = <<i, k>>
    BY <1>1, <1>3 DEF FirstSectorBuffered, LoopNumbered
  <1>5. buffer = [k \in 1 .. SectorLoops |-> <<i, k>>]
    BY <1>4 DEF FlashInv, ProgressTypes, Sectors
  <1>6. SectorOf(i, 1) = [k \in 1 .. SectorLoops |-> <<i, k>>]
    <2>1. \A k \in 1 .. SectorLoops : (1 - 1) * SectorLoops + k = k
      OBVIOUS
    <2> QED BY <2>1 DEF SectorOf
  <1> QED BY <1>5, <1>6

\* A sector of an application that is written in place of that of another.
LEMMA WriteIsServed ==
  ASSUME FillsFlash, NumSectors > 1, OneEntry, BootInv, LoopsCounted, FirstSectorBuffered,
         CallsServed, Undisturbed, Undisturbed', BOOT_WriteAndValidateCurrentSector
  PROVE  CallsServed'
  <1>1. /\ WriteTurn /\ Raised(flash, store.table) /\ UNCHANGED store /\ mode = "boot"
        /\ Served(store.table, flash) /\ mishaps = 0 /\ mishaps' = 0
    BY DEF BOOT_WriteAndValidateCurrentSector, WriteTurn, In, CallsServed, Raised, Undisturbed
  <1>2. FlashInv /\ flash \in FlashContents /\ buffer \in Sectors
    BY DEF BootInv, FlashInv, ProgressTypes
  <1>3. (store.available \/ store.table = TableOf(Own))'
    BY <1>1 DEF CallsServed
  <1>4. CASE transfer.sector \notin 1 .. NumSectors
    BY <1>1, <1>3, <1>4 DEF BOOT_WriteAndValidateCurrentSector, CallsServed, Served
  <1>5. CASE transfer.sector \in 1 .. NumSectors
    <2>1. PICK w \in Outcomes(flash[transfer.sector], buffer, TornSectors) :
                 /\ flash' = [flash EXCEPT ![transfer.sector] = w.left]
                 /\ mishaps' = mishaps + (IF w.ok THEN 0 ELSE 1)
                 /\ Served(store.table, flash') => UNCHANGED mode
      BY <1>1, <1>5, Zenon DEF BOOT_WriteAndValidateCurrentSector
    <2>2. w.left = buffer
      <3>1. CASE w.ok = FALSE
        BY <1>1, <2>1, <3>1
      <3>2. w.ok = FALSE \/ (w.ok = TRUE /\ w.left = buffer)
        BY OutcomeIsNew
      <3> QED BY <3>1, <3>2
    <2>3. Served(store.table, flash')
      <3>1. CASE store.table = TableOf(Own)
        BY <3>1, OwnIsServed
      <3>2. CASE store.table # TableOf(Own)
        <4>1. PICK i \in Images, j \in Images :
                 store.table = TableOf(i) /\ flash[1] = SectorOf(j, 1)
          BY <1>1, <3>2 DEF Served
        <4>2. CASE transfer.sector = 1
          <5>1. PICK k \in Images : buffer = SectorOf(k, 1)
            BY <1>1, <1>2, <4>2, FirstSectorIsWhole
          <5>2. flash'[1] = SectorOf(k, 1)
            BY <1>2, <2>1, <2>2, <4>2, <5>1 DEF FlashContents
          <5> QED BY <4>1, <5>2, FirstIsServed
        <4>3. CASE transfer.sector # 1
          <5>1. flash'[1] = SectorOf(j, 1)
            BY <1>2, <2>1, <4>1, <4>3 DEF FlashContents
          <5> QED BY <4>1, <5>1, FirstIsServed
        <4> QED BY <4>2, <4>3
      <3> QED BY <3>1, <3>2
    <2>4. Served(store'.table, flash') /\ mode' # "halted"
      BY <1>1, <2>1, <2>3
    <2> QED BY <1>3, <2>4 DEF CallsServed, Served
  <1> QED BY <1>4, <1>5

\* The received table leads into the first sector of its application.
LEMMA StoreIsServed ==
  ASSUME OneEntry, BootInv, OwnTableInv, AllOnBoard, CallsServed, Undisturbed, Undisturbed',
         StoreProgram
  PROVE  CallsServed'
  <1>1. mishaps' = 0 /\ bootState = "LOAD" /\ canState = "VALIDATED_VECTOR_TABLE"
    BY DEF Undisturbed, StoreProgram, StoreTurn, In
  <1>2. /\ store' = ProgramStore /\ UNCHANGED flash
        /\ \/ Restarted("boot") /\ Served(ProgramStore.table, flash)
           \/ Restarted("halted") /\ ~Served(ProgramStore.table, flash)
    BY <1>1, ProgramIsStored
  <1>3. PICK i \in Images : transfer.tableCrc = TableOf(i) /\ transfer.crc \in CrcsOf(i)
    BY <1>1 DEF BootInv, OneImageInv, ValidatedOfOne
  <1>4. transfer.crc = flash /\ transfer.table = TableOf(i)
    BY <1>1, <1>3 DEF AllOnBoard, TableStates
  <1>5. flash = ProgramOf(i)
    BY <1>3, <1>4, FlashOfOne DEF BootInv, FlashInv, ProgressTypes
  <1>6. flash[1] = SectorOf(i, 1)
    BY <1>5 DEF ProgramOf
  <1>7. Served(TableOf(i), flash)
    BY <1>6, FirstIsServed
  <1>8. ProgramStore.table = TableOf(i) /\ ProgramStore.available = TRUE
    BY <1>4 DEF ProgramStore
  <1>9. mode' = "boot" /\ Served(store'.table, flash')
    BY <1>2, <1>7, <1>8 DEF Restarted
  <1>10. store'.available
    BY <1>2, <1>8, Zenon
  <1> QED BY <1>9, <1>10 DEF CallsServed, Served

\* A reset puts the own table in force before it erases what the other leads to.
LEMMA ResetIsServed ==
  ASSUME BootInv, OwnTableInv, CallsServed, Undisturbed, Undisturbed', BOOT_ResetBootloader
  PROVE  CallsServed'
  <1>1. /\ mishaps = 0 /\ mishaps' = 0 /\ mishaps \in Nat /\ ~Mishap
        /\ Served(store.table, flash) /\ Raised(flash, store.table)
        /\ store.available \/ store.table = TableOf(Own)
    BY DEF Undisturbed, BootInv, BootTypes, CallsServed, Raised, Mishap
  <1>2. CASE Refused(ResetStore)
    <2>1. Restarted("boot") /\ UNCHANGED <<store, flash>>
      BY <1>1, <1>2, Zenon DEF BOOT_ResetBootloader, SoftwareReset, persistent
    <2> QED BY <1>1, <2>1 DEF CallsServed, Served, Restarted
  <1>3. CASE ~Refused(ResetStore)
    <2>1. PICK w \in Outcomes(store, ResetStore, TornStores(ResetStore)) :
              /\ store' = w.left
              /\ CASE ~w.ok -> /\ SoftwareReset(Served(w.left.table, flash))
                               /\ Mishap /\ UNCHANGED flash
                   [] w.ok /\ ~Served(w.left.table, flash) ->
                        Halt /\ UNCHANGED <<flash, mishaps>>
                   [] w.ok /\ Served(w.left.table, flash) -> EraseApp
      BY <1>1, <1>3, Zenon DEF BOOT_ResetBootloader
    <2>2. w.ok /\ w.left = ResetStore
      <3>1. ~(w.ok = FALSE)
        BY <1>1, <2>1, Zenon
      <3>2. w.ok = FALSE \/ (w.ok = TRUE /\ w.left = ResetStore)
        BY OutcomeIsNew
      <3> QED BY <3>1, <3>2
    <2>3. ResetStore.table = TableOf(Own)
      <3>1. CASE store = InitialStore
        BY <3>1 DEF ResetStore, Loaded, InitialStore
      <3>2. CASE OwnTableSaved
        <4>1. Loaded = store /\ ~HasZero(Loaded.backup) /\ Loaded.backup = TableOf(Own)
          BY <3>2, OwnHasNoZero DEF OwnTableSaved, Loaded
        <4>2. ResetStore.table = IF store.available THEN TableOf(Own) ELSE store.table
          BY <4>1 DEF ResetStore
        <4> QED BY <1>1, <4>2
      <3> QED BY <1>1, <3>1, <3>2 DEF OwnTableInv
    <2>4. Served(w.left.table, flash)
      BY <2>2, <2>3, OwnIsServed
    <2>5. Restarted("boot")
      <3>1. EraseApp
        BY <2>1, <2>2, <2>4
      <3> QED BY <1>1, <3>1, Zenon DEF EraseApp
    <2>6. store'.table = TableOf(Own) /\ mode' = "boot"
      BY <2>1, <2>2, <2>3, <2>5 DEF Restarted
    <2> QED BY <2>6 DEF CallsServed, Served
  <1> QED BY <1>2, <1>3

LEMMA CallsStep ==
  ASSUME FillsFlash, NumSectors > 1, OneEntry, BootInv, OwnTableInv, LoopsCounted, AllOnBoard,
         LossesCounted, FirstSectorBuffered, CallsServed, [LoadNext]_vars
  PROVE  CallsServed'
  <1> SUFFICES ASSUME Undisturbed' PROVE CallsServed'
    BY DEF CallsServed
  <1>0. Undisturbed /\ ~PowerFails
    BY UndisturbedBefore DEF BootInv
  <1>1. ASSUME UNCHANGED <<store, flash>>, mode' # "halted" \/ UNCHANGED mode
        PROVE  CallsServed'
    BY <1>0, <1>1 DEF CallsServed, Served
  <1>2. CASE BOOT_WriteAndValidateCurrentSector
    BY <1>0, <1>2, WriteIsServed
  <1>3. CASE StoreProgram
    BY <1>0, <1>3, StoreIsServed
  <1>4. CASE BOOT_ResetBootloader
    BY <1>0, <1>4, ResetIsServed
  <1>5. CASE Run
    <2>1. UNCHANGED <<store, flash>>
      BY <1>5 DEF Run, persistent
    <2>2. Raised(flash, store.table) /\ Served(store.table, flash)
      BY <1>0 DEF CallsServed, Raised
    <2>3. Restarted("app") \/ UNCHANGED mode
      BY <1>5, <2>2, Zenon DEF Run
    <2> QED BY <1>1, <2>1, <2>3 DEF Restarted
  <1>6. CASE Wait \/ TimeOut \/ Load \/ BOOT_GetBootStateDuringError
    BY <1>1, <1>6 DEF Wait, TimeOut, Load, BOOT_GetBootStateDuringError, persistent, processor
  <1>7. CASE HostStep
    BY <1>1, <1>7, HostLeaves DEF persistent
  <1>8. CASE Interrupt \/ RunApp \/ \E i \in Images \union {NoImage} : StartSession(i)
    BY <1>1, <1>8 DEF Interrupt, RunApp, StartSession, RxActionRequest, boot, persistent,
                      processor
  <1>9. CASE PowerCycle
    BY <1>1, <1>9 DEF PowerCycle, Restarted, persistent
  <1>10. CASE UNCHANGED vars
    BY <1>1, <1>10 DEF vars, boot, persistent, processor
  <1> QED BY <1>0, <1>2, <1>3, <1>4, <1>5, <1>6, <1>7, <1>8, <1>9, <1>10
          DEF LoadNext, Device, MainLoop

LEMMA InitialCalls == LoadInit => CallsInv
  <1> SUFFICES ASSUME LoadInit PROVE CallsInv
    OBVIOUS
  <1>1. LossesCounted
    BY DEF LoadInit, Init, LossesCounted, LossKinds
  <1>2. NumberInTurn /\ FirstSectorBuffered
    BY DEF LoadInit, Init, NumberInTurn, FirstSectorBuffered
  <1>3. CASE store = InitialStore
    <2>1. store.table = TableOf(Own) /\ mode = "boot"
      BY <1>3 DEF InitialStore, LoadInit, Init
    <2> QED BY <1>1, <1>2, <2>1 DEF CallsInv, CallsServed, Served
  <1>4. ASSUME NEW i \in Images, store = InstalledStore(i), flash = ProgramOf(i)
        PROVE  CallsInv
    <2>1. flash[1] = SectorOf(i, 1) /\ store.table = TableOf(i) /\ store.available = TRUE
      BY <1>4 DEF ProgramOf, InstalledStore
    <2>2. Served(store.table, flash) /\ mode = "boot"
      BY <2>1 DEF Served, LoadInit, Init
    <2>3. store.available
      BY <2>1, Zenon
    <2> QED BY <1>1, <1>2, <2>2, <2>3 DEF CallsInv, CallsServed
  <1> QED BY <1>3, <1>4 DEF LoadInit, Init

\* If the applications have their handler of supervisor calls in one place, no
\* flash operation and no power fails and no data is lost, the bootloader never
\* calls a handler that is not there: not while the first sector of one
\* application is written over that of another, not between the table that is
\* put in force and the reset, and not while an application is erased
\* (boot.c:296-308, boot.c:162-216).
THEOREM SupervisorCallsServed == FillsFlash /\ NumSectors > 1 => (LoadSpec => []NeverHalts)
  <1> SUFFICES ASSUME FillsFlash, NumSectors > 1 PROVE LoadSpec => []NeverHalts
    OBVIOUS
  <1>o. CASE ~OneEntry
    <2>1. NeverHalts
      BY <1>o DEF NeverHalts, OneEntry
    <2> QED BY <2>1, PTL
  <1> SUFFICES ASSUME OneEntry PROVE LoadSpec => []NeverHalts
    BY <1>o
  <1>1. LoadInit => CallsInv /\ ReportInv /\ OwnTableInv
    BY InitialCalls, InitialReport
       DEF LoadInit, Init, OwnTableInv, OwnTableSaved, InstalledStore
  <1>2. BootInv /\ BootInv' /\ OwnTableInv /\ ReportInv /\ CallsInv /\ [LoadNext]_vars
          => CallsInv' /\ ReportInv' /\ OwnTableInv'
    BY ReportStep, OwnTableStep, LossesStep, SectorStep, CallsStep
       DEF CallsInv, ReportInv
  <1>3. CallsInv => NeverHalts
    BY DEF CallsInv, CallsServed, Undisturbed, NeverHalts
  <1> QED BY <1>1, <1>2, <1>3, BootInvariant, PTL DEF LoadSpec

-----------------------------------------------------------------------------
(* An upload survives lost loop numbers and a lost word of the table *)

\* What the host repeats itself for is all that has been lost.
Bearable == Undisturbed /\ lost["table"] <= 1 /\ lost["number"] < Tries

Whole(n) == n % SubSectorLoops = 0

\* The applications fill the flash, and sub-sectors fill a sector.
Fits ==
    /\ FillsFlash /\ NumSectors > 1 /\ Whole(SectorLoops)
    /\ OneEntry /\ Attempts >= 3

\* The loop whose number is taken.
Expected == IF transfer.loop = 0 THEN 1 ELSE transfer.loop

NumberStates == {"WAIT_FOR_DATA_LOOPS", "RECEIVED_8_BYTES_DATA", "RECEIVED_8_BYTES_CRC"}

\* A loop number is waited for.
NumberAwaited ==
    /\ canState \in NumberStates
    /\ canState = "WAIT_FOR_DATA_LOOPS" => Expected = 1
    /\ canState = "RECEIVED_8_BYTES_CRC" => validations # 0 /\ transfer.position = 0

\* The sub-sector lies in the sector that is received.
InSector ==
    /\ transfer.sector \in 1 .. NumSectors
    /\ Whole(start - 1)
    /\ (transfer.sector - 1) * SectorLoops <= start - 1
    /\ start - 1 + SubSectorLoops <= transfer.sector * SectorLoops

\* The host loads an application and has not begun anew.
FirstAttempt ==
    /\ image \in Images /\ Loops[image] = Total
    /\ bootState = "LOAD" /\ ~tableOnly /\ attempts = 0

\* What has been received is what the host sends.
OnBoardRight == transfer.onBoard = SubSeq(ProgramOf(image), 1, transfer.sector - 1)
BufferRight ==
    \A k \in 1 .. transfer.position :
        buffer[k] = <<image, (transfer.sector - 1) * SectorLoops + k>>
SectorRight ==
    /\ transfer.sector \in 1 .. NumSectors
    /\ loop - 1 = transfer.sector * SectorLoops
    /\ buffer = SectorOf(image, transfer.sector)
    /\ transfer.position = SectorLoops \/ transfer.loop = Total

\* Every sub-sector that has to be repeated has lost a loop number.
Repeated(n) == tries \in Nat /\ tries + n <= lost["number"]

\* The host is in the middle of a sub-sector.
SendingWords ==
    /\ FirstAttempt /\ OnBoardRight /\ BufferRight /\ InSector
    /\ Expected \in start .. start + SubSectorLoops - 1
    /\ loop \in start .. start + SubSectorLoops - 1
    /\ acks = <<>> /\ Repeated(0)

BeforeNumber ==
    /\ SendingWords /\ NumberAwaited
    /\ loop <= Expected \/ Repeated(1)

BeforeData ==
    /\ SendingWords
    /\ \/ canState = "RECEIVED_LOOP_NUMBER" /\ loop = Expected
       \/ NumberAwaited /\ (loop < Expected \/ Repeated(1))

AfterSubSector ==
    /\ FirstAttempt /\ OnBoardRight /\ loop = start + SubSectorLoops /\ InSector
    /\ \/ /\ acks = <<Ack("SUB_SECTOR", loop > Total)>>
          /\ canState = "RECEIVED_8_BYTES_DATA"
          /\ \/ SectorRight
             \/ BufferRight /\ Expected = loop /\ transfer.position # SectorLoops
       \/ /\ acks = <<>> /\ NumberAwaited /\ BufferRight
          /\ Expected \in start .. loop - 1 /\ Repeated(1)

BeforeCrc ==
    /\ FirstAttempt /\ OnBoardRight /\ SectorRight
    /\ start = loop /\ tries = 0 /\ acks = <<>>
    /\ canState = "RECEIVED_8_BYTES_DATA"

AfterCrc ==
    /\ FirstAttempt /\ start = loop /\ tries = 0
    /\ \/ /\ OnBoardRight /\ SectorRight /\ acks = <<>> /\ WriteTurn
          /\ transfer.crc = SubSeq(ProgramOf(image), 1, transfer.sector)
       \/ /\ acks = <<Ack("CRC", TRUE)>> /\ loop <= Total
          /\ OnBoardRight /\ InSector /\ Expected = loop /\ NumberAwaited /\ transfer.position = 0
       \/ /\ acks = <<Ack("CRC", TRUE)>> /\ loop = Total + 1
          /\ canState = "FINISHED_FINAL_VALIDATION" /\ transfer.received = 0

\* The vector table is received.
TableRight(n) == \A k \in 1 .. n : transfer.table[k] = TableOf(image)[k]
TableGoes == image \in Images /\ bootState = "LOAD" /\ tableOnly
\* An attempt failed only because a word was lost.
LastAttempt == attempts = 0 \/ (attempts <= 2 /\ lost["table"] = 1)
SecondAttempt == attempts = 1 /\ lost["table"] = 1
WordLost ==
    /\ attempts = 0 /\ lost["table"] = 1 /\ acks = <<>>
    /\ canState = "FINISHED_FINAL_VALIDATION"
TableReceived ==
    /\ canState = "FINISHED_TRANSFER_VECTOR_TABLE"
    /\ SecondAttempt \/ (LastAttempt /\ transfer.table = TableOf(image))
BeforeWord ==
    /\ TableGoes
    /\ \/ /\ acks = <<>> /\ canState = "FINISHED_FINAL_VALIDATION" /\ LastAttempt
          /\ transfer.received = loop - 1 /\ TableRight(loop - 1)
       \/ WordLost /\ transfer.received = loop - 2
       \/ /\ SecondAttempt /\ loop = 1 /\ transfer.received = TableWords - 1
          /\ canState = "FINISHED_FINAL_VALIDATION" /\ acks = <<>>
       \/ /\ SecondAttempt /\ canState = "FINISHED_TRANSFER_VECTOR_TABLE"
          /\ acks = <<Ack("TABLE", FALSE)>>
AfterTable ==
    /\ TableGoes
    /\ \/ acks = <<Ack("TABLE", FALSE)>> /\ TableReceived
       \/ WordLost /\ transfer.received = TableWords - 1
BeforeTableCrc == TableGoes /\ acks = <<>> /\ TableReceived
AfterTableCrc ==
    \/ acks = <<Ack("TABLE_CRC", TRUE)>>
    \/ /\ TableGoes /\ acks = <<Ack("TABLE_CRC", FALSE)>> /\ SecondAttempt
       /\ canState = "FINISHED_FINAL_VALIDATION" /\ transfer.received = 0

\* Up to the first loop.
Beginning == loop = 1 /\ start = 1 /\ tries = 0 /\ attempts = 0 /\ ~tableOnly
FirstAwaited == canState = "WAIT_FOR_DATA_LOOPS" /\ bootState = "LOAD" /\ FirstLoop(transfer)
Preparing ==
    /\ host \in {"reset", "resetAck", "resetPoll", "transfer", "transferAck", "info", "infoAck"} =>
          Beginning
    /\ host \in {"reset", "resetPoll", "transfer", "info"} => acks = <<>>
    /\ host \in {"resetAck", "transferAck", "infoAck"} => Len(acks) <= 1
    /\ host = "infoAck" /\ Yes("INFO") => FirstAwaited /\ Loops[image] = Total

BootBegins ==
    /\ canState = "NO_COMMUNICATION" => bootState \in {"WAIT", "RUN"}
    /\ canState = "WAIT_FOR_INFO" =>
          FirstLoop(transfer) /\ bootState \in {"WAIT", "RUN", "LOAD"}

Uploading ==
    /\ host = "number" => BeforeNumber
    /\ host = "data" => BeforeData
    /\ host = "subSectorAck" => AfterSubSector
    /\ host = "crc" => BeforeCrc
    /\ host = "crcAck" => AfterCrc
    /\ host = "table" => BeforeWord
    /\ host = "tableAck" => AfterTable
    /\ host = "tableCrc" => BeforeTableCrc
    /\ host = "tableCrcAck" => AfterTableCrc
    /\ WriteTurn => host \in Over \union {"crcAck"}
    /\ host # "failed"

UploadGoesOn == Bearable => Preparing /\ Uploading

-----------------------------------------------------------------------------
(* Sub-sectors and sectors *)

LEMMA Quotient ==
  ASSUME NEW n \in Nat \ {0}, NEW a \in Nat, NEW r \in 0 .. n - 1
  PROVE  ((a * n) + r) % n = r /\ ((a * n) + r) \div n = a
  BY SMTT(30)

LEMMA Multiples ==
  ASSUME NEW n \in Nat \ {0}, NEW a \in Nat, a % n = 0
  PROVE  \E q \in Nat : a = q * n
  <1>1. a = (n * (a \div n)) + (a % n) /\ a \div n \in Nat
    BY SMTT(30)
  <1>2. a = (a \div n) * n
    BY <1>1, SMTT(30)
  <1> QED BY <1>1, <1>2

LEMMA NextMultiple ==
  ASSUME NEW n \in Nat \ {0}, NEW a \in Nat, NEW b \in Nat, a % n = 0, b % n = 0, a < b
  PROVE  a + n <= b
  <1>a. PICK p \in Nat : a = p * n
    BY Multiples
  <1>b. PICK q \in Nat : b = q * n
    BY Multiples
  <1>1. a = p * n /\ b = q * n
    BY <1>a, <1>b
  <1>2. CASE q <= p
    <2>1. q * n <= p * n
      BY <1>2, SMTT(30)
    <2> QED BY <1>1, <2>1
  <1>3. CASE q >= p + 1
    <2>1. q * n >= (p + 1) * n /\ (p + 1) * n = p * n + n
      BY <1>3, SMTT(30)
    <2> QED BY <1>1, <2>1
  <1> QED BY <1>2, <1>3

LEMMA WholeSums ==
  /\ Whole(0) /\ Whole(SubSectorLoops)
  /\ \A a, b \in Nat : Whole(a) /\ Whole(b) => Whole(a + b)
  /\ \A a, s \in Nat : Whole(a) => Whole(s * a)
  <1>1. ASSUME NEW q \in Nat PROVE Whole(q * SubSectorLoops)
    <2>1. q * SubSectorLoops = (q * SubSectorLoops) + 0 /\ 0 \in 0 .. SubSectorLoops - 1
      OBVIOUS
    <2> QED BY <2>1, Quotient DEF Whole
  <1>2. Whole(0) /\ Whole(SubSectorLoops)
    <2>1. 0 * SubSectorLoops = 0 /\ 1 * SubSectorLoops = SubSectorLoops
      OBVIOUS
    <2> QED BY <1>1, <2>1
  <1>3. ASSUME NEW a \in Nat, NEW b \in Nat, Whole(a), Whole(b) PROVE Whole(a + b)
    <2>1. PICK p \in Nat : a = p * SubSectorLoops
      BY <1>3, Multiples DEF Whole
    <2>2. PICK q \in Nat : b = q * SubSectorLoops
      BY <1>3, Multiples DEF Whole
    <2>3. a + b = (p + q) * SubSectorLoops /\ p + q \in Nat
      BY <2>1, <2>2, SMTT(30)
    <2> QED BY <1>1, <2>3
  <1>4. ASSUME NEW a \in Nat, NEW s \in Nat, Whole(a) PROVE Whole(s * a)
    <2>1. PICK q \in Nat : a = q * SubSectorLoops
      BY <1>4, Multiples DEF Whole
    <2>2. s * a = (s * q) * SubSectorLoops /\ s * q \in Nat
      BY <2>1, SMTT(30)
    <2> QED BY <1>1, <2>2
  <1> QED BY <1>2, <1>3, <1>4

\* A sub-sector ends where the next one starts.
LEMMA SubSectorEnds ==
  ASSUME NEW s \in Nat, NEW n \in s .. s + SubSectorLoops - 1, s >= 1, Whole(s - 1)
  PROVE  /\ Whole(n) <=> n = s + SubSectorLoops - 1
         /\ Whole(s + SubSectorLoops - 1)
  <1>1. Whole(s + SubSectorLoops - 1)
    <2>1. s + SubSectorLoops - 1 = (s - 1) + SubSectorLoops
      OBVIOUS
    <2> QED BY <2>1, WholeSums
  <1>2. ASSUME Whole(n) PROVE n = s + SubSectorLoops - 1
    <2>1. s - 1 < n /\ s - 1 \in Nat /\ n \in Nat
      OBVIOUS
    <2>2. s - 1 + SubSectorLoops <= n
      BY <1>2, <2>1, NextMultiple DEF Whole
    <2> QED BY <2>2
  <1> QED BY <1>1, <1>2

\* Sectors begin and end where sub-sectors do.
LEMMA SectorsAreWhole ==
  ASSUME Fits, NEW s \in 1 .. NumSectors
  PROVE  /\ Whole((s - 1) * SectorLoops) /\ Whole(s * SectorLoops)
         /\ (s - 1) * SectorLoops \in Nat /\ s * SectorLoops \in Nat
         /\ s * SectorLoops = (s - 1) * SectorLoops + SectorLoops
         /\ s * SectorLoops <= Total /\ SubSectorLoops <= SectorLoops
         /\ s < NumSectors => s * SectorLoops + SectorLoops <= Total
         /\ Total \in Nat /\ Whole(Total)
  <1>1. Whole(SectorLoops) /\ SectorLoops \in Nat \ {0}
    BY DEF Fits
  <1>2. (s - 1) * SectorLoops \in Nat /\ s * SectorLoops \in Nat
    BY SMTT(30)
  <1>3. \A n \in Nat : Whole(n * SectorLoops)
    BY <1>1, WholeSums
  <1>4. s * SectorLoops = (s - 1) * SectorLoops + SectorLoops
    BY SMTT(30)
  <1>5. s * SectorLoops <= Total
    BY SMTT(30) DEF Total
  <1>6. SubSectorLoops <= SectorLoops
    <2>1. 0 < SectorLoops /\ 0 % SubSectorLoops = 0 /\ SectorLoops % SubSectorLoops = 0
      BY <1>1, WholeSums DEF Whole
    <2>2. 0 + SubSectorLoops <= SectorLoops
      BY <2>1, NextMultiple
    <2> QED BY <2>2
  <1>7. s < NumSectors => s * SectorLoops + SectorLoops <= Total
    <2>1. s * SectorLoops + SectorLoops = (s + 1) * SectorLoops
      BY SMTT(30)
    <2>2. s + 1 <= NumSectors => (s + 1) * SectorLoops <= NumSectors * SectorLoops
      BY SMTT(30)
    <2> QED BY <2>1, <2>2 DEF Total
  <1>8. Total \in Nat
    BY SMTT(30) DEF Total
  <1>9. s - 1 \in Nat /\ s \in Nat /\ NumSectors \in Nat
    OBVIOUS
  <1>10. Whole((s - 1) * SectorLoops) /\ Whole(s * SectorLoops) /\ Whole(Total)
    BY <1>3, <1>9 DEF Total
  <1> QED BY <1>2, <1>4, <1>5, <1>6, <1>7, <1>8, <1>10

\* What is expected follows from the sector and the position in it.
LEMMA ExpectedInSector ==
  ASSUME FlashInv, LoopsCounted, bootState = "LOAD",
         canState \in NumberStates \union {"RECEIVED_LOOP_NUMBER"}
  PROVE  /\ transfer.position \in 0 .. SectorLoops /\ transfer.loop \in Nat
         /\ transfer.sector \in Nat /\ Expected \in 1 .. Total
         /\ Expected = (transfer.sector - 1) * SectorLoops + transfer.position + 1
         /\ transfer.total = Total
         /\ canState # "WAIT_FOR_DATA_LOOPS" => transfer.loop = Expected
  <1>1. /\ transfer.position \in -1 .. SectorLoops /\ transfer.loop \in Nat
        /\ transfer.sector \in Nat
    BY DEF FlashInv, ProgressTypes, IsTransfer
  <1>2. /\ LoopInSector(transfer) \/ (FirstLoop(transfer) /\ canState \notin LoopNumbered)
        /\ transfer.total = Total
    BY DEF LoopsCounted, NumberStates, SectorStates
  <1>3. CASE LoopInSector(transfer)
    BY <1>1, <1>2, <1>3 DEF LoopInSector, Expected
  <1>4. CASE FirstLoop(transfer) /\ canState \notin LoopNumbered
    <2>1. (1 - 1) * SectorLoops = 0
      OBVIOUS
    <2>2. Total \in Nat /\ Total >= 1
      BY SMTT(30) DEF Total
    <2>3. canState = "WAIT_FOR_DATA_LOOPS"
      BY <1>4 DEF LoopNumbered, NumberStates
    <2> QED BY <1>1, <1>2, <1>4, <2>1, <2>2, <2>3 DEF FirstLoop, Expected
  <1> QED BY <1>2, <1>3, <1>4

-----------------------------------------------------------------------------
(* Messages between the host and the bootloader *)

\* Nothing but loop numbers and words of the vector table is lost.
LEMMA OtherArrives ==
  ASSUME LossesCounted, Bearable, Bearable'
  PROVE  ~Lose("other") /\ (\A a : Send(a) => acks' = Append(acks, a) /\ UNCHANGED lost)
  <1>1. ~Lose("other")
    <2>1. Lose("other") => lost' = [lost EXCEPT !["other"] = @ + 1]
      BY DEF Lose
    <2>2. lost["other"] = 0 /\ lost'["other"] = 0
      BY DEF Bearable, Undisturbed
    <2> QED BY <2>1, <2>2 DEF LossesCounted, LossKinds
  <1> QED BY <1>1 DEF Send

LEMMA FirstAck == ASSUME NEW a PROVE Append(<<>>, a) = <<a>>
  OBVIOUS

LEMMA NothingToRead ==
  ASSUME acks = <<>>
  PROVE  \A m : ~Answered(m) /\ ~Yes(m)
  <1>1. \A k : k \notin 1 .. Len(acks)
    BY EmptySeq
  <1> QED BY <1>1 DEF Answered, Yes, Answers

LEMMA AckToRead ==
  ASSUME NEW m, NEW y \in BOOLEAN, acks = <<Ack(m, y)>>
  PROVE  /\ Answered(m) => acks' = <<>>
         /\ ~Unanswered(m) /\ (Yes(m) <=> y)
  <1>1. Len(acks) = 1 /\ acks[1] = Ack(m, y) /\ acks \in Seq({Ack(m, y)})
    OBVIOUS
  <1>2. acks[1].message = m /\ acks[1].yes = y
    BY <1>1 DEF Ack
  <1>3. Answers(m) = {1}
    BY <1>1, <1>2 DEF Answers
  <1>4. SubSeq(acks, 2, 1) = <<>>
    BY <1>1
  <1>5. Answered(m) => acks' = <<>>
    BY <1>1, <1>3, <1>4 DEF Answered
  <1>6. ~Unanswered(m)
    BY <1>3 DEF Unanswered
  <1>7. Yes(m) <=> y
    BY <1>2, <1>3 DEF Yes
  <1> QED BY <1>5, <1>6, <1>7

LEMMA FewToRead ==
  ASSUME AcksTyped, Len(acks) <= 1, NEW m, Answered(m)
  PROVE  acks' = <<>>
  <1>1. PICK k \in 1 .. Len(acks) : acks' = SubSeq(acks, k + 1, Len(acks))
    BY DEF Answered, Answers
  <1>2. Len(acks) = 1 /\ k = 1
    <2>1. Len(acks) \in Nat
      BY DEF AcksTyped
    <2>2. k \in Int /\ 1 <= k /\ k <= Len(acks)
      BY <1>1, <2>1
    <2>3. Len(acks) <= 1
      OBVIOUS
    <2> QED BY <2>1, <2>2, <2>3
  <1>3. acks' = SubSeq(acks, 2, 1)
    BY <1>1, <1>2
  <1> QED BY <1>3 DEF AcksTyped

-----------------------------------------------------------------------------
(* Sub-sectors *)

LEMMA NumberGoes ==
  ASSUME Fits, FlashInv, LoopsCounted, StatesAgree, LossesCounted, Bearable, Bearable',
         BeforeNumber, SendNumber
  PROVE  BeforeData'
  <1>1. /\ bootState = "LOAD" /\ mode = "boot" /\ loop \in Nat /\ canState \in NumberStates
        /\ bootState' = bootState /\ UNCHANGED <<image, counters>>
    BY HostLeaves DEF StatesAgree, BeforeNumber, SendingWords, FirstAttempt, FlashInv, HostTypes,
          NumberAwaited, SendNumber, HostStep
  <1>2. /\ transfer.position \in 0 .. SectorLoops /\ transfer.loop \in Nat
        /\ transfer.sector \in Nat /\ Expected \in 1 .. Total
        /\ Expected = (transfer.sector - 1) * SectorLoops + transfer.position + 1
    BY <1>1, ExpectedInSector
  <1>3. IsTransfer(transfer) /\ lost["number"] \in Nat /\ tries \in Nat
    BY DEF FlashInv, ProgressTypes, LossesCounted, LossKinds, BeforeNumber, SendingWords, Repeated
  <1>s. SendingWords /\ NumberAwaited /\ (loop <= Expected \/ Repeated(1))
    BY DEF BeforeNumber
  <1>4. CASE RxLoopInfo(loop)
    <2> DEFINE current == Expected
               started == [transfer EXCEPT !.loop = current]
               first == \/ current = 1 /\ canState = "WAIT_FOR_DATA_LOOPS"
                        \/ canState = "RECEIVED_8_BYTES_CRC"
    <2>1. /\ transfer' = started /\ UNCHANGED <<validations, acks, lost>>
          /\ IF current = loop /\ (first \/ canState = "RECEIVED_8_BYTES_DATA")
             THEN canState' = "RECEIVED_LOOP_NUMBER" ELSE UNCHANGED canState
          /\ IF current = loop /\ first THEN buffer' = Fill(Zero, SectorLoops)
                                        ELSE UNCHANGED buffer
      BY <1>1, <1>4 DEF RxLoopInfo, Expected, NumberStates, Silent, bus
    <2>2. /\ transfer'.loop = Expected /\ transfer'.sector = transfer.sector
          /\ transfer'.position = transfer.position /\ transfer'.onBoard = transfer.onBoard
      BY <1>3, <2>1 DEF IsTransfer
    <2>3. Expected' = Expected
      BY <1>2, <2>2 DEF Expected
    <2>4. first => transfer.position = 0
      <3>1. transfer.sector >= 1
        BY <1>s DEF SendingWords, InSector
      <3>2. (transfer.sector - 1) * SectorLoops \in Nat
        BY <1>2, <3>1, SMTT(30)
      <3>3. canState = "RECEIVED_8_BYTES_CRC" => transfer.position = 0
        BY <1>s DEF NumberAwaited
      <3> QED BY <1>2, <3>2, <3>3
    <2>5. BufferRight'
      BY <1>1, <1>s, <2>1, <2>2, <2>4 DEF BufferRight, SendingWords
    <2>6. SendingWords'
      BY <1>1, <1>s, <2>1, <2>2, <2>3, <2>5 DEF SendingWords, FirstAttempt, OnBoardRight,
            InSector, Repeated, counters
    <2>7. CASE loop = Expected
      <3>1. canState' = "RECEIVED_LOOP_NUMBER"
        BY <1>1, <1>s, <2>1, <2>7 DEF NumberAwaited, NumberStates
      <3> QED BY <1>1, <2>3, <2>6, <2>7, <3>1 DEF BeforeData, counters
    <2>8. CASE loop # Expected
      <3>1. UNCHANGED <<canState, validations, lost, tries, loop>>
        BY <1>1, <2>1, <2>8 DEF counters
      <3>2. NumberAwaited'
        BY <1>s, <2>2, <2>3, <3>1 DEF NumberAwaited
      <3>3. (loop < Expected \/ Repeated(1))'
        BY <1>1, <1>2, <1>s, <2>3, <2>8, <3>1 DEF Repeated
      <3> QED BY <2>6, <3>2, <3>3 DEF BeforeData
    <2> QED BY <2>7, <2>8
  <1>5. CASE Lose("number") /\ UNCHANGED <<canState, validations, progress>>
    <2>1. lost'["number"] = lost["number"] + 1 /\ UNCHANGED acks
      BY <1>5 DEF Lose, LossesCounted, LossKinds
    <2>2. UNCHANGED <<canState, validations, transfer, buffer, bootState>>
      BY <1>1, <1>5 DEF progress
    <2>3. Expected' = Expected /\ NumberAwaited'
      BY <1>s, <2>2 DEF Expected, NumberAwaited
    <2>4. Repeated(0)' /\ Repeated(1)'
      BY <1>1, <1>3, <1>s, <2>1 DEF SendingWords, Repeated, counters
    <2>5. SendingWords'
      BY <1>1, <1>s, <2>1, <2>2, <2>3, <2>4 DEF SendingWords, FirstAttempt, OnBoardRight,
            InSector, BufferRight, counters
    <2> QED BY <2>3, <2>4, <2>5 DEF BeforeData
  <1> QED BY <1>1, <1>4, <1>5 DEF SendNumber, Sent

LEMMA BufferFull ==
  ASSUME NEW b \in Sectors, NEW i, NEW s \in Nat,
         \A k \in 1 .. SectorLoops : b[k] = <<i, (s - 1) * SectorLoops + k>>
  PROVE  b = SectorOf(i, s)
  BY DEF Sectors, SectorOf

\* A word that is expected.
LEMMA WordTaken ==
  ASSUME Fits, BootInv, LoopsCounted, LossesCounted, Bearable, Bearable',
         SendingWords, canState = "RECEIVED_LOOP_NUMBER", loop = Expected,
         RxProgramWord(<<image, loop>>), host = "data", SendData
  PROVE  \/ host' = "number" /\ BeforeNumber'
         \/ host' = "subSectorAck" /\ AfterSubSector'
  <1> DEFINE position == transfer.position + 1
             sector == transfer.sector
             last == loop = Total
             base == (sector - 1) * SectorLoops
  <1>0. FlashInv /\ IsTransfer(transfer) /\ buffer \in Sectors /\ loop \in Nat /\ start \in Nat
    BY DEF BootInv, FlashInv, ProgressTypes, HostTypes
  <1>s. /\ FirstAttempt /\ OnBoardRight /\ BufferRight /\ InSector
        /\ loop \in start .. start + SubSectorLoops - 1
        /\ acks = <<>> /\ Repeated(0)
    BY DEF SendingWords
  <1>1. /\ transfer.position \in 0 .. SectorLoops /\ transfer.loop = loop
        /\ sector \in 1 .. NumSectors /\ loop \in 1 .. Total
        /\ loop = base + position /\ transfer.total = Total
        /\ base \in Nat /\ SectorLoops \in Nat /\ base = (sector - 1) * SectorLoops
    <2>1. (sector - 1) * SectorLoops \in Nat
      BY <1>s, SectorsAreWhole DEF InSector
    <2>2. /\ transfer.position \in 0 .. SectorLoops /\ transfer.loop = loop
          /\ loop \in 1 .. Total /\ loop = (sector - 1) * SectorLoops + transfer.position + 1
          /\ transfer.total = Total
      BY <1>0, <1>s, ExpectedInSector DEF FirstAttempt
    <2>3. sector \in 1 .. NumSectors
      BY <1>s DEF InSector
    <2>4. loop = base + position
      <3>1. transfer.position \in Nat
        BY <2>2
      <3> HIDE DEF base
      <3>2. loop = base + transfer.position + 1 /\ base \in Nat
        BY <2>1, <2>2 DEF base
      <3> QED BY <3>1, <3>2
    <2>5. base \in Nat /\ SectorLoops \in Nat /\ base = (sector - 1) * SectorLoops
      BY <2>1
    <2> QED BY <2>2, <2>3, <2>4, <2>5, Zenon
  <1> HIDE DEF base
  <1>2. /\ sector * SectorLoops = base + SectorLoops /\ sector * SectorLoops <= Total
        /\ Whole(Total) /\ Total \in Nat
    BY <1>1, SectorsAreWhole
  <1>3. /\ base <= start - 1 /\ start - 1 + SubSectorLoops <= base + SectorLoops
        /\ start >= 1 /\ Whole(start - 1)
    <2>1. /\ Whole(start - 1) /\ base <= start - 1
          /\ start - 1 + SubSectorLoops <= sector * SectorLoops
      BY <1>s, Zenon DEF InSector, base
    <2>2. start >= 1
      BY <1>0, <1>1, <2>1
    <2> QED BY <1>2, <2>1, <2>2
  <1>4. position \in 1 .. SectorLoops
    <2>1. loop <= start + SubSectorLoops - 1 /\ SubSectorLoops \in Nat
      BY <1>0, <1>s
    <2>2. transfer.position \in Nat /\ loop = base + (transfer.position + 1)
      BY <1>1
    <2>3. start - 1 + SubSectorLoops <= base + SectorLoops
      BY <1>3
    <2> QED BY <1>0, <1>1, <2>1, <2>2, <2>3
  <1>e. /\ Whole(loop) <=> loop = start + SubSectorLoops - 1
        /\ last => loop = start + SubSectorLoops - 1
    BY <1>0, <1>2, <1>3, <1>s, SubSectorEnds
  <1>5. /\ buffer' = [buffer EXCEPT ![position] = <<image, loop>>]
        /\ canState' = "RECEIVED_8_BYTES_DATA"
        /\ transfer' = IF last THEN transfer
                       ELSE [transfer EXCEPT !.position = position, !.loop = @ + 1]
        /\ acks' = IF last THEN <<Ack("SUB_SECTOR", TRUE)>>
                   ELSE IF Whole(loop) THEN <<Ack("SUB_SECTOR", FALSE)>> ELSE <<>>
        /\ UNCHANGED lost
    <2>1. position \in 1 .. SectorLoops /\ transfer.loop = loop /\ transfer.total = Total
      BY <1>1, <1>4
    <2>2. /\ buffer' = [buffer EXCEPT ![position] = <<image, loop>>]
          /\ canState' = "RECEIVED_8_BYTES_DATA"
          /\ transfer' = IF last THEN transfer
                       ELSE [transfer EXCEPT !.position = position, !.loop = @ + 1]
      BY <2>1 DEF RxProgramWord
    <2>3. /\ last => Send(Ack("SUB_SECTOR", TRUE))
          /\ ~last /\ Whole(loop) => Send(Ack("SUB_SECTOR", FALSE))
          /\ ~last /\ ~Whole(loop) => Silent
      BY <2>1 DEF RxProgramWord, Whole
    <2>4. \A a : Send(a) => acks' = <<a>> /\ UNCHANGED lost
      BY <1>s, OtherArrives, FirstAck
    <2> QED BY <1>s, <2>2, <2>3, <2>4, Zenon DEF Silent, bus
  <1>6. /\ loop' = loop + 1 /\ UNCHANGED <<image, start, tries, attempts, tableOnly>>
        /\ host' = IF Whole(loop) \/ last THEN "subSectorAck" ELSE "number"
        /\ UNCHANGED bootState /\ Loops[image] = Total
    BY <1>s, HostLeaves DEF SendData, Whole, HostStep, FirstAttempt
  <1>7. FirstAttempt'
    BY <1>s, <1>6 DEF FirstAttempt
  <1>8. \A k \in 1 .. position : buffer'[k] = <<image, base + k>>
    <2>1. \A k \in 1 .. transfer.position : buffer[k] = <<image, base + k>>
      BY <1>s DEF BufferRight, base
    <2>2. ASSUME NEW k \in 1 .. position PROVE buffer'[k] = <<image, base + k>>
      <3>1. CASE k = position
        <4>1. buffer'[position] = <<image, loop>>
          BY <1>0, <1>4, <1>5 DEF Sectors
        <4>2. loop = base + position
          BY <1>1
        <4> QED BY <3>1, <4>1, <4>2
      <3>2. CASE k \in 1 .. transfer.position
        <4>1. k # position /\ k \in 1 .. SectorLoops
          BY <1>1, <1>4, <3>2
        <4>2. buffer'[k] = buffer[k]
          BY <1>0, <1>5, <4>1 DEF Sectors
        <4> QED BY <2>1, <3>2, <4>2
      <3> QED BY <1>1, <1>4, <3>1, <3>2
    <2> QED BY <2>2
  <1>9. buffer' \in Sectors
    <2>1. <<image, loop>> \in Words
      BY <1>0, <1>s DEF Words, Origins, FirstAttempt
    <2> QED BY <1>0, <1>4, <1>5, <2>1 DEF Sectors
  <1>10. position = SectorLoops => buffer' = SectorOf(image, sector)
    BY <1>1, <1>8, <1>9, BufferFull DEF base
  <1>11. /\ transfer'.sector = sector /\ transfer'.onBoard = transfer.onBoard
         /\ transfer'.position = IF last THEN transfer.position ELSE position
         /\ transfer'.loop = IF last THEN loop ELSE loop + 1
    BY <1>0, <1>1, <1>5 DEF IsTransfer
  <1>12. OnBoardRight'
    BY <1>s, <1>6, <1>11 DEF OnBoardRight
  <1>13. InSector'
    BY <1>s, <1>6, <1>11 DEF InSector
  <1>14. CASE last
    <2>1. transfer' = transfer /\ acks' = <<Ack("SUB_SECTOR", TRUE)>> /\ loop' = Total + 1
          /\ host' = "subSectorAck"
      BY <1>5, <1>6, <1>14
    <2>2. loop = start + SubSectorLoops - 1
      BY <1>e, <1>14
    <2>3. loop = base + SectorLoops
      BY <1>0, <1>1, <1>2, <1>3, <1>14, <2>2
    <2>4. SectorRight'
      <3>1. position = SectorLoops
        BY <1>1, <2>3
      <3>2. loop' - 1 = sector * SectorLoops
        BY <1>0, <1>1, <1>2, <1>6, <2>3
      <3>3. transfer'.loop = transfer'.total
        BY <1>1, <1>14, <2>1
      <3> QED BY <1>1, <1>6, <1>10, <2>1, <3>1, <3>2, <3>3 DEF SectorRight
    <2>5. loop' = start' + SubSectorLoops
      BY <1>0, <1>6, <2>2
    <2>6. (acks = <<Ack("SUB_SECTOR", loop > Total)>>)'
      <3>1. (loop > Total)' = TRUE
        BY <1>2, <2>1
      <3> QED BY <2>1, <3>1, Zenon
    <2> QED BY <1>5, <1>7, <1>12, <1>13, <2>1, <2>4, <2>5, <2>6 DEF AfterSubSector
  <1>15. CASE ~last
    <2>1. /\ transfer'.position = position /\ transfer'.loop = loop + 1
          /\ loop' = loop + 1 /\ loop < Total
      <3>1. loop <= Total /\ loop # Total
        BY <1>1, <1>15
      <3> QED BY <1>0, <1>2, <1>6, <1>11, <1>15, <3>1
    <2>2. Expected' = loop'
      BY <1>0, <2>1 DEF Expected
    <2>3. BufferRight'
      BY <1>1, <1>6, <1>8, <1>11, <2>1 DEF BufferRight, base
    <2>4. Repeated(0)'
      BY <1>5, <1>6, <1>s DEF Repeated
    <2>5. CASE Whole(loop)
      <3>a. loop' = start' + SubSectorLoops
        BY <1>0, <1>6, <1>e, <2>5
      <3>b. host' = "subSectorAck"
        BY <1>6, <2>5
      <3>c. (loop > Total)' = FALSE
        BY <1>0, <1>2, <2>1
      <3>d. acks' = <<Ack("SUB_SECTOR", (loop > Total)')>>
        <4>1. acks' = <<Ack("SUB_SECTOR", FALSE)>>
          BY <1>5, <1>15, <2>5, Zenon
        <4> QED BY <3>c, <4>1, Zenon
      <3>1. /\ loop' = start' + SubSectorLoops /\ host' = "subSectorAck"
            /\ (acks = <<Ack("SUB_SECTOR", loop > Total)>>)'
        BY <3>a, <3>b, <3>d
      <3>2. CASE position = SectorLoops
        <4>1. loop' - 1 = sector * SectorLoops
          BY <1>0, <1>1, <1>2, <2>1, <3>2
        <4>2. SectorRight'
          BY <1>1, <1>6, <1>10, <1>11, <2>1, <3>2, <4>1 DEF SectorRight
        <4> QED BY <1>5, <1>7, <1>12, <1>13, <3>1, <4>2 DEF AfterSubSector
      <3>3. CASE position # SectorLoops
        <4>1. transfer'.position # SectorLoops
          BY <2>1, <3>3
        <4> QED BY <1>5, <1>7, <1>12, <1>13, <2>2, <2>3, <3>1, <4>1 DEF AfterSubSector
      <3> QED BY <3>2, <3>3
    <2>6. CASE ~Whole(loop)
      <3>1. host' = "number" /\ acks' = <<>>
        BY <1>5, <1>6, <1>15, <2>6
      <3>2. loop' \in start' .. start' + SubSectorLoops - 1
        BY <1>0, <1>6, <1>e, <1>s, <2>6
      <3>3. SendingWords'
        BY <1>7, <1>12, <1>13, <2>2, <2>3, <2>4, <3>1, <3>2 DEF SendingWords
      <3>4. NumberAwaited'
        BY <1>5 DEF NumberAwaited, NumberStates
      <3>5. (loop <= Expected)'
        BY <1>0, <2>1, <2>2
      <3> QED BY <3>1, <3>3, <3>4, <3>5 DEF BeforeNumber
    <2> QED BY <2>5, <2>6
  <1> QED BY <1>14, <1>15

LEMMA DataGoes ==
  ASSUME Fits, BootInv, LoopsCounted, StatesAgree, LossesCounted, Bearable, Bearable',
         host = "data", BeforeData, SendData
  PROVE  \/ host' = "number" /\ BeforeNumber'
         \/ host' = "subSectorAck" /\ AfterSubSector'
  <1>0. FlashInv /\ loop \in Nat /\ start \in Nat
    BY DEF BootInv, FlashInv, HostTypes
  <1>s. /\ SendingWords /\ FirstAttempt /\ OnBoardRight /\ BufferRight /\ InSector
        /\ loop \in start .. start + SubSectorLoops - 1
        /\ Expected \in start .. start + SubSectorLoops - 1
        /\ acks = <<>> /\ Repeated(0)
    BY DEF BeforeData, SendingWords
  <1>1. bootState = "LOAD" /\ mode = "boot" /\ bootState' = bootState
    BY <1>s, HostLeaves DEF StatesAgree, FirstAttempt, HostStep
  <1>2. RxData8Bytes(<<image, loop>>)
    BY <1>1, OtherArrives DEF SendData, Sent
  <1>3. CASE canState = "RECEIVED_LOOP_NUMBER" /\ loop = Expected
    <2>1. RxProgramWord(<<image, loop>>)
      BY <1>2, <1>3 DEF RxData8Bytes
    <2> QED BY <1>3, <1>s, <2>1, WordTaken
  <1>4. CASE NumberAwaited /\ (loop < Expected \/ Repeated(1))
    <2>1. UNCHANGED <<canState, bootState, transfer, buffer, validations, acks, lost>>
      BY <1>1, <1>2, <1>4 DEF RxData8Bytes, NumberAwaited, NumberStates, Silent, bus
    <2>2. /\ loop' = loop + 1 /\ UNCHANGED <<image, start, tries, attempts, tableOnly>>
          /\ host' = IF Whole(loop) \/ loop = Total THEN "subSectorAck" ELSE "number"
      BY <1>s DEF SendData, Whole, FirstAttempt
    <2>3. /\ FirstAttempt' /\ OnBoardRight' /\ BufferRight' /\ InSector' /\ NumberAwaited'
          /\ Expected' = Expected
      BY <1>4, <1>s, <2>1, <2>2 DEF FirstAttempt, OnBoardRight, BufferRight, InSector,
            NumberAwaited, Expected
    <2>4. Repeated(0)' /\ (Repeated(1) => Repeated(1)')
      BY <1>s, <2>1, <2>2 DEF Repeated
    <2>5. start >= 1 /\ Whole(start - 1) /\ Total \in Nat /\ Whole(Total)
          /\ SubSectorLoops \in Nat
      <3>1. transfer.sector \in 1 .. NumSectors
        BY <1>s DEF InSector
      <3>2. (transfer.sector - 1) * SectorLoops \in Nat /\ Total \in Nat /\ Whole(Total)
        BY <3>1, SectorsAreWhole
      <3> QED BY <1>0, <1>s, <3>2 DEF InSector
    <2>6. /\ Whole(loop) <=> loop = start + SubSectorLoops - 1
          /\ loop = Total => loop = start + SubSectorLoops - 1
      BY <1>0, <1>s, <2>5, SubSectorEnds
    <2>7. CASE loop = start + SubSectorLoops - 1
      <3>1. host' = "subSectorAck" /\ loop' = start' + SubSectorLoops
        BY <1>0, <2>2, <2>5, <2>6, <2>7
      <3>2. ~(loop < Expected) /\ (Expected \in start .. loop - 1)'
        BY <1>0, <1>s, <2>2, <2>3, <2>5, <2>7
      <3>3. Repeated(1)' /\ acks' = <<>>
        BY <1>4, <1>s, <2>1, <2>4, <3>2
      <3> QED BY <2>3, <3>1, <3>2, <3>3 DEF AfterSubSector
    <2>8. CASE loop # start + SubSectorLoops - 1
      <3>1. host' = "number"
        BY <2>2, <2>6, <2>8
      <3>2. loop' \in start' .. start' + SubSectorLoops - 1
        BY <1>0, <1>s, <2>2, <2>5, <2>8
      <3>3. SendingWords'
        BY <1>s, <2>1, <2>2, <2>3, <2>4, <3>2 DEF SendingWords
      <3>4. (loop <= Expected \/ Repeated(1))'
        BY <1>0, <1>4, <1>s, <2>2, <2>3, <2>4
      <3> QED BY <2>3, <3>1, <3>3, <3>4 DEF BeforeNumber
    <2> QED BY <2>7, <2>8
  <1> QED BY <1>3, <1>4 DEF BeforeData

\* What an acknowledgement is waited for with leaves.
LEMMA WaitedLeaves ==
  ASSUME Waited, FirstAttempt, tableOnly' = tableOnly, attempts' = attempts
  PROVE  /\ UNCHANGED <<canState, bootState, transfer, buffer, validations, lost, image>>
         /\ FirstAttempt' /\ (OnBoardRight => OnBoardRight') /\ (BufferRight => BufferRight')
         /\ (NumberAwaited => NumberAwaited') /\ Expected' = Expected
  <1>1. UNCHANGED <<canState, bootState, transfer, buffer, validations, lost, image>>
    BY DEF Waited, progress
  <1> QED BY <1>1 DEF FirstAttempt, OnBoardRight, BufferRight, NumberAwaited, Expected

LEMMA SubSectorAckGoes ==
  ASSUME Fits, BootInv, LoopsCounted, StatesAgree, LossesCounted, Bearable,
         host = "subSectorAck", AfterSubSector, SubSectorAck
  PROVE  \/ host' = "number" /\ BeforeNumber'
         \/ host' = "crc" /\ BeforeCrc'
  <1> DEFINE sector == transfer.sector
             base == (sector - 1) * SectorLoops
  <1>0. FlashInv /\ loop \in Nat /\ start \in Nat /\ SubSectorLoops \in Nat /\ Tries \in Int
        /\ lost["number"] \in Nat /\ lost["number"] < Tries
    BY HostAssumption DEF BootInv, FlashInv, HostTypes, HostAssumption, LossesCounted, LossKinds,
          Bearable
  <1>s. FirstAttempt /\ OnBoardRight /\ loop = start + SubSectorLoops /\ InSector
    BY DEF AfterSubSector
  <1>1. /\ sector \in 1 .. NumSectors /\ Whole(start - 1)
        /\ base <= start - 1 /\ start - 1 + SubSectorLoops <= sector * SectorLoops
    BY <1>s DEF InSector
  <1>2. /\ Whole(sector * SectorLoops) /\ sector * SectorLoops \in Nat /\ base \in Nat
        /\ sector * SectorLoops = base + SectorLoops /\ sector * SectorLoops <= Total
        /\ Total \in Nat
    BY <1>1, SectorsAreWhole
  <1>3. Whole(loop - 1) /\ loop - 1 \in Nat /\ start - 1 \in Nat
    <2>1. start - 1 \in Nat /\ loop - 1 = (start - 1) + SubSectorLoops
      BY <1>0, <1>1, <1>2, <1>s
    <2> QED BY <1>0, <1>1, <2>1, WholeSums
  <1>4. CASE /\ acks = <<Ack("SUB_SECTOR", loop > Total)>>
             /\ canState = "RECEIVED_8_BYTES_DATA"
             /\ \/ SectorRight
                \/ BufferRight /\ Expected = loop /\ transfer.position # SectorLoops
    <2>1. Answered("SUB_SECTOR") /\ acks' = <<>>
      <3>1. (loop > Total) \in BOOLEAN
        BY <1>0, <1>2
      <3>2. ~Unanswered("SUB_SECTOR") /\ (Answered("SUB_SECTOR") => acks' = <<>>)
        BY <1>4, <3>1, AckToRead
      <3> QED BY <3>2 DEF SubSectorAck
    <2>2. /\ start' = loop /\ tries' = 0 /\ UNCHANGED <<loop, attempts, tableOnly>>
          /\ host' = IF (loop - 1) % SectorLoops = 0 \/ loop > Total THEN "crc" ELSE "number"
      <3>1. ~Unanswered("SUB_SECTOR")
        <4>1. (loop > Total) \in BOOLEAN
          BY <1>0, <1>2
        <4> QED BY <1>4, <4>1, AckToRead
      <3> QED BY <1>s, <3>1 DEF SubSectorAck, FirstAttempt
    <2>3. Waited
      BY DEF SubSectorAck
    <2>4. UNCHANGED <<canState, bootState, transfer, buffer, validations, lost, image>>
      BY <1>s, <2>2, <2>3, WaitedLeaves
    <2>5. FirstAttempt' /\ OnBoardRight' /\ (BufferRight => BufferRight') /\ Expected' = Expected
      BY <1>s, <2>2, <2>3, WaitedLeaves
    <2>6. CASE SectorRight
      <3>1. loop - 1 = sector * SectorLoops
        BY <2>6 DEF SectorRight
      <3>2. (loop - 1) % SectorLoops = 0
        <4>1. sector \in Nat /\ SectorLoops \in Nat \ {0} /\ 0 \in 0 .. SectorLoops - 1
          BY <1>1
        <4>2. ((sector * SectorLoops) + 0) % SectorLoops = 0
          BY <4>1, Quotient
        <4>3. (sector * SectorLoops) + 0 = loop - 1
          BY <1>2, <3>1
        <4> QED BY <4>2, <4>3
      <3>3. SectorRight'
        BY <2>2, <2>4, <2>6 DEF SectorRight
      <3> QED BY <1>4, <2>1, <2>2, <2>4, <2>5, <3>2, <3>3 DEF BeforeCrc
    <2>7. CASE BufferRight /\ Expected = loop /\ transfer.position # SectorLoops
      <3>1. /\ transfer.position \in 0 .. SectorLoops /\ loop <= Total
            /\ loop = base + transfer.position + 1
        BY <1>0, <1>4, <1>s, <2>7, ExpectedInSector DEF FirstAttempt, NumberStates
      <3>2. transfer.position \in 1 .. SectorLoops - 1
        <4>1. SubSectorLoops >= 1 /\ SectorLoops \in Nat
          OBVIOUS
        <4>2. base + transfer.position + 1 = start + SubSectorLoops
          BY <1>s, <3>1
        <4>3. transfer.position >= 1
          BY <1>0, <1>1, <1>2, <3>1, <4>1, <4>2
        <4>4. transfer.position # SectorLoops
          BY <2>7
        <4> QED BY <3>1, <4>1, <4>3, <4>4
      <3>3. (loop - 1) % SectorLoops # 0
        <4>1. sector - 1 \in Nat /\ SectorLoops \in Nat \ {0}
              /\ transfer.position \in 0 .. SectorLoops - 1
          BY <1>1, <3>2
        <4>2. (((sector - 1) * SectorLoops) + transfer.position) % SectorLoops
                = transfer.position
          BY <4>1, Quotient
        <4>3. ((sector - 1) * SectorLoops) + transfer.position = loop - 1
          BY <1>2, <3>1, <3>2
        <4> QED BY <3>2, <4>2, <4>3
      <3>4. host' = "number"
        BY <1>0, <1>2, <2>2, <3>1, <3>3
      <3>5. loop - 1 + SubSectorLoops <= sector * SectorLoops
        <4>1. loop - 1 < sector * SectorLoops
          BY <1>0, <1>2, <3>1, <3>2
        <4> QED BY <1>2, <1>3, <4>1, NextMultiple DEF Whole
      <3>6. InSector'
        <4>1. base <= loop - 1
          BY <1>2, <3>1, <3>2
        <4> QED BY <1>1, <1>3, <2>2, <2>4, <3>5, <4>1 DEF InSector
      <3>7. Repeated(0)'
        BY <1>0, <2>2, <2>4 DEF Repeated
      <3>8. SendingWords'
        BY <1>0, <2>1, <2>2, <2>5, <2>7, <3>6, <3>7 DEF SendingWords
      <3>9. NumberAwaited'
        BY <1>4, <2>4 DEF NumberAwaited, NumberStates
      <3> QED BY <1>0, <2>2, <2>5, <2>7, <3>4, <3>8, <3>9 DEF BeforeNumber
    <2> QED BY <1>4, <2>6, <2>7
  <1>5. CASE /\ acks = <<>> /\ NumberAwaited /\ BufferRight
             /\ Expected \in start .. loop - 1 /\ Repeated(1)
    <2>1. tries \in Nat /\ tries + 1 # Tries
      BY <1>0, <1>5 DEF Repeated
    <2>2. /\ Unanswered("SUB_SECTOR") /\ tries' = tries + 1 /\ loop' = start
          /\ host' = "number" /\ UNCHANGED <<start, attempts, tableOnly>> /\ Waited
      BY <1>5, <2>1, NothingToRead DEF SubSectorAck
    <2>3. acks' = <<>>
      BY <2>2 DEF Unanswered
    <2>4. /\ UNCHANGED <<canState, bootState, transfer, buffer, validations, lost, image>>
          /\ FirstAttempt' /\ OnBoardRight' /\ BufferRight' /\ NumberAwaited'
          /\ Expected' = Expected
      BY <1>5, <1>s, <2>2, WaitedLeaves
    <2>5. InSector'
      BY <1>s, <2>2, <2>4 DEF InSector
    <2>6. Repeated(0)'
      BY <1>0, <1>5, <2>1, <2>2, <2>4 DEF Repeated
    <2>7. /\ (Expected \in start .. start + SubSectorLoops - 1)'
          /\ (loop \in start .. start + SubSectorLoops - 1)' /\ (loop <= Expected)'
      BY <1>0, <1>5, <1>s, <2>2, <2>4
    <2> QED BY <2>2, <2>3, <2>4, <2>5, <2>6, <2>7 DEF BeforeNumber, SendingWords
  <1> QED BY <1>4, <1>5 DEF AfterSubSector

-----------------------------------------------------------------------------
(* Sectors *)

LEMMA CrcGoes ==
  ASSUME Fits, BootInv, LoopsCounted, StatesAgree, LossesCounted, Bearable, Bearable',
         host = "crc", BeforeCrc, SendCrc
  PROVE  host' = "crcAck" /\ AfterCrc'
  <1> DEFINE sector == transfer.sector
             crc == SubSeq(ProgramOf(image), 1, sector)
  <1>0. FlashInv /\ IsTransfer(transfer) /\ loop \in Nat /\ validations \in 0 .. 1
    BY DEF BootInv, FlashInv, ProgressTypes, HostTypes, BootTypes, ControlTypes
  <1>s. /\ FirstAttempt /\ OnBoardRight /\ SectorRight
        /\ start = loop /\ tries = 0 /\ acks = <<>> /\ canState = "RECEIVED_8_BYTES_DATA"
    BY DEF BeforeCrc
  <1>1. bootState = "LOAD" /\ mode = "boot" /\ UNCHANGED <<bootState, mode>> /\ validations = 0
    <2>1. bootState = "LOAD" /\ mode = "boot"
      BY <1>s DEF StatesAgree, FirstAttempt
    <2>2. validations = 0
      BY <1>0, <1>s, <2>1 DEF SendCrc, Settled
    <2> QED BY <2>1, <2>2, HostLeaves DEF HostStep
  <1>2. (loop - 1) \div SectorLoops = sector
    <2>1. sector \in Nat /\ SectorLoops \in Nat \ {0} /\ 0 \in 0 .. SectorLoops - 1
          /\ loop - 1 = sector * SectorLoops /\ loop - 1 \in Int
      BY <1>0, <1>s DEF SectorRight
    <2>2. ((sector * SectorLoops) + 0) \div SectorLoops = sector
      BY <2>1, Quotient
    <2>3. (sector * SectorLoops) + 0 = loop - 1
      BY <2>1
    <2> QED BY <2>2, <2>3
  <1>3. /\ RxCrc8Bytes(crc) /\ host' = "crcAck" /\ UNCHANGED <<image, counters>>
    BY <1>1, <1>2, OtherArrives DEF SendCrc, Sent
  <1>4. /\ canState' = "RECEIVED_8_BYTES_CRC" /\ transfer' = [transfer EXCEPT !.crc = crc]
        /\ UNCHANGED <<validations, buffer, acks, lost>>
    <2>1. RxSectorCrc(crc) /\ UNCHANGED <<validations, buffer>>
      BY <1>3, <1>s DEF RxCrc8Bytes
    <2>2. transfer.position >= SectorLoops \/ transfer.loop = transfer.total
      <3>1. transfer.total = Total /\ transfer.position \in Int
        BY <1>0, <1>1, <1>s, ExpectedInSector DEF NumberStates
      <3>2. transfer.position = SectorLoops \/ transfer.loop = Total
        BY <1>s DEF SectorRight
      <3> QED BY <3>1, <3>2
    <2> QED BY <2>1, <2>2 DEF RxSectorCrc, Silent, bus
  <1>5. /\ transfer'.crc = crc /\ transfer'.sector = sector
        /\ transfer'.position = transfer.position /\ transfer'.loop = transfer.loop
        /\ transfer'.onBoard = transfer.onBoard
    BY <1>0, <1>4 DEF IsTransfer
  <1>6. FirstAttempt' /\ OnBoardRight' /\ SectorRight'
    BY <1>1, <1>3, <1>4, <1>5, <1>s DEF FirstAttempt, OnBoardRight, SectorRight, counters
  <1>7. WriteTurn'
    BY <1>1, <1>4 DEF WriteTurn, In
  <1> QED BY <1>3, <1>4, <1>5, <1>6, <1>7, <1>s DEF AfterCrc, counters

\* The sector that is chained to those on board.
LEMMA ChainedProgram ==
  ASSUME NEW i \in Images, NEW s \in 1 .. NumSectors
  PROVE  Chain(SubSeq(ProgramOf(i), 1, s - 1), SectorOf(i, s)) = SubSeq(ProgramOf(i), 1, s)
  <1>1. ProgramOf(i) \in Seq(Sectors) /\ Len(ProgramOf(i)) = NumSectors
        /\ ProgramOf(i)[s] = SectorOf(i, s)
    <2>1. ProgramOf(i) \in [1 .. NumSectors -> Sectors] /\ NumSectors \in Nat
      BY FillIsSector DEF FlashContents
    <2> QED BY <2>1 DEF ProgramOf
  <1> DEFINE p == ProgramOf(i)
  <1> HIDE DEF p
  <1>2. p \in Seq(Sectors) /\ Len(p) = NumSectors
    BY <1>1 DEF p
  <1>3. Append(SubSeq(p, 1, s - 1), p[s]) = SubSeq(p, 1, s)
    BY <1>2
  <1> QED BY <1>1, <1>3 DEF p, Chain

LEMMA SectorGoes ==
  ASSUME Fits, BootInv, LoopsCounted, LossesCounted, CallsServed, CallsServed',
         Bearable, Bearable', UNCHANGED program,
         AfterCrc, WriteTurn, BOOT_WriteAndValidateCurrentSector
  PROVE  AfterCrc'
  <1> DEFINE sector == transfer.sector
             crc == SubSeq(ProgramOf(image), 1, sector)
             last == transfer.loop = transfer.total
  <1>0. /\ FlashInv /\ IsTransfer(transfer) /\ loop \in Nat /\ mode = "boot"
        /\ bootState = "LOAD" /\ canState = "RECEIVED_8_BYTES_CRC" /\ validations = 0
        /\ UNCHANGED <<image, loop, start, tries, attempts, tableOnly>>
    BY DEF BootInv, FlashInv, ProgressTypes, HostTypes, WriteTurn, In, program, counters
  <1>n. ~(NumberAwaited /\ acks = <<Ack("CRC", TRUE)>>)
    BY <1>0 DEF NumberAwaited
  <1>s. /\ FirstAttempt /\ OnBoardRight /\ SectorRight /\ acks = <<>>
        /\ transfer.crc = crc /\ start = loop /\ tries = 0
    BY <1>0, <1>n DEF AfterCrc
  <1>1. /\ transfer.position \in 0 .. SectorLoops /\ transfer.loop \in 1 .. Total
        /\ transfer.loop = (sector - 1) * SectorLoops + transfer.position + 1
        /\ transfer.total = Total
    BY <1>0, ExpectedInSector DEF NumberStates
  <1>2. /\ sector \in 1 .. NumSectors /\ loop - 1 = sector * SectorLoops
        /\ buffer = SectorOf(image, sector)
        /\ transfer.position = SectorLoops \/ transfer.loop = Total
    BY <1>1, <1>s DEF SectorRight
  <1>3. Served(store.table, flash) /\ mode' # "halted" /\ UNCHANGED store /\ mishaps' = 0
    BY DEF CallsServed, Bearable, Undisturbed, BOOT_WriteAndValidateCurrentSector
  <1>4. PICK w \in Outcomes(flash[sector], buffer, TornSectors) :
           /\ mishaps' = mishaps + (IF w.ok THEN 0 ELSE 1)
           /\ SectorWritten(w) /\ UNCHANGED <<copy, buffer>>
    <2>1. Raised(flash, store.table)
      BY <1>3 DEF Raised
    <2>2. ~Halt
      BY <1>3 DEF Halt, Restarted
    <2> QED BY <1>2, <2>1, <2>2, Zenon DEF BOOT_WriteAndValidateCurrentSector
  <1>5. w.ok = TRUE /\ w.left = buffer
    <2>1. CASE w.ok = FALSE
      <3>1. mishaps = 0 /\ mishaps' = 0
        BY DEF Bearable, Undisturbed
      <3> QED BY <1>4, <2>1, <3>1
    <2>2. w.ok = FALSE \/ (w.ok = TRUE /\ w.left = buffer)
      BY OutcomeIsNew
    <2> QED BY <2>1, <2>2
  <1>6. Chain(transfer.onBoard, w.left) = transfer.crc
    <2>1. Chain(SubSeq(ProgramOf(image), 1, sector - 1), SectorOf(image, sector)) = crc
      BY <1>2, <1>s, ChainedProgram DEF FirstAttempt
    <2> QED BY <1>2, <1>5, <1>s, <2>1 DEF OnBoardRight
  <1>7. /\ Send(Ack("CRC", TRUE)) /\ validations' = 1 /\ UNCHANGED bootState
        /\ IF last
           THEN /\ canState' = "FINISHED_FINAL_VALIDATION"
                /\ transfer' = [transfer EXCEPT !.onBoard = crc]
           ELSE /\ UNCHANGED canState
                /\ transfer' = [transfer EXCEPT !.onBoard = crc, !.position = 0,
                                                !.sector = @ + 1]
    <2>1. (w.ok /\ Chain(transfer.onBoard, w.left) = transfer.crc) = TRUE
      BY <1>5, <1>6
    <2> QED BY <1>4, <1>s, <2>1, Zenon DEF SectorWritten
  <1>8. acks' = <<Ack("CRC", TRUE)>>
    BY <1>7, <1>s, OtherArrives, FirstAck
  <1>9. FirstAttempt'
    BY <1>0, <1>7, <1>s DEF FirstAttempt
  <1>10. /\ sector * SectorLoops = (sector - 1) * SectorLoops + SectorLoops
         /\ (sector - 1) * SectorLoops \in Nat /\ SectorLoops \in Nat /\ Total \in Nat
         /\ sector * SectorLoops \in Nat /\ Whole(sector * SectorLoops)
         /\ SubSectorLoops <= SectorLoops
    BY <1>2, SectorsAreWhole
  <1>11. CASE last
    <2>1. sector = NumSectors
      <3>1. /\ SectorLoops > 1 /\ transfer.loop = NumSectors * SectorLoops
            /\ transfer.loop = (sector - 1) * SectorLoops + transfer.position + 1
        BY <1>1, <1>11 DEF Fits, FillsFlash, Total
      <3> QED BY <1>1, <1>2, <3>1, LastSector
    <2>2. loop' = Total + 1
      BY <1>0, <1>2, <1>10, <2>1 DEF Total
    <2>3. transfer'.received = 0 /\ canState' = "FINISHED_FINAL_VALIDATION"
      BY <1>0, <1>7, <1>11 DEF FlashInv, TableWordsCounted, SectorStates, IsTransfer
    <2> QED BY <1>0, <1>8, <1>9, <1>s, <2>2, <2>3 DEF AfterCrc
  <1>12. CASE ~last
    <2>1. transfer.position = SectorLoops /\ transfer.loop = loop /\ loop <= Total
          /\ (sector + 1) - 1 = sector
      BY <1>0, <1>1, <1>2, <1>10, <1>12
    <2>2. /\ transfer'.sector = sector + 1 /\ transfer'.position = 0
          /\ transfer'.onBoard = crc /\ transfer'.loop = loop
      BY <1>0, <1>7, <1>12, <2>1 DEF IsTransfer
    <2>3. OnBoardRight'
      BY <1>0, <2>1, <2>2 DEF OnBoardRight
    <2>4. sector < NumSectors
      <3>1. sector = NumSectors => sector * SectorLoops = Total
        BY DEF Total
      <3>2. sector * SectorLoops # Total
        BY <1>0, <1>2, <1>10, <2>1
      <3>3. sector # NumSectors /\ sector \in 1 .. NumSectors
        BY <1>2, <3>1, <3>2
      <3> QED BY <3>3
    <2>5. InSector'
      <3>1. (sector + 1) * SectorLoops = sector * SectorLoops + SectorLoops
        BY <1>2, <2>4, SectorsAreWhole
      <3>2. /\ sector + 1 \in 1 .. NumSectors /\ Whole(loop - 1)
            /\ ((sector + 1) - 1) * SectorLoops <= loop - 1
            /\ loop - 1 + SubSectorLoops <= (sector + 1) * SectorLoops
        BY <1>0, <1>2, <1>10, <2>1, <2>4, <3>1
      <3> QED BY <1>0, <1>s, <2>2, <3>2 DEF InSector
    <2>6. Expected' = loop'
      BY <1>0, <1>1, <2>1, <2>2 DEF Expected
    <2>7. NumberAwaited'
      BY <1>0, <1>7, <1>12, <2>2 DEF NumberAwaited, NumberStates
    <2> QED BY <1>0, <1>8, <1>9, <1>s, <2>1, <2>2, <2>3, <2>5, <2>6, <2>7 DEF AfterCrc
  <1> QED BY <1>11, <1>12

LEMMA CrcAckGoes ==
  ASSUME Fits, BootInv, LoopsCounted, StatesAgree, LossesCounted, Bearable,
         host = "crcAck", AfterCrc, CrcAck
  PROVE  \/ host' = "number" /\ BeforeNumber'
         \/ host' = "table" /\ BeforeWord'
  <1>0. FlashInv /\ loop \in Nat /\ lost["number"] \in Nat /\ validations \in 0 .. 1
    BY DEF BootInv, FlashInv, HostTypes, LossesCounted, LossKinds, BootTypes, ControlTypes
  <1>s. FirstAttempt /\ start = loop /\ tries = 0 /\ Loops[image] = Total /\ mode = "boot"
    BY DEF AfterCrc, FirstAttempt, StatesAgree
  <1>1. ~WriteTurn
    BY <1>0, <1>s DEF CrcAck, Settled, WriteTurn, In
  <1>2. acks = <<Ack("CRC", TRUE)>>
    BY <1>1 DEF AfterCrc
  <1>3. Answered("CRC") /\ Yes("CRC") /\ acks' = <<>> /\ ~Unanswered("CRC")
    <2>1. TRUE \in BOOLEAN
      OBVIOUS
    <2>2. ~Unanswered("CRC") /\ Yes("CRC") /\ (Answered("CRC") => acks' = <<>>)
      BY <1>2, <2>1, AckToRead, Zenon
    <2> QED BY <2>2 DEF CrcAck
  <1>4. /\ IF loop > Total THEN StartTable ELSE host' = "number" /\ UNCHANGED <<loop, tableOnly>>
        /\ UNCHANGED <<start, tries, attempts>>
        /\ Waited
    BY <1>3, <1>s DEF CrcAck
  <1>5. CASE /\ loop <= Total /\ OnBoardRight /\ InSector /\ Expected = loop
             /\ NumberAwaited /\ transfer.position = 0
    <2>1. host' = "number" /\ UNCHANGED <<loop, tableOnly>>
      <3>1. ~(loop > Total)
        <4>1. Total \in Nat
          BY <1>5, SectorsAreWhole DEF InSector
        <4> QED BY <1>0, <1>5, <4>1
      <3> QED BY <1>4, <3>1
    <2>2. /\ UNCHANGED <<canState, bootState, transfer, buffer, validations, lost, image>>
          /\ FirstAttempt' /\ OnBoardRight' /\ NumberAwaited' /\ Expected' = Expected
      BY <1>4, <1>5, <1>s, <2>1, WaitedLeaves
    <2>3. BufferRight' /\ InSector'
      BY <1>4, <1>5, <2>1, <2>2 DEF BufferRight, InSector
    <2>4. Repeated(0)'
      BY <1>0, <1>4, <1>s, <2>2 DEF Repeated
    <2>5. (loop \in start .. start + SubSectorLoops - 1)' /\ (loop <= Expected)'
      BY <1>0, <1>4, <1>5, <1>s, <2>1, <2>2
    <2>6. (Expected \in start .. start + SubSectorLoops - 1)'
      BY <1>5, <1>4, <1>s, <2>1, <2>2, <2>5
    <2> QED BY <1>3, <2>1, <2>2, <2>3, <2>4, <2>5, <2>6 DEF BeforeNumber, SendingWords
  <1>6. CASE /\ loop = Total + 1
             /\ canState = "FINISHED_FINAL_VALIDATION" /\ transfer.received = 0
    <2>1. StartTable
      <3>1. loop > Total
        <4>1. Total \in Nat
          BY SMTT(30) DEF Total
        <4> QED BY <1>6, <4>1
      <3> QED BY <1>4, <3>1
    <2>2. host' = "table" /\ loop' = 1 /\ tableOnly' = TRUE /\ attempts' = 0
          /\ UNCHANGED <<canState, bootState, transfer, image>>
      BY <1>4, <1>s, <2>1 DEF StartTable, Waited, progress, FirstAttempt
    <2>3. (TableGoes /\ LastAttempt /\ TableRight(loop - 1))'
      BY <1>s, <2>2 DEF TableGoes, LastAttempt, TableRight, FirstAttempt
    <2>4. (transfer.received = loop - 1)'
      BY <1>6, <2>2
    <2> QED BY <1>3, <1>6, <2>2, <2>3, <2>4 DEF BeforeWord
  <1> QED BY <1>1, <1>5, <1>6 DEF AfterCrc

-----------------------------------------------------------------------------
(* The vector table *)

\* An attempt that fails, while there are attempts left, sends the table again.
LEMMA TableAgain ==
  ASSUME Fits, TableGoes, attempts \in 0 .. 1, AttemptFailed,
         Waited
  PROVE  /\ host' = "table" /\ loop' = 1 /\ attempts' = attempts + 1
         /\ UNCHANGED <<canState, bootState, transfer, lost, image, tableOnly>>
         /\ TableGoes'
  <1>1. UNCHANGED <<canState, bootState, transfer, lost, image>>
    BY DEF Waited, progress
  <1>2. attempts + 1 < Attempts /\ attempts + 1 # Attempts /\ tableOnly
    BY HostAssumption DEF Fits, TableGoes, HostAssumption
  <1>3. host' = "table"
    BY <1>2, Zenon DEF AttemptFailed
  <1>4. loop' = 1 /\ attempts' = attempts + 1 /\ UNCHANGED tableOnly
    BY DEF AttemptFailed
  <1> QED BY <1>1, <1>3, <1>4 DEF TableGoes

LEMMA TableAckGoes ==
  ASSUME Fits, BootInv, Bearable, host = "tableAck", AfterTable, TableAck
  PROVE  \/ host' = "tableCrc" /\ BeforeTableCrc'
         \/ host' = "table" /\ BeforeWord'
  <1>1. Waited
    BY DEF TableAck
  <1>2. UNCHANGED <<canState, bootState, transfer, lost, image>>
    BY <1>1 DEF Waited, progress
  <1>3. CASE acks = <<Ack("TABLE", FALSE)>> /\ TableReceived
    <2>1. FALSE \in BOOLEAN
      OBVIOUS
    <2>2. ~Unanswered("TABLE") /\ (Answered("TABLE") => acks' = <<>>)
      BY <1>3, <2>1, AckToRead, Zenon
    <2>3. host' = "tableCrc" /\ UNCHANGED counters /\ acks' = <<>>
      BY <2>2 DEF TableAck
    <2> QED BY <1>2, <1>3, <2>3
            DEF AfterTable, BeforeTableCrc, TableGoes, TableReceived, SecondAttempt, LastAttempt,
                counters
  <1>4. CASE WordLost /\ transfer.received = TableWords - 1
    <2>1. acks = <<>> /\ attempts = 0
      BY <1>4 DEF WordLost
    <2>2. Unanswered("TABLE") /\ AttemptFailed
      BY <2>1, NothingToRead DEF TableAck
    <2>3. /\ host' = "table" /\ loop' = 1 /\ attempts' = 0 + 1 /\ TableGoes' /\ acks' = <<>>
      BY <1>1, <2>1, <2>2, TableAgain DEF AfterTable, Unanswered
    <2> QED BY <1>2, <1>4, <2>3 DEF BeforeWord, SecondAttempt, WordLost
  <1> QED BY <1>3, <1>4 DEF AfterTable

LEMMA TableCrcAckGoes ==
  ASSUME Fits, BootInv, Bearable, host = "tableCrcAck", AfterTableCrc, TableCrcAck
  PROVE  \/ host' = "done"
         \/ host' = "table" /\ BeforeWord'
  <1>1. Waited
    BY DEF TableCrcAck
  <1>b. TRUE \in BOOLEAN /\ FALSE \in BOOLEAN
    OBVIOUS
  <1>2. CASE acks = <<Ack("TABLE_CRC", TRUE)>>
    <2>1. ~Unanswered("TABLE_CRC") /\ Yes("TABLE_CRC")
      BY <1>2, <1>b, AckToRead, Zenon
    <2> QED BY <2>1 DEF TableCrcAck
  <1>3. CASE /\ TableGoes /\ acks = <<Ack("TABLE_CRC", FALSE)>> /\ SecondAttempt
             /\ canState = "FINISHED_FINAL_VALIDATION" /\ transfer.received = 0
    <2>1. /\ ~Unanswered("TABLE_CRC") /\ ~Yes("TABLE_CRC")
          /\ Answered("TABLE_CRC") => acks' = <<>>
      BY <1>3, <1>b, AckToRead, Zenon
    <2>2. AttemptFailed /\ acks' = <<>>
      BY <2>1 DEF TableCrcAck
    <2>3. attempts = 1 /\ lost["table"] = 1
      BY <1>3 DEF SecondAttempt
    <2>4. /\ host' = "table" /\ loop' = 1 /\ attempts' = 2 /\ TableGoes'
          /\ UNCHANGED <<canState, transfer, lost>>
      BY <1>1, <1>3, <2>2, <2>3, TableAgain
    <2>5. LastAttempt' /\ TableRight(loop - 1)' /\ (transfer.received = loop - 1)'
      BY <1>3, <2>3, <2>4 DEF LastAttempt, TableRight
    <2> QED BY <1>3, <2>2, <2>4, <2>5 DEF BeforeWord
  <1> QED BY <1>2, <1>3 DEF AfterTableCrc

LEMMA TableCrcGoes ==
  ASSUME Fits, BootInv, StatesAgree, LossesCounted, Bearable, Bearable',
         host = "tableCrc", BeforeTableCrc, SendTableCrc
  PROVE  host' = "tableCrcAck" /\ AfterTableCrc'
  <1>0. FlashInv /\ IsTransfer(transfer)
    BY DEF BootInv, FlashInv, ProgressTypes
  <1>s. /\ TableGoes /\ acks = <<>> /\ TableReceived /\ mode = "boot" /\ bootState = "LOAD"
        /\ canState = "FINISHED_TRANSFER_VECTOR_TABLE"
    BY DEF BeforeTableCrc, TableGoes, TableReceived, StatesAgree
  <1>1. /\ RxCrc8Bytes(TableOf(image)) /\ host' = "tableCrcAck" /\ UNCHANGED <<image, counters>>
        /\ UNCHANGED bootState
    BY <1>s, OtherArrives, HostLeaves DEF SendTableCrc, Sent, HostStep
  <1>2. RxTableCrc(TableOf(image))
    BY <1>1, <1>s DEF RxCrc8Bytes
  <1>3. CASE TableOf(image) = transfer.table
    <2>1. Send(Ack("TABLE_CRC", TRUE))
      BY <1>2, <1>3 DEF RxTableCrc
    <2> QED BY <1>1, <1>s, <2>1, OtherArrives, FirstAck DEF AfterTableCrc
  <1>4. CASE TableOf(image) # transfer.table
    <2>1. /\ canState' = "FINISHED_FINAL_VALIDATION"
          /\ transfer' = [transfer EXCEPT !.table = Fill(Zero, TableWords),
                                         !.received = 0, !.tableCrc = <<>>]
          /\ Send(Ack("TABLE_CRC", FALSE))
      BY <1>2, <1>4 DEF RxTableCrc
    <2>2. transfer'.received = 0
      BY <1>0, <2>1 DEF IsTransfer
    <2>3. acks' = <<Ack("TABLE_CRC", FALSE)>> /\ UNCHANGED lost
      BY <1>s, <2>1, OtherArrives, FirstAck
    <2>4. SecondAttempt
      BY <1>4, <1>s DEF TableReceived
    <2>5. SecondAttempt' /\ TableGoes'
      BY <1>1, <1>s, <2>3, <2>4 DEF SecondAttempt, TableGoes, counters
    <2> QED BY <1>1, <2>1, <2>2, <2>3, <2>5 DEF AfterTableCrc
  <1> QED BY <1>3, <1>4

LEMMA TableIsWhole ==
  ASSUME NEW i, NEW t \in Tables, \A k \in 1 .. TableWords : t[k] = TableOf(i)[k]
  PROVE  t = TableOf(i)
  BY DEF Tables, TableOf

\* A word that follows those received.
LEMMA TableWordTaken ==
  ASSUME FlashInv, transfer.table \in Tables, LossesCounted, Bearable, Bearable', acks = <<>>,
         NEW word, canState = "FINISHED_FINAL_VALIDATION", RxData8Bytes(word)
  PROVE  /\ transfer' = [transfer EXCEPT !.table[transfer.received + 1] = word,
                                         !.received = transfer.received + 1]
         /\ transfer'.received = transfer.received + 1
         /\ transfer'.table = [transfer.table EXCEPT ![transfer.received + 1] = word]
         /\ UNCHANGED <<bootState, lost>>
         /\ transfer.received + 1 = TableWords =>
               /\ canState' = "FINISHED_TRANSFER_VECTOR_TABLE"
               /\ acks' = <<Ack("TABLE", FALSE)>>
         /\ transfer.received + 1 # TableWords => UNCHANGED <<canState, acks>>
  <1>0. IsTransfer(transfer)
    BY DEF FlashInv, ProgressTypes
  <1>1. RxTableWord(word) /\ UNCHANGED bootState
    BY DEF RxData8Bytes
  <1>2. /\ transfer' = [transfer EXCEPT !.table[transfer.received + 1] = word,
                                        !.received = transfer.received + 1]
        /\ IF transfer.received + 1 = TableWords
           THEN canState' = "FINISHED_TRANSFER_VECTOR_TABLE" /\ Send(Ack("TABLE", FALSE))
           ELSE UNCHANGED canState /\ Silent
    BY <1>1 DEF RxTableWord
  <1>3. /\ transfer'.received = transfer.received + 1
        /\ transfer'.table = [transfer.table EXCEPT ![transfer.received + 1] = word]
    BY <1>0, <1>2 DEF IsTransfer
  <1>4. Send(Ack("TABLE", FALSE)) => acks' = <<Ack("TABLE", FALSE)>> /\ UNCHANGED lost
    BY OtherArrives, FirstAck
  <1>5. CASE transfer.received + 1 = TableWords
    BY <1>1, <1>2, <1>3, <1>4, <1>5
  <1>6. CASE transfer.received + 1 # TableWords
    BY <1>1, <1>2, <1>3, <1>6 DEF Silent, bus
  <1> QED BY <1>5, <1>6

LEMMA TableGoesOn ==
  ASSUME Fits, BootInv, StatesAgree, LossesCounted, Bearable, Bearable',
         host = "table", BeforeWord, SendTableWord
  PROVE  \/ host' = "table" /\ BeforeWord'
         \/ host' = "tableAck" /\ AfterTable'
  <1> DEFINE word == TableOf(image)[loop]
             r == transfer.received
  <1>0. /\ FlashInv /\ IsTransfer(transfer) /\ loop \in 1 .. TableWords /\ TableWords \in Nat
        /\ r \in 0 .. TableWords /\ transfer.table \in Tables /\ lost["table"] \in Nat
    BY DEF BootInv, FlashInv, ProgressTypes, HostTypes, OneImageInv, LossesCounted, LossKinds,
           IsTransfer
  <1>1. /\ loop' = loop + 1 /\ UNCHANGED <<image, attempts, tableOnly, bootState>>
        /\ host' = IF loop = TableWords THEN "tableAck" ELSE "table"
        /\ Sent(RxData8Bytes(word), "table") /\ mode = "boot" /\ TableGoes /\ TableGoes'
    BY HostLeaves DEF SendTableWord, HostStep, BeforeWord, TableGoes, StatesAgree
  <1>2. ASSUME Lose("table")
        PROVE  lost["table"] = 0 /\ lost'["table"] = 1 /\ UNCHANGED acks
    <2>1. lost'["table"] = lost["table"] + 1 /\ UNCHANGED acks
      BY <1>2 DEF Lose, LossesCounted, LossKinds
    <2>2. lost'["table"] <= 1
      BY DEF Bearable
    <2> QED BY <1>0, <2>1, <2>2
  <1>3. \/ RxData8Bytes(word)
        \/ Lose("table") /\ UNCHANGED <<canState, transfer>>
    BY <1>1, Zenon DEF Sent, progress
  <1>4. lost["table"] = 1 => RxData8Bytes(word)
    BY <1>2, <1>3
  <1>5. CASE /\ acks = <<>> /\ canState = "FINISHED_FINAL_VALIDATION" /\ LastAttempt
             /\ r = loop - 1 /\ TableRight(loop - 1)
    <2>1. CASE RxData8Bytes(word)
      <3>1. /\ transfer'.received = loop
            /\ transfer'.table = [transfer.table EXCEPT ![loop] = word]
            /\ UNCHANGED lost
            /\ loop = TableWords => /\ canState' = "FINISHED_TRANSFER_VECTOR_TABLE"
                                    /\ acks' = <<Ack("TABLE", FALSE)>>
            /\ loop # TableWords => UNCHANGED <<canState, acks>>
        <4>1. r + 1 = loop
          BY <1>0, <1>5
        <4> QED BY <1>0, <1>5, <2>1, <4>1, TableWordTaken
      <3>2. \A k \in 1 .. loop : transfer'.table[k] = TableOf(image)[k]
        <4>1. ASSUME NEW k \in 1 .. loop PROVE transfer'.table[k] = TableOf(image)[k]
          <5>1. CASE k = loop
            BY <1>0, <3>1, <5>1 DEF Tables
          <5>2. CASE k # loop
            <6>1. k \in 1 .. loop - 1 /\ k \in 1 .. TableWords
              BY <1>0, <5>2
            <6>2. transfer.table[k] = TableOf(image)[k]
              BY <1>5, <6>1 DEF TableRight
            <6> QED BY <1>0, <3>1, <5>2, <6>1, <6>2 DEF Tables
          <5> QED BY <5>1, <5>2
        <4> QED BY <4>1
      <3>3. LastAttempt'
        BY <1>1, <1>5, <3>1 DEF LastAttempt
      <3>4. CASE loop = TableWords
        <4>1. transfer'.table \in Tables
          <5>1. word \in Words
            BY <1>0, <1>1, ImagesAreTables DEF Tables, TableGoes
          <5> QED BY <1>0, <3>1, <5>1 DEF Tables
        <4>2. transfer'.table = TableOf(image)
          BY <3>2, <3>4, <4>1, TableIsWhole
        <4> QED BY <1>1, <3>1, <3>3, <3>4, <4>2 DEF AfterTable, TableReceived
      <3>5. CASE loop # TableWords
        <4>1. TableRight(loop - 1)' /\ (transfer.received = loop - 1)'
          BY <1>0, <1>1, <3>1, <3>2 DEF TableRight
        <4> QED BY <1>1, <1>5, <3>1, <3>3, <3>5, <4>1 DEF BeforeWord
      <3> QED BY <3>4, <3>5
    <2>2. CASE Lose("table") /\ UNCHANGED <<canState, transfer>>
      <3>1. lost["table"] = 0 /\ lost'["table"] = 1 /\ UNCHANGED acks
        BY <1>2, <2>2
      <3>2. WordLost' /\ (transfer.received = loop - 2)'
        BY <1>0, <1>1, <1>5, <2>2, <3>1 DEF WordLost, LastAttempt
      <3>3. loop = TableWords => (transfer.received = TableWords - 1)'
        BY <1>5, <2>2
      <3> QED BY <1>1, <3>2, <3>3 DEF BeforeWord, AfterTable
    <2> QED BY <1>3, <2>1, <2>2
  <1>6. CASE WordLost /\ r = loop - 2
    <2>1. RxData8Bytes(word)
      BY <1>4, <1>6 DEF WordLost
    <2>2. r + 1 = loop - 1 /\ r + 1 # TableWords
      BY <1>0, <1>6
    <2>3. transfer'.received = loop - 1 /\ UNCHANGED <<lost, canState, acks>>
      BY <1>0, <1>6, <2>1, <2>2, TableWordTaken DEF WordLost
    <2>4. WordLost' /\ (transfer.received = loop - 2)'
      BY <1>0, <1>1, <1>6, <2>3 DEF WordLost
    <2>5. loop = TableWords => (transfer.received = TableWords - 1)'
      BY <2>3
    <2> QED BY <1>1, <2>4, <2>5 DEF BeforeWord, AfterTable
  <1>7. ASSUME SecondAttempt, UNCHANGED lost, acks' = <<Ack("TABLE", FALSE)>>,
               canState' = "FINISHED_TRANSFER_VECTOR_TABLE"
        PROVE  \/ host' = "table" /\ BeforeWord'
               \/ host' = "tableAck" /\ AfterTable'
    BY <1>1, <1>7 DEF BeforeWord, AfterTable, SecondAttempt, TableReceived
  <1>8. CASE /\ SecondAttempt /\ loop = 1 /\ r = TableWords - 1
             /\ canState = "FINISHED_FINAL_VALIDATION" /\ acks = <<>>
    <2>1. RxData8Bytes(word) /\ r + 1 = TableWords
      BY <1>0, <1>4, <1>8 DEF SecondAttempt
    <2> QED BY <1>0, <1>7, <1>8, <2>1, TableWordTaken
  <1>9. CASE /\ SecondAttempt /\ canState = "FINISHED_TRANSFER_VECTOR_TABLE"
             /\ acks = <<Ack("TABLE", FALSE)>>
    <2>1. RxData8Bytes(word)
      BY <1>4, <1>9 DEF SecondAttempt
    <2>2. UNCHANGED <<canState, acks, lost>>
      BY <1>9, <2>1 DEF RxData8Bytes, Silent, bus
    <2> QED BY <1>7, <1>9, <2>2
  <1> QED BY <1>5, <1>6, <1>8, <1>9 DEF BeforeWord

-----------------------------------------------------------------------------
(* The bootloader between the messages *)

LEMMA BeginsStep ==
  ASSUME BootInv, LoopsCounted, StatesAgree, BootBegins, [LoadNext]_vars
  PROVE  BootBegins'
  <1>0. /\ FlashInv /\ OneImageInv
        /\ bootState \in {"WAIT", "RUN"} => FirstLoop(transfer)
    BY DEF BootInv, LoopsCounted
  <1>1. ASSUME NEW m, Restarted(m) PROVE BootBegins'
    BY <1>1 DEF Restarted, BootBegins
  <1>2. ASSUME UNCHANGED <<canState, bootState, transfer>> PROVE BootBegins'
    BY <1>2 DEF BootBegins
  <1>3. ASSUME Callback PROVE BootBegins'
    <2>1. /\ canState' = "NO_COMMUNICATION" => canState = canState'
          /\ canState' = "WAIT_FOR_INFO" =>
                canState \in {"NO_COMMUNICATION", "WAIT_FOR_INFO"} /\ UNCHANGED transfer
          /\ UNCHANGED bootState
      BY <1>3 DEF Callback, RxActionRequest, RxTransferRequest, RxRunRequest, RxResetRequest,
            RxTransferProcessInfo, RxLoopInfo, RxData8Bytes, RxCrc8Bytes, RxTableWord,
            RxProgramWord, RxTableCrc, RxSectorCrc, progress
    <2> QED BY <1>0, <2>1 DEF BootBegins
  <1>4. ASSUME canState' \notin {"NO_COMMUNICATION", "WAIT_FOR_INFO"} PROVE BootBegins'
    BY <1>4 DEF BootBegins
  <1>5. CASE BOOT_WriteAndValidateCurrentSector
    <2>1. canState' \notin {"NO_COMMUNICATION", "WAIT_FOR_INFO"} \/ Restarted("halted")
      <3>1. canState = "RECEIVED_8_BYTES_CRC"
        BY <1>5 DEF BOOT_WriteAndValidateCurrentSector, WriteTurn
      <3>2. canState' \in {canState, "FINISHED_FINAL_VALIDATION", "WAIT_FOR_DATA_LOOPS"}
            \/ Restarted("halted")
        BY <1>5 DEF BOOT_WriteAndValidateCurrentSector, SectorWritten, Halt
      <3> QED BY <3>1, <3>2
    <2> QED BY <1>1, <1>4, <2>1
  <1>6. CASE StoreProgram \/ BOOT_ResetBootloader
    <2>1. CASE StoreProgram
      <3>1. canState = "VALIDATED_VECTOR_TABLE"
        BY <2>1 DEF StoreProgram, StoreTurn
      <3>2. UNCHANGED canState \/ Restarted("boot") \/ Restarted("halted")
        BY <2>1, Zenon DEF StoreProgram, Halt
      <3> QED BY <1>1, <1>4, <3>1, <3>2
    <2>2. CASE BOOT_ResetBootloader
      <3>1. EraseApp => canState' = "CLEARED" \/ Restarted("boot")
        BY Zenon DEF EraseApp
      <3>2. \A s : SoftwareReset(s) => Restarted("boot") \/ Restarted("halted")
        BY Zenon DEF SoftwareReset, Halt
      <3>3. canState' = "CLEARED" \/ Restarted("boot") \/ Restarted("halted")
        <4>1. ASSUME NEW w,
                     CASE ~w.ok -> /\ SoftwareReset(Served(w.left.table, flash))
                                   /\ Mishap /\ UNCHANGED flash
                       [] w.ok /\ ~Served(w.left.table, flash) ->
                            Halt /\ UNCHANGED <<flash, mishaps>>
                       [] w.ok /\ Served(w.left.table, flash) -> EraseApp
              PROVE  canState' = "CLEARED" \/ Restarted("boot") \/ Restarted("halted")
          BY <3>1, <3>2, <4>1 DEF Halt
        <4> QED BY <2>2, <3>2, <4>1, Zenon DEF BOOT_ResetBootloader, Halt
      <3> QED BY <1>1, <1>4, <3>3
    <2> QED BY <1>6, <2>1, <2>2
  <1>7. CASE Wait \/ TimeOut \/ Load \/ BOOT_GetBootStateDuringError
    <2>1. UNCHANGED <<canState, transfer>>
      BY <1>7 DEF Wait, TimeOut, Load, BOOT_GetBootStateDuringError, progress
    <2>2. CASE canState = "NO_COMMUNICATION"
      <3>1. bootState' \in {"WAIT", "RUN"}
        <4>1. bootState \in {"WAIT", "RUN"}
          BY <2>2 DEF BootBegins
        <4>2. Wait => bootState' = "WAIT"
          BY <2>2 DEF Wait, BOOT_GetBootState, LoadStates
        <4> QED BY <1>7, <4>1, <4>2 DEF In, TimeOut, Load, BOOT_GetBootStateDuringError
      <3> QED BY <2>1, <2>2, <3>1 DEF BootBegins
    <2>3. CASE canState = "WAIT_FOR_INFO"
      <3>1. bootState' \in {"RUN", "LOAD"}
        BY <1>7, <2>3 DEF BootBegins, In, Wait, TimeOut, Load, BOOT_GetBootStateDuringError,
              BOOT_GetBootState, LoadStates
      <3> QED BY <2>1, <2>3, <3>1 DEF BootBegins
    <2>4. CASE canState \notin {"NO_COMMUNICATION", "WAIT_FOR_INFO"}
      BY <1>4, <2>1, <2>4
    <2> QED BY <2>2, <2>3, <2>4
  <1>8. CASE Run
    <2>1. \/ \E m : Restarted(m)
          \/ canState' = "NO_COMMUNICATION" /\ bootState' = "WAIT"
      BY <1>8, Zenon DEF Run, Halt
    <2> QED BY <1>1, <2>1 DEF BootBegins
  <1>9. CASE HostStep
    BY <1>0, <1>2, <1>3, <1>9, HostCalls DEF progress
  <1>10. CASE RunApp
    BY <1>3, <1>10 DEF RunApp, Callback
  <1>11. CASE Interrupt \/ \E i \in Images \union {NoImage} : StartSession(i)
    BY <1>2, <1>11 DEF Interrupt, StartSession, boot, progress
  <1>12. CASE PowerFails \/ PowerCycle
    <2>1. \E m : Restarted(m)
      BY <1>12 DEF PowerFails, PowerFailure, PowerFailureInSector,
            PowerFailureInStore, PowerFailureInReset, Cut, PowerCycle
    <2> QED BY <1>1, <2>1
  <1>13. CASE UNCHANGED vars
    BY <1>2, <1>13 DEF vars, boot, progress
  <1> QED BY <1>5, <1>6, <1>7, <1>8, <1>9, <1>10, <1>11, <1>12, <1>13
          DEF LoadNext, Device, MainLoop

\* A sector is written only because a CRC has been received for it.
LEMMA DeviceTurns ==
  ASSUME BootTypes, StatesAgree, MainLoop \/ TimeOut
  PROVE  /\ WriteTurn' => WriteTurn
         /\ ~WriteTurn => UNCHANGED acks
  <1>1. ASSUME bootState' # "LOAD" \/ canState' # "RECEIVED_8_BYTES_CRC" PROVE ~WriteTurn'
    BY <1>1 DEF WriteTurn, In
  <1>2. CASE BOOT_WriteAndValidateCurrentSector
    BY <1>2 DEF BOOT_WriteAndValidateCurrentSector
  <1>3. CASE StoreProgram \/ BOOT_ResetBootloader
    <2>1. bootState' # "LOAD"
      BY <1>3, StoreEnds DEF Restarted
    <2> QED BY <1>1, <1>3, <2>1 DEF StoreProgram, BOOT_ResetBootloader, bus
  <1>4. CASE Run
    <2>1. canState' = "NO_COMMUNICATION"
      BY <1>4, Zenon DEF Run, Halt, Restarted
    <2> QED BY <1>1, <1>4, <2>1 DEF Run, bus
  <1>5. CASE Wait
    BY <1>1, <1>5 DEF Wait, In, StatesAgree, bus
  <1>6. CASE TimeOut \/ BOOT_GetBootStateDuringError
    BY <1>1, <1>6 DEF TimeOut, BOOT_GetBootStateDuringError, bus
  <1>7. CASE Load
    <2>1. canState' = canState /\ UNCHANGED acks
      BY <1>7 DEF Load, bus
    <2>2. canState = "RECEIVED_8_BYTES_CRC" => validations' = validations /\ validations > 0
      BY <1>7 DEF Load
    <2> QED BY <2>1, <2>2 DEF WriteTurn, BootTypes, ControlTypes
  <1> QED BY <1>2, <1>3, <1>4, <1>5, <1>6, <1>7 DEF MainLoop

\* While an application is received, the main loop waits for more of it.
LEMMA DeviceWaits ==
  ASSUME MainLoop \/ TimeOut, bootState = "LOAD", ~WriteTurn,
         canState \in LoadStates \ {"VALIDATED_VECTOR_TABLE"}
  PROVE  /\ UNCHANGED <<canState, bootState, transfer, buffer, acks, lost>>
         /\ canState = "RECEIVED_8_BYTES_CRC" => UNCHANGED validations
  <1>1. Load
    BY DEF MainLoop, Wait, BOOT_WriteAndValidateCurrentSector, StoreProgram, StoreTurn, Run,
           BOOT_ResetBootloader, BOOT_GetBootStateDuringError, TimeOut, In
  <1>2. bootState' = "LOAD"
    BY <1>1 DEF Load, LoadStates
  <1> QED BY <1>1, <1>2 DEF Load, progress, bus

\* What a pass of the main loop leaves of an upload.
LEMMA UploadStays ==
  ASSUME UNCHANGED <<canState, bootState, transfer, buffer, acks, lost, program>>,
         canState = "RECEIVED_8_BYTES_CRC" => UNCHANGED validations
  PROVE  /\ BeforeNumber => BeforeNumber'
         /\ BeforeData => BeforeData'
         /\ AfterSubSector => AfterSubSector'
         /\ BeforeCrc => BeforeCrc'
         /\ AfterCrc /\ ~WriteTurn => AfterCrc'
         /\ BeforeWord => BeforeWord'
         /\ AfterTable => AfterTable'
         /\ BeforeTableCrc => BeforeTableCrc'
         /\ AfterTableCrc => AfterTableCrc'
  <1>0. UNCHANGED <<canState, bootState, transfer, buffer, acks, lost, image, loop, start,
                    tries, attempts, tableOnly>>
    BY DEF program, counters
  <1>1. Expected' = Expected /\ (NumberAwaited => NumberAwaited')
    BY <1>0 DEF NumberAwaited, Expected
  <1>2. /\ FirstAttempt => FirstAttempt'
        /\ OnBoardRight => OnBoardRight'
        /\ BufferRight => BufferRight'
        /\ InSector => InSector'
        /\ SectorRight => SectorRight'
        /\ \A n : Repeated(n) => Repeated(n)'
    BY <1>0 DEF FirstAttempt, OnBoardRight, BufferRight, InSector, SectorRight, Repeated
  <1>3. SendingWords => SendingWords'
    BY <1>0, <1>1, <1>2 DEF SendingWords
  <1>4. /\ BeforeNumber => BeforeNumber'
        /\ BeforeData => BeforeData'
    BY <1>0, <1>1, <1>2, <1>3 DEF BeforeNumber, BeforeData
  <1>5. AfterSubSector => AfterSubSector'
    BY <1>0, <1>1, <1>2 DEF AfterSubSector
  <1>6. /\ BeforeCrc => BeforeCrc'
        /\ AfterCrc /\ ~WriteTurn => AfterCrc'
    BY <1>0, <1>1, <1>2 DEF BeforeCrc, AfterCrc
  <1>7. /\ TableGoes => TableGoes'
        /\ LastAttempt => LastAttempt'
        /\ SecondAttempt => SecondAttempt'
        /\ WordLost => WordLost'
        /\ TableReceived => TableReceived'
        /\ TableRight(loop - 1) => TableRight(loop - 1)'
    BY <1>0 DEF TableGoes, LastAttempt, SecondAttempt, WordLost, TableReceived, TableRight
  <1>8. /\ BeforeWord => BeforeWord'
        /\ AfterTable => AfterTable'
        /\ BeforeTableCrc => BeforeTableCrc'
        /\ AfterTableCrc => AfterTableCrc'
    BY <1>0, <1>7 DEF BeforeWord, AfterTable, BeforeTableCrc, AfterTableCrc
  <1> QED BY <1>4, <1>5, <1>6, <1>8

-----------------------------------------------------------------------------
(* The host prepares an upload *)

LEMMA OneAck == ASSUME NEW a PROVE Len(Append(<<>>, a)) = 1
  <1>1. Append(<<>>, a) = <<a>> /\ Len(<<a>>) = 1
    OBVIOUS
  <1> QED BY <1>1

LEMMA RequestPrepares ==
  ASSUME AcksTyped, NEW r \in {"TRANSFER", "RUN", "RESET"}, NEW from, NEW to,
         SendRequest(r, from, to), acks = <<>>
  PROVE  host' = to /\ UNCHANGED <<image, counters>> /\ Len(acks') <= 1
  <1>1. acks' = acks \/ \E a : acks' = Append(acks, a)
    BY Zenon DEF SendRequest, Sent, RxActionRequest, RxTransferRequest, RxRunRequest,
          RxResetRequest, Send, Silent, Lose, bus, boot
  <1>2. ASSUME NEW a, acks' = Append(acks, a) PROVE Len(acks') <= 1
    BY <1>2, OneAck
  <1>3. Len(<<>>) = 0
    BY EmptySeq
  <1>4. Len(acks') <= 1
    BY <1>1, <1>2, <1>3
  <1> QED BY <1>4 DEF SendRequest

LEMMA InfoGoes ==
  ASSUME BootInv, StatesAgree, LossesCounted, BootBegins, Bearable, Bearable', FillsFlash,
         host = "info", acks = <<>>, SendInfo
  PROVE  /\ host' = "infoAck" /\ UNCHANGED <<image, counters>> /\ Len(acks') <= 1
         /\ Yes("INFO")' => FirstAwaited' /\ (Loops[image] = Total)'
  <1>0. /\ image \in Images /\ Loops[image] \in Nat /\ Loops[image] >= Total
        /\ IsTransfer(transfer) /\ Total \in Nat
    <2>1. Total \in Nat
      BY SMTT(30) DEF Total
    <2> QED BY <2>1 DEF BootInv, OneImageInv, ReceivedFromHost, Loading, FillsFlash, FlashInv,
                        ProgressTypes
  <1>1. /\ host' = "infoAck" /\ UNCHANGED <<image, counters>> /\ UNCHANGED bootState /\ Settled
        /\ Sent(RxTransferProcessInfo(Loops[image]), "other")
    BY HostLeaves DEF SendInfo, HostStep
  <1>l. Len(<<>>) = 0 /\ \A a : Len(<<a>>) = 1
    BY EmptySeq
  <1>2. ASSUME acks' = <<>> PROVE ~Yes("INFO")' /\ Len(acks') <= 1
    BY <1>2, <1>l, NothingAcknowledged
  <1>3. CASE mode # "boot"
    <2>1. acks' = <<>>
      BY <1>1, <1>3 DEF Sent, boot, bus
    <2> QED BY <1>1, <1>2, <2>1
  <1>4. CASE mode = "boot"
    <2>1. RxTransferProcessInfo(Loops[image])
      BY <1>1, <1>4, OtherArrives, Zenon DEF Sent
    <2>2. CASE canState # "WAIT_FOR_INFO"
      <3>1. acks' = <<>>
        BY <2>1, <2>2 DEF RxTransferProcessInfo, Silent, bus
      <3> QED BY <1>1, <1>2, <3>1
    <2>3. CASE canState = "WAIT_FOR_INFO"
      <3>1. bootState = "LOAD" /\ FirstLoop(transfer)
        BY <1>1, <1>4, <2>3 DEF BootBegins, Settled
      <3>2. CASE Loops[image] <= Total
        <4>1. /\ transfer' = [transfer EXCEPT !.total = Loops[image]]
              /\ canState' = "WAIT_FOR_DATA_LOOPS"
          BY <2>1, <2>3, <3>2 DEF RxTransferProcessInfo
        <4>2. FirstLoop(transfer')
          BY <1>0, <3>1, <4>1 DEF FirstLoop, IsTransfer
        <4>3. PICK a : Send(a)
          BY <2>1, <2>3, Zenon DEF RxTransferProcessInfo
        <4>4. Len(acks') <= 1
          <5>1. acks' = Append(<<>>, a)
            BY <4>3, OtherArrives
          <5>2. Len(acks') = 1
            BY <5>1, OneAck
          <5> QED BY <5>2
        <4>5. Loops[image] = Total
          BY <1>0, <3>2
        <4> QED BY <1>1, <3>1, <4>1, <4>2, <4>4, <4>5 DEF FirstAwaited, FirstLoop
      <3>3. CASE ~(Loops[image] <= Total)
        <4>1. Send(Ack("INFO", Loops[image] <= Total))
          BY <2>1, <2>3 DEF RxTransferProcessInfo
        <4>2. (Loops[image] <= Total) = FALSE
          BY <1>0, <3>3
        <4>3. acks' = <<Ack("INFO", FALSE)>>
          BY <4>1, <4>2, OtherArrives, FirstAck, Zenon
        <4>4. ~Yes("INFO")'
          <5>1. /\ Len(acks') = 1 /\ acks'[1] = Ack("INFO", FALSE)
            BY <4>3
          <5>2. acks'[1].yes = FALSE
            BY <5>1 DEF Ack
          <5>3. ASSUME NEW k \in Answers("INFO")' PROVE acks'[k].yes = FALSE
            <6>1. k \in 1 .. Len(acks')
              BY <5>3 DEF Answers
            <6>2. k = 1
              BY <5>1, <6>1
            <6> QED BY <5>2, <6>2
          <5> QED BY <5>3, Zenon DEF Yes
        <4> QED BY <1>1, <1>l, <4>3, <4>4
      <3> QED BY <3>2, <3>3
    <2> QED BY <2>2, <2>3
  <1> QED BY <1>3, <1>4

LEMMA FirstNumber ==
  ASSUME Fits, BootInv, LossesCounted, Beginning, FirstAwaited, host = "infoAck",
         Loops[image] = Total, InfoAck, acks' = <<>>, host' = "number"
  PROVE  BeforeNumber'
  <1>0. /\ FlashInv /\ IsTransfer(transfer) /\ image \in Images /\ lost["number"] \in Nat
    BY DEF BootInv, FlashInv, ProgressTypes, OneImageInv, ReceivedFromHost, Loading,
           LossesCounted, LossKinds
  <1>1. UNCHANGED <<canState, bootState, transfer, buffer, lost, image, counters>>
    <2>1. Waited /\ UNCHANGED counters
      BY DEF InfoAck
    <2> QED BY <2>1 DEF Waited, progress
  <1>2. /\ bootState = "LOAD" /\ canState = "WAIT_FOR_DATA_LOOPS"
        /\ transfer.loop = 0 /\ transfer.sector = 1 /\ transfer.position = 0
        /\ loop = 1 /\ start = 1 /\ tries = 0 /\ attempts = 0 /\ ~tableOnly
    BY DEF FirstAwaited, FirstLoop, Beginning
  <1>3. transfer.onBoard = SubSeq(ProgramOf(image), 1, 0)
    <2>1. transfer.onBoard \in Seq(Sectors) /\ 1 = Len(transfer.onBoard) + 1
      BY <1>0, <1>2 DEF FlashInv, SectorsInFlash, SectorStates
    <2>2. transfer.onBoard = <<>>
      BY <2>1, EmptySeq
    <2>3. SubSeq(ProgramOf(image), 1, 0) = <<>>
      <3>1. ProgramOf(image) \in Seq(Sectors)
        <4>1. ProgramOf(image) \in [1 .. NumSectors -> Sectors] /\ NumSectors \in Nat
          BY <1>0, FillIsSector DEF FlashContents
        <4> QED BY <4>1
      <3> QED BY <3>1
    <2> QED BY <2>2, <2>3
  <1>4. OnBoardRight'
    <2>1. transfer'.sector - 1 = 0
      BY <1>1, <1>2
    <2> QED BY <1>1, <1>3, <2>1 DEF OnBoardRight
  <1>5. InSector'
    <2>1. /\ SubSectorLoops <= SectorLoops /\ Whole(0)
          /\ (1 - 1) * SectorLoops = 0 /\ 1 * SectorLoops = SectorLoops
      <3>1. 1 \in 1 .. NumSectors
        OBVIOUS
      <3>2. (1 - 1) * SectorLoops = 0 /\ 1 * SectorLoops = SectorLoops
        OBVIOUS
      <3> QED BY <3>1, <3>2, SectorsAreWhole, WholeSums
    <2>2. /\ transfer'.sector = 1 /\ start' - 1 = 0
      BY <1>1, <1>2 DEF counters
    <2> QED BY <2>1, <2>2 DEF InSector
  <1>6. Expected' = 1 /\ BufferRight' /\ NumberAwaited'
    BY <1>1, <1>2 DEF Expected, BufferRight, NumberAwaited, NumberStates
  <1>7. FirstAttempt' /\ Repeated(0)'
    BY <1>0, <1>1, <1>2 DEF FirstAttempt, Repeated, counters
  <1>8. loop' = 1 /\ start' = 1
    BY <1>1, <1>2 DEF counters
  <1> QED BY <1>4, <1>5, <1>6, <1>7, <1>8 DEF BeforeNumber, SendingWords

\* A step of the host that has a sector written brings its CRC.
LEMMA HostTurns ==
  ASSUME BootInv, StatesAgree, LossesCounted, Bearable, Bearable', Uploading, HostStep, WriteTurn'
  PROVE  host = "crc" /\ SendCrc
  <1>0. UNCHANGED <<mode, bootState>> /\ host \notin Over
    BY HostLeaves DEF HostStep, Over, Reset, ResetAck, ResetPoll, Transfer, TransferAck, SendInfo,
          InfoAck, SendNumber, SendData, SubSectorAck, SendCrc, CrcAck, SendTableWord, TableAck,
          SendTableCrc, TableCrcAck, SendRequest
  <1>1. WriteTurn => FALSE
    <2>1. WriteTurn => host = "crcAck"
      BY <1>0 DEF Uploading
    <2>2. host = "crcAck" => Settled
      BY DEF HostStep, Reset, ResetAck, ResetPoll, Transfer, TransferAck, SendInfo,
          InfoAck, SendNumber, SendData, SubSectorAck, SendCrc, CrcAck, SendTableWord, TableAck,
          SendTableCrc, TableCrcAck, SendRequest
    <2>3. WriteTurn => ~Settled
      BY DEF WriteTurn, In, Settled
    <2> QED BY <2>1, <2>2, <2>3
  <1>2. ASSUME UNCHANGED <<canState, validations>> PROVE FALSE
    BY <1>0, <1>1, <1>2 DEF WriteTurn, In
  <1>3. ASSUME UNCHANGED validations, canState' # canState,
               canState' \notin {"RECEIVED_8_BYTES_CRC"}
        PROVE  FALSE
    BY <1>3 DEF WriteTurn
  <1>4. UNCHANGED validations
    <2> USE DEF Sent, boot, RxActionRequest, RxTransferProcessInfo, RxLoopInfo,
          RxData8Bytes, RxCrc8Bytes, Waited
    <2>1. CASE Reset \/ Transfer BY <2>1 DEF Reset, Transfer, SendRequest
    <2>2. CASE ResetAck \/ ResetPoll \/ TransferAck \/ InfoAck
      BY <2>2 DEF ResetAck, ResetPoll, TransferAck, InfoAck
    <2>3. CASE SendInfo \/ SendNumber
      BY <2>3 DEF SendInfo, SendNumber
    <2>4. CASE SendData
      BY <2>4 DEF SendData
    <2>5. CASE SubSectorAck \/ CrcAck \/ TableAck \/ TableCrcAck
      BY <2>5 DEF SubSectorAck, CrcAck, TableAck, TableCrcAck
    <2>6. CASE SendCrc \/ SendTableCrc
      BY <2>6 DEF SendCrc, SendTableCrc
    <2>7. CASE SendTableWord
      BY <2>7 DEF SendTableWord
    <2> QED BY <2>1, <2>2, <2>3, <2>4, <2>5, <2>6, <2>7 DEF HostStep
  <1>5. canState' = "RECEIVED_8_BYTES_CRC" /\ canState # canState'
    BY <1>2, <1>4 DEF WriteTurn
  <1>6. CASE Reset \/ Transfer
    <2>1. \E r \in {"TRANSFER", "RUN", "RESET"} :
             RxActionRequest(r) \/ UNCHANGED canState
      BY <1>6, Zenon DEF Reset, Transfer, SendRequest, Sent, boot
    <2> QED BY <1>5, <2>1 DEF RxActionRequest, RxTransferRequest, RxRunRequest, RxResetRequest
  <1>7. CASE ResetAck \/ ResetPoll \/ TransferAck \/ InfoAck \/ SubSectorAck \/ CrcAck
             \/ TableAck \/ TableCrcAck
    BY <1>5, <1>7 DEF ResetAck, ResetPoll, TransferAck, InfoAck, SubSectorAck, CrcAck, TableAck,
          TableCrcAck, Waited
  <1>8. CASE SendInfo
    BY <1>5, <1>8 DEF SendInfo, Sent, boot, RxTransferProcessInfo
  <1>9. CASE SendNumber
    BY <1>5, <1>9 DEF SendNumber, Sent, boot, RxLoopInfo
  <1>10. CASE SendData
    BY <1>5, <1>10 DEF SendData, Sent, boot, RxData8Bytes, RxTableWord, RxProgramWord
  <1>11. CASE SendTableWord
    BY <1>5, <1>11 DEF SendTableWord, Sent, boot, RxData8Bytes, RxTableWord, RxProgramWord
  <1>12. CASE SendTableCrc
    <2>1. canState = "FINISHED_TRANSFER_VECTOR_TABLE"
      BY <1>12 DEF SendTableCrc, Uploading, BeforeTableCrc, TableReceived
    <2> QED BY <1>5, <1>12, <2>1 DEF SendTableCrc, Sent, boot, RxCrc8Bytes, RxTableCrc
  <1> QED BY <1>6, <1>7, <1>8, <1>9, <1>10, <1>11, <1>12 DEF HostStep, SendCrc

Early == {"reset", "resetAck", "resetPoll", "transfer", "transferAck", "info", "infoAck"}

LEMMA EarlyUploads ==
  ASSUME ~WriteTurn', host' \in Early \union {"done", "refused", "idle"}
  PROVE  Uploading'
  BY DEF Uploading, Early

LEMMA LateUploads ==
  ASSUME WriteTurn' => host' = "crcAck",
         \/ host' = "number" /\ BeforeNumber'
         \/ host' = "data" /\ BeforeData'
         \/ host' = "subSectorAck" /\ AfterSubSector'
         \/ host' = "crc" /\ BeforeCrc'
         \/ host' = "crcAck" /\ AfterCrc'
         \/ host' = "table" /\ BeforeWord'
         \/ host' = "tableAck" /\ AfterTable'
         \/ host' = "tableCrc" /\ BeforeTableCrc'
         \/ host' = "tableCrcAck" /\ AfterTableCrc'
  PROVE  Preparing' /\ Uploading'
  BY DEF Uploading, Preparing

LEMMA HostUploads ==
  ASSUME Fits, BootInv, ReportInv, LossesCounted, Bearable, Bearable', BootBegins, Preparing,
         Uploading, HostStep
  PROVE  Preparing' /\ Uploading'
  <1>0. StatesAgree /\ LoopsCounted /\ AcksTyped /\ FillsFlash
    BY DEF ReportInv, Fits
  <1>w. WriteTurn' => host = "crc" /\ SendCrc
    BY <1>0, HostTurns
  <1>e. ASSUME host' \in Early \union {"done", "refused", "idle"}, host # "crc" PROVE Uploading'
    BY <1>e, <1>w, EarlyUploads
  <1>1. CASE Reset
    <2>1. host = "reset" /\ SendRequest("RESET", "reset", "resetAck")
      BY <1>1 DEF Reset, SendRequest
    <2>2. Beginning /\ acks = <<>>
      BY <2>1 DEF Preparing
    <2>3. host' = "resetAck" /\ UNCHANGED counters /\ Len(acks') <= 1
      BY <1>0, <2>1, <2>2, RequestPrepares
    <2> QED BY <1>e, <2>1, <2>2, <2>3 DEF Preparing, Beginning, counters, Early
  <1>2. CASE Transfer
    <2>1. host = "transfer" /\ SendRequest("TRANSFER", "transfer", "transferAck")
      BY <1>2 DEF Transfer, SendRequest
    <2>2. Beginning /\ acks = <<>>
      BY <2>1 DEF Preparing
    <2>3. host' = "transferAck" /\ UNCHANGED counters /\ Len(acks') <= 1
      BY <1>0, <2>1, <2>2, RequestPrepares
    <2> QED BY <1>e, <2>1, <2>2, <2>3 DEF Preparing, Beginning, counters, Early
  <1>3. CASE ResetAck
    <2>1. /\ host = "resetAck" /\ UNCHANGED counters
          /\ (host' = "resetPoll" /\ Answered("RESET")) \/ host' = "refused"
      BY <1>3 DEF ResetAck
    <2>2. Beginning /\ Len(acks) <= 1
      BY <2>1 DEF Preparing
    <2>3. host' = "resetPoll" => acks' = <<>>
      BY <1>0, <2>1, <2>2, FewToRead
    <2> QED BY <1>e, <2>1, <2>2, <2>3 DEF Preparing, Beginning, counters, Early
  <1>4. CASE ResetPoll
    <2>1. /\ host = "resetPoll" /\ UNCHANGED <<counters, acks>>
          /\ host' \in {"refused", "done", "transfer"}
      BY <1>4, Zenon DEF ResetPoll
    <2>2. Beginning /\ acks = <<>>
      BY <2>1 DEF Preparing
    <2> QED BY <1>e, <2>1, <2>2 DEF Preparing, Beginning, counters, Early
  <1>5. CASE TransferAck
    <2>1. /\ host = "transferAck" /\ UNCHANGED counters
          /\ (host' = "info" /\ Answered("TRANSFER")) \/ host' = "refused"
      BY <1>5 DEF TransferAck
    <2>2. Beginning /\ Len(acks) <= 1
      BY <2>1 DEF Preparing
    <2>3. host' = "info" => acks' = <<>>
      BY <1>0, <2>1, <2>2, FewToRead
    <2> QED BY <1>e, <2>1, <2>2, <2>3 DEF Preparing, Beginning, counters, Early
  <1>6. CASE SendInfo
    <2>1. host = "info"
      BY <1>6 DEF SendInfo
    <2>2. Beginning /\ acks = <<>>
      BY <2>1 DEF Preparing
    <2>3. /\ host' = "infoAck" /\ UNCHANGED <<image, counters>> /\ Len(acks') <= 1
          /\ Yes("INFO")' => FirstAwaited' /\ (Loops[image] = Total)'
      BY <1>0, <1>6, <2>1, <2>2, InfoGoes
    <2> QED BY <1>e, <2>1, <2>2, <2>3 DEF Preparing, Beginning, counters, Early
  <1>7. CASE InfoAck
    <2>1. /\ host = "infoAck" /\ UNCHANGED counters
          /\ \/ host' = "number" /\ Answered("INFO") /\ Yes("INFO")
             \/ host' = "refused"
      BY <1>7 DEF InfoAck
    <2>2. Beginning /\ Len(acks) <= 1
      BY <2>1 DEF Preparing
    <2>3. CASE host' = "refused"
      BY <1>e, <2>1, <2>3 DEF Preparing, Early
    <2>4. CASE host' = "number"
      <3>1. Answered("INFO") /\ Yes("INFO")
        BY <2>1, <2>4
      <3>2. acks' = <<>> /\ FirstAwaited /\ Loops[image] = Total
        BY <1>0, <2>1, <2>2, <3>1, FewToRead DEF Preparing
      <3>3. BeforeNumber'
        BY <1>7, <2>1, <2>2, <2>4, <3>2, FirstNumber
      <3> QED BY <1>w, <2>1, <2>4, <3>3, LateUploads
    <2> QED BY <2>1, <2>3, <2>4
  <1>8. CASE SendNumber
    <2>1. host = "number" /\ host' = "data" /\ BeforeNumber
      BY <1>8 DEF SendNumber, Uploading
    <2>2. BeforeData'
      BY <1>0, <1>8, <2>1, NumberGoes DEF BootInv
    <2> QED BY <1>w, <2>1, <2>2, LateUploads
  <1>9. CASE SendData
    <2>1. host = "data" /\ BeforeData
      BY <1>9 DEF SendData, Uploading
    <2> QED BY <1>0, <1>9, <1>w, <2>1, DataGoes, LateUploads
  <1>10. CASE SubSectorAck
    <2>1. host = "subSectorAck" /\ AfterSubSector
      BY <1>10 DEF SubSectorAck, Uploading
    <2> QED BY <1>0, <1>10, <1>w, <2>1, SubSectorAckGoes, LateUploads
  <1>11. CASE SendCrc
    <2>1. host = "crc" /\ BeforeCrc
      BY <1>11 DEF SendCrc, Uploading
    <2> QED BY <1>0, <1>11, <2>1, CrcGoes, LateUploads
  <1>12. CASE CrcAck
    <2>1. host = "crcAck" /\ AfterCrc
      BY <1>12 DEF CrcAck, Uploading
    <2> QED BY <1>0, <1>12, <1>w, <2>1, CrcAckGoes, LateUploads
  <1>13. CASE SendTableWord
    <2>1. host = "table" /\ BeforeWord
      BY <1>13 DEF SendTableWord, Uploading
    <2> QED BY <1>0, <1>13, <1>w, <2>1, TableGoesOn, LateUploads
  <1>14. CASE TableAck
    <2>1. host = "tableAck" /\ AfterTable
      BY <1>14 DEF TableAck, Uploading
    <2> QED BY <1>0, <1>14, <1>w, <2>1, TableAckGoes, LateUploads
  <1>15. CASE SendTableCrc
    <2>1. host = "tableCrc" /\ BeforeTableCrc
      BY <1>15 DEF SendTableCrc, Uploading
    <2> QED BY <1>0, <1>15, <1>w, <2>1, TableCrcGoes, LateUploads
  <1>16. CASE TableCrcAck
    <2>1. host = "tableCrcAck" /\ AfterTableCrc
      BY <1>16 DEF TableCrcAck, Uploading
    <2>2. CASE host' = "done"
      <3>1. Uploading'
        BY <1>e, <2>1, <2>2
      <3> QED BY <2>2, <3>1 DEF Preparing
    <2>3. CASE host' = "table" /\ BeforeWord'
      BY <1>w, <2>1, <2>3, LateUploads
    <2> QED BY <1>16, <2>1, <2>2, <2>3, TableCrcAckGoes
  <1> QED BY <1>1, <1>2, <1>3, <1>4, <1>5, <1>6, <1>7, <1>8, <1>9, <1>10, <1>11, <1>12,
             <1>13, <1>14, <1>15, <1>16 DEF HostStep

LEMMA DeviceUploads ==
  ASSUME Fits, BootInv, ReportInv, LossesCounted, CallsServed, CallsServed',
         Bearable, Bearable', Preparing, Uploading, MainLoop \/ TimeOut, UNCHANGED program
  PROVE  Preparing' /\ Uploading'
  <1>0. /\ StatesAgree /\ LoopsCounted /\ BootTypes
        /\ UNCHANGED <<host, image, loop, start, tries, attempts, tableOnly>>
    BY DEF ReportInv, BootInv, program, counters
  <1>1. /\ WriteTurn' => WriteTurn
        /\ ~WriteTurn => UNCHANGED acks
    BY <1>0, DeviceTurns
  <1>w. WriteTurn' => host' \in Over \union {"crcAck"}
    BY <1>0, <1>1 DEF Uploading
  <1>2. CASE host \in Over
    BY <1>0, <1>2, <1>w DEF Over, Preparing, Uploading
  <1>3. CASE host \notin Over \union {"crcAck"}
    <2>1. ~WriteTurn /\ UNCHANGED acks
      BY <1>1, <1>3 DEF Uploading
    <2>2. ASSUME bootState = "LOAD", canState \in LoadStates \ {"VALIDATED_VECTOR_TABLE"}
          PROVE  /\ UNCHANGED <<canState, bootState, transfer, buffer, acks, lost>>
                 /\ canState = "RECEIVED_8_BYTES_CRC" => UNCHANGED validations
      BY <2>1, <2>2, DeviceWaits
    <2>3. Preparing'
      <3>1. FirstAwaited => FirstAwaited'
        BY <2>2 DEF FirstAwaited, LoadStates
      <3>2. Yes("INFO")' = Yes("INFO")
        BY <2>1 DEF Yes, Answers
      <3> QED BY <1>0, <2>1, <3>1, <3>2 DEF Preparing, Beginning
    <2>4. /\ host = "number" => BeforeNumber'
          /\ host = "data" => BeforeData'
          /\ host = "subSectorAck" => AfterSubSector'
          /\ host = "crc" => BeforeCrc'
          /\ host = "table" => BeforeWord'
          /\ host = "tableAck" => AfterTable'
          /\ host = "tableCrc" => BeforeTableCrc'
      <3>1. ASSUME host \in {"number", "data", "subSectorAck", "crc", "table", "tableAck",
                             "tableCrc"}
            PROVE  bootState = "LOAD" /\ canState \in LoadStates \ {"VALIDATED_VECTOR_TABLE"}
        BY <3>1 DEF Uploading, BeforeNumber, BeforeData, SendingWords, AfterSubSector, BeforeCrc,
              BeforeWord, AfterTable, BeforeTableCrc, FirstAttempt, TableGoes, TableReceived,
              WordLost, NumberAwaited, NumberStates, LoadStates
      <3>2. CASE host \in {"number", "data", "subSectorAck", "crc", "table", "tableAck",
                           "tableCrc"}
        BY <2>2, <3>1, <3>2, UploadStays DEF Uploading
      <3> QED BY <3>2
    <2>5. host = "tableCrcAck" => AfterTableCrc'
      <3> SUFFICES ASSUME host = "tableCrcAck" PROVE AfterTableCrc'
        OBVIOUS
      <3>1. AfterTableCrc
        BY DEF Uploading
      <3>2. CASE acks = <<Ack("TABLE_CRC", TRUE)>>
        BY <2>1, <3>2 DEF AfterTableCrc
      <3>3. CASE TableGoes /\ canState = "FINISHED_FINAL_VALIDATION"
        BY <2>2, <3>1, <3>3, UploadStays DEF TableGoes, LoadStates
      <3> QED BY <3>1, <3>2, <3>3 DEF AfterTableCrc
    <2>6. Uploading'
      BY <1>0, <1>3, <1>w, <2>4, <2>5 DEF Uploading, Over
    <2> QED BY <2>3, <2>6
  <1>4. CASE host = "crcAck"
    <2>1. AfterCrc
      BY <1>4 DEF Uploading
    <2>2. AfterCrc'
      <3>1. CASE WriteTurn
        <4>1. BOOT_WriteAndValidateCurrentSector
          BY <3>1 DEF WriteTurn, MainLoop, Wait, StoreProgram, StoreTurn, Load, Run,
                BOOT_ResetBootloader, BOOT_GetBootStateDuringError, TimeOut, In
        <4> QED BY <1>0, <2>1, <3>1, <4>1, SectorGoes
      <3>2. CASE ~WriteTurn
        <4>1. bootState = "LOAD" /\ canState \in LoadStates \ {"VALIDATED_VECTOR_TABLE"}
          BY <2>1, <3>2 DEF AfterCrc, FirstAttempt, NumberAwaited, NumberStates, LoadStates
        <4>2. /\ UNCHANGED <<canState, bootState, transfer, buffer, acks, lost>>
              /\ canState = "RECEIVED_8_BYTES_CRC" => UNCHANGED validations
          BY <3>2, <4>1, DeviceWaits
        <4> QED BY <2>1, <3>2, <4>2, UploadStays
      <3> QED BY <3>1, <3>2
    <2>3. Preparing' /\ Uploading'
      BY <1>0, <1>4, <2>2, LateUploads
    <2> QED BY <2>3
  <1> QED BY <1>2, <1>3, <1>4

LEMMA BearableBefore ==
  ASSUME BootTypes, LossesCounted, Bearable', [LoadNext]_vars
  PROVE  Bearable /\ ~PowerFails
  <1>1. Undisturbed /\ ~PowerFails
    BY UndisturbedBefore DEF Bearable
  <1>2. /\ lost'["table"] >= lost["table"] /\ lost'["number"] >= lost["number"]
        /\ lost["table"] \in Nat /\ lost["number"] \in Nat
        /\ lost'["table"] \in Nat /\ lost'["number"] \in Nat
    BY LossesStep DEF LossKinds, LossesCounted
  <1>3. Tries \in Nat
    BY HostAssumption DEF HostAssumption
  <1>4. lost'["table"] <= 1 /\ lost'["number"] < Tries
    BY DEF Bearable
  <1>5. lost["table"] <= 1 /\ lost["number"] < Tries
    BY <1>2, <1>3, <1>4
  <1> QED BY <1>1, <1>5 DEF Bearable

LEMMA UploadStep ==
  ASSUME Fits, BootInv, ReportInv, LossesCounted, CallsServed, CallsServed', BootBegins,
         UploadGoesOn, [LoadNext]_vars
  PROVE  UploadGoesOn'
  <1> SUFFICES ASSUME Bearable' PROVE Preparing' /\ Uploading'
    BY DEF UploadGoesOn
  <1>0. Bearable /\ ~PowerFails /\ Preparing /\ Uploading
    BY BearableBefore DEF BootInv, UploadGoesOn
  <1>1. CASE Device
    BY <1>0, <1>1, DeviceUploads DEF Device
  <1>2. CASE HostStep
    BY <1>0, <1>2, HostUploads
  <1>3. ASSUME ~WriteTurn' \/ host' \in Over, host' \in Over \ {"failed"}
        PROVE  Preparing' /\ Uploading'
    BY <1>3 DEF Preparing, Uploading, Over
  <1>4. CASE Interrupt
    BY <1>3, <1>4 DEF Interrupt, Over
  <1>5. CASE RunApp \/ (host \in Over /\ PowerCycle /\ UNCHANGED program)
    BY <1>0, <1>3, <1>5 DEF RunApp, Uploading, program
  <1>6. ASSUME NEW i \in Images \union {NoImage}, StartSession(i)
        PROVE  Preparing' /\ Uploading'
    <2>1. /\ host' \in {"reset", "transfer"} /\ acks' = <<>>
          /\ loop' = 1 /\ start' = 1 /\ tries' = 0 /\ attempts' = 0 /\ tableOnly' = FALSE
          /\ Settled /\ mode = "boot" /\ UNCHANGED <<canState, bootState, validations, mode>>
      BY <1>6 DEF StartSession, processor
    <2>2. ~WriteTurn'
      BY <2>1 DEF Settled, WriteTurn, In
    <2>3. Uploading'
      BY <2>1, <2>2, EarlyUploads DEF Early
    <2>4. Preparing'
      BY <2>1 DEF Preparing, Beginning
    <2> QED BY <2>3, <2>4
  <1>7. CASE UNCHANGED vars
    <2>1. /\ UNCHANGED <<canState, bootState, transfer, buffer, acks, lost, program>>
          /\ UNCHANGED <<validations, mode>>
      BY <1>7 DEF vars, boot, progress, bus, processor
    <2>2. UNCHANGED <<host, image, loop, start, tries, attempts, tableOnly>>
          /\ WriteTurn' = WriteTurn
      BY <2>1 DEF program, counters, WriteTurn, In
    <2>3. Preparing'
      BY <1>0, <2>1, <2>2 DEF Preparing, Beginning, Yes, Answers, FirstAwaited
    <2>4. CASE host = "crcAck" /\ WriteTurn
      <3>1. AfterCrc'
        BY <1>0, <2>1, <2>2, <2>4 DEF Uploading, AfterCrc, FirstAttempt, OnBoardRight, SectorRight,
              InSector, NumberAwaited, Expected
      <3> QED BY <2>2, <2>3, <2>4, <3>1, LateUploads
    <2>5. CASE ~(host = "crcAck" /\ WriteTurn)
      <3>1. Uploading'
        BY <1>0, <2>1, <2>2, <2>5, UploadStays DEF Uploading
      <3> QED BY <2>3, <3>1
    <2> QED BY <2>4, <2>5
  <1> QED BY <1>0, <1>1, <1>2, <1>4, <1>5, <1>6, <1>7 DEF LoadNext

\* As long as no flash operation and no power fails and no data or
\* acknowledgement is lost, neither lost loop numbers, fewer than a sub-sector
\* is tried, nor a lost word of the vector table, whose first repetition only
\* completes the table of the first and fails, make the host give up
\* (bootloader_can.py, can_cbs.c).
THEOREM UploadsSurviveLosses == Fits => (LoadSpec => []UploadSurvives)
  <1> SUFFICES ASSUME Fits PROVE LoadSpec => []UploadSurvives
    OBVIOUS
  <1>0. FillsFlash /\ NumSectors > 1 /\ OneEntry
    BY DEF Fits
  <1> DEFINE Inv == /\ CallsInv /\ ReportInv /\ OwnTableInv /\ BootBegins /\ UploadGoesOn
  <1>1. LoadInit => Inv
    <2>1. LoadInit => BootBegins
      BY DEF LoadInit, Init, BootBegins, InitialTransfer, FirstLoop
    <2>2. LoadInit => UploadGoesOn
      BY DEF LoadInit, Init, UploadGoesOn, Preparing, Uploading, WriteTurn, In
    <2> QED BY <1>0, <2>1, <2>2, InitialCalls, InitialReport
            DEF LoadInit, Init, OwnTableInv, OwnTableSaved, InstalledStore
  <1>2. BootInv /\ BootInv' /\ Inv /\ [LoadNext]_vars => Inv'
    BY <1>0, ReportStep, OwnTableStep, LossesStep, SectorStep, CallsStep, BeginsStep, UploadStep
       DEF CallsInv, ReportInv
  <1>3. BootInv /\ Inv => UploadSurvives
    <2> SUFFICES ASSUME BootInv, Inv, ~Bearable PROVE UploadSurvives
      BY DEF UploadGoesOn, Uploading, UploadSurvives
    <2>1. /\ mishaps \in Nat /\ lost["other"] \in Nat /\ lost["table"] \in Nat
          /\ lost["number"] \in Nat /\ Tries \in Nat
      BY HostAssumption DEF BootInv, BootTypes, CallsInv, LossesCounted, LossKinds, HostAssumption
    <2> QED BY <2>1 DEF UploadSurvives, Bearable, Undisturbed
  <1> QED BY <1>1, <1>2, <1>3, BootInvariant, PTL DEF LoadSpec
=============================================================================
