------------------------------ MODULE BootLoad ------------------------------
(***************************************************************************)
(* The host program (cli/cmd_bootloader) that loads an application over    *)
(* CAN, or resets the bootloader, together with the bootloader.            *)
(*                                                                         *)
(* Messages may be lost either way; they are neither reordered nor         *)
(* delayed beyond the time the host waits for an acknowledgement.  The     *)
(* host takes a step when the main loop has dealt with the last message:   *)
(* a pass of the main loop takes microseconds, a CAN frame 0.2 ms, and the *)
(* host waits for an acknowledgement or sleeps wherever flash is written.  *)
(* Only the timeout after power-up comes in between.                       *)
(***************************************************************************)
EXTENDS Bootloader

CONSTANTS
    NoImage,        \* the session that only resets the bootloader
    Tries,          \* times a sub-sector is sent (times_of_repeat + 1)
    Attempts,       \* times the application is sent (times_of_repeat + 1)
    MaxSessions     \* bound: sessions of the host

ASSUME HostAssumption ==
    /\ NoImage \notin Images
    /\ Tries \in Nat \ {0} /\ Attempts \in Nat \ {0} /\ MaxSessions \in Nat

\* An origin is no word, so that a table is not taken for a program.
Origins == Images \union {NoImage, Own, Zero, Erased}

ASSUME WordAssumption == Origins \intersect (Origins \X Int) = {}

VARIABLES
    host,       \* where the host program is
    image,      \* the application it loads
    loop,       \* the next loop, or word of the vector table, it sends
    start,      \* the first loop of the sub-sector
    tries,      \* times the sub-sector has been sent before
    attempts,   \* times the application has been sent before
    tableOnly,  \* only the vector table is sent again
    sessions    \* sessions so far

counters == <<loop, start, tries, attempts, tableOnly>>
program == <<host, image, counters, sessions>>
vars == <<boot, program>>

-----------------------------------------------------------------------------
\* A message that arrives is dealt with in its callback, one that is lost or
\* meets an application is not.
Sent(Callback, kind) ==
    \/ mode = "boot" /\ Callback
    \/ /\ mode = "boot" /\ Lose(kind)
       /\ UNCHANGED <<canState, bootState, validations, progress, persistent,
                      processor>>
    \/ mode # "boot" /\ UNCHANGED boot

\* wait_can_ack_msg: other acknowledgements are dropped, and no answer is one
\* as well.
Answers(message) == {k \in 1 .. Len(acks) : acks[k].message = message}

Answered(message) ==
    \E k \in Answers(message) :
        /\ \A j \in Answers(message) : k <= j
        /\ acks' = SubSeq(acks, k + 1, Len(acks))

Yes(message) == \E k \in Answers(message) : acks[k].yes

Unanswered(message) ==
    Settled /\ Answers(message) = {} /\ acks' = <<>>

Waited ==
    /\ UNCHANGED <<canState, bootState, validations, progress, persistent,
                   processor, lost>>
    /\ UNCHANGED <<image, sessions>>

\* The host program does not run.
Over == {"idle", "done", "refused", "failed"}

AtBeginning ==
    /\ mode = "boot" /\ bootState = "WAIT" /\ canState = "NO_COMMUNICATION"
    /\ transfer.loop = 0

-----------------------------------------------------------------------------
(* One session *)

StartSession(i) ==
    /\ host \in Over /\ sessions < MaxSessions
    /\ mode = "boot" /\ Settled
    /\ host' = IF i = NoImage \/ ~AtBeginning THEN "reset" ELSE "transfer"
    /\ image' = i /\ sessions' = sessions + 1
    /\ loop' = 1 /\ start' = 1 /\ tries' = 0 /\ attempts' = 0
    /\ tableOnly' = FALSE
    /\ acks' = <<>>
    /\ UNCHANGED <<canState, bootState, validations, progress, persistent,
                   processor, lost>>

SendRequest(request, from, to) ==
    /\ host = from /\ Settled
    /\ Sent(RxActionRequest(request), "other")
    /\ host' = to
    /\ UNCHANGED <<image, counters, sessions>>

Reset == SendRequest("RESET", "reset", "resetAck")

ResetAck ==
    /\ host = "resetAck"
    /\ \/ Answered("RESET") /\ host' = "resetPoll"
       \/ Unanswered("RESET") /\ host' = "refused"
    /\ Waited /\ UNCHANGED counters

\* 15 s later the bootloader has been reset, and has tried to start an
\* application.
ResetPoll ==
    /\ host = "resetPoll" /\ Settled
    /\ AtBeginning => autoRun
    /\ host' = CASE ~AtBeginning -> "refused"
                 [] AtBeginning /\ image = NoImage -> "done"
                 [] AtBeginning /\ image # NoImage -> "transfer"
    /\ UNCHANGED acks /\ Waited /\ UNCHANGED counters

Transfer == SendRequest("TRANSFER", "transfer", "transferAck")

\* The acknowledgement alone does not do: the state is looked at as well.
TransferAck ==
    /\ host = "transferAck" /\ Settled
    /\ \/ /\ Answered("TRANSFER")
          /\ host' = IF mode = "boot" /\ canState = "WAIT_FOR_INFO"
                     THEN "info" ELSE "refused"
       \/ Unanswered("TRANSFER") /\ host' = "refused"
    /\ Waited /\ UNCHANGED counters

SendInfo ==
    /\ host = "info" /\ Settled
    /\ Sent(RxTransferProcessInfo(Loops[image]), "other")
    /\ host' = "infoAck"
    /\ UNCHANGED <<image, counters, sessions>>

InfoAck ==
    /\ host = "infoAck" /\ Settled
    /\ \/ /\ Answered("INFO")
          /\ host' = IF /\ Yes("INFO") /\ mode = "boot"
                        /\ canState = "WAIT_FOR_DATA_LOOPS"
                     THEN "number" ELSE "refused"
       \/ Unanswered("INFO") /\ host' = "refused"
    /\ Waited /\ UNCHANGED counters

SendNumber ==
    /\ host = "number" /\ Settled
    /\ Sent(RxLoopInfo(loop), "number")
    /\ host' = "data"
    /\ UNCHANGED <<image, counters, sessions>>

SendData ==
    /\ host = "data" /\ Settled
    /\ Sent(RxData8Bytes(<<image, loop>>), "other")
    /\ loop' = loop + 1
    /\ host' = IF loop % SubSectorLoops = 0 \/ loop = Loops[image]
               THEN "subSectorAck" ELSE "number"
    /\ UNCHANGED <<image, start, tries, attempts, tableOnly, sessions>>

\* Mutant: the attempts are not counted.
AttemptFailed_ForEver ==
    /\ host' = IF tableOnly THEN "table" ELSE "number"
    /\ loop' = 1 /\ start' = 1 /\ tries' = 0
    /\ UNCHANGED <<attempts, tableOnly>>

\* The application is sent from its beginning, or its vector table is, until
\* there have been enough attempts.
AttemptFailed ==
    /\ attempts' = attempts + 1
    /\ host' = CASE attempts + 1 = Attempts -> "failed"
                 [] attempts + 1 < Attempts /\ tableOnly -> "table"
                 [] attempts + 1 < Attempts /\ ~tableOnly -> "number"
    /\ loop' = 1 /\ start' = 1 /\ tries' = 0
    /\ UNCHANGED tableOnly

SubSectorAck ==
    /\ host = "subSectorAck" /\ Settled
    /\ \/ /\ Answered("SUB_SECTOR")
          /\ start' = loop /\ tries' = 0
          /\ host' = IF (loop - 1) % SectorLoops = 0 \/ loop > Loops[image]
                     THEN "crc" ELSE "number"
          /\ UNCHANGED <<loop, attempts, tableOnly>>
       \/ /\ Unanswered("SUB_SECTOR") /\ tries + 1 < Tries
          /\ tries' = tries + 1 /\ loop' = start /\ host' = "number"
          /\ UNCHANGED <<start, attempts, tableOnly>>
       \/ Unanswered("SUB_SECTOR") /\ tries + 1 = Tries /\ AttemptFailed
    /\ Waited

SendCrc ==
    /\ host = "crc" /\ Settled
    /\ Sent(RxCrc8Bytes(SubSeq(ProgramOf(image), 1, (loop - 1) \div SectorLoops)),
            "other")
    /\ host' = "crcAck"
    /\ UNCHANGED <<image, counters, sessions>>

StartTable == host' = "table" /\ loop' = 1 /\ tableOnly' = TRUE

CrcAck ==
    /\ host = "crcAck" /\ Settled
    /\ \/ /\ Answered("CRC") /\ Yes("CRC")
          /\ IF loop > Loops[image] THEN StartTable
             ELSE host' = "number" /\ UNCHANGED <<loop, tableOnly>>
          /\ UNCHANGED <<start, tries, attempts>>
       \/ Answered("CRC") /\ ~Yes("CRC") /\ AttemptFailed
       \/ Unanswered("CRC") /\ AttemptFailed
    /\ Waited

SendTableWord ==
    /\ host = "table" /\ Settled
    /\ Sent(RxData8Bytes(TableOf(image)[loop]), "table")
    /\ loop' = loop + 1
    /\ host' = IF loop = TableWords THEN "tableAck" ELSE "table"
    /\ UNCHANGED <<image, start, tries, attempts, tableOnly, sessions>>

TableAck ==
    /\ host = "tableAck" /\ Settled
    /\ \/ Answered("TABLE") /\ host' = "tableCrc" /\ UNCHANGED counters
       \/ Unanswered("TABLE") /\ AttemptFailed
    /\ Waited

SendTableCrc ==
    /\ host = "tableCrc" /\ Settled
    /\ Sent(RxCrc8Bytes(TableOf(image)), "other")
    /\ host' = "tableCrcAck"
    /\ UNCHANGED <<image, counters, sessions>>

TableCrcAck ==
    /\ host = "tableCrcAck" /\ Settled
    /\ \/ Answered("TABLE_CRC") /\ Yes("TABLE_CRC") /\ host' = "done"
          /\ UNCHANGED counters
       \/ Answered("TABLE_CRC") /\ ~Yes("TABLE_CRC") /\ AttemptFailed
       \/ Unanswered("TABLE_CRC") /\ AttemptFailed
    /\ Waited

HostStep ==
    Reset \/ ResetAck \/ ResetPoll \/ Transfer \/ TransferAck \/ SendInfo
    \/ InfoAck \/ SendNumber \/ SendData \/ SubSectorAck \/ SendCrc \/ CrcAck
    \/ SendTableWord \/ TableAck \/ SendTableCrc \/ TableCrcAck

-----------------------------------------------------------------------------
(* The user *)

\* The host program is interrupted.
Interrupt ==
    /\ host \notin Over
    /\ host' = "idle"
    /\ UNCHANGED <<boot, image, counters, sessions>>

\* The application is requested to run, by the command run_app.
RunApp ==
    /\ host \in Over
    /\ mode = "boot" /\ Settled
    /\ RxActionRequest("RUN")
    /\ UNCHANGED program

Device == (MainLoop \/ TimeOut) /\ UNCHANGED program

LoadInit ==
    /\ Init
    /\ host = "idle" /\ image = NoImage /\ loop = 1 /\ start = 1
    /\ tries = 0 /\ attempts = 0 /\ tableOnly = FALSE /\ sessions = 0

LoadNext ==
    \/ Device \/ HostStep \/ Interrupt \/ RunApp
    \/ \E i \in Images \union {NoImage} : StartSession(i)
    \/ PowerFails /\ UNCHANGED program
    \/ host \in Over /\ PowerCycle /\ UNCHANGED program

\* The main loop runs for ever, the timer runs out, and the host program
\* neither waits nor repeats without end.
Fairness ==
    /\ WF_vars(MainLoop /\ UNCHANGED program)
    /\ WF_vars(TimeOut /\ UNCHANGED program)
    /\ WF_vars(HostStep)

LoadSpec == LoadInit /\ [][LoadNext]_vars
FairLoadSpec == LoadSpec /\ Fairness
=============================================================================
