--------------------------- MODULE SysMonProofs ---------------------------
(***************************************************************************)
(* Theorems about SysMon: for every number of tasks, whenever and however  *)
(* often violations are found, messages clear them, interfaces are busy    *)
(* and the system is reset.                                                *)
(***************************************************************************)
EXTENDS SysMon, TLAPS

-----------------------------------------------------------------------------
(* The types *)

LEMMA StepsOfTypes ==
  ASSUME TypeOK, Next
  PROVE  TypeOK'
  <1> USE SysMonAssumption
  <1>0. NrOfTasks \in Nat /\ NrOfTasks > 0 /\ Tasks \subseteq Fields
    BY DEF Tasks, Fields
  <1>1. CASE SYSM_CheckNotifications
    <2>1. PICK late \in SUBSET Tasks \ {{}} :
             /\ Raise(late) /\ SYSM_RecordTimingViolation(late)
             /\ UNCHANGED <<call, entry, other, writeVars>>
      BY <1>1 DEF SYSM_CheckNotifications
    <2>2. late \subseteq Tasks
      OBVIOUS
    <2>3. flags' \subseteq Tasks /\ counter' \in {0, 1}
      BY <2>1, <2>2 DEF Raise, TypeOK
    <2>4. local' \subseteq Fields /\ changed' \in BOOLEAN
      BY <2>1, <2>2, <1>0 DEF SYSM_RecordTimingViolation, TypeOK, Fields
    <2>5. /\ call' = call /\ entry' = entry /\ other' = other
          /\ ram' = ram /\ fram' = fram /\ sent' = sent /\ refused' = refused
          /\ stored' = stored
      BY <2>1 DEF writeVars
    <2> QED BY <2>3, <2>4, <2>5, Zenon DEF TypeOK
  <1>2. CASE CANRX_ClearAllPersistentFlags
    BY <1>0, <1>2
       DEF CANRX_ClearAllPersistentFlags, At, GoTo, TypeOK, writeVars, recordVars,
           diagVars, Callers, Steps, Tasks
  <1>3. CASE ClearEntry
    BY <1>0, <1>3
       DEF ClearEntry, At, GoTo, TypeOK, writeVars, recordVars, Callers, Steps, Tasks
  <1>4. CASE ClearRecord
    BY <1>0, <1>4
       DEF ClearRecord, At, GoTo, TypeOK, diagVars, Callers, Steps
  <1>5. CASE FRAM_ReinitializeAllEntries
    BY <1>0, <1>5
       DEF FRAM_ReinitializeAllEntries, At, GoTo, TypeOK, writeVars, recordVars, diagVars,
           Callers, Steps
  <1>6. ASSUME NEW c \in Callers, SYSM_UpdateFramData(c)
        PROVE  TypeOK'
    <2>1. CASE Look(c)
      BY <1>0, <2>1
         DEF Look, At, GoTo, Unrecorded, TypeOK, writeVars, recordVars, diagVars, Callers,
             Steps
    <2>2. CASE Copy(c)
      BY <1>0, <2>2 DEF Copy, At, GoTo, TypeOK, diagVars, Callers, Steps
    <2>3. CASE CalculateCrc(c)
      <3>1. refused' \in BOOLEAN
        BY <2>3, Zenon DEF CalculateCrc
      <3> QED
        BY <1>0, <2>3, <3>1
           DEF CalculateCrc, At, GoTo, Unrecorded, TypeOK, recordVars, diagVars, Callers,
               Steps
    <2>4. CASE Lock(c)
      <3>1. refused' \in BOOLEAN
        BY <2>4, Zenon DEF Lock, SpiBusy
      <3> QED
        BY <1>0, <2>4, <3>1
           DEF Lock, At, GoTo, Unrecorded, TypeOK, recordVars, diagVars, Callers, Steps
    <2>5. CASE Send(c)
      <3>1. sent \in Fields /\ sent' \in 0 .. NrOfTasks + 1
        BY <1>0, <2>5 DEF Send, TypeOK, Fields
      <3>2. fram' \subseteq Fields /\ stored' \subseteq Fields
        BY <2>5, <3>1 DEF Send, TypeOK
      <3> QED
        BY <2>5, <3>1, <3>2 DEF Send, Unrecorded, TypeOK, recordVars, diagVars
    <2>6. CASE Unlock(c)
      BY <1>0, <2>6
         DEF Unlock, At, GoTo, Unrecorded, TypeOK, writeVars, recordVars, diagVars, Callers,
             Steps
    <2> QED BY <1>6, <2>1, <2>2, <2>3, <2>4, <2>5, <2>6 DEF SYSM_UpdateFramData
  <1>7. CASE OtherBlock
    BY <1>7 DEF OtherBlock, TypeOK, writeVars, recordVars, diagVars
  <1>8. CASE Restart
    <2>1. call' \in [Callers -> Steps]
      BY <1>8 DEF Restart, Steps
    <2>2. entry' \in Tasks /\ sent' \in 0 .. NrOfTasks + 1
      BY <1>0, <1>8 DEF Restart, Tasks
    <2>3. /\ local' \subseteq Fields /\ ram' \subseteq Fields /\ fram' \subseteq Fields
          /\ stored' \subseteq Fields /\ flags' \subseteq Tasks
          /\ other' \in {"idle", "crc", "spi"} /\ counter' \in {0, 1}
      BY <1>8 DEF Restart, SYSM_Initialize, TypeOK
    <2>4. changed' \in BOOLEAN /\ refused' \in BOOLEAN
      BY <1>8, Zenon DEF Restart, SYSM_Initialize
    <2> QED BY <2>1, <2>2, <2>3, <2>4, Zenon DEF TypeOK
  <1> QED BY <1>1, <1>2, <1>3, <1>4, <1>5, <1>6, <1>7, <1>8 DEF Next

\* Every state has the types of its variables.
THEOREM SysMonTypeCorrect == Spec => []TypeOK
  <1> USE SysMonAssumption
  <1>1. Init => TypeOK
    <2>1. ASSUME Init
          PROVE  TypeOK
      <3>1. call \in [Callers -> Steps]
        BY <2>1 DEF Init, Steps
      <3>2. entry \in Tasks /\ sent \in 0 .. NrOfTasks + 1
        BY <2>1 DEF Init, Tasks
      <3>3. /\ local \subseteq Fields /\ ram \subseteq Fields /\ fram \subseteq Fields
            /\ stored \subseteq Fields /\ flags \subseteq Tasks
            /\ other \in {"idle", "crc", "spi"} /\ counter \in {0, 1}
        BY <2>1 DEF Init
      <3>4. changed \in BOOLEAN /\ refused \in BOOLEAN
        BY <2>1, Zenon DEF Init
      <3> QED BY <3>1, <3>2, <3>3, <3>4, Zenon DEF TypeOK
    <2> QED BY <2>1
  <1>2. TypeOK /\ [Next]_vars => TypeOK'
    <2>1. TypeOK /\ UNCHANGED vars => TypeOK'
      BY DEF TypeOK, vars
    <2> QED BY <2>1, StepsOfTypes
  <1> QED BY <1>1, <1>2, PTL DEF Spec

-----------------------------------------------------------------------------
(* What the FRAM has taken stays in it *)

\* It is in both records in RAM too, until it is cleared; whoever takes the
\* record of the FRAM module to be transferred, takes it from the local one.
KeptInv ==
    /\ stored \subseteq fram /\ stored \subseteq ram /\ stored \subseteq local
    /\ call["cyclic1ms"] \notin {"look", "copy"} => ram \subseteq local
    /\ call["cyclic1ms"] = "look" => changed

LEMMA StepsOfKept ==
  ASSUME TypeOK, KeptInv, Next
  PROVE  KeptInv'
  <1>0. call \in [Callers -> Steps] /\ "cyclic1ms" \in Callers /\ "cyclic10ms" \in Callers
    BY DEF TypeOK, Callers
  <1>1. CASE SYSM_CheckNotifications
    <2>1. PICK late \in SUBSET Tasks \ {{}} :
             /\ Raise(late) /\ SYSM_RecordTimingViolation(late)
             /\ UNCHANGED <<call, entry, other, writeVars>>
      BY <1>1 DEF SYSM_CheckNotifications
    <2>2. local \subseteq local' /\ changed' = TRUE
      BY <2>1 DEF SYSM_RecordTimingViolation
    <2>3. call' = call /\ ram' = ram /\ fram' = fram /\ stored' = stored
      BY <2>1 DEF writeVars
    <2> QED BY <2>2, <2>3 DEF KeptInv
  <1>2. CASE CANRX_ClearAllPersistentFlags
    BY <1>0, <1>2
       DEF CANRX_ClearAllPersistentFlags, At, GoTo, KeptInv, writeVars, recordVars
  <1>3. CASE ClearEntry
    BY <1>0, <1>3 DEF ClearEntry, At, GoTo, KeptInv, writeVars, recordVars
  <1>4. CASE ClearRecord
    BY <1>0, <1>4 DEF ClearRecord, At, GoTo, KeptInv
  <1>5. CASE FRAM_ReinitializeAllEntries
    BY <1>0, <1>5 DEF FRAM_ReinitializeAllEntries, At, GoTo, KeptInv, writeVars, recordVars
  <1>6. ASSUME NEW c \in Callers, SYSM_UpdateFramData(c)
        PROVE  KeptInv'
    <2>0. c = "cyclic1ms" \/ (c = "cyclic10ms" /\ call["cyclic1ms"] = "idle")
      BY <1>6 DEF SYSM_UpdateFramData, Look, Copy, CalculateCrc, Lock, Send, Unlock,
                  At, Runs, Callers
    <2>1. CASE Look(c)
      BY <1>0, <2>0, <2>1
         DEF Look, At, GoTo, Unrecorded, KeptInv, writeVars, recordVars
    <2>2. CASE Copy(c)
      BY <1>0, <2>0, <2>2 DEF Copy, At, GoTo, KeptInv
    <2>3. CASE CalculateCrc(c)
      BY <1>0, <2>0, <2>3 DEF CalculateCrc, At, GoTo, Unrecorded, KeptInv, recordVars
    <2>4. CASE Lock(c)
      BY <1>0, <2>0, <2>4 DEF Lock, At, GoTo, Unrecorded, KeptInv, recordVars
    <2>5. CASE Send(c)
      <3>1. /\ call[c] = "send" /\ call' = call /\ ram' = ram /\ local' = local
            /\ changed' = changed
        BY <2>5 DEF Send, At, Unrecorded, recordVars
      <3>2. call["cyclic1ms"] \notin {"look", "copy"}
        BY <2>0, <3>1
      <3>3. CASE sent \in ram
        BY <2>5, <3>1, <3>2, <3>3 DEF Send, KeptInv
      <3>4. CASE sent \notin ram
        BY <2>5, <3>1, <3>2, <3>4 DEF Send, KeptInv
      <3> QED BY <3>3, <3>4
    <2>6. CASE Unlock(c)
      BY <1>0, <2>0, <2>6 DEF Unlock, At, GoTo, Unrecorded, KeptInv, writeVars, recordVars
    <2> QED BY <1>6, <2>1, <2>2, <2>3, <2>4, <2>5, <2>6 DEF SYSM_UpdateFramData
  <1>7. CASE OtherBlock
    BY <1>7 DEF OtherBlock, KeptInv, writeVars, recordVars
  <1>8. CASE Restart
    BY <1>0, <1>8 DEF Restart, SYSM_Initialize, KeptInv
  <1> QED BY <1>1, <1>2, <1>3, <1>4, <1>5, <1>6, <1>7, <1>8 DEF Next

\* What the FRAM has taken stays in it until a message clears it
\* (sys_mon.c:149-157, 267-279).
THEOREM RecordIsKept == Spec => []RecordKept
  <1>1. Init => KeptInv
    BY DEF Init, KeptInv, Callers
  <1>2. TypeOK /\ KeptInv /\ [Next]_vars => KeptInv'
    <2>1. KeptInv /\ UNCHANGED vars => KeptInv'
      BY DEF KeptInv, vars
    <2> QED BY <2>1, StepsOfKept
  <1>3. KeptInv => RecordKept
    BY DEF KeptInv, RecordKept
  <1> QED BY <1>1, <1>2, <1>3, SysMonTypeCorrect, PTL DEF Spec

-----------------------------------------------------------------------------
(* The record in the FRAM is in step with the one in RAM *)

\* The 1 ms task has replaced the record in RAM, or may have done so.
Behind == call["cyclic1ms"] \in {"crc", "lock"}

\* One task at a time transfers the record.
OneSends == call["cyclic1ms"] = "send" => call["cyclic10ms"] # "send"

\* Without a change to be copied, the record in RAM is the local one.
Copied == ~changed => ram = local

\* What has been transferred is what is in RAM, unless the 1 ms task has
\* replaced it since, whose own call is then refused.
SentAgrees ==
    (\E c \in Callers : call[c] = "send") /\ ~refused /\ ~Behind =>
        \A f \in Fields : f < sent => (f \in fram <=> f \in ram)

\* Outside FRAM_WriteData, so is the whole record.
WrittenAgrees ==
    (\A c \in Callers : call[c] \notin {"crc", "lock", "send"}) /\ ~refused =>
        fram = ram

StepInv == OneSends /\ Copied /\ SentAgrees /\ WrittenAgrees

LEMMA StepsOfRecord ==
  ASSUME TypeOK, StepInv, Next
  PROVE  StepInv'
  <1> USE SysMonAssumption DEF StepInv
  <1>0. /\ call \in [Callers -> Steps] /\ Callers = {"cyclic1ms", "cyclic10ms"}
        /\ NrOfTasks \in Nat /\ sent \in Nat
    BY DEF TypeOK, Callers
  <1>1. CASE SYSM_CheckNotifications
    <2>1. PICK late \in SUBSET Tasks \ {{}} :
             /\ Raise(late) /\ SYSM_RecordTimingViolation(late)
             /\ UNCHANGED <<call, entry, other, writeVars>>
      BY <1>1 DEF SYSM_CheckNotifications
    <2>2. changed' = TRUE
      BY <2>1 DEF SYSM_RecordTimingViolation
    <2>3. /\ call' = call /\ ram' = ram /\ fram' = fram /\ sent' = sent
          /\ refused' = refused
      BY <2>1 DEF writeVars
    <2> QED BY <2>2, <2>3 DEF OneSends, Copied, SentAgrees, WrittenAgrees, Behind
  <1>2. CASE CANRX_ClearAllPersistentFlags
    BY <1>0, <1>2
       DEF CANRX_ClearAllPersistentFlags, At, GoTo, OneSends, Copied, SentAgrees,
           WrittenAgrees, Behind, writeVars, recordVars
  <1>3. CASE ClearEntry
    BY <1>0, <1>3
       DEF ClearEntry, At, GoTo, OneSends, Copied, SentAgrees, WrittenAgrees, Behind,
           writeVars, recordVars
  <1>4. CASE ClearRecord
    BY <1>0, <1>4
       DEF ClearRecord, At, GoTo, OneSends, Copied, SentAgrees, WrittenAgrees, Behind
  <1>5. CASE FRAM_ReinitializeAllEntries
    BY <1>0, <1>5
       DEF FRAM_ReinitializeAllEntries, At, GoTo, OneSends, Copied, SentAgrees,
           WrittenAgrees, Behind, writeVars, recordVars
  <1>6. ASSUME NEW c \in Callers, SYSM_UpdateFramData(c)
        PROVE  StepInv'
    <2>0. c = "cyclic1ms" \/ (c = "cyclic10ms" /\ call["cyclic1ms"] = "idle")
      BY <1>6 DEF SYSM_UpdateFramData, Look, Copy, CalculateCrc, Lock, Send, Unlock,
                  At, Runs, Callers
    <2>1. CASE Look(c)
      BY <1>0, <2>0, <2>1
         DEF Look, At, GoTo, Unrecorded, OneSends, Copied, SentAgrees, WrittenAgrees,
             Behind, writeVars, recordVars
    <2>2. CASE Copy(c)
      BY <1>0, <2>0, <2>2
         DEF Copy, At, GoTo, OneSends, Copied, SentAgrees, WrittenAgrees, Behind
    <2>3. CASE CalculateCrc(c)
      <3>1. /\ call[c] = "crc" /\ ram' = ram /\ fram' = fram /\ sent' = sent
            /\ local' = local /\ changed' = changed
            /\ call' = [call EXCEPT ![c] = IF CrcBusy THEN "idle" ELSE "lock"]
        BY <2>3 DEF CalculateCrc, At, GoTo, Unrecorded, recordVars
      <3>2. CASE CrcBusy
        <4>1. refused' = TRUE
          BY <2>3, <3>2, Zenon DEF CalculateCrc
        <4> QED
          BY <1>0, <2>0, <3>1, <3>2, <4>1
             DEF OneSends, Copied, SentAgrees, WrittenAgrees, Behind
      <3>3. CASE ~CrcBusy
        <4>1. call'[c] = "lock" /\ (refused' <=> refused)
          BY <1>0, <2>3, <3>1, <3>3 DEF CalculateCrc
        <4> QED
          BY <1>0, <2>0, <3>1, <3>3, <4>1
             DEF OneSends, Copied, SentAgrees, WrittenAgrees, Behind
      <3> QED BY <3>2, <3>3
    <2>4. CASE Lock(c)
      <3>1. /\ call[c] = "lock" /\ ram' = ram /\ fram' = fram
            /\ local' = local /\ changed' = changed
            /\ call' = [call EXCEPT ![c] = IF SpiBusy THEN "idle" ELSE "send"]
        BY <2>4 DEF Lock, At, GoTo, Unrecorded, recordVars
      <3>2. CASE SpiBusy
        <4>1. refused' = TRUE
          BY <2>4, <3>2, Zenon DEF Lock
        <4> QED
          BY <1>0, <2>0, <3>1, <3>2, <4>1
             DEF OneSends, Copied, SentAgrees, WrittenAgrees, Behind
      <3>3. CASE ~SpiBusy
        <4>1. sent' = 0 /\ call' = [call EXCEPT ![c] = "send"]
          BY <2>4, <3>1, <3>3 DEF Lock
        <4>2. \A d \in Callers : call[d] # "send"
          BY <3>3 DEF SpiBusy
        <4>3. \A f \in Fields : ~(f < sent')
          BY <1>0, <4>1 DEF Fields
        <4>4. OneSends' /\ Copied' /\ WrittenAgrees'
          BY <1>0, <2>0, <3>1, <4>1, <4>2 DEF OneSends, Copied, WrittenAgrees
        <4>5. SentAgrees'
          BY <4>3 DEF SentAgrees
        <4> QED BY <4>4, <4>5
      <3> QED BY <3>2, <3>3
    <2>5. CASE Send(c)
      <3>1. /\ call[c] = "send" /\ call' = call /\ ram' = ram /\ local' = local
            /\ changed' = changed /\ refused' = refused /\ sent' = sent + 1
            /\ fram' = IF sent \in ram THEN fram \union {sent} ELSE fram \ {sent}
        BY <2>5 DEF Send, At, Unrecorded, recordVars
      <3>2. ~Behind
        BY <2>0, <3>1 DEF Behind
      <3>3. ASSUME ~refused
            PROVE  \A f \in Fields : f < sent + 1 => (f \in fram' <=> f \in ram)
        <4>1. \A f \in Fields : f < sent => (f \in fram <=> f \in ram)
          BY <3>1, <3>2, <3>3 DEF SentAgrees
        <4>2. sent \in fram' <=> sent \in ram
          BY <3>1
        <4>3. \A f : f # sent => (f \in fram' <=> f \in fram)
          BY <3>1
        <4>4. \A f \in Fields : f < sent + 1 => f < sent \/ f = sent
          BY <1>0 DEF Fields
        <4> QED BY <4>1, <4>2, <4>3, <4>4
      <3>4. OneSends' /\ Copied'
        BY <3>1 DEF OneSends, Copied
      <3>5. SentAgrees'
        BY <3>1, <3>3 DEF SentAgrees
      <3>6. WrittenAgrees'
        BY <3>1 DEF WrittenAgrees
      <3> QED BY <3>4, <3>5, <3>6
    <2>6. CASE Unlock(c)
      <3>1. /\ call[c] = "send" /\ sent = NrOfTasks + 1
            /\ call' = [call EXCEPT ![c] = "idle"]
            /\ ram' = ram /\ local' = local /\ fram' = fram /\ sent' = sent
            /\ changed' = changed /\ refused' = refused
        BY <2>6 DEF Unlock, At, GoTo, Unrecorded, recordVars, writeVars
      <3>2. ~Behind
        BY <2>0, <3>1 DEF Behind
      <3>3. ASSUME ~refused
            PROVE  fram = ram
        <4>1. \A f \in Fields : f < sent => (f \in fram <=> f \in ram)
          BY <3>1, <3>2, <3>3 DEF SentAgrees
        <4>2. \A f \in Fields : f < sent
          BY <1>0, <3>1 DEF Fields
        <4>3. \A f : f \in fram \/ f \in ram => f \in Fields
          BY DEF TypeOK
        <4> QED BY <4>1, <4>2, <4>3
      <3>4. OneSends' /\ Copied'
        BY <1>0, <2>0, <3>1 DEF OneSends, Copied
      <3>5. SentAgrees'
        BY <1>0, <2>0, <3>1 DEF OneSends, SentAgrees, Behind
      <3>6. WrittenAgrees'
        BY <3>1, <3>3 DEF WrittenAgrees
      <3> QED BY <3>4, <3>5, <3>6
    <2> QED BY <1>6, <2>1, <2>2, <2>3, <2>4, <2>5, <2>6 DEF SYSM_UpdateFramData
  <1>7. CASE OtherBlock
    BY <1>0, <1>7
       DEF OtherBlock, AllIdle, OneSends, Copied, SentAgrees, WrittenAgrees, Behind,
           writeVars, recordVars
  <1>8. CASE Restart
    BY <1>0, <1>8
       DEF Restart, SYSM_Initialize, OneSends, Copied, SentAgrees, WrittenAgrees, Behind
  <1> QED BY <1>1, <1>2, <1>3, <1>4, <1>5, <1>6, <1>7, <1>8 DEF Next

\* Between the calls the FRAM holds the record, if nothing is left to be
\* stored and no call was refused (sys_mon.c:267-279).
THEOREM RecordStaysInStep == Spec => []RecordInStep
  <1>1. Init => StepInv
    BY DEF Init, StepInv, OneSends, Copied, SentAgrees, WrittenAgrees, Callers
  <1>2. TypeOK /\ StepInv /\ [Next]_vars => StepInv'
    <2>1. StepInv /\ UNCHANGED vars => StepInv'
      BY DEF StepInv, OneSends, Copied, SentAgrees, WrittenAgrees, Behind, vars
    <2> QED BY <2>1, StepsOfRecord
  <1>3. StepInv => RecordInStep
    BY DEF StepInv, Copied, WrittenAgrees, RecordInStep, AllIdle, Callers
  <1> QED BY <1>1, <1>2, <1>3, SysMonTypeCorrect, PTL DEF Spec

=============================================================================
