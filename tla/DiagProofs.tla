----------------------------- MODULE DiagProofs -----------------------------
(***************************************************************************)
(* Theorems about the diagnosis: its variables keep their types, and the   *)
(* flags, the list of active errors and the entries as others see them     *)
(* agree with the counters, for any number of tasks, strings and ids and   *)
(* wherever the tasks interrupt each other.  The number of active errors   *)
(* and the timer follow the list until a call overlaps with another one    *)
(* that changes the list, or a command finds the queue of the timer full.  *)
(***************************************************************************)
EXTENDS DiagHistory, FiniteSetTheorems, SequenceTheorems, TLAPS

-----------------------------------------------------------------------------
\* The inductive invariant of the types.

\* A call is of the task its event is left to, and lists only fatal errors.
CallsAreOwn ==
    \A t \in Tasks : call[t].step # "idle" =>
        /\ call[t].raising => t = NotOkTask[IdOf(t)]
        /\ ~call[t].raising => t = OkTask[IdOf(t)]

\* The counter that a call has read and not yet written moved only away from
\* the threshold the call is about to pass.
ReadInTime(t) ==
    IF call[t].raising
      THEN counter[call[t].key] <= call[t].read /\ call[t].read <= Threshold[call[t].key[2]]
      ELSE 1 <= call[t].read /\ call[t].read <= counter[call[t].key]
CounterWasRead == \A t \in Tasks : call[t].step = "counter" => ReadInTime(t)

\* Only the calls for a fatal error come to the list.
OnlyFatalListed == \A t \in Tasks : call[t].step = "list" => IdOf(t) \in FatalIds

TypeInv == TypeOK /\ CallsAreOwn /\ CounterWasRead /\ OnlyFatalListed

\* What a step of the handler leaves in the call of each task.
LEMMA CallStays ==
    ASSUME TypeOK, NEW t \in Tasks, NEW s \in Steps, Goto(t, s)
    PROVE  /\ call' \in [Tasks -> Calls]
           /\ call'[t].step = s
           /\ call'[t].key = call[t].key /\ call'[t].raising = call[t].raising
           /\ call'[t].read = call[t].read
           /\ \A u \in Tasks : u # t => call'[u] = call[u]
<1>1. call \in [Tasks -> Calls]
  BY DEF TypeOK
<1>2. call[t] \in Calls
  BY <1>1
<1>. QED  BY <1>1, <1>2 DEF Goto, Calls

LEMMA CallEnds ==
    ASSUME TypeOK, NEW t \in Tasks, call' = [call EXCEPT ![t] = Idle]
    PROVE  /\ call' \in [Tasks -> Calls]
           /\ call'[t].step = "idle"
           /\ \A u \in Tasks : u # t => call'[u] = call[u]
<1>1. call \in [Tasks -> Calls]
  BY DEF TypeOK
<1>2. Idle \in Calls /\ Idle.step = "idle"
  BY DiagAssumption DEF Idle, Calls, Steps, Keys, Strings, Ids
<1>. QED  BY <1>1, <1>2

\* Taking up a report.
LEMMA EnterType ==
    ASSUME TypeInv, NEW t \in Tasks, NEW k \in Keys, ReportNotOk(t, k) \/ ReportOk(t, k)
    PROVE  TypeInv'
<1>1. PICK b \in BOOLEAN :
         /\ Enter(t, k, b)
         /\ b => counter[k] <= Threshold[k[2]] /\ t = NotOkTask[k[2]]
         /\ ~b => counter[k] > 0 /\ t = OkTask[k[2]]
  BY DEF ReportNotOk, ReportOk
<1>2. call \in [Tasks -> Calls] /\ counter \in [Keys -> Nat] /\ k[2] \in Ids
      /\ Threshold \in [Ids -> Nat]
  BY DiagAssumption DEF TypeInv, TypeOK, Keys
<1>3. counter[k] \in Nat /\ Threshold[k[2]] \in Nat
  BY <1>2
<1>4. /\ call' \in [Tasks -> Calls]
      /\ call'[t] = [step |-> "counter", key |-> k, raising |-> b, read |-> counter[k]]
      /\ \A u \in Tasks : u # t => call'[u] = call[u]
  BY <1>1, <1>2, <1>3 DEF Enter, Calls, Steps
<1>5. UNCHANGED <<entryVars, fatalVars, timerVars, message>>
  BY DEF ReportNotOk, ReportOk
<1>6. TypeOK'
  BY <1>4, <1>5 DEF TypeInv, TypeOK, entryVars, fatalVars, timerVars
<1>7. CallsAreOwn'
  BY <1>1, <1>4 DEF TypeInv, CallsAreOwn, IdOf
<1>8. CounterWasRead'
  BY <1>1, <1>3, <1>4, <1>5 DEF TypeInv, CounterWasRead, ReadInTime, entryVars
<1>9. OnlyFatalListed'
  BY <1>4 DEF TypeInv, OnlyFatalListed, IdOf
<1>. QED  BY <1>6, <1>7, <1>8, <1>9 DEF TypeInv

\* A step behind the counter.
LEMMA LaterStep ==
    ASSUME TypeInv, NEW t \in Tasks, call[t].step # "idle", counter' = counter,
           \/ call' = [call EXCEPT ![t] = Idle]
           \/ \E s \in Steps \ {"idle", "counter", "list"} : Goto(t, s)
           \/ /\ call' = [call EXCEPT ![t].step = "write count", ![t].read = count]
              /\ count \in Nat
    PROVE  /\ call' \in [Tasks -> Calls]
           /\ CallsAreOwn' /\ CounterWasRead' /\ OnlyFatalListed'
<1>1. /\ call' \in [Tasks -> Calls]
      /\ call'[t].step = "idle" \/
           /\ call'[t].step \notin {"idle", "counter", "list"}
           /\ call'[t].key = call[t].key /\ call'[t].raising = call[t].raising
      /\ \A u \in Tasks : u # t => call'[u] = call[u]
  <2>1. CASE call' = [call EXCEPT ![t] = Idle]
    BY <2>1, CallEnds DEF TypeInv
  <2>2. CASE \E s \in Steps \ {"idle", "counter", "list"} : Goto(t, s)
    BY <2>2, CallStays DEF TypeInv
  <2>3. CASE call' = [call EXCEPT ![t].step = "write count", ![t].read = count]
               /\ count \in Nat
    <3>1. call \in [Tasks -> Calls] /\ call[t] \in Calls
      BY DEF TypeInv, TypeOK
    <3>. QED  BY <2>3, <3>1 DEF Calls, Steps
  <2>. QED  BY <2>1, <2>2, <2>3
<1>2. CallsAreOwn'
  <2>1. ASSUME NEW u \in Tasks, call'[u].step # "idle"
        PROVE  /\ call[u].step # "idle" /\ call'[u].raising = call[u].raising
               /\ call'[u].key = call[u].key
    BY <1>1, <2>1
  <2>. QED  BY <2>1 DEF TypeInv, CallsAreOwn, IdOf
<1>3. CounterWasRead'
  BY <1>1 DEF TypeInv, CounterWasRead, ReadInTime
<1>4. OnlyFatalListed'
  BY <1>1 DEF TypeInv, OnlyFatalListed, IdOf
<1>. QED  BY <1>1, <1>2, <1>3, <1>4

\* The step that writes the counter.  Another call that has read this counter
\* saw it further from the threshold that call is about to pass.
LEMMA CounterType ==
    ASSUME TypeInv, NEW t \in Tasks, CountUp(t) \/ CountDown(t)
    PROVE  TypeInv'
<1>. DEFINE k == call[t].key
<1>1. /\ call \in [Tasks -> Calls] /\ counter \in [Keys -> Nat]
      /\ k \in Keys /\ k[2] \in Ids /\ Threshold[k[2]] \in Nat /\ counter[k] \in Nat
      /\ call[t].read \in Nat /\ call[t].raising \in BOOLEAN
      /\ call[t].step = "counter" /\ counter[k] <= Threshold[k[2]] + 1
  <2>1. call \in [Tasks -> Calls] /\ counter \in [Keys -> Nat] /\ Threshold \in [Ids -> Nat]
    BY DiagAssumption DEF TypeInv, TypeOK
  <2>2. call[t] \in Calls
    BY <2>1
  <2>3. k \in Keys /\ k[2] \in Ids
    BY <2>2 DEF Calls, Keys
  <2>. QED  BY <2>1, <2>2, <2>3 DEF Calls, TypeInv, TypeOK, CountUp, CountDown, At
<1>2. /\ call' \in [Tasks -> Calls]
      /\ call'[t].step = "idle" \/
           /\ call'[t].step \in {"list", "callback"}
           /\ call'[t].step = "list" => k[2] \in FatalIds
           /\ call'[t].key = k /\ call'[t].raising = call[t].raising
      /\ \A u \in Tasks : u # t => call'[u] = call[u]
  <2>1. CASE call' = [call EXCEPT ![t] = Idle]
    BY <2>1, CallEnds DEF TypeInv
  <2>2. CASE Goto(t, StepAfterCounter(k))
    <3>1. /\ StepAfterCounter(k) \in Steps
          /\ StepAfterCounter(k) \in {"list", "callback"}
          /\ StepAfterCounter(k) = "list" => k[2] \in FatalIds
      BY DEF StepAfterCounter, Steps
    <3>. QED  BY <2>2, <3>1, CallStays DEF TypeInv
  <2>. QED  BY <2>1, <2>2 DEF CountUp, CountDown
<1>3. PICK n \in Nat :
        /\ counter' = [counter EXCEPT ![k] = n]
        /\ n <= Threshold[k[2]] + 1
        /\ IF call[t].raising
             THEN n > counter[k]
             ELSE n < counter[k]
  <2>1. CASE CountUp(t)
    <3>1. call[t].raising /\ ReadInTime(t)
      BY <1>1, <2>1 DEF TypeInv, CounterWasRead, CountUp
    <3>2. PICK m \in {call[t].read, counter[k]} : counter' = [counter EXCEPT ![k] = m + 1]
      BY <2>1 DEF CountUp
    <3>3. m + 1 \in Nat
      BY <1>1
    <3>. WITNESS m + 1 \in Nat
    <3>. QED  BY <1>1, <3>1, <3>2 DEF ReadInTime
  <2>2. CASE CountDown(t)
    <3>1. ~call[t].raising /\ ReadInTime(t)
      BY <1>1, <2>2 DEF TypeInv, CounterWasRead, CountDown
    <3>2. PICK m \in {call[t].read, counter[k]} : counter' = [counter EXCEPT ![k] = m - 1]
      BY <1>1, <2>2 DEF CountDown
    <3>3. m - 1 \in Nat
      BY <1>1, <3>1 DEF ReadInTime
    <3>. WITNESS m - 1 \in Nat
    <3>. QED  BY <1>1, <3>1, <3>2 DEF ReadInTime
  <2>. QED  BY <2>1, <2>2
<1>4. TypeOK'
  <2>1. counter' \in [Keys -> Nat] /\ \A j \in Keys : counter'[j] <= Threshold[j[2]] + 1
    BY <1>1, <1>3 DEF TypeInv, TypeOK
  <2>2. UNCHANGED <<flags, fatalVars, timerVars, message>>
    BY DEF CountUp, CountDown
  <2>. QED  BY <1>2, <2>1, <2>2 DEF TypeInv, TypeOK, fatalVars, timerVars
<1>5. CallsAreOwn'
  BY <1>1, <1>2 DEF TypeInv, CallsAreOwn, IdOf
<1>6. CounterWasRead'
  <2>. SUFFICES ASSUME NEW u \in Tasks, call'[u].step = "counter"
                PROVE  ReadInTime(u)'
    BY DEF CounterWasRead
  <2>1. u # t /\ call'[u] = call[u] /\ call[u].step = "counter"
    BY <1>2
  <2>2. call[u].key \in Keys /\ call[u].read \in Nat /\ call[u].raising \in BOOLEAN
    BY <1>1, <2>1 DEF Calls
  <2>3. CASE call[u].key # k
    BY <1>1, <1>3, <2>1, <2>2, <2>3 DEF TypeInv, CounterWasRead, ReadInTime
  <2>4. CASE call[u].key = k
    <3>1. call[u].raising # call[t].raising
      BY <1>1, <2>1, <2>4 DEF TypeInv, CallsAreOwn, IdOf
    <3>2. /\ counter'[k] \in Nat /\ n = counter'[k]
          /\ call'[u].key = k /\ call'[u].read = call[u].read
          /\ call'[u].raising = call[u].raising
      BY <1>1, <1>3, <2>1, <2>4
    <3>3. ReadInTime(u)
      BY <2>1 DEF TypeInv, CounterWasRead
    <3>4. CASE call[t].raising
      <4>1. ~call[u].raising /\ counter'[k] > counter[k]
        BY <1>1, <1>3, <2>2, <3>1, <3>2, <3>4
      <4>2. 1 <= call[u].read /\ call[u].read <= counter[k]
        BY <2>4, <3>3, <4>1 DEF ReadInTime
      <4>3. call[u].read <= counter'[k]
        BY <1>1, <2>2, <3>2, <4>1, <4>2
      <4>. QED  BY <3>2, <4>1, <4>2, <4>3 DEF ReadInTime
    <3>5. CASE ~call[t].raising
      BY <1>1, <1>3, <2>2, <2>4, <3>1, <3>2, <3>3, <3>5 DEF ReadInTime
    <3>. QED  BY <3>4, <3>5
  <2>. QED  BY <2>3, <2>4
<1>7. OnlyFatalListed'
  BY <1>2 DEF TypeInv, OnlyFatalListed, IdOf
<1>. QED  BY <1>4, <1>5, <1>6, <1>7 DEF TypeInv

\* Listing and unlisting an error.
LEMMA ListType ==
    ASSUME TypeInv, NEW t \in Tasks, List(t) \/ Unlist(t)
    PROVE  TypeInv'
<1>1. /\ call[t].step = "list" /\ UNCHANGED <<entryVars, count, timerVars>>
      /\ \E s \in {"callback", "test for start", "read count"} : Goto(t, s)
  BY DEF List, Unlist, At
<1>2. /\ call' \in [Tasks -> Calls]
      /\ CallsAreOwn' /\ CounterWasRead' /\ OnlyFatalListed'
  <2>1. \E s \in Steps \ {"idle", "counter", "list"} : Goto(t, s)
    BY <1>1 DEF Steps
  <2>. QED  BY <1>1, <2>1, LaterStep DEF entryVars
<1>3. IdOf(t) \in FatalIds
  BY <1>1 DEF TypeInv, OnlyFatalListed
<1>4. active' \subseteq FatalIds
  BY <1>3 DEF TypeInv, TypeOK, List, Unlist
<1>5. message' \in -1 .. NrOfIds
  <2>1. NrOfIds \in Nat /\ IdOf(t) \in 0 .. NrOfIds - 1
    BY <1>3, DiagAssumption DEF Ids
  <2>2. message' \in {message, IdOf(t), NrOfIds}
    BY DEF List, Unlist
  <2>. QED  BY <2>1, <2>2 DEF TypeInv, TypeOK
<1>. QED  BY <1>1, <1>2, <1>4, <1>5 DEF TypeInv, TypeOK, entryVars, timerVars

\* What a command leaves in the queue.
LEMMA SendType ==
    ASSUME TypeOK, NEW c \in {"start", "stop"}, Send(c)
    PROVE  commands' \in Seq({"start", "stop"}) /\ Len(commands') <= TimerQueueLength
BY DiagAssumption DEF TypeOK, Send

\* The other steps of the handler.
LEMMA CountType ==
    ASSUME TypeInv, NEW t \in Tasks,
           \/ TestForStart(t) \/ StartTimer(t) \/ ReadCount(t) \/ WriteCount(t)
           \/ TestForStop(t) \/ StopTimer(t) \/ Callback(t)
    PROVE  TypeInv'
<1>. USE DEF At, entryVars, fatalVars, timerVars
<1>1. counter' = counter /\ UNCHANGED <<active, running, resend, message>>
      /\ call[t].step \notin {"idle", "counter", "list"}
  BY DEF TestForStart, StartTimer, ReadCount, WriteCount, TestForStop, StopTimer, Callback
<1>2. /\ call' \in [Tasks -> Calls]
      /\ CallsAreOwn' /\ CounterWasRead' /\ OnlyFatalListed'
  <2>1. count \in Nat
    BY DiagAssumption DEF TypeInv, TypeOK
  <2>2. CASE ReadCount(t)
    BY <1>1, <2>1, <2>2, LaterStep DEF ReadCount
  <2>3. CASE Callback(t)
    BY <1>1, <2>3, LaterStep DEF Callback
  <2>4. CASE \/ TestForStart(t) \/ StartTimer(t) \/ WriteCount(t)
             \/ TestForStop(t) \/ StopTimer(t)
    <3>1. \E s \in Steps \ {"idle", "counter", "list"} : Goto(t, s)
      BY <2>4 DEF TestForStart, StartTimer, WriteCount, TestForStop, StopTimer, Steps
    <3>. QED  BY <1>1, <3>1, LaterStep
  <2>. QED  BY <2>2, <2>3, <2>4
<1>3. flags' \subseteq Keys
  <2>1. call[t].key \in Keys
    BY DEF TypeInv, TypeOK, Calls
  <2>. QED  BY <2>1 DEF TypeInv, TypeOK, TestForStart, StartTimer, ReadCount, WriteCount,
              TestForStop, StopTimer, Callback
<1>4. count' \in 0 .. CountModulus - 1
  <2>1. call[t].read \in Nat /\ CountModulus \in Nat /\ CountModulus > 0
    <3>1. call[t].read \in Nat
      BY DEF TypeInv, TypeOK, Calls
    <3>2. CountModulus \in Nat /\ CountModulus > 0
      BY DiagAssumption DEF TypeInv, TypeOK
    <3>. QED  BY <3>1, <3>2
  <2>2. CASE WriteCount(t)
    <3>1. PICK n \in Nat : count' = n % CountModulus
      <4>1. call[t].read + 1 \in Nat /\ call[t].read + (CountModulus - 1) \in Nat
        BY <2>1
      <4>. QED  BY <2>2, <4>1 DEF WriteCount
    <3>. QED  BY <2>1, <3>1
  <2>3. CASE ~WriteCount(t)
    BY <2>3 DEF TypeInv, TypeOK, TestForStart, StartTimer, ReadCount, TestForStop, StopTimer,
          Callback
  <2>. QED  BY <2>2, <2>3
<1>5. commands' \in Seq({"start", "stop"}) /\ Len(commands') <= TimerQueueLength
  <2>1. CASE StartTimer(t) \/ StopTimer(t)
    BY <2>1, SendType DEF TypeInv, StartTimer, StopTimer
  <2>2. CASE ~(StartTimer(t) \/ StopTimer(t))
    BY <2>2 DEF TypeInv, TypeOK, TestForStart, ReadCount, WriteCount, TestForStop, Callback
  <2>. QED  BY <2>1, <2>2
<1>. QED  BY <1>1, <1>2, <1>3, <1>4, <1>5 DEF TypeInv, TypeOK

\* The timer task.
LEMMA TimerType ==
    ASSUME TypeInv, TimerTask
    PROVE  TypeInv'
<1>. USE DEF entryVars, fatalVars, timerVars
<1>1. UNCHANGED <<entryVars, fatalVars, call>>
  BY DEF TimerTask, TakeCommand, DIAG_ResendFatalErrors, ResendNext
<1>2. /\ commands' \in Seq({"start", "stop"}) /\ Len(commands') <= TimerQueueLength
      /\ running' \in BOOLEAN
  <2>1. CASE TakeCommand
    <3>1. /\ commands \in Seq({"start", "stop"}) /\ commands # << >>
          /\ commands' = Tail(commands) /\ Len(commands) <= TimerQueueLength
      BY <2>1 DEF TypeInv, TypeOK, TakeCommand
    <3>2. Tail(commands) \in Seq({"start", "stop"}) /\ Len(Tail(commands)) <= Len(commands)
      BY <3>1
    <3>3. Len(commands') <= TimerQueueLength
      BY <3>1, <3>2, DiagAssumption
    <3>. QED  BY <2>1, <3>1, <3>2, <3>3 DEF TakeCommand
  <2>2. CASE ~TakeCommand
    BY <2>2 DEF TypeInv, TypeOK, TimerTask, DIAG_ResendFatalErrors, ResendNext
  <2>. QED  BY <2>1, <2>2
<1>3. resend' \in 0 .. NrOfIds /\ message' \in -1 .. NrOfIds
  BY DiagAssumption DEF TypeInv, TypeOK, TimerTask, TakeCommand, DIAG_ResendFatalErrors,
     ResendNext
<1>4. TypeOK'
  BY <1>1, <1>2, <1>3 DEF TypeInv, TypeOK
<1>. QED  BY <1>1, <1>4 DEF TypeInv, CallsAreOwn, CounterWasRead, ReadInTime, OnlyFatalListed, IdOf

\* Every step keeps TypeInv.
LEMMA TypeStep ==
    ASSUME TypeInv, [Next]_vars
    PROVE  TypeInv'
<1>1. CASE \E t \in Tasks : Handler(t)
  BY <1>1, CounterType, ListType, CountType DEF Handler
<1>2. CASE \E t \in Tasks : \E k \in Reported : ReportNotOk(t, k) \/ ReportOk(t, k)
  BY <1>2, EnterType DEF Reported
<1>3. CASE TimerTask
  BY <1>3, TimerType
<1>4. CASE UNCHANGED vars
  BY <1>4 DEF vars, entryVars, fatalVars, timerVars, TypeInv, TypeOK, CallsAreOwn,
        CounterWasRead, ReadInTime, OnlyFatalListed, IdOf
<1>. QED  BY <1>1, <1>2, <1>3, <1>4 DEF Next

\* CountModulus leaves room for every fatal error.
LEMMA CountIsPositive == CountModulus \in Nat /\ CountModulus > 0
<1>1. Ids = 0 .. NrOfIds - 1 /\ NrOfIds - 1 \in Int
  BY DiagAssumption DEF Ids
<1>2. IsFiniteSet(FatalIds)
  <2>1. IsFiniteSet(0 .. NrOfIds - 1)
    BY <1>1, FS_Interval
  <2>. QED  BY <1>1, <2>1, FS_Subset, DiagAssumption
<1>. QED  BY <1>2, DiagAssumption, FS_CardinalityType

LEMMA TypeInit == Init => TypeInv
<1>. SUFFICES ASSUME Init PROVE TypeInv
  OBVIOUS
<1>1. Idle \in Calls /\ Idle.step = "idle"
  BY DiagAssumption DEF Idle, Calls, Steps, Keys, Strings, Ids
<1>2. TypeOK
  <2>1. counter \in [Keys -> Nat] /\ \A k \in Keys : counter[k] <= Threshold[k[2]] + 1
    BY DiagAssumption DEF Init, Keys
  <2>2. count \in 0 .. CountModulus - 1
    BY DiagAssumption, CountIsPositive DEF Init
  <2>3. commands \in Seq({"start", "stop"}) /\ Len(commands) <= TimerQueueLength
    BY DiagAssumption DEF Init
  <2>4. resend \in 0 .. NrOfIds /\ message \in -1 .. NrOfIds
    BY DiagAssumption DEF Init
  <2>5. call \in [Tasks -> Calls]
    BY <1>1 DEF Init
  <2>6. flags \subseteq Keys /\ active \subseteq FatalIds /\ running \in BOOLEAN
    BY DEF Init
  <2>. QED  BY <2>1, <2>2, <2>3, <2>4, <2>5, <2>6 DEF TypeOK
<1>. QED  BY <1>1, <1>2 DEF Init, TypeInv, CallsAreOwn, CounterWasRead, OnlyFatalListed

\* Every variable of the diagnosis keeps its type, no counter passes its
\* threshold by more than one, and the queue never holds more than it can.
THEOREM DiagTypeCorrect == Spec => []TypeOK
<1>1. TypeInv => TypeOK
  BY DEF TypeInv
<1>. QED  BY <1>1, TypeInit, TypeStep, PTL DEF Spec

-----------------------------------------------------------------------------
\* Flags and counters.

\* A call that has written the counter and not yet called back.
Late(t) == call[t].step \notin {"idle", "counter"}

\* What a late call has made of its counter; the counter a call is about to
\* write is the one it has read.  Only of the entries that one task reports.
LateCounter ==
    \A t \in Tasks : call[t].key \in ExclusiveKeys =>
        /\ Late(t) => counter[call[t].key] =
                        (IF call[t].raising THEN Threshold[IdOf(t)] + 1 ELSE 0)
        /\ call[t].step = "counter" => call[t].read = counter[call[t].key]

EntryInv == TypeInv /\ LateCounter /\ FlagsFollowCounters

\* Two calls on the same entry of one task are the same call.
LEMMA OneCall ==
    ASSUME TypeInv, NEW t \in Tasks, NEW u \in Tasks, call[t].key \in ExclusiveKeys,
           call[t].step # "idle", call[u].step # "idle", call[u].key[2] = call[t].key[2]
    PROVE  t = u
<1>1. NotOkTask[IdOf(t)] = OkTask[IdOf(t)]
  BY DEF ExclusiveKeys, Exclusive, IdOf
<1>. QED  BY <1>1 DEF TypeInv, CallsAreOwn, IdOf

\* Raising and Clearing in terms of the call at work on the entry.
LEMMA LateCall ==
    ASSUME TypeInv, NEW t \in Tasks, call[t].key \in ExclusiveKeys, call[t].step # "idle"
    PROVE  /\ Raising(call[t].key) <=> Late(t) /\ call[t].raising
           /\ Clearing(call[t].key) <=> Late(t) /\ ~call[t].raising
<1>1. \A u \in Tasks : call[u].step # "idle" /\ call[u].key = call[t].key => u = t
  BY OneCall
<1>. QED  BY <1>1 DEF Raising, Clearing, Late

\* The calls on an entry stay as they are while its task is at work elsewhere.
LEMMA OtherEntries ==
    ASSUME TypeInv, NEW t \in Tasks, NEW k \in Keys,
           \A u \in Tasks : u # t => call'[u] = call[u],
           call[t].step \in {"idle", "counter"} \/ call[t].key # k,
           call'[t].step \in {"idle", "counter"} \/ call'[t].key # k
    PROVE  (Raising(k)' <=> Raising(k)) /\ (Clearing(k)' <=> Clearing(k))
BY DEF Raising, Clearing

\* A late call that stays late.
LEMMA StaysLate ==
    ASSUME TypeInv, NEW t \in Tasks, NEW k \in Keys,
           \A u \in Tasks : u # t => call'[u] = call[u],
           Late(t), Late(t)', call'[t].key = call[t].key, call'[t].raising = call[t].raising
    PROVE  (Raising(k)' <=> Raising(k)) /\ (Clearing(k)' <=> Clearing(k))
BY DEF Raising, Clearing, Late

\* The steps between the counter and the callback.
Between(t) ==
    \/ List(t) \/ Unlist(t) \/ TestForStart(t) \/ StartTimer(t) \/ ReadCount(t)
    \/ WriteCount(t) \/ TestForStop(t) \/ StopTimer(t)

LEMMA BetweenCall ==
    ASSUME TypeInv, NEW t \in Tasks, Between(t)
    PROVE  /\ Late(t) /\ Late(t)' /\ UNCHANGED <<counter, flags>>
           /\ call'[t].key = call[t].key /\ call'[t].raising = call[t].raising
           /\ \A u \in Tasks : u # t => call'[u] = call[u]
<1>1. UNCHANGED <<counter, flags>> /\ Late(t)
  BY DEF Between, List, Unlist, TestForStart, StartTimer, ReadCount, WriteCount, TestForStop,
     StopTimer, At, Late, entryVars
<1>2. CASE ReadCount(t)
  <2>1. call \in [Tasks -> Calls] /\ call[t] \in Calls
    BY DEF TypeInv, TypeOK
  <2>. QED  BY <1>1, <1>2, <2>1 DEF ReadCount, Calls, Late
<1>3. CASE ~ReadCount(t)
  <2>1. \E s \in Steps \ {"idle", "counter"} : Goto(t, s)
    BY <1>3 DEF Between, List, Unlist, TestForStart, StartTimer, WriteCount, TestForStop,
       StopTimer, Steps
  <2>. QED  BY <1>1, <2>1, CallStays DEF TypeInv, Late
<1>. QED  BY <1>2, <1>3

LEMMA BetweenEntry ==
    ASSUME EntryInv, NEW t \in Tasks, Between(t)
    PROVE  LateCounter' /\ FlagsFollowCounters'
<1>1. LateCounter'
  BY BetweenCall DEF EntryInv, LateCounter, Late, IdOf
<1>2. \A k \in Keys : (Raising(k)' <=> Raising(k)) /\ (Clearing(k)' <=> Clearing(k))
  BY BetweenCall, StaysLate DEF EntryInv
<1>3. ExclusiveKeys \subseteq Keys
  BY DEF ExclusiveKeys, Exclusive, Keys
<1>4. FlagsFollowCounters'
  BY <1>2, <1>3, BetweenCall DEF EntryInv, FlagsFollowCounters
<1>. QED  BY <1>1, <1>4

\* Taking up a report.
LEMMA EnterEntry ==
    ASSUME EntryInv, NEW t \in Tasks, NEW k \in Keys, ReportNotOk(t, k) \/ ReportOk(t, k)
    PROVE  LateCounter' /\ FlagsFollowCounters'
<1>1. PICK b \in BOOLEAN : Enter(t, k, b)
  BY DEF ReportNotOk, ReportOk
<1>2. /\ call'[t] = [step |-> "counter", key |-> k, raising |-> b, read |-> counter[k]]
      /\ \A u \in Tasks : u # t => call'[u] = call[u]
      /\ call[t].step = "idle" /\ UNCHANGED <<counter, flags>>
  <2>1. call \in [Tasks -> Calls]
    BY DEF EntryInv, TypeInv, TypeOK
  <2>. QED  BY <1>1, <2>1 DEF Enter, ReportNotOk, ReportOk, entryVars, At
<1>3. LateCounter'
  BY <1>2 DEF EntryInv, LateCounter, Late, IdOf
<1>4. \A j \in Keys : (Raising(j)' <=> Raising(j)) /\ (Clearing(j)' <=> Clearing(j))
  BY <1>2, OtherEntries DEF EntryInv
<1>5. ExclusiveKeys \subseteq Keys
  BY DEF ExclusiveKeys, Exclusive, Keys
<1>6. FlagsFollowCounters'
  BY <1>2, <1>4, <1>5 DEF EntryInv, FlagsFollowCounters
<1>. QED  BY <1>3, <1>6

\* What the write of the counter does to an entry that one task reports.
LEMMA CounterWrite ==
    ASSUME EntryInv, NEW t \in Tasks, CountUp(t) \/ CountDown(t), NEW k, k = call[t].key
    PROVE  /\ k \in Keys /\ Threshold[k[2]] \in Nat /\ call[t].step = "counter"
           /\ \A j \in Keys : j # k => counter'[j] = counter[j]
           /\ \A u \in Tasks : u # t => call'[u] = call[u]
           /\ flags' = flags
           /\ Late(t)' => call'[t].key = k /\ call'[t].raising = call[t].raising
           /\ ~Late(t)' => call'[t].step = "idle"
           /\ k \in ExclusiveKeys =>
                \/ /\ counter'[k] = Threshold[k[2]] + 1 /\ Late(t)' /\ call[t].raising
                   /\ counter[k] = Threshold[k[2]]
                \/ /\ counter'[k] = 0 /\ Late(t)' /\ ~call[t].raising /\ counter[k] = 1
                \/ /\ counter'[k] \in 1 .. Threshold[k[2]] /\ ~Late(t)'
                   /\ \/ call[t].raising /\ counter'[k] = counter[k] + 1
                      \/ ~call[t].raising /\ counter'[k] = counter[k] - 1
<1>1. /\ call \in [Tasks -> Calls] /\ counter \in [Keys -> Nat]
      /\ k \in Keys /\ Threshold[k[2]] \in Nat /\ counter[k] \in Nat
      /\ counter[k] <= Threshold[k[2]] + 1
      /\ call[t].step = "counter" /\ flags' = flags /\ call[t].read \in Nat
  <2>1. call \in [Tasks -> Calls] /\ counter \in [Keys -> Nat] /\ Threshold \in [Ids -> Nat]
    BY DiagAssumption DEF EntryInv, TypeInv, TypeOK
  <2>2. call[t] \in Calls
    BY <2>1
  <2>3. k \in Keys /\ k[2] \in Ids
    BY <2>2 DEF Calls, Keys
  <2>. QED  BY <2>1, <2>2, <2>3 DEF Calls, EntryInv, TypeInv, TypeOK, CountUp, CountDown, At
<1>2. /\ \A u \in Tasks : u # t => call'[u] = call[u]
      /\ Late(t)' => call'[t].key = k /\ call'[t].raising = call[t].raising
      /\ ~Late(t)' => call'[t].step = "idle"
      /\ call' = [call EXCEPT ![t] = Idle] => ~Late(t)'
      /\ Goto(t, StepAfterCounter(k)) => Late(t)'
  <2>1. CASE call' = [call EXCEPT ![t] = Idle]
    <3>1. call'[t].step = "idle" /\ \A u \in Tasks : u # t => call'[u] = call[u]
      BY <2>1, CallEnds DEF EntryInv, TypeInv
    <3>2. ~Goto(t, StepAfterCounter(k))
      BY <2>1, <3>1, CallStays DEF EntryInv, TypeInv, StepAfterCounter, Steps
    <3>. QED  BY <3>1, <3>2 DEF Late
  <2>2. CASE Goto(t, StepAfterCounter(k))
    <3>1. StepAfterCounter(k) \in Steps \ {"idle", "counter"}
      BY DEF StepAfterCounter, Steps
    <3>2. call'[t].step = StepAfterCounter(k) /\ call'[t].key = k
          /\ call'[t].raising = call[t].raising
          /\ \A u \in Tasks : u # t => call'[u] = call[u]
      BY <2>2, <3>1, CallStays DEF EntryInv, TypeInv
    <3>3. call' # [call EXCEPT ![t] = Idle]
      BY <3>1, <3>2, CallEnds DEF EntryInv, TypeInv
    <3>. QED  BY <3>1, <3>2, <3>3 DEF Late
  <2>. QED  BY <2>1, <2>2 DEF CountUp, CountDown
<1>3. \A j \in Keys : j # k => counter'[j] = counter[j]
  BY <1>1 DEF CountUp, CountDown
<1>4. ASSUME k \in ExclusiveKeys
      PROVE  \/ /\ counter'[k] = Threshold[k[2]] + 1 /\ Late(t)' /\ call[t].raising
                /\ counter[k] = Threshold[k[2]]
             \/ /\ counter'[k] = 0 /\ Late(t)' /\ ~call[t].raising /\ counter[k] = 1
             \/ /\ counter'[k] \in 1 .. Threshold[k[2]] /\ ~Late(t)'
                /\ \/ call[t].raising /\ counter'[k] = counter[k] + 1
                   \/ ~call[t].raising /\ counter'[k] = counter[k] - 1
  <2>1. call[t].read = counter[k] /\ ReadInTime(t)
    BY <1>1, <1>4 DEF EntryInv, LateCounter, TypeInv, CounterWasRead
  <2>2. CASE CountUp(t)
    <3>1. call[t].raising /\ counter' = [counter EXCEPT ![k] = counter[k] + 1]
      BY <1>1, <2>1, <2>2 DEF CountUp
    <3>2. counter'[k] = counter[k] + 1 /\ counter[k] <= Threshold[k[2]]
      BY <1>1, <2>1, <3>1 DEF ReadInTime
    <3>3. CASE counter[k] = Threshold[k[2]]
      BY <1>2, <2>1, <2>2, <3>1, <3>2, <3>3 DEF CountUp
    <3>4. CASE counter[k] # Threshold[k[2]]
      <4>1. ~Late(t)'
        BY <1>2, <2>1, <2>2, <3>4 DEF CountUp
      <4>. QED  BY <1>1, <3>1, <3>2, <3>4, <4>1
    <3>. QED  BY <3>3, <3>4
  <2>3. CASE CountDown(t)
    <3>1. ~call[t].raising /\ 1 <= counter[k]
      BY <1>1, <2>1, <2>3 DEF CountDown, ReadInTime
    <3>2. CASE counter[k] = 1
      <4>1. counter' = [counter EXCEPT ![k] = 0] /\ Late(t)'
        BY <1>2, <2>1, <2>3, <3>2 DEF CountDown
      <4>. QED  BY <1>1, <3>1, <3>2, <4>1
    <3>3. CASE counter[k] > 1
      <4>1. counter' = [counter EXCEPT ![k] = counter[k] - 1] /\ ~Late(t)'
        BY <1>1, <1>2, <2>1, <2>3, <3>3 DEF CountDown
      <4>2. counter'[k] = counter[k] - 1
        BY <1>1, <4>1
      <4>. QED  BY <1>1, <3>1, <3>3, <4>1, <4>2
    <3>. QED  BY <1>1, <3>1, <3>2, <3>3
  <2>. QED  BY <2>2, <2>3
<1>. QED  BY <1>1, <1>2, <1>3, <1>4

LEMMA CounterEntry ==
    ASSUME EntryInv, NEW t \in Tasks, CountUp(t) \/ CountDown(t)
    PROVE  LateCounter' /\ FlagsFollowCounters'
<1>. DEFINE k == call[t].key
<1>0. ExclusiveKeys \subseteq Keys
  BY DEF ExclusiveKeys, Exclusive, Keys
<1>1. /\ k \in Keys /\ Threshold[k[2]] \in Nat /\ call[t].step = "counter"
      /\ \A j \in Keys : j # k => counter'[j] = counter[j]
      /\ \A u \in Tasks : u # t => call'[u] = call[u]
      /\ flags' = flags
      /\ Late(t)' => call'[t].key = k /\ call'[t].raising = call[t].raising
      /\ ~Late(t)' => call'[t].step = "idle"
  BY CounterWrite
<1>2. k \in ExclusiveKeys =>
        \/ counter'[k] = Threshold[k[2]] + 1 /\ Late(t)' /\ call[t].raising
        \/ counter'[k] = 0 /\ Late(t)' /\ ~call[t].raising
        \/ counter'[k] \in 1 .. Threshold[k[2]] /\ ~Late(t)'
  BY CounterWrite
<1>3. LateCounter'
  <2>. SUFFICES ASSUME NEW u \in Tasks, call'[u].key \in ExclusiveKeys
                PROVE  /\ Late(u)' => counter'[call'[u].key] =
                            (IF call'[u].raising THEN Threshold[call'[u].key[2]] + 1 ELSE 0)
                       /\ call'[u].step = "counter" => call'[u].read = counter'[call'[u].key]
    BY DEF LateCounter, IdOf
  <2>1. CASE u = t
    BY <1>1, <1>2, <2>1 DEF Late
  <2>2. CASE u # t
    <3>1. call'[u] = call[u]
      BY <1>1, <2>2
    <3>2. call[u].step = "idle" \/ call[u].key # k
      BY <1>1, <2>2, <3>1, OneCall DEF EntryInv
    <3>. QED  BY <1>0, <1>1, <3>1, <3>2 DEF EntryInv, LateCounter, Late, IdOf
  <2>. QED  BY <2>1, <2>2
<1>4. FlagsFollowCounters'
  <2>. SUFFICES ASSUME NEW j \in ExclusiveKeys
                PROVE  /\ counter'[j] > Threshold[j[2]] => j \in flags' \/ Raising(j)'
                       /\ counter'[j] = 0 => j \notin flags' \/ Clearing(j)'
    BY DEF FlagsFollowCounters
  <2>1. CASE j = k
    <3>1. Late(t)' => IF call[t].raising THEN Raising(j)' ELSE Clearing(j)'
      BY <1>1, <2>1 DEF Late, Raising, Clearing
    <3>. QED  BY <1>1, <1>2, <2>1, <3>1
  <2>2. CASE j # k
    <3>1. (Raising(j)' <=> Raising(j)) /\ (Clearing(j)' <=> Clearing(j))
      BY <1>0, <1>1, <2>2, OtherEntries DEF EntryInv, Late
    <3>. QED  BY <1>0, <1>1, <2>2, <3>1 DEF EntryInv, FlagsFollowCounters
  <2>. QED  BY <2>1, <2>2
<1>. QED  BY <1>3, <1>4

\* The callback.
LEMMA CallbackCall ==
    ASSUME TypeInv, NEW t \in Tasks, Callback(t)
    PROVE  /\ Late(t) /\ ~Late(t)' /\ call'[t].step = "idle" /\ counter' = counter
           /\ \A u \in Tasks : u # t => call'[u] = call[u]
           /\ flags' = IF call[t].raising THEN flags \cup {call[t].key} ELSE flags \ {call[t].key}
BY CallEnds DEF TypeInv, Callback, At, Late

LEMMA CallbackEntry ==
    ASSUME EntryInv, NEW t \in Tasks, Callback(t)
    PROVE  LateCounter' /\ FlagsFollowCounters'
<1>. DEFINE k == call[t].key
<1>0. ExclusiveKeys \subseteq Keys
  BY DEF ExclusiveKeys, Exclusive, Keys
<1>1. /\ Late(t) /\ ~Late(t)' /\ call'[t].step = "idle" /\ counter' = counter
      /\ \A u \in Tasks : u # t => call'[u] = call[u]
      /\ flags' = IF call[t].raising THEN flags \cup {k} ELSE flags \ {k}
  BY CallbackCall DEF EntryInv
<1>2. LateCounter'
  <2>. SUFFICES ASSUME NEW u \in Tasks, call'[u].key \in ExclusiveKeys
                PROVE  /\ Late(u)' => counter'[call'[u].key] =
                            (IF call'[u].raising THEN Threshold[call'[u].key[2]] + 1 ELSE 0)
                       /\ call'[u].step = "counter" => call'[u].read = counter'[call'[u].key]
    BY DEF LateCounter, IdOf
  <2>1. CASE u = t
    BY <1>1, <2>1
  <2>2. CASE u # t
    BY <1>1, <2>2 DEF EntryInv, LateCounter, Late, IdOf
  <2>. QED  BY <2>1, <2>2
<1>3. FlagsFollowCounters'
  <2>. SUFFICES ASSUME NEW j \in ExclusiveKeys
                PROVE  /\ counter'[j] > Threshold[j[2]] => j \in flags' \/ Raising(j)'
                       /\ counter'[j] = 0 => j \notin flags' \/ Clearing(j)'
    BY DEF FlagsFollowCounters
  <2>0. Threshold[j[2]] \in Nat
    BY DiagAssumption DEF ExclusiveKeys, Exclusive
  <2>1. CASE j = k
    <3>1. counter[j] = (IF call[t].raising THEN Threshold[j[2]] + 1 ELSE 0)
      BY <1>1, <2>1 DEF EntryInv, LateCounter, IdOf
    <3>. QED  BY <1>1, <2>0, <2>1, <3>1
  <2>2. CASE j # k
    <3>1. (Raising(j)' <=> Raising(j)) /\ (Clearing(j)' <=> Clearing(j))
      BY <1>0, <1>1, <2>2, OtherEntries DEF EntryInv, Late
    <3>. QED  BY <1>1, <2>2, <3>1 DEF EntryInv, FlagsFollowCounters
  <2>. QED  BY <2>1, <2>2
<1>. QED  BY <1>2, <1>3

\* Every step keeps EntryInv.
LEMMA EntryStep ==
    ASSUME EntryInv, [Next]_vars
    PROVE  EntryInv'
<1>1. TypeInv'
  BY TypeStep DEF EntryInv
<1>2. CASE \E t \in Tasks : Handler(t)
  BY <1>1, <1>2, CounterEntry, BetweenEntry, CallbackEntry DEF Handler, Between, EntryInv
<1>3. CASE \E t \in Tasks : \E k \in Reported : ReportNotOk(t, k) \/ ReportOk(t, k)
  BY <1>1, <1>3, EnterEntry DEF EntryInv, Reported
<1>4. CASE TimerTask \/ UNCHANGED vars
  <2>1. UNCHANGED <<counter, flags, call>>
    BY <1>4 DEF TimerTask, TakeCommand, DIAG_ResendFatalErrors, ResendNext, vars, entryVars
  <2>2. LateCounter'
    BY <2>1 DEF EntryInv, LateCounter, Late, IdOf
  <2>3. FlagsFollowCounters'
    BY <2>1 DEF EntryInv, FlagsFollowCounters, Raising, Clearing
  <2>. QED  BY <1>1, <2>2, <2>3 DEF EntryInv
<1>. QED  BY <1>2, <1>3, <1>4 DEF Next

LEMMA EntryInit == Init => EntryInv
<1>. SUFFICES ASSUME Init PROVE EntryInv
  OBVIOUS
<1>1. \A t \in Tasks : call[t].step = "idle"
  BY DEF Init, Idle
<1>2. LateCounter
  BY <1>1 DEF LateCounter, Late
<1>3. FlagsFollowCounters
  <2>1. \A k \in ExclusiveKeys : counter[k] = 0 /\ Threshold[k[2]] \in Nat /\ k \notin flags
    BY DiagAssumption DEF Init, ExclusiveKeys, Exclusive, Keys
  <2>. QED  BY <2>1 DEF FlagsFollowCounters
<1>. QED  BY <1>2, <1>3, TypeInit DEF EntryInv

\* With the counter above the threshold the flag is set, and with the counter
\* at zero it is not, as soon as no call is at work on the entry.
THEOREM FlagsAreRight == Spec => []FlagsFollowCounters
<1>1. EntryInv => FlagsFollowCounters
  BY DEF EntryInv
<1>. QED  BY <1>1, EntryInit, EntryStep, PTL DEF Spec

-----------------------------------------------------------------------------
\* The list of active errors.

\* A call that ends an error has taken its id off the list when it comes to
\* the callback.
UnlistedWhenClearing ==
    \A t \in Tasks :
        call[t].step \notin {"idle", "counter", "list"} /\ ~call[t].raising
            /\ IdOf(t) \in Exclusive => IdOf(t) \notin active

ListInv == EntryInv /\ UnlistedWhenClearing /\ ListedIsFlagged

\* A listed error keeps its flag through every step that leaves list and flags
\* alone and no call less late.
LEMMA SameList ==
    ASSUME ListInv, active' \subseteq active, flags' = flags,
           \A k \in Keys : Raising(k) => Raising(k)'
    PROVE  ListedIsFlagged'
<1>1. \A id \in Exclusive : \A s \in Strings : <<s, id>> \in Keys
  BY DEF Exclusive, Keys
<1>. QED  BY <1>1 DEF ListInv, ListedIsFlagged

\* Only List and Unlist change the list.
LEMMA BetweenList ==
    ASSUME ListInv, NEW t \in Tasks, Between(t)
    PROVE  UnlistedWhenClearing' /\ ListedIsFlagged'
<1>1. /\ Late(t) /\ Late(t)' /\ UNCHANGED <<counter, flags>>
      /\ call'[t].key = call[t].key /\ call'[t].raising = call[t].raising
      /\ \A u \in Tasks : u # t => call'[u] = call[u]
  BY BetweenCall DEF ListInv, EntryInv
<1>2. \A k \in Keys : Raising(k)' <=> Raising(k)
  BY <1>1, StaysLate DEF ListInv, EntryInv
<1>3. CASE List(t) /\ active' # active
  <2>1. active' = active \cup {IdOf(t)} /\ call[t].raising
    BY <1>3 DEF List
  <2>2. UnlistedWhenClearing'
    <3>. SUFFICES ASSUME NEW u \in Tasks, ~call'[u].raising, call'[u].key[2] \in Exclusive,
                         call'[u].step \notin {"idle", "counter", "list"}
                  PROVE  call'[u].key[2] \notin active'
      BY DEF UnlistedWhenClearing, IdOf
    <3>1. u # t /\ call'[u] = call[u]
      BY <1>1, <2>1
    <3>2. call[u].key \in ExclusiveKeys
      BY <3>1 DEF ListInv, EntryInv, TypeInv, TypeOK, Calls, Keys, ExclusiveKeys
    <3>3. call[u].key[2] # IdOf(t)
      BY <1>1, <3>1, <3>2, OneCall DEF ListInv, EntryInv, Late, IdOf
    <3>. QED  BY <2>1, <3>1, <3>3 DEF ListInv, UnlistedWhenClearing, IdOf
  <2>3. ListedIsFlagged'
    <3>. SUFFICES ASSUME NEW id \in active' \cap Exclusive
                  PROVE  \E s \in Strings : <<s, id>> \in flags' \/ Raising(<<s, id>>)'
      BY DEF ListedIsFlagged
    <3>1. CASE id = IdOf(t)
      <4>1. PICK s \in Strings : call[t].key = <<s, id>>
        BY <3>1 DEF ListInv, EntryInv, TypeInv, TypeOK, Calls, Keys, IdOf
      <4>2. Raising(<<s, id>>)'
        BY <1>1, <2>1, <4>1 DEF Raising, Late
      <4>. QED  BY <4>2
    <3>2. CASE id # IdOf(t)
      <4>1. \A s \in Strings : <<s, id>> \in Keys
        BY DEF Exclusive, Keys
      <4>. QED  BY <1>1, <1>2, <2>1, <3>2, <4>1 DEF ListInv, ListedIsFlagged
    <3>. QED  BY <3>1, <3>2
  <2>. QED  BY <2>2, <2>3
<1>4. CASE ~(List(t) /\ active' # active)
  <2>1. active' \subseteq active
    BY <1>4 DEF Between, List, Unlist, TestForStart, StartTimer, ReadCount, WriteCount,
       TestForStop, StopTimer, fatalVars
  <2>2. call[t].step = "list" /\ ~call[t].raising => IdOf(t) \notin active'
    BY <1>4 DEF Between, List, Unlist, TestForStart, StartTimer, ReadCount, WriteCount,
       TestForStop, StopTimer, At
  <2>3. UnlistedWhenClearing'
    BY <1>1, <2>1, <2>2 DEF ListInv, UnlistedWhenClearing, Late, IdOf
  <2>. QED  BY <1>1, <1>2, <2>1, <2>3, SameList
<1>. QED  BY <1>3, <1>4

\* The callback, which may be the one that takes the flag back.
LEMMA CallbackList ==
    ASSUME ListInv, NEW t \in Tasks, Callback(t)
    PROVE  UnlistedWhenClearing' /\ ListedIsFlagged'
<1>1. /\ Late(t) /\ ~Late(t)' /\ call'[t].step = "idle" /\ active' = active
      /\ \A u \in Tasks : u # t => call'[u] = call[u]
      /\ flags' = IF call[t].raising THEN flags \cup {call[t].key} ELSE flags \ {call[t].key}
  BY CallbackCall DEF ListInv, EntryInv, Callback, fatalVars
<1>2. UnlistedWhenClearing'
  BY <1>1 DEF ListInv, UnlistedWhenClearing, IdOf
<1>3. ListedIsFlagged'
  <2>. SUFFICES ASSUME NEW id \in active \cap Exclusive
                PROVE  \E s \in Strings : <<s, id>> \in flags' \/ Raising(<<s, id>>)'
    BY <1>1 DEF ListedIsFlagged
  <2>1. PICK s \in Strings : <<s, id>> \in flags \/ Raising(<<s, id>>)
    BY DEF ListInv, ListedIsFlagged
  <2>2. <<s, id>> \in Keys
    BY DEF Exclusive, Keys
  <2>3. CASE call[t].key = <<s, id>>
    <3>1. call[t].raising
      BY <1>1, <2>3 DEF ListInv, UnlistedWhenClearing, Callback, At, IdOf
    <3>. QED  BY <1>1, <2>3, <3>1
  <2>4. CASE call[t].key # <<s, id>>
    <3>1. Raising(<<s, id>>)' <=> Raising(<<s, id>>)
      BY <1>1, <2>2, <2>4, OtherEntries DEF ListInv, EntryInv
    <3>. QED  BY <1>1, <2>1, <2>4, <3>1
  <2>. QED  BY <2>3, <2>4
<1>. QED  BY <1>2, <1>3

\* Taking up a report and writing the counter.
LEMMA EarlyList ==
    ASSUME ListInv, NEW t \in Tasks,
           \/ CountUp(t) \/ CountDown(t)
           \/ \E k \in Reported : ReportNotOk(t, k) \/ ReportOk(t, k)
    PROVE  UnlistedWhenClearing' /\ ListedIsFlagged'
<1>1. /\ active' = active /\ flags' = flags /\ ~Late(t)
      /\ \A u \in Tasks : u # t => call'[u] = call[u]
      /\ Late(t)' => /\ call'[t].step = StepAfterCounter(call[t].key)
                     /\ call'[t].key = call[t].key
  <2>0. call \in [Tasks -> Calls]
    BY DEF ListInv, EntryInv, TypeInv, TypeOK
  <2>1. CASE \E k \in Reported : ReportNotOk(t, k) \/ ReportOk(t, k)
    BY <2>0, <2>1 DEF Reported, ReportNotOk, ReportOk, Enter, At, Late, entryVars, fatalVars
  <2>2. CASE (CountUp(t) \/ CountDown(t)) /\ call' = [call EXCEPT ![t] = Idle]
    BY <2>2, CallEnds DEF ListInv, EntryInv, TypeInv, CountUp, CountDown, At, Late, fatalVars
  <2>3. CASE (CountUp(t) \/ CountDown(t)) /\ Goto(t, StepAfterCounter(call[t].key))
    <3>1. StepAfterCounter(call[t].key) \in Steps
      BY DEF StepAfterCounter, Steps
    <3>. QED  BY <2>3, <3>1, CallStays DEF ListInv, EntryInv, TypeInv, CountUp, CountDown, At,
                Late, fatalVars
  <2>. QED  BY <2>1, <2>2, <2>3 DEF CountUp, CountDown
<1>2. call'[t].step \in {"idle", "counter", "list"} \/ call'[t].key[2] \notin active'
  BY <1>1 DEF Late, StepAfterCounter, ListInv, EntryInv, TypeInv, TypeOK
<1>3. UnlistedWhenClearing'
  BY <1>1, <1>2 DEF ListInv, UnlistedWhenClearing, IdOf
<1>4. \A k \in Keys : Raising(k) => Raising(k)'
  BY <1>1 DEF Raising, Late
<1>. QED  BY <1>1, <1>3, <1>4, SameList

\* Every step keeps ListInv.
LEMMA ListStep ==
    ASSUME ListInv, [Next]_vars
    PROVE  ListInv'
<1>1. EntryInv'
  BY EntryStep DEF ListInv
<1>2. CASE \E t \in Tasks : Handler(t)
  BY <1>1, <1>2, EarlyList, BetweenList, CallbackList DEF Handler, Between, ListInv
<1>3. CASE \E t \in Tasks : \E k \in Reported : ReportNotOk(t, k) \/ ReportOk(t, k)
  BY <1>1, <1>3, EarlyList DEF ListInv, Reported
<1>4. CASE TimerTask \/ UNCHANGED vars
  <2>1. UNCHANGED <<active, flags, call>>
    BY <1>4 DEF TimerTask, TakeCommand, DIAG_ResendFatalErrors, ResendNext, vars, entryVars,
       fatalVars
  <2>. QED  BY <1>1, <2>1 DEF ListInv, UnlistedWhenClearing, ListedIsFlagged, Raising, IdOf
<1>. QED  BY <1>2, <1>3, <1>4 DEF Next

\* A fatal error on the list has its flag set on some string, or the call that
\* sets it is under way.
THEOREM ListedErrorsAreFlagged == Spec => []ListedIsFlagged
<1>1. Init => ListInv
  BY EntryInit DEF Init, Idle, ListInv, UnlistedWhenClearing, ListedIsFlagged
<1>2. ListInv => ListedIsFlagged
  BY DEF ListInv
<1>. QED  BY <1>1, <1>2, ListStep, PTL DEF Spec

-----------------------------------------------------------------------------
\* The entries as others see them.

EntrySeen == [k \in ExclusiveKeys |-> EntryOf(k)]

\* A step of one entry by one event, or none.
OneEvent == Entries!Next \/ EntrySeen' = EntrySeen

LEMMA OneEntry ==
    ASSUME NEW k \in ExclusiveKeys,
           \A j \in ExclusiveKeys : j # k => EntryOf(j)' = EntryOf(j),
           EntryOf(k)' \in {EntryOf(k), Entries!AfterOk(EntryOf(k)),
                            Entries!AfterNotOk(EntryOf(k), Threshold[k[2]])}
    PROVE  OneEvent
<1>1. CASE EntryOf(k)' = EntryOf(k)
  <2>1. \A j \in ExclusiveKeys : EntryOf(j)' = EntryOf(j)
    BY <1>1
  <2>2. EntrySeen' = EntrySeen
    BY <2>1 DEF EntrySeen
  <2>. QED  BY <2>2 DEF OneEvent
<1>2. CASE EntryOf(k)' = Entries!AfterOk(EntryOf(k))
  <2>1. EntrySeen' = [EntrySeen EXCEPT ![k] = Entries!AfterOk(EntryOf(k))]
    BY <1>2 DEF EntrySeen
  <2>. QED  BY <2>1 DEF OneEvent, Entries!Next, EntrySeen
<1>3. CASE EntryOf(k)' = Entries!AfterNotOk(EntryOf(k), Threshold[k[2]])
  <2>1. EntrySeen' = [EntrySeen EXCEPT ![k] = Entries!AfterNotOk(EntryOf(k), Threshold[k[2]])]
    BY <1>3 DEF EntrySeen
  <2>. QED  BY <2>1 DEF OneEvent, Entries!Next, EntrySeen
<1>. QED  BY <1>1, <1>2, <1>3

\* No entry changes.
LEMMA NoEntry ==
    ASSUME counter' = counter, flags' = flags,
           \A k \in ExclusiveKeys : (Raising(k)' <=> Raising(k)) /\ (Clearing(k)' <=> Clearing(k))
    PROVE  OneEvent
<1>1. \A k \in ExclusiveKeys : EntryOf(k)' = EntryOf(k)
  BY DEF EntryOf
<1>2. EntrySeen' = EntrySeen
  BY <1>1 DEF EntrySeen
<1>. QED  BY <1>2 DEF OneEvent

\* The calls on an entry before and after a step of the one at work on it.
LEMMA OwnCall ==
    ASSUME TypeInv, NEW t \in Tasks, NEW k \in ExclusiveKeys, call[t].key = k,
           call[t].step # "idle", Late(t)' => call'[t].key = k,
           \A u \in Tasks : u # t => call'[u] = call[u]
    PROVE  /\ Raising(k) <=> Late(t) /\ call[t].raising
           /\ Clearing(k) <=> Late(t) /\ ~call[t].raising
           /\ Raising(k)' <=> Late(t)' /\ call'[t].raising
           /\ Clearing(k)' <=> Late(t)' /\ ~call'[t].raising
<1>1. \A u \in Tasks : call[u].step # "idle" /\ call[u].key = k => u = t
  BY OneCall
<1>. QED  BY <1>1 DEF Raising, Clearing, Late

LEMMA CounterEvent ==
    ASSUME EntryInv, NEW t \in Tasks, CountUp(t) \/ CountDown(t)
    PROVE  OneEvent
<1>k. PICK k : k = call[t].key
  OBVIOUS
<1>0. ExclusiveKeys \subseteq Keys
  BY DEF ExclusiveKeys, Exclusive, Keys
<1>1. /\ k \in Keys /\ Threshold[k[2]] \in Nat /\ call[t].step = "counter"
      /\ \A j \in Keys : j # k => counter'[j] = counter[j]
      /\ \A u \in Tasks : u # t => call'[u] = call[u]
      /\ flags' = flags
      /\ Late(t)' => call'[t].key = k /\ call'[t].raising = call[t].raising
  BY <1>k, CounterWrite
<1>2. \A j \in ExclusiveKeys : j # k => EntryOf(j)' = EntryOf(j)
  <2>. SUFFICES ASSUME NEW j \in ExclusiveKeys, j # k PROVE EntryOf(j)' = EntryOf(j)
    OBVIOUS
  <2>1. (Raising(j)' <=> Raising(j)) /\ (Clearing(j)' <=> Clearing(j))
    BY <1>0, <1>1, OtherEntries DEF EntryInv, Late
  <2>. QED  BY <1>0, <1>1, <2>1 DEF EntryOf
<1>3. CASE k \notin ExclusiveKeys
  <2>1. EntrySeen' = EntrySeen
    BY <1>2, <1>3 DEF EntrySeen
  <2>. QED  BY <2>1 DEF OneEvent
<1>4. CASE k \in ExclusiveKeys
  <2>1. /\ ~Raising(k) /\ ~Clearing(k)
        /\ Raising(k)' <=> Late(t)' /\ call[t].raising
        /\ Clearing(k)' <=> Late(t)' /\ ~call[t].raising
    BY <1>k, <1>1, <1>4, OwnCall DEF EntryInv, Late
  <2>2. \/ /\ counter'[k] = Threshold[k[2]] + 1 /\ Late(t)' /\ call[t].raising
           /\ counter[k] = Threshold[k[2]]
        \/ /\ counter'[k] = 0 /\ Late(t)' /\ ~call[t].raising /\ counter[k] = 1
        \/ /\ counter'[k] \in 1 .. Threshold[k[2]] /\ ~Late(t)'
           /\ \/ call[t].raising /\ counter'[k] = counter[k] + 1
              \/ ~call[t].raising /\ counter'[k] = counter[k] - 1
    BY <1>k, <1>4, CounterWrite
  <2>3. EntryOf(k) = [count |-> counter[k], error |-> k \in flags] /\ counter[k] \in Nat
    BY <1>1, <2>1 DEF EntryOf, EntryInv, TypeInv, TypeOK
  <2>4. CASE Late(t)'
    <3>1. EntryOf(k)' = EntryOf(k)
      BY <1>1, <2>1, <2>2, <2>3, <2>4 DEF EntryOf
    <3>. QED  BY <1>2, <1>4, <3>1, OneEntry
  <2>5. CASE ~Late(t)' /\ call[t].raising
    <3>1. counter[k] < Threshold[k[2]] /\ counter'[k] = counter[k] + 1
      BY <1>1, <2>2, <2>3, <2>5
    <3>2. EntryOf(k)' = [count |-> counter[k] + 1, error |-> k \in flags]
      BY <1>1, <2>1, <2>5, <3>1 DEF EntryOf
    <3>3. EntryOf(k)' = Entries!AfterNotOk(EntryOf(k), Threshold[k[2]])
      BY <2>3, <3>1, <3>2 DEF Entries!AfterNotOk
    <3>. QED  BY <1>2, <1>4, <3>3, OneEntry
  <2>6. CASE ~Late(t)' /\ ~call[t].raising
    <3>1. counter[k] > 1 /\ counter'[k] = counter[k] - 1
      BY <1>1, <2>2, <2>3, <2>6
    <3>2. EntryOf(k)' = [count |-> counter[k] - 1, error |-> k \in flags]
      BY <1>1, <2>1, <2>6, <3>1 DEF EntryOf
    <3>3. EntryOf(k)' = Entries!AfterOk(EntryOf(k))
      BY <2>3, <3>1, <3>2 DEF Entries!AfterOk
    <3>. QED  BY <1>2, <1>4, <3>3, OneEntry
  <2>. QED  BY <2>4, <2>5, <2>6
<1>. QED  BY <1>3, <1>4

LEMMA CallbackEvent ==
    ASSUME EntryInv, NEW t \in Tasks, Callback(t)
    PROVE  OneEvent
<1>k. PICK k : k = call[t].key
  OBVIOUS
<1>0. ExclusiveKeys \subseteq Keys
  BY DEF ExclusiveKeys, Exclusive, Keys
<1>1. /\ Late(t) /\ ~Late(t)' /\ counter' = counter
      /\ \A u \in Tasks : u # t => call'[u] = call[u]
      /\ flags' = IF call[t].raising THEN flags \cup {k} ELSE flags \ {k}
  BY <1>k, CallbackCall DEF EntryInv
<1>2. k \in Keys /\ call[t].raising \in BOOLEAN
  BY <1>k DEF EntryInv, TypeInv, TypeOK, Calls
<1>3. \A j \in ExclusiveKeys : j # k => EntryOf(j)' = EntryOf(j)
  <2>. SUFFICES ASSUME NEW j \in ExclusiveKeys, j # k PROVE EntryOf(j)' = EntryOf(j)
    OBVIOUS
  <2>1. (Raising(j)' <=> Raising(j)) /\ (Clearing(j)' <=> Clearing(j))
    BY <1>k, <1>0, <1>1, OtherEntries DEF EntryInv, Late
  <2>. QED  BY <1>1, <2>1 DEF EntryOf
<1>4. CASE k \notin ExclusiveKeys
  <2>1. EntrySeen' = EntrySeen
    BY <1>3, <1>4 DEF EntrySeen
  <2>. QED  BY <2>1 DEF OneEvent
<1>5. CASE k \in ExclusiveKeys
  <2>1. /\ Raising(k) <=> call[t].raising
        /\ Clearing(k) <=> ~call[t].raising
        /\ ~Raising(k)' /\ ~Clearing(k)'
    BY <1>k, <1>1, <1>5, OwnCall DEF EntryInv, Late
  <2>2. counter[k] = (IF call[t].raising THEN Threshold[k[2]] + 1 ELSE 0)
        /\ Threshold[k[2]] \in Nat
    BY <1>k, <1>1, <1>5, DiagAssumption
    DEF EntryInv, LateCounter, IdOf, ExclusiveKeys, Exclusive
  <2>3. CASE call[t].raising
    <3>1. EntryOf(k)' = [count |-> Threshold[k[2]] + 1, error |-> TRUE]
      BY <1>1, <2>1, <2>2, <2>3 DEF EntryOf
    <3>2. EntryOf(k).count = Threshold[k[2]]
      BY <2>1, <2>3 DEF EntryOf
    <3>3. EntryOf(k)' = Entries!AfterNotOk(EntryOf(k), Threshold[k[2]])
      BY <2>2, <3>1, <3>2 DEF Entries!AfterNotOk
    <3>. QED  BY <1>3, <1>5, <3>3, OneEntry
  <2>4. CASE ~call[t].raising
    <3>0. k \notin flags' /\ counter'[k] = 0
      BY <1>1, <2>2, <2>4
    <3>1. EntryOf(k)' = [count |-> 0, error |-> FALSE]
      <4>1. EntryOf(k)' = [count |-> 0, error |-> k \in flags']
        BY <2>1, <3>0 DEF EntryOf
      <4>2. (k \in flags') = FALSE
        BY <3>0
      <4>. QED  BY <4>1, <4>2, Zenon
    <3>2. EntryOf(k).count = 1
      BY <2>1, <2>4 DEF EntryOf
    <3>3. EntryOf(k)' = Entries!AfterOk(EntryOf(k))
      BY <3>1, <3>2 DEF Entries!AfterOk, Entries!Cleared
    <3>. QED  BY <1>3, <1>5, <3>3, OneEntry
  <2>. QED  BY <2>3, <2>4
<1>. QED  BY <1>4, <1>5

\* Every step of the diagnosis is one of the entries, or none.
LEMMA EventStep ==
    ASSUME EntryInv, [Next]_vars
    PROVE  OneEvent
<1>0. ExclusiveKeys \subseteq Keys
  BY DEF ExclusiveKeys, Exclusive, Keys
<1>1. CASE \E t \in Tasks : CountUp(t) \/ CountDown(t)
  BY <1>1, CounterEvent
<1>2. CASE \E t \in Tasks : Callback(t)
  BY <1>2, CallbackEvent
<1>3. ASSUME NEW t \in Tasks, Between(t) PROVE OneEvent
  <2>1. \A k \in Keys : (Raising(k)' <=> Raising(k)) /\ (Clearing(k)' <=> Clearing(k))
    BY <1>3, BetweenCall, StaysLate DEF EntryInv
  <2>. QED  BY <1>0, <1>3, <2>1, BetweenCall, NoEntry DEF EntryInv
<1>4. ASSUME NEW t \in Tasks, NEW k \in Keys, ReportNotOk(t, k) \/ ReportOk(t, k)
      PROVE  OneEvent
  <2>1. PICK b \in BOOLEAN : Enter(t, k, b)
    BY <1>4 DEF ReportNotOk, ReportOk
  <2>2. /\ call[t].step = "idle" /\ call'[t].step = "counter"
        /\ \A u \in Tasks : u # t => call'[u] = call[u]
        /\ counter' = counter /\ flags' = flags
    <3>1. call \in [Tasks -> Calls]
      BY DEF EntryInv, TypeInv, TypeOK
    <3>. QED  BY <1>4, <2>1, <3>1 DEF ReportNotOk, ReportOk, Enter, At, entryVars
  <2>3. \A j \in Keys : (Raising(j)' <=> Raising(j)) /\ (Clearing(j)' <=> Clearing(j))
    BY <2>2, OtherEntries DEF EntryInv
  <2>. QED  BY <1>0, <2>2, <2>3, NoEntry
<1>5. CASE TimerTask \/ UNCHANGED vars
  <2>1. UNCHANGED <<counter, flags, call>>
    BY <1>5 DEF TimerTask, TakeCommand, DIAG_ResendFatalErrors, ResendNext, vars, entryVars
  <2>2. \A k \in ExclusiveKeys :
          (Raising(k)' <=> Raising(k)) /\ (Clearing(k)' <=> Clearing(k))
    BY <2>1 DEF Raising, Clearing
  <2>. QED  BY <2>1, <2>2, NoEntry
<1>. QED  BY <1>1, <1>2, <1>3, <1>4, <1>5 DEF Next, Reported, Handler, Between

\* Seen from outside, the entry of an id that one task reports changes by whole
\* events, wherever the tasks interrupt each other.
THEOREM EntriesImplemented == Spec => ImplementsEntries
<1>1. Init => Entries!Init
  <2>. SUFFICES ASSUME Init PROVE Entries!Init
    OBVIOUS
  <2>1. \A k \in ExclusiveKeys : EntryOf(k) = Entries!Cleared
    <3>. SUFFICES ASSUME NEW k \in ExclusiveKeys PROVE EntryOf(k) = Entries!Cleared
      OBVIOUS
    <3>1. (k \in flags) = FALSE /\ counter[k] = 0
      BY DEF Init, ExclusiveKeys, Exclusive, Keys
    <3>2. ~Raising(k) /\ ~Clearing(k)
      BY DEF Init, Idle, Raising, Clearing
    <3>3. EntryOf(k) = [count |-> 0, error |-> k \in flags]
      BY <3>1, <3>2 DEF EntryOf
    <3>. QED  BY <3>1, <3>3, Zenon DEF Entries!Cleared
  <2>. QED  BY <2>1 DEF Entries!Init
<1>2. EntryInv /\ [Next]_vars => [Entries!Next]_EntrySeen
  BY EventStep DEF OneEvent
<1>. QED  BY <1>1, <1>2, EntryInit, EntryStep, PTL
         DEF Spec, ImplementsEntries, Entries!Spec, EntrySeen

-----------------------------------------------------------------------------
\* The number of the active fatal errors and the timer that repeats them.
\* Between listing the error and the last command, the one call at work knows
\* what is left to do: add the error to the number, or take it off, and start
\* or stop the timer.

\* One call at a time is between the list and its last command.
OneCounts == \A t, u \in Tasks : Counting(t) /\ Counting(u) => t = u

\* What the call at work on the count finds and has done.
RaisingHalf(t) ==
    /\ call[t].step \in {"test for start", "start", "read count", "write count"}
    /\ count + 1 = Cardinality(active)
    /\ call[t].step = "test for start" => (LastCommand <=> count # 0)
    /\ call[t].step = "start" => count = 0
    /\ call[t].step \in {"read count", "write count"} => LastCommand
    /\ call[t].step = "write count" => call[t].read = count
ClearingHalf(t) ==
    /\ call[t].step \in {"read count", "write count", "test for stop", "stop"}
    /\ LastCommand
    /\ call[t].step \in {"read count", "write count"} => count = Cardinality(active) + 1
    /\ call[t].step = "write count" => call[t].read = count
    /\ call[t].step \in {"test for stop", "stop"} => count = Cardinality(active)
    /\ call[t].step = "stop" => count = 0
HalfDone ==
    \A t \in Tasks : Counting(t) => IF call[t].raising THEN RaisingHalf(t) ELSE ClearingHalf(t)

Agree == count = Cardinality(active) /\ (LastCommand <=> active # {})
AllDone == (\A t \in Tasks : ~Counting(t)) => Agree
CountInv == OneCounts /\ HalfDone /\ AllDone

LEMMA ModuloSmall == \A m \in Nat \ {0} : \A a \in 0 .. m - 1 : a % m = a /\ (a + m) % m = a
<1>. SUFFICES ASSUME NEW m \in Nat, m > 0, NEW a \in 0 .. m - 1
              PROVE  a % m = a /\ (a + m) % m = a
  OBVIOUS
<1>1. a % m = a
  OBVIOUS
<1>2. (a + m) % m = a
  OBVIOUS
<1>. QED  BY <1>1, <1>2

\* The list of active errors is finite, and shorter than the count can show.
LEMMA ActiveIsFinite ==
    ASSUME NEW a, a \subseteq FatalIds
    PROVE  IsFiniteSet(a) /\ Cardinality(a) \in Nat /\ Cardinality(a) < CountModulus
<1>1. IsFiniteSet(Ids)
  BY FS_Interval, DiagAssumption DEF Ids
<1>2. IsFiniteSet(FatalIds) /\ IsFiniteSet(a)
  BY <1>1, FS_Subset, DiagAssumption
<1>3. Cardinality(a) <= Cardinality(FatalIds)
  BY <1>2, FS_Subset
<1>. QED  BY <1>2, <1>3, FS_CardinalityType, DiagAssumption

\* Steps before and behind the work on the count.
LEMMA CountStays ==
    ASSUME CountInv, NEW t \in Tasks, ~Counting(t), ~Counting(t)',
           \A u \in Tasks : u # t => call'[u] = call[u],
           UNCHANGED <<active, count, commands, running>>
    PROVE  CountInv'
<1>1. \A u \in Tasks : Counting(u)' => Counting(u) /\ call'[u] = call[u]
  BY DEF Counting
<1>2. \A u \in Tasks : Counting(u) <=> Counting(u)'
  BY DEF Counting
<1>3. OneCounts'
  BY <1>1 DEF CountInv, OneCounts
<1>4. HalfDone'
  BY <1>1 DEF CountInv, HalfDone, RaisingHalf, ClearingHalf, LastCommand
<1>5. AllDone'
  BY <1>2 DEF CountInv, AllDone, Agree, LastCommand
<1>. QED  BY <1>3, <1>4, <1>5 DEF CountInv

\* A step of the call at work on the count, which others are not.
LEMMA CountGoesOn ==
    ASSUME NEW t \in Tasks, \A u \in Tasks : u # t => ~Counting(u) /\ call'[u] = call[u],
           Counting(t)' => IF call'[t].raising THEN RaisingHalf(t)' ELSE ClearingHalf(t)',
           ~Counting(t)' => Agree'
    PROVE  CountInv'
<1>1. \A u \in Tasks : u # t => ~Counting(u)'
  BY DEF Counting
<1>2. OneCounts' /\ HalfDone' /\ AllDone'
  BY <1>1 DEF OneCounts, HalfDone, AllDone
<1>. QED  BY <1>2 DEF CountInv

LEMMA EnterCounts ==
    ASSUME TypeInv, CountInv, NEW t \in Tasks, NEW k \in Keys,
           ReportNotOk(t, k) \/ ReportOk(t, k)
    PROVE  CountInv'
<1>1. PICK b \in BOOLEAN : Enter(t, k, b)
  BY DEF ReportNotOk, ReportOk
<1>2. call[t].step = "idle" /\ UNCHANGED <<fatalVars, timerVars>>
  BY DEF ReportNotOk, ReportOk, At
<1>3. call'[t].step = "counter" /\ \A u \in Tasks : u # t => call'[u] = call[u]
  BY <1>1 DEF TypeInv, TypeOK, Enter
<1>. QED  BY <1>2, <1>3, CountStays DEF fatalVars, timerVars, Counting, CountSteps

LEMMA CounterCounts ==
    ASSUME TypeInv, CountInv, NEW t \in Tasks, CountUp(t) \/ CountDown(t)
    PROVE  CountInv'
<1>1. call[t].step = "counter" /\ UNCHANGED <<fatalVars, timerVars>>
  BY DEF CountUp, CountDown, At
<1>2. CASE call' = [call EXCEPT ![t] = Idle]
  BY <1>1, <1>2, CallEnds, CountStays DEF TypeInv, fatalVars, timerVars, Counting, CountSteps
<1>3. CASE Goto(t, StepAfterCounter(call[t].key))
  <2>1. /\ StepAfterCounter(call[t].key) \in Steps
        /\ StepAfterCounter(call[t].key) \in {"list", "callback"}
    BY DEF StepAfterCounter, Steps
  <2>2. /\ call'[t].step \in {"list", "callback"}
        /\ \A u \in Tasks : u # t => call'[u] = call[u]
    BY <1>3, <2>1, CallStays DEF TypeInv
  <2>. QED  BY <1>1, <2>2, CountStays DEF Counting, CountSteps, fatalVars, timerVars
<1>. QED  BY <1>2, <1>3 DEF CountUp, CountDown

\* The list changes when nobody is at work on number and timer.
LEMMA ListCounts ==
    ASSUME TypeInv, CountInv, ~Overlaps, NEW t \in Tasks, List(t) \/ Unlist(t)
    PROVE  CountInv'
<1>1. call[t].step = "list" /\ UNCHANGED <<count, timerVars>>
  BY DEF List, Unlist, At
<1>2. UNCHANGED LastCommand
  BY <1>1 DEF timerVars, LastCommand
<1>3. ASSUME active' # active PROVE Agree /\ \A u \in Tasks : ~Counting(u)
  BY <1>3 DEF Overlaps, CountInv, AllDone
<1>4. /\ IsFiniteSet(active) /\ Cardinality(active) \in Nat
  BY ActiveIsFinite DEF TypeInv, TypeOK
<1>5. CASE UNCHANGED active /\ Goto(t, "callback")
  <2>1. call'[t].step = "callback" /\ \A u \in Tasks : u # t => call'[u] = call[u]
    BY <1>5, CallStays DEF TypeInv, Steps
  <2>. QED  BY <1>1, <1>5, <2>1, CountStays DEF Counting, CountSteps, timerVars
<1>6. CASE /\ call[t].raising /\ IdOf(t) \notin active /\ Goto(t, "test for start")
           /\ active' = active \cup {IdOf(t)}
  <2>1. /\ call'[t].step = "test for start" /\ call'[t].raising = call[t].raising
        /\ \A u \in Tasks : u # t => call'[u] = call[u]
    BY <1>6, CallStays DEF TypeInv, Steps
  <2>0. Agree /\ \A u \in Tasks : ~Counting(u)
    BY <1>3, <1>6
  <2>2. Cardinality(active') = Cardinality(active) + 1
    BY <1>4, <1>6, FS_AddElement
  <2>3. active # {} <=> count # 0
    BY <1>4, <2>0, FS_EmptySet DEF Agree
  <2>4. RaisingHalf(t)'
    BY <1>1, <1>2, <2>0, <2>1, <2>2, <2>3 DEF RaisingHalf, Agree
  <2>. QED  BY <1>6, <2>0, <2>1, <2>4, CountGoesOn DEF Counting, CountSteps
<1>7. CASE /\ ~call[t].raising /\ IdOf(t) \in active /\ Goto(t, "read count")
           /\ active' = active \ {IdOf(t)}
  <2>1. /\ call'[t].step = "read count" /\ call'[t].raising = call[t].raising
        /\ \A u \in Tasks : u # t => call'[u] = call[u]
    BY <1>7, CallStays DEF TypeInv, Steps
  <2>0. Agree /\ \A u \in Tasks : ~Counting(u)
    BY <1>3, <1>7
  <2>2. Cardinality(active') + 1 = Cardinality(active)
    <3>1. Cardinality(active') = Cardinality(active) - 1
      BY <1>4, <1>7, FS_RemoveElement
    <3>. QED  BY <1>4, <3>1
  <2>3. ClearingHalf(t)'
    BY <1>1, <1>2, <1>7, <2>0, <2>1, <2>2 DEF ClearingHalf, Agree
  <2>. QED  BY <1>7, <2>0, <2>1, <2>3, CountGoesOn DEF Counting, CountSteps
<1>. QED  BY <1>5, <1>6, <1>7 DEF List, Unlist

\* A command that is sent is the last one of the queue.
LEMMA SentIsLast ==
    ASSUME TypeOK, NEW c \in {"start", "stop"}, Send(c), Len(commands) < TimerQueueLength
    PROVE  LastCommand' <=> c = "start"
<1>1. commands' = Append(commands, c) /\ commands \in Seq({"start", "stop"})
  BY DEF TypeOK, Send
<1>2. commands' # << >> /\ commands'[Len(commands')] = c
  BY <1>1
<1>. QED  BY <1>2 DEF LastCommand

LEMMA StepCounts ==
    ASSUME TypeInv, CountInv, ~Drops, NEW t \in Tasks,
           \/ TestForStart(t) \/ StartTimer(t) \/ ReadCount(t) \/ WriteCount(t)
           \/ TestForStop(t) \/ StopTimer(t)
    PROVE  CountInv'
<1>. USE DEF At, fatalVars, timerVars
<1>1. Counting(t)
  BY DEF TestForStart, StartTimer, ReadCount, WriteCount, TestForStop, StopTimer, Counting,
     CountSteps
<1>2. /\ \A u \in Tasks : u # t => ~Counting(u)
      /\ IF call[t].raising THEN RaisingHalf(t) ELSE ClearingHalf(t)
  BY <1>1 DEF CountInv, OneCounts, HalfDone
<1>3. /\ Cardinality(active) \in Nat /\ Cardinality(active) < CountModulus
      /\ CountModulus \in Nat \ {0} /\ count \in 0 .. CountModulus - 1
      /\ (active = {} <=> Cardinality(active) = 0)
  BY ActiveIsFinite, FS_EmptySet, DiagAssumption DEF TypeInv, TypeOK
<1>4. /\ call[t] \in Calls /\ call \in [Tasks -> Calls]
  BY DEF TypeInv, TypeOK
<1>g. ASSUME NEW s \in Steps, Goto(t, s)
      PROVE  /\ call'[t].step = s /\ call'[t].raising = call[t].raising
             /\ call'[t].read = call[t].read
             /\ \A u \in Tasks : u # t => call'[u] = call[u]
  BY <1>g, CallStays DEF TypeInv
<1>f. StartTimer(t) \/ StopTimer(t) => Len(commands) < TimerQueueLength
  BY DiagAssumption DEF Drops, TypeInv, TypeOK
<1>5. CASE TestForStart(t)
  <2>1. call[t].raising /\ call[t].step = "test for start" /\ RaisingHalf(t)
    BY <1>2, <1>5 DEF TestForStart, ClearingHalf
  <2>2. PICK s \in {"start", "read count"} :
           Goto(t, s) /\ (s = "start" <=> count = 0)
    BY <1>5 DEF TestForStart
  <2>3. /\ call'[t].step = s /\ call'[t].raising = call[t].raising
        /\ \A u \in Tasks : u # t => call'[u] = call[u]
    BY <1>g, <2>2 DEF Steps
  <2>4. UNCHANGED <<active, count, commands, running>> /\ UNCHANGED LastCommand
    BY <1>5 DEF TestForStart, LastCommand
  <2>5. RaisingHalf(t)'
    BY <2>1, <2>2, <2>3, <2>4 DEF RaisingHalf
  <2>. QED  BY <1>2, <2>1, <2>2, <2>3, <2>5, CountGoesOn DEF Counting, CountSteps
<1>6. CASE StartTimer(t)
  <2>1. call[t].raising /\ call[t].step = "start" /\ RaisingHalf(t)
    BY <1>2, <1>6 DEF StartTimer, ClearingHalf
  <2>2. Goto(t, "read count") /\ Send("start") /\ UNCHANGED <<active, count, running>>
    BY <1>6 DEF StartTimer
  <2>3. /\ call'[t].step = "read count" /\ call'[t].raising = call[t].raising
        /\ \A u \in Tasks : u # t => call'[u] = call[u]
    BY <1>g, <2>2 DEF Steps
  <2>4. LastCommand'
    BY <1>f, <1>6, <2>2, SentIsLast DEF TypeInv
  <2>5. RaisingHalf(t)'
    BY <2>1, <2>2, <2>3, <2>4 DEF RaisingHalf
  <2>. QED  BY <1>2, <2>1, <2>3, <2>5, CountGoesOn DEF Counting, CountSteps
<1>7. CASE ReadCount(t)
  <2>1. call[t].step = "read count" /\ UNCHANGED <<active, count, commands, running>>
        /\ UNCHANGED LastCommand
    BY <1>7 DEF ReadCount, LastCommand
  <2>2. /\ call'[t].step = "write count" /\ call'[t].raising = call[t].raising
        /\ call'[t].read = count
        /\ \A u \in Tasks : u # t => call'[u] = call[u]
    BY <1>4, <1>7 DEF ReadCount, Calls
  <2>3. IF call'[t].raising THEN RaisingHalf(t)' ELSE ClearingHalf(t)'
    BY <1>2, <2>1, <2>2 DEF RaisingHalf, ClearingHalf
  <2>. QED  BY <1>2, <2>2, <2>3, CountGoesOn DEF Counting, CountSteps
<1>8. CASE WriteCount(t)
  <2>1. call[t].step = "write count" /\ UNCHANGED <<active, commands, running>>
        /\ UNCHANGED LastCommand
    BY <1>8 DEF WriteCount, LastCommand
  <2>2. CASE call[t].raising
    <3>1. count' = (count + 1) % CountModulus /\ Goto(t, "callback")
      BY <1>2, <1>8, <2>1, <2>2 DEF WriteCount, RaisingHalf
    <3>2. count' = Cardinality(active) /\ LastCommand
      <4>1. count + 1 = Cardinality(active) /\ LastCommand
        BY <1>2, <2>1, <2>2 DEF RaisingHalf
      <4>2. Cardinality(active) \in 0 .. CountModulus - 1
        BY <1>3
      <4>. QED  BY <1>3, <3>1, <4>1, <4>2, ModuloSmall
    <3>3. /\ call'[t].step = "callback" /\ call'[t].raising = call[t].raising
          /\ \A u \in Tasks : u # t => call'[u] = call[u]
      BY <1>g, <3>1 DEF Steps
    <3>4. active # {}
      <4>1. count + 1 = Cardinality(active)
        BY <1>2, <2>2 DEF RaisingHalf
      <4>2. Cardinality(active) # 0
        BY <1>3, <4>1
      <4>. QED  BY <1>3, <4>2
    <3>5. Agree'
      BY <2>1, <3>2, <3>4 DEF Agree
    <3>. QED  BY <1>2, <3>3, <3>5, CountGoesOn DEF Counting, CountSteps
  <2>3. CASE ~call[t].raising
    <3>1. count' = (count + (CountModulus - 1)) % CountModulus /\ Goto(t, "test for stop")
      BY <1>2, <1>8, <2>1, <2>3 DEF WriteCount, ClearingHalf
    <3>2. count' = Cardinality(active) /\ LastCommand
      <4>1. count = Cardinality(active) + 1 /\ LastCommand
        BY <1>2, <2>1, <2>3 DEF ClearingHalf
      <4>2. count + (CountModulus - 1) = Cardinality(active) + CountModulus
        BY <1>3, <4>1
      <4>3. Cardinality(active) \in 0 .. CountModulus - 1
        BY <1>3
      <4>. QED  BY <1>3, <3>1, <4>1, <4>2, <4>3, ModuloSmall
    <3>3. /\ call'[t].step = "test for stop" /\ call'[t].raising = call[t].raising
          /\ \A u \in Tasks : u # t => call'[u] = call[u]
      BY <1>g, <3>1 DEF Steps
    <3>4. ClearingHalf(t)'
      BY <2>1, <3>2, <3>3 DEF ClearingHalf
    <3>. QED  BY <1>2, <2>3, <3>3, <3>4, CountGoesOn DEF Counting, CountSteps
  <2>. QED  BY <2>2, <2>3
<1>9. CASE TestForStop(t)
  <2>1. ~call[t].raising /\ call[t].step = "test for stop" /\ ClearingHalf(t)
    BY <1>2, <1>9 DEF TestForStop, RaisingHalf
  <2>2. PICK s \in {"stop", "callback"} : Goto(t, s) /\ (s = "stop" <=> count = 0)
    BY <1>9 DEF TestForStop
  <2>3. /\ call'[t].step = s /\ call'[t].raising = call[t].raising
        /\ \A u \in Tasks : u # t => call'[u] = call[u]
    BY <1>g, <2>2 DEF Steps
  <2>4. UNCHANGED <<active, count, commands, running>> /\ UNCHANGED LastCommand
    BY <1>9 DEF TestForStop, LastCommand
  <2>5. s = "stop" => ClearingHalf(t)'
    BY <2>1, <2>2, <2>3, <2>4 DEF ClearingHalf
  <2>6. s = "callback" => Agree'
    BY <1>3, <2>1, <2>2, <2>4 DEF ClearingHalf, Agree
  <2>. QED  BY <1>2, <2>1, <2>2, <2>3, <2>5, <2>6, CountGoesOn DEF Counting, CountSteps
<1>10. CASE StopTimer(t)
  <2>1. ~call[t].raising /\ call[t].step = "stop" /\ ClearingHalf(t)
    BY <1>2, <1>10 DEF StopTimer, RaisingHalf
  <2>2. Goto(t, "callback") /\ Send("stop") /\ UNCHANGED <<active, count, running>>
    BY <1>10 DEF StopTimer
  <2>3. /\ call'[t].step = "callback" /\ call'[t].raising = call[t].raising
        /\ \A u \in Tasks : u # t => call'[u] = call[u]
    BY <1>g, <2>2 DEF Steps
  <2>4. ~LastCommand'
    BY <1>f, <1>10, <2>2, SentIsLast DEF TypeInv
  <2>5. Agree'
    BY <1>3, <2>1, <2>2, <2>4 DEF ClearingHalf, Agree
  <2>. QED  BY <1>2, <2>1, <2>3, <2>5, CountGoesOn DEF Counting, CountSteps
<1>. QED  BY <1>5, <1>6, <1>7, <1>8, <1>9, <1>10

LEMMA CallbackCounts ==
    ASSUME TypeInv, CountInv, NEW t \in Tasks, Callback(t)
    PROVE  CountInv'
<1>1. /\ call[t].step = "callback" /\ call' = [call EXCEPT ![t] = Idle]
      /\ UNCHANGED <<active, count, commands, running>>
  BY DEF Callback, At, fatalVars, timerVars
<1>2. /\ call'[t].step = "idle"
      /\ \A u \in Tasks : u # t => call'[u] = call[u]
  BY <1>1, CallEnds DEF TypeInv
<1>. QED  BY <1>1, <1>2, CountStays DEF Counting, CountSteps

\* The timer task runs when no call is at work.
LEMMA TimerCounts ==
    ASSUME TypeInv, CountInv, TimerTask
    PROVE  CountInv'
<1>1. /\ \A t \in Tasks : call'[t].step = "idle" /\ call[t].step = "idle"
      /\ UNCHANGED <<active, count>>
  BY DEF TimerTask, TakeCommand, DIAG_ResendFatalErrors, ResendNext, Quiet, Idle, fatalVars
<1>2. Agree
  BY <1>1 DEF CountInv, AllDone, Counting, CountSteps
<1>3. LastCommand' <=> LastCommand
  <2>1. CASE TakeCommand
    <3>1. /\ commands \in Seq({"start", "stop"}) /\ commands # << >>
          /\ commands' = Tail(commands) /\ running' = (Head(commands) = "start")
      BY <2>1 DEF TypeInv, TypeOK, TakeCommand
    <3>2. CASE Tail(commands) = << >>
      <4>1. Len(commands) \in Nat /\ Len(Tail(commands)) = Len(commands) - 1
        BY <3>1
      <4>2. Len(commands) = 1
        <5>1. Tail(commands) \in Seq({"start", "stop"})
          BY <3>1
        <5>2. Len(Tail(commands)) = 0
          BY <3>2, <5>1, EmptySeq
        <5>. QED  BY <4>1, <5>2
      <4>3. commands[Len(commands)] = Head(commands)
        BY <3>1, <4>2
      <4>. QED  BY <3>1, <3>2, <4>3 DEF LastCommand
    <3>3. CASE Tail(commands) # << >>
      <4>1. Tail(commands)[Len(Tail(commands))] = commands[Len(commands)]
        BY <3>1, <3>3
      <4>. QED  BY <3>1, <3>3, <4>1 DEF LastCommand
    <3>. QED  BY <3>2, <3>3
  <2>2. CASE DIAG_ResendFatalErrors \/ ResendNext
    BY <2>2 DEF DIAG_ResendFatalErrors, ResendNext, LastCommand
  <2>. QED  BY <2>1, <2>2 DEF TimerTask
<1>4. OneCounts' /\ HalfDone'
  BY <1>1 DEF OneCounts, HalfDone, Counting, CountSteps
<1>5. AllDone'
  BY <1>1, <1>2, <1>3 DEF AllDone, Agree
<1>. QED  BY <1>4, <1>5 DEF CountInv

\* Every step keeps CountInv, but for the two that set list, number and timer apart.
LEMMA CountStep ==
    ASSUME TypeInv, CountInv, [Next]_vars, ~Overlaps, ~Drops
    PROVE  CountInv'
<1>1. CASE \E t \in Tasks : Handler(t)
  BY <1>1, CounterCounts, ListCounts, StepCounts, CallbackCounts DEF Handler
<1>2. CASE \E t \in Tasks : \E k \in Reported : ReportNotOk(t, k) \/ ReportOk(t, k)
  BY <1>2, EnterCounts DEF Reported
<1>3. CASE TimerTask
  BY <1>3, TimerCounts
<1>4. CASE UNCHANGED vars
  BY <1>4 DEF vars, fatalVars, timerVars, CountInv, OneCounts, Counting, HalfDone,
     RaisingHalf, ClearingHalf, AllDone, Agree, LastCommand
<1>. QED  BY <1>1, <1>2, <1>3, <1>4 DEF Next

\* Until they have been set apart, the numbers are in step.
HistoryInv == TypeInv /\ disturbed \in BOOLEAN /\ (~disturbed => CountInv)

\* The number of active errors, their list and the timer that repeats them
\* (DIAG_Handler and its callbacks, diag.c) agree whenever no call is at work on
\* them, whichever tasks report the fatal errors, until a call overlaps with
\* another one that changes the list or a command finds the queue full.
THEOREM CountAndTimerFollow == SpecHistory => []CountAndTimerAgree
<1>1. InitHistory => HistoryInv
  <2>. SUFFICES ASSUME InitHistory PROVE CountInv
    BY TypeInit DEF InitHistory, HistoryInv
  <2>1. Cardinality({}) = 0
    BY FS_EmptySet
  <2>2. Agree
    BY <2>1 DEF InitHistory, Init, Agree, LastCommand
  <2>3. \A t \in Tasks : ~Counting(t)
    BY DEF InitHistory, Init, Idle, Counting, CountSteps
  <2>. QED  BY <2>2, <2>3 DEF CountInv, OneCounts, HalfDone, AllDone
<1>2. HistoryInv /\ [NextHistory]_<<vars, disturbed>> => HistoryInv'
  <2>. SUFFICES ASSUME HistoryInv, [NextHistory]_<<vars, disturbed>> PROVE HistoryInv'
    OBVIOUS
  <2>1. TypeInv'
    BY TypeStep DEF HistoryInv, NextHistory
  <2>2. CASE NextHistory
    <3>1. disturbed' \in BOOLEAN /\ (~disturbed' => ~disturbed /\ ~Overlaps /\ ~Drops)
      BY <2>2, Zenon DEF HistoryInv, NextHistory
    <3>2. ~disturbed' => CountInv'
      BY <2>2, <3>1, CountStep DEF HistoryInv, NextHistory
    <3>. QED  BY <2>1, <3>1, <3>2 DEF HistoryInv
  <2>3. CASE UNCHANGED <<vars, disturbed>>
    <3>1. UNCHANGED vars /\ disturbed' = disturbed
      BY <2>3
    <3>2. CountInv => CountInv'
      BY <3>1 DEF vars, fatalVars, timerVars, CountInv, OneCounts, Counting, HalfDone,
         RaisingHalf, ClearingHalf, AllDone, Agree, LastCommand
    <3>. QED  BY <2>1, <3>1, <3>2 DEF HistoryInv
  <2>. QED  BY <2>2, <2>3
<1>3. HistoryInv => CountAndTimerAgree
  <2>. SUFFICES ASSUME TypeInv, CountInv, Quiet
                PROVE  count = Cardinality(active) /\ LastCommand = (active # {})
    BY DEF CountAndTimerAgree, HistoryInv
  <2>1. Agree
    <3>1. \A t \in Tasks : call[t].step = "idle"
      BY DEF Quiet, Idle
    <3>. QED  BY <3>1 DEF CountInv, AllDone, Counting, CountSteps
  <2>2. LastCommand \in BOOLEAN
    BY DEF LastCommand, TypeInv, TypeOK
  <2>3. LastCommand = (active # {})
    BY <2>1, <2>2, Zenon DEF Agree
  <2>. QED  BY <2>1, <2>3 DEF Agree
<1>. QED  BY <1>1, <1>2, <1>3, PTL DEF SpecHistory

=============================================================================
