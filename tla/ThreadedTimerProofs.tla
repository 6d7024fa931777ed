------------------------- MODULE ThreadedTimerProofs -------------------------
(***************************************************************************)
(* The safety of the timer for any number of starts and callbacks.  Its    *)
(* flag alone does not say whether the thread is quiet: it may also be     *)
(* clear because the owner is in stop() and the thread has not seen it     *)
(* yet.  The invariant ties flag, owner and thread together.               *)
(***************************************************************************)
EXTENDS ThreadedTimer, TLAPS

\* An owner in stop() has cleared the flag, and nothing sets it before the
\* join: what the thread reads from then on ends it.
Stopping == owner \in Stoppers => ~running

TInv == TypeOK /\ Stopping /\ QuietAfterStop

LEMMA TimerInit == Init => TInv
<1> SUFFICES ASSUME Init PROVE TInv
  OBVIOUS
<1>1. starts \in 0 .. MaxStarts /\ calls \in 0 .. MaxCalls
  BY TimerAssumption DEF TimerAssumption, Init
<1>2. TypeOK
  BY <1>1, Zenon DEF Init, TypeOK, Kinds
<1>3. Stopping /\ QuietAfterStop
  BY Zenon DEF Init, Stopping, QuietAfterStop
<1> QED BY <1>2, <1>3 DEF TInv

LEMMA OwnerKeeps ==
  ASSUME TInv, (\E op \in Stoppers : StopFlag(op)) \/ StopJoin
  PROVE  TInv'
<1> USE TimerAssumption DEF TimerAssumption
<1>1. CASE \E op \in Stoppers : StopFlag(op)
  <2> PICK op \in Stoppers : StopFlag(op)
    BY <1>1
  <2>1. starts' \in 0 .. MaxStarts
    BY DEF StopFlag, TInv, TypeOK
  <2>2. TypeOK'
    BY <2>1, Zenon DEF StopFlag, TInv, TypeOK
  <2>3. op \notin {"idle", "gone"}
    BY DEF Stoppers, Kinds
  <2>4. Stopping' /\ QuietAfterStop'
    BY <2>3, Zenon DEF StopFlag, Stopping, QuietAfterStop
  <2> QED BY <2>2, <2>4 DEF TInv
<1>2. CASE StopJoin
  <2>1. CASE owner \in Kinds
    BY <1>2, <2>1 DEF TInv, TypeOK, Stopping, QuietAfterStop, StopJoin, Joined, Kinds, Stoppers
  <2>2. CASE owner \notin Kinds
    BY <1>2, <2>2 DEF TInv, TypeOK, Stopping, QuietAfterStop, StopJoin, Joined, Kinds, Stoppers
  <2> QED BY <2>1, <2>2
<1> QED BY <1>1, <1>2

LEMMA ThreadKeeps ==
  ASSUME TInv, ThreadStep
  PROVE  TInv'
<1> USE TimerAssumption DEF TimerAssumption
<1>1. CASE ThreadTest
  BY <1>1 DEF TInv, TypeOK, Stopping, QuietAfterStop, ThreadTest, Kinds, Stoppers
<1>2. CASE ThreadWake
  BY <1>2 DEF TInv, TypeOK, Stopping, QuietAfterStop, ThreadWake, AfterSleep, Kinds, Stoppers
<1>3. CASE ThreadEnds
  <2>1. CASE kind = "held"
    BY <1>3, <2>1 DEF TInv, TypeOK, Stopping, QuietAfterStop, ThreadEnds, Kinds, Stoppers
  <2>2. CASE kind # "held"
    BY <1>3, <2>2 DEF TInv, TypeOK, Stopping, QuietAfterStop, ThreadEnds, Kinds, Stoppers
  <2> QED BY <2>1, <2>2
<1>4. CASE \E result \in Results \cup {TRUE} : CallbackReturns(result)
  <2>1. PICK result \in BOOLEAN : CallbackReturns(result)
    BY <1>4, TimerAssumption DEF TimerAssumption
  <2>2. CASE result = TRUE
    BY <2>1, <2>2 DEF TInv, TypeOK, Stopping, QuietAfterStop, CallbackReturns, Kinds, Stoppers
  <2>3. CASE result = FALSE
    BY <2>1, <2>3 DEF TInv, TypeOK, Stopping, QuietAfterStop, CallbackReturns, Kinds, Stoppers
  <2> QED BY <2>1, <2>2, <2>3
<1> QED BY <1>1, <1>2, <1>3, <1>4 DEF ThreadStep

LEMMA TimerStep == TInv /\ [Next]_vars => TInv'
<1> SUFFICES ASSUME TInv, [Next]_vars PROVE TInv'
  OBVIOUS
<1>1. CASE Next
  BY <1>1, OwnerKeeps, ThreadKeeps DEF Next
<1>2. CASE UNCHANGED vars
  BY <1>2 DEF TInv, TypeOK, Stopping, QuietAfterStop, vars
<1> QED BY <1>1, <1>2

\* Once stop() or the destructor (utils/timer.cpp) has returned, the callback
\* neither runs nor is about to, however often the timer was started before.
THEOREM StopIsQuiet == Spec => []QuietAfterStop
<1>1. Spec => []TInv
  BY TimerInit, TimerStep, PTL DEF Spec
<1> QED BY <1>1, PTL DEF TInv

\* The flag is raised by start_periodic and execute_after only, when the thread
\* of the start before has ended: two loops never share the flag.
THEOREM ThreadIsAlone == Spec => OneThread
<1>1. TInv /\ [Next]_vars => [~running /\ running' => thread = "ended"]_vars
  <2> SUFFICES ASSUME TInv, Next, ~running, running' PROVE thread = "ended"
    BY DEF vars
  <2>1. CASE \E op \in Stoppers : StopFlag(op)
    BY <2>1 DEF StopFlag
  <2>2. CASE StopJoin
    BY <2>2 DEF StopJoin, Joined
  <2>3. CASE ThreadStep
    BY <2>3 DEF ThreadStep, ThreadTest, ThreadWake, ThreadEnds, CallbackReturns
  <2> QED BY <2>1, <2>2, <2>3 DEF Next
<1>2. Spec => []TInv
  BY TimerInit, TimerStep, PTL DEF Spec
<1> QED BY <1>1, <1>2, PTL DEF Spec, OneThread
=============================================================================
