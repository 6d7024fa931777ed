------------------------- MODULE CtrlTopoSyncProofs -------------------------
(***************************************************************************)
(* TypeOK and TimerNeedsMismatch of CtrlTopoSync for any devices and       *)
(* radios, any limits and any number of M1 messages.  TimerNeedsMismatch   *)
(* is inductive once the types are known.                                  *)
(***************************************************************************)
EXTENDS CtrlTopoSync, TLAPS

Inv == TypeOK /\ TimerNeedsMismatch

\* update_stats stays within the times the model tells apart.
LEMMA StatsTime ==
    ASSUME TypeOK, NEW r \in Radios
    PROVE  update_stats(r) \in 0..AgeCap
BY TimesAssumption DEF TypeOK, update_stats

\* The initial states.
LEMMA InitInv == Init => Inv
BY TimesAssumption DEF Init, Inv, TypeOK, TimerNeedsMismatch, State

\* Every step keeps the types.
LEMMA TypeStep == TypeOK /\ [Next]_vars => TypeOK'
<1> SUFFICES ASSUME TypeOK, [Next]_vars PROVE TypeOK'
    OBVIOUS
<1> USE TimesAssumption, DeviceAssumption
<1>1. ASSUME NEW r \in Radios, M1Arrives(r) PROVE TypeOK'
  BY <1>1 DEF TypeOK, State, M1Arrives, cmds, timers
<1>2. ASSUME NEW r \in Radios, handle_autoconfig_wsc_m1(r) PROVE TypeOK'
  BY <1>2 DEF TypeOK, State, handle_autoconfig_wsc_m1, Active, timers
<1>3. ASSUME NEW r \in Radios, M1Refused(r) \/ M1Ignored(r) PROVE TypeOK'
  BY <1>3 DEF TypeOK, State, M1Refused, M1Ignored, cmds, timers
<1>4. ASSUME NEW r \in Radios, handle_m2_tx(r) PROVE TypeOK'
  BY SMTT(30), <1>4 DEF TypeOK, State, handle_m2_tx, timers
<1>5. ASSUME NEW r \in Radios, Visit(r) PROVE TypeOK'
  <2>1. update_stats(r) \in 0..AgeCap
    BY StatsTime
  <2>2. DeviceOf[r] \in Devices
    OBVIOUS
  <2> HIDE DEF update_stats
  <2>3. CASE Promote(r)
    BY SMTT(30), <2>3 DEF TypeOK, State, Promote, Visited, msgs, timers
  <2>4. CASE Execute(r)
    BY <2>4 DEF TypeOK, State, Execute, Visited, msgs, timers
  <2>5. CASE Finish(r)
    BY <2>5 DEF TypeOK, State, Finish, Visited, msgs, timers
  <2>6. CASE Release(r)
    BY SMTT(30), <2>6 DEF TypeOK, State, Release, Visited, msgs, timers
  <2>7. CASE Wait(r)
    BY <2>1, <2>7 DEF TypeOK, State, Wait, Visited, msgs, cmds, timers, StateOf
  <2>8. ASSUME Visited(r), GiveUp(DeviceOf[r]) PROVE TypeOK'
    BY <2>2, <2>8 DEF TypeOK, State, GiveUp, Visited, cancel_command, Misconfigured,
        ResetTimers, msgs
  <2>9. CASE SyncTimeout(r) \/ MismatchTimeout(r)
    BY <2>8, <2>9 DEF SyncTimeout, MismatchTimeout
  <2>10. CASE MismatchWait(r)
    <3>1. CheckTime(r) \in 0..AgeCap
      BY <2>1, <2>2 DEF CheckTime, TypeOK
    <3>2. st' \in [Radios -> State]
      BY ZenonT(30), <2>10 DEF MismatchWait, TypeOK, State, StateOf
    <3>3. sent' \in [Devices -> 0..AgeCap] /\ asked' \subseteq Devices
      BY <2>1, <2>2, <2>10 DEF MismatchWait, TypeOK
    <3>4. check' \in [Devices -> 0..AgeCap] /\ since' \in [Devices -> 0..AgeCap]
      BY <2>2, <2>10, <3>1 DEF MismatchWait, TypeOK
    <3> QED
      BY <2>1, <2>10, <3>2, <3>3, <3>4 DEF MismatchWait, TypeOK, Visited, msgs, cmds
  <2>11. CASE CommandTimeout(r)
    BY SMTT(30), <2>1, <2>2, <2>11 DEF TypeOK, State, CommandTimeout, Visited, cancel_command,
        Misconfigured, ResetTimers, msgs
  <2> QED
    BY <1>5, <2>3, <2>4, <2>5, <2>6, <2>7, <2>9, <2>10, <2>11 DEF Visit
<1>6. ASSUME NEW r \in Radios, process_ctrl_state(r) PROVE TypeOK'
  BY <1>6 DEF TypeOK, State, process_ctrl_state, ResetTimers, msgs, cmds
<1>7. ASSUME NEW r \in Radios, TopoMismatch(r) \/ Configured(r) PROVE TypeOK'
  <2>1. CASE TopoMismatch(r)
    BY <2>1 DEF TypeOK, TopoMismatch, msgs, cmds, timers
  <2>2. CASE Configured(r)
    BY <2>2 DEF TypeOK, State, Configured, msgs, cmds, timers
  <2> QED
    BY <1>7, <2>1, <2>2
<1>8. ASSUME NEW d \in Devices, TopoResponse(d) \/ TopoLost(d) PROVE TypeOK'
  <2>1. CASE TopoResponse(d)
    BY <2>1 DEF TypeOK, State, TopoResponse, ResetTimers, msgs, cmds
  <2>2. CASE TopoLost(d)
    BY <2>2 DEF TypeOK, TopoLost, msgs, cmds, timers
  <2> QED
    BY <1>8, <2>1, <2>2
<1>9. CASE Second
  <2>1. age' \in [Radios -> 0..AgeCap]
    BY SMTT(30), <1>9 DEF TypeOK, Second
  <2>2. since' \in [Devices -> 0..AgeCap]
    BY <1>9 DEF TypeOK, Second
  <2> QED
    BY <1>9, <2>1, <2>2 DEF TypeOK, Second, msgs
<1>10. CASE UNCHANGED vars
  BY <1>10 DEF TypeOK, vars, msgs, cmds, timers
<1> QED
  BY <1>1, <1>2, <1>3, <1>4, <1>5, <1>6, <1>7, <1>8, <1>9, <1>10 DEF Next

\* Every step keeps the timers tied to a mismatch: they are started only for
\* a mismatched device, and whatever ends the mismatch resets them.
LEMMA TimerStep == TypeOK /\ TimerNeedsMismatch /\ [Next]_vars => TimerNeedsMismatch'
<1> SUFFICES ASSUME TypeOK, TimerNeedsMismatch, [Next]_vars PROVE TimerNeedsMismatch'
    OBVIOUS
<1> USE DeviceAssumption
<1>1. ASSUME UNCHANGED <<check, mismatch>> PROVE TimerNeedsMismatch'
  BY <1>1 DEF TimerNeedsMismatch, Mismatched, RadiosOf
<1>2. ASSUME NEW d \in Devices,
             check' = [check EXCEPT ![d] = 0],
             \A q \in mismatch : DeviceOf[q] # d => q \in mismatch'
      PROVE  TimerNeedsMismatch'
  BY <1>2 DEF TimerNeedsMismatch, Mismatched, RadiosOf, TypeOK
<1>3. ASSUME NEW r \in Radios, Visit(r) PROVE TimerNeedsMismatch'
  <2>1. DeviceOf[r] \in Devices
    OBVIOUS
  <2>2. CASE Promote(r) \/ Execute(r) \/ Finish(r) \/ Release(r) \/ Wait(r)
    BY <1>1, <2>2 DEF Promote, Execute, Finish, Release, Wait, timers
  <2>3. ASSUME GiveUp(DeviceOf[r]) PROVE TimerNeedsMismatch'
    BY <1>2, <2>1, <2>3 DEF GiveUp, ResetTimers, RadiosOf, TypeOK
  <2>4. CASE MismatchWait(r)
    <3>1. /\ Mismatched(DeviceOf[r])
          /\ check' = [check EXCEPT ![DeviceOf[r]] = CheckTime(r)]
          /\ mismatch' = mismatch
      BY <2>4 DEF MismatchWait
    <3> QED
      BY <2>1, <3>1 DEF TimerNeedsMismatch, Mismatched, RadiosOf, TypeOK
  <2>5. CASE CommandTimeout(r)
    BY <1>2, <2>1, <2>5 DEF CommandTimeout, ResetTimers
  <2> QED
    BY <1>3, <2>2, <2>3, <2>4, <2>5 DEF Visit, SyncTimeout, MismatchTimeout
<1>4. ASSUME NEW r \in Radios, process_ctrl_state(r) PROVE TimerNeedsMismatch'
  BY <1>2, <1>4 DEF process_ctrl_state, ResetTimers
<1>5. ASSUME NEW r \in Radios, TopoMismatch(r) PROVE TimerNeedsMismatch'
  BY <1>5 DEF TopoMismatch, timers, TimerNeedsMismatch, Mismatched, RadiosOf
<1>6. ASSUME NEW d \in Devices, TopoResponse(d) PROVE TimerNeedsMismatch'
  BY <1>2, <1>6 DEF TopoResponse, ResetTimers, RadiosOf, TypeOK
<1>7. ASSUME NEW r \in Radios,
             M1Arrives(r) \/ handle_autoconfig_wsc_m1(r) \/ M1Refused(r) \/ M1Ignored(r)
                \/ handle_m2_tx(r) \/ Configured(r)
      PROVE  TimerNeedsMismatch'
  BY <1>1, <1>7 DEF M1Arrives, handle_autoconfig_wsc_m1, M1Refused, M1Ignored, handle_m2_tx,
      Configured, timers
<1>8. CASE (\E d \in Devices : TopoLost(d)) \/ Second \/ UNCHANGED vars
  BY <1>1, <1>8 DEF TopoLost, Second, vars, timers
<1> QED
  BY <1>3, <1>4, <1>5, <1>6, <1>7, <1>8 DEF Next

\* The state of CtrlTopoSync has its types, the times included: they never
\* leave the bound, in spite of the resets of the shared time.
THEOREM SyncTypeCorrect == Spec => []TypeOK
<1>1. Init => TypeOK
  BY InitInv DEF Inv
<1> QED
  BY <1>1, TypeStep, PTL DEF Spec

\* The timer of an SSID mismatch never outlives the mismatch.
THEOREM TimersNeedMismatch == Spec => []TimerNeedsMismatch
<1>1. Inv /\ [Next]_vars => Inv'
  BY TypeStep, TimerStep DEF Inv
<1>2. Inv => TimerNeedsMismatch
  BY DEF Inv
<1> QED
  BY InitInv, <1>1, <1>2, PTL DEF Spec
=============================================================================
