---------------------------- MODULE CtrlTopoSync ----------------------------
(***************************************************************************)
(* How the controller takes the radios of its agents from the M2 message   *)
(* to a synchronised topology (em_configuration.cpp, em_orch_ctrl.cpp).    *)
(* Every M1 of a radio starts a chain of em_config commands; the first one *)
(* sends one topology query per device, once all radios of the device wait *)
(* for it.  An agent whose answer shows other SSIDs than the configured    *)
(* ones gets extra time to recover, kept in the data model of the device.  *)
(* The time itself is the one em_cmd_stats_t all em_config commands share. *)
(*                                                                         *)
(* The six commands after the topology query are one command, "rest", and  *)
(* the states a radio waits for their answers in are one, "configuring".   *)
(* The queues are EmOrch's, where every em_config command has one          *)
(* candidate: a queue per radio and the command its em works for.          *)
(***************************************************************************)
EXTENDS Naturals, Sequences, FiniteSets

CONSTANTS
    Devices,
    Radios,
    DeviceOf,       \* [Radios -> Devices]: the agent (AL MAC) of a radio
    Base,           \* EM_MAX_CMD_GEN_TTL + EM_MAX_CMD_EXT_TTL
    MismatchTtl,    \* EM_SSID_MISMATCH_TTL
    QueryInterval,  \* EM_MAX_CMD_GEN_TTL
    Word,           \* unsigned int is 0..(Word - 1)
    AgeCap,         \* bound: ages are not told apart from here on
    MaxM1           \* bound: M1 messages in a behaviour

ASSUME TimesAssumption ==
    /\ Base \in Nat /\ MismatchTtl \in Nat /\ QueryInterval \in Nat /\ MaxM1 \in Nat
    /\ Word \in Nat /\ AgeCap \in Nat /\ AgeCap < Word

ASSUME DeviceAssumption == DeviceOf \in [Radios -> Devices]

VARIABLES
    st,        \* em_sm_t state of the radio
    m1,        \* radios whose em has an M1 to handle
    m1s,       \* number of M1 messages so far
    event,     \* [Radios -> Nat]: m2_tx events the manager has not handled
    queue,     \* [Radios -> Seq]: em_config commands in m_pending
    orch,      \* em_t::m_orch_state
    op,        \* the command the em works for
    age,       \* seconds since that command became active
    time,      \* em_cmd_stats_t::time of em_config
    mismatch,  \* radios with m_ssid_mismatch set
    check,     \* dm_easy_mesh_t::ssid_mismatch_check_time
    sent,      \* dm_easy_mesh_t::last_topo_query_sent_time
    asked,     \* devices with a topology query to answer
    due,       \* radios the tick has not visited in this second
    since      \* history: seconds since check was set, up to AgeCap

msgs   == <<m1, m1s, event>>
cmds   == <<queue, orch, op, age>>
timers == <<check, sent, since>>
vars   == <<st, msgs, cmds, time, mismatch, timers, asked, due>>

State == {"wsc_m1_pending", "wsc_m2_sent", "topo_sync_pending", "topo_synchronized",
          "configuring", "configured", "misconfigured"}

RadiosOf(d) == {r \in Radios : DeviceOf[r] = d}     \* get_all_em_for_al_mac
Active == {r \in Radios : orch[r] # "idle"}
Mismatched(d) == mismatch \cap RadiosOf(d) # {}
Minus(a, b) == (a + Word - b) % Word                \* unsigned int arithmetic

\* set_ssid_mismatch_check_time(0), set_last_topo_query_sent_time(0)
ResetTimers(d) ==
    /\ check' = [check EXCEPT ![d] = 0]
    /\ sent' = [sent EXCEPT ![d] = 0]
    /\ since' = [since EXCEPT ![d] = 0]

Init ==
    /\ st = [r \in Radios |-> "wsc_m1_pending"]
    /\ m1 = {}
    /\ m1s = 0
    /\ event = [r \in Radios |-> 0]
    /\ queue = [r \in Radios |-> << >>]
    /\ orch = [r \in Radios |-> "idle"]
    /\ op = [r \in Radios |-> "none"]
    /\ age = [r \in Radios |-> 0]
    /\ time = 0
    /\ mismatch = {}
    /\ check = [d \in Devices |-> 0]
    /\ sent = [d \in Devices |-> 0]
    /\ asked = {}
    /\ due = {}
    /\ since = [d \in Devices |-> 0]

-----------------------------------------------------------------------------
(* M1 messages.  An agent may send one at any time: after a restart, after *)
(* a renew, or because the M2 was lost.                                    *)

\* find_em_for_msg
M1Arrives(r) ==
    /\ m1s < MaxM1
    /\ m1s' = m1s + 1
    /\ m1' = m1 \cup {r}
    /\ st' = IF st[r] = "wsc_m2_sent" THEN st ELSE [st EXCEPT ![r] = "wsc_m1_pending"]
    /\ UNCHANGED <<event, cmds, time, mismatch, timers, asked, due>>

\* handle_autoconfig_wsc_m1: the M2 is sent, the radio's em_config commands
\* are withdrawn (remove_em_config_cmd_for_em) and new ones are asked for.
handle_autoconfig_wsc_m1(r) ==
    /\ r \in m1
    /\ m1' = m1 \ {r}
    /\ st[r] = "wsc_m1_pending"
    /\ st' = [st EXCEPT ![r] = "wsc_m2_sent"]
    /\ event' = [event EXCEPT ![r] = @ + 1]
    /\ queue' = [queue EXCEPT ![r] = << >>]
    /\ orch' = IF r \in Active THEN [orch EXCEPT ![r] = "fini"] ELSE orch
    /\ time' = 0
    /\ UNCHANGED <<m1s, op, age, mismatch, timers, asked, due>>

\* Its error returns: the M1 is invalid, or the M2 cannot be built or sent.
M1Refused(r) ==
    /\ r \in m1
    /\ st[r] = "wsc_m1_pending"
    /\ m1' = m1 \ {r}
    /\ UNCHANGED <<st, m1s, event, cmds, time, mismatch, timers, asked, due>>

\* process_msg: not in the state for an M1
M1Ignored(r) ==
    /\ r \in m1
    /\ st[r] # "wsc_m1_pending"
    /\ m1' = m1 \ {r}
    /\ UNCHANGED <<st, m1s, event, cmds, time, mismatch, timers, asked, due>>

\* handle_m2_tx: the chain is submitted.
handle_m2_tx(r) ==
    /\ event[r] > 0
    /\ event' = [event EXCEPT ![r] = @ - 1]
    /\ queue' = [queue EXCEPT ![r] = @ \o <<"topo_sync", "rest">>]
    /\ UNCHANGED <<st, m1, m1s, orch, op, age, time, mismatch, timers, asked, due>>

-----------------------------------------------------------------------------
(* The tick of the orchestrator visits the radios with commands.           *)

Visited(r) == due' = due \ {r}

Promote(r) ==
    /\ Visited(r)
    /\ orch[r] = "idle"
    /\ queue[r] # << >>
    /\ queue' = [queue EXCEPT ![r] = Tail(@)]
    /\ op' = [op EXCEPT ![r] = Head(queue[r])]
    /\ orch' = [orch EXCEPT ![r] = "pending"]
    /\ age' = [age EXCEPT ![r] = 0]
    /\ UNCHANGED <<st, msgs, time, mismatch, timers, asked>>

is_em_ready_for_orch_exec(r) ==
    st[r] \in {"wsc_m2_sent", "topo_synchronized", "configured", "misconfigured"}

\* orch_execute: the state moves on only where the operation fits it.
Execute(r) ==
    /\ Visited(r)
    /\ orch[r] = "pending"
    /\ is_em_ready_for_orch_exec(r)
    /\ orch' = [orch EXCEPT ![r] = "progress"]
    /\ st' = [st EXCEPT ![r] =
            IF op[r] = "topo_sync" /\ @ = "wsc_m2_sent" THEN "topo_sync_pending"
            ELSE IF op[r] = "rest" /\ @ = "topo_synchronized" THEN "configuring" ELSE @]
    /\ UNCHANGED <<msgs, queue, op, age, time, mismatch, timers, asked>>

is_em_ready_for_orch_fini(r) == st[r] \in {"topo_synchronized", "configured"}

Finish(r) ==
    /\ Visited(r)
    /\ orch[r] = "progress"
    /\ is_em_ready_for_orch_fini(r)
    /\ orch' = [orch EXCEPT ![r] = "fini"]
    /\ UNCHANGED <<st, msgs, queue, op, age, time, mismatch, timers, asked>>

\* handle_timeout: the command leaves; the statistics go with the last one.
Release(r) ==
    /\ Visited(r)
    /\ orch[r] = "fini"
    /\ orch' = [orch EXCEPT ![r] = "idle"]
    /\ op' = [op EXCEPT ![r] = "none"]
    /\ time' = IF Active = {r} /\ \A q \in Radios : queue[q] = << >> THEN 0 ELSE time
    /\ UNCHANGED <<st, msgs, queue, age, mismatch, timers, asked>>

(***************************************************************************)
(* orch_transient for the em of r that is not ready.                       *)
(***************************************************************************)
NotReady(r) ==
    \/ orch[r] = "pending" /\ ~is_em_ready_for_orch_exec(r)
    \/ orch[r] = "progress" /\ ~is_em_ready_for_orch_fini(r)

\* is_em_ready_for_orch_fini moves a radio that went back to wsc_m2_sent
\* because of a second M1 forward again.
Regressed(r) == orch[r] = "progress" /\ st[r] = "wsc_m2_sent"
StateOf(r) == IF Regressed(r) THEN "topo_sync_pending" ELSE st[r]

update_stats(r) == IF time < age[r] THEN age[r] ELSE time

Syncing(r) == op[r] = "topo_sync" /\ StateOf(r) = "topo_sync_pending"

\* cancel_command(type, em_radios) and, for its active commands,
\* pre_process_cancel
cancel_command(S) ==
    /\ queue' = [r \in Radios |-> IF r \in S THEN << >> ELSE queue[r]]
    /\ orch' = [r \in Radios |-> IF r \in S \cap Active THEN "fini" ELSE orch[r]]
    /\ UNCHANGED <<op, age>>

Misconfigured(S) == [r \in Radios |-> IF r \in S THEN "misconfigured" ELSE st[r]]

\* The device did not synchronise in time: all its radios start again.
GiveUp(d) ==
    /\ cancel_command(RadiosOf(d))
    /\ st' = Misconfigured(RadiosOf(d))
    /\ time' = 0
    /\ mismatch' = mismatch \ RadiosOf(d)
    /\ ResetTimers(d)
    /\ UNCHANGED <<msgs, asked>>

SyncTimeout(r) ==
    /\ Visited(r)
    /\ NotReady(r)
    /\ Syncing(r)
    /\ ~Mismatched(DeviceOf[r])
    /\ update_stats(r) > Base
    /\ GiveUp(DeviceOf[r])

CheckTimeAlways(r) == update_stats(r)      \* mutant: starts again at every visit

\* The time the mismatch is counted from: now, the first time it is seen.
CheckTime(r) ==
    IF check[DeviceOf[r]] = 0 THEN update_stats(r) ELSE check[DeviceOf[r]]

MismatchExpired(r) == Minus(update_stats(r), CheckTime(r)) > MismatchTtl

MismatchTimeout(r) ==
    /\ Visited(r)
    /\ NotReady(r)
    /\ Syncing(r)
    /\ Mismatched(DeviceOf[r])
    /\ MismatchExpired(r)
    /\ GiveUp(DeviceOf[r])

QueryDue(r) ==
    LET d == DeviceOf[r] IN
    sent[d] = 0 \/ Minus(update_stats(r), sent[d]) >= QueryInterval

\* The mismatch may still be resolved; the topology query is repeated.
MismatchWait(r) ==
    LET d == DeviceOf[r] IN
    /\ Visited(r)
    /\ NotReady(r)
    /\ Syncing(r)
    /\ Mismatched(d)
    /\ ~MismatchExpired(r)
    /\ time' = update_stats(r)
    /\ check' = [check EXCEPT ![d] = CheckTime(r)]
    /\ since' = IF check[d] = 0 THEN [since EXCEPT ![d] = 0] ELSE since
    /\ IF QueryDue(r)
       THEN /\ st' = [q \in Radios |->
                        IF q \in RadiosOf(d) THEN "topo_sync_pending" ELSE st[q]]
            /\ asked' = asked \cup {d}
            /\ sent' = [sent EXCEPT ![d] = update_stats(r)]
       ELSE /\ st' = [st EXCEPT ![r] = StateOf(r)]
            /\ UNCHANGED <<asked, sent>>
    /\ UNCHANGED <<msgs, cmds, mismatch>>

\* Past the limit outside the synchronisation: cancel_command(type), which
\* finishes the em_config commands of all devices.
CommandTimeout(r) ==
    /\ Visited(r)
    /\ NotReady(r)
    /\ ~Syncing(r)
    /\ update_stats(r) > Base
    /\ cancel_command(Radios)
    /\ st' = Misconfigured(Active)
    /\ time' = update_stats(r)
    /\ ResetTimers(DeviceOf[r])
    /\ UNCHANGED <<msgs, mismatch, asked>>

Wait(r) ==
    /\ Visited(r)
    /\ NotReady(r)
    /\ Syncing(r) => ~Mismatched(DeviceOf[r])
    /\ update_stats(r) <= Base
    /\ time' = update_stats(r)
    /\ st' = [st EXCEPT ![r] = StateOf(r)]
    /\ UNCHANGED <<msgs, cmds, mismatch, timers, asked>>

Visit(r) ==
    \/ Promote(r) \/ Execute(r) \/ Finish(r) \/ Release(r) \/ Wait(r)
    \/ SyncTimeout(r) \/ MismatchTimeout(r) \/ MismatchWait(r) \/ CommandTimeout(r)

-----------------------------------------------------------------------------
(* The threads of the ems.                                                 *)

Front(d) == CHOOSE r \in RadiosOf(d) : TRUE      \* em_radios.front()

\* process_ctrl_state in topo_sync_pending: the first radio asks for all.
process_ctrl_state(r) ==
    LET d == DeviceOf[r] IN
    /\ orch[r] = "progress"
    /\ st[r] = "topo_sync_pending"
    /\ ~Mismatched(d)
    /\ \A q \in RadiosOf(d) : st[q] = "topo_sync_pending"
    /\ ResetTimers(d)
    /\ asked' = IF r = Front(d) THEN asked \cup {d} ELSE asked
    /\ UNCHANGED <<st, msgs, cmds, time, mismatch, due>>

\* process_msg: a topology response is taken if some radio waits for it.
AwaitsResponse(d) == \E r \in RadiosOf(d) : st[r] = "topo_sync_pending"

TopoResponseKeepsTimer(d) ==         \* mutant: the timers are not reset
    /\ d \in asked
    /\ AwaitsResponse(d)
    /\ asked' = asked \ {d}
    /\ st' = [r \in Radios |-> IF r \in RadiosOf(d) THEN "topo_synchronized" ELSE st[r]]
    /\ mismatch' = mismatch \ RadiosOf(d)
    /\ UNCHANGED <<msgs, cmds, time, timers, due>>

TopoResponse(d) ==
    /\ d \in asked
    /\ AwaitsResponse(d)
    /\ asked' = asked \ {d}
    /\ st' = [r \in Radios |-> IF r \in RadiosOf(d) THEN "topo_synchronized" ELSE st[r]]
    /\ mismatch' = mismatch \ RadiosOf(d)
    /\ ResetTimers(d)
    /\ UNCHANGED <<msgs, cmds, time, due>>

\* handle_topology_response: the agent's SSIDs are not the configured ones.
TopoMismatch(r) ==
    /\ DeviceOf[r] \in asked
    /\ AwaitsResponse(DeviceOf[r])
    /\ asked' = asked \ {DeviceOf[r]}
    /\ mismatch' = mismatch \cup {r}
    /\ UNCHANGED <<st, msgs, cmds, time, timers, due>>

\* The query or the response is lost, or fails validation, or nobody waits.
TopoLost(d) ==
    /\ d \in asked
    /\ asked' = asked \ {d}
    /\ UNCHANGED <<st, msgs, cmds, time, mismatch, timers, due>>

\* The answers to the rest of the chain.
Configured(r) ==
    /\ st[r] = "configuring"
    /\ st' = [st EXCEPT ![r] = "configured"]
    /\ UNCHANGED <<msgs, cmds, time, mismatch, timers, asked, due>>

\* One second.  The tick comes every quarter of a second (EM_MGR_TOUT), so
\* every radio with commands is visited at least once in it.
Second ==
    /\ \A r \in due : r \notin Active /\ queue[r] = << >>
    /\ \/ \E r \in Active : age[r] < AgeCap
       \/ \E d \in Devices : check[d] # 0 /\ since[d] < AgeCap
    /\ age' = [r \in Radios |-> IF r \in Active /\ age[r] < AgeCap
                                THEN age[r] + 1 ELSE age[r]]
    /\ since' = [d \in Devices |-> IF check[d] # 0 /\ since[d] < AgeCap
                                   THEN since[d] + 1 ELSE since[d]]
    /\ due' = Radios
    /\ UNCHANGED <<st, msgs, queue, orch, op, time, mismatch, check, sent, asked>>

-----------------------------------------------------------------------------
Next ==
    \/ \E r \in Radios :
        \/ M1Arrives(r) \/ handle_autoconfig_wsc_m1(r) \/ M1Refused(r) \/ M1Ignored(r)
        \/ handle_m2_tx(r)
        \/ Visit(r)
        \/ process_ctrl_state(r) \/ TopoMismatch(r) \/ Configured(r)
    \/ \E d \in Devices : TopoResponse(d) \/ TopoLost(d)
    \/ Second

Spec == Init /\ [][Next]_vars

\* The manager ticks every 250 ms and visits every active command; time
\* passes.  Nothing is assumed of the agents nor of the threads of the ems.
FairSpec == Spec /\ WF_vars(Second) /\ \A r \in Radios : WF_vars(Visit(r))

-----------------------------------------------------------------------------
TypeOK ==
    /\ st \in [Radios -> State]
    /\ m1 \subseteq Radios
    /\ m1s \in 0..MaxM1
    /\ event \in [Radios -> Nat]
    /\ queue \in [Radios -> Seq({"topo_sync", "rest"})]
    /\ orch \in [Radios -> {"idle", "pending", "progress", "fini"}]
    /\ op \in [Radios -> {"none", "topo_sync", "rest"}]
    /\ age \in [Radios -> 0..AgeCap]
    /\ time \in 0..AgeCap
    /\ mismatch \subseteq Radios
    /\ check \in [Devices -> 0..AgeCap]
    /\ sent \in [Devices -> 0..AgeCap]
    /\ asked \subseteq Devices
    /\ due \subseteq Radios
    /\ since \in [Devices -> 0..AgeCap]

\* The timer of an SSID mismatch runs only while some radio of the device is
\* mismatched, whichever of process_ctrl_state, process_msg and the
\* orchestrator ended the mismatch: a later one starts with a timer of its own.
TimerNeedsMismatch == \A d \in Devices : check[d] # 0 => Mismatched(d)

\* The recovery from an SSID mismatch is given up only after its time: "If
\* 120s have passed since ssid mismatch detected, cancel the command and
\* transition to misconfigured state" (orch_transient).
MismatchGetsItsTime ==
    [][\A d \in Devices : Mismatched(d) /\ ~Mismatched(d)' =>
        \/ \A r \in RadiosOf(d) : st'[r] = "topo_synchronized"
        \/ since[d] > MismatchTtl]_vars

\* An em_config command does not hold its radio for ever, whatever the agent
\* answers or does not answer, mismatch recovery included.
SyncEnds == \A r \in Radios : orch[r] # "idle" ~> orch[r] = "idle"
=============================================================================
