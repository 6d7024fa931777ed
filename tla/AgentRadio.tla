----------------------------- MODULE AgentRadio ------------------------------
(***************************************************************************)
(* The agent's state machines: its radios and the em of its AL interface,  *)
(* from dev_init (search, M1, M2, configuration by OneWifi) through the    *)
(* controller's queries (topology, AP capabilities, channel preferences,   *)
(* channel selection) to the reports of normal operation.                  *)
(*                                                                         *)
(* A state changes in three places: em_t::orch_execute and the time limit  *)
(* in the orchestrator's tick, the em's own thread while its command is in *)
(* progress, and the handlers of the controller's messages, which do not   *)
(* look at the command at all.  The states are ordered, and many guards    *)
(* compare with the order of the enum.                                     *)
(*                                                                         *)
(* Time is abstract: a time limit may run out whenever the command is not  *)
(* done.  The controller and OneWifi are external: the controller asks for *)
(* what the answers so far allow, once, or again up to a bound.            *)
(***************************************************************************)
EXTENDS Naturals, Sequences, FiniteSets

CONSTANTS
    Radios,      \* the radios, on different bands
    Front,       \* the first radio of m_em_map
    AlEm,        \* the em of the AL interface
    Events,      \* the events of normal operation that may happen
    MaxExtra     \* bound: such events, second callbacks of OneWifi, renews and
                 \* repeated requests of the controller, losses of an M1 or M2
                 \* and time limits that run out, all together

ASSUME FrontAssumption == Front \in Radios /\ AlEm \notin Radios
ASSUME EventsAssumption ==
    Events \subseteq {"sta_list", "btm_report", "scan_result", "beacon_report",
                     "sta_link_metrics", "get_link_quality_report", "unassoc_sta_result"}
ASSUME BoundAssumption == MaxExtra \in Nat

VARIABLES
    st,         \* em_sm_t state of the em
    orch,       \* em_t::m_orch_state
    cmd,        \* type of the active command the em is a candidate of
    pending,    \* m_pending: type and candidates
    bus,        \* events of em_agent_t the manager has not handled
    m2,         \* radios whose M1 the controller has answered, M2 on its way
    known,      \* radios whose M1 reached the controller
    answered,   \* requests of the controller answered so far
    extra,      \* what is used up of the bound
    applied,    \* history: radios OneWifi has confirmed a configuration of
    bystander,  \* history: ems cancelled because of another em's time limit
    blind,      \* history: radios renewed before they had a configuration
    disturbed   \* history: not the plain onboarding any more

ctrl    == <<m2, known, answered>>
history == <<applied, bystander, blind, disturbed>>
vars    == <<st, orch, cmd, pending, bus, ctrl, extra, history>>

Ems == Radios \cup {AlEm}

-----------------------------------------------------------------------------
(* The states of the agent, in the order of em_state_t.                    *)

em_state_t ==
    <<"unconfigured", "1905_unconfigured", "1905_securing", "autoconfig_rsp_pending",
      "wsc_m2_pending", "wsc_m2_processed", "owconfig_pending", "onewifi_bssconfig_ind",
      "autoconfig_renew_pending", "topo_synchronized", "ap_cap_report", "channel_pref_query",
      "channel_selection_pending", "channel_select_configuration_pending",
      "channel_report_pending", "channel_scan_result_pending",
      "unassoc_sta_metrics_report_pending", "configured", "topology_notify",
      "client_cap_report", "sta_link_metrics_pending", "steer_btm_res_pending",
      "link_quality_report_pending", "beacon_report_pending", "beacon_report_complete">>

State == {em_state_t[i] : i \in DOMAIN em_state_t}
Rank == [s \in State |-> CHOOSE i \in DOMAIN em_state_t : em_state_t[i] = s]
Reached(e, s) == Rank[st[e]] >= Rank[s]

Type == {"dev_init", "cfg_renew", "onewifi_cb", "channel_pref_query", "op_channel_report",
         "sta_list", "sta_link_metrics", "btm_report", "scan_result", "beacon_report",
         "get_link_quality_report", "unassoc_sta_result"}

\* The ems a command of type t about em e is for.  The agent's ems share one
\* data model, so that a station looked up there belongs to every radio.
Group(t, e) == IF t \in {"dev_init", "btm_report", "sta_link_metrics"} THEN Radios ELSE {e}

\* em_orch_agent_t::build_candidates: the ems t can be about, in their state.
Subject(t) ==
    CASE t = "onewifi_cb" -> {r \in Radios : st[r] = "owconfig_pending"}
      [] t = "op_channel_report" -> {r \in Radios : st[r] = "channel_select_configuration_pending"}
      [] t = "channel_pref_query" ->
            {e \in {AlEm} : Reached(e, "ap_cap_report") /\ ~Reached(e, "configured")}
      [] t = "get_link_quality_report" -> {AlEm}
      [] t = "unassoc_sta_result" -> {Front}
      [] OTHER -> Radios

Onboarding == ({"topo", "ap_cap", "channel_pref"} \X {AlEm}) \cup ({"channel_sel"} \X Radios)

\* handle_dev_init has submitted its command.
Init ==
    /\ st = [e \in Ems |-> "unconfigured"]
    /\ orch = [e \in Ems |-> "idle"]
    /\ cmd = [e \in Ems |-> "none"]
    /\ pending = <<[type |-> "dev_init", ems |-> Radios]>>
    /\ bus = << >>
    /\ m2 = {} /\ known = {} /\ answered = {}
    /\ extra = 0
    /\ applied = {} /\ bystander = {} /\ blind = {} /\ disturbed = FALSE

-----------------------------------------------------------------------------
(* The bus events.                                                         *)

InProgress(t, S) ==
    \/ \E e \in S : cmd[e] = t
    \/ \E i \in DOMAIN pending : pending[i].type = t /\ pending[i].ems \cap S # {}

\* The types is_cmd_type_in_progress finds: cfg_renew for one radio, the
\* others for all ems.  bus_2_cmd_type has no case for the other events.
InProgressChecked(t, e) ==
    CASE t = "cfg_renew" -> InProgress(t, {e})
      [] t \in {"dev_init", "beacon_report", "get_link_quality_report"} -> InProgress(t, Ems)
      [] OTHER -> FALSE

Submit(t, e) ==
    pending' = IF e \in Subject(t) /\ ~InProgressChecked(t, e)
               THEN Append(pending, [type |-> t, ems |-> Group(t, e)]) ELSE pending

\* handle_autoconfig_renew, handle_channel_pref_query of em_agent_t
HandleEvent ==
    /\ bus # << >>
    /\ bus' = Tail(bus)
    /\ Submit(Head(bus).type, Head(bus).em)
    /\ UNCHANGED <<st, orch, cmd, ctrl, extra, history>>

\* A station joins or leaves; a scan or a measurement is done, which the
\* controller asked the onboarded agent for.
Operation(t, e) ==
    /\ t \in Events
    /\ t # "sta_list" => Onboarding \subseteq answered
    /\ extra < MaxExtra
    /\ e \in Subject(t)
    /\ Submit(t, e)
    /\ extra' = extra + 1
    /\ disturbed' = TRUE
    /\ UNCHANGED <<st, orch, cmd, bus, ctrl, applied, bystander, blind>>

\* handle_onewifi_private_cb, handle_onewifi_mesh_sta_cb: OneWifi reports the
\* configuration it was given, one time or more.
OneWifiConfigured(r) ==
    LET again == InProgress("onewifi_cb", {r}) IN
    /\ r \in Subject("onewifi_cb")
    /\ again => extra < MaxExtra
    /\ Submit("onewifi_cb", r)
    /\ applied' = applied \cup {r}
    /\ extra' = IF again THEN extra + 1 ELSE extra
    /\ disturbed' = (disturbed \/ again)
    /\ UNCHANGED <<st, orch, cmd, bus, ctrl, bystander, blind>>

\* handle_onewifi_radio_cb: the channel is set.
OneWifiChannel(r) ==
    LET again == InProgress("op_channel_report", {r}) IN
    /\ r \in Subject("op_channel_report")
    /\ again => extra < MaxExtra
    /\ Submit("op_channel_report", r)
    /\ extra' = IF again THEN extra + 1 ELSE extra
    /\ disturbed' = (disturbed \/ again)
    /\ UNCHANGED <<st, orch, cmd, bus, ctrl, applied, bystander, blind>>

-----------------------------------------------------------------------------
(* The tick of the orchestrator.                                           *)

SomeIdle(i) ==                   \* mutant: one idle em is enough
    \E e \in pending[i].ems : orch[e] = "idle"

Eligible(i) == \A e \in pending[i].ems : orch[e] = "idle"

Promote(i) ==
    /\ i \in DOMAIN pending
    /\ Eligible(i)
    /\ \A j \in 1..(i - 1) : ~Eligible(j)
    /\ pending' = [j \in 1..(Len(pending) - 1) |-> pending[IF j < i THEN j ELSE j + 1]]
    /\ orch' = [e \in Ems |-> IF e \in pending[i].ems THEN "pending" ELSE orch[e]]
    /\ cmd' = [e \in Ems |-> IF e \in pending[i].ems THEN pending[i].type ELSE cmd[e]]
    /\ UNCHANGED <<st, bus, ctrl, extra, history>>

is_em_ready_for_orch_exec(e) ==
    CASE cmd[e] \in {"dev_init", "onewifi_cb", "cfg_renew", "op_channel_report"} -> TRUE
      [] cmd[e] = "channel_pref_query" -> Reached(e, "ap_cap_report")
      [] cmd[e] \in {"sta_list", "beacon_report", "get_link_quality_report"} ->
            Reached(e, "topo_synchronized")
      [] cmd[e] = "unassoc_sta_result" ->
            st[e] \in {"configured", "unassoc_sta_metrics_report_pending"}
      [] OTHER -> st[e] = "configured"

\* The state em_t::orch_execute puts an em in state s into.
ExecState(t, s) ==
    CASE t = "dev_init" -> "unconfigured"
      [] t = "cfg_renew" -> "autoconfig_renew_pending"
      [] t = "onewifi_cb" -> "onewifi_bssconfig_ind"
      [] t = "channel_pref_query" -> IF s = "ap_cap_report" THEN "channel_pref_query" ELSE s
      [] t = "op_channel_report" -> "channel_report_pending"
      [] t = "sta_list" -> "topology_notify"
      [] t = "sta_link_metrics" -> "sta_link_metrics_pending"
      [] t = "btm_report" -> "steer_btm_res_pending"
      [] t = "scan_result" -> "channel_scan_result_pending"
      [] t = "beacon_report" -> "beacon_report_pending"
      [] t = "get_link_quality_report" -> "link_quality_report_pending"
      [] t = "unassoc_sta_result" -> "unassoc_sta_metrics_report_pending"

Execute(e) ==
    /\ orch[e] = "pending"
    /\ is_em_ready_for_orch_exec(e)
    /\ orch' = [orch EXCEPT ![e] = "progress"]
    /\ st' = [st EXCEPT ![e] = ExecState(cmd[e], @)]
    /\ bystander' = bystander \ {e}
    /\ blind' = IF cmd[e] = "cfg_renew" /\ e \notin applied THEN blind \cup {e} ELSE blind
    /\ UNCHANGED <<cmd, pending, bus, ctrl, extra, applied, disturbed>>

is_em_ready_for_orch_fini(e) ==
    CASE cmd[e] \in {"dev_init", "cfg_renew"} ->
            \/ st[e] \in {"owconfig_pending", "wsc_m2_processed"}
            \/ Reached(e, "topo_synchronized")
      [] cmd[e] = "onewifi_cb" -> st[e] = "topo_synchronized"
      [] cmd[e] = "channel_pref_query" -> st[e] = "channel_selection_pending"
      [] cmd[e] = "beacon_report" -> st[e] = "beacon_report_complete"
      [] OTHER -> st[e] = "configured"

Finish(e) ==
    /\ orch[e] = "progress"
    /\ is_em_ready_for_orch_fini(e)
    /\ orch' = [orch EXCEPT ![e] = "fini"]
    /\ UNCHANGED <<st, cmd, pending, bus, ctrl, extra, history>>

ReleaseKeepsCmd(e) ==            \* mutant: destroy_command leaves m_cmd
    LET S == Group(cmd[e], e) IN
    /\ cmd[e] # "none"
    /\ \A f \in S : orch[f] = "fini"
    /\ orch' = [f \in Ems |-> IF f \in S THEN "idle" ELSE orch[f]]
    /\ UNCHANGED <<st, cmd, pending, bus, ctrl, extra, history>>

\* handle_timeout: all candidates are done; destroy_command.
Release(e) ==
    LET S == Group(cmd[e], e) IN
    /\ cmd[e] # "none"
    /\ \A f \in S : orch[f] = "fini"
    /\ orch' = [f \in Ems |-> IF f \in S THEN "idle" ELSE orch[f]]
    /\ cmd' = [f \in Ems |-> IF f \in S THEN "none" ELSE cmd[f]]
    /\ UNCHANGED <<st, pending, bus, ctrl, extra, history>>

\* The commands of type t leave m_pending, the others keep their order.
DropPending(t) ==
    LET kept == {i \in DOMAIN pending : pending[i].type # t} IN
    \E f \in [1..Cardinality(kept) -> kept] :
        /\ \A j, k \in DOMAIN f : j < k => f[j] < f[k]
        /\ pending' = [k \in DOMAIN f |-> pending[f[k]]]

CancelForAll(e) ==               \* mutant: the em waits on in its state
    LET S == {f \in Ems : cmd[f] = cmd[e]} IN
    /\ orch' = [f \in Ems |-> IF f \in S THEN "fini" ELSE orch[f]]
    /\ DropPending(cmd[e])
    /\ bystander' = bystander \cup (S \ {e})
    /\ UNCHANGED st

\* cancel_command for every command of the type; only the em whose limit ran
\* out gets another state (pre_process_cancel does nothing).
orch_transient(e) ==
    LET S == {f \in Ems : cmd[f] = cmd[e]} IN
    /\ orch' = [f \in Ems |-> IF f \in S THEN "fini" ELSE orch[f]]
    /\ DropPending(cmd[e])
    /\ st' = [st EXCEPT ![e] = IF Reached(e, "topo_synchronized")
                               THEN "topo_synchronized" ELSE "unconfigured"]
    /\ bystander' = bystander \cup (S \ {e})

CommandTimeout(e) ==
    /\ \/ orch[e] = "pending" /\ ~is_em_ready_for_orch_exec(e)
       \/ orch[e] = "progress" /\ ~is_em_ready_for_orch_fini(e)
    /\ orch_transient(e)
    /\ extra < MaxExtra
    /\ extra' = extra + 1
    /\ disturbed' = TRUE
    /\ UNCHANGED <<cmd, bus, ctrl, applied, blind>>

-----------------------------------------------------------------------------
(* The thread of an em (handle_agent_state).                               *)

agent == <<orch, cmd, pending, bus>>

\* The part of the em that works on a command of type t in state s.
handle_agent_state(e, t, s) ==
    /\ orch[e] = "progress"
    /\ cmd[e] \in t
    /\ st[e] \in s

ConfigTypes == {"dev_init", "cfg_renew"}

\* handle_state_config_none; the search is repeated in the next state.
SendSearch(e) ==
    /\ \/ handle_agent_state(e, ConfigTypes, {"unconfigured", "1905_unconfigured"})
       \/ handle_agent_state(e, {"sta_list"}, {"unconfigured", "1905_unconfigured"})
    /\ st' = [st EXCEPT ![e] = "autoconfig_rsp_pending"]
    /\ UNCHANGED <<agent, ctrl, extra, history>>

\* An M1 is sent, once; it or the M2 may be lost.  An M2 for an earlier M1
\* does not decrypt any more.
M1Sent(r) ==
    /\ st' = [st EXCEPT ![r] = "wsc_m2_pending"]
    /\ \/ m2' = m2 \cup {r} /\ known' = known \cup {r} /\ UNCHANGED <<extra, disturbed>>
       \/ /\ extra < MaxExtra
          /\ extra' = extra + 1
          /\ disturbed' = TRUE
          /\ m2' = m2 \ {r}
          /\ known' \in {known, known \cup {r}}
    /\ UNCHANGED <<agent, answered, applied, bystander, blind>>

handle_state_autoconfig_renew(e) ==
    /\ \/ handle_agent_state(e, ConfigTypes, {"autoconfig_renew_pending"})
       \/ handle_agent_state(e, {"sta_list"}, {"autoconfig_renew_pending"})
    /\ M1Sent(e)

\* handle_state_topology_notify, the reports of em_channel_t and em_metrics_t
Reported == [s \in {"topology_notify", "channel_report_pending", "channel_scan_result_pending",
                    "sta_link_metrics_pending", "link_quality_report_pending",
                    "unassoc_sta_metrics_report_pending", "beacon_report_pending"} |->
    IF s = "beacon_report_pending" THEN "beacon_report_complete" ELSE "configured"]

Works(t) ==
    CASE t = "sta_list" -> {"topology_notify"}
      [] t \in {"channel_pref_query", "op_channel_report"} ->
            {"channel_report_pending", "channel_scan_result_pending"}
      [] t = "scan_result" -> {"channel_scan_result_pending"}
      [] t = "sta_link_metrics" -> {"sta_link_metrics_pending"}
      [] t = "get_link_quality_report" -> {"link_quality_report_pending"}
      [] t = "unassoc_sta_result" -> {"unassoc_sta_metrics_report_pending"}
      [] t = "beacon_report" -> {"beacon_report_pending"}
      [] OTHER -> {}                       \* a BTM report leaves the state alone

SendReport(e) ==
    /\ handle_agent_state(e, Type, Works(cmd[e]))
    /\ st' = [st EXCEPT ![e] = Reported[@]]
    /\ answered' = IF st[e] = "topology_notify" THEN answered \cup {<<"station", e>>} ELSE answered
    /\ UNCHANGED <<agent, m2, known, extra, history>>

\* em_channel_t::process_state: only the AL em changes its state, the list of
\* the radios is cleared before the loop.
send_channel_pref_report_msg(e) ==
    /\ handle_agent_state(e, {"channel_pref_query", "op_channel_report"}, {"channel_pref_query"})
    /\ \A r \in Radios : ~Reached(r, "channel_selection_pending")
    /\ st' = [st EXCEPT ![e] = "channel_selection_pending"]
    /\ answered' = answered \cup {<<"channel_pref", AlEm>>}
    /\ UNCHANGED <<agent, m2, known, extra, history>>

-----------------------------------------------------------------------------
(* The messages of the controller (process_msg of the parts of an em).     *)

handle_autoconfig_resp(r) ==
    /\ st[r] = "autoconfig_rsp_pending"
    /\ M1Sent(r)

handle_autoconfig_wsc_m2(r) ==
    /\ r \in m2
    /\ m2' = m2 \ {r}
    /\ st' = IF st[r] = "wsc_m2_pending" THEN [st EXCEPT ![r] = "owconfig_pending"] ELSE st
    /\ UNCHANGED <<agent, known, answered, extra, history>>

\* A request answered before may come again, up to the bound.
Asks(q) ==
    /\ q \in answered => extra < MaxExtra
    /\ extra' = IF q \in answered THEN extra + 1 ELSE extra
    /\ answered' = answered \cup {q}

\* The topology query, answered by the AL em for all radios.
AnswersEarly ==                  \* mutant: the state of the radios is not looked at
    \E r \in Radios : Reached(r, "onewifi_bssconfig_ind")

AllReady ==
    \A r \in Radios : Reached(r, "onewifi_bssconfig_ind") \/ st[r] = "wsc_m2_processed"

send_topology_response_msg ==
    /\ known # {}
    /\ AllReady
    /\ Asks(<<"topo", AlEm>>)
    /\ st' = [e \in Ems |-> "topo_synchronized"]
    /\ disturbed' = (disturbed \/ <<"topo", AlEm>> \in answered)
    /\ UNCHANGED <<agent, m2, known, applied, bystander, blind>>

\* The plain onboarding ends when it overtakes the tick that would have seen
\* the radios in topo_synchronized.
send_ap_cap_report_msg ==
    /\ <<"topo", AlEm>> \in answered
    /\ \A r \in Radios : Reached(r, "topo_synchronized")
    /\ Asks(<<"ap_cap", AlEm>>)
    /\ st' = [e \in Ems |-> "ap_cap_report"]
    /\ disturbed' = (\/ disturbed
                     \/ <<"ap_cap", AlEm>> \in answered
                     \/ \E r \in Radios : orch[r] = "progress" /\ cmd[r] = "onewifi_cb")
    /\ UNCHANGED <<agent, m2, known, applied, bystander, blind>>

\* em_channel_t::handle_channel_pref_query: an event for the manager.
handle_channel_pref_query ==
    LET q == <<"channel_pref", AlEm>>
        asked == q \in answered \/ InProgress("channel_pref_query", {AlEm}) \/ bus # << >> IN
    /\ <<"ap_cap", AlEm>> \in answered
    /\ asked => extra < MaxExtra
    /\ extra' = IF asked THEN extra + 1 ELSE extra
    /\ bus' = Append(bus, [type |-> "channel_pref_query", em |-> AlEm])
    /\ disturbed' = (disturbed \/ asked)
    /\ UNCHANGED <<st, orch, cmd, pending, ctrl, applied, bystander, blind>>

SelectsConfigured(r) ==          \* mutant: only a configured radio may select
    Reached(r, "configured")

\* em_channel_t::process_msg
MaySelect(r) == Reached(r, "channel_select_configuration_pending") => Reached(r, "configured")

handle_channel_sel_req(r) ==
    /\ <<"channel_pref", AlEm>> \in answered
    /\ r \in known
    /\ MaySelect(r)
    /\ Asks(<<"channel_sel", r>>)
    /\ st' = [st EXCEPT ![r] = "channel_select_configuration_pending"]
    /\ disturbed' = (disturbed \/ <<"channel_sel", r>> \in answered)
    /\ UNCHANGED <<agent, m2, known, applied, bystander, blind>>

\* handle_client_cap_query of the radio of the station's BSS, and
\* handle_associated_sta_link_metrics_query of the first radio: in any state.
handle_sta_query(r) ==
    /\ \E q \in Radios : <<"station", q>> \in answered /\ r \in {q, Front}
    /\ extra < MaxExtra
    /\ extra' = extra + 1
    /\ st' = [st EXCEPT ![r] = "configured"]
    /\ disturbed' = TRUE
    /\ UNCHANGED <<agent, ctrl, applied, bystander, blind>>

\* find_em_for_msg_type refuses a renew in these states.
RefusesRenew == {"autoconfig_renew_pending", "wsc_m2_pending", "wsc_m2_processed"}

handle_autoconfig_renew(r) ==
    /\ r \in known
    /\ extra < MaxExtra
    /\ st[r] \notin RefusesRenew
    /\ extra' = extra + 1
    /\ bus' = Append(bus, [type |-> "cfg_renew", em |-> r])
    /\ disturbed' = TRUE
    /\ UNCHANGED <<st, orch, cmd, pending, ctrl, applied, bystander, blind>>

-----------------------------------------------------------------------------
Tick == \/ \E i \in DOMAIN pending : Promote(i)
        \/ \E e \in Ems : Execute(e) \/ Finish(e) \/ Release(e)

Threads(e) == \/ SendSearch(e) \/ handle_state_autoconfig_renew(e)
              \/ SendReport(e) \/ send_channel_pref_report_msg(e)

Controller ==
    \/ \E r \in Radios : handle_autoconfig_resp(r) \/ handle_autoconfig_wsc_m2(r)
                         \/ handle_channel_sel_req(r)
    \/ send_topology_response_msg \/ send_ap_cap_report_msg \/ handle_channel_pref_query

OneWifi(r) == OneWifiConfigured(r) \/ OneWifiChannel(r)

Next ==
    \/ HandleEvent
    \/ Tick
    \/ \E e \in Ems : CommandTimeout(e) \/ Threads(e) \/ \E t \in Type : Operation(t, e)
    \/ \E r \in Radios : OneWifi(r) \/ handle_sta_query(r) \/ handle_autoconfig_renew(r)
    \/ Controller

\* Something goes on as long as the tick, the manager's event loop or a thread
\* has work, the controller waits for an answer or OneWifi for its turn.
\* Nothing forces what counts against the bound.
Progress == extra' = extra /\ Next

Spec == Init /\ [][Next]_vars /\ WF_vars(Progress)

-----------------------------------------------------------------------------
TypeOK ==
    /\ st \in [Ems -> State]
    /\ orch \in [Ems -> {"idle", "pending", "progress", "fini"}]
    /\ cmd \in [Ems -> Type \cup {"none"}]
    /\ \A e \in Ems : cmd[e] = "none" <=> orch[e] = "idle"
    /\ \A i \in DOMAIN pending : pending[i].type \in Type /\ pending[i].ems \subseteq Ems
    /\ \A i \in DOMAIN bus : bus[i].em \in Ems
    /\ m2 \subseteq known /\ known \subseteq Radios
    /\ applied \subseteq Radios /\ bystander \subseteq Ems /\ blind \subseteq Radios

\* The ems of the command e works for
group == [e \in Ems |-> IF cmd[e] = "none" THEN {} ELSE Group(cmd[e], e)]

Work == INSTANCE EmWork

\* The agent's ems are started, cancelled and released as EmWork says, dev_init
\* and the commands for all radios included.
WorksTogether == Work!Spec

\* "renew is the mechanism to recover": a radio that has no command, and so
\* no time limit, is in a state in which a renew is accepted, whatever was
\* lost, repeated or overtaken, unless the limit of another radio took its
\* command away (orch_transient resets the one em only).
Recoverable ==
    \A r \in Radios : orch[r] = "idle" /\ r \notin bystander => st[r] \notin RefusesRenew

\* The states past the topology response are reached by radios that OneWifi
\* has configured: a query that comes too early, for one radio before the
\* other is ready, does not skip the configuration.  A radio renewed before
\* its first configuration is the exception: autoconfig_renew_pending counts
\* as ready.
ConfiguredIsApplied ==
    \A r \in Radios : Reached(r, "topo_synchronized") => r \in applied \cup blind

\* The plain onboarding, in any interleaving of the two radios, the tick, the
\* threads, the controller and OneWifi, configures all radios.
Onboards == <>(disturbed \/ \A r \in Radios : st[r] = "configured")
=============================================================================
