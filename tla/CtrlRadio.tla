------------------------------ MODULE CtrlRadio ------------------------------
(***************************************************************************)
(* The controller's state machines of the radios of one agent: the chain   *)
(* of em_config commands after an M1 (topology, AP capabilities, channel   *)
(* preferences, policy, channel selection, channel scan, publication) and  *)
(* the other commands that ask an agent something.  A command puts its     *)
(* radio into a waiting state (em_t::orch_execute); the thread of the em   *)
(* sends the request that belongs to the state, again every second; the    *)
(* answer, handled by whichever em it is routed to, changes the state of   *)
(* one radio or of all of them; the orchestrator looks at the state and    *)
(* ends the command, or cancels it at its time limit.                      *)
(*                                                                         *)
(* Time is abstract: a time limit may run out whenever the command is not  *)
(* done.  Requests and answers are in a set: they may be delayed, arrive   *)
(* in any order, or never.  Every command has one radio as its candidate,  *)
(* so that the pending queue of the orchestrator is a queue per radio.     *)
(***************************************************************************)
EXTENDS Naturals, Sequences, FiniteSets

CONSTANTS
    Radios,      \* the radios of the agent (get_all_em_for_al_mac)
    Front,       \* em_radios.front()
    Starts,      \* where a behaviour begins: the state of the radios (new, or
                 \* configured before) and what is used up of the bounds
    Commands,    \* the commands submitted from outside
    RenewThresh, CapThresh, SteerThresh, AssocThresh,   \* EM_MAX_*_TX_THRESH
    MaxM1,       \* bound: M1 messages in a behaviour
    MaxCmds,     \* bound: commands submitted from outside
    MaxId,       \* bound: message ids drawn
    MaxRenew     \* bound: m_renew_tx_cnt

ASSUME FrontAssumption == IsFiniteSet(Radios) /\ Front \in Radios
ASSUME StartAssumption ==
    Starts \subseteq [state : {"unconfigured", "configured"},
                     used : [m1 : 0..MaxM1, cmds : 0..MaxCmds, ids : 0..MaxId]]
ASSUME BoundsAssumption ==
    {RenewThresh, CapThresh, SteerThresh, AssocThresh, MaxM1, MaxCmds, MaxId, MaxRenew}
        \subseteq Nat

VARIABLES
    st,        \* em_sm_t state of the radio
    orch,      \* em_t::m_orch_state
    cmd,       \* the command the radio is a candidate of: type and operation
    queue,     \* [Radios -> Seq]: its commands in m_pending
    events,    \* events the manager has not handled
    m1,        \* M1 messages an em has received, or is answering
    net,       \* requests and answers on their way
    id,        \* ids of the last requests (m_chan_req_msg_id, ...)
    cnt,       \* transmission counters (m_renew_tx_cnt, ...)
    ocr,       \* radios with m_channel_sel_ocr_received
    mismatch,  \* some radio has m_ssid_mismatch
    topoChanged,   \* dm_easy_mesh_t topo_state
    used,      \* bounds: M1 messages, commands and ids so far
    renews,    \* history: renews sent since the command was executed
    unclean,   \* history: a command without clean-up was executed
    refused    \* history: radios whose last M1 was refused

msgs    == <<events, m1, net>>
history == <<renews, unclean, refused>>
vars    == <<st, orch, cmd, queue, msgs, id, cnt, ocr, mismatch, topoChanged, used, history>>

-----------------------------------------------------------------------------
(* The states (em_state_t) and the commands.                               *)

\* From topo_synchronized to beacon_report_complete, in the order of the enum.
Synchronized ==
    {"topo_synchronized", "ap_cap_query_pending", "ap_cap_report_received",
     "channel_query_pending", "channel_queried", "channel_select_pending",
     "channel_selected", "channel_scan_pending", "configured", "misconfigured",
     "sta_cap_pending", "sta_cap_confirmed", "sta_link_metrics_pending",
     "sta_steer_pending", "steer_btm_req_ack_rcvd", "sta_disassoc_pending",
     "set_policy_pending", "bsta_cap_pending", "topo_publish_pending",
     "unassoc_sta_link_metrics_pending", "client_assoc_ctrl_req_pending",
     "beacon_report_pending", "beacon_report_complete"}

State == {"unconfigured", "wsc_m1_pending", "wsc_m2_sent", "topo_sync_pending"} \cup Synchronized

Chain == [c \in {"em_config", "sta_assoc", "sta_assoc_new", "sta_assoc_mld", "sta_assoc_known",
                 "set_policy", "set_channel", "scan_channel", "cfg_renew", "set_ssid", "set_radio",
                 "sta_link_metrics", "sta_steer", "sta_disassoc", "client_assoc_ctrl_req",
                 "bsta_cap", "unassoc_sta_query", "beacon_query"} |->
    CASE c = "em_config" -> <<"topo_sync", "ap_cap_query", "channel_pref", "policy_cfg",
                              "channel_sel", "channel_scan_req", "topo_publish">>
      [] c = "sta_assoc" -> <<"topo_sync", "sta_cap", "topo_publish">>
      [] c = "sta_assoc_new" -> <<"sta_cap", "topo_publish">>
      [] c = "sta_assoc_mld" -> <<"topo_sync", "topo_publish">>
      [] c = "sta_assoc_known" -> <<"topo_publish">>
      [] c = "set_policy" -> <<"db_cfg", "policy_cfg">>
      [] c = "set_channel" -> <<"channel_sel">>
      [] OTHER -> <<c>>]

TypeOf(c) == IF c \in {"sta_assoc_new", "sta_assoc_mld", "sta_assoc_known"} THEN "sta_assoc" ELSE c
Type == {TypeOf(c) : c \in DOMAIN Chain}
Op == UNION {{Chain[c][i] : i \in DOMAIN Chain[c]} : c \in DOMAIN Chain}
NoCmd == [type |-> "none", op |-> "none"]
Cmd == [type : Type, op : Op]

ASSUME CommandsAssumption == Commands \subseteq DOMAIN Chain

commands(c) == [i \in DOMAIN Chain[c] |-> [type |-> TypeOf(c), op |-> Chain[c][i]]]

\* The types pre_process_cancel has a case for, and the ones that end by a
\* new M1 and not by an answer.
Cleaned == {"em_config", "cfg_renew", "set_channel", "set_policy", "set_ssid", "set_radio"}

\* get_all_em_for_al_mac(...).front(), or the radio the command names
build_candidates(t) ==
    IF t \in {"sta_assoc", "set_policy", "unassoc_sta_query", "beacon_query"}
    THEN {Front} ELSE Radios

All(s) == [r \in Radios |-> s]
Waiting(r, s) == st[r] = s
NoMatch == MaxId + 1          \* the id of a request whose answers are not compared

Wait == {"chan", "policy", "assoc", "unassoc", "beacon"}
Counter == {"renew", "cap", "steer", "assoc"}

Init ==
    /\ \E s \in Starts : st = All(s.state) /\ used = s.used
    /\ orch = All("idle")
    /\ cmd = All(NoCmd)
    /\ queue = All(<< >>)
    /\ events = << >>
    /\ m1 = {}
    /\ net = {}
    /\ id = All([w \in Wait |-> 0])
    /\ cnt = All([c \in Counter |-> 0])
    /\ ocr = {}
    /\ mismatch = FALSE
    /\ topoChanged = FALSE
    /\ renews = All(0)
    /\ unclean = FALSE
    /\ refused = {}

-----------------------------------------------------------------------------
(* M1 messages and bus events.                                             *)

\* find_em_for_msg_type (listener thread).  An agent may send an M1 at any
\* time: it starts, it restarts, it got a renew, or the M2 was lost.
M1Arrives(r) ==
    /\ used.m1 < MaxM1
    /\ used' = [used EXCEPT !.m1 = @ + 1]
    /\ m1' = m1 \cup {<<r, "received">>}
    /\ st' = IF st[r] = "wsc_m2_sent" THEN st ELSE [st EXCEPT ![r] = "wsc_m1_pending"]
    /\ refused' = refused \ {r}
    /\ UNCHANGED <<orch, cmd, queue, events, net, id, cnt, ocr, mismatch, topoChanged, renews, unclean>>

\* The commands of a queue that are not of type t, in their order: the k-th one
\* has k - 1 others before it.
Kept(q, t) == {i \in DOMAIN q : q[i].type # t}
Without(q, t) ==
    [k \in 1..Cardinality(Kept(q, t)) |->
        q[CHOOSE i \in Kept(q, t) : Cardinality({j \in Kept(q, t) : j < i}) = k - 1]]

\* handle_autoconfig_wsc_m1: the M2 is sent and the radio's em_config
\* commands are withdrawn (remove_em_config_cmd_for_em) ...
handle_autoconfig_wsc_m1(r) ==
    LET active == orch[r] # "idle" /\ cmd[r].type = "em_config" IN
    /\ <<r, "received">> \in m1 /\ <<r, "withdrawn">> \notin m1
    /\ Waiting(r, "wsc_m1_pending")
    /\ m1' = (m1 \ {<<r, "received">>}) \cup {<<r, "withdrawn">>}
    /\ queue' = [queue EXCEPT ![r] = Without(@, "em_config")]
    /\ st' = IF active THEN [st EXCEPT ![r] = "unconfigured"] ELSE st
    /\ orch' = IF active THEN [orch EXCEPT ![r] = "fini"] ELSE orch
    /\ cnt' = IF active THEN [cnt EXCEPT ![r].cap = 0] ELSE cnt
    /\ UNCHANGED <<cmd, events, net, id, ocr, mismatch, topoChanged, used, history>>

\* ... and new ones are asked for.  The tick may come in between.
M2Sent(r) ==
    /\ <<r, "withdrawn">> \in m1
    /\ m1' = m1 \ {<<r, "withdrawn">>}
    /\ st' = [st EXCEPT ![r] = "wsc_m2_sent"]
    /\ events' = Append(events, [cmd |-> "em_config", radio |-> r])
    /\ UNCHANGED <<orch, cmd, queue, net, id, cnt, ocr, mismatch, topoChanged, used, history>>

\* The error returns of handle_autoconfig_wsc_m1: the M1 is too short or fails
\* validation, or the M2 cannot be built, fails validation or is not sent.  The
\* em_config commands stay, no new ones are asked for, nor is another M1.
M1Refused(r) ==
    /\ <<r, "received">> \in m1 /\ <<r, "withdrawn">> \notin m1
    /\ Waiting(r, "wsc_m1_pending")
    /\ m1' = m1 \ {<<r, "received">>}
    /\ refused' = refused \cup {r}
    /\ UNCHANGED <<st, orch, cmd, queue, events, net, id, cnt, ocr, mismatch, topoChanged, used, renews, unclean>>

\* process_msg: not in the state for an M1
M1Ignored(r) ==
    /\ <<r, "received">> \in m1 /\ <<r, "withdrawn">> \notin m1
    /\ ~Waiting(r, "wsc_m1_pending")
    /\ m1' = m1 \ {<<r, "received">>}
    /\ UNCHANGED <<st, orch, cmd, queue, events, net, id, cnt, ocr, mismatch, topoChanged, used, history>>

\* handle_m2_tx, handle_config_renew: the commands of the event are queued.
HandleEvent ==
    /\ events # << >>
    /\ events' = Tail(events)
    /\ queue' = [queue EXCEPT ![Head(events).radio] = @ \o commands(Head(events).cmd)]
    /\ UNCHANGED <<st, orch, cmd, m1, net, id, cnt, ocr, mismatch, topoChanged, used, history>>

InProgress(t) ==
    \E r \in Radios : cmd[r].type = t \/ \E i \in DOMAIN queue[r] : queue[r][i].type = t

\* The handlers that ask is_cmd_type_in_progress and find their type.
Checked == {"set_ssid", "set_radio", "set_channel", "scan_channel", "set_policy",
            "unassoc_sta_query", "beacon_query", "client_assoc_ctrl_req"}

\* handle_set_policy, handle_sta_assoc_event, ...
Submit(c, r) ==
    /\ used.cmds < MaxCmds
    /\ r \in build_candidates(TypeOf(c))
    /\ c \in Checked => ~InProgress(c)
    /\ used' = [used EXCEPT !.cmds = @ + 1]
    /\ queue' = [queue EXCEPT ![r] = @ \o commands(c)]
    /\ topoChanged' = (topoChanged \/ TypeOf(c) = "sta_assoc")
    /\ UNCHANGED <<st, orch, cmd, msgs, id, cnt, ocr, mismatch, history>>

-----------------------------------------------------------------------------
(* The tick of the orchestrator.                                           *)

Promote(r) ==
    /\ orch[r] = "idle"
    /\ queue[r] # << >>
    /\ queue' = [queue EXCEPT ![r] = Tail(@)]
    /\ cmd' = [cmd EXCEPT ![r] = Head(queue[r])]
    /\ orch' = [orch EXCEPT ![r] = "pending"]
    /\ UNCHANGED <<st, msgs, id, cnt, ocr, mismatch, topoChanged, used, history>>

Renewing == {"unconfigured", "wsc_m2_sent", "ap_cap_report_received", "topo_synchronized",
             "channel_queried", "channel_selected", "configured", "misconfigured"}

is_em_ready_for_orch_exec(r) ==
    LET t == cmd[r].type IN
    CASE t \in {"set_ssid", "set_radio"} -> TRUE
      [] t \in {"em_config", "cfg_renew"} -> st[r] \in Renewing
      [] t \in {"sta_assoc", "beacon_query"} -> st[r] \in Synchronized
      [] t = "set_channel" -> st[r] \in {"configured", "misconfigured", "channel_selected"}
      [] OTHER -> st[r] = "configured"

\* The state orch_execute puts a radio in state s into.
ExecState(c, s) ==
    CASE c.type \in {"set_ssid", "set_radio", "cfg_renew"} -> "misconfigured"
      [] c.type = "em_config" ->
            CASE c.op = "topo_sync" /\ s = "wsc_m2_sent" -> "topo_sync_pending"
              [] c.op = "ap_cap_query" /\ s = "topo_synchronized" -> "ap_cap_query_pending"
              [] c.op = "channel_pref" /\ s = "ap_cap_report_received" -> "channel_query_pending"
              [] c.op = "policy_cfg" /\ s = "channel_queried" -> "set_policy_pending"
              [] c.op = "channel_sel" /\ s = "configured" -> "channel_select_pending"
              [] c.op = "channel_scan_req" /\ s = "configured" -> "channel_scan_pending"
              [] c.op = "topo_publish" /\ s = "configured" -> "topo_publish_pending"
              [] OTHER -> s
      [] c.type = "sta_assoc" ->
            CASE c.op = "topo_sync" /\ s = "configured" -> "topo_sync_pending"
              [] c.op = "topo_publish" -> "topo_publish_pending"
              [] OTHER -> "sta_cap_pending"
      [] c.type = "set_channel" -> "channel_select_pending"
      [] c.type = "scan_channel" -> "channel_scan_pending"
      [] c.type = "set_policy" -> "set_policy_pending"
      [] c.type = "sta_link_metrics" -> "sta_link_metrics_pending"
      [] c.type = "sta_steer" -> "sta_steer_pending"
      [] c.type = "sta_disassoc" -> "sta_disassoc_pending"
      [] c.type = "bsta_cap" -> "bsta_cap_pending"
      [] c.type = "beacon_query" -> "beacon_report_pending"
      [] c.type = "client_assoc_ctrl_req" -> "client_assoc_ctrl_req_pending"
      [] c.type = "unassoc_sta_query" -> "unassoc_sta_link_metrics_pending"

ExecuteKeepsCount(r) ==          \* mutant: the counter is not reset
    /\ orch[r] = "pending"
    /\ is_em_ready_for_orch_exec(r)
    /\ orch' = [orch EXCEPT ![r] = "progress"]
    /\ st' = [st EXCEPT ![r] = ExecState(cmd[r], @)]
    /\ id' = [id EXCEPT ![r].beacon = 0]
    /\ renews' = [renews EXCEPT ![r] = 0]
    /\ unclean' = (unclean \/ cmd[r].type \notin Cleaned)
    /\ UNCHANGED <<cmd, queue, msgs, cnt, ocr, mismatch, topoChanged, used, refused>>

\* orch_execute
Execute(r) ==
    /\ orch[r] = "pending"
    /\ is_em_ready_for_orch_exec(r)
    /\ orch' = [orch EXCEPT ![r] = "progress"]
    /\ st' = [st EXCEPT ![r] = ExecState(cmd[r], @)]
    /\ cnt' = IF cmd[r].type \in {"set_ssid", "set_radio"} THEN [cnt EXCEPT ![r].renew = 0] ELSE cnt
    /\ id' = [id EXCEPT ![r].beacon = 0]          \* of the command's own data model
    /\ renews' = [renews EXCEPT ![r] = 0]
    /\ unclean' = (unclean \/ cmd[r].type \notin Cleaned)
    /\ UNCHANGED <<cmd, queue, msgs, ocr, mismatch, topoChanged, used, refused>>

\* The counter that ends a command of type t, and its threshold.
CounterOf(t) ==
    CASE t \in {"set_ssid", "set_radio", "cfg_renew"} -> "renew"
      [] t = "sta_assoc" -> "cap"
      [] t = "sta_steer" -> "steer"
      [] t = "sta_disassoc" -> "assoc"
      [] OTHER -> "none"
Thresh == [renew |-> RenewThresh, cap |-> CapThresh, steer |-> SteerThresh, assoc |-> AssocThresh]
Exhausted(r) ==
    LET c == CounterOf(cmd[r].type) IN c # "none" /\ cnt[r][c] >= Thresh[c]

\* The states in which a command of type t is done.
DoneIn(t) ==
    CASE t \in {"set_ssid", "set_radio", "cfg_renew"} -> {"wsc_m2_sent"}
      [] t = "em_config" -> {"configured", "ap_cap_report_received", "topo_synchronized", "channel_queried"}
      [] t = "sta_assoc" -> {"sta_cap_confirmed", "topo_synchronized", "configured"}
      [] t = "sta_steer" -> {"steer_btm_req_ack_rcvd", "configured"}
      [] t = "beacon_query" -> {"beacon_report_complete"}
      [] OTHER -> {"configured"}

is_em_ready_for_orch_fini(r) == Exhausted(r) \/ st[r] \in DoneIn(cmd[r].type)

\* Its side effects: a counter starts again, the radio is configured.
FiniState(r) ==
    IF /\ cmd[r].type \in {"sta_assoc", "sta_steer", "sta_disassoc"}
       /\ Exhausted(r) \/ st[r] \in {"sta_cap_confirmed", "steer_btm_req_ack_rcvd"}
    THEN "configured" ELSE st[r]
FiniCount(r) ==
    IF Exhausted(r) \/ (cmd[r].type = "sta_steer" /\ st[r] = "steer_btm_req_ack_rcvd")
    THEN [cnt EXCEPT ![r][CounterOf(cmd[r].type)] = 0] ELSE cnt

\* A second M1 took the radio of an em_config command back.
Regressed(r) == cmd[r].type = "em_config" /\ Waiting(r, "wsc_m2_sent")

Finish(r) ==
    /\ orch[r] = "progress"
    /\ is_em_ready_for_orch_fini(r) \/ Regressed(r)
    /\ orch' = IF Regressed(r) THEN orch ELSE [orch EXCEPT ![r] = "fini"]
    /\ st' = [st EXCEPT ![r] = IF Regressed(r) THEN "topo_sync_pending" ELSE FiniState(r)]
    /\ cnt' = FiniCount(r)
    /\ UNCHANGED <<cmd, queue, msgs, id, ocr, mismatch, topoChanged, used, history>>

ReleaseKeepsCmd(r) ==            \* mutant: the em keeps its command
    /\ orch[r] = "fini"
    /\ orch' = [orch EXCEPT ![r] = "idle"]
    /\ UNCHANGED <<st, cmd, queue, msgs, id, cnt, ocr, mismatch, topoChanged, used, history>>

\* handle_timeout: all candidates are in fini, the command is destroyed.
Release(r) ==
    /\ orch[r] = "fini"
    /\ orch' = [orch EXCEPT ![r] = "idle"]
    /\ cmd' = [cmd EXCEPT ![r] = NoCmd]
    /\ UNCHANGED <<st, queue, msgs, id, cnt, ocr, mismatch, topoChanged, used, history>>

-----------------------------------------------------------------------------
(* Time limits.                                                            *)

NotReady(r) ==
    \/ orch[r] = "pending" /\ ~is_em_ready_for_orch_exec(r)
    \/ orch[r] = "progress" /\ ~is_em_ready_for_orch_fini(r)

Active(t) == {r \in Radios : orch[r] # "idle" /\ cmd[r].type = t}

CancelPolicyLeft(t, s) ==        \* mutant: no case for set_policy
    CASE t \in {"em_config", "cfg_renew"} -> "misconfigured"
      [] t \in {"set_channel", "beacon_query"} -> "configured"
      [] OTHER -> s

\* pre_process_cancel: the state a cancelled command leaves its radio in
CancelState(t, s) ==
    CASE t \in {"em_config", "cfg_renew"} -> "misconfigured"
      [] t \in {"set_channel", "set_policy", "beacon_query"} -> "configured"
      [] OTHER -> s

CancelCount(t, c) ==
    CASE t = "em_config" -> [c EXCEPT !.cap = 0]
      [] t = "cfg_renew" -> [c EXCEPT !.renew = 0]
      [] OTHER -> c

\* The cfg_renew events pre_process_cancel sends, in some order.
RenewEvents(S) ==
    {q \in [1..Cardinality(S) -> [cmd : {"cfg_renew"}, radio : S]] :
        {q[i].radio : i \in DOMAIN q} = S}

\* cancel_command(type): the pending commands are dropped, the active ones end.
cancel_command(t) ==
    /\ queue' = [r \in Radios |-> Without(queue[r], t)]
    /\ orch' = [r \in Radios |-> IF r \in Active(t) THEN "fini" ELSE orch[r]]
    /\ \E q \in RenewEvents(IF t = "em_config" THEN Active(t) ELSE {}) : events' = events \o q
    /\ UNCHANGED <<cmd, id, m1, ocr, topoChanged, used, unclean, refused>>

\* orch_transient, past the limit of the command
CommandTimeout(r) ==
    LET t == cmd[r].type IN
    /\ NotReady(r)
    /\ ~(cmd[r].op = "topo_sync" /\ t = "em_config" /\ Waiting(r, "topo_sync_pending"))
    /\ cancel_command(t)
    /\ st' = [q \in Radios |-> IF q \in Active(t) THEN CancelState(t, st[q]) ELSE st[q]]
    /\ cnt' = [q \in Radios |-> IF q \in Active(t) THEN CancelCount(t, cnt[q]) ELSE cnt[q]]
    /\ UNCHANGED <<net, mismatch, renews>>

\* orch_transient, in the topology synchronisation: a renew for every radio
SyncTimeout(r) ==
    /\ NotReady(r)
    /\ cmd[r].type = "em_config" /\ cmd[r].op = "topo_sync"
    /\ Waiting(r, "topo_sync_pending")
    /\ cancel_command("em_config")
    /\ st' = All("misconfigured")
    /\ cnt' = [q \in Radios |->
                [(IF q \in Active("em_config") THEN CancelCount("em_config", cnt[q]) ELSE cnt[q])
                    EXCEPT !.renew = @ + 1]]
    /\ renews' = [q \in Radios |-> renews[q] + 1]
    /\ \A q \in Radios : cnt[q].renew < MaxRenew
    /\ mismatch' = FALSE
    /\ UNCHANGED net

-----------------------------------------------------------------------------
(* The thread of an em: what handle_ctrl_state calls while a command is in *)
(* progress.                                                               *)

PartsOf(t) ==
    CASE t \in {"set_ssid", "set_radio", "cfg_renew"} -> {"configuration"}
      [] t \in {"em_config", "set_channel"} ->
            {"capability", "configuration", "steering", "channel", "policy"}
      [] t = "sta_assoc" -> {"capability", "configuration"}
      [] t = "scan_channel" -> {"channel"}
      [] t = "set_policy" -> {"policy"}
      [] t = "bsta_cap" -> {"capability"}
      [] t \in {"sta_steer", "sta_disassoc", "client_assoc_ctrl_req"} -> {"steering"}
      [] t \in {"sta_link_metrics", "unassoc_sta_query", "beacon_query"} -> {"metrics"}

\* process_ctrl_state of a part of the em of r, in state s
Works(r, part, s) ==
    orch[r] = "progress" /\ part \in PartsOf(cmd[r].type) /\ Waiting(r, s)

\* The requests, and the answers to them.
Kinds ==
    {"topo_query", "ap_cap_query", "bsta_cap_query", "client_cap_query", "channel_pref_query",
     "channel_sel_req", "channel_scan_req", "policy_req", "steering_req", "client_assoc_ctrl_req",
     "link_metrics_query", "unassoc_query", "beacon_query"}
    \cup {"topo_resp", "ap_cap_rprt", "bsta_cap_rprt", "client_cap_rprt", "channel_pref_rprt",
          "channel_sel_rsp", "op_channel_rprt", "ack", "btm_rprt", "link_metrics_rsp",
          "unassoc_rsp", "beacon_rsp"}

Message(m, r, i) == [msg |-> m, radio |-> r, id |-> i]
Send(m, r, i) == net' = net \cup {Message(m, r, i)}

\* get_next_msg_id, kept in m_chan_req_msg_id, m_policy_req_msg_id, ...
SendNew(m, r, w) ==
    /\ used.ids < MaxId
    /\ used' = [used EXCEPT !.ids = @ + 1]
    /\ Send(m, r, used.ids + 1)
    /\ id' = [id EXCEPT ![r][w] = used.ids + 1]

sent == <<st, orch, cmd, queue, events, m1, ocr, mismatch, topoChanged>>

send_autoconfig_renew_msg(r) ==
    /\ Works(r, "configuration", "misconfigured")
    /\ cnt[r].renew < MaxRenew
    /\ cnt' = [cnt EXCEPT ![r].renew = @ + 1]
    /\ renews' = [renews EXCEPT ![r] = @ + 1]
    /\ UNCHANGED <<sent, net, id, used, unclean, refused>>

send_topology_query_msg(r) ==
    /\ Works(r, "configuration", "topo_sync_pending")
    /\ ~mismatch
    /\ cmd[r].type = "sta_assoc" \/ \A q \in Radios : Waiting(q, "topo_sync_pending")
    /\ r = Front
    /\ Send("topo_query", r, NoMatch)
    /\ UNCHANGED <<sent, id, cnt, used, history>>

\* orch_transient: the SSIDs do not match, the query is repeated
RepeatTopoQuery(r) ==
    /\ NotReady(r)
    /\ cmd[r].type = "em_config" /\ cmd[r].op = "topo_sync"
    /\ Waiting(r, "topo_sync_pending")
    /\ mismatch
    /\ st' = All("topo_sync_pending")
    /\ Send("topo_query", Front, NoMatch)
    /\ UNCHANGED <<orch, cmd, queue, events, m1, id, cnt, ocr, mismatch, topoChanged, used, history>>

\* topo_publish_pending: the topology is published
Publish(r) ==
    /\ Works(r, "configuration", "topo_publish_pending")
    /\ topoChanged' = FALSE
    /\ st' = [st EXCEPT ![r] = "configured"]
    /\ UNCHANGED <<orch, cmd, queue, msgs, id, cnt, ocr, mismatch, used, history>>

\* ... and, for a station that came, its beacon report is asked for first
PublishAssoc(r) ==
    /\ Works(r, "configuration", "topo_publish_pending")
    /\ cmd[r].type = "sta_assoc"
    /\ topoChanged
    /\ topoChanged' = FALSE
    /\ Send("beacon_query", r, NoMatch)
    /\ UNCHANGED <<st, orch, cmd, queue, events, m1, id, cnt, ocr, mismatch, used, history>>

send_ap_cap_query_msg(r) ==
    /\ Works(r, "capability", "ap_cap_query_pending")
    /\ \A q \in Radios : Waiting(q, "ap_cap_query_pending")
    /\ r = Front
    /\ Send("ap_cap_query", r, NoMatch)
    /\ UNCHANGED <<sent, id, cnt, used, history>>

send_bsta_cap_query_msg(r) ==
    /\ Works(r, "capability", "bsta_cap_pending")
    /\ Send("bsta_cap_query", r, NoMatch)
    /\ UNCHANGED <<sent, id, cnt, used, history>>

send_client_cap_query(r) ==
    /\ Works(r, "capability", "sta_cap_pending")
    /\ r = Front
    /\ cnt[r].cap < CapThresh
    /\ cnt' = [cnt EXCEPT ![r].cap = @ + 1]
    /\ Send("client_cap_query", r, NoMatch)
    /\ UNCHANGED <<sent, id, used, history>>

send_channel_pref_query_msg(r) ==
    /\ Works(r, "channel", "channel_query_pending")
    /\ \A q \in Radios : Waiting(q, "channel_query_pending")
    /\ r = Front
    /\ Send("channel_pref_query", r, NoMatch)
    /\ UNCHANGED <<sent, id, cnt, used, history>>

send_channel_sel_request_msg(r) ==
    /\ Works(r, "channel", "channel_select_pending")
    /\ SendNew("channel_sel_req", r, "chan")
    /\ ocr' = ocr \ {r}
    /\ UNCHANGED <<st, orch, cmd, queue, events, m1, mismatch, topoChanged, cnt, history>>

send_channel_scan_request_msg(r) ==
    /\ Works(r, "channel", "channel_scan_pending")
    /\ SendNew("channel_scan_req", r, "chan")
    /\ UNCHANGED <<sent, cnt, history>>

\* "If all radios or some radios in set policy pending state, send policy
\* config request on one of them": the first one, if it is the one waiting.
PolicySendable(r) ==
    \/ cmd[r].type = "set_policy"
    \/ \A q \in Radios : st[q] \in {"set_policy_pending", "configured"}

send_policy_cfg_request_msg(r) ==
    /\ Works(r, "policy", "set_policy_pending")
    /\ PolicySendable(r)
    /\ r = Front
    /\ SendNew("policy_req", r, "policy")
    /\ UNCHANGED <<sent, cnt, history>>

send_client_steering_req_msg(r) ==
    /\ Works(r, "steering", "sta_steer_pending")
    /\ cnt[r].steer < SteerThresh
    /\ cnt' = [cnt EXCEPT ![r].steer = @ + 1]
    /\ Send("steering_req", r, NoMatch)
    /\ UNCHANGED <<sent, id, used, history>>

send_client_assoc_ctrl_req_msg(r) ==
    /\ Works(r, "steering", "client_assoc_ctrl_req_pending")
    /\ SendNew("client_assoc_ctrl_req", r, "assoc")
    /\ cnt[r].assoc < AssocThresh
    /\ cnt' = [cnt EXCEPT ![r].assoc = @ + 1]
    /\ UNCHANGED <<sent, history>>

send_all_associated_sta_link_metrics_msg(r) ==
    /\ Works(r, "metrics", "sta_link_metrics_pending")
    /\ Send("link_metrics_query", r, NoMatch)
    /\ UNCHANGED <<sent, id, cnt, used, history>>

send_unassoc_sta_link_metrics_query_msg(r) ==
    /\ Works(r, "metrics", "unassoc_sta_link_metrics_pending")
    /\ SendNew("unassoc_query", r, "unassoc")
    /\ UNCHANGED <<sent, cnt, history>>

\* Sent once for a command ("send once and wait for ACK or timeout").
send_single_beacon_metrics_query_msg(r) ==
    /\ Works(r, "metrics", "beacon_report_pending")
    /\ id[r].beacon = 0
    /\ SendNew("beacon_query", r, "beacon")
    /\ UNCHANGED <<sent, cnt, history>>

process_ctrl_state(r) ==
    \/ send_autoconfig_renew_msg(r) \/ send_topology_query_msg(r)
    \/ Publish(r) \/ PublishAssoc(r)
    \/ send_ap_cap_query_msg(r) \/ send_bsta_cap_query_msg(r) \/ send_client_cap_query(r)
    \/ send_channel_pref_query_msg(r) \/ send_channel_sel_request_msg(r)
    \/ send_channel_scan_request_msg(r) \/ send_policy_cfg_request_msg(r)
    \/ send_client_steering_req_msg(r) \/ send_client_assoc_ctrl_req_msg(r)
    \/ send_all_associated_sta_link_metrics_msg(r)
    \/ send_unassoc_sta_link_metrics_query_msg(r) \/ send_single_beacon_metrics_query_msg(r)

-----------------------------------------------------------------------------
(* The agent: the answers to a request.                                    *)

Reply(m, kind) == Message(kind, m.radio, m.id)

send_topology_response_msg(m) ==
    IF m.msg = "topo_query" THEN {Reply(m, "topo_resp")} ELSE {}
send_ap_cap_report_msg(m) == IF m.msg = "ap_cap_query" THEN {Reply(m, "ap_cap_rprt")} ELSE {}
send_bsta_cap_report_msg(m) == IF m.msg = "bsta_cap_query" THEN {Reply(m, "bsta_cap_rprt")} ELSE {}
send_client_cap_report_msg(m) == IF m.msg = "client_cap_query" THEN {Reply(m, "client_cap_rprt")} ELSE {}
send_channel_pref_report_msg(m) == IF m.msg = "channel_pref_query" THEN {Reply(m, "channel_pref_rprt")} ELSE {}
send_channel_sel_response_msg(m) == IF m.msg = "channel_sel_req" THEN {Reply(m, "channel_sel_rsp")} ELSE {}
send_operating_channel_report_msg(m) == IF m.msg = "channel_sel_req" THEN {Reply(m, "op_channel_rprt")} ELSE {}
handle_channel_scan_req(m) == IF m.msg = "channel_scan_req" THEN {Reply(m, "ack")} ELSE {}
handle_policy_cfg_req(m) == IF m.msg = "policy_req" THEN {Reply(m, "ack")} ELSE {}
handle_client_steering_req(m) == IF m.msg = "steering_req" THEN {Reply(m, "ack")} ELSE {}
send_btm_report_msg(m) == IF m.msg = "steering_req" THEN {Reply(m, "btm_rprt")} ELSE {}
handle_client_assoc_ctrl_req(m) == IF m.msg = "client_assoc_ctrl_req" THEN {Reply(m, "ack")} ELSE {}
send_associated_link_metrics_response(m) ==
    IF m.msg = "link_metrics_query" THEN {Reply(m, "link_metrics_rsp")} ELSE {}
handle_unassoc_sta_query(m) ==
    IF m.msg = "unassoc_query" THEN {Reply(m, "ack"), Reply(m, "unassoc_rsp")} ELSE {}
handle_beacon_metrics_query(m) == IF m.msg = "beacon_query" THEN {Reply(m, "ack")} ELSE {}
send_beacon_metrics_response(m) == IF m.msg = "beacon_query" THEN {Reply(m, "beacon_rsp")} ELSE {}

Replies(m) ==
    send_topology_response_msg(m) \cup send_ap_cap_report_msg(m) \cup send_bsta_cap_report_msg(m)
    \cup send_client_cap_report_msg(m) \cup send_channel_pref_report_msg(m)
    \cup send_channel_sel_response_msg(m) \cup send_operating_channel_report_msg(m)
    \cup handle_channel_scan_req(m) \cup handle_policy_cfg_req(m) \cup handle_client_steering_req(m)
    \cup send_btm_report_msg(m) \cup handle_client_assoc_ctrl_req(m)
    \cup send_associated_link_metrics_response(m) \cup handle_unassoc_sta_query(m)
    \cup handle_beacon_metrics_query(m) \cup send_beacon_metrics_response(m)

AgentAnswers(m) ==
    /\ m \in net
    /\ Replies(m) # {}
    /\ net' = (net \ {m}) \cup Replies(m)
    /\ UNCHANGED <<st, orch, cmd, queue, events, m1, id, cnt, ocr, mismatch, topoChanged, used, history>>

-----------------------------------------------------------------------------
(* The controller's handlers of the answers.                               *)

Received(m, kind) == m \in net /\ m.msg = kind /\ net' = net \ {m}

handled == <<orch, cmd, queue, events, m1, cnt, used, history>>

AwaitsResponse == \E r \in Radios : Waiting(r, "topo_sync_pending")

handle_topology_response(m) ==
    /\ Received(m, "topo_resp")
    /\ \/ /\ AwaitsResponse                  \* the SSIDs are the configured ones
          /\ st' = All("topo_synchronized")
          /\ mismatch' = FALSE
          /\ topoChanged' = TRUE
       \/ /\ AwaitsResponse                  \* they are not
          /\ mismatch' = TRUE
          /\ UNCHANGED <<st, topoChanged>>
       \/ ~AwaitsResponse /\ UNCHANGED <<st, mismatch, topoChanged>>
    /\ UNCHANGED <<handled, id, ocr>>

handle_ap_cap_report(m) ==
    /\ Received(m, "ap_cap_rprt")
    /\ st' = All("ap_cap_report_received")
    /\ UNCHANGED <<handled, id, ocr, mismatch, topoChanged>>

handle_channel_pref_rprt(m) ==
    /\ Received(m, "channel_pref_rprt")
    /\ st' = All("channel_queried")
    /\ UNCHANGED <<handled, id, ocr, mismatch, topoChanged>>

\* Routed to the first radio; the ones that asked are confirmed, too.
handle_client_cap_report(m) ==
    /\ Received(m, "client_cap_rprt")
    /\ st' = [r \in Radios |-> IF r = Front \/ Waiting(r, "sta_cap_pending")
                               THEN "sta_cap_confirmed" ELSE st[r]]
    /\ UNCHANGED <<handled, id, ocr, mismatch, topoChanged>>

handle_bsta_cap_report(m) ==
    /\ Received(m, "bsta_cap_rprt")
    /\ st' = [st EXCEPT ![m.radio] = "configured"]
    /\ UNCHANGED <<handled, id, ocr, mismatch, topoChanged>>

handle_channel_sel_rsp(m) ==
    /\ Received(m, "channel_sel_rsp")
    /\ IF Waiting(m.radio, "channel_select_pending") /\ m.id = id[m.radio].chan
       THEN /\ st' = [st EXCEPT ![m.radio] = IF m.radio \in ocr THEN "configured" ELSE "channel_selected"]
            /\ id' = [id EXCEPT ![m.radio].chan = 0]
            /\ ocr' = ocr \ {m.radio}
       ELSE UNCHANGED <<st, id, ocr>>
    /\ UNCHANGED <<handled, mismatch, topoChanged>>

handle_operating_channel_rprt(m) ==
    /\ Received(m, "op_channel_rprt")
    /\ ocr' = IF Waiting(m.radio, "channel_select_pending") THEN ocr \cup {m.radio} ELSE ocr
    /\ st' = IF Waiting(m.radio, "channel_selected") THEN [st EXCEPT ![m.radio] = "configured"] ELSE st
    /\ UNCHANGED <<handled, id, mismatch, topoChanged>>

\* Routed to the first radio with a station.
handle_associated_sta_link_metrics_resp(m) ==
    /\ Received(m, "link_metrics_rsp")
    /\ \E r \in Radios : st' = [st EXCEPT ![r] = "configured"]
    /\ UNCHANGED <<handled, id, ocr, mismatch, topoChanged>>

handle_client_steering_report(m) ==
    /\ Received(m, "btm_rprt")
    /\ \E r \in Radios : st' = [st EXCEPT ![r] = "configured"]
    /\ UNCHANGED <<handled, id, ocr, mismatch, topoChanged>>

\* Stored in the data model; the state of the radio stays.
handle_unassoc_sta_link_metrics_resp(m) ==
    /\ Received(m, "unassoc_rsp")
    /\ UNCHANGED <<st, handled, id, ocr, mismatch, topoChanged>>

\* The radio whose current command asked for this station.
Owners == {r \in Radios : orch[r] \in {"progress", "fini"} /\ cmd[r].type = "beacon_query"}
handle_beacon_metrics_response(m) ==
    /\ Received(m, "beacon_rsp")
    /\ \/ \E r \in Owners : st' = [st EXCEPT ![r] = "beacon_report_complete"]
       \/ UNCHANGED st                       \* another station, or no owner
    /\ UNCHANGED <<handled, id, ocr, mismatch, topoChanged>>

\* em_policy_cfg_t::handle_1905_ack: one radio waits for it, all get configured.
AcksPolicy(s, i) == {r \in Radios : s[r] = "set_policy_pending" /\ id[r].policy = i}
PolicyAck(s, i) == IF AcksPolicy(s, i) # {} THEN All("configured") ELSE s

\* em_channel_t::handle_1905_ack
AcksScan(s, i) == {r \in Radios : s[r] = "channel_scan_pending" /\ id[r].chan = i}
ChannelAck(s, i) == [r \in Radios |-> IF r \in AcksScan(s, i) THEN "configured" ELSE s[r]]

\* em_metrics_t::handle_1905_ack: only an error code ends a beacon query.
AcksBeacon(s, i) == {r \in Owners : s[r] = "beacon_report_pending" /\ id[r].beacon = i}
MetricsAck(s, i, error) ==
    [r \in Radios |-> IF error /\ r \in AcksBeacon(s, i) THEN "beacon_report_complete" ELSE s[r]]

\* em_steering_t::handle_ack_msg: the id of a steering request is not compared.
AcksAssoc(s, i) == {r \in Radios : s[r] = "client_assoc_ctrl_req_pending" /\ id[r].assoc = i}
SteeringAck(s, i) ==
    [r \in Radios |->
        IF r \in AcksAssoc(s, i) THEN "configured"
        ELSE IF s[r] = "sta_steer_pending" THEN "steer_btm_req_ack_rcvd" ELSE s[r]]

\* em_t::proto_process: the parts look at an acknowledgement one after the other.
handle_1905_ack(m) ==
    \E error \in BOOLEAN :
        LET only == Waiting(Front, "unassoc_sta_link_metrics_pending")
            s1 == IF only THEN st ELSE PolicyAck(st, m.id)
            s2 == IF only THEN s1 ELSE ChannelAck(s1, m.id)
            s3 == MetricsAck(s2, m.id, error)
            Cleared(r) == [w \in Wait |->
                IF \/ w = "policy" /\ ~only /\ r \in AcksPolicy(st, m.id)
                   \/ w = "chan" /\ ~only /\ r \in AcksScan(s1, m.id)
                   \/ w = "unassoc" /\ s2[r] = "unassoc_sta_link_metrics_pending" /\ id[r].unassoc = m.id
                   \/ w = "beacon" /\ error /\ r \in AcksBeacon(s2, m.id)
                   \/ w = "assoc" /\ ~only /\ r \in AcksAssoc(s3, m.id)
                THEN 0 ELSE id[r][w]] IN
        /\ Received(m, "ack")
        /\ st' = IF only THEN s3 ELSE SteeringAck(s3, m.id)
        /\ id' = [r \in Radios |-> Cleared(r)]
        /\ UNCHANGED <<handled, ocr, mismatch, topoChanged>>

process_msg(m) ==
    \/ handle_topology_response(m) \/ handle_ap_cap_report(m) \/ handle_channel_pref_rprt(m)
    \/ handle_client_cap_report(m) \/ handle_bsta_cap_report(m) \/ handle_channel_sel_rsp(m)
    \/ handle_operating_channel_rprt(m) \/ handle_associated_sta_link_metrics_resp(m)
    \/ handle_client_steering_report(m) \/ handle_unassoc_sta_link_metrics_resp(m)
    \/ handle_beacon_metrics_response(m) \/ handle_1905_ack(m)

-----------------------------------------------------------------------------
Next ==
    \/ \E r \in Radios :
        \/ M1Arrives(r) \/ handle_autoconfig_wsc_m1(r) \/ M2Sent(r)
        \/ M1Refused(r) \/ M1Ignored(r)
        \/ \E c \in Commands : Submit(c, r)
        \/ Promote(r) \/ Execute(r) \/ Finish(r) \/ Release(r)
        \/ CommandTimeout(r) \/ SyncTimeout(r) \/ RepeatTopoQuery(r)
        \/ process_ctrl_state(r)
    \/ HandleEvent
    \/ \E m \in net : AgentAnswers(m) \/ process_msg(m)

Spec == Init /\ [][Next]_vars

-----------------------------------------------------------------------------
TypeOK ==
    /\ st \in [Radios -> State]
    /\ orch \in [Radios -> {"idle", "pending", "progress", "fini"}]
    /\ cmd \in [Radios -> Cmd \cup {NoCmd}]
    /\ \A r \in Radios : cmd[r] = NoCmd <=> orch[r] = "idle"
    /\ queue \in [Radios -> Seq(Cmd)]
    /\ events \in Seq([cmd : {"em_config", "cfg_renew"}, radio : Radios])
    /\ m1 \subseteq Radios \X {"received", "withdrawn"}
    /\ net \subseteq [msg : Kinds, radio : Radios, id : 1..NoMatch]
    /\ id \in [Radios -> [Wait -> 0..MaxId]]
    /\ cnt \in [Radios -> [Counter -> Nat]]
    /\ ocr \subseteq Radios /\ unclean \in BOOLEAN /\ refused \subseteq Radios
    /\ mismatch \in BOOLEAN /\ topoChanged \in BOOLEAN
    /\ used \in [m1 : 0..MaxM1, cmds : 0..MaxCmds, ids : 0..MaxId]
    /\ renews \in [Radios -> Nat]

\* A radio without a command does not wait for the answer of a command that
\* cancel_command cleans up after, however answers, time limits and a second
\* M1 interleave: nobody would ask again, and nobody would end the wait.
NoOrphanWait ==
    \A r \in Radios : orch[r] = "idle" =>
        st[r] \notin {"ap_cap_query_pending", "channel_query_pending", "set_policy_pending",
                      "channel_select_pending", "beacon_report_pending"}

\* As long as only commands with clean-up ran, a radio without a command
\* accepts a renew (is_em_ready_for_orch_exec of cfg_renew), or has an M1 to
\* handle, also after late or repeated reports, which set the state of every
\* radio of the agent.  It waits for the topology only because of SSIDs that do
\* not match, of which the agent has not been cleared since.  One radio is
\* excepted: an M1 that is refused leaves it in wsc_m1_pending, where it takes
\* no renew before the agent sends another M1.
Renewable ==
    ~unclean => \A r \in Radios : orch[r] = "idle" =>
        \/ st[r] \in Renewing
        \/ st[r] = "wsc_m1_pending" /\ \E p \in m1 : p[1] = r
        \/ st[r] = "wsc_m1_pending" /\ r \in refused
        \/ st[r] = "topo_sync_pending" /\ mismatch

\* "if the command is SetSSID and 5 renews have been sent transition to fini":
\* the counter counts the renews of this command, not those an earlier
\* command, cancelled half way, left behind.
RenewsCounted ==
    \A r \in Radios : orch[r] = "progress" /\ cmd[r].type \in {"set_ssid", "set_radio"} =>
        cnt[r].renew = renews[r]
=============================================================================
