-------------------------- MODULE AgentRadioProofs ---------------------------
(***************************************************************************)
(* The safety of the agent's state machines for any number of radios,      *)
(* events and disturbances.                                                *)
(*                                                                         *)
(* Three facts carry the proofs.  What is queued or executed is for the    *)
(* ems its type is for, and the callbacks of OneWifi are queued for radios *)
(* they have confirmed (Queues).  A radio between search and M2 works, or  *)
(* another's time limit took its command away (Working).  Once any em is   *)
(* past the topology response, or the controller has had any answer, every *)
(* radio has been seen: confirmed by OneWifi, or renewed before (Synced).  *)
(***************************************************************************)
EXTENDS AgentRadio, FiniteSetTheorems, SequenceTheorems, TLAPS

-----------------------------------------------------------------------------
(* The order of the states.                                                *)

Late == {"topo_synchronized", "ap_cap_report", "channel_pref_query",
         "channel_selection_pending", "channel_select_configuration_pending",
         "channel_report_pending", "channel_scan_result_pending",
         "unassoc_sta_metrics_report_pending", "configured", "topology_notify",
         "client_cap_report", "sta_link_metrics_pending", "steer_btm_res_pending",
         "link_quality_report_pending", "beacon_report_pending", "beacon_report_complete"}

\* The states a topology query finds ready, although they come before it.
Ready == {"onewifi_bssconfig_ind", "autoconfig_renew_pending"}

Early == {"autoconfig_rsp_pending", "wsc_m2_pending", "wsc_m2_processed",
          "autoconfig_renew_pending"}

LEMMA StatesDistinct ==
    /\ DOMAIN em_state_t = 1..25
    /\ \A i, j \in 1..25 : em_state_t[i] = em_state_t[j] => i = j
  BY DEF em_state_t

LEMMA RankOf == \A i \in 1..25 : em_state_t[i] \in State /\ Rank[em_state_t[i]] = i
<1>. TAKE i \in 1..25
<1>1. em_state_t[i] \in State
  BY StatesDistinct DEF State
<1>2. Rank[em_state_t[i]] = CHOOSE j \in DOMAIN em_state_t : em_state_t[j] = em_state_t[i]
  BY <1>1 DEF Rank
<1>. QED  BY <1>1, <1>2, StatesDistinct

LEMMA Landmarks ==
    /\ Rank["wsc_m2_processed"] = 6 /\ Rank["onewifi_bssconfig_ind"] = 8
    /\ Rank["topo_synchronized"] = 10 /\ Rank["ap_cap_report"] = 11
    /\ {"unconfigured", "autoconfig_rsp_pending", "wsc_m2_pending", "owconfig_pending",
        "onewifi_bssconfig_ind", "autoconfig_renew_pending"} \cup Late \subseteq State
  BY RankOf DEF em_state_t, Late

\* Reached, as membership in a set.
LEMMA ReachedLate ==
    ASSUME NEW e \in Ems, st[e] \in State
    PROVE  /\ Reached(e, "topo_synchronized") <=> st[e] \in Late
           /\ Reached(e, "onewifi_bssconfig_ind") <=> st[e] \in Late \cup Ready
           /\ Reached(e, "ap_cap_report") => st[e] \in Late
<1>1. PICK i \in 1..25 : st[e] = em_state_t[i]
  BY StatesDistinct DEF State
<1>2. Rank[st[e]] = i
  BY <1>1, RankOf
<1>3. i >= 10 <=> st[e] \in Late
  BY <1>1 DEF em_state_t, Late
<1>4. i \in {8, 9} <=> st[e] \in Ready
  BY <1>1 DEF em_state_t, Ready
<1>. QED  BY <1>2, <1>3, <1>4, Landmarks DEF Reached

-----------------------------------------------------------------------------
(* The invariant.                                                          *)

Seen == Radios \subseteq applied \cup blind

\* With A confirmed by OneWifi and B renewed before.
CmdOK(t, S, A, B) ==
    /\ t \in Type
    /\ \E e \in Ems : S = Group(t, e)
    /\ t \in {"channel_pref_query", "get_link_quality_report"} <=> S = {AlEm}
    /\ t = "onewifi_cb" => S \subseteq A
    /\ t = "op_channel_report" => Radios \subseteq A \cup B

\* The ems of a command work for it together.
Together(e) ==
    /\ CmdOK(cmd[e], Group(cmd[e], e), applied, blind)
    /\ e \in Group(cmd[e], e)
    /\ \A f \in Group(cmd[e], e) : cmd[f] = cmd[e]

Queues ==
    /\ \A i \in DOMAIN pending : CmdOK(pending[i].type, pending[i].ems, applied, blind)
    /\ \A e \in Ems : cmd[e] # "none" => Together(e)

Working ==
    /\ \A r \in Radios : st[r] \in Early /\ r \notin bystander => orch[r] = "progress"
    /\ \A e \in Ems : st[e] # "wsc_m2_processed"

Synced ==
    /\ \A e \in Ems : st[e] \in Late => Seen
    /\ \A r \in Radios : st[r] \in Ready => r \in applied \cup blind
    /\ answered # {} => Seen

Command == [type : Type, ems : SUBSET Ems]
BusEvent == ([type : {"cfg_renew"}, em : Radios]) \cup ([type : {"channel_pref_query"}, em : {AlEm}])

Typed == TypeOK /\ pending \in Seq(Command) /\ bus \in Seq(BusEvent)

IInv == Typed /\ Queues /\ Working /\ Synced

LEMMA EmsFacts == Radios \subseteq Ems /\ AlEm \in Ems /\ AlEm \notin Radios /\ Radios # {} /\ Radios # {AlEm}
  BY FrontAssumption DEF FrontAssumption, Ems

LEMMA GroupFacts ==
    ASSUME NEW t, NEW e \in Ems
    PROVE  /\ Group(t, e) \in SUBSET Ems
           /\ \A f \in Group(t, e) : Group(t, f) = Group(t, e)
  BY EmsFacts DEF Group

\* What was true of a queued command stays true: histories only grow.
LEMMA CmdOKStays ==
    \A t, S, A, B, A1, B1 :
        CmdOK(t, S, A, B) /\ A \subseteq A1 /\ B \subseteq B1 => CmdOK(t, S, A1, B1)
  BY DEF CmdOK

LEMMA QueueElements ==
    /\ \A s \in Seq(Command) : \A i \in DOMAIN s :
          s[i] \in Command /\ s[i].type \in Type /\ s[i].ems \subseteq Ems
    /\ \A b \in BusEvent :
          \/ b.type = "cfg_renew" /\ b.em \in Radios
          \/ b.type = "channel_pref_query" /\ b.em = AlEm
<1>1. \A s \in Seq(Command) : \A i \in DOMAIN s : s[i] \in Command
  BY ElementOfSeq
<1>2. \A c \in Command : c.type \in Type /\ c.ems \subseteq Ems
  BY DEF Command
<1>3. \A b \in [type : {"cfg_renew"}, em : Radios] : b.type = "cfg_renew" /\ b.em \in Radios
  OBVIOUS
<1>4. \A b \in [type : {"channel_pref_query"}, em : {AlEm}] :
        b.type = "channel_pref_query" /\ b.em = AlEm
  OBVIOUS
<1>. QED  BY <1>1, <1>2, <1>3, <1>4, Zenon DEF BusEvent

LEMMA InitInv == Init => IInv
<1>. SUFFICES ASSUME Init PROVE IInv
  OBVIOUS
<1>1. Typed
  <2>1. pending \in Seq(Command) /\ bus \in Seq(BusEvent)
    BY EmsFacts DEF Init, Command, Type
  <2>2. st \in [Ems -> State]
    BY Landmarks DEF Init
  <2>. QED  BY <2>1, <2>2, EmsFacts DEF Init, Typed, TypeOK, Type
<1>2. Queues
  <2>1. CmdOK("dev_init", Radios, applied, blind)
    BY EmsFacts DEF CmdOK, Type, Group
  <2>. QED  BY <2>1 DEF Init, Queues
<1>3. Working /\ Synced
  BY EmsFacts DEF Init, Working, Synced, Early, Late, Ready
<1>. QED  BY <1>1, <1>2, <1>3 DEF IInv

-----------------------------------------------------------------------------
(* The steps.                                                              *)

Grows == applied \subseteq applied' /\ blind \subseteq blind'

LEMMA QueuesStay ==
    ASSUME Queues, UNCHANGED <<pending, cmd>>, Grows
    PROVE  Queues'
<1>1. \A t, S : CmdOK(t, S, applied, blind) => CmdOK(t, S, applied', blind')
  BY CmdOKStays DEF Grows
<1>. QED  BY <1>1 DEF Queues, Together

LEMMA StatesStay ==
    ASSUME Working, Synced, UNCHANGED <<st, orch, answered, bystander>>, Grows
    PROVE  Working' /\ Synced'
  BY DEF Working, Synced, Seen, Grows

\* Submit appends a command for the ems its type is for, or nothing.
LEMMA SubmitKeeps ==
    ASSUME IInv, NEW t \in Type, NEW e \in Ems, Submit(t, e), UNCHANGED cmd, Grows,
           e \in Subject(t) => CmdOK(t, Group(t, e), applied', blind')
    PROVE  Queues' /\ pending' \in Seq(Command)
<1>1. \A u, S : CmdOK(u, S, applied, blind) => CmdOK(u, S, applied', blind')
  BY CmdOKStays DEF Grows
<1>2. CASE pending' = pending
  BY <1>1, <1>2, QueuesStay DEF IInv, Typed
<1>3. CASE pending' # pending
  <2>. PICK c : c = [type |-> t, ems |-> Group(t, e)]
    OBVIOUS
  <2>1. e \in Subject(t) /\ pending' = Append(pending, c)
    BY <1>3 DEF Submit
  <2>2. c \in Command
    BY GroupFacts DEF Command
  <2>3. pending \in Seq(Command)
    BY DEF IInv, Typed
  <2>4. /\ pending' \in Seq(Command)
        /\ DOMAIN pending' = 1..(Len(pending) + 1)
        /\ \A i \in 1..(Len(pending) + 1) :
              pending'[i] = IF i = Len(pending) + 1 THEN c ELSE pending[i]
    BY <2>1, <2>2, <2>3
  <2>5. CmdOK(c.type, c.ems, applied', blind')
    BY <2>1
  <2>6. \A i \in DOMAIN pending' : CmdOK(pending'[i].type, pending'[i].ems, applied', blind')
    <3>. TAKE i \in DOMAIN pending'
    <3>1. CASE i = Len(pending) + 1
      BY <2>3, <2>4, <2>5, <3>1
    <3>2. CASE i # Len(pending) + 1
      BY <1>1, <2>3, <2>4, <3>2 DEF IInv, Queues
    <3>. QED  BY <3>1, <3>2
  <2>7. \A f \in Ems : cmd'[f] # "none" => Together(f)'
    BY <1>1 DEF IInv, Queues, Together
  <2>. QED  BY <2>4, <2>6, <2>7 DEF Queues
<1>. QED  BY <1>2, <1>3

LEMMA EventStep ==
    ASSUME IInv, HandleEvent
    PROVE  IInv'
<1>1. Head(bus) \in BusEvent /\ bus' \in Seq(BusEvent)
  BY DEF HandleEvent, IInv, Typed
<1>. PICK t, e : t = Head(bus).type /\ e = Head(bus).em
  OBVIOUS
<1>2. t \in Type /\ e \in Ems /\ ((t = "cfg_renew" /\ e \in Radios) \/ (t = "channel_pref_query" /\ e = AlEm))
  <2>1. (t = "cfg_renew" /\ e \in Radios) \/ (t = "channel_pref_query" /\ e = AlEm)
    BY <1>1, QueueElements, Zenon
  <2>. QED  BY <2>1, EmsFacts DEF Type
<1>3. Submit(t, e) /\ UNCHANGED <<st, orch, cmd, ctrl, extra, history>> /\ bus' = Tail(bus)
  BY DEF HandleEvent
<1>4. CmdOK(t, Group(t, e), applied', blind')
  BY <1>2, EmsFacts DEF CmdOK, Group
<1>5. Grows
  BY <1>3 DEF Grows, history
<1>6. Queues' /\ pending' \in Seq(Command)
  BY <1>2, <1>3, <1>4, <1>5, SubmitKeeps
<1>7. Working' /\ Synced'
  BY <1>3, <1>5, StatesStay DEF ctrl, history, IInv
<1>8. TypeOK'
  <2>1. \A i \in DOMAIN pending' : pending'[i].type \in Type /\ pending'[i].ems \subseteq Ems
    BY <1>6, QueueElements
  <2>2. \A i \in DOMAIN bus' : bus'[i].em \in Ems
    BY <1>1, EmsFacts DEF BusEvent
  <2>. QED  BY <1>3, <2>1, <2>2 DEF IInv, Typed, TypeOK, ctrl, history
<1>. QED  BY <1>1, <1>6, <1>7, <1>8 DEF IInv, Typed

LEMMA OperationStep ==
    ASSUME IInv, NEW t \in Type, NEW e \in Ems, Operation(t, e)
    PROVE  IInv'
<1>1. /\ t \in Events /\ e \in Subject(t) /\ Submit(t, e)
      /\ UNCHANGED <<st, orch, cmd, bus, ctrl, applied, bystander, blind>>
  BY DEF Operation
<1>2. /\ t \in {"sta_list", "btm_report", "scan_result", "beacon_report",
                "sta_link_metrics", "get_link_quality_report", "unassoc_sta_result"}
      /\ IF t = "get_link_quality_report" THEN e = AlEm ELSE e \in Radios
  BY <1>1, EventsAssumption, FrontAssumption DEF EventsAssumption, FrontAssumption, Subject
<1>3. CmdOK(t, Group(t, e), applied', blind')
  BY <1>2, EmsFacts DEF CmdOK, Group
<1>4. Grows
  BY <1>1 DEF Grows
<1>5. Queues' /\ pending' \in Seq(Command)
  BY <1>1, <1>3, <1>4, SubmitKeeps
<1>6. Working' /\ Synced'
  BY <1>1, <1>4, StatesStay DEF ctrl, IInv
<1>7. TypeOK'
  <2>1. \A i \in DOMAIN pending' : pending'[i].type \in Type /\ pending'[i].ems \subseteq Ems
    BY <1>5, QueueElements
  <2>. QED  BY <1>1, <2>1 DEF IInv, Typed, TypeOK, ctrl
<1>. QED  BY <1>1, <1>5, <1>6, <1>7 DEF IInv, Typed

LEMMA OneWifiStep ==
    ASSUME IInv, NEW r \in Radios, OneWifi(r)
    PROVE  IInv'
<1>. PICK t : t = IF OneWifiConfigured(r) THEN "onewifi_cb" ELSE "op_channel_report"
  OBVIOUS
<1>1. /\ r \in Subject(t) /\ Submit(t, r)
      /\ UNCHANGED <<st, orch, cmd, bus, ctrl, bystander, blind>>
      /\ applied' = IF t = "onewifi_cb" THEN applied \cup {r} ELSE applied
  BY DEF OneWifi, OneWifiConfigured, OneWifiChannel
<1>2. t \in {"onewifi_cb", "op_channel_report"} /\ t \in Type /\ r \in Ems
  BY EmsFacts DEF Type
<1>3. t = "op_channel_report" => Seen
  <2>1. t = "op_channel_report" => st[r] = "channel_select_configuration_pending"
    BY <1>1 DEF Subject
  <2>. QED  BY <1>2, <2>1 DEF IInv, Synced, Late
<1>4. CmdOK(t, Group(t, r), applied', blind')
  <2>1. t = "op_channel_report" => Seen'
    BY <1>1, <1>3 DEF Seen
  <2>2. Group(t, r) = {r}
    BY <1>2 DEF Group
  <2>3. t = "onewifi_cb" => {r} \subseteq applied'
    BY <1>1
  <2>4. t \notin {"channel_pref_query", "get_link_quality_report"} /\ {r} # {AlEm}
    BY <1>2, EmsFacts
  <2>. QED  BY <1>2, <2>1, <2>2, <2>3, <2>4 DEF CmdOK, Seen
<1>5. Grows
  BY <1>1 DEF Grows
<1>6. Queues' /\ pending' \in Seq(Command)
  BY <1>1, <1>2, <1>4, <1>5, SubmitKeeps
<1>7. Working' /\ Synced'
  BY <1>1, <1>5, StatesStay DEF ctrl, IInv
<1>8. TypeOK'
  <2>1. \A i \in DOMAIN pending' : pending'[i].type \in Type /\ pending'[i].ems \subseteq Ems
    BY <1>6, QueueElements
  <2>. QED  BY <1>1, <2>1 DEF IInv, Typed, TypeOK, ctrl
<1>. QED  BY <1>1, <1>6, <1>7, <1>8 DEF IInv, Typed

-----------------------------------------------------------------------------
(* The tick.                                                               *)

LEMMA PromoteStep ==
    ASSUME IInv, NEW i \in DOMAIN pending, Promote(i)
    PROVE  IInv' /\ Work!Start(pending[i].ems)
<1>. PICK t, S : t = pending[i].type /\ S = pending[i].ems
  OBVIOUS
<1>1. /\ pending \in Seq(Command) /\ i \in 1..Len(pending)
      /\ pending' = [j \in 1..(Len(pending) - 1) |-> pending[IF j < i THEN j ELSE j + 1]]
      /\ orch' = [e \in Ems |-> IF e \in S THEN "pending" ELSE orch[e]]
      /\ cmd' = [e \in Ems |-> IF e \in S THEN t ELSE cmd[e]]
      /\ \A e \in S : orch[e] = "idle"
      /\ UNCHANGED <<st, bus, m2, known, answered, applied, bystander, blind>>
  BY DEF Promote, Eligible, IInv, Typed, ctrl, history
<1>2. /\ CmdOK(t, S, applied, blind) /\ t \in Type /\ t # "none"
      /\ S \subseteq Ems /\ S # {} /\ \A e \in S : Group(t, e) = S
  BY EmsFacts, GroupFacts DEF IInv, Queues, CmdOK, Type, Group
<1>3. /\ \A j \in 1..(Len(pending) - 1) :
            (IF j < i THEN j ELSE j + 1) \in 1..Len(pending)
      /\ Len(pending) - 1 \in Nat
  BY <1>1
<1>4. pending' \in Seq(Command)
  <2>1. \A j \in 1..(Len(pending) - 1) : pending[IF j < i THEN j ELSE j + 1] \in Command
    BY <1>1, <1>3, ElementOfSeq
  <2>. QED  BY <1>1, <1>3, <2>1, IsASeq
<1>5. \A j \in DOMAIN pending' : CmdOK(pending'[j].type, pending'[j].ems, applied', blind')
  BY <1>1, <1>3 DEF IInv, Queues
<1>6. \A e \in Ems : cmd'[e] # "none" => Together(e)'
  <2>. SUFFICES ASSUME NEW e \in Ems, cmd'[e] # "none" PROVE Together(e)'
    OBVIOUS
  <2>1. CASE e \in S
    <3>1. cmd'[e] = t /\ Group(t, e) = S
      BY <1>1, <1>2, <2>1
    <3>2. \A f \in S : cmd'[f] = t
      BY <1>1, <1>2
    <3>. QED  BY <1>1, <1>2, <2>1, <3>1, <3>2 DEF Together
  <2>2. CASE e \notin S
    <3>1. cmd'[e] = cmd[e] /\ cmd[e] # "none" /\ Together(e)
      BY <1>1, <2>2 DEF IInv, Queues
    <3>2. \A f \in Group(cmd[e], e) : f \in Ems /\ cmd[f] = cmd[e] /\ f \notin S
      BY <1>1, <3>1, GroupFacts DEF Together, IInv, Typed, TypeOK
    <3>3. \A f \in Group(cmd[e], e) : cmd'[f] = cmd[e]
      BY <1>1, <3>2
    <3>. QED  BY <1>1, <3>1, <3>3 DEF Together
  <2>. QED  BY <2>1, <2>2
<1>7. Queues'
  BY <1>5, <1>6 DEF Queues
<1>8. Working' /\ Synced'
  BY <1>1, EmsFacts DEF IInv, Working, Synced, Seen
<1>9. TypeOK'
  <2>1. \A j \in DOMAIN pending' : pending'[j].type \in Type /\ pending'[j].ems \subseteq Ems
    BY <1>4, QueueElements
  <2>2. /\ orch' \in [Ems -> {"idle", "pending", "progress", "fini"}]
        /\ cmd' \in [Ems -> Type \cup {"none"}]
        /\ \A e \in Ems : cmd'[e] = "none" <=> orch'[e] = "idle"
    BY <1>1, <1>2 DEF IInv, Typed, TypeOK
  <2>. QED  BY <1>1, <2>1, <2>2 DEF IInv, Typed, TypeOK
<1>10. Work!Start(S)
  <2>1. group' = [e \in Ems |-> IF e \in S THEN S ELSE group[e]]
    BY <1>1, <1>2 DEF group
  <2>. QED  BY <1>1, <1>2, <2>1 DEF Work!Start
<1>. QED  BY <1>1, <1>4, <1>7, <1>8, <1>9, <1>10 DEF IInv, Typed

\* The state a command puts its em into: one of the search, or one past the
\* topology response of an agent all of whose radios were seen.
LEMMA ExecuteStates ==
    ASSUME IInv, NEW e \in Ems, cmd[e] # "none", is_em_ready_for_orch_exec(e)
    PROVE  LET s == ExecState(cmd[e], st[e]) IN
           /\ s \in State /\ s # "wsc_m2_processed"
           /\ s \in Late => Seen
           /\ s = "onewifi_bssconfig_ind" => e \notin Radios \/ e \in applied \cup blind
           /\ s = "autoconfig_renew_pending" => e \in Radios
           /\ s = "autoconfig_renew_pending" => cmd[e] = "cfg_renew" \/ e \in applied \cup blind
<1>1. /\ cmd[e] \in Type /\ st[e] \in State /\ st[e] # "wsc_m2_processed"
      /\ CmdOK(cmd[e], Group(cmd[e], e), applied, blind) /\ e \in Group(cmd[e], e)
      /\ st[e] \in Late => Seen
  BY DEF IInv, Typed, TypeOK, Queues, Together, Working, Synced
<1>2. CASE cmd[e] = "dev_init"
  BY <1>2, Landmarks DEF ExecState, Late
<1>3. CASE cmd[e] = "cfg_renew"
  <2>1. e \in Radios
    BY <1>1, <1>3 DEF CmdOK, Group, Ems
  <2>. QED  BY <1>3, <2>1, Landmarks DEF ExecState, Late
<1>4. CASE cmd[e] = "onewifi_cb"
  <2>1. e \in applied
    BY <1>1, <1>4 DEF CmdOK, Group
  <2>. QED  BY <1>4, <2>1, Landmarks DEF ExecState, Late
<1>5. CASE cmd[e] = "channel_pref_query"
  <2>1. st[e] \in Late
    BY <1>1, <1>5, ReachedLate DEF is_em_ready_for_orch_exec
  <2>. QED  BY <1>1, <1>5, <2>1, Landmarks DEF ExecState, Late
<1>6. CASE cmd[e] = "op_channel_report"
  <2>1. Seen
    BY <1>1, <1>6 DEF CmdOK, Seen
  <2>. QED  BY <1>6, <2>1, Landmarks DEF ExecState, Late
<1>7. CASE cmd[e] \in {"sta_list", "beacon_report", "get_link_quality_report"}
  <2>1. Seen
    BY <1>1, <1>7, ReachedLate DEF is_em_ready_for_orch_exec
  <2>. QED  BY <1>7, <2>1, Landmarks DEF ExecState, Late
<1>8. CASE cmd[e] \in {"unassoc_sta_result", "sta_link_metrics", "btm_report", "scan_result"}
  <2>1. st[e] \in Late
    BY <1>8 DEF is_em_ready_for_orch_exec, Late
  <2>2. Seen
    BY <1>1, <2>1
  <2>. QED  BY <1>8, <2>2, Landmarks DEF ExecState, Late
<1>. QED  BY <1>1, <1>2, <1>3, <1>4, <1>5, <1>6, <1>7, <1>8 DEF Type

LEMMA ExecuteStep ==
    ASSUME IInv, NEW e \in Ems, Execute(e)
    PROVE  IInv' /\ Work!Execute(e)
<1>. PICK s : s = ExecState(cmd[e], st[e])
  OBVIOUS
<1>1. /\ orch[e] = "pending" /\ orch' = [orch EXCEPT ![e] = "progress"]
      /\ st' = [st EXCEPT ![e] = s]
      /\ bystander' = bystander \ {e}
      /\ blind' = IF cmd[e] = "cfg_renew" /\ e \notin applied THEN blind \cup {e} ELSE blind
      /\ UNCHANGED <<cmd, pending, bus, m2, known, answered, applied>>
  BY DEF Execute, ctrl
<1>2. TypeOK
  BY DEF IInv, Typed
<1>3. cmd[e] # "none"
  BY <1>1, <1>2 DEF TypeOK
<1>4. /\ s \in State /\ s # "wsc_m2_processed"
      /\ s \in Late => Seen
      /\ s = "onewifi_bssconfig_ind" => e \notin Radios \/ e \in applied \cup blind
      /\ s = "autoconfig_renew_pending" => cmd[e] = "cfg_renew" \/ e \in applied \cup blind
  BY <1>3, ExecuteStates DEF Execute
<1>5. cmd[e] = "cfg_renew" => e \in Radios
  BY <1>3 DEF IInv, Queues, Together, CmdOK, Group, Ems
<1>6. Grows
  BY <1>1 DEF Grows
<1>7. Queues'
  BY <1>1, <1>6, QueuesStay DEF IInv
<1>8. Working'
  BY <1>1, <1>2, <1>4, EmsFacts DEF IInv, Working, TypeOK
<1>9. Synced'
  <2>1. Seen => Seen'
    BY <1>6 DEF Seen, Grows
  <2>2. \A f \in Ems : st'[f] \in Late => Seen
    BY <1>1, <1>2, <1>4 DEF IInv, Synced, TypeOK
  <2>3. \A r \in Radios : st'[r] \in Ready => r \in applied' \cup blind'
    <3>. SUFFICES ASSUME NEW r \in Radios, st'[r] \in Ready PROVE r \in applied' \cup blind'
      OBVIOUS
    <3>1. CASE r = e
      BY <1>1, <1>2, <1>4, <3>1 DEF TypeOK, Ready
    <3>2. CASE r # e
      BY <1>1, <1>2, <3>2, EmsFacts DEF TypeOK, IInv, Synced
    <3>. QED  BY <3>1, <3>2
  <2>. QED  BY <1>1, <2>1, <2>2, <2>3 DEF IInv, Synced
<1>10. TypeOK'
  BY <1>1, <1>2, <1>3, <1>4, <1>5 DEF TypeOK
<1>11. Work!Execute(e)
  BY <1>1 DEF Work!Execute, group
<1>. QED  BY <1>1, <1>7, <1>8, <1>9, <1>10, <1>11 DEF IInv, Typed

LEMMA FinishStep ==
    ASSUME IInv, NEW e \in Ems, Finish(e)
    PROVE  IInv' /\ Work!Finish({e})
<1>1. /\ orch[e] = "progress" /\ is_em_ready_for_orch_fini(e)
      /\ orch' = [orch EXCEPT ![e] = "fini"]
      /\ UNCHANGED <<st, cmd, pending, bus, m2, known, answered, applied, bystander, blind>>
  BY DEF Finish, ctrl, history
<1>2. TypeOK /\ st[e] \in State /\ cmd[e] \in Type
  BY <1>1 DEF IInv, Typed, TypeOK
<1>3. st[e] \notin Early
  <2>1. st[e] # "wsc_m2_processed"
    BY DEF IInv, Working
  <2>2. CASE cmd[e] \in {"dev_init", "cfg_renew"}
    <3>1. st[e] = "owconfig_pending" \/ st[e] \in Late
      BY <1>1, <1>2, <2>1, <2>2, ReachedLate DEF is_em_ready_for_orch_fini
    <3>. QED  BY <3>1 DEF Early, Late
  <2>3. CASE cmd[e] \notin {"dev_init", "cfg_renew"}
    BY <1>1, <2>3 DEF is_em_ready_for_orch_fini, Early
  <2>. QED  BY <2>2, <2>3
<1>4. Grows
  BY <1>1 DEF Grows
<1>5. Queues'
  BY <1>1, <1>4, QueuesStay DEF IInv
<1>6. Working' /\ Synced'
  BY <1>1, <1>2, <1>3, EmsFacts DEF IInv, Working, Synced, Seen, TypeOK
<1>7. TypeOK'
  BY <1>1, <1>2 DEF TypeOK
<1>8. Work!Finish({e})
  <2>1. orch' = [f \in Ems |-> IF f \in {e} THEN "fini" ELSE orch[f]]
    BY <1>1, <1>2 DEF TypeOK
  <2>. QED  BY <1>1, <2>1 DEF Work!Finish, group
<1>. QED  BY <1>1, <1>5, <1>6, <1>7, <1>8 DEF IInv, Typed

LEMMA ReleaseStep ==
    ASSUME IInv, NEW e \in Ems, Release(e)
    PROVE  IInv' /\ Group(cmd[e], e) \in SUBSET Ems /\ Work!Release(Group(cmd[e], e))
<1>. PICK t, S : t = cmd[e] /\ S = Group(cmd[e], e)
  OBVIOUS
<1>1. /\ cmd[e] # "none" /\ \A f \in S : orch[f] = "fini"
      /\ orch' = [f \in Ems |-> IF f \in S THEN "idle" ELSE orch[f]]
      /\ cmd' = [f \in Ems |-> IF f \in S THEN "none" ELSE cmd[f]]
      /\ UNCHANGED <<st, pending, bus, m2, known, answered, applied, bystander, blind>>
  BY DEF Release, ctrl, history
<1>2. TypeOK
  BY DEF IInv, Typed
<1>3. /\ S \in SUBSET Ems /\ e \in S
      /\ \A f \in S : cmd[f] = t /\ Group(t, f) = S
  BY <1>1, GroupFacts DEF IInv, Queues, Together
<1>4. \A f \in Ems : cmd'[f] # "none" => Together(f)'
  <2>. SUFFICES ASSUME NEW f \in Ems, cmd'[f] # "none" PROVE Together(f)'
    OBVIOUS
  <2>1. f \notin S /\ cmd'[f] = cmd[f] /\ cmd[f] # "none"
    BY <1>1
  <2>2. Together(f)
    BY <2>1 DEF IInv, Queues
  <2>3. \A g \in Group(cmd[f], f) : g \in Ems /\ g \notin S
    <3>. SUFFICES ASSUME NEW g \in Group(cmd[f], f) PROVE g \in Ems /\ g \notin S
      OBVIOUS
    <3>1. g \in Ems /\ cmd[g] = cmd[f] /\ Group(cmd[f], g) = Group(cmd[f], f) /\ f \in Group(cmd[f], f)
      BY <2>2, GroupFacts DEF Together
    <3>. QED  BY <1>3, <2>1, <3>1
  <2>4. \A g \in Group(cmd[f], f) : cmd'[g] = cmd[f]
    BY <1>1, <2>2, <2>3 DEF Together
  <2>. QED  BY <1>1, <2>1, <2>2, <2>4 DEF Together
<1>5. Queues'
  BY <1>1, <1>4 DEF IInv, Queues
<1>6. Working' /\ Synced'
  BY <1>1, <1>2, EmsFacts DEF IInv, Working, Synced, Seen, TypeOK
<1>7. TypeOK'
  BY <1>1, <1>2 DEF TypeOK
<1>8. Work!Release(S)
  <2>1. \A f \in S : group[f] = S
    BY <1>1, <1>3 DEF group
  <2>2. group' = [f \in Ems |-> IF f \in S THEN {} ELSE group[f]]
    BY <1>1 DEF group
  <2>. QED  BY <1>1, <1>3, <2>1, <2>2 DEF Work!Release
<1>. QED  BY <1>1, <1>3, <1>5, <1>6, <1>7, <1>8 DEF IInv, Typed

\* What a cancellation leaves of m_pending are commands that were there.
LEMMA DropKeeps ==
    ASSUME IInv, NEW t, DropPending(t), UNCHANGED <<applied, blind>>
    PROVE  /\ pending' \in Seq(Command)
           /\ \A i \in DOMAIN pending' : CmdOK(pending'[i].type, pending'[i].ems, applied', blind')
<1>. PICK kept : kept = {i \in DOMAIN pending : pending[i].type # t}
  OBVIOUS
<1>1. pending \in Seq(Command) /\ DOMAIN pending = 1..Len(pending) /\ Len(pending) \in Nat
  BY DEF IInv, Typed
<1>2. kept \subseteq DOMAIN pending /\ Cardinality(kept) \in Nat
  <2>1. kept \subseteq 1..Len(pending)
    BY <1>1
  <2>2. IsFiniteSet(1..Len(pending))
    BY <1>1, FS_Interval
  <2>. QED  BY <1>1, <2>1, <2>2, FS_Subset, FS_CardinalityType
<1>3. PICK f \in [1..Cardinality(kept) -> kept] : pending' = [k \in DOMAIN f |-> pending[f[k]]]
  BY DEF DropPending
<1>4. \A k \in 1..Cardinality(kept) : f[k] \in DOMAIN pending /\ pending'[k] = pending[f[k]]
  BY <1>2, <1>3
<1>5. pending' \in Seq(Command)
  <2>1. \A k \in 1..Cardinality(kept) : pending[f[k]] \in Command
    BY <1>1, <1>4, ElementOfSeq
  <2>2. pending' = [k \in 1..Cardinality(kept) |-> pending[f[k]]]
    BY <1>3
  <2>. QED  BY <1>2, <2>1, <2>2, IsASeq
<1>6. \A i \in DOMAIN pending' : CmdOK(pending'[i].type, pending'[i].ems, applied', blind')
  BY <1>3, <1>4 DEF IInv, Queues
<1>. QED  BY <1>5, <1>6

LEMMA TimeoutStep ==
    ASSUME IInv, NEW e \in Ems, CommandTimeout(e)
    PROVE  IInv' /\ \E S \in SUBSET Ems : Work!Finish(S)
<1>. PICK S : S = {f \in Ems : cmd[f] = cmd[e]}
  OBVIOUS
<1>1. /\ orch[e] # "idle"
      /\ orch' = [f \in Ems |-> IF f \in S THEN "fini" ELSE orch[f]]
      /\ DropPending(cmd[e])
      /\ st' = [st EXCEPT ![e] = IF Reached(e, "topo_synchronized")
                                 THEN "topo_synchronized" ELSE "unconfigured"]
      /\ bystander' = bystander \cup (S \ {e})
      /\ UNCHANGED <<cmd, bus, m2, known, answered, applied, blind>>
  BY DEF CommandTimeout, orch_transient, ctrl
<1>2. TypeOK /\ st[e] \in State
  BY DEF IInv, Typed, TypeOK
<1>3. cmd[e] # "none" /\ S \in SUBSET Ems /\ e \in S /\ \A f \in S : orch[f] # "idle"
  BY <1>1, <1>2 DEF TypeOK
<1>4. /\ pending' \in Seq(Command)
      /\ \A i \in DOMAIN pending' : CmdOK(pending'[i].type, pending'[i].ems, applied', blind')
  <2>. PICK t : t = cmd[e]
    OBVIOUS
  <2>. QED  BY <1>1, DropKeeps
<1>5. Queues'
  BY <1>1, <1>4 DEF IInv, Queues, Together
<1>6. st' \in [Ems -> State] /\ st'[e] \in {"topo_synchronized", "unconfigured"}
      /\ (st'[e] = "topo_synchronized" => st[e] \in Late) /\ \A f \in Ems : f # e => st'[f] = st[f]
  BY <1>1, <1>2, ReachedLate, Landmarks DEF TypeOK, Late
<1>7. Working'
  BY <1>1, <1>3, <1>6, EmsFacts DEF IInv, Working, Early
<1>8. Synced'
  <2>1. \A f \in Ems : st'[f] \in Late => Seen
    BY <1>6 DEF IInv, Synced, Late
  <2>2. \A r \in Radios : st'[r] \in Ready => r \in applied \cup blind
    BY <1>6, EmsFacts DEF IInv, Synced, Ready
  <2>. QED  BY <1>1, <2>1, <2>2 DEF IInv, Synced, Seen
<1>9. TypeOK'
  <2>1. \A j \in DOMAIN pending' : pending'[j].type \in Type /\ pending'[j].ems \subseteq Ems
    BY <1>4, QueueElements
  <2>2. /\ orch' \in [Ems -> {"idle", "pending", "progress", "fini"}]
        /\ \A f \in Ems : cmd'[f] = "none" <=> orch'[f] = "idle"
    BY <1>1, <1>2, <1>3 DEF TypeOK
  <2>. QED  BY <1>1, <1>2, <1>3, <1>6, <2>1, <2>2 DEF TypeOK
<1>10. Work!Finish(S)
  BY <1>1, <1>3 DEF Work!Finish, group
<1>. QED  BY <1>1, <1>3, <1>4, <1>5, <1>8, <1>7, <1>9, <1>10 DEF IInv, Typed

-----------------------------------------------------------------------------
(* The threads of the ems and the messages of the controller: they leave   *)
(* the orchestrator alone and change states.                               *)

\* The states f the ems get, and the answers a the controller then has, keep
\* the invariant.
LEMMA StatesChange ==
    ASSUME IInv, UNCHANGED <<orch, cmd, pending, bus, applied, bystander, blind>>,
           st' \in [Ems -> State], m2' \subseteq known', known' \subseteq Radios,
           \A e \in Ems : st'[e] # st[e] =>
              /\ st'[e] # "wsc_m2_processed" /\ st'[e] \notin Ready
              /\ st'[e] \in Early => orch[e] = "progress" \/ st[e] \in Early
              /\ st'[e] \in Late => Seen,
           answered' # {} => Seen
    PROVE  IInv' /\ UNCHANGED <<orch, group>>
<1>1. Queues'
  BY QueuesStay DEF IInv, Grows
<1>2. Working'
  BY EmsFacts DEF IInv, Working
<1>3. Synced'
  <2>1. \A e \in Ems : st'[e] \in Late => Seen
    BY DEF IInv, Synced
  <2>2. \A r \in Radios : st'[r] \in Ready => r \in applied \cup blind
    BY EmsFacts DEF IInv, Synced
  <2>. QED  BY <2>1, <2>2 DEF Synced, Seen
<1>4. TypeOK'
  BY DEF IInv, Typed, TypeOK
<1>. QED  BY <1>1, <1>2, <1>3, <1>4 DEF IInv, Typed, group

LEMMA ThreadStep ==
    ASSUME IInv, NEW e \in Ems, Threads(e)
    PROVE  IInv' /\ UNCHANGED <<orch, group>>
<1>1. /\ TypeOK /\ orch[e] = "progress" /\ st[e] \in State /\ cmd[e] \in Type
      /\ UNCHANGED <<orch, cmd, pending, bus, applied, bystander, blind>>
  BY DEF IInv, Typed, TypeOK, Threads, SendSearch, handle_state_autoconfig_renew, SendReport,
         send_channel_pref_report_msg, handle_agent_state, M1Sent, agent, history
<1>2. /\ answered # {} => Seen
      /\ \A f \in Ems : st[f] \in Late => Seen
  BY DEF IInv, Synced
<1>3. CASE SendSearch(e)
  <2>1. st' = [st EXCEPT ![e] = "autoconfig_rsp_pending"] /\ UNCHANGED <<m2, known, answered>>
    BY <1>3 DEF SendSearch, ctrl
  <2>2. \A f \in Ems : st'[f] # st[f] => f = e /\ st'[f] = "autoconfig_rsp_pending"
    BY <1>1, <2>1 DEF TypeOK
  <2>3. st' \in [Ems -> State]
    BY <1>1, <2>1, Landmarks DEF TypeOK
  <2>. QED  BY <1>1, <1>2, <2>1, <2>2, <2>3, StatesChange DEF TypeOK, Early, Late, Ready
<1>4. CASE handle_state_autoconfig_renew(e)
  <2>1. e \in Radios
    <3>1. cmd[e] \in {"dev_init", "cfg_renew", "sta_list"}
      BY <1>4 DEF handle_state_autoconfig_renew, handle_agent_state, ConfigTypes
    <3>2. CmdOK(cmd[e], Group(cmd[e], e), applied, blind) /\ e \in Group(cmd[e], e)
      BY <3>1 DEF IInv, Queues, Together
    <3>. QED  BY <3>1, <3>2 DEF CmdOK, Group, Ems
  <2>2. /\ st' = [st EXCEPT ![e] = "wsc_m2_pending"] /\ answered' = answered
        /\ m2' \subseteq known' /\ known' \subseteq Radios
    BY <1>1, <1>4, <2>1 DEF handle_state_autoconfig_renew, M1Sent, TypeOK
  <2>3. \A f \in Ems : st'[f] # st[f] => f = e /\ st'[f] = "wsc_m2_pending"
    BY <1>1, <2>2 DEF TypeOK
  <2>4. st' \in [Ems -> State]
    BY <1>1, <2>2, Landmarks DEF TypeOK
  <2>. QED  BY <1>1, <1>2, <2>2, <2>3, <2>4, StatesChange DEF Early, Late, Ready
<1>5. CASE SendReport(e)
  <2>1. st[e] \in Works(cmd[e]) /\ st' = [st EXCEPT ![e] = Reported[@]] /\ UNCHANGED <<m2, known>>
    BY <1>5 DEF SendReport, handle_agent_state
  <2>2. st[e] \in DOMAIN Reported /\ st[e] \in Late
    BY <2>1 DEF Works, Reported, Late
  <2>3. Reported[st[e]] \in {"beacon_report_complete", "configured"}
    BY <2>2 DEF Reported
  <2>4. Seen
    BY <1>2, <2>2
  <2>5. \A f \in Ems : st'[f] # st[f] => st'[f] \in {"beacon_report_complete", "configured"}
    BY <1>1, <2>1, <2>3 DEF TypeOK
  <2>6. st' \in [Ems -> State]
    BY <1>1, <2>1, <2>3, Landmarks DEF TypeOK, Late
  <2>. QED  BY <1>1, <2>1, <2>4, <2>5, <2>6, StatesChange DEF TypeOK, Early, Late, Ready
<1>6. CASE send_channel_pref_report_msg(e)
  <2>1. /\ st[e] = "channel_pref_query" /\ UNCHANGED <<m2, known>>
        /\ st' = [st EXCEPT ![e] = "channel_selection_pending"]
    BY <1>6 DEF send_channel_pref_report_msg, handle_agent_state
  <2>2. Seen
    BY <1>2, <2>1 DEF Late
  <2>3. \A f \in Ems : st'[f] # st[f] => st'[f] = "channel_selection_pending"
    BY <1>1, <2>1 DEF TypeOK
  <2>4. st' \in [Ems -> State]
    BY <1>1, <2>1, Landmarks DEF TypeOK, Late
  <2>. QED  BY <1>1, <2>1, <2>2, <2>3, <2>4, StatesChange DEF TypeOK, Early, Late, Ready
<1>. QED  BY <1>3, <1>4, <1>5, <1>6 DEF Threads

\* The controller's messages that put the radio r, or all ems, into state s.
LEMMA AnswerKeeps ==
    ASSUME IInv, UNCHANGED <<orch, cmd, pending, bus, m2, known, applied, bystander, blind>>,
           NEW s \in Late, Seen, st' \in [Ems -> State],
           \A e \in Ems : st'[e] # st[e] => st'[e] = s
    PROVE  IInv' /\ UNCHANGED <<orch, group>>
<1>1. s # "wsc_m2_processed" /\ s \notin Ready /\ s \notin Early
  BY DEF Late, Ready, Early
<1>2. m2' \subseteq known' /\ known' \subseteq Radios
  BY DEF IInv, Typed, TypeOK
<1>. QED  BY <1>1, <1>2, StatesChange

\* An answer means that the radios have been seen: the topology query, which is
\* the first, finds them all ready.
LEMMA AllReadySeen ==
    ASSUME IInv, AllReady
    PROVE  Seen
<1>1. \A r \in Radios : st[r] \in Late \cup Ready
  BY EmsFacts, ReachedLate DEF AllReady, IInv, Typed, TypeOK, Working
<1>2. CASE \E r \in Radios : st[r] \in Late
  BY <1>2, EmsFacts DEF IInv, Synced
<1>3. CASE \A r \in Radios : st[r] \notin Late
  <2>1. \A r \in Radios : r \in applied \cup blind
    BY <1>1, <1>3 DEF IInv, Synced
  <2>. QED  BY <2>1 DEF Seen
<1>. QED  BY <1>2, <1>3

LEMMA QueryStep ==
    ASSUME IInv,
           \/ send_topology_response_msg \/ send_ap_cap_report_msg
           \/ \E r \in Radios : handle_channel_sel_req(r) \/ handle_sta_query(r)
    PROVE  IInv' /\ UNCHANGED <<orch, group>>
<1>1. /\ st \in [Ems -> State]
      /\ answered # {} => Seen
      /\ UNCHANGED <<orch, cmd, pending, bus, m2, known, applied, bystander, blind>>
  BY DEF IInv, Typed, TypeOK, Synced, send_topology_response_msg, send_ap_cap_report_msg,
         handle_channel_sel_req, handle_sta_query, agent, ctrl
<1>2. CASE send_topology_response_msg
  <2>1. Seen /\ st' = [e \in Ems |-> "topo_synchronized"]
    BY <1>2, AllReadySeen DEF send_topology_response_msg
  <2>2. "topo_synchronized" \in Late
    BY DEF Late
  <2>. QED  BY <1>1, <2>1, <2>2, Landmarks, AnswerKeeps
<1>3. CASE send_ap_cap_report_msg
  <2>1. Seen /\ st' = [e \in Ems |-> "ap_cap_report"]
    BY <1>1, <1>3 DEF send_ap_cap_report_msg
  <2>2. "ap_cap_report" \in Late
    BY DEF Late
  <2>. QED  BY <1>1, <2>1, <2>2, Landmarks, AnswerKeeps
<1>4. ASSUME NEW r \in Radios, handle_channel_sel_req(r)
      PROVE  IInv' /\ UNCHANGED <<orch, group>>
  <2>1. Seen /\ st' = [st EXCEPT ![r] = "channel_select_configuration_pending"]
    BY <1>1, <1>4 DEF handle_channel_sel_req
  <2>2. "channel_select_configuration_pending" \in Late
    BY DEF Late
  <2>. QED  BY <1>1, <2>1, <2>2, EmsFacts, Landmarks, AnswerKeeps
<1>5. ASSUME NEW r \in Radios, handle_sta_query(r)
      PROVE  IInv' /\ UNCHANGED <<orch, group>>
  <2>1. Seen /\ st' = [st EXCEPT ![r] = "configured"]
    BY <1>1, <1>5 DEF handle_sta_query
  <2>2. "configured" \in Late
    BY DEF Late
  <2>. QED  BY <1>1, <2>1, <2>2, EmsFacts, Landmarks, AnswerKeeps
<1>. QED  BY <1>2, <1>3, <1>4, <1>5

LEMMA AutoconfigStep ==
    ASSUME IInv, NEW r \in Radios, handle_autoconfig_resp(r) \/ handle_autoconfig_wsc_m2(r)
    PROVE  IInv' /\ UNCHANGED <<orch, group>>
<1>1. /\ st \in [Ems -> State] /\ m2 \subseteq known /\ known \subseteq Radios
      /\ answered # {} => Seen
      /\ UNCHANGED <<orch, cmd, pending, bus, answered, applied, bystander, blind>>
  BY DEF IInv, Typed, TypeOK, Synced, handle_autoconfig_resp, handle_autoconfig_wsc_m2, M1Sent,
         agent, history
<1>2. CASE handle_autoconfig_resp(r)
  <2>1. /\ st[r] \in Early /\ st' = [st EXCEPT ![r] = "wsc_m2_pending"]
        /\ m2' \subseteq known' /\ known' \subseteq Radios
    BY <1>1, <1>2 DEF handle_autoconfig_resp, M1Sent, Early
  <2>2. \A f \in Ems : st'[f] # st[f] => f = r /\ st'[f] = "wsc_m2_pending"
    BY <1>1, <2>1
  <2>3. st' \in [Ems -> State]
    BY <1>1, <2>1, Landmarks
  <2>. QED  BY <1>1, <2>1, <2>2, <2>3, StatesChange DEF Late, Ready
<1>3. CASE handle_autoconfig_wsc_m2(r)
  <2>1. /\ m2' \subseteq known' /\ known' \subseteq Radios
        /\ st' = st \/ st' = [st EXCEPT ![r] = "owconfig_pending"]
    BY <1>1, <1>3 DEF handle_autoconfig_wsc_m2
  <2>2. \A f \in Ems : st'[f] # st[f] => st'[f] = "owconfig_pending"
    BY <1>1, <2>1
  <2>3. st' \in [Ems -> State]
    BY <1>1, <2>1, Landmarks
  <2>. QED  BY <1>1, <2>1, <2>2, <2>3, StatesChange DEF Early, Late, Ready
<1>. QED  BY <1>2, <1>3

LEMMA ForwardStep ==
    ASSUME IInv, handle_channel_pref_query \/ \E r \in Radios : handle_autoconfig_renew(r)
    PROVE  IInv' /\ UNCHANGED <<orch, group>>
<1>1. /\ UNCHANGED <<st, orch, cmd, pending, m2, known, answered, applied, bystander, blind>>
      /\ \/ bus' = Append(bus, [type |-> "channel_pref_query", em |-> AlEm])
         \/ \E r \in Radios : bus' = Append(bus, [type |-> "cfg_renew", em |-> r])
  BY DEF handle_channel_pref_query, handle_autoconfig_renew, ctrl
<1>2. bus' \in Seq(BusEvent)
  <2>1. bus \in Seq(BusEvent)
    BY DEF IInv, Typed
  <2>2. /\ [type |-> "channel_pref_query", em |-> AlEm] \in BusEvent
        /\ \A r \in Radios : [type |-> "cfg_renew", em |-> r] \in BusEvent
    BY DEF BusEvent
  <2>3. PICK b \in BusEvent : bus' = Append(bus, b)
    BY <1>1, <2>2
  <2>. QED  BY <2>1, <2>3, AppendProperties
<1>3. Queues' /\ Working' /\ Synced'
  <2>1. Grows
    BY <1>1 DEF Grows
  <2>. QED  BY <1>1, <2>1, QueuesStay, StatesStay DEF IInv
<1>4. TypeOK'
  <2>1. \A b \in BusEvent : b.em \in Ems
    BY QueueElements, EmsFacts
  <2>2. \A i \in DOMAIN bus' : bus'[i].em \in Ems
    BY <1>2, <2>1, ElementOfSeq
  <2>. QED  BY <1>1, <2>2 DEF IInv, Typed, TypeOK
<1>. QED  BY <1>1, <1>2, <1>3, <1>4 DEF IInv, Typed, group

-----------------------------------------------------------------------------
(* The theorems.                                                           *)

LEMMA StepWorks == IInv /\ [Next]_vars => IInv' /\ [Work!Next]_<<orch, group>>
<1>. SUFFICES ASSUME IInv, [Next]_vars PROVE IInv' /\ [Work!Next]_<<orch, group>>
  OBVIOUS
<1>1. CASE UNCHANGED vars
  BY <1>1, QueuesStay, StatesStay
     DEF vars, ctrl, history, Grows, IInv, Typed, TypeOK, group
<1>2. CASE HandleEvent
  BY <1>2, EventStep DEF HandleEvent, group
<1>3. ASSUME NEW i \in DOMAIN pending, Promote(i)
      PROVE  IInv' /\ Work!Next
  <2>1. pending[i].ems \in SUBSET Ems
    BY DEF IInv, Typed, TypeOK
  <2>. QED  BY <1>3, <2>1, PromoteStep DEF Work!Next
<1>4. ASSUME NEW e \in Ems, Execute(e) \/ Finish(e) \/ Release(e) \/ CommandTimeout(e)
      PROVE  IInv' /\ Work!Next
  <2>1. CASE Execute(e)
    BY <2>1, ExecuteStep DEF Work!Next
  <2>2. CASE Finish(e)
    <3>1. {e} \in SUBSET Ems
      OBVIOUS
    <3>. QED  BY <2>2, <3>1, FinishStep DEF Work!Next
  <2>3. CASE Release(e)
    BY <2>3, ReleaseStep DEF Work!Next
  <2>4. CASE CommandTimeout(e)
    BY <2>4, TimeoutStep DEF Work!Next
  <2>. QED  BY <1>4, <2>1, <2>2, <2>3, <2>4
<1>5. ASSUME NEW e \in Ems, NEW t \in Type, Operation(t, e)
      PROVE  IInv' /\ UNCHANGED <<orch, group>>
  BY <1>5, OperationStep DEF Operation, group
<1>6. ASSUME NEW r \in Radios, OneWifi(r)
      PROVE  IInv' /\ UNCHANGED <<orch, group>>
  BY <1>6, OneWifiStep DEF OneWifi, OneWifiConfigured, OneWifiChannel, group
<1>7. ASSUME NEW e \in Ems, Threads(e)
      PROVE  IInv' /\ UNCHANGED <<orch, group>>
  BY <1>7, ThreadStep
<1>8. ASSUME Controller \/ \E r \in Radios : handle_sta_query(r) \/ handle_autoconfig_renew(r)
      PROVE  IInv' /\ UNCHANGED <<orch, group>>
  BY <1>8, QueryStep, AutoconfigStep, ForwardStep DEF Controller
<1>. QED  BY <1>1, <1>2, <1>3, <1>4, <1>5, <1>6, <1>7, <1>8 DEF Next, Tick

\* Queues, Working and Synced hold in every state the agent can reach.
THEOREM AgentInvariance == Spec => []IInv
<1>1. IInv /\ [Next]_vars => IInv'
  BY StepWorks
<1>. QED  BY InitInv, <1>1, PTL DEF Spec

\* For any number of radios the agent's state keeps its types: an em has a
\* command exactly when it is not idle (em_t::m_cmd, m_orch_state).
THEOREM AgentTypeCorrect == Spec => []TypeOK
<1>1. IInv => TypeOK
  BY DEF IInv, Typed
<1>. QED  BY <1>1, AgentInvariance, PTL

\* Whatever is lost, repeated or overtaken, a radio without a command accepts a
\* renew, unless another em's time limit took its command away.
THEOREM RenewRecovers == Spec => []Recoverable
<1>1. IInv => Recoverable
  BY DEF IInv, Working, Recoverable, RefusesRenew, Early
<1>. QED  BY <1>1, AgentInvariance, PTL

\* No order of the radios' M2s, OneWifi's callbacks and the controller's queries
\* takes a radio past the topology response before OneWifi configured it, unless
\* it was renewed before.
THEOREM ConfiguredWasApplied == Spec => []ConfiguredIsApplied
<1>1. IInv => ConfiguredIsApplied
  BY EmsFacts, ReachedLate DEF IInv, Typed, TypeOK, Synced, Seen, ConfiguredIsApplied
<1>. QED  BY <1>1, AgentInvariance, PTL

\* The agent's radios and AL em, with their threads, time limits and the
\* controller's messages, implement EmWork: what AgentRadio keeps of the
\* orchestrator is what EmOrch promises.
THEOREM AgentWorks == Spec => WorksTogether
<1>1. Init => Work!Init
  BY DEF Init, Work!Init, group
<1>2. IInv /\ [Next]_vars => [Work!Next]_<<orch, group>>
  BY StepWorks
<1>. QED  BY <1>1, <1>2, AgentInvariance, PTL DEF Spec, WorksTogether, Work!Spec
=============================================================================
