--------------------------- MODULE CtrlRadioProofs ---------------------------
(***************************************************************************)
(* The controller's state machines of the radios of one agent, for any     *)
(* number of radios, M1 messages, commands, requests and answers.          *)
(***************************************************************************)
EXTENDS CtrlRadio, FiniteSetTheorems, SequenceTheorems, TLAPS

-----------------------------------------------------------------------------
(* Queues and commands.                                                    *)

\* The k-th of the commands that are kept exists: if no kept command had
\* exactly k - 1 others before it, two of them would have equally many.
LEMMA KthKept ==
    ASSUME NEW n \in Nat, NEW K \in SUBSET (1..n), NEW k \in 1..Cardinality(K)
    PROVE  /\ Cardinality(K) \in Nat
           /\ \E i \in K : Cardinality({j \in K : j < i}) = k - 1
<1>1. IsFiniteSet(1..n)
  BY FS_Interval
<1>2. IsFiniteSet(K) /\ Cardinality(K) \in Nat
  BY <1>1, FS_Subset, FS_CardinalityType
<1>3. PICK c : c = Cardinality(K)
  OBVIOUS
<1> DEFINE Before(i) == {j \in K : j < i}
           f == [i \in K |-> Cardinality(Before(i)) + 1]
<1>4. ASSUME NEW i \in K
      PROVE  IsFiniteSet(Before(i)) /\ Cardinality(Before(i)) \in Nat /\ Cardinality(Before(i)) < c
  <2>1. Before(i) \in SUBSET K /\ i \notin Before(i) /\ Before(i) # K
    <3>1. ~(i < i)
      OBVIOUS
    <3> QED BY <3>1
  <2>2. IsFiniteSet(Before(i)) /\ Cardinality(Before(i)) <= Cardinality(K)
        /\ (Cardinality(Before(i)) = Cardinality(K) => Before(i) = K)
    BY <1>2, <2>1, FS_Subset
  <2>3. Cardinality(Before(i)) \in Nat
    BY <2>2, FS_CardinalityType
  <2> QED BY <1>2, <1>3, <2>1, <2>2, <2>3
<1>5. ASSUME NEW i \in K, NEW j \in K, i < j
      PROVE  Cardinality(Before(i)) < Cardinality(Before(j))
  <2>0. /\ ~(i < i) /\ \A m \in K : m < i => m < j
    BY <1>5
  <2>1. Before(i) \in SUBSET Before(j) /\ i \in Before(j) /\ i \notin Before(i)
    BY <1>5, <2>0
  <2>2. Cardinality(Before(i)) <= Cardinality(Before(j))
        /\ (Cardinality(Before(i)) = Cardinality(Before(j)) => Before(i) = Before(j))
    BY <1>4, <2>1, FS_Subset
  <2> QED BY <1>4, <2>1, <2>2
<1>6. \A i, j \in K : f[i] = f[j] => i = j
  <2> SUFFICES ASSUME NEW i \in K, NEW j \in K, f[i] = f[j] PROVE i = j
    OBVIOUS
  <2>1. Cardinality(Before(i)) = Cardinality(Before(j))
    BY <1>4
  <2>2. i \in Int /\ j \in Int
    OBVIOUS
  <2>3. ~(i < j) /\ ~(j < i)
    BY <1>4, <1>5, <2>1
  <2> QED BY <2>2, <2>3
<1>7. \E i \in K : f[i] = k
  <2> SUFFICES ASSUME \A i \in K : f[i] # k PROVE FALSE
    OBVIOUS
  <2>1. IsFiniteSet(1..c) /\ Cardinality(1..c) = c /\ c \in Nat /\ k \in 1..c
    BY <1>2, <1>3, FS_Interval
  <2>2. PICK T : T = (1..c) \ {k}
    OBVIOUS
  <2>3. IsFiniteSet(T) /\ Cardinality(T) = c - 1
    BY <2>1, <2>2, FS_RemoveElement
  <2>4. f \in [K -> T]
    <3> SUFFICES ASSUME NEW i \in K PROVE Cardinality(Before(i)) + 1 \in T
      OBVIOUS
    <3>1. PICK d : d = Cardinality(Before(i))
      OBVIOUS
    <3>2. d \in Nat /\ d < c /\ d + 1 # k
      BY <1>4, <3>1
    <3>3. d + 1 \in 1..c
      BY <2>1, <3>2
    <3> QED BY <2>2, <3>1, <3>2, <3>3
  <2>5. Cardinality(T) < Cardinality(K)
    BY <1>3, <2>1, <2>3
  <2>6. PICK h : h = f
    OBVIOUS
  <2>7. h \in [K -> T] /\ \A i, j \in K : h[i] = h[j] => i = j
    BY <1>6, <2>4, <2>6
  <2> HIDE DEF f
  <2>8. \E x, y \in K : x # y /\ h[x] = h[y]
    <3>1. IsFiniteSet(K) /\ IsFiniteSet(T) /\ Cardinality(T) < Cardinality(K) /\ h \in [K -> T]
      BY <1>2, <2>3, <2>5, <2>7
    <3> QED BY <3>1, FS_PigeonHole
  <2> QED BY <2>7, <2>8
<1>8. PICK i \in K : f[i] = k
  BY <1>7
<1>9. Cardinality(Before(i)) = k - 1
  BY <1>2, <1>4, <1>8
<1> QED BY <1>2, <1>9

LEMMA WithoutTyped ==
    ASSUME NEW S, NEW q \in Seq(S), NEW t
    PROVE  Without(q, t) \in Seq(S)
<1>1. Len(q) \in Nat /\ DOMAIN q = 1..Len(q) /\ \A i \in 1..Len(q) : q[i] \in S
  BY LenProperties, ElementOfSeq
<1>2. PICK K : K = Kept(q, t)
  OBVIOUS
<1>3. K \in SUBSET (1..Len(q))
  BY <1>1, <1>2 DEF Kept
<1>4. IsFiniteSet(K) /\ Cardinality(K) \in Nat
  <2>1. IsFiniteSet(1..Len(q))
    BY <1>1, FS_Interval
  <2> QED BY <1>3, <2>1, FS_Subset, FS_CardinalityType
<1>5. ASSUME NEW k \in 1..Cardinality(K)
      PROVE  q[CHOOSE i \in K : Cardinality({j \in K : j < i}) = k - 1] \in S
  <2>1. \E i \in K : Cardinality({j \in K : j < i}) = k - 1
    BY <1>1, <1>3, KthKept
  <2>2. (CHOOSE i \in K : Cardinality({j \in K : j < i}) = k - 1) \in K
    BY <2>1
  <2> QED BY <1>1, <1>3, <2>2
<1>6. Without(q, t) = [k \in 1..Cardinality(K) |-> q[CHOOSE i \in K : Cardinality({j \in K : j < i}) = k - 1]]
  BY <1>2 DEF Without
<1> DEFINE g(k) == q[CHOOSE i \in K : Cardinality({j \in K : j < i}) = k - 1]
<1>7. \A k \in 1..Cardinality(K) : g(k) \in S
  BY <1>5
<1> HIDE DEF g
<1>8. [k \in 1..Cardinality(K) |-> g(k)] \in Seq(S)
  BY <1>4, <1>7
<1> QED BY <1>6, <1>8 DEF g

\* A chain is a sequence of commands.
LEMMA CommandsTyped ==
    ASSUME NEW c \in DOMAIN Chain
    PROVE  commands(c) \in Seq(Cmd)
<1>1. \E n \in Nat : DOMAIN Chain[c] = 1..n
  <2>1. /\ \A x : DOMAIN <<x>> = 1..1
        /\ \A x, y : DOMAIN <<x, y>> = 1..2
        /\ \A x, y, z : DOMAIN <<x, y, z>> = 1..3
        /\ \A t, u, v, w, x, y, z : DOMAIN <<t, u, v, w, x, y, z>> = 1..7
    OBVIOUS
  <2>2. \/ \E x : Chain[c] = <<x>>
        \/ \E x, y : Chain[c] = <<x, y>>
        \/ \E x, y, z : Chain[c] = <<x, y, z>>
        \/ \E t, u, v, w, x, y, z : Chain[c] = <<t, u, v, w, x, y, z>>
    BY DEF Chain
  <2> QED BY <2>1, <2>2
<1>2. PICK n \in Nat : DOMAIN Chain[c] = 1..n
  BY <1>1
<1>3. TypeOf(c) \in Type /\ \A i \in 1..n : Chain[c][i] \in Op
  BY <1>2 DEF Type, Op
<1>4. \A i \in 1..n : [type |-> TypeOf(c), op |-> Chain[c][i]] \in Cmd
  BY <1>3 DEF Cmd
<1>5. commands(c) = [i \in 1..n |-> [type |-> TypeOf(c), op |-> Chain[c][i]]]
  BY <1>2 DEF commands
<1> QED BY <1>4, <1>5

Types == {"em_config", "sta_assoc", "set_policy", "set_channel", "scan_channel", "cfg_renew",
          "set_ssid", "set_radio", "sta_link_metrics", "sta_steer", "sta_disassoc",
          "client_assoc_ctrl_req", "bsta_cap", "unassoc_sta_query", "beacon_query"}

LEMMA TypesAre == Type = Types
  BY DEF Type, Types, TypeOf, Chain

LEMMA CmdFields ==
    ASSUME NEW c \in Cmd
    PROVE  c.type \in Types /\ c # NoCmd
<1>1. c.type \in Type
  BY DEF Cmd
<1>2. NoCmd.type = "none" /\ "none" \notin Types
  BY DEF NoCmd, Types
<1> QED BY <1>1, <1>2, TypesAre

\* The states the orchestrator and the handlers put a radio into.
LEMMA StatesTyped ==
    /\ {"unconfigured", "wsc_m1_pending", "wsc_m2_sent", "topo_sync_pending", "misconfigured",
        "configured", "topo_synchronized", "ap_cap_report_received", "channel_queried",
        "channel_selected", "sta_cap_confirmed", "beacon_report_complete",
        "steer_btm_req_ack_rcvd"} \subseteq State
    /\ Renewing \subseteq State
    /\ \A c \in Cmd, s \in State : ExecState(c, s) \in State
<1>1. {"unconfigured", "wsc_m1_pending", "wsc_m2_sent", "topo_sync_pending", "misconfigured",
        "configured", "topo_synchronized", "ap_cap_report_received", "channel_queried",
        "channel_selected", "sta_cap_confirmed", "beacon_report_complete",
        "steer_btm_req_ack_rcvd"} \subseteq State
  BY DEF State, Synchronized
<1>2. Renewing \subseteq State
  BY DEF Renewing, State, Synchronized
<1>3. ASSUME NEW c \in Cmd, NEW s \in State PROVE ExecState(c, s) \in State
  <2>1. c.type \in Types
    BY CmdFields
  <2> QED BY <2>1 DEF Types, ExecState, State, Synchronized
<1> QED BY <1>1, <1>2, <1>3

\* The parts of TypeOK that an operation may change.
CmdTypes ==
    /\ orch \in [Radios -> {"idle", "pending", "progress", "fini"}]
    /\ cmd \in [Radios -> Cmd \cup {NoCmd}]
    /\ \A r \in Radios : cmd[r] = NoCmd <=> orch[r] = "idle"
MsgTypes ==
    /\ events \in Seq([cmd : {"em_config", "cfg_renew"}, radio : Radios])
    /\ m1 \subseteq Radios \X {"received", "withdrawn"}
NetTypes == net \subseteq [msg : Kinds, radio : Radios, id : 1..NoMatch]
IdTypes == id \in [Radios -> [Wait -> 0..MaxId]]
CntTypes == cnt \in [Radios -> [Counter -> Nat]] /\ renews \in [Radios -> Nat]
FlagTypes == /\ ocr \subseteq Radios /\ unclean \in BOOLEAN /\ refused \subseteq Radios
             /\ mismatch \in BOOLEAN /\ topoChanged \in BOOLEAN
UsedTypes == used \in [m1 : 0..MaxM1, cmds : 0..MaxCmds, ids : 0..MaxId]

LEMMA TypeParts ==
    TypeOK <=> /\ st \in [Radios -> State]
               /\ CmdTypes /\ queue \in [Radios -> Seq(Cmd)] /\ MsgTypes /\ NetTypes
               /\ IdTypes /\ CntTypes /\ FlagTypes /\ UsedTypes
  BY DEF TypeOK, CmdTypes, MsgTypes, NetTypes, IdTypes, CntTypes, FlagTypes, UsedTypes
LEMMA TypePartsNext ==
    TypeOK' <=> /\ st' \in [Radios -> State]
                /\ CmdTypes' /\ queue' \in [Radios -> Seq(Cmd)] /\ MsgTypes' /\ NetTypes'
                /\ IdTypes' /\ CntTypes' /\ FlagTypes' /\ UsedTypes'
  BY DEF TypeOK, CmdTypes, MsgTypes, NetTypes, IdTypes, CntTypes, FlagTypes, UsedTypes

\* What a step that changes nothing of a part leaves.
LEMMA TypesKept ==
    ASSUME TypeOK
    PROVE  /\ UNCHANGED st => st' \in [Radios -> State]
           /\ UNCHANGED <<orch, cmd>> => CmdTypes'
           /\ UNCHANGED queue => queue' \in [Radios -> Seq(Cmd)]
           /\ UNCHANGED <<events, m1>> => MsgTypes'
           /\ UNCHANGED net => NetTypes'
           /\ UNCHANGED id => IdTypes'
           /\ UNCHANGED <<cnt, renews>> => CntTypes'
           /\ UNCHANGED <<ocr, unclean, refused, mismatch, topoChanged>> => FlagTypes'
           /\ UNCHANGED used => UsedTypes'
  BY DEF TypeOK, CmdTypes, MsgTypes, NetTypes, IdTypes, CntTypes, FlagTypes, UsedTypes

-----------------------------------------------------------------------------
(* Every operation keeps the types.                                        *)

LEMMA M1Types ==
    ASSUME TypeOK, NEW r \in Radios,
           M1Arrives(r) \/ handle_autoconfig_wsc_m1(r) \/ M2Sent(r)
             \/ M1Refused(r) \/ M1Ignored(r)
    PROVE  TypeOK'
<1> USE TypeParts
<1>1. CASE M1Arrives(r)
  <2>1. st' \in [Radios -> State]
    BY <1>1, StatesTyped DEF M1Arrives
  <2>2. MsgTypes'
    BY <1>1 DEF M1Arrives, MsgTypes
  <2>3. UsedTypes'
    <3>1. /\ used.m1 + 1 \in 0..MaxM1 /\ used' = [used EXCEPT !.m1 = used.m1 + 1]
      BY <1>1, BoundsAssumption DEF M1Arrives, UsedTypes
    <3> QED BY <3>1 DEF UsedTypes
  <2>4. FlagTypes'
    BY <1>1 DEF M1Arrives, FlagTypes
  <2> QED BY <1>1, <2>1, <2>2, <2>3, <2>4, TypesKept, TypePartsNext DEF M1Arrives
<1>2. CASE handle_autoconfig_wsc_m1(r)
  <2>1. st' \in [Radios -> State]
    BY <1>2, StatesTyped DEF handle_autoconfig_wsc_m1
  <2>2. MsgTypes'
    BY <1>2 DEF handle_autoconfig_wsc_m1, MsgTypes
  <2>3. CmdTypes'
    BY <1>2 DEF handle_autoconfig_wsc_m1, CmdTypes
  <2>4. queue' \in [Radios -> Seq(Cmd)]
    BY <1>2, WithoutTyped DEF handle_autoconfig_wsc_m1
  <2>5. CntTypes'
    BY <1>2 DEF handle_autoconfig_wsc_m1, CntTypes, Counter, history
  <2> QED BY <1>2, <2>1, <2>2, <2>3, <2>4, <2>5, TypesKept, TypePartsNext
          DEF handle_autoconfig_wsc_m1, history
<1>3. CASE M2Sent(r)
  <2>1. st' \in [Radios -> State]
    BY <1>3, StatesTyped DEF M2Sent
  <2>2. MsgTypes'
    BY <1>3, AppendProperties DEF M2Sent, MsgTypes
  <2> QED BY <1>3, <2>1, <2>2, TypesKept, TypePartsNext DEF M2Sent, history
<1>4. CASE M1Ignored(r)
  <2>1. MsgTypes'
    BY <1>4 DEF M1Ignored, MsgTypes
  <2> QED BY <1>4, <2>1, TypesKept, TypePartsNext DEF M1Ignored, history
<1>5. CASE M1Refused(r)
  <2>1. MsgTypes' /\ FlagTypes'
    BY <1>5 DEF M1Refused, MsgTypes, FlagTypes
  <2> QED BY <1>5, <2>1, TypesKept, TypePartsNext DEF M1Refused
<1> QED BY <1>1, <1>2, <1>3, <1>4, <1>5

LEMMA QueueTypes ==
    ASSUME TypeOK
    PROVE  /\ HandleEvent => TypeOK'
           /\ \A c \in Commands, r \in Radios : Submit(c, r) => TypeOK'
           /\ \A r \in Radios : Promote(r) => TypeOK'
<1> USE TypeParts
<1>1. ASSUME HandleEvent PROVE TypeOK'
  <2>1. PICK e : e = Head(events)
    OBVIOUS
  <2>2. e \in [cmd : {"em_config", "cfg_renew"}, radio : Radios]
        /\ Tail(events) \in Seq([cmd : {"em_config", "cfg_renew"}, radio : Radios])
    BY <1>1, <2>1, HeadTailProperties DEF HandleEvent, MsgTypes
  <2>3. commands(e.cmd) \in Seq(Cmd) /\ e.radio \in Radios
    BY <2>2, CommandsTyped DEF Chain
  <2>4. queue' = [queue EXCEPT ![e.radio] = queue[e.radio] \o commands(e.cmd)]
    BY <1>1, <2>1 DEF HandleEvent
  <2>5. queue[e.radio] \o commands(e.cmd) \in Seq(Cmd)
    BY <2>3, ConcatProperties
  <2>6. queue' \in [Radios -> Seq(Cmd)]
    BY <2>3, <2>4, <2>5
  <2>7. MsgTypes'
    BY <1>1, <2>2 DEF HandleEvent, MsgTypes
  <2> QED BY <1>1, <2>6, <2>7, TypesKept, TypePartsNext DEF HandleEvent, history
<1>2. ASSUME NEW c \in Commands, NEW r \in Radios, Submit(c, r) PROVE TypeOK'
  <2>1. queue' = [queue EXCEPT ![r] = queue[r] \o commands(c)] /\ queue[r] \in Seq(Cmd)
    BY <1>2 DEF Submit
  <2>2. commands(c) \in Seq(Cmd)
    BY CommandsTyped, CommandsAssumption
  <2>3. queue[r] \o commands(c) \in Seq(Cmd)
    BY <2>1, <2>2, ConcatProperties
  <2>4. queue' \in [Radios -> Seq(Cmd)]
    BY <2>1, <2>3
  <2>5. UsedTypes'
    <3>1. /\ used.cmds + 1 \in 0..MaxCmds /\ used' = [used EXCEPT !.cmds = used.cmds + 1]
      BY <1>2, BoundsAssumption DEF Submit, UsedTypes
    <3> QED BY <3>1 DEF UsedTypes
  <2>6. FlagTypes'
    BY <1>2 DEF Submit, FlagTypes, history
  <2> QED BY <1>2, <2>4, <2>5, <2>6, TypesKept, TypePartsNext DEF Submit, msgs, history
<1>3. ASSUME NEW r \in Radios, Promote(r) PROVE TypeOK'
  <2>1. PICK q, h : q = queue[r] /\ h = Head(q)
    OBVIOUS
  <2>2. q \in Seq(Cmd) /\ q # << >> /\ h \in Cmd /\ Tail(q) \in Seq(Cmd)
    <3>1. q \in Seq(Cmd) /\ q # << >>
      BY <1>3, <2>1 DEF Promote
    <3> QED BY <2>1, <3>1, HeadTailProperties
  <2>3. queue' \in [Radios -> Seq(Cmd)]
    BY <1>3, <2>1, <2>2 DEF Promote
  <2>4. cmd' = [cmd EXCEPT ![r] = h] /\ orch' = [orch EXCEPT ![r] = "pending"]
    BY <1>3, <2>1 DEF Promote
  <2>5. CmdTypes'
    BY <2>2, <2>4, CmdFields DEF CmdTypes
  <2> QED BY <1>3, <2>3, <2>5, TypesKept, TypePartsNext DEF Promote, msgs, history
<1> QED BY <1>1, <1>2, <1>3

LEMMA ExecTypes ==
    ASSUME TypeOK, NEW r \in Radios, Execute(r) \/ Finish(r) \/ Release(r)
    PROVE  TypeOK'
<1> USE TypeParts
<1>1. CASE Execute(r)
  <2>1. orch[r] = "pending" /\ cmd[r] \in Cmd
    BY <1>1 DEF Execute, CmdTypes
  <2>2. ExecState(cmd[r], st[r]) \in State
    BY <2>1, StatesTyped
  <2>3. st' \in [Radios -> State]
    BY <1>1, <2>2 DEF Execute
  <2>4. CmdTypes'
    BY <1>1 DEF Execute, CmdTypes
  <2>5. CntTypes'
    BY <1>1 DEF Execute, CntTypes, Counter
  <2>6. IdTypes'
    <3>1. 0 \in 0..MaxId /\ "beacon" \in Wait
      BY BoundsAssumption DEF Wait
    <3> QED BY <1>1, <3>1 DEF Execute, IdTypes
  <2>7. FlagTypes'
    BY <1>1 DEF Execute, FlagTypes
  <2> QED BY <1>1, <2>3, <2>4, <2>5, <2>6, <2>7, TypesKept, TypePartsNext DEF Execute, msgs
<1>2. CASE Finish(r)
  <2>1. st' \in [Radios -> State]
    <3>1. FiniState(r) \in State /\ "topo_sync_pending" \in State
      BY StatesTyped DEF FiniState
    <3> QED BY <1>2, <3>1 DEF Finish
  <2>2. CmdTypes'
    BY <1>2 DEF Finish, CmdTypes
  <2>3. CntTypes'
    <3>1. renews' = renews /\ cnt' = FiniCount(r)
      BY <1>2 DEF Finish, history
    <3>2. FiniCount(r) = cnt \/ \E c \in Counter : FiniCount(r) = [cnt EXCEPT ![r][c] = 0]
      <4>1. Exhausted(r) => CounterOf(cmd[r].type) \in Counter
        BY DEF Exhausted, CounterOf, Counter
      <4>2. cmd[r].type = "sta_steer" => CounterOf(cmd[r].type) \in Counter
        BY DEF CounterOf, Counter
      <4> QED BY <4>1, <4>2 DEF FiniCount
    <3>3. ASSUME NEW c \in Counter, FiniCount(r) = [cnt EXCEPT ![r][c] = 0]
          PROVE  cnt' \in [Radios -> [Counter -> Nat]]
      BY <3>1, <3>3 DEF CntTypes
    <3> QED BY <3>1, <3>2, <3>3 DEF CntTypes
  <2> QED BY <1>2, <2>1, <2>2, <2>3, TypesKept, TypePartsNext DEF Finish, msgs, history
<1>3. CASE Release(r)
  <2>1. CmdTypes'
    BY <1>3 DEF Release, CmdTypes
  <2> QED BY <1>3, <2>1, TypesKept, TypePartsNext DEF Release, msgs, history
<1> QED BY <1>1, <1>2, <1>3

\* The events of a cancellation.
LEMMA CancelTypes ==
    ASSUME TypeOK, NEW t \in Types, cancel_command(t)
    PROVE  /\ queue' \in [Radios -> Seq(Cmd)] /\ CmdTypes' /\ MsgTypes'
<1> USE TypeParts
<1>1. queue' \in [Radios -> Seq(Cmd)]
  <2>1. \A r \in Radios : Without(queue[r], t) \in Seq(Cmd)
    <3> SUFFICES ASSUME NEW r \in Radios PROVE Without(queue[r], t) \in Seq(Cmd)
      OBVIOUS
    <3>1. queue[r] \in Seq(Cmd)
      OBVIOUS
    <3> QED BY <3>1, WithoutTyped
  <2> QED BY <2>1 DEF cancel_command
<1>2. CmdTypes'
  BY DEF cancel_command, CmdTypes, Active
<1>3. MsgTypes'
  <2>1. PICK S : S = IF t = "em_config" THEN Active(t) ELSE {}
    OBVIOUS
  <2>2. S \in SUBSET Radios
    BY <2>1 DEF Active
  <2>3. IsFiniteSet(S) /\ Cardinality(S) \in Nat
    BY <2>2, FrontAssumption, FS_Subset, FS_CardinalityType
  <2>4. PICK q \in RenewEvents(S) : events' = events \o q
    BY <2>1 DEF cancel_command
  <2>5. q \in Seq([cmd : {"em_config", "cfg_renew"}, radio : Radios])
    <3>1. q \in [1..Cardinality(S) -> [cmd : {"cfg_renew"}, radio : S]]
      BY DEF RenewEvents
    <3>2. [cmd : {"cfg_renew"}, radio : S] \subseteq [cmd : {"em_config", "cfg_renew"}, radio : Radios]
      BY <2>2
    <3>3. q \in [1..Cardinality(S) -> [cmd : {"em_config", "cfg_renew"}, radio : Radios]]
      BY <3>1, <3>2
    <3>4. PICK n, E : n = Cardinality(S) /\ E = [cmd : {"em_config", "cfg_renew"}, radio : Radios]
      OBVIOUS
    <3>5. n \in Nat /\ q \in [1..n -> E]
      BY <2>3, <3>3, <3>4
    <3>6. q \in Seq(E)
      BY <3>5
    <3> QED BY <3>4, <3>6
  <2>6. events \in Seq([cmd : {"em_config", "cfg_renew"}, radio : Radios])
    BY DEF MsgTypes
  <2>7. events' \in Seq([cmd : {"em_config", "cfg_renew"}, radio : Radios])
    BY <2>4, <2>5, <2>6, ConcatProperties
  <2> QED BY <2>7 DEF MsgTypes, cancel_command
<1> QED BY <1>1, <1>2, <1>3

LEMMA CountsTyped ==
    /\ \A t, c : c \in [Counter -> Nat] => CancelCount(t, c) \in [Counter -> Nat]
    /\ \A t, s : s \in State => CancelState(t, s) \in State
<1>1. ASSUME NEW t, NEW c \in [Counter -> Nat] PROVE CancelCount(t, c) \in [Counter -> Nat]
  BY DEF CancelCount, Counter
<1>2. ASSUME NEW t, NEW s \in State PROVE CancelState(t, s) \in State
  BY StatesTyped DEF CancelState
<1> QED BY <1>1, <1>2

\* A command that is not ready has a type.
LEMMA NotReadyHasCmd ==
    ASSUME TypeOK, NEW r \in Radios, NotReady(r)
    PROVE  orch[r] \in {"pending", "progress"} /\ cmd[r] \in Cmd /\ cmd[r].type \in Types
<1>1. orch[r] \in {"pending", "progress"} /\ cmd[r] \in Cmd
  BY TypeParts DEF NotReady, CmdTypes
<1> QED BY <1>1, CmdFields

LEMMA TimeoutTypes ==
    ASSUME TypeOK, NEW r \in Radios, CommandTimeout(r) \/ SyncTimeout(r) \/ RepeatTopoQuery(r)
    PROVE  TypeOK'
<1> USE TypeParts
<1>1. CASE CommandTimeout(r)
  <2>1. PICK t : t = cmd[r].type
    OBVIOUS
  <2>2. t \in Types /\ cancel_command(t)
    BY <1>1, <2>1, NotReadyHasCmd DEF CommandTimeout
  <2>3. queue' \in [Radios -> Seq(Cmd)] /\ CmdTypes' /\ MsgTypes'
    BY <2>2, CancelTypes
  <2>4. st' \in [Radios -> State]
    BY <1>1, CountsTyped DEF CommandTimeout
  <2>5. CntTypes'
    BY <1>1, CountsTyped DEF CommandTimeout, CntTypes
  <2>6. UNCHANGED <<id, ocr, topoChanged, used, unclean, refused, net, mismatch>>
    BY <1>1, <2>2 DEF CommandTimeout, cancel_command
  <2> QED BY <2>3, <2>4, <2>5, <2>6, TypesKept, TypePartsNext
<1>2. CASE SyncTimeout(r)
  <2>2. "em_config" \in Types /\ cancel_command("em_config")
    BY <1>2 DEF SyncTimeout, Types
  <2>3. queue' \in [Radios -> Seq(Cmd)] /\ CmdTypes' /\ MsgTypes'
    BY <2>2, CancelTypes
  <2>4. st' \in [Radios -> State]
    BY <1>2, StatesTyped DEF SyncTimeout, All
  <2>5. CntTypes'
    <3> DEFINE d(q) == IF q \in Active("em_config") THEN CancelCount("em_config", cnt[q]) ELSE cnt[q]
    <3>1. \A q \in Radios : d(q) \in [Counter -> Nat]
      BY CountsTyped DEF CntTypes
    <3>2. \A q \in Radios : [d(q) EXCEPT !.renew = @ + 1] \in [Counter -> Nat]
      <4> SUFFICES ASSUME NEW q \in Radios
                   PROVE  [d(q) EXCEPT !.renew = @ + 1] \in [Counter -> Nat]
        OBVIOUS
      <4>1. PICK c : c = d(q)
        OBVIOUS
      <4>2. c \in [Counter -> Nat] /\ "renew" \in Counter
        BY <3>1, <4>1 DEF Counter
      <4>3. c.renew + 1 \in Nat
        BY <4>2
      <4>4. [c EXCEPT !.renew = c.renew + 1] \in [Counter -> Nat]
        BY <4>2, <4>3
      <4> HIDE DEF d
      <4> QED BY <4>1, <4>4
    <3>3. cnt' = [q \in Radios |-> [d(q) EXCEPT !.renew = @ + 1]]
      BY <1>2 DEF SyncTimeout
    <3>4. cnt' \in [Radios -> [Counter -> Nat]]
      <4> HIDE DEF d
      <4> QED BY <3>2, <3>3
    <3>5. renews' \in [Radios -> Nat]
      BY <1>2 DEF SyncTimeout, CntTypes
    <3> QED BY <3>4, <3>5 DEF CntTypes
  <2>6. UNCHANGED <<id, ocr, topoChanged, used, unclean, refused, net>> /\ mismatch' = FALSE
    BY <1>2, <2>2 DEF SyncTimeout, cancel_command
  <2>7. FlagTypes'
    BY <2>6 DEF FlagTypes
  <2> QED BY <2>3, <2>4, <2>5, <2>6, <2>7, TypesKept, TypePartsNext
<1>3. CASE RepeatTopoQuery(r)
  <2>1. st' \in [Radios -> State]
    BY <1>3, StatesTyped DEF RepeatTopoQuery, All
  <2>2. NetTypes'
    <3>1. NoMatch \in 1..NoMatch /\ "topo_query" \in Kinds
      BY BoundsAssumption DEF NoMatch, Kinds
    <3> QED BY <1>3, <3>1, FrontAssumption DEF RepeatTopoQuery, Send, Message, NetTypes
  <2> QED BY <1>3, <2>1, <2>2, TypesKept, TypePartsNext DEF RepeatTopoQuery, history
<1> QED BY <1>1, <1>2, <1>3

LEMMA SendTypes ==
    ASSUME TypeOK, NEW k \in Kinds, NEW r \in Radios, NEW i \in 1..NoMatch, Send(k, r, i)
    PROVE  NetTypes'
<1>1. Message(k, r, i) \in [msg : Kinds, radio : Radios, id : 1..NoMatch]
  BY DEF Message
<1> QED BY <1>1, TypeParts DEF Send, NetTypes

\* The ids a request may have.
LEMMA Ids ==
    /\ MaxId \in Nat /\ NoMatch \in 1..NoMatch /\ 0 \in 0..MaxId
    /\ \A i \in 0..MaxId : i < MaxId => i + 1 \in 0..MaxId /\ i + 1 \in 1..NoMatch
  BY BoundsAssumption DEF NoMatch

LEMMA SendNewTypes ==
    ASSUME TypeOK, NEW k \in Kinds, NEW r \in Radios, NEW w \in Wait, SendNew(k, r, w)
    PROVE  NetTypes' /\ IdTypes' /\ UsedTypes'
<1> USE TypeParts
<1>1. PICK i : i = used.ids
  OBVIOUS
<1>2. i \in 0..MaxId /\ i < MaxId
  BY <1>1 DEF UsedTypes, SendNew
<1>3. PICK j : j = i + 1
  OBVIOUS
<1>4. j \in 0..MaxId /\ j \in 1..NoMatch
  BY <1>2, <1>3, Ids
<1>5. used' = [used EXCEPT !.ids = j] /\ Send(k, r, j) /\ id' = [id EXCEPT ![r][w] = j]
  BY <1>1, <1>3 DEF SendNew
<1>6. NetTypes'
  BY <1>4, <1>5, SendTypes
<1>7. UsedTypes'
  BY <1>4, <1>5 DEF UsedTypes
<1>8. IdTypes'
  BY <1>4, <1>5 DEF IdTypes
<1> QED BY <1>6, <1>7, <1>8

LEMMA CountUp ==
    ASSUME TypeOK, NEW r \in Radios, NEW c \in Counter, cnt' = [cnt EXCEPT ![r][c] = @ + 1]
    PROVE  cnt' \in [Radios -> [Counter -> Nat]]
<1>1. PICK d : d = cnt[r]
  OBVIOUS
<1>2. d \in [Counter -> Nat] /\ cnt \in [Radios -> [Counter -> Nat]]
  BY <1>1, TypeParts DEF CntTypes
<1>3. d[c] + 1 \in Nat
  BY <1>2
<1>4. [d EXCEPT ![c] = d[c] + 1] \in [Counter -> Nat]
  BY <1>2, <1>3
<1>5. cnt' = [cnt EXCEPT ![r] = [d EXCEPT ![c] = d[c] + 1]]
  BY <1>1
<1> QED BY <1>2, <1>4, <1>5

LEMMA ThreadTypes ==
    ASSUME TypeOK, NEW r \in Radios, process_ctrl_state(r)
    PROVE  TypeOK'
<1> USE TypeParts
<1>k. /\ {"topo_query", "ap_cap_query", "bsta_cap_query", "client_cap_query", "channel_pref_query",
          "channel_sel_req", "channel_scan_req", "policy_req", "steering_req", "client_assoc_ctrl_req",
          "link_metrics_query", "unassoc_query", "beacon_query"} \subseteq Kinds
      /\ {"chan", "policy", "assoc", "unassoc", "beacon"} \subseteq Wait
      /\ {"renew", "cap", "steer", "assoc"} \subseteq Counter
      /\ NoMatch \in 1..NoMatch
  BY Ids DEF Kinds, Wait, Counter
<1>1. CASE send_autoconfig_renew_msg(r)
  <2>1. cnt' \in [Radios -> [Counter -> Nat]]
    BY <1>1, <1>k, CountUp DEF send_autoconfig_renew_msg
  <2>2. CntTypes'
    BY <1>1, <2>1 DEF send_autoconfig_renew_msg, CntTypes
  <2> QED BY <1>1, <2>2, TypesKept, TypePartsNext DEF send_autoconfig_renew_msg, sent
<1>2. CASE send_topology_query_msg(r)
  <2>1. NetTypes'
    BY <1>2, <1>k, SendTypes DEF send_topology_query_msg
  <2> QED BY <1>2, <2>1, TypesKept, TypePartsNext DEF send_topology_query_msg, sent, history
<1>3. CASE send_ap_cap_query_msg(r)
  <2>1. NetTypes'
    BY <1>3, <1>k, SendTypes DEF send_ap_cap_query_msg
  <2> QED BY <1>3, <2>1, TypesKept, TypePartsNext DEF send_ap_cap_query_msg, sent, history
<1>4. CASE send_bsta_cap_query_msg(r)
  <2>1. NetTypes'
    BY <1>4, <1>k, SendTypes DEF send_bsta_cap_query_msg
  <2> QED BY <1>4, <2>1, TypesKept, TypePartsNext DEF send_bsta_cap_query_msg, sent, history
<1>5. CASE send_channel_pref_query_msg(r)
  <2>1. NetTypes'
    BY <1>5, <1>k, SendTypes DEF send_channel_pref_query_msg
  <2> QED BY <1>5, <2>1, TypesKept, TypePartsNext DEF send_channel_pref_query_msg, sent, history
<1>6. CASE send_all_associated_sta_link_metrics_msg(r)
  <2>1. NetTypes'
    BY <1>6, <1>k, SendTypes DEF send_all_associated_sta_link_metrics_msg
  <2> QED BY <1>6, <2>1, TypesKept, TypePartsNext DEF send_all_associated_sta_link_metrics_msg, sent, history
<1>7. CASE Publish(r)
  <2>1. st' \in [Radios -> State] /\ FlagTypes'
    BY <1>7, StatesTyped DEF Publish, FlagTypes, history
  <2> QED BY <1>7, <2>1, TypesKept, TypePartsNext DEF Publish, msgs, history
<1>8. CASE PublishAssoc(r)
  <2>1. NetTypes'
    BY <1>8, <1>k, SendTypes DEF PublishAssoc
  <2>2. FlagTypes'
    BY <1>8 DEF PublishAssoc, FlagTypes, history
  <2> QED BY <1>8, <2>1, <2>2, TypesKept, TypePartsNext DEF PublishAssoc, history
<1>9. CASE send_client_cap_query(r)
  <2>1. NetTypes'
    BY <1>9, <1>k, SendTypes DEF send_client_cap_query
  <2>2. cnt' \in [Radios -> [Counter -> Nat]]
    BY <1>9, <1>k, CountUp DEF send_client_cap_query
  <2>3. CntTypes'
    BY <1>9, <2>2 DEF send_client_cap_query, CntTypes, history
  <2> QED BY <1>9, <2>1, <2>3, TypesKept, TypePartsNext DEF send_client_cap_query, sent, history
<1>10. CASE send_client_steering_req_msg(r)
  <2>1. NetTypes'
    BY <1>10, <1>k, SendTypes DEF send_client_steering_req_msg
  <2>2. cnt' \in [Radios -> [Counter -> Nat]]
    BY <1>10, <1>k, CountUp DEF send_client_steering_req_msg
  <2>3. CntTypes'
    BY <1>10, <2>2 DEF send_client_steering_req_msg, CntTypes, history
  <2> QED BY <1>10, <2>1, <2>3, TypesKept, TypePartsNext DEF send_client_steering_req_msg, sent, history
<1>11. CASE send_client_assoc_ctrl_req_msg(r)
  <2>1. NetTypes' /\ IdTypes' /\ UsedTypes'
    BY <1>11, <1>k, SendNewTypes DEF send_client_assoc_ctrl_req_msg
  <2>2. cnt' \in [Radios -> [Counter -> Nat]]
    BY <1>11, <1>k, CountUp DEF send_client_assoc_ctrl_req_msg
  <2>3. CntTypes'
    BY <1>11, <2>2 DEF send_client_assoc_ctrl_req_msg, CntTypes, history
  <2> QED BY <1>11, <2>1, <2>3, TypesKept, TypePartsNext DEF send_client_assoc_ctrl_req_msg, sent, history
<1>12. CASE send_channel_sel_request_msg(r)
  <2>1. NetTypes' /\ IdTypes' /\ UsedTypes'
    BY <1>12, <1>k, SendNewTypes DEF send_channel_sel_request_msg
  <2>2. FlagTypes'
    BY <1>12 DEF send_channel_sel_request_msg, FlagTypes, history
  <2> QED BY <1>12, <2>1, <2>2, TypesKept, TypePartsNext DEF send_channel_sel_request_msg, history
<1>13. CASE send_channel_scan_request_msg(r)
  <2>1. NetTypes' /\ IdTypes' /\ UsedTypes'
    BY <1>13, <1>k, SendNewTypes DEF send_channel_scan_request_msg
  <2> QED BY <1>13, <2>1, TypesKept, TypePartsNext DEF send_channel_scan_request_msg, sent, history
<1>14. CASE send_policy_cfg_request_msg(r)
  <2>1. NetTypes' /\ IdTypes' /\ UsedTypes'
    BY <1>14, <1>k, SendNewTypes DEF send_policy_cfg_request_msg
  <2> QED BY <1>14, <2>1, TypesKept, TypePartsNext DEF send_policy_cfg_request_msg, sent, history
<1>15. CASE send_unassoc_sta_link_metrics_query_msg(r)
  <2>1. NetTypes' /\ IdTypes' /\ UsedTypes'
    BY <1>15, <1>k, SendNewTypes DEF send_unassoc_sta_link_metrics_query_msg
  <2> QED BY <1>15, <2>1, TypesKept, TypePartsNext DEF send_unassoc_sta_link_metrics_query_msg, sent, history
<1>16. CASE send_single_beacon_metrics_query_msg(r)
  <2>1. NetTypes' /\ IdTypes' /\ UsedTypes'
    BY <1>16, <1>k, SendNewTypes DEF send_single_beacon_metrics_query_msg
  <2> QED BY <1>16, <2>1, TypesKept, TypePartsNext DEF send_single_beacon_metrics_query_msg, sent, history
<1> QED BY <1>1, <1>2, <1>3, <1>4, <1>5, <1>6, <1>7, <1>8, <1>9, <1>10, <1>11, <1>12, <1>13, <1>14, <1>15, <1>16 DEF process_ctrl_state

\* The answers of the agent are for the radio and have the id of the request.
LEMMA RepliesTyped ==
    ASSUME NEW m \in [msg : Kinds, radio : Radios, id : 1..NoMatch], NEW a \in Replies(m)
    PROVE  /\ a \in [msg : Kinds, radio : Radios, id : 1..NoMatch]
           /\ a.msg \in {"topo_resp", "ap_cap_rprt", "bsta_cap_rprt", "client_cap_rprt",
                         "channel_pref_rprt", "channel_sel_rsp", "op_channel_rprt", "ack", "btm_rprt",
                         "link_metrics_rsp", "unassoc_rsp", "beacon_rsp"}
<1>1. \E k \in {"topo_resp", "ap_cap_rprt", "bsta_cap_rprt", "client_cap_rprt",
                "channel_pref_rprt", "channel_sel_rsp", "op_channel_rprt", "ack", "btm_rprt",
                "link_metrics_rsp", "unassoc_rsp", "beacon_rsp"} : a = Reply(m, k)
  BY DEF Replies, send_topology_response_msg, send_ap_cap_report_msg, send_bsta_cap_report_msg,
              send_client_cap_report_msg, send_channel_pref_report_msg, send_channel_sel_response_msg,
              send_operating_channel_report_msg, handle_channel_scan_req, handle_policy_cfg_req,
              handle_client_steering_req, send_btm_report_msg, handle_client_assoc_ctrl_req,
              send_associated_link_metrics_response, handle_unassoc_sta_query,
              handle_beacon_metrics_query, send_beacon_metrics_response
<1>2. PICK k \in {"topo_resp", "ap_cap_rprt", "bsta_cap_rprt", "client_cap_rprt",
                  "channel_pref_rprt", "channel_sel_rsp", "op_channel_rprt", "ack", "btm_rprt",
                  "link_metrics_rsp", "unassoc_rsp", "beacon_rsp"} : a = Reply(m, k)
  BY <1>1
<1>3. k \in Kinds
  BY DEF Kinds
<1>4. a = [msg |-> k, radio |-> m.radio, id |-> m.id]
  BY <1>2 DEF Reply, Message
<1>5. a \in [msg : Kinds, radio : Radios, id : 1..NoMatch] /\ a.msg = k
  BY <1>3, <1>4
<1> QED BY <1>5

LEMMA AnswerTypes ==
    ASSUME TypeOK, NEW m \in net, AgentAnswers(m)
    PROVE  TypeOK'
<1> USE TypeParts
<1>1. m \in [msg : Kinds, radio : Radios, id : 1..NoMatch]
  BY DEF NetTypes
<1>2. Replies(m) \subseteq [msg : Kinds, radio : Radios, id : 1..NoMatch]
  BY <1>1, RepliesTyped
<1>3. NetTypes'
  BY <1>2 DEF AgentAnswers, NetTypes
<1> QED BY <1>3, TypesKept, TypePartsNext DEF AgentAnswers, history

\* An acknowledgement changes states to states, and ids to 0.
LEMMA AckTypes ==
    ASSUME TypeOK, NEW m \in net, handle_1905_ack(m)
    PROVE  st' \in [Radios -> State] /\ IdTypes'
<1> USE TypeParts
<1>1. ASSUME NEW s \in [Radios -> State], NEW i
      PROVE  /\ PolicyAck(s, i) \in [Radios -> State] /\ ChannelAck(s, i) \in [Radios -> State]
             /\ \A e \in BOOLEAN : MetricsAck(s, i, e) \in [Radios -> State]
             /\ SteeringAck(s, i) \in [Radios -> State]
  <2>1. PolicyAck(s, i) \in [Radios -> State]
    BY StatesTyped DEF PolicyAck, All
  <2>2. ChannelAck(s, i) \in [Radios -> State]
    BY StatesTyped DEF ChannelAck
  <2>3. \A e \in BOOLEAN : MetricsAck(s, i, e) \in [Radios -> State]
    BY StatesTyped DEF MetricsAck
  <2>4. SteeringAck(s, i) \in [Radios -> State]
    BY StatesTyped DEF SteeringAck
  <2> QED BY <2>1, <2>2, <2>3, <2>4
<1>2. PICK s1, s2 : \E error \in BOOLEAN :
        /\ s1 = (IF Waiting(Front, "unassoc_sta_link_metrics_pending") THEN st ELSE PolicyAck(st, m.id))
        /\ s2 = (IF Waiting(Front, "unassoc_sta_link_metrics_pending") THEN s1 ELSE ChannelAck(s1, m.id))
        /\ st' = IF Waiting(Front, "unassoc_sta_link_metrics_pending")
                 THEN MetricsAck(s2, m.id, error) ELSE SteeringAck(MetricsAck(s2, m.id, error), m.id)
  BY DEF handle_1905_ack
<1>3. s1 \in [Radios -> State]
  BY <1>1, <1>2
<1>4. s2 \in [Radios -> State]
  BY <1>1, <1>2, <1>3
<1>5. \A e \in BOOLEAN : MetricsAck(s2, m.id, e) \in [Radios -> State]
  BY <1>1, <1>4
<1>6. \A e \in BOOLEAN : SteeringAck(MetricsAck(s2, m.id, e), m.id) \in [Radios -> State]
  BY <1>1, <1>5
<1>7. st' \in [Radios -> State]
  BY <1>2, <1>5, <1>6
<1>8. IdTypes'
  <2>1. \A r \in Radios : \A w \in Wait : id[r][w] \in 0..MaxId
    BY DEF IdTypes
  <2>2. \A r \in Radios : id'[r] \in [Wait -> 0..MaxId]
    BY <2>1, Ids DEF handle_1905_ack
  <2>3. id' = [r \in Radios |-> id'[r]]
    BY DEF handle_1905_ack
  <2> QED BY <2>2, <2>3 DEF IdTypes
<1> QED BY <1>7, <1>8

LEMMA HandlerTypes ==
    ASSUME TypeOK, NEW m \in net, process_msg(m)
    PROVE  TypeOK'
<1> USE TypeParts
<1>m. m \in [msg : Kinds, radio : Radios, id : 1..NoMatch] /\ m.radio \in Radios
  BY DEF NetTypes
<1>n. ASSUME net' = net \ {m} PROVE NetTypes'
  BY <1>n DEF NetTypes
<1>s. All("topo_synchronized") \in [Radios -> State] /\ All("ap_cap_report_received") \in [Radios -> State]
      /\ All("channel_queried") \in [Radios -> State]
  BY StatesTyped DEF All
<1>1. CASE handle_topology_response(m)
  <2>1. st' \in [Radios -> State]
    BY <1>1, <1>s DEF handle_topology_response
  <2>2. FlagTypes'
    BY <1>1 DEF handle_topology_response, FlagTypes, handled, history
  <2> QED BY <1>1, <1>n, <2>1, <2>2, TypesKept, TypePartsNext DEF handle_topology_response, Received, handled, history
<1>2. CASE handle_ap_cap_report(m)
  <2> QED BY <1>2, <1>n, <1>s, TypesKept, TypePartsNext DEF handle_ap_cap_report, Received, handled, history
<1>3. CASE handle_channel_pref_rprt(m)
  <2> QED BY <1>3, <1>n, <1>s, TypesKept, TypePartsNext DEF handle_channel_pref_rprt, Received, handled, history
<1>4. CASE handle_client_cap_report(m)
  <2>1. st' \in [Radios -> State]
    BY <1>4, <1>m, StatesTyped DEF handle_client_cap_report
  <2> QED BY <1>4, <1>n, <2>1, TypesKept, TypePartsNext DEF handle_client_cap_report, Received, handled, history
<1>5. CASE handle_bsta_cap_report(m)
  <2>1. st' \in [Radios -> State]
    BY <1>5, <1>m, StatesTyped DEF handle_bsta_cap_report
  <2> QED BY <1>5, <1>n, <2>1, TypesKept, TypePartsNext DEF handle_bsta_cap_report, Received, handled, history
<1>6. CASE handle_associated_sta_link_metrics_resp(m)
  <2>1. st' \in [Radios -> State]
    BY <1>6, <1>m, StatesTyped DEF handle_associated_sta_link_metrics_resp
  <2> QED BY <1>6, <1>n, <2>1, TypesKept, TypePartsNext DEF handle_associated_sta_link_metrics_resp, Received, handled, history
<1>7. CASE handle_client_steering_report(m)
  <2>1. st' \in [Radios -> State]
    BY <1>7, <1>m, StatesTyped DEF handle_client_steering_report
  <2> QED BY <1>7, <1>n, <2>1, TypesKept, TypePartsNext DEF handle_client_steering_report, Received, handled, history
<1>8. CASE handle_beacon_metrics_response(m)
  <2>1. st' \in [Radios -> State]
    BY <1>8, <1>m, StatesTyped DEF handle_beacon_metrics_response, Owners
  <2> QED BY <1>8, <1>n, <2>1, TypesKept, TypePartsNext DEF handle_beacon_metrics_response, Received, handled, history
<1>9. CASE handle_channel_sel_rsp(m)
  <2>1. st' \in [Radios -> State]
    BY <1>9, <1>m, StatesTyped DEF handle_channel_sel_rsp
  <2>2. IdTypes'
    <3>1. id' = id \/ id' = [id EXCEPT ![m.radio].chan = 0]
      BY <1>9 DEF handle_channel_sel_rsp
    <3>2. "chan" \in Wait
      BY DEF Wait
    <3>3. PICK q, d : q = m.radio /\ d = id[q]
      OBVIOUS
    <3>4. q \in Radios /\ d \in [Wait -> 0..MaxId] /\ id \in [Radios -> [Wait -> 0..MaxId]]
      BY <1>m, <3>3 DEF IdTypes
    <3>5. [d EXCEPT !.chan = 0] \in [Wait -> 0..MaxId]
      BY <3>2, <3>4, Ids
    <3>6. id' = id \/ id' = [id EXCEPT ![q] = [d EXCEPT !.chan = 0]]
      BY <3>1, <3>3
    <3> QED BY <3>4, <3>5, <3>6 DEF IdTypes
  <2>3. FlagTypes'
    BY <1>9 DEF handle_channel_sel_rsp, FlagTypes, handled, history
  <2> QED BY <1>9, <1>n, <2>1, <2>2, <2>3, TypesKept, TypePartsNext DEF handle_channel_sel_rsp, Received, handled, history
<1>10. CASE handle_operating_channel_rprt(m)
  <2>1. st' \in [Radios -> State]
    BY <1>10, <1>m, StatesTyped DEF handle_operating_channel_rprt
  <2>2. FlagTypes'
    BY <1>10, <1>m DEF handle_operating_channel_rprt, FlagTypes, handled, history
  <2> QED BY <1>10, <1>n, <2>1, <2>2, TypesKept, TypePartsNext DEF handle_operating_channel_rprt, Received, handled, history
<1>11. CASE handle_unassoc_sta_link_metrics_resp(m)
  <2> QED BY <1>11, <1>n, TypesKept, TypePartsNext DEF handle_unassoc_sta_link_metrics_resp, Received, handled, history
<1>12. CASE handle_1905_ack(m)
  <2>1. st' \in [Radios -> State] /\ IdTypes'
    BY <1>12, AckTypes
  <2>2. net' = net \ {m} /\ UNCHANGED <<handled, ocr, mismatch, topoChanged>>
    BY <1>12 DEF handle_1905_ack, Received
  <2> QED BY <1>n, <2>1, <2>2, TypesKept, TypePartsNext DEF handled, history
<1> QED BY <1>1, <1>2, <1>3, <1>4, <1>5, <1>6, <1>7, <1>8, <1>9, <1>10, <1>11, <1>12 DEF process_msg

LEMMA InitTypes == Init => TypeOK
<1> SUFFICES ASSUME Init PROVE TypeOK
  OBVIOUS
<1>1. st \in [Radios -> State] /\ UsedTypes
  <2>1. PICK s \in Starts : st = All(s.state) /\ used = s.used
    BY DEF Init
  <2>2. s.state \in {"unconfigured", "configured"}
        /\ s.used \in [m1 : 0..MaxM1, cmds : 0..MaxCmds, ids : 0..MaxId]
    BY StartAssumption
  <2> QED BY <2>1, <2>2, StatesTyped DEF All, UsedTypes
<1>2. CmdTypes
  BY DEF Init, All, CmdTypes
<1>3. queue \in [Radios -> Seq(Cmd)] /\ MsgTypes /\ NetTypes
  <2>1. << >> \in Seq(Cmd) /\ << >> \in Seq([cmd : {"em_config", "cfg_renew"}, radio : Radios])
    BY EmptySeq
  <2> QED BY <2>1 DEF Init, All, MsgTypes, NetTypes
<1>4. IdTypes
  <2>1. [w \in Wait |-> 0] \in [Wait -> 0..MaxId]
    BY Ids
  <2> QED BY <2>1 DEF Init, All, IdTypes
<1>5. CntTypes /\ FlagTypes
  BY DEF Init, All, CntTypes, FlagTypes
<1> QED BY <1>1, <1>2, <1>3, <1>4, <1>5, TypeParts

LEMMA NextTypes == TypeOK /\ [Next]_vars => TypeOK'
<1> SUFFICES ASSUME TypeOK, [Next]_vars PROVE TypeOK'
  OBVIOUS
<1>1. ASSUME NEW r \in Radios,
             \/ M1Arrives(r) \/ handle_autoconfig_wsc_m1(r) \/ M2Sent(r)
             \/ M1Refused(r) \/ M1Ignored(r)
             \/ \E c \in Commands : Submit(c, r)
             \/ Promote(r) \/ Execute(r) \/ Finish(r) \/ Release(r)
             \/ CommandTimeout(r) \/ SyncTimeout(r) \/ RepeatTopoQuery(r)
             \/ process_ctrl_state(r)
      PROVE  TypeOK'
  BY <1>1, M1Types, QueueTypes, ExecTypes, TimeoutTypes, ThreadTypes
<1>2. CASE HandleEvent
  BY <1>2, QueueTypes
<1>3. ASSUME NEW m \in net, AgentAnswers(m) \/ process_msg(m) PROVE TypeOK'
  BY <1>3, AnswerTypes, HandlerTypes
<1>4. CASE UNCHANGED vars
  BY <1>4, TypeParts, TypesKept, TypePartsNext DEF vars, msgs, history
<1> QED BY <1>1, <1>2, <1>3, <1>4 DEF Next

\* Every radio, command, queue, event, message, id and counter has its type, for
\* any number of radios and commands: what em_orch.cpp and the handlers rely on.
THEOREM RadioTypes == Spec => []TypeOK
  BY InitTypes, NextTypes, PTL DEF Spec

-----------------------------------------------------------------------------
(* What the handlers and the threads may do to a radio.                    *)

\* The states an answer puts a radio into.
Answered == {"topo_synchronized", "ap_cap_report_received", "channel_queried", "sta_cap_confirmed",
             "configured", "channel_selected", "beacon_report_complete", "steer_btm_req_ack_rcvd"}

\* A radio that did not ask for a capability, a beacon report or a steering is
\* put into a state that accepts a renew.
Elsewhere == {"beacon_report_pending", "sta_steer_pending"}

LEMMA AckSteps ==
    ASSUME TypeOK, NEW m \in net, handle_1905_ack(m), NEW r \in Radios
    PROVE  st'[r] = st[r] \/ st'[r] = "configured" \/ (st'[r] \in Answered /\ st[r] \in Elsewhere)
<1> USE TypeParts
<1>1. PICK s1, s2, s3 : \E error \in BOOLEAN :
        /\ s1 = (IF Waiting(Front, "unassoc_sta_link_metrics_pending") THEN st ELSE PolicyAck(st, m.id))
        /\ s2 = (IF Waiting(Front, "unassoc_sta_link_metrics_pending") THEN s1 ELSE ChannelAck(s1, m.id))
        /\ s3 = MetricsAck(s2, m.id, error)
        /\ st' = IF Waiting(Front, "unassoc_sta_link_metrics_pending") THEN s3 ELSE SteeringAck(s3, m.id)
  BY DEF handle_1905_ack
<1>3. s1[r] = st[r] \/ s1[r] = "configured"
  BY <1>1 DEF PolicyAck, All
<1>4. s2[r] = s1[r] \/ s2[r] = "configured"
  BY <1>1 DEF ChannelAck
<1>5. s3[r] = s2[r] \/ (s3[r] = "beacon_report_complete" /\ s2[r] = "beacon_report_pending")
  BY <1>1 DEF MetricsAck, AcksBeacon
<1>6. \/ st'[r] = s3[r] \/ st'[r] = "configured"
      \/ (st'[r] = "steer_btm_req_ack_rcvd" /\ s3[r] = "sta_steer_pending")
  BY <1>1 DEF SteeringAck
<1> QED BY <1>3, <1>4, <1>5, <1>6 DEF Answered, Elsewhere

LEMMA HandlerSteps ==
    ASSUME TypeOK, NEW m \in net, process_msg(m)
    PROVE  /\ UNCHANGED <<orch, cmd, m1, cnt, renews, unclean, refused>> /\ net' = net \ {m}
           /\ \/ mismatch' = mismatch \/ mismatch' = TRUE
              \/ \A r \in Radios : st'[r] = "topo_synchronized"
           /\ \A r \in Radios : st'[r] = st[r] \/ st'[r] \in Answered
           /\ m.msg \in {"topo_resp", "ap_cap_rprt", "channel_pref_rprt", "channel_sel_rsp",
                         "op_channel_rprt", "ack"} =>
                \A r \in Radios : st'[r] = st[r] \/ st'[r] \in Renewing \/ st[r] \in Elsewhere
<1> USE TypeParts
<1>m. m.radio \in Radios
  BY DEF NetTypes
<1>1. CASE handle_topology_response(m)
  BY <1>1 DEF handle_topology_response, Received, handled, history, All, Answered, Renewing
<1>2. CASE handle_ap_cap_report(m)
  BY <1>2 DEF handle_ap_cap_report, Received, handled, history, All, Answered, Renewing
<1>3. CASE handle_channel_pref_rprt(m)
  BY <1>3 DEF handle_channel_pref_rprt, Received, handled, history, All, Answered, Renewing
<1>4. CASE handle_client_cap_report(m)
  BY <1>4, <1>m DEF handle_client_cap_report, Received, handled, history, Answered, Renewing, Owners
<1>5. CASE handle_bsta_cap_report(m)
  BY <1>5, <1>m DEF handle_bsta_cap_report, Received, handled, history, Answered, Renewing, Owners
<1>6. CASE handle_channel_sel_rsp(m)
  BY <1>6, <1>m DEF handle_channel_sel_rsp, Received, handled, history, Answered, Renewing, Owners
<1>7. CASE handle_operating_channel_rprt(m)
  BY <1>7, <1>m DEF handle_operating_channel_rprt, Received, handled, history, Answered, Renewing, Owners
<1>8. CASE handle_associated_sta_link_metrics_resp(m)
  BY <1>8, <1>m DEF handle_associated_sta_link_metrics_resp, Received, handled, history, Answered, Renewing, Owners
<1>9. CASE handle_client_steering_report(m)
  BY <1>9, <1>m DEF handle_client_steering_report, Received, handled, history, Answered, Renewing, Owners
<1>10. CASE handle_beacon_metrics_response(m)
  BY <1>10, <1>m DEF handle_beacon_metrics_response, Received, handled, history, Answered, Renewing, Owners
<1>11. CASE handle_unassoc_sta_link_metrics_resp(m)
  BY <1>11, <1>m DEF handle_unassoc_sta_link_metrics_resp, Received, handled, history, Answered, Renewing, Owners
<1>12. CASE handle_1905_ack(m)
  <2>1. UNCHANGED <<handled, mismatch>> /\ net' = net \ {m}
    BY <1>12 DEF handle_1905_ack, Received
  <2>2. "configured" \in Answered /\ "configured" \in Renewing
    BY DEF Answered, Renewing
  <2> QED BY <1>12, <2>1, <2>2, AckSteps DEF handled, history
<1> QED BY <1>1, <1>2, <1>3, <1>4, <1>5, <1>6, <1>7, <1>8, <1>9, <1>10, <1>11, <1>12 DEF process_msg

\* A renew is counted twice over: in m_renew_tx_cnt and in the history.
Counted(q) == \/ cnt'[q].renew = cnt[q].renew /\ renews'[q] = renews[q]
              \/ cnt'[q].renew = cnt[q].renew + 1 /\ renews'[q] = renews[q] + 1

LEMMA OtherCounter ==
    ASSUME TypeOK, NEW r \in Radios, NEW c \in Counter \ {"renew"}, NEW v \in Nat,
           cnt' = [cnt EXCEPT ![r][c] = v], NEW q \in Radios
    PROVE  cnt'[q].renew = cnt[q].renew
  BY TypeParts DEF CntTypes, Counter

\* The requests that a command with clean-up sends, and their answers.
CleanKinds == {"topo_query", "topo_resp", "ap_cap_query", "ap_cap_rprt", "channel_pref_query",
               "channel_pref_rprt", "channel_sel_req", "channel_sel_rsp", "op_channel_rprt",
               "channel_scan_req", "policy_req", "ack"}
\* The states in which a thread sends another request.
UncleanStates == {"bsta_cap_pending", "sta_cap_pending", "sta_steer_pending",
                  "client_assoc_ctrl_req_pending", "sta_link_metrics_pending",
                  "unassoc_sta_link_metrics_pending", "beacon_report_pending"}

LEMMA ThreadSteps ==
    ASSUME TypeOK, NEW r \in Radios, process_ctrl_state(r)
    PROVE  /\ UNCHANGED <<orch, cmd, m1, mismatch, unclean, refused>>
           /\ orch[r] = "progress"
           /\ \A q \in Radios : st'[q] = st[q] \/ st'[q] = "configured"
           /\ \A q \in Radios : Counted(q)
           /\ \/ st[r] \in UncleanStates \/ cmd[r].type = "sta_assoc"
              \/ \A m \in net' : m \in net \/ m.msg \in CleanKinds
<1> USE TypeParts
<1>1. CASE send_autoconfig_renew_msg(r)
  <2>1. \A q \in Radios : Counted(q)
    BY <1>1 DEF send_autoconfig_renew_msg, Counted, CntTypes, Counter
  <2> QED BY <1>1, <2>1 DEF send_autoconfig_renew_msg, Works, sent
<1>2. CASE send_topology_query_msg(r)
  BY <1>2 DEF send_topology_query_msg, Works, Waiting, Counted, Send, Message, CleanKinds, UncleanStates, sent, msgs, history
<1>3. CASE send_ap_cap_query_msg(r)
  BY <1>3 DEF send_ap_cap_query_msg, Works, Waiting, Counted, Send, Message, CleanKinds, UncleanStates, sent, msgs, history
<1>4. CASE send_channel_pref_query_msg(r)
  BY <1>4 DEF send_channel_pref_query_msg, Works, Waiting, Counted, Send, Message, CleanKinds, UncleanStates, sent, msgs, history
<1>5. CASE send_bsta_cap_query_msg(r)
  BY <1>5 DEF send_bsta_cap_query_msg, Works, Waiting, Counted, Send, Message, CleanKinds, UncleanStates, sent, msgs, history
<1>6. CASE send_all_associated_sta_link_metrics_msg(r)
  BY <1>6 DEF send_all_associated_sta_link_metrics_msg, Works, Waiting, Counted, Send, Message, CleanKinds, UncleanStates, sent, msgs, history
<1>7. CASE Publish(r)
  BY <1>7 DEF Publish, Works, Waiting, Counted, Send, Message, CleanKinds, UncleanStates, sent, msgs, history
<1>8. CASE PublishAssoc(r)
  BY <1>8 DEF PublishAssoc, Works, Waiting, Counted, Send, Message, CleanKinds, UncleanStates, sent, msgs, history
<1>9. CASE send_client_cap_query(r)
  <2>1. cnt[r].cap + 1 \in Nat /\ "cap" \in Counter \ {"renew"}
    BY DEF CntTypes, Counter
  <2>2. cnt' = [cnt EXCEPT ![r]["cap"] = cnt[r].cap + 1]
    BY <1>9 DEF send_client_cap_query
  <2>3. \A q \in Radios : cnt'[q].renew = cnt[q].renew
    BY <2>1, <2>2, OtherCounter
  <2> QED BY <1>9, <2>3 DEF send_client_cap_query, Works, Waiting, Counted, UncleanStates, sent, history
<1>10. CASE send_client_steering_req_msg(r)
  <2>1. cnt[r].steer + 1 \in Nat /\ "steer" \in Counter \ {"renew"}
    BY DEF CntTypes, Counter
  <2>2. cnt' = [cnt EXCEPT ![r]["steer"] = cnt[r].steer + 1]
    BY <1>10 DEF send_client_steering_req_msg
  <2>3. \A q \in Radios : cnt'[q].renew = cnt[q].renew
    BY <2>1, <2>2, OtherCounter
  <2> QED BY <1>10, <2>3 DEF send_client_steering_req_msg, Works, Waiting, Counted, UncleanStates, sent, history
<1>11. CASE send_client_assoc_ctrl_req_msg(r)
  <2>1. cnt[r].assoc + 1 \in Nat /\ "assoc" \in Counter \ {"renew"}
    BY DEF CntTypes, Counter
  <2>2. cnt' = [cnt EXCEPT ![r]["assoc"] = cnt[r].assoc + 1]
    BY <1>11 DEF send_client_assoc_ctrl_req_msg
  <2>3. \A q \in Radios : cnt'[q].renew = cnt[q].renew
    BY <2>1, <2>2, OtherCounter
  <2> QED BY <1>11, <2>3 DEF send_client_assoc_ctrl_req_msg, Works, Waiting, Counted, UncleanStates, sent, history
<1>12. CASE send_channel_sel_request_msg(r)
  BY <1>12 DEF send_channel_sel_request_msg, Works, Waiting, Counted, SendNew, Send, Message, CleanKinds, UncleanStates, sent, history
<1>13. CASE send_channel_scan_request_msg(r)
  BY <1>13 DEF send_channel_scan_request_msg, Works, Waiting, Counted, SendNew, Send, Message, CleanKinds, UncleanStates, sent, history
<1>14. CASE send_policy_cfg_request_msg(r)
  BY <1>14 DEF send_policy_cfg_request_msg, Works, Waiting, Counted, SendNew, Send, Message, CleanKinds, UncleanStates, sent, history
<1>15. CASE send_unassoc_sta_link_metrics_query_msg(r)
  BY <1>15 DEF send_unassoc_sta_link_metrics_query_msg, Works, Waiting, Counted, SendNew, Send, Message, CleanKinds, UncleanStates, sent, history
<1>16. CASE send_single_beacon_metrics_query_msg(r)
  BY <1>16 DEF send_single_beacon_metrics_query_msg, Works, Waiting, Counted, SendNew, Send, Message, CleanKinds, UncleanStates, sent, history
<1> QED BY <1>1, <1>2, <1>3, <1>4, <1>5, <1>6, <1>7, <1>8, <1>9, <1>10, <1>11, <1>12, <1>13, <1>14, <1>15, <1>16 DEF process_ctrl_state

-----------------------------------------------------------------------------
(* The renews of set_ssid and set_radio.                                   *)

\* Only the reset of Execute brings the counter and the history together; from
\* then on, whoever sends a renew, also the one of the topology
\* synchronisation for every radio, moves both.
LEMMA CountedKeeps ==
    ASSUME TypeOK, RenewsCounted, UNCHANGED cmd,
           \A r \in Radios : orch'[r] = "progress" => orch[r] = "progress",
           \A r \in Radios : Counted(r)
    PROVE  RenewsCounted'
<1> SUFFICES ASSUME NEW r \in Radios, orch'[r] = "progress", cmd[r].type \in {"set_ssid", "set_radio"}
             PROVE  cnt'[r].renew = renews'[r]
  BY DEF RenewsCounted
<1>1. cnt[r].renew = renews[r]
  BY DEF RenewsCounted
<1> QED BY <1>1 DEF Counted

LEMMA RenewsNext == TypeOK /\ RenewsCounted /\ [Next]_vars => RenewsCounted'
<1> SUFFICES ASSUME TypeOK, RenewsCounted, [Next]_vars PROVE RenewsCounted'
  OBVIOUS
<1> USE TypeParts
<1>u. ASSUME UNCHANGED <<orch, cmd, cnt, renews>> PROVE RenewsCounted'
  BY <1>u DEF RenewsCounted
<1>1. ASSUME NEW r \in Radios,
             \/ M1Arrives(r) \/ handle_autoconfig_wsc_m1(r) \/ M2Sent(r)
             \/ M1Refused(r) \/ M1Ignored(r)
             \/ \E c \in Commands : Submit(c, r)
             \/ Promote(r) \/ Execute(r) \/ Finish(r) \/ Release(r)
             \/ CommandTimeout(r) \/ SyncTimeout(r) \/ RepeatTopoQuery(r)
             \/ process_ctrl_state(r)
      PROVE  RenewsCounted'
  <2>1. CASE M1Arrives(r) \/ M2Sent(r) \/ M1Refused(r) \/ M1Ignored(r) \/ \E c \in Commands : Submit(c, r)
    BY <1>u, <2>1 DEF M1Arrives, M2Sent, M1Refused, M1Ignored, Submit, history
  <2>2. CASE handle_autoconfig_wsc_m1(r)
    <3>1. \A q \in Radios : Counted(q)
      <4>1. cnt' = cnt \/ cnt' = [cnt EXCEPT ![r]["cap"] = 0]
        BY <2>2 DEF handle_autoconfig_wsc_m1
      <4>2. \A q \in Radios : cnt'[q].renew = cnt[q].renew
        BY <4>1, OtherCounter DEF Counter
      <4> QED BY <2>2, <4>2 DEF handle_autoconfig_wsc_m1, Counted, history
    <3>2. \A q \in Radios : orch'[q] = "progress" => orch[q] = "progress"
      BY <2>2 DEF handle_autoconfig_wsc_m1, CmdTypes
    <3> QED BY <2>2, <3>1, <3>2, CountedKeeps DEF handle_autoconfig_wsc_m1
  <2>3. CASE Promote(r)
    BY <2>3 DEF Promote, RenewsCounted, CmdTypes, history
  <2>4. CASE Execute(r)
    <3> SUFFICES ASSUME NEW q \in Radios, orch'[q] = "progress", cmd[q].type \in {"set_ssid", "set_radio"}
                 PROVE  cnt'[q].renew = renews'[q]
      BY <2>4 DEF Execute, RenewsCounted
    <3>1. CASE q = r
      <4>1. cnt' = [cnt EXCEPT ![r].renew = 0] /\ renews' = [renews EXCEPT ![r] = 0]
        BY <2>4, <3>1 DEF Execute
      <4> QED BY <3>1, <4>1 DEF CntTypes, Counter
    <3>2. CASE q # r
      <4>1. orch[q] = "progress" /\ cnt'[q] = cnt[q] /\ renews'[q] = renews[q]
        BY <2>4, <3>2 DEF Execute, CmdTypes, CntTypes
      <4> QED BY <4>1 DEF RenewsCounted
    <3> QED BY <3>1, <3>2
  <2>5. CASE Finish(r)
    <3> SUFFICES ASSUME NEW q \in Radios, orch'[q] = "progress", cmd[q].type \in {"set_ssid", "set_radio"}
                 PROVE  cnt'[q].renew = renews'[q]
      BY <2>5 DEF Finish, RenewsCounted
    <3>1. q # r
      BY <2>5 DEF Finish, Regressed, CmdTypes
    <3>2. orch[q] = "progress" /\ cnt'[q] = cnt[q] /\ renews'[q] = renews[q]
      BY <2>5, <3>1 DEF Finish, CmdTypes, CntTypes, FiniCount, history
    <3> QED BY <3>2 DEF RenewsCounted
  <2>6. CASE Release(r)
    BY <2>6 DEF Release, RenewsCounted, CmdTypes, history
  <2>7. CASE CommandTimeout(r)
    <3>1. PICK t : t = cmd[r].type
      OBVIOUS
    <3> SUFFICES ASSUME NEW q \in Radios, orch'[q] = "progress", cmd[q].type \in {"set_ssid", "set_radio"}
                 PROVE  cnt'[q].renew = renews'[q]
      BY <2>7 DEF CommandTimeout, cancel_command, RenewsCounted
    <3>2. q \notin Active(t) /\ orch[q] = "progress"
      BY <2>7, <3>1 DEF CommandTimeout, cancel_command
    <3>3. cnt'[q] = cnt[q] /\ renews'[q] = renews[q]
      BY <2>7, <3>1, <3>2 DEF CommandTimeout
    <3> QED BY <3>2, <3>3 DEF RenewsCounted
  <2>8. CASE SyncTimeout(r)
    <3> SUFFICES ASSUME NEW q \in Radios, orch'[q] = "progress", cmd[q].type \in {"set_ssid", "set_radio"}
                 PROVE  cnt'[q].renew = renews'[q]
      BY <2>8 DEF SyncTimeout, cancel_command, RenewsCounted
    <3>1. q \notin Active("em_config") /\ orch[q] = "progress"
      BY <2>8 DEF SyncTimeout, cancel_command
    <3>2. cnt'[q] = [cnt[q] EXCEPT !.renew = @ + 1] /\ renews'[q] = renews[q] + 1
      BY <2>8, <3>1 DEF SyncTimeout
    <3>3. cnt'[q].renew = cnt[q].renew + 1
      BY <3>2 DEF CntTypes, Counter
    <3> QED BY <3>1, <3>2, <3>3 DEF RenewsCounted
  <2>9. CASE RepeatTopoQuery(r)
    BY <1>u, <2>9 DEF RepeatTopoQuery, history
  <2>10. CASE process_ctrl_state(r)
    BY <2>10, ThreadSteps, CountedKeeps
  <2> QED BY <1>1, <2>1, <2>2, <2>3, <2>4, <2>5, <2>6, <2>7, <2>8, <2>9, <2>10
<1>2. CASE HandleEvent
  BY <1>u, <1>2 DEF HandleEvent, history
<1>3. ASSUME NEW m \in net, AgentAnswers(m) \/ process_msg(m) PROVE RenewsCounted'
  BY <1>u, <1>3, HandlerSteps DEF AgentAnswers, history
<1>4. CASE UNCHANGED vars
  BY <1>u, <1>4 DEF vars, history
<1> QED BY <1>1, <1>2, <1>3, <1>4 DEF Next

\* The end of a set_ssid or set_radio command after its fifth renew
\* (is_em_ready_for_orch_fini) counts the renews of that command only.
THEOREM CountsItsRenews == Spec => []RenewsCounted
<1>1. Init => RenewsCounted
  BY DEF Init, All, RenewsCounted
<1> QED BY <1>1, RenewsNext, RadioTypes, PTL DEF Spec

-----------------------------------------------------------------------------
(* Nobody waits for an answer without a command that asks for it.          *)

Asks(t) ==
    CASE t = "em_config" -> {"ap_cap_query_pending", "channel_query_pending", "set_policy_pending",
                             "channel_select_pending"}
      [] t = "set_channel" -> {"channel_select_pending"}
      [] t = "set_policy" -> {"set_policy_pending"}
      [] t = "beacon_query" -> {"beacon_report_pending"}
      [] OTHER -> {}
Asked == {"ap_cap_query_pending", "channel_query_pending", "set_policy_pending",
          "channel_select_pending", "beacon_report_pending"}

\* Inductive: the command that asks is of a type that asks for it.
WaitInv == \A r \in Radios :
    st[r] \in Asked => orch[r] = "progress" /\ st[r] \in Asks(cmd[r].type)

LEMMA WaitKeeps ==
    ASSUME WaitInv, UNCHANGED <<orch, cmd>>,
           \A r \in Radios : st'[r] = st[r] \/ st'[r] \notin Asked
    PROVE  WaitInv'
  BY DEF WaitInv

LEMMA ExecAsks ==
    ASSUME NEW c \in Cmd, NEW s \in State \ Asked, ExecState(c, s) \in Asked
    PROVE  ExecState(c, s) \in Asks(c.type)
<1>1. c.type \in Types
  BY CmdFields
<1> QED BY <1>1 DEF Types, ExecState, Asked, Asks

LEMMA CancelAsks ==
    ASSUME NEW t, NEW s, s \in Asked => s \in Asks(t)
    PROVE  CancelState(t, s) \notin Asked
  BY DEF CancelState, Asked, Asks

LEMMA WaitNext == TypeOK /\ WaitInv /\ [Next]_vars => WaitInv'
<1> SUFFICES ASSUME TypeOK, WaitInv, [Next]_vars PROVE WaitInv'
  OBVIOUS
<1> USE TypeParts
<1>a. /\ Answered \cap Asked = {} /\ "configured" \notin Asked /\ "misconfigured" \notin Asked
      /\ "topo_sync_pending" \notin Asked /\ "unconfigured" \notin Asked
      /\ "wsc_m1_pending" \notin Asked /\ "wsc_m2_sent" \notin Asked
  BY DEF Answered, Asked
<1>1. ASSUME NEW r \in Radios,
             \/ M1Arrives(r) \/ handle_autoconfig_wsc_m1(r) \/ M2Sent(r)
             \/ M1Refused(r) \/ M1Ignored(r)
             \/ \E c \in Commands : Submit(c, r)
             \/ Promote(r) \/ Execute(r) \/ Finish(r) \/ Release(r)
             \/ CommandTimeout(r) \/ SyncTimeout(r) \/ RepeatTopoQuery(r)
             \/ process_ctrl_state(r)
      PROVE  WaitInv'
  <2>1. CASE M1Arrives(r) \/ M2Sent(r) \/ M1Refused(r) \/ M1Ignored(r) \/ \E c \in Commands : Submit(c, r)
    <3>1. UNCHANGED <<orch, cmd>> /\ \A q \in Radios : st'[q] = st[q] \/ st'[q] \notin Asked
      BY <1>a, <2>1 DEF M1Arrives, M2Sent, M1Refused, M1Ignored, Submit
    <3> QED BY <3>1, WaitKeeps
  <2>2. CASE handle_autoconfig_wsc_m1(r)
    <3>1. st[r] \notin Asked /\ st'[r] \notin Asked
      BY <1>a, <2>2 DEF handle_autoconfig_wsc_m1, Waiting
    <3>2. \A q \in Radios \ {r} : st'[q] = st[q] /\ orch'[q] = orch[q] /\ cmd'[q] = cmd[q]
      BY <2>2 DEF handle_autoconfig_wsc_m1, CmdTypes
    <3> QED BY <3>1, <3>2 DEF WaitInv
  <2>3. CASE Promote(r) \/ Release(r)
    <3>1. st' = st /\ st[r] \notin Asked
      BY <2>3 DEF Promote, Release, WaitInv
    <3>2. \A q \in Radios \ {r} : orch'[q] = orch[q] /\ cmd'[q] = cmd[q]
      BY <2>3 DEF Promote, Release, CmdTypes
    <3> QED BY <3>1, <3>2 DEF WaitInv
  <2>4. CASE Execute(r)
    <3>1. cmd[r] \in Cmd /\ st[r] \in State \ Asked
      BY <2>4 DEF Execute, CmdTypes, WaitInv
    <3>2. orch'[r] = "progress" /\ cmd' = cmd /\ st'[r] = ExecState(cmd[r], st[r])
      BY <2>4 DEF Execute, CmdTypes
    <3>3. st'[r] \in Asked => st'[r] \in Asks(cmd[r].type)
      BY <3>1, <3>2, ExecAsks
    <3>4. \A q \in Radios \ {r} : st'[q] = st[q] /\ orch'[q] = orch[q]
      BY <2>4 DEF Execute, CmdTypes
    <3> QED BY <3>2, <3>3, <3>4 DEF WaitInv
  <2>5. CASE Finish(r)
    <3>1. st'[r] \notin Asked
      <4>1. CASE Regressed(r)
        BY <1>a, <2>5, <4>1 DEF Finish
      <4>2. CASE ~Regressed(r)
        <5>1. st'[r] = FiniState(r) /\ is_em_ready_for_orch_fini(r)
          BY <2>5, <4>2 DEF Finish
        <5>2. st[r] \in Asked => st[r] \in Asks(cmd[r].type)
          BY DEF WaitInv
        <5>3. ASSUME st[r] \in Asks(cmd[r].type) PROVE FALSE
          <6>1. cmd[r].type \in {"em_config", "set_channel", "set_policy", "beacon_query"}
            BY <5>3 DEF Asks
          <6>2. ~Exhausted(r)
            BY <6>1 DEF Exhausted, CounterOf
          <6>3. st[r] \in DoneIn(cmd[r].type)
            BY <5>1, <6>2 DEF is_em_ready_for_orch_fini
          <6> QED BY <5>3, <6>1, <6>3 DEF DoneIn, Asks
        <5> QED BY <1>a, <5>1, <5>2, <5>3 DEF FiniState
      <4> QED BY <4>1, <4>2
    <3>2. \A q \in Radios \ {r} : st'[q] = st[q] /\ orch'[q] = orch[q] /\ cmd'[q] = cmd[q]
      BY <2>5 DEF Finish, CmdTypes
    <3> QED BY <3>1, <3>2 DEF WaitInv
  <2>6. CASE CommandTimeout(r)
    <3>1. PICK t : t = cmd[r].type
      OBVIOUS
    <3> SUFFICES ASSUME NEW q \in Radios, st'[q] \in Asked
                 PROVE  orch'[q] = "progress" /\ st'[q] \in Asks(cmd'[q].type)
      BY DEF WaitInv
    <3>2. q \notin Active(t)
      <4> SUFFICES ASSUME q \in Active(t) PROVE FALSE
        OBVIOUS
      <4>1. st'[q] = CancelState(t, st[q]) /\ cmd[q].type = t
        BY <2>6, <3>1 DEF CommandTimeout, Active
      <4>2. st[q] \in Asked => st[q] \in Asks(t)
        BY <4>1 DEF WaitInv
      <4> QED BY <4>1, <4>2, CancelAsks
    <3>3. st'[q] = st[q] /\ orch'[q] = orch[q] /\ cmd' = cmd
      BY <2>6, <3>1, <3>2 DEF CommandTimeout, cancel_command
    <3> QED BY <3>3 DEF WaitInv
  <2>7. CASE SyncTimeout(r)
    BY <1>a, <2>7 DEF SyncTimeout, All, WaitInv
  <2>8. CASE RepeatTopoQuery(r)
    BY <1>a, <2>8, WaitKeeps DEF RepeatTopoQuery, All
  <2>9. CASE process_ctrl_state(r)
    BY <1>a, <2>9, ThreadSteps, WaitKeeps
  <2> QED BY <1>1, <2>1, <2>2, <2>3, <2>4, <2>5, <2>6, <2>7, <2>8, <2>9
<1>2. CASE HandleEvent
  BY <1>2, WaitKeeps DEF HandleEvent
<1>3. ASSUME NEW m \in net, AgentAnswers(m) \/ process_msg(m) PROVE WaitInv'
  <2>1. UNCHANGED <<orch, cmd>> /\ \A q \in Radios : st'[q] = st[q] \/ st'[q] \notin Asked
    BY <1>a, <1>3, HandlerSteps DEF AgentAnswers
  <2> QED BY <2>1, WaitKeeps
<1>4. CASE UNCHANGED vars
  BY <1>4, WaitKeeps DEF vars
<1> QED BY <1>1, <1>2, <1>3, <1>4 DEF Next

\* A radio without a command waits for no answer of a command that
\* cancel_command cleans up after: nobody would ask again or end the wait.
THEOREM WaitsForItsCommand == Spec => []NoOrphanWait
<1>1. Init => WaitInv
  <2> SUFFICES ASSUME Init PROVE WaitInv
    OBVIOUS
  <2>1. PICK s \in Starts : st = All(s.state)
    BY DEF Init
  <2>2. s.state \in {"unconfigured", "configured"}
    BY StartAssumption
  <2> QED BY <2>1, <2>2 DEF All, WaitInv, Asked
<1>2. WaitInv => NoOrphanWait
  BY DEF WaitInv, NoOrphanWait, Asked
<1> QED BY <1>1, <1>2, WaitNext, RadioTypes, PTL DEF Spec

-----------------------------------------------------------------------------
(* A radio accepts a renew, or somebody is about to bring it there.        *)

\* The states a command with clean-up leaves by an answer or at its time limit.
Pending(t) ==
    CASE t = "em_config" -> {"topo_sync_pending", "ap_cap_query_pending", "channel_query_pending",
                             "set_policy_pending", "channel_select_pending", "channel_scan_pending",
                             "topo_publish_pending"}
      [] t = "set_channel" -> {"channel_select_pending"}
      [] t = "set_policy" -> {"set_policy_pending"}
      [] OTHER -> {}
PendingStates == {"topo_sync_pending", "ap_cap_query_pending", "channel_query_pending",
                  "set_policy_pending", "channel_select_pending", "channel_scan_pending",
                  "topo_publish_pending"}

\* The radio has an M1 to handle, or its last one was refused.
HasM1(r) == (\E p \in m1 : p[1] = r) \/ r \in refused
Recovers(r) ==
    \/ st[r] \in Renewing
    \/ st[r] = "wsc_m1_pending" /\ HasM1(r)
    \/ st[r] = "topo_sync_pending" /\ mismatch
    \/ orch[r] = "progress" /\ st[r] \in Pending(cmd[r].type)

\* Inductive: until a command without clean-up is executed, none of its
\* requests or answers is on its way, none is in progress, and every radio, the
\* ones with a command too, is in a state that somebody leaves.
Clean ==
    /\ \A m \in net : m.msg \in CleanKinds
    /\ \A r \in Radios : orch[r] = "progress" => cmd[r].type \in Cleaned
    /\ \A r \in Radios : Recovers(r)
CleanInv == ~unclean => Clean

LEMMA CleanStates ==
    ASSUME TypeOK, Clean, NEW r \in Radios
    PROVE  st[r] \notin UncleanStates /\ st[r] \notin Elsewhere
<1>1. Recovers(r)
  BY DEF Clean
<1>2. Pending(cmd[r].type) \subseteq PendingStates
  BY DEF Pending, PendingStates
<1> QED BY <1>1, <1>2 DEF Recovers, PendingStates, Renewing, UncleanStates, Elsewhere

LEMMA RecoversKeeps ==
    ASSUME NEW r \in Radios, Recovers(r),
           st'[r] = st[r], orch'[r] = orch[r], cmd'[r] = cmd[r],
           HasM1(r) => HasM1(r)', mismatch => mismatch'
    PROVE  Recovers(r)'
  BY DEF Recovers

\* The state of the radio settles, by an answer or by the thread.
LEMMA CleanSettles ==
    ASSUME TypeOK, Clean, UNCHANGED <<orch, cmd, m1, refused>>,
           \A r \in Radios : st'[r] = st[r] \/ st'[r] \in Renewing,
           mismatch => (mismatch' \/ \A r \in Radios : st'[r] \in Renewing),
           \A m \in net' : m.msg \in CleanKinds
    PROVE  Clean'
<1>1. ASSUME NEW r \in Radios PROVE Recovers(r)'
  <2>1. CASE st'[r] \in Renewing
    BY <2>1 DEF Recovers
  <2>2. CASE st'[r] \notin Renewing
    <3>1. st'[r] = st[r] /\ (mismatch => mismatch')
      BY <2>2
    <3>2. Recovers(r) /\ (HasM1(r) => HasM1(r)')
      BY DEF Clean, HasM1
    <3> QED BY <3>1, <3>2, RecoversKeeps
  <2> QED BY <2>1, <2>2
<1> QED BY <1>1 DEF Clean

LEMMA ExecPending ==
    ASSUME NEW c \in Cmd, c.type \in Cleaned, NEW s \in State,
           c.type \in {"em_config", "cfg_renew"} => s \in Renewing
    PROVE  ExecState(c, s) \in Renewing \/ ExecState(c, s) \in Pending(c.type)
  BY DEF Cleaned, ExecState, Renewing, Pending

\* The answers of the agent to requests of commands with clean-up.
LEMMA CleanReplies ==
    ASSUME NEW m, m.msg \in CleanKinds, NEW a \in Replies(m)
    PROVE  a.msg \in CleanKinds
  BY DEF CleanKinds, Reply, Message, Replies, send_topology_response_msg, send_ap_cap_report_msg, send_bsta_cap_report_msg,
         send_client_cap_report_msg, send_channel_pref_report_msg, send_channel_sel_response_msg,
         send_operating_channel_report_msg, handle_channel_scan_req, handle_policy_cfg_req,
         handle_client_steering_req, send_btm_report_msg, handle_client_assoc_ctrl_req,
         send_associated_link_metrics_response, handle_unassoc_sta_query,
         handle_beacon_metrics_query, send_beacon_metrics_response

LEMMA CleanM1 ==
    ASSUME TypeOK, Clean, NEW r \in Radios,
           M1Arrives(r) \/ handle_autoconfig_wsc_m1(r) \/ M2Sent(r)
             \/ M1Refused(r) \/ M1Ignored(r)
    PROVE  Clean'
<1> USE TypeParts
<1>o. ASSUME NEW q \in Radios \ {r} PROVE HasM1(q) => HasM1(q)'
  <2> SUFFICES ASSUME HasM1(q) PROVE HasM1(q)'
    OBVIOUS
  <2>1. CASE \E p \in m1 : p[1] = q
    <3>1. PICK p \in m1 : p[1] = q
      BY <2>1
    <3>2. p # <<r, "received">> /\ p # <<r, "withdrawn">>
      BY <3>1
    <3>3. p \in m1'
      BY <3>2 DEF M1Arrives, handle_autoconfig_wsc_m1, M2Sent, M1Refused, M1Ignored
    <3> QED BY <3>1, <3>3 DEF HasM1
  <2>2. CASE q \in refused
    <3>1. q \in refused'
      BY <2>2 DEF M1Arrives, handle_autoconfig_wsc_m1, M2Sent, M1Refused, M1Ignored, history
    <3> QED BY <3>1 DEF HasM1
  <2> QED BY <2>1, <2>2 DEF HasM1
<1>1. ASSUME NEW q \in Radios \ {r} PROVE Recovers(q)'
  <2>1. st'[q] = st[q] /\ orch'[q] = orch[q] /\ cmd' = cmd /\ mismatch' = mismatch
    BY DEF M1Arrives, handle_autoconfig_wsc_m1, M2Sent, M1Refused, M1Ignored, CmdTypes
  <2> QED BY <1>o, <2>1, RecoversKeeps DEF Clean
<1>2. Recovers(r)'
  <2>1. CASE M1Arrives(r)
    <3>1. <<r, "received">> \in m1' /\ <<r, "received">>[1] = r
      BY <2>1 DEF M1Arrives
    <3>2. HasM1(r)'
      BY <3>1 DEF HasM1
    <3>3. st'[r] = "wsc_m2_sent" \/ st'[r] = "wsc_m1_pending"
      BY <2>1 DEF M1Arrives
    <3> QED BY <3>2, <3>3 DEF Recovers, Renewing
  <2>2. CASE handle_autoconfig_wsc_m1(r)
    <3>1. <<r, "withdrawn">> \in m1' /\ <<r, "withdrawn">>[1] = r
      BY <2>2 DEF handle_autoconfig_wsc_m1
    <3>2. HasM1(r)'
      BY <3>1 DEF HasM1
    <3>3. st'[r] = "unconfigured" \/ st'[r] = "wsc_m1_pending"
      BY <2>2 DEF handle_autoconfig_wsc_m1, Waiting
    <3> QED BY <3>2, <3>3 DEF Recovers, Renewing
  <2>3. CASE M2Sent(r)
    BY <2>3 DEF M2Sent, Recovers, Renewing
  <2>4. CASE M1Ignored(r)
    <3>1. UNCHANGED <<st, orch, cmd, mismatch>> /\ st[r] # "wsc_m1_pending" /\ Recovers(r)
      BY <2>4 DEF M1Ignored, Waiting, Clean
    <3> QED BY <3>1 DEF Recovers
  <2>5. CASE M1Refused(r)
    <3>1. r \in refused' /\ st'[r] = "wsc_m1_pending"
      BY <2>5 DEF M1Refused, Waiting
    <3> QED BY <3>1 DEF Recovers, HasM1
  <2> QED BY <2>1, <2>2, <2>3, <2>4, <2>5
<1>3. net' = net /\ cmd' = cmd /\ \A q \in Radios : orch'[q] = "progress" => orch[q] = "progress"
  BY DEF M1Arrives, handle_autoconfig_wsc_m1, M2Sent, M1Refused, M1Ignored, CmdTypes
<1> QED BY <1>1, <1>2, <1>3 DEF Clean

LEMMA CleanFinish ==
    ASSUME TypeOK, Clean, NEW r \in Radios, Finish(r)
    PROVE  Clean'
<1> USE TypeParts
<1>1. cmd' = cmd /\ net' = net /\ m1' = m1 /\ refused' = refused /\ mismatch' = mismatch
      /\ cmd[r].type \in Cleaned /\ orch[r] = "progress" /\ Recovers(r)
  BY DEF Finish, msgs, history, Clean
<1>2. Recovers(r)'
  <2>1. CASE Regressed(r)
    <3>1. orch'[r] = "progress" /\ st'[r] = "topo_sync_pending" /\ cmd'[r].type = "em_config"
      BY <1>1, <2>1 DEF Finish, Regressed
    <3> QED BY <3>1 DEF Recovers, Pending
  <2>2. CASE ~Regressed(r)
    <3>1. st'[r] = st[r] /\ is_em_ready_for_orch_fini(r)
      BY <1>1, <2>2 DEF Finish, FiniState, Cleaned
    <3>2. ASSUME st[r] \in Pending(cmd[r].type) PROVE FALSE
      <4>1. cmd[r].type \in {"em_config", "set_channel", "set_policy"}
        BY <3>2 DEF Pending
      <4>2. ~Exhausted(r)
        BY <4>1 DEF Exhausted, CounterOf
      <4>3. st[r] \in DoneIn(cmd[r].type)
        BY <3>1, <4>2 DEF is_em_ready_for_orch_fini
      <4> QED BY <3>2, <4>1, <4>3 DEF DoneIn, Pending
    <3> QED BY <1>1, <3>1, <3>2 DEF Recovers, HasM1
  <2> QED BY <2>1, <2>2
<1>3. ASSUME NEW q \in Radios \ {r} PROVE Recovers(q)'
  <2>1. st'[q] = st[q] /\ orch'[q] = orch[q] /\ (HasM1(q) => HasM1(q)')
    BY <1>1 DEF Finish, CmdTypes, HasM1
  <2> QED BY <1>1, <2>1, RecoversKeeps DEF Clean
<1>4. \A q \in Radios : orch'[q] = "progress" => orch[q] = "progress"
  BY DEF Finish, CmdTypes
<1> QED BY <1>1, <1>2, <1>3, <1>4 DEF Clean

LEMMA CleanExecute ==
    ASSUME TypeOK, Clean, NEW r \in Radios, Execute(r), ~unclean'
    PROVE  Clean'
<1> USE TypeParts
<1>1. /\ cmd' = cmd /\ net' = net /\ m1' = m1 /\ refused' = refused
      /\ mismatch' = mismatch /\ cmd[r].type \in Cleaned
  BY DEF Execute, msgs
<1>2. Recovers(r)'
  <2>1. cmd[r] \in Cmd /\ st[r] \in State
    BY DEF Execute, CmdTypes
  <2>2. cmd[r].type \in {"em_config", "cfg_renew"} => st[r] \in Renewing
    BY DEF Execute, is_em_ready_for_orch_exec
  <2>3. orch'[r] = "progress" /\ st'[r] = ExecState(cmd[r], st[r])
    BY DEF Execute, CmdTypes
  <2>4. st'[r] \in Renewing \/ st'[r] \in Pending(cmd[r].type)
    BY <1>1, <2>1, <2>2, <2>3, ExecPending
  <2> QED BY <1>1, <2>3, <2>4 DEF Recovers
<1>3. ASSUME NEW q \in Radios \ {r} PROVE Recovers(q)'
  <2>1. st'[q] = st[q] /\ orch'[q] = orch[q] /\ (HasM1(q) => HasM1(q)')
    BY <1>1 DEF Execute, CmdTypes, HasM1
  <2> QED BY <1>1, <2>1, RecoversKeeps DEF Clean
<1>4. \A q \in Radios \ {r} : orch'[q] = "progress" => orch[q] = "progress"
  BY DEF Execute, CmdTypes
<1> QED BY <1>1, <1>2, <1>3, <1>4 DEF Clean

LEMMA CleanTimeout ==
    ASSUME TypeOK, Clean, NEW r \in Radios, CommandTimeout(r) \/ SyncTimeout(r)
    PROVE  Clean'
<1> USE TypeParts
<1>1. cmd' = cmd /\ net' = net /\ m1' = m1 /\ refused' = refused
      /\ \A q \in Radios : orch'[q] = "progress" => orch[q] = "progress"
  BY DEF CommandTimeout, SyncTimeout, cancel_command
<1>2. ASSUME NEW q \in Radios PROVE Recovers(q)'
  <2>1. CASE SyncTimeout(r)
    BY <2>1 DEF SyncTimeout, All, Recovers, Renewing
  <2>2. CASE CommandTimeout(r)
    <3>1. PICK t : t = cmd[r].type
      OBVIOUS
    <3>2. mismatch' = mismatch /\ Recovers(q) /\ (HasM1(q) => HasM1(q)')
      BY <1>1, <2>2 DEF CommandTimeout, Clean, HasM1
    <3>3. CASE q \notin Active(t)
      <4>1. st'[q] = st[q] /\ orch'[q] = orch[q]
        BY <2>2, <3>1, <3>3 DEF CommandTimeout, cancel_command
      <4> QED BY <1>1, <3>2, <4>1, RecoversKeeps
    <3>4. CASE q \in Active(t)
      <4>1. st'[q] = CancelState(t, st[q]) /\ cmd[q].type = t
        BY <2>2, <3>1, <3>4 DEF CommandTimeout, Active
      <4>2. st'[q] \in Renewing \/ (st'[q] = st[q] /\ Pending(t) = {})
        BY <4>1 DEF CancelState, Renewing, Pending
      <4> QED BY <3>2, <4>1, <4>2 DEF Recovers
    <3> QED BY <3>3, <3>4
  <2> QED BY <2>1, <2>2
<1> QED BY <1>1, <1>2 DEF Clean

LEMMA CleanNext == TypeOK /\ CleanInv /\ [Next]_vars => CleanInv'
<1> SUFFICES ASSUME TypeOK, CleanInv, [Next]_vars, ~unclean' PROVE Clean'
  BY DEF CleanInv
<1> USE TypeParts
<1>c. Clean
  <2>1. ~unclean
    <3>1. ASSUME NEW r \in Radios, M1Arrives(r) \/ handle_autoconfig_wsc_m1(r) \/ M2Sent(r)
             \/ M1Refused(r) \/ M1Ignored(r)
          PROVE  unclean' = unclean
      BY <3>1 DEF M1Arrives, handle_autoconfig_wsc_m1, M2Sent, M1Refused, M1Ignored, history
    <3>2. ASSUME NEW r \in Radios, \/ \E c \in Commands : Submit(c, r)
                                   \/ Promote(r) \/ Finish(r) \/ Release(r)
          PROVE  unclean' = unclean
      BY <3>2 DEF Submit, Promote, Finish, Release, history
    <3>3. ASSUME NEW r \in Radios, CommandTimeout(r) \/ SyncTimeout(r) \/ RepeatTopoQuery(r)
          PROVE  unclean' = unclean
      BY <3>3 DEF CommandTimeout, SyncTimeout, RepeatTopoQuery, cancel_command, history
    <3>4. ASSUME NEW r \in Radios, process_ctrl_state(r) PROVE unclean' = unclean
      BY <3>4, ThreadSteps
    <3>5. ASSUME NEW r \in Radios, Execute(r) PROVE ~unclean
      BY <3>5 DEF Execute
    <3>6. HandleEvent => unclean' = unclean
      BY DEF HandleEvent, history
    <3>7. ASSUME NEW m \in net, AgentAnswers(m) \/ process_msg(m) PROVE unclean' = unclean
      BY <3>7, HandlerSteps DEF AgentAnswers, history
    <3>8. UNCHANGED vars => unclean' = unclean
      BY DEF vars, history
    <3> QED BY <3>1, <3>2, <3>3, <3>4, <3>5, <3>6, <3>7, <3>8 DEF Next
  <2> QED BY <2>1 DEF CleanInv
<1>u. ASSUME UNCHANGED <<st, orch, cmd, m1, refused, net, mismatch>> PROVE Clean'
  BY <1>c, <1>u DEF Clean, Recovers, HasM1
<1>1. ASSUME NEW r \in Radios,
             \/ M1Arrives(r) \/ handle_autoconfig_wsc_m1(r) \/ M2Sent(r)
             \/ M1Refused(r) \/ M1Ignored(r)
             \/ \E c \in Commands : Submit(c, r)
             \/ Promote(r) \/ Execute(r) \/ Finish(r) \/ Release(r)
             \/ CommandTimeout(r) \/ SyncTimeout(r) \/ RepeatTopoQuery(r)
             \/ process_ctrl_state(r)
      PROVE  Clean'
  <2>1. CASE M1Arrives(r) \/ handle_autoconfig_wsc_m1(r) \/ M2Sent(r)
             \/ M1Refused(r) \/ M1Ignored(r)
    BY <1>c, <2>1, CleanM1
  <2>2. CASE \E c \in Commands : Submit(c, r)
    BY <1>u, <2>2 DEF Submit, msgs, history
  <2>3. CASE Promote(r) \/ Release(r)
    <3>1. UNCHANGED <<st, m1, refused, net, mismatch>> /\ orch[r] # "progress" /\ orch'[r] # "progress"
      BY <2>3 DEF Promote, Release, msgs, history, CmdTypes
    <3>2. \A q \in Radios \ {r} : orch'[q] = orch[q] /\ cmd'[q] = cmd[q]
      BY <2>3 DEF Promote, Release, CmdTypes
    <3>3. \A q \in Radios : Recovers(q)'
      <4>1. Recovers(r)'
        BY <1>c, <3>1 DEF Clean, Recovers, HasM1
      <4>2. ASSUME NEW q \in Radios \ {r} PROVE Recovers(q)'
        BY <1>c, <3>1, <3>2 DEF Clean, Recovers, HasM1
      <4> QED BY <4>1, <4>2
    <3> QED BY <1>c, <3>1, <3>2, <3>3 DEF Clean
  <2>4. CASE Execute(r)
    BY <1>c, <2>4, CleanExecute
  <2>5. CASE Finish(r)
    BY <1>c, <2>5, CleanFinish
  <2>6. CASE CommandTimeout(r) \/ SyncTimeout(r)
    BY <1>c, <2>6, CleanTimeout
  <2>7. CASE RepeatTopoQuery(r)
    <3>1. UNCHANGED <<orch, cmd>> /\ mismatch' = TRUE /\ \A q \in Radios : st'[q] = "topo_sync_pending"
      BY <2>7 DEF RepeatTopoQuery, All, FlagTypes
    <3>2. \A m \in net' : m \in net \/ m.msg = "topo_query"
      BY <2>7 DEF RepeatTopoQuery, Send, Message
    <3>3. \A q \in Radios : Recovers(q)'
      BY <3>1 DEF Recovers
    <3> QED BY <1>c, <3>1, <3>2, <3>3 DEF Clean, CleanKinds
  <2>8. CASE process_ctrl_state(r)
    <3>1. st[r] \notin UncleanStates /\ cmd[r].type # "sta_assoc"
      BY <1>c, <2>8, CleanStates, ThreadSteps DEF Clean, Cleaned
    <3>2. \A m \in net' : m.msg \in CleanKinds
      BY <1>c, <2>8, <3>1, ThreadSteps DEF Clean
    <3>3. "configured" \in Renewing
      BY DEF Renewing
    <3>4. /\ UNCHANGED <<orch, cmd, m1, refused, mismatch>>
          /\ \A q \in Radios : st'[q] = st[q] \/ st'[q] \in Renewing
      BY <2>8, <3>3, ThreadSteps
    <3> QED BY <1>c, <3>2, <3>4, CleanSettles
  <2> QED BY <1>1, <2>1, <2>2, <2>3, <2>4, <2>5, <2>6, <2>7, <2>8
<1>2. CASE HandleEvent
  BY <1>u, <1>2 DEF HandleEvent, history
<1>3. ASSUME NEW m \in net, AgentAnswers(m) PROVE Clean'
  <2>1. m.msg \in CleanKinds
    BY <1>c DEF Clean
  <2>2. \A a \in net' : a.msg \in CleanKinds
    BY <1>3, <1>c, <2>1, CleanReplies DEF AgentAnswers, Clean
  <2>3. UNCHANGED <<st, orch, cmd, m1, refused, mismatch>>
    BY <1>3 DEF AgentAnswers, history
  <2> QED BY <1>c, <2>2, <2>3, CleanSettles
<1>4. ASSUME NEW m \in net, process_msg(m) PROVE Clean'
  <2>1. m.msg \in CleanKinds /\ \A a \in net' : a.msg \in CleanKinds
    BY <1>4, <1>c, HandlerSteps DEF Clean
  <2>2. m.msg \in {"topo_resp", "ap_cap_rprt", "channel_pref_rprt", "channel_sel_rsp",
                   "op_channel_rprt", "ack"}
    BY <1>4, <2>1 DEF CleanKinds, process_msg, Received, handle_topology_response, handle_ap_cap_report,
       handle_channel_pref_rprt, handle_client_cap_report, handle_bsta_cap_report, handle_channel_sel_rsp,
       handle_operating_channel_rprt, handle_associated_sta_link_metrics_resp,
       handle_client_steering_report, handle_unassoc_sta_link_metrics_resp,
       handle_beacon_metrics_response, handle_1905_ack
  <2>3. \A q \in Radios : st'[q] = st[q] \/ st'[q] \in Renewing
    BY <1>4, <1>c, <2>2, HandlerSteps, CleanStates
  <2>4. "topo_synchronized" \in Renewing
    BY DEF Renewing
  <2>5. mismatch => (mismatch' \/ \A q \in Radios : st'[q] \in Renewing)
    BY <1>4, <2>4, HandlerSteps
  <2>6. UNCHANGED <<orch, cmd, m1, refused>>
    BY <1>4, HandlerSteps
  <2> QED BY <1>c, <2>1, <2>3, <2>5, <2>6, CleanSettles
<1>5. CASE UNCHANGED vars
  BY <1>u, <1>5 DEF vars, msgs, history
<1> QED BY <1>1, <1>2, <1>3, <1>4, <1>5 DEF Next

\* As long as only commands with clean-up ran, a radio without a command accepts
\* a renew, has an M1 to handle, or waits for the topology with SSIDs that do
\* not match; or handle_autoconfig_wsc_m1 has refused its last M1.
THEOREM StaysRenewable == Spec => []Renewable
<1>1. Init => CleanInv
  <2> SUFFICES ASSUME Init PROVE Clean
    BY DEF CleanInv
  <2>1. PICK s \in Starts : st = All(s.state)
    BY DEF Init
  <2>2. s.state \in {"unconfigured", "configured"}
    BY StartAssumption
  <2>3. \A r \in Radios : Recovers(r)
    BY <2>1, <2>2 DEF All, Recovers, Renewing
  <2> QED BY <2>3 DEF Init, All, Clean
<1>2. CleanInv => Renewable
  BY DEF CleanInv, Clean, Recovers, HasM1, Renewable
<1> QED BY <1>1, <1>2, CleanNext, RadioTypes, PTL DEF Spec
=============================================================================
