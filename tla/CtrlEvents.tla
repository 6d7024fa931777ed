----------------------------- MODULE CtrlEvents -----------------------------
(***************************************************************************)
(* What the bus events of the controller submit to the orchestrator: the   *)
(* handlers of em_ctrl.cpp, the type the in-progress check looks for       *)
(* (bus_2_cmd_type), the commands analyze_* builds and the ems             *)
(* build_candidates gives them.  EmOrch takes these tables as constants.   *)
(*                                                                         *)
(* sta_assoc is one event with four chains, chosen by what is known of the *)
(* station (analyze_sta_assoc_event): sta_assoc_known only publishes,      *)
(* sta_assoc_new asks its capabilities, sta_assoc_mld synchronises the     *)
(* topology, sta_assoc does all three.                                     *)
(***************************************************************************)
EXTENDS Naturals

CONSTANTS
    Radios,   \* the radio ems
    AlEm,     \* the em of the AL interface
    Device    \* [Radios -> devices]: the AL MAC a radio belongs to

\* Events whose handler asks is_cmd_type_in_progress before it submits.
checked == {"set_ssid", "set_radio", "set_channel", "channel_select", "scan_channel",
            "set_policy", "steer_sta", "disassoc_sta", "mld_reconfig",
            "unassoc_sta_query", "beacon_query", "client_assoc_ctrl_req"}

unchecked == {"m2_tx", "cfg_renew", "bsta_cap_req",
              "sta_assoc", "sta_assoc_new", "sta_assoc_mld", "sta_assoc_known"}

CtrlEvent == checked \cup unchecked

\* The type the check looks for; events that have no case give "none".
bus_2_cmd_type == [ev \in CtrlEvent |->
    CASE ev = "channel_select" -> "set_channel"
      [] ev = "m2_tx" -> "em_config"
      [] ev \in checked \ {"channel_select"} -> ev
      [] ev = "cfg_renew" -> ev
      [] OTHER -> "none"]

\* The type of the commands the event submits (em_cmd_*_t constructors).
cmd_type == [ev \in CtrlEvent |->
    CASE ev = "channel_select" -> "set_channel"
      [] ev = "m2_tx" -> "em_config"
      [] ev = "steer_sta" -> "sta_steer"
      [] ev = "disassoc_sta" -> "sta_disassoc"
      [] ev = "bsta_cap_req" -> "bsta_cap"
      [] ev \in {"sta_assoc_new", "sta_assoc_mld", "sta_assoc_known"} -> "sta_assoc"
      [] OTHER -> ev]

cmd_types == {"none"} \cup {cmd_type[ev] : ev \in CtrlEvent}
                      \cup {bus_2_cmd_type[ev] : ev \in CtrlEvent}

\* Operations of the chain that are submitted (m_orch_desc[].submit).
chain_length == [ev \in CtrlEvent |->
    CASE ev = "m2_tx" -> 7
      [] ev = "sta_assoc" -> 3
      [] ev \in {"sta_assoc_new", "sta_assoc_mld", "set_policy"} -> 2
      [] OTHER -> 1]

single == {{r} : r \in Radios}

\* The sets of candidates build_candidates may find for a command of type t.
build_candidates(t) ==
    CASE t = "set_ssid" -> {Radios}
      [] t = "cfg_renew" -> single \cup {Radios}     \* one radio, or the null MAC
      [] t = "mld_reconfig" -> {{AlEm}}
      [] t \in {"set_channel", "set_radio", "sta_disassoc"} -> SUBSET Radios \ {{}}
      [] OTHER -> single

\* get_all_em_for_al_mac
radios_of_device(r) == {q \in Radios : Device[q] = Device[r]}
=============================================================================
