---------------------------- MODULE AgentEvents -----------------------------
(***************************************************************************)
(* What the bus events of the agent submit to its orchestrator: the        *)
(* handlers of em_agent.cpp, the type their in-progress check looks for,   *)
(* the commands analyze_* builds and the ems build_candidates gives them.  *)
(* Every chain of the agent submits one command; sta_list builds a chain   *)
(* for every radio, each of them an event here.                            *)
(***************************************************************************)
EXTENDS Naturals

CONSTANTS
    Radios,   \* the radio ems of the agent
    AlEm      \* the em of its AL interface

\* Events whose handler asks is_cmd_type_in_progress before it submits.
checked == {"dev_init", "cfg_renew", "ap_cap_query", "onewifi_private_cb",
            "onewifi_mesh_sta_cb", "onewifi_radio_cb", "channel_pref_query",
            "sta_link_metrics", "btm_response", "beacon_report", "link_quality_report"}

unchecked == {"sta_list", "scan_result", "unassoc_sta_result", "vendor_data"}

AgentEvent == checked \cup unchecked

\* The type the check looks for; events that have no case give "none".
bus_2_cmd_type == [ev \in AgentEvent |->
    CASE ev \in {"dev_init", "cfg_renew", "ap_cap_query", "beacon_report"} \cup unchecked -> ev
      [] ev = "link_quality_report" -> "get_link_quality_report"
      [] OTHER -> "none"]

\* The type of the command the event submits (em_cmd_*_t constructors).
cmd_type == [ev \in AgentEvent |->
    CASE ev \in {"onewifi_private_cb", "onewifi_mesh_sta_cb"} -> "onewifi_cb"
      [] ev = "onewifi_radio_cb" -> "op_channel_report"
      [] ev = "btm_response" -> "btm_report"
      [] ev = "link_quality_report" -> "get_link_quality_report"
      [] OTHER -> ev]

cmd_types == {"none"} \cup {cmd_type[ev] : ev \in AgentEvent}

single == {{r} : r \in Radios}

\* The sets of candidates build_candidates may find for a command of type t.
build_candidates(t) ==
    CASE t = "dev_init" -> {Radios}
      [] t \in {"sta_link_metrics", "btm_report"} -> {Radios}   \* one data model, its stations
      [] t = "ap_cap_query" -> {Radios \cup {AlEm}}
      [] t \in {"channel_pref_query", "get_link_quality_report"} -> {{AlEm}}
      [] OTHER -> single
=============================================================================
