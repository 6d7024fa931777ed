------------------------------ MODULE MCEmOrch ------------------------------
(***************************************************************************)
(* Instances of the controller's orchestrator: two devices, one with two   *)
(* radios, and the events of CtrlEvents a configuration chooses.  Chains   *)
(* are cut to MaxChain commands, and the time limits (40 s for em_config,  *)
(* 10 s for the rest, 120 s for an SSID mismatch) to one second each.      *)
(***************************************************************************)
EXTENDS EmOrch, FiniteSetsExt

CONSTANTS e1, e2, e3, none, MaxChain

MCEms == {e1, e2, e3}

Ctrl == INSTANCE CtrlEvents WITH
    Radios <- MCEms, AlEm <- none,
    Device <- [e \in MCEms |-> IF e = e3 THEN 2 ELSE 1]

MCTypes == Ctrl!cmd_types
MCCmdType == [ev \in Events |-> Ctrl!cmd_type[ev]]
MCGuardType == [ev \in Events |-> Ctrl!bus_2_cmd_type[ev]]
MCChecked == Events \cap Ctrl!checked
MCCandidates == [ev \in Events |-> Ctrl!build_candidates(Ctrl!cmd_type[ev])]
MCChainLen == [ev \in Events |-> Min({MaxChain, Ctrl!chain_length[ev]})]
MCSiblings == [e \in MCEms |-> Ctrl!radios_of_device(e)]
MCTtl == [t \in MCTypes |-> 1]
=============================================================================
