---------------------------- MODULE MCAgentOrch -----------------------------
(***************************************************************************)
(* An instance of the agent's orchestrator: two radios and the AL em, the  *)
(* events of AgentEvents a configuration chooses, the time limit of 10 s   *)
(* cut to one second.  The agent has no em_config commands.                *)
(***************************************************************************)
EXTENDS EmOrch

CONSTANTS r1, r2, al, none

MCRadios == {r1, r2}

Agent == INSTANCE AgentEvents WITH Radios <- MCRadios, AlEm <- al

MCEms == MCRadios \cup {al}
MCTypes == Agent!cmd_types \cup {"em_config"}
MCCmdType == [ev \in Events |-> Agent!cmd_type[ev]]
MCGuardType == [ev \in Events |-> Agent!bus_2_cmd_type[ev]]
MCChecked == Events \cap Agent!checked
MCCandidates == [ev \in Events |-> Agent!build_candidates(Agent!cmd_type[ev])]
MCChainLen == [ev \in Events |-> 1]
MCSiblings == [e \in MCEms |-> MCEms]
MCTtl == [t \in MCTypes |-> 1]
=============================================================================
