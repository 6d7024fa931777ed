------------------------------ MODULE EmThread ------------------------------
(***************************************************************************)
(* The threads of the ems beside the orchestrator.  em_t::proto_timeout of *)
(* an em looks at m_orch_state and, when the em is in progress, goes on    *)
(* with m_cmd (handle_ctrl_state, handle_agent_state).  Neither field is   *)
(* guarded by a lock, and the manager thread writes both: the look and the *)
(* use are two steps.                                                      *)
(***************************************************************************)
EXTENDS EmOrch

VARIABLE entered   \* ems whose thread is past the check of m_orch_state

threadVars == <<vars, entered>>

ThreadInit == Init /\ entered = {}

\* proto_timeout: "no state handling is allowed if not in progress"
Enter(e) ==
    /\ e \notin entered
    /\ orch[e] = "progress"
    /\ entered' = entered \cup {e}
    /\ UNCHANGED vars

\* handle_ctrl_state, handle_agent_state: assert(m_cmd != NULL) and its use
UseCmd(e) ==
    /\ e \in entered
    /\ emCmd[e] # NoCmd
    /\ entered' = entered \ {e}
    /\ UNCHANGED vars

ThreadNext ==
    \/ Next /\ UNCHANGED entered
    \/ \E e \in Ems : Enter(e) \/ UseCmd(e)

ThreadSpec == ThreadInit /\ [][ThreadNext]_threadVars

\* assert(m_cmd != NULL) in handle_ctrl_state and handle_agent_state: a
\* thread that found its em in progress finds its command, too.
CmdStillThere == \A e \in entered : emCmd[e] # NoCmd
=============================================================================
