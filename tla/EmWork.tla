------------------------------- MODULE EmWork --------------------------------
(***************************************************************************)
(* What the orchestrator promises the ems, without queues, types, time or  *)
(* radio states.  An em is idle or works for one command, together with    *)
(* the other ems of that command: they start together, all idle before;    *)
(* each of them executes, or is cancelled before it does; and they are     *)
(* idle again together, once each has finished or was cancelled.           *)
(*                                                                         *)
(* EmOrch and AgentRadio are both shown to implement this: the state       *)
(* machines of the agent contain the part of the orchestrator they need,   *)
(* and this is what they may not lose of it.                               *)
(***************************************************************************)
CONSTANT Ems

VARIABLES
    orch,    \* em_t::m_orch_state
    group    \* the ems of the command an em works for, none when it is idle

Init ==
    /\ orch = [e \in Ems |-> "idle"]
    /\ group = [e \in Ems |-> {}]

Start(S) ==
    /\ S # {}
    /\ \A e \in S : orch[e] = "idle"
    /\ orch' = [e \in Ems |-> IF e \in S THEN "pending" ELSE orch[e]]
    /\ group' = [e \in Ems |-> IF e \in S THEN S ELSE group[e]]

Execute(e) ==
    /\ orch[e] = "pending"
    /\ orch' = [orch EXCEPT ![e] = "progress"]
    /\ UNCHANGED group

\* One em is ready, or the commands of several are cancelled at once.
Finish(S) ==
    /\ \A e \in S : orch[e] # "idle"
    /\ orch' = [e \in Ems |-> IF e \in S THEN "fini" ELSE orch[e]]
    /\ UNCHANGED group

Release(S) ==
    /\ S # {}
    /\ \A e \in S : orch[e] = "fini" /\ group[e] = S
    /\ orch' = [e \in Ems |-> IF e \in S THEN "idle" ELSE orch[e]]
    /\ group' = [e \in Ems |-> IF e \in S THEN {} ELSE group[e]]

Next ==
    \/ \E S \in SUBSET Ems : Start(S) \/ Finish(S) \/ Release(S)
    \/ \E e \in Ems : Execute(e)

Spec == Init /\ [][Next]_<<orch, group>>
=============================================================================
