------------------------------- MODULE EmOrch -------------------------------
(***************************************************************************)
(* The orchestrator em_orch_t (src/src/orch/em_orch.cpp) of the controller *)
(* and of the agent.  A bus event is turned into a chain of commands; each *)
(* command names its candidate ems (one em_t object per radio) and waits   *)
(* in m_pending until all of them are idle, then runs in m_active until    *)
(* every candidate has finished or has been cancelled.                     *)
(*                                                                         *)
(* Threads.  Events and the 250 ms tick run in the manager thread, one     *)
(* after the other (em_mgr.cpp, start).  The tick is split here at every   *)
(* candidate it visits, because an em thread may call                      *)
(* remove_em_config_cmd_for_em at any point of it.                         *)
(*                                                                         *)
(* A command is named by its submission number.  Commands are only ever    *)
(* pushed to m_pending in that order, so the set `pending` ordered by <    *)
(* is the queue.  m_active is a sequence, oldest first.                    *)
(*                                                                         *)
(* Left to the classes em_orch_ctrl_t and em_orch_agent_t, and therefore   *)
(* nondeterministic here: whether an em is ready to execute or to finish.  *)
(***************************************************************************)
EXTENDS Naturals, Sequences, FiniteSets

CONSTANTS
    Ems,          \* the ems of the manager (m_em_map)
    Types,        \* command types (em_cmd_type_t)
    Events,       \* bus events that submit commands
    CmdType,      \* [Events -> Types]: type of the commands analyze_* builds
    GuardType,    \* [Events -> Types]: what bus_2_cmd_type makes of the event
    Checked,      \* events whose handler asks is_cmd_type_in_progress first
    ByRadio,      \* types that question is asked of per radio (cfg_renew)
    Candidates,   \* [Events -> SUBSET SUBSET Ems]: what build_candidates finds
    ChainLen,     \* [Events -> Nat]: submitted commands of the chain
    ConfigType,   \* em_cmd_type_em_config
    HoldTypes,    \* types the agent re-arms while DPP onboarding is on
    Siblings,     \* [Ems -> SUBSET Ems]: radios of the same AL MAC
    Ttl,          \* [Types -> Nat]: time limit of orch_transient
    MismatchTtl,  \* bound on the extra time of an SSID mismatch recovery
    AgeCap,       \* bound: ages are not told apart from here on
    MaxCmds,      \* bound: commands submitted in a behaviour
    NoCmd         \* the NULL em_t::m_cmd

Ids == 1..MaxCmds

ASSUME BoundAssumption == MaxCmds \in Nat /\ MismatchTtl \in Nat /\ AgeCap \in Nat

ASSUME TypesAssumption ==
    /\ ConfigType \in Types
    /\ ByRadio \subseteq Types
    /\ HoldTypes \subseteq Types \ {ConfigType}
    /\ Ttl \in [Types -> Nat]
    /\ \A t \in Types : Ttl[t] + MismatchTtl < AgeCap
    /\ Siblings \in [Ems -> SUBSET Ems]
    /\ \A e \in Ems : e \in Siblings[e]
    /\ NoCmd \notin Ids

ASSUME EventsAssumption ==
    /\ CmdType \in [Events -> Types]
    /\ GuardType \in [Events -> Types]
    /\ Checked \subseteq Events
    /\ ChainLen \in [Events -> Nat \ {0}]
    /\ Candidates \in [Events -> SUBSET SUBSET Ems]
    /\ \A ev \in Events : {} \notin Candidates[ev]

\* An em_config command has exactly one candidate (build_candidates).
ASSUME ConfigAssumption ==
    \A ev \in Events : CmdType[ev] = ConfigType =>
        \A S \in Candidates[ev] : \E e \in Ems : S = {e}

VARIABLES
    next,     \* number of commands submitted so far
    pending,  \* m_pending
    active,   \* m_active, oldest first
    type,     \* em_cmd_t::m_type
    cand,     \* em_cmd_t::m_em_candidates
    batch,    \* first command of the chain the command was submitted in
    age,      \* seconds since set_start_time, up to AgeCap
    count,    \* m_cmd_map: em_cmd_stats_t::count, 0 where there is no entry
    time,     \* m_cmd_map: em_cmd_stats_t::time
    orch,     \* em_t::m_orch_state
    emCmd,    \* em_t::m_cmd
    pos,      \* handle_timeout: command it is visiting, 0 outside the tick
    todo,     \* handle_timeout: candidates of it still to visit
    ret       \* handle_timeout: all candidates visited so far have finished

queues  == <<next, pending, active, type, cand, batch>>
stats   == <<age, count, time>>
emState == <<orch, emCmd>>
tick    == <<pos, todo, ret>>
vars    == <<queues, stats, emState, tick>>

-----------------------------------------------------------------------------
(* Helpers.                                                                *)

InActive == {active[i] : i \in 1..Len(active)}
Queued == pending \cup InActive
QueuedOf(t) == {c \in Queued : type[c] = t}

\* queue_remove of the i-th oldest element
RemoveAt(s, i) == [j \in 1..(Len(s) - 1) |-> IF j < i THEN s[j] ELSE s[j + 1]]

\* em_cmd_stats_t of the map after pop_stats for every command of D: the
\* entry is freed when its count reaches 0.
PopCountPerEm(D) == [t \in Types |->   \* mutant: one pop per candidate
    count[t] - Cardinality(UNION {cand[c] : c \in {d \in D : type[d] = t}})]
PopCount(D) == [t \in Types |-> count[t] - Cardinality({c \in D : type[c] = t})]
PopTime(D) == [t \in Types |-> IF PopCount(D)[t] = 0 THEN 0 ELSE time[t]]

-----------------------------------------------------------------------------
Init ==
    /\ next = 0
    /\ pending = {}
    /\ active = << >>
    /\ type = [c \in Ids |-> ConfigType]
    /\ cand = [c \in Ids |-> {}]
    /\ batch = [c \in Ids |-> 0]
    /\ age = [c \in Ids |-> 0]
    /\ count = [t \in Types |-> 0]
    /\ time = [t \in Types |-> 0]
    /\ orch = [e \in Ems |-> "idle"]
    /\ emCmd = [e \in Ems |-> NoCmd]
    /\ pos = 0
    /\ todo = {}
    /\ ret = TRUE

(***************************************************************************)
(* Events: the handlers of em_ctrl.cpp and em_agent.cpp, submit_commands,  *)
(* submit_command and push_stats.  An event that is refused, or that finds *)
(* no candidates, leaves no trace in the orchestrator.                     *)
(***************************************************************************)
InProgressActiveOnly(ev, S) ==           \* mutant: forgets m_pending
    \E c \in InActive : type[c] = GuardType[ev] /\ S \cap cand[c] # {}

\* There is an entry in m_cmd_map and, where the question is per radio, also
\* a queued command of the type for the event's radio.  The variant by type
\* (em_config, set_policy) then looks for a queued command of the type;
\* StatsExact below says that there always is one.
is_cmd_type_in_progress(ev, S) ==
    /\ count[GuardType[ev]] > 0
    /\ GuardType[ev] \in ByRadio =>
        \E c \in QueuedOf(GuardType[ev]) : S \cap cand[c] # {}

submit_commands(ev, S) ==
    LET new == (next + 1)..(next + ChainLen[ev]) IN
    /\ next' = next + ChainLen[ev]
    /\ pending' = pending \cup new
    /\ type' = [c \in Ids |-> IF c \in new THEN CmdType[ev] ELSE type[c]]
    /\ cand' = [c \in Ids |-> IF c \in new THEN S ELSE cand[c]]
    /\ batch' = [c \in Ids |-> IF c \in new THEN next + 1 ELSE batch[c]]
    /\ count' = [count EXCEPT ![CmdType[ev]] = @ + ChainLen[ev]]

HandleEvent(ev, S) ==
    /\ pos = 0
    /\ ev \in Checked => ~is_cmd_type_in_progress(ev, S)
    /\ next + ChainLen[ev] <= MaxCmds
    /\ submit_commands(ev, S)
    /\ UNCHANGED <<active, age, time, emState, tick>>

-----------------------------------------------------------------------------
(***************************************************************************)
(* The tick.  VisitFrom starts the visit of the i-th command of the active *)
(* queue act, or ends the tick when there is none.                         *)
(***************************************************************************)
VisitFrom(act, cands, i) ==
    /\ pos' = IF i <= Len(act) THEN i ELSE 0
    /\ todo' = IF i <= Len(act) THEN cands[act[i]] ELSE {}
    /\ ret' = TRUE

SomeCandidateIdle(c) ==                  \* mutant: one idle em is enough
    \E e \in cand[c] : orch[e] = "idle"

eligible_for_active(c) == \A e \in cand[c] : orch[e] = "idle"

PromotableNewest(c) ==                   \* mutant: scans from the wrong end
    /\ c \in pending
    /\ eligible_for_active(c)
    /\ \A d \in pending : eligible_for_active(d) => d <= c

\* The oldest eligible command: the first one the scan of m_pending meets.
Promotable(c) ==
    /\ c \in pending
    /\ eligible_for_active(c)
    /\ \A d \in pending : eligible_for_active(d) => c <= d

\* handle_timeout, first half: at most one command becomes active.
TickPromote(c) ==
    /\ pos = 0
    /\ Promotable(c)
    /\ pending' = pending \ {c}
    /\ active' = Append(active, c)
    /\ orch' = [e \in Ems |-> IF e \in cand[c] THEN "pending" ELSE orch[e]]
    /\ age' = [age EXCEPT ![c] = 0]
    /\ VisitFrom(active', cand, 1)
    /\ UNCHANGED <<next, type, cand, batch, count, time, emCmd>>

TickNoPromote ==
    /\ pos = 0
    /\ active # << >>
    /\ \A c \in pending : ~eligible_for_active(c)
    /\ VisitFrom(active, cand, 1)
    /\ UNCHANGED <<queues, stats, emState>>

Current == active[pos]

VisitedLastOnly(e, done) ==              \* mutant: ret = instead of ret &=
    /\ pos > 0
    /\ e \in todo
    /\ todo' = todo \ {e}
    /\ ret' = done
    /\ UNCHANGED pos

Visited(e, done) ==
    /\ pos > 0
    /\ e \in todo
    /\ todo' = todo \ {e}
    /\ ret' = (ret /\ done)
    /\ UNCHANGED pos

\* orchestrate: the em is ready to execute; em_t::orch_execute.
Execute(e) ==
    /\ Visited(e, FALSE)
    /\ orch[e] = "pending"
    /\ emCmd' = [emCmd EXCEPT ![e] = Current]
    /\ orch' = [orch EXCEPT ![e] = "progress"]
    /\ UNCHANGED <<queues, stats>>

\* orchestrate: the em is ready to finish.
Finish(e) ==
    /\ Visited(e, FALSE)
    /\ orch[e] = "progress"
    /\ orch' = [orch EXCEPT ![e] = "fini"]
    /\ UNCHANGED <<queues, stats, emCmd>>

\* orchestrate: the em has finished or was cancelled.
Finished(e) ==
    /\ Visited(e, TRUE)
    /\ orch[e] = "fini"
    /\ UNCHANGED <<queues, stats, emState>>

update_stats(c) == [time EXCEPT ![type[c]] = IF @ < age[c] THEN age[c] ELSE @]

\* orchestrate: not ready; update_stats, then an orch_transient that waits.
Waiting(e) == orch[e] \in {"pending", "progress"}

Wait(e) ==
    /\ Visited(e, FALSE)
    /\ Waiting(e)
    /\ time' = update_stats(Current)
    /\ LET t == type[Current] IN
        time'[t] <= Ttl[t] + (IF t = ConfigType THEN MismatchTtl ELSE 0)
    /\ UNCHANGED <<queues, age, count, emState>>

\* em_orch_agent_t::orch_transient while DPP onboarding runs: dev_init is
\* given a new start time.
Hold(e) ==
    /\ Visited(e, FALSE)
    /\ Waiting(e)
    /\ type[Current] \in HoldTypes
    /\ age' = [age EXCEPT ![Current] = 0]
    /\ time' = [time EXCEPT ![type[Current]] = 0]
    /\ UNCHANGED <<queues, count, emState>>

CancelledInProgress(S) ==                \* mutant: skips ems not yet executing
    [e \in Ems |-> IF e \in S /\ orch[e] = "progress" THEN "fini" ELSE orch[e]]

\* set_orch_state(em_orch_state_cancel), which em_t maps to fini
Cancelled(S) == [e \in Ems |-> IF e \in S THEN "fini" ELSE orch[e]]

\* The ems that run a command of type t
Running(t) == UNION {cand[c] : c \in {d \in InActive : type[d] = t}}

DropPendingNoPop(D) ==                   \* mutant: no pop_stats
    /\ pending' = pending \ D
    /\ cand' = [c \in Ids |-> IF c \in D THEN {} ELSE cand[c]]
    /\ UNCHANGED <<next, active, type, batch, age, emCmd, count>>

DropPendingClears(D) ==                  \* mutant: destroyed with its candidates
    /\ pending' = pending \ D
    /\ cand' = [c \in Ids |-> IF c \in D THEN {} ELSE cand[c]]
    /\ count' = PopCount(D)
    /\ emCmd' = [e \in Ems |-> IF \E c \in D : e \in cand[c] THEN NoCmd ELSE emCmd[e]]
    /\ UNCHANGED <<next, active, type, batch, age>>

\* Commands leave m_pending: their candidates are removed first, so that
\* destroy_command has no em left to clear.
DropPending(D) ==
    /\ pending' = pending \ D
    /\ cand' = [c \in Ids |-> IF c \in D THEN {} ELSE cand[c]]
    /\ count' = PopCount(D)
    /\ UNCHANGED <<next, active, type, batch, age, emCmd>>

\* orch_transient past the limit: cancel_command(type)
cancel_command(e) ==
    /\ Visited(e, FALSE)
    /\ Waiting(e)
    /\ LET t == type[Current] IN
        /\ update_stats(Current)[t] > Ttl[t]
        /\ DropPending({c \in pending : type[c] = t})
        /\ orch' = Cancelled(Running(t))
    /\ time' = update_stats(Current)

\* The commands and running ems of type ConfigType that belong to ems of S
\* are withdrawn, and the time of the type starts again.
WithdrawConfig(S) ==
    LET D == {c \in pending : type[c] = ConfigType /\ cand[c] \subseteq S} IN
    /\ DropPending(D)
    /\ orch' = Cancelled(S \cap Running(ConfigType))
    /\ time' = [time EXCEPT ![ConfigType] = 0]

\* orch_transient of em_orch_ctrl_t while the topology is synchronised:
\* cancel_command(type, em_radios) for the radios of the same device.  When
\* it does so depends on the timer of the SSID mismatch, whose unsigned
\* arithmetic may also expire early: any time here.
cancel_command_radios(e) ==
    /\ Visited(e, FALSE)
    /\ Waiting(e)
    /\ type[Current] = ConfigType
    /\ WithdrawConfig(Siblings[e])

\* All candidates visited: the command is done, or stays for the next tick.
VisitNext ==
    /\ pos > 0
    /\ todo = {}
    /\ ~ret
    /\ VisitFrom(active, cand, pos + 1)
    /\ UNCHANGED <<queues, stats, emState>>

\* handle_timeout: queue_remove, pop_stats, all ems idle, destroy_command.
Complete ==
    /\ pos > 0
    /\ todo = {}
    /\ ret
    /\ active' = RemoveAt(active, pos)
    /\ count' = PopCount({Current})
    /\ time' = PopTime({Current})
    /\ orch' = [e \in Ems |-> IF e \in cand[Current] THEN "idle" ELSE orch[e]]
    /\ emCmd' = [e \in Ems |-> IF e \in cand[Current] THEN NoCmd ELSE emCmd[e]]
    /\ cand' = [cand EXCEPT ![Current] = {}]
    /\ VisitFrom(active', cand, pos)
    /\ UNCHANGED <<next, pending, type, batch, age>>

-----------------------------------------------------------------------------
(***************************************************************************)
(* The em thread of e, having answered an M1 (em_configuration.cpp), calls *)
(* remove_em_config_cmd_for_em.                                            *)
(***************************************************************************)
remove_em_config_cmd_for_em(e) ==
    /\ WithdrawConfig({e})
    /\ UNCHANGED tick

\* The clock: one second passes for the commands being timed.
Second ==
    /\ \E c \in InActive : age[c] < AgeCap
    /\ age' = [c \in Ids |-> IF c \in InActive /\ age[c] < AgeCap
                             THEN age[c] + 1 ELSE age[c]]
    /\ UNCHANGED <<queues, count, time, emState, tick>>

Visit == \/ \E e \in Ems : \/ Execute(e) \/ Finish(e) \/ Finished(e) \/ Wait(e)
                           \/ Hold(e) \/ cancel_command(e)
                           \/ cancel_command_radios(e)
         \/ VisitNext
         \/ Complete

handle_timeout == (\E c \in Ids : TickPromote(c)) \/ TickNoPromote \/ Visit

Next ==
    \/ \E ev \in Events : \E S \in Candidates[ev] : HandleEvent(ev, S)
    \/ handle_timeout
    \/ \E e \in Ems : remove_em_config_cmd_for_em(e)
    \/ Second

Spec == Init /\ [][Next]_vars

(***************************************************************************)
(* The manager thread ticks every 250 ms whenever its event queue is quiet *)
(* (em_mgr_t::start), a tick runs to its end, and time passes.  Nothing is *)
(* assumed of the ems: they may never become ready.                        *)
(***************************************************************************)
FairSpec == Spec /\ WF_vars(handle_timeout) /\ WF_vars(Second)

-----------------------------------------------------------------------------
TypeOK ==
    /\ next \in 0..MaxCmds
    /\ pending \subseteq Ids
    /\ active \in Seq(Ids)
    /\ type \in [Ids -> Types]
    /\ cand \in [Ids -> SUBSET Ems]
    /\ batch \in [Ids -> Nat]
    /\ age \in [Ids -> Nat]
    /\ count \in [Types -> Nat]
    /\ time \in [Types -> Nat]
    /\ orch \in [Ems -> {"idle", "pending", "progress", "fini"}]
    /\ emCmd \in [Ems -> Ids \cup {NoCmd}]
    /\ pos \in 0..Len(active)
    /\ todo \subseteq Ems
    /\ ret \in BOOLEAN

\* The statistics of m_cmd_map, kept up by hand in push_stats, pop_stats and
\* four cancellation paths, count the queued commands of every type: the
\* asserts of update_stats and orch_transient hold, and
\* is_cmd_type_in_progress answers from them correctly.
StatsExact == \A t \in Types : count[t] = Cardinality(QueuedOf(t))

\* An em works for at most one active command, and is busy exactly while it
\* is a candidate of one (handle_timeout, eligible_for_active).
OneCommandPerEm ==
    /\ \A i, j \in 1..Len(active) : i # j => cand[active[i]] \cap cand[active[j]] = {}
    /\ \A e \in Ems : orch[e] # "idle" <=> \E c \in InActive : e \in cand[c]

\* handle_ctrl_state and handle_agent_state assert m_cmd # NULL when the
\* orchestration state is progress, and act on that command: it is still
\* active and the em is still its candidate, whatever was cancelled meanwhile.
ProgressHasCmd ==
    \A e \in Ems : orch[e] = "progress" =>
        /\ emCmd[e] \in InActive
        /\ e \in cand[emCmd[e]]

\* The steps of a chain run in the order analyze_* built them: a command is
\* never active while an older one that needs no other em still waits.
ChainInOrder ==
    \A c \in pending : \A d \in InActive : c < d => ~(cand[c] \subseteq cand[d])

\* An event whose handler refuses it while its command type is in progress
\* (em_cmd_out_status_prev_cmd_in_progress) is never queued twice, not even
\* for one radio where it is refused per radio.
OneChainPerCheckedType ==
    \A ev \in Checked : \A c, d \in QueuedOf(CmdType[ev]) :
        batch[c] = batch[d] \/ (CmdType[ev] \in ByRadio /\ cand[c] \cap cand[d] = {})

\* The candidates of a command are released together, once the last of them
\* has finished; a finished or cancelled em does nothing else before that.
ReleasedTogether ==
    [][\A e \in Ems :
        orch[e] = "fini" /\ orch'[e] # "fini" =>
            \E c \in InActive :
                /\ e \in cand[c]
                /\ \A f \in cand[c] : orch[f] = "fini" /\ orch'[f] = "idle"]_vars

\* The ems of the active command that names e
group == [e \in Ems |-> UNION {cand[c] : c \in {d \in InActive : e \in cand[d]}}]

Work == INSTANCE EmWork

\* The tick and the cancellations, split over many steps and two threads, do
\* to the ems only what EmWork allows.
WorksTogether == Work!Spec

\* Every submitted command leaves the orchestrator: nothing waits for ever on
\* an em that does not answer, nor on the command that em is stuck in.
EveryCommandLeaves == \A c \in Ids : c \in Queued ~> c \notin Queued
=============================================================================
