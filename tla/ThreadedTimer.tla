---------------------------- MODULE ThreadedTimer ----------------------------
(***************************************************************************)
(* The timer of utils/timer.cpp: one flag, `running', and one thread that  *)
(* sleeps, looks at the flag and calls back.  The owner thread starts it   *)
(* (execute_after, start_periodic), stops it or destroys it; each of these *)
(* begins with stop(), which clears the flag and joins the thread.  Every  *)
(* load and store of the flag is a step of its own, and so is the join.    *)
(***************************************************************************)
EXTENDS Naturals

CONSTANTS
  Results,    \* what the callback of start_periodic may return
  MaxStarts,  \* bound on how often the owner starts the timer
  MaxCalls    \* bound on how often the callback runs

ASSUME TimerAssumption ==
  /\ Results \subseteq BOOLEAN /\ Results # {}
  /\ MaxStarts \in Nat /\ MaxCalls \in Nat

VARIABLES
  running,  \* the atomic flag
  owner,    \* what the owner is in: "idle", the operation that waits in
            \* stop() for the thread, or "gone" (destroyed, or out of scope)
  thread,   \* where the timer's thread is; "ended" also before the first
  kind,     \* which of the two loops the thread runs
  starts, calls

vars == <<running, owner, thread, kind, starts, calls>>

\* "held" is an execute_after whose closure holds the last reference to the
\* timer, as in ec_enrollee.cpp:2122-2132.
Kinds == {"once", "held", "periodic"}
Stoppers == {"stop", "destroy"} \cup Kinds

TypeOK ==
  /\ running \in BOOLEAN
  /\ owner \in {"idle", "gone"} \cup Stoppers
  /\ thread \in {"test", "sleep", "call", "ending", "ended",
                 "terminated"}
  /\ kind \in Kinds
  /\ starts \in 0 .. MaxStarts /\ calls \in 0 .. MaxCalls

Init ==
  /\ running = FALSE /\ owner = "idle" /\ thread = "ended" /\ kind = "once"
  /\ starts = 0 /\ calls = 0

------------------------------------------------------------------------------
\* The owner.

\* The first half of stop(): the flag.  All four operations begin with it.
StopFlag(op) ==
  /\ owner = "idle" /\ thread # "terminated"
  /\ op \in Kinds => starts < MaxStarts
  /\ running' = FALSE
  /\ owner' = op
  /\ starts' = IF op \in Kinds THEN starts + 1 ELSE starts
  /\ UNCHANGED <<thread, kind, calls>>

\* Mutant: stop() clears the flag and does not wait for the thread.
JoinedNever == TRUE

\* Mutant: the start functions wait for the old thread, stop() alone does not.
JoinedOnStart == owner \notin Kinds \/ thread = "ended"

\* join() returns once the thread has ended (or there is none to join).
Joined == thread = "ended"

\* The rest of stop(), of the destructor, and of the two start functions:
\* the flag is set and the new thread begins.  An owner that gave the
\* closure its reference has the timer no more.
StopJoin ==
  /\ owner \in Stoppers /\ Joined
  /\ running' = (owner \in Kinds)
  /\ thread' = CASE owner \in {"once", "held"} -> "sleep"
                 [] owner = "periodic" -> "test"
                 [] OTHER -> thread
  /\ kind' = IF owner \in Kinds THEN owner ELSE kind
  /\ owner' = IF owner \in {"destroy", "held"} THEN "gone" ELSE "idle"
  /\ UNCHANGED <<starts, calls>>

------------------------------------------------------------------------------
\* The timer's thread.

\* Mutant: the loop of start_periodic is while (true).
ThreadTestNever ==
  /\ thread = "test"
  /\ thread' = "sleep"
  /\ UNCHANGED <<running, owner, kind, starts, calls>>

\* while (running.load()), of start_periodic.
ThreadTest ==
  /\ thread = "test"
  /\ thread' = IF running THEN "sleep" ELSE "ending"
  /\ UNCHANGED <<running, owner, kind, starts, calls>>

\* The sleep is over: if (running.load()).
AfterSleep == IF running THEN "call" ELSE IF kind = "periodic" THEN "test" ELSE "ending"

ThreadWake ==
  /\ thread = "sleep"
  /\ running => calls < MaxCalls
  /\ thread' = AfterSleep
  /\ calls' = IF running THEN calls + 1 ELSE calls
  /\ UNCHANGED <<running, owner, kind, starts>>

\* The callback returns.  When that of start_periodic returns false the
\* thread calls stop() itself: it is joinable, join() of oneself throws,
\* nothing catches it and the process terminates.
CallbackReturns(result) ==
  /\ thread = "call"
  /\ kind # "periodic" => result
  /\ thread' = IF kind # "periodic" THEN "ending" ELSE IF result THEN "test" ELSE "terminated"
  /\ running' = (running /\ result)
  /\ UNCHANGED <<owner, kind, starts, calls>>

\* The thread's function is over and its closure is destroyed.  If it held
\* the last reference, ~ThreadedTimer runs here and calls stop(),
\* which joins its own thread as above.
ThreadEnds ==
  /\ thread = "ending"
  /\ thread' = IF kind = "held" THEN "terminated" ELSE "ended"
  /\ running' = (running /\ kind # "held")
  /\ UNCHANGED <<owner, kind, starts, calls>>

ThreadStep ==
  \/ ThreadTest \/ ThreadWake \/ ThreadEnds
  \/ \E result \in Results \cup {TRUE} : CallbackReturns(result)

Next ==
  \/ \E op \in Stoppers : StopFlag(op)
  \/ StopJoin
  \/ ThreadStep

\* The sleep ends, the callback returns, and a join whose thread ended
\* returns.  The owner need not do anything.
Fairness == WF_vars(ThreadStep) /\ WF_vars(StopJoin)

Spec == Init /\ [][Next]_vars /\ Fairness

------------------------------------------------------------------------------
\* Properties.

\* From the moment stop() (or the destructor) has returned until the next
\* start, the callback is neither running nor about to run: what it
\* captured, the enrollee itself at ec_enrollee.cpp:120, may be destroyed.
QuietAfterStop ==
  owner \in {"idle", "gone"} /\ ~running => thread \in {"ended", "terminated"}

\* A timer that is started again has one thread: the flag is set by
\* start_periodic or execute_after only when the thread that was started
\* before has ended, else the old loop would see it set and run on.
OneThread == [][~running /\ running' => thread = "ended"]_vars

\* stop(), whose caller waits without a time limit, returns (as long as the
\* callback does), in the middle of a period too.  That is said of a process
\* whose timer thread never joins itself: where it does (timer.cpp:28, and the
\* destructor in the thread) the process is terminated and nothing returns.
StopReturns == [](thread # "terminated") => (owner \in Stoppers ~> owner \notin Stoppers)
==============================================================================
