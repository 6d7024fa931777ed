-------------------------------- MODULE EmMgr --------------------------------
(***************************************************************************)
(* The manager's event loop (em/em_mgr.cpp): one queue that every other    *)
(* thread pushes to, one thread that drains it and, only when it was empty *)
(* for 250 ms, runs the periodic work.  The data model may still be        *)
(* uninitialised when the loop starts (a controller whose database is      *)
(* empty); then only reset events and northbound requests are handled and  *)
(* every other event is freed unhandled.                                   *)
(***************************************************************************)
EXTENDS Naturals, Sequences, FiniteSets

CONSTANTS
  EventKinds,  \* the kinds of events other threads push
  Configured,  \* TRUE: the data model is initialised at the start
  MaxQueue,    \* bound on the queue
  Resettable   \* TRUE: a reset event may initialise the data model

Kinds == {"reset", "get_reset", "nb", "command", "commit", "renew"}

ASSUME EmMgrAssumption ==
  /\ EventKinds \subseteq Kinds
  /\ Configured \in BOOLEAN /\ Resettable \in BOOLEAN
  /\ MaxQueue \in Nat \ {0}

VARIABLES
  queue,    \* m_queue; an event is its kind and its origin
  current,  \* the event the manager thread has popped, or NoEvent
  ready,    \* is_data_model_initialized()
  started,  \* start_complete() has run
  demux,    \* m_tick_demultiplex
  quiet     \* timeouts since the last 1 s, 2 s and 5 s tick

mgrVars == <<queue, current, ready, started, demux, quiet>>

NoEvent == [kind |-> "none", from |-> "none"]
Event(kind, from) == [kind |-> kind, from |-> from]

\* EM_1_TOUT_MULT, EM_2_TOUT_MULT and EM_5_TOUT_MULT: 250 ms each.
Mult == [s1 |-> 4, s2 |-> 8, s5 |-> 20]

\* What the loop keeps, when the events come from these origins.
MgrTypes(origins) ==
  /\ queue \in Seq([kind : Kinds, from : origins])
  /\ Len(queue) <= MaxQueue + 1
  /\ current \in [kind : Kinds, from : origins] \cup {NoEvent}
  /\ ready \in BOOLEAN /\ started \in BOOLEAN
  /\ demux \in 0 .. Mult.s5 - 1
  /\ quiet \in [DOMAIN Mult -> Nat]

MgrInit ==
  /\ queue = <<>> /\ current = NoEvent
  /\ ready = Configured /\ started = FALSE
  /\ demux = 0 /\ quiet = [t \in DOMAIN Mult |-> 0]

------------------------------------------------------------------------------
\* push_to_queue, by io_process in whatever thread has the event.
push_to_queue(e) ==
  /\ Len(queue) < MaxQueue
  /\ queue' = Append(queue, e)

Push(kind) ==
  /\ push_to_queue(Event(kind, "bus"))
  /\ UNCHANGED <<current, ready, started, demux, quiet>>

\* Mutant: an event pushed last is popped first.
PopNewest ==
  /\ current = NoEvent /\ queue # <<>>
  /\ current' = queue[Len(queue)]
  /\ queue' = SubSeq(queue, 1, Len(queue) - 1)
  /\ UNCHANGED <<ready, started, demux, quiet>>

\* The loop pops under the lock and releases it for the handling.
Pop ==
  /\ current = NoEvent /\ queue # <<>>
  /\ current' = Head(queue)
  /\ queue' = Tail(queue)
  /\ UNCHANGED <<ready, started, demux, quiet>>

\* Which events are handled at all.
Accepted(e) == e.kind \in {"reset", "get_reset", "nb"} \/ ready

\* handle_event of the popped event, as far as the loop is concerned: a
\* reset whose commands are accepted initialises the data model
\* (em_orch_ctrl.cpp:476); nothing makes it uninitialised again.
HandleReset ==
  ready' \in {ready} \cup (IF current.kind = "reset" /\ Resettable THEN {TRUE} ELSE {})

Handle ==
  /\ current # NoEvent
  /\ IF Accepted(current) THEN HandleReset ELSE UNCHANGED ready
  /\ current' = NoEvent
  /\ UNCHANGED <<queue, started, demux, quiet>>

\* Mutant: m_tick_demultiplex is not reset after the 5 s tick.
WrapNever(d) == d

\* Mutant: the 2 s tick resets the counter.
WrapEarly(d) == IF d % Mult.s2 = 0 THEN 0 ELSE d

\* m_tick_demultiplex after the tick: the 5 s tick resets it.
Wrap(d) == IF d % Mult.s5 = 0 THEN 0 ELSE d

\* handle_timeout: the tick counter, and which of the slower ticks run.
handle_timeout ==
  LET d == demux + 1
  IN  /\ demux' = Wrap(d)
      /\ quiet' = [t \in DOMAIN Mult |-> IF d % Mult[t] = 0 THEN 0 ELSE quiet[t] + 1]

\* Mutant: the periodic work waits for start_complete(), which is part of it.
TimeoutStarted ==
  /\ current = NoEvent /\ queue = <<>>
  /\ UNCHANGED <<current, ready, queue, started>>
  /\ IF ready /\ started THEN handle_timeout ELSE UNCHANGED <<demux, quiet>>

\* The wait of 250 ms ended and nothing was pushed.  The first time that the
\* data model is initialised, start_complete() pushes a renew event of its own.
Timeout ==
  /\ current = NoEvent /\ queue = <<>>
  /\ UNCHANGED <<current, ready>>
  /\ IF ready
     THEN /\ started' = TRUE
          /\ queue' = IF started THEN queue ELSE Append(queue, Event("renew", "start"))
          /\ handle_timeout
     ELSE UNCHANGED <<queue, started, demux, quiet>>

MgrNext ==
  \/ \E kind \in EventKinds : Push(kind)
  \/ Pop \/ Handle \/ Timeout

\* The manager thread runs: a wait ends, an event is popped and handled.
\* Nobody has to push anything.
MgrFairness == WF_mgrVars(Pop) /\ WF_mgrVars(Handle) /\ WF_mgrVars(Timeout)

MgrSpec == MgrInit /\ [][MgrNext]_mgrVars /\ MgrFairness

------------------------------------------------------------------------------
\* Properties.

\* The 1 s and the 5 s tick come with every 4th and every 20th quiet period,
\* across the reset of the counter that the two share with the 2 s tick:
\* neither the reset nor the third rate makes one of them late.  (Of the 2 s
\* tick it cannot be said: 5 s is no multiple of its period, and the reset
\* makes every other one come after 3 s.)
SteadyTicks == \A t \in {"s1", "s5"} : quiet[t] < Mult[t]

\* What was pushed is reached, however many events are pushed after it: a
\* reset, the only way out of an empty database, is not overtaken for ever.
ResetReached ==
  (\E i \in 1 .. Len(queue) : queue[i].kind = "reset") ~> current.kind = "reset"
==============================================================================
