---------------------------- MODULE CtrlCliProofs ----------------------------
(***************************************************************************)
(* The manager with its command socket, for any clients, requests, events  *)
(* and length of the queue: its ticks, the types of what it holds, and     *)
(* whose command an answer is for.  One counter is reset by one of the     *)
(* three rates it is divided into; the invariant says what is left in it   *)
(* for the 1 s tick.                                                       *)
(***************************************************************************)
EXTENDS CtrlCli, SequenceTheorems, TLAPS

\* Where the counter stands: the 5 s tick resets it, and 4 divides 20, so that
\* neither of the two rates has anything left behind by the reset.
Demuxed ==
  /\ demux \in 0 .. 19
  /\ quiet \in [{"s1", "s2", "s5"} -> Nat]
  /\ quiet["s1"] = demux % 4
  /\ quiet["s5"] = demux

LEMMA MultValues ==
  /\ DOMAIN Mult = {"s1", "s2", "s5"}
  /\ Mult["s1"] = 4 /\ Mult["s2"] = 8 /\ Mult["s5"] = 20
  BY DEF Mult

LEMMA TicksStart == Init => Demuxed
  BY MultValues DEF Init, MgrInit, Demuxed

\* A tick moves the counter and the distances on.
LEMMA TickKeeps ==
  ASSUME Demuxed, handle_timeout
  PROVE  Demuxed'
<1> DEFINE d == demux + 1
<1>1. d \in 1 .. 20
  BY DEF Demuxed
<1>2. demux' = IF d % 20 = 0 THEN 0 ELSE d
  BY MultValues DEF handle_timeout, Wrap
<1>3. quiet' = [t \in {"s1", "s2", "s5"} |-> IF d % Mult[t] = 0 THEN 0 ELSE quiet[t] + 1]
  BY MultValues DEF handle_timeout
<1>4. /\ quiet'["s1"] = IF d % 4 = 0 THEN 0 ELSE quiet["s1"] + 1
      /\ quiet'["s5"] = IF d % 20 = 0 THEN 0 ELSE quiet["s5"] + 1
  BY <1>3, MultValues
<1>5. quiet' \in [{"s1", "s2", "s5"} -> Nat]
  BY <1>3 DEF Demuxed
<1>6. /\ demux' \in 0 .. 19
      /\ quiet'["s5"] = demux'
  BY <1>1, <1>2, <1>4 DEF Demuxed
<1>7. quiet'["s1"] = demux' % 4
  BY <1>1, <1>2, <1>4 DEF Demuxed
<1> QED BY <1>5, <1>6, <1>7 DEF Demuxed

\* Only the manager's tick touches the counter, whatever listener, clients and
\* bus do.
LEMMA TicksOnly == [Next]_vars => handle_timeout \/ UNCHANGED <<demux, quiet>>
<1> SUFFICES ASSUME Next PROVE handle_timeout \/ UNCHANGED <<demux, quiet>>
  BY DEF vars, mgrVars
<1>1. CASE \E c \in Clients : Accept(c) \/ \E kind \in Requests : Command(c, kind)
  BY <1>1 DEF Accept, Command, mgrVars
<1>2. CASE HandshakeFails \/ ReadFails \/ ServePush \/ ServeRefuse \/ ServeClose
  BY <1>2 DEF HandshakeFails, ReadFails, ServePush, ServeRefuse, ServeClose, mgrVars
<1>3. CASE \E kind \in EventKinds : BusPush(kind)
  BY <1>3 DEF BusPush, Push
<1>4. CASE ManagerPop \/ ManagerHandle \/ ManagerClose
  BY <1>4 DEF ManagerPop, Pop, ManagerHandle, Handle, ManagerClose, mgrVars
<1>5. CASE ManagerTimeout
  BY <1>5 DEF ManagerTimeout, Timeout
<1> QED BY <1>1, <1>2, <1>3, <1>4, <1>5 DEF Next

\* The rates of em_mgr_t::handle_timeout hold for ever: the 1 s and the 5 s
\* tick with every 4th and 20th quiet period.
THEOREM TicksAreSteady == Spec => []SteadyTicks
<1>1. Demuxed /\ [Next]_vars => Demuxed'
  <2> SUFFICES ASSUME Demuxed, [Next]_vars PROVE Demuxed'
    OBVIOUS
  <2>1. CASE handle_timeout
    BY <2>1, TickKeeps
  <2>2. CASE UNCHANGED <<demux, quiet>>
    BY <2>2 DEF Demuxed
  <2> QED BY <2>1, <2>2, TicksOnly
<1>2. Demuxed => SteadyTicks
  <2> SUFFICES ASSUME Demuxed PROVE SteadyTicks
    OBVIOUS
  <2>1. quiet["s1"] < 4 /\ quiet["s5"] < 20
    BY DEF Demuxed
  <2> QED BY <2>1, MultValues DEF SteadyTicks, Mult
<1> QED BY TicksStart, <1>1, <1>2, PTL DEF Spec

------------------------------------------------------------------------------
\* Events and connections.

Events == [kind : Kinds, from : Origins]

Records == [kind : Requests \cup {"none"}, got : Origins \cup {"none", "closed", "failed"}]

\* What the listener serves is a client that has sent a command, so that what
\* it pushes is an event that the manager knows.
Typed ==
  /\ queue \in Seq(Events) /\ Len(queue) <= MaxQueue + 1
  /\ current \in Events \cup {NoEvent}
  /\ ready \in BOOLEAN /\ started \in BOOLEAN
  /\ ssl \in Clients \cup {NoClient}
  /\ client \in [Clients -> Records]
  /\ listener \in [at : {"accept", "serve", "close"}, whom : Clients \cup {NoClient}]
  /\ backlog \subseteq Clients /\ replying \in BOOLEAN
  /\ crossed \subseteq Clients
  /\ \A c \in backlog : client[c].kind \in Requests
  /\ listener.at # "accept" => listener.whom \in Clients
  /\ listener.at = "serve" => client[listener.whom].kind \in Requests

LEMMA TypedStart == Init => Typed
<1> SUFFICES ASSUME Init PROVE Typed
  OBVIOUS
<1>1. queue \in Seq(Events) /\ Len(queue) <= MaxQueue + 1
  BY EmMgrAssumption DEF Init, MgrInit
<1>2. client \in [Clients -> Records]
  BY DEF Init, Records
<1>3. /\ listener \in [at : {"accept", "serve", "close"}, whom : Clients \cup {NoClient}]
      /\ listener.at = "accept"
  BY DEF Init, NotServing
<1> QED BY <1>1, <1>2, <1>3, EmMgrAssumption DEF Init, MgrInit, Typed

\* What a client got changes, and nothing else.
LEMMA GotTyped ==
  ASSUME client \in [Clients -> Records], NEW c \in Clients,
         NEW got \in Origins \cup {"closed", "failed"},
         client' = [client EXCEPT ![c].got = got]
  PROVE  /\ client' \in [Clients -> Records]
         /\ \A d \in Clients : client'[d].kind = client[d].kind
         /\ \A d \in Clients : d # c => client'[d] = client[d]
         /\ client'[c].got = got
<1>1. PICK new : new = [client[c] EXCEPT !.got = got]
  OBVIOUS
<1>2. new \in Records /\ new.kind = client[c].kind /\ new.got = got
  BY <1>1 DEF Records
<1>3. client' = [client EXCEPT ![c] = new]
  BY <1>1
<1>4. client'[c] = new /\ \A d \in Clients : d # c => client'[d] = client[d]
  BY <1>3
<1>5. client' \in [Clients -> Records]
  BY <1>2, <1>3
<1> QED BY <1>2, <1>4, <1>5

\* What a write or a close leaves of the clients.
LEMMA ResultTyped ==
  ASSUME Typed, NEW from \in Origins \cup {"failed"}, WriteResult(from) \/ CloseResult
  PROVE  /\ client' \in [Clients -> Records]
         /\ \A c \in Clients : client'[c].kind = client[c].kind
<1>1. PICK got \in Origins \cup {"closed", "failed"} :
        client' = client \/ (ssl \in Clients /\ client' = [client EXCEPT ![ssl].got = got])
  BY DEF WriteResult, CloseResult, Typed
<1>2. CASE client' = client
  BY <1>2 DEF Typed
<1>3. CASE ssl \in Clients /\ client' = [client EXCEPT ![ssl].got = got]
  BY <1>3, GotTyped DEF Typed
<1> QED BY <1>1, <1>2, <1>3

\* The events that are pushed are of the kinds that the manager knows.
LEMMA PushTyped ==
  ASSUME Typed, NEW e \in Events, push_to_queue(e)
  PROVE  queue' \in Seq(Events) /\ Len(queue') <= MaxQueue + 1
  BY EmMgrAssumption, AppendProperties DEF Typed, push_to_queue

LEMMA TypedKept == Typed /\ [Next]_vars => Typed'
<1> SUFFICES ASSUME Typed, [Next]_vars PROVE Typed'
  OBVIOUS
<1> USE CtrlCliAssumption, EmMgrAssumption
<1>1. CASE \E c \in Clients : Accept(c)
  <2> PICK c \in Clients : Accept(c)
    BY <1>1
  <2>1. client[c].kind \in Requests
    BY DEF Accept, Typed
  <2>2. crossed' \subseteq Clients
    BY DEF Accept, Typed, NoClient
  <2> QED BY <2>1, <2>2 DEF Accept, Typed, mgrVars
<1>2. CASE \E c \in Clients, kind \in Requests : Command(c, kind)
  <2> PICK c \in Clients, kind \in Requests : Command(c, kind)
    BY <1>2
  <2>1. /\ client' \in [Clients -> Records]
        /\ client'[c].kind = kind
        /\ \A d \in Clients \ {c} : client'[d] = client[d]
    BY DEF Command, Typed, Records
  <2>2. \A d \in backlog' : client'[d].kind \in Requests
    BY <2>1 DEF Command, Typed
  <2>3. listener'.at = "serve" => client'[listener'.whom].kind \in Requests
    BY <2>1 DEF Command, Typed
  <2> QED BY <2>1, <2>2, <2>3 DEF Command, Typed, mgrVars
<1>3. CASE ServePush
  <2> DEFINE e == Event(client[listener.whom].kind, listener.whom)
  <2>1. e \in Events
    BY <1>3 DEF ServePush, Typed, Event, Events, Kinds, Origins
  <2>2. queue' \in Seq(Events) /\ Len(queue') <= MaxQueue + 1
    BY <1>3, <2>1, PushTyped DEF ServePush
  <2>3. /\ client' \in [Clients -> Records]
        /\ \A c \in Clients : client'[c].kind = client[c].kind
    <3>1. CASE client' = client
      BY <3>1 DEF Typed
    <3>2. CASE WriteResult(listener.whom)
      <4>1. listener.whom \in Origins
        BY <1>3 DEF ServePush, Typed, Origins
      <4> QED BY <4>1, <3>2, ResultTyped
    <3> QED BY <1>3, <3>1, <3>2 DEF ServePush
  <2>4. /\ listener' \in [at : {"accept", "serve", "close"}, whom : Clients \cup {NoClient}]
        /\ listener'.at # "serve"
        /\ listener'.at # "accept" => listener'.whom \in Clients
    BY <1>3 DEF ServePush, Typed, NotServing
  <2> QED BY <1>3, <2>2, <2>3, <2>4 DEF ServePush, Typed
<1>4. CASE ServeRefuse
  <2>1. /\ client' \in [Clients -> Records]
        /\ \A c \in Clients : client'[c].kind = client[c].kind
    <3>1. listener.whom \in Origins
      BY <1>4 DEF ServeRefuse, Typed, Origins
    <3> QED BY <1>4, <3>1, ResultTyped DEF ServeRefuse
  <2> QED BY <1>4, <2>1 DEF ServeRefuse, Typed, mgrVars
<1>5. CASE ServeClose
  <2>1. /\ client' \in [Clients -> Records]
        /\ \A c \in Clients : client'[c].kind = client[c].kind
    <3>1. "bus" \in Origins
      BY DEF Origins
    <3> QED BY <1>5, <3>1, ResultTyped DEF ServeClose
  <2> QED BY <1>5, <2>1 DEF ServeClose, CloseResult, Typed, mgrVars, NotServing
<1>12. CASE HandshakeFails
  <2>1. PICK c \in Clients : c = listener.whom
    BY <1>12 DEF HandshakeFails, Typed
  <2>2. /\ client' \in [Clients -> Records]
        /\ \A d \in Clients : client'[d].kind = client[d].kind
    <3>1. client' = client \/ client' = [client EXCEPT ![c].got = "failed"]
      BY <1>12, <2>1 DEF HandshakeFails
    <3> QED BY <3>1, GotTyped DEF Typed
  <2> QED BY <1>12, <2>2 DEF HandshakeFails, Typed, mgrVars, NotServing
<1>13. CASE ReadFails
  <2>1. /\ client' \in [Clients -> Records]
        /\ \A c \in Clients : client'[c].kind = client[c].kind
    BY <1>13, ResultTyped DEF ReadFails
  <2> QED BY <1>13, <2>1 DEF ReadFails, Typed, mgrVars
<1>6. CASE \E kind \in EventKinds : BusPush(kind)
  <2> PICK kind \in EventKinds : BusPush(kind)
    BY <1>6
  <2>1. queue' \in Seq(Events) /\ Len(queue') <= MaxQueue + 1
    <3>1. Event(kind, "bus") \in Events
      BY DEF Event, Events, Origins
    <3> QED BY <3>1, PushTyped DEF BusPush, Push
  <2>2. crossed' \subseteq Clients
    BY DEF BusPush, Typed, NoClient
  <2> QED BY <2>1, <2>2 DEF BusPush, Push, Typed
<1>7. CASE ManagerPop
  <2>1. queue \in Seq(Events) /\ queue # <<>>
    BY <1>7 DEF ManagerPop, Pop, Typed
  <2>2. /\ Head(queue) \in Events
        /\ Tail(queue) \in Seq(Events) /\ Len(Tail(queue)) <= Len(queue)
    BY <2>1, HeadTailProperties
  <2> QED BY <1>7, <2>2 DEF ManagerPop, Pop, cliVars, Typed
<1>8. CASE ManagerTimeout
  <2>1. queue' \in Seq(Events) /\ Len(queue') <= MaxQueue + 1
    <3>1. CASE queue' = queue
      BY <3>1 DEF Typed
    <3>2. CASE queue' # queue
      <4>1. Event("renew", "start") \in Events
        BY DEF Event, Events, Kinds, Origins
      <4>2. queue = <<>> /\ queue' = Append(queue, Event("renew", "start"))
        BY <1>8, <3>2 DEF ManagerTimeout, Timeout
      <4> QED BY <4>1, <4>2, AppendProperties DEF Typed
    <3> QED BY <3>1, <3>2
  <2>2. started' \in BOOLEAN
    BY <1>8 DEF ManagerTimeout, Timeout, Typed
  <2> QED BY <1>8, <2>1, <2>2 DEF ManagerTimeout, Timeout, cliVars, Typed
<1>9. CASE ManagerHandle
  <2>1. /\ client' \in [Clients -> Records]
        /\ \A c \in Clients : client'[c].kind = client[c].kind
    <3>1. WriteResult(current.from) => current.from \in Origins
      BY <1>9 DEF ManagerHandle, Handle, Typed, Events
    <3>2. CASE client' = client
      BY <3>2 DEF Typed
    <3>3. CASE WriteResult(current.from)
      BY <3>1, <3>3, ResultTyped
    <3> QED BY <1>9, <3>2, <3>3 DEF ManagerHandle
  <2>2. ready' \in BOOLEAN
    BY <1>9 DEF ManagerHandle, Handle, HandleReset, Typed
  <2> QED BY <1>9, <2>1, <2>2 DEF ManagerHandle, Handle, Typed
<1>10. CASE ManagerClose
  <2>1. /\ client' \in [Clients -> Records]
        /\ \A c \in Clients : client'[c].kind = client[c].kind
    <3>1. "bus" \in Origins
      BY DEF Origins
    <3> QED BY <1>10, <3>1, ResultTyped DEF ManagerClose
  <2> QED BY <1>10, <2>1 DEF ManagerClose, CloseResult, Typed, mgrVars
<1>11. CASE UNCHANGED vars
  BY <1>11 DEF vars, mgrVars, cliVars, Typed
<1> QED BY <1>1, <1>2, <1>3, <1>4, <1>5, <1>6, <1>7, <1>8, <1>9, <1>10, <1>11, <1>12, <1>13
  DEF Next

\* The queue of em_mgr.cpp holds events that handle_event knows, also those
\* that the listener makes of what a client has sent, and start_complete()'s
\* own event is at most one more than the bound of the others.
THEOREM ManagerTypes == Spec => []TypeOK
<1>1. Demuxed /\ [Next]_vars => Demuxed'
  BY TickKeeps, TicksOnly DEF Demuxed
<1>2. Typed /\ Demuxed => TypeOK
  BY MultValues DEF Typed, Demuxed, MgrTypes, TypeOK, Events, Records
<1> QED BY TypedStart, TypedKept, TicksStart, <1>1, <1>2, PTL DEF Spec

------------------------------------------------------------------------------
\* Whose answer a client reads.

\* No answer but the one to c's own command is queued, handled or being
\* written, and none that is on its way to being closed leaves c waiting.
Own(c) ==
  /\ \A i \in 1 .. Len(queue) : Answers(queue[i].kind) => queue[i].from = c
  /\ Answers(current.kind) => current.from = c
  /\ replying => ~Waiting(c)

\* m_ssl is the listener's own connection, or has been closed, from accept()
\* to the end of the listener's own answer; as long as it is the connection of
\* a client that has not crossed, the answers to come are that client's.
Owned ==
  /\ OwnAnswer
  /\ ssl # NoClient => client[ssl].kind # "none"
  /\ listener.at # "accept" => ssl \in {listener.whom, NoClient}
  /\ listener.at = "close" /\ ssl # NoClient => ~Waiting(ssl)
  /\ ssl # NoClient /\ ssl \notin crossed => Own(ssl)

\* A write or a close changes what the client got that m_ssl is, no other's,
\* and nothing of a client that waits no more.
LEMMA ResultOwn ==
  ASSUME Typed, OwnAnswer, NEW from \in Origins \cup {"failed"},
         crossed' = crossed,
         \/ /\ WriteResult(from)
            /\ ssl # NoClient /\ ssl \notin crossed => from \in {ssl, "failed"}
         \/ /\ CloseResult
            /\ ssl # NoClient /\ ssl \notin crossed => ~Waiting(ssl)
  PROVE  OwnAnswer' /\ \A c \in Clients : ~Waiting(c) => client'[c] = client[c]
<1>1. CASE client' = client
  BY <1>1 DEF OwnAnswer
<1>2. CASE client' # client
  <2>1. ssl \in Clients /\ Waiting(ssl)
    BY <1>2 DEF WriteResult, CloseResult, Typed
  <2>2. PICK got \in Origins \cup {"closed", "failed"} :
          /\ client' = [client EXCEPT ![ssl].got = got]
          /\ ssl \notin crossed => got \in {ssl, "failed"}
    <3>0. ssl # NoClient
      BY <2>1, CtrlCliAssumption DEF NoClient
    <3>1. CASE /\ WriteResult(from)
               /\ ssl # NoClient /\ ssl \notin crossed => from \in {ssl, "failed"}
      BY <1>2, <2>1, <3>0, <3>1 DEF WriteResult
    <3>2. CASE /\ CloseResult
               /\ ssl # NoClient /\ ssl \notin crossed => ~Waiting(ssl)
      BY <1>2, <2>1, <3>0, <3>2 DEF CloseResult
    <3> QED BY <3>1, <3>2
  <2>3. /\ client'[ssl].got = got
        /\ \A c \in Clients : c # ssl => client'[c] = client[c]
    BY <2>1, <2>2, GotTyped DEF Typed
  <2> QED BY <2>1, <2>2, <2>3 DEF OwnAnswer
<1> QED BY <1>1, <1>2

\* After a write nobody waits on the connection any more.
LEMMA WriteEnds ==
  ASSUME Typed, NEW from \in Origins \cup {"failed"}, WriteResult(from),
         ssl' = ssl, ssl # NoClient
  PROVE  ~Waiting(ssl)'
<1>1. from # "none"
  BY CtrlCliAssumption DEF Origins
<1>2. ssl \in Clients
  BY DEF Typed
<1>3. CASE Waiting(ssl)
  <2>1. client' = [client EXCEPT ![ssl].got = from]
    BY <1>3 DEF WriteResult
  <2>2. client'[ssl].got = from
    BY <1>2, <2>1, GotTyped DEF Typed
  <2> QED BY <1>1, <2>2 DEF Waiting
<1>4. CASE ~Waiting(ssl)
  BY <1>4 DEF WriteResult, Waiting
<1> QED BY <1>3, <1>4

\* The listener's own answer goes to the client that it serves.
LEMMA ListenerOwn ==
  ASSUME Typed, Owned, NEW from \in {listener.whom, "failed"}, WriteResult(from),
         listener.at = "serve", listener'.at = "close", listener'.whom = listener.whom,
         UNCHANGED <<ssl, current, replying, crossed>>,
         ssl # NoClient /\ ssl \notin crossed =>
           \A i \in 1 .. Len(queue') : Answers(queue'[i].kind) => queue'[i].from = ssl
  PROVE  Owned'
<1>1. from \in Origins \cup {"failed"}
  BY DEF Typed, Origins
<1>2. ssl # NoClient /\ ssl \notin crossed => from \in {ssl, "failed"}
  BY DEF Owned
<1>3. OwnAnswer' /\ \A c \in Clients : ~Waiting(c) => client'[c] = client[c]
  BY <1>1, <1>2, ResultOwn DEF Owned
<1>4. ssl # NoClient => ~Waiting(ssl)'
  BY <1>1, WriteEnds
<1>5. \A c \in Clients : client'[c].kind = client[c].kind
  BY <1>1, ResultTyped
<1>6. ssl # NoClient => client'[ssl].kind # "none"
  BY <1>5 DEF Owned, Typed
<1>7. ssl # NoClient /\ ssl \notin crossed => Own(ssl)'
  BY <1>4 DEF Owned, Own
<1> QED BY <1>3, <1>4, <1>6, <1>7 DEF Owned

LEMMA OwnedKept == Typed /\ Owned /\ [Next]_vars => Owned'
<1> SUFFICES ASSUME Typed, Owned, [Next]_vars PROVE Owned'
  OBVIOUS
<1> USE CtrlCliAssumption
<1>1. ASSUME NEW c \in Clients, Accept(c) PROVE Owned'
  <2>1. OwnAnswer'
    BY <1>1 DEF Accept, Owned, OwnAnswer
  <2>2. client'[c].kind # "none"
    BY <1>1 DEF Accept, Typed
  <2>3. c \notin crossed' => ~Outstanding
    BY <1>1 DEF Accept
  <2>4. c \notin crossed' => Own(c)'
    BY <1>1, <2>3 DEF Accept, Outstanding, Own, mgrVars
  <2>5. ssl' = c /\ listener'.whom = c /\ listener'.at = "serve"
    BY <1>1 DEF Accept
  <2>6. c \notin crossed' => Own(ssl)'
    BY <2>4, <2>5 DEF Own, Waiting
  <2> QED BY <2>1, <2>2, <2>5, <2>6 DEF Owned
<1>2. ASSUME NEW c \in Clients, NEW kind \in Requests, Command(c, kind) PROVE Owned'
  <2>1. ssl # NoClient => ssl \in Clients /\ ssl # c
    BY <1>2 DEF Command, Owned, Typed
  <2>2. /\ client'[c].got = "none"
        /\ \A d \in Clients : d # c => client'[d] = client[d]
    BY <1>2 DEF Command, Typed
  <2>3. OwnAnswer'
    BY <1>2, <2>2 DEF Command, Owned, OwnAnswer
  <2>4. ssl # NoClient => client'[ssl] = client[ssl]
    BY <2>1, <2>2
  <2> QED BY <1>2, <2>3, <2>4 DEF Command, mgrVars, Owned, Own, Waiting
<1>3. CASE ServePush
  <2>1. PICK c \in Clients : c = listener.whom
    BY <1>3 DEF ServePush, Typed
  <2>2. PICK e \in Events : e = Event(client[c].kind, c) /\ e.from = c
    BY <1>3, <2>1 DEF ServePush, Typed, Event, Events, Kinds, Origins
  <2>3. queue \in Seq(Events) /\ queue' = Append(queue, e)
    BY <1>3, <2>1, <2>2 DEF ServePush, push_to_queue, Typed
  <2>4. ASSUME ssl # NoClient, ssl \notin crossed
        PROVE  \A i \in 1 .. Len(queue') : Answers(queue'[i].kind) => queue'[i].from = ssl
    <3>1. ssl = c
      BY <1>3, <2>1, <2>4 DEF ServePush, Owned
    <3>2. \A i \in 1 .. Len(queue) : Answers(queue[i].kind) => queue[i].from = ssl
      BY <2>4 DEF Owned, Own
    <3> QED BY <2>2, <2>3, <3>1, <3>2, AppendProperties
  <2>5. CASE listener' = NotServing /\ UNCHANGED client
    <3>1. ssl # NoClient /\ ssl \notin crossed => Own(ssl)'
      BY <1>3, <2>4, <2>5 DEF ServePush, Owned, Own, Waiting
    <3> QED BY <1>3, <2>5, <3>1 DEF ServePush, Owned, OwnAnswer, NotServing
  <2>6. CASE listener' = [listener EXCEPT !.at = "close"] /\ WriteResult(c)
    <3>1. listener'.at = "close" /\ listener'.whom = listener.whom
      BY <2>6 DEF Typed
    <3> QED BY <1>3, <2>1, <2>4, <2>6, <3>1, ListenerOwn DEF ServePush
  <2> QED BY <1>3, <2>1, <2>5, <2>6 DEF ServePush
<1>4. CASE ServeRefuse \/ ReadFails
  <2>1. PICK from \in {listener.whom, "failed"} : WriteResult(from)
    BY <1>4 DEF ServeRefuse, ReadFails
  <2>2. /\ listener.at = "serve"
        /\ listener'.at = "close" /\ listener'.whom = listener.whom
        /\ UNCHANGED <<queue, ssl, current, replying, crossed>>
    BY <1>4 DEF ServeRefuse, ReadFails, Typed, mgrVars
  <2>3. ssl # NoClient /\ ssl \notin crossed =>
           \A i \in 1 .. Len(queue') : Answers(queue'[i].kind) => queue'[i].from = ssl
    BY <2>2 DEF Owned, Own
  <2> QED BY <2>1, <2>2, <2>3, ListenerOwn
<1>5. CASE ServeClose \/ ManagerClose
  <2>1. ssl # NoClient /\ ssl \notin crossed => ~Waiting(ssl)
    BY <1>5 DEF ServeClose, ManagerClose, Owned, Own
  <2>2. CloseResult /\ crossed' = crossed
    BY <1>5 DEF ServeClose, ManagerClose
  <2>3. OwnAnswer'
    <3>1. "bus" \in Origins \cup {"failed"}
      BY DEF Origins
    <3> QED BY <2>1, <2>2, <3>1, ResultOwn DEF Owned
  <2> QED BY <2>2, <2>3 DEF CloseResult, Owned
<1>6. CASE HandshakeFails
  <2>1. PICK c \in Clients : c = listener.whom
    BY <1>6 DEF HandshakeFails, Typed
  <2>2. client' = client \/ client' = [client EXCEPT ![c].got = "failed"]
    BY <1>6, <2>1 DEF HandshakeFails
  <2>3. OwnAnswer'
    <3>1. CASE client' = client
      BY <1>6, <3>1 DEF HandshakeFails, Owned, OwnAnswer
    <3>2. CASE client' = [client EXCEPT ![c].got = "failed"]
      <4>1. /\ client'[c].got = "failed"
            /\ \A d \in Clients : d # c => client'[d] = client[d]
        BY <3>2, GotTyped DEF Typed
      <4> QED BY <1>6, <4>1 DEF HandshakeFails, Owned, OwnAnswer
    <3> QED BY <2>2, <3>1, <3>2
  <2> QED BY <1>6, <2>3 DEF HandshakeFails, Owned
<1>7. ASSUME NEW kind \in EventKinds, BusPush(kind) PROVE Owned'
  <2>1. PICK e \in Events : e = Event(kind, "bus") /\ e.kind = kind
    <3>1. Event(kind, "bus") \in Events
      BY EmMgrAssumption DEF Event, Events, Origins
    <3>2. Event(kind, "bus").kind = kind
      BY DEF Event
    <3> QED BY <3>1, <3>2
  <2>2. queue \in Seq(Events) /\ queue' = Append(queue, e)
    BY <1>7, <2>1 DEF BusPush, Push, push_to_queue, Typed
  <2>3. OwnAnswer'
    BY <1>7 DEF BusPush, Owned, OwnAnswer
  <2>4. ASSUME ssl # NoClient, ssl \notin crossed' PROVE Own(ssl)'
    <3>1. ~Answers(kind) /\ ssl \notin crossed
      BY <1>7, <2>4 DEF BusPush
    <3>2. \A i \in 1 .. Len(queue') : Answers(queue'[i].kind) => queue'[i].from = ssl
      BY <2>1, <2>2, <2>4, <3>1, AppendProperties DEF Owned, Own
    <3> QED BY <1>7, <2>4, <3>1, <3>2 DEF BusPush, Push, Owned, Own, Waiting
  <2> QED BY <1>7, <2>3, <2>4 DEF BusPush, Owned, Waiting
<1>8. CASE ManagerPop
  <2>1. queue \in Seq(Events) /\ queue # <<>>
    BY <1>8 DEF ManagerPop, Pop, Typed
  <2>2. ASSUME ssl # NoClient, ssl \notin crossed PROVE Own(ssl)'
    <3>1. \A i \in 1 .. Len(queue) : Answers(queue[i].kind) => queue[i].from = ssl
      BY <2>2 DEF Owned, Own
    <3>2. Answers(Head(queue).kind) => Head(queue).from = ssl
      BY <2>1, <3>1, HeadTailProperties
    <3>3. \A i \in 1 .. Len(Tail(queue)) :
            Answers(Tail(queue)[i].kind) => Tail(queue)[i].from = ssl
      BY <2>1, <3>1, HeadTailProperties
    <3> QED BY <1>8, <2>2, <3>2, <3>3 DEF ManagerPop, Pop, cliVars, Owned, Own, Waiting
  <2> QED BY <1>8, <2>2 DEF ManagerPop, cliVars, Owned, OwnAnswer, Waiting
<1>9. CASE ManagerTimeout
  <2>1. PICK e \in Events : e = Event("renew", "start") /\ ~Answers(e.kind)
    <3>1. Event("renew", "start") \in Events
      BY DEF Event, Events, Origins, Kinds
    <3>2. ~Answers(Event("renew", "start").kind)
      BY DEF Event, Answers
    <3> QED BY <3>1, <3>2
  <2>2. queue' = queue \/ (queue \in Seq(Events) /\ queue' = Append(queue, e))
    BY <1>9, <2>1 DEF ManagerTimeout, Timeout, Typed
  <2>3. ASSUME ssl # NoClient, ssl \notin crossed PROVE Own(ssl)'
    <3>1. \A i \in 1 .. Len(queue) : Answers(queue[i].kind) => queue[i].from = ssl
      BY <2>3 DEF Owned, Own
    <3>2. \A i \in 1 .. Len(queue') : Answers(queue'[i].kind) => queue'[i].from = ssl
      BY <2>1, <2>2, <3>1, AppendProperties
    <3> QED BY <1>9, <2>3, <3>2 DEF ManagerTimeout, Timeout, cliVars, Owned, Own, Waiting
  <2> QED BY <1>9, <2>3 DEF ManagerTimeout, cliVars, Owned, OwnAnswer, Waiting
<1>10. CASE ManagerHandle
  <2>1. /\ UNCHANGED <<queue, ssl, listener, crossed>>
        /\ ~Answers(current'.kind)
    BY <1>10 DEF ManagerHandle, Handle, NoEvent, Answers
  <2>2. CASE UNCHANGED <<client, replying>>
    <3>1. ssl # NoClient /\ ssl \notin crossed => Own(ssl)'
      BY <2>1, <2>2 DEF Owned, Own, Waiting
    <3> QED BY <2>1, <2>2, <3>1 DEF Owned, OwnAnswer, Waiting
  <2>3. CASE Replies(current) /\ ssl # NoClient /\ WriteResult(current.from)
    <3>1. current \in Events
      BY <2>3 DEF Replies, Answers, NoEvent, Typed
    <3>2. PICK from \in Origins \cup {"failed"} : from = current.from
      BY <3>1 DEF Events
    <3>3. ssl \notin crossed => from = ssl
      BY <2>3, <3>2 DEF Replies, Owned, Own
    <3>4. OwnAnswer' /\ \A c \in Clients : ~Waiting(c) => client'[c] = client[c]
      BY <2>1, <2>3, <3>2, <3>3, ResultOwn DEF Owned
    <3>5. ~Waiting(ssl)'
      BY <2>1, <2>3, <3>2, WriteEnds
    <3>6. client'[ssl].kind # "none"
      BY <2>3, <3>2, ResultTyped DEF Owned, Typed
    <3>7. ssl \notin crossed => Own(ssl)'
      BY <2>1, <2>3, <3>5 DEF Owned, Own
    <3> QED BY <2>1, <3>4, <3>5, <3>6, <3>7 DEF Owned
  <2> QED BY <1>10, <2>2, <2>3 DEF ManagerHandle
<1>11. CASE UNCHANGED vars
  BY <1>11 DEF vars, mgrVars, cliVars, Owned, OwnAnswer, Own, Waiting
<1> QED BY <1>1, <1>2, <1>3, <1>4, <1>5, <1>6, <1>7, <1>8, <1>9, <1>10, <1>11 DEF Next

\* The answer that send_result writes to m_ssl is the one to the command of the
\* client that m_ssl is then, and no connection is closed before its answer,
\* for any number of clients, commands, bus methods and failing connections,
\* but for the clients that have crossed: accept() overwrote m_ssl while an
\* answer was to come, or a bus method was answered while they were connected.
THEOREM AnswersOwnCommand == Spec => []OwnAnswer
<1>1. Init => Owned
  BY DEF Init, MgrInit, Owned, OwnAnswer, NotServing
<1>2. Owned => OwnAnswer
  BY DEF Owned
<1> QED BY TypedStart, TypedKept, <1>1, OwnedKept, <1>2, PTL DEF Spec
=============================================================================
