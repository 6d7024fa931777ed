------------------------------- MODULE CtrlCli -------------------------------
(***************************************************************************)
(* The controller's command socket (ctrl/em_cmd_ctrl.cpp) on top of the    *)
(* manager's event loop.  A listener thread accepts a client, reads its    *)
(* command and pushes it as an event; the manager thread handles the event *)
(* and answers.  The two share one member, m_ssl, for the connection that  *)
(* is to be answered.  Commands also come from TR-181 methods on the bus,  *)
(* through the same queue and the same handlers.                           *)
(***************************************************************************)
EXTENDS EmMgr

CONSTANTS
  Clients,      \* command line clients: each is one connection, one command
  Requests      \* the kinds of commands that they send

ASSUME CtrlCliAssumption ==
  /\ "none" \notin Clients
  /\ Requests \subseteq {"reset", "get_reset", "command", "commit"}

VARIABLES
  ssl,       \* m_ssl: the client whose connection it is, or NoClient
  client,    \* a client's state: the command it waits for, what it got
  listener,  \* where the listener thread is, and whom it serves
  backlog,   \* clients that have connected and are not yet accepted
  replying,  \* the manager is in send_result(), after the write
  crossed    \* history: clients whose connection met another's answer

cliVars == <<ssl, client, listener, backlog, replying, crossed>>
vars == <<mgrVars, cliVars>>

NoClient == "none"
Origins == Clients \cup {"bus", "start"}
NotServing == [at |-> "accept", whom |-> NoClient]

\* The kinds whose handlers end in send_result(); config_renew, dm_commit and
\* the like do not answer, nor does a northbound request (it has a pipe of
\* its own).
Answers(kind) == kind \in {"reset", "get_reset", "command"}

Init ==
  /\ MgrInit
  /\ ssl = NoClient
  /\ client = [c \in Clients |-> [kind |-> "none", got |-> "none"]]
  /\ listener = NotServing
  /\ backlog = {} /\ replying = FALSE /\ crossed = {}

Waiting(c) == client[c].kind # "none" /\ client[c].got = "none"

\* Some answer is still to be written, or a connection still to be closed
\* after the write: m_ssl has to be the same until then.
Outstanding ==
  \/ replying \/ Answers(current.kind)
  \/ \E i \in 1 .. Len(queue) : Answers(queue[i].kind)

------------------------------------------------------------------------------
\* The client: it connects, writes its command and reads until the answer.
Command(c, kind) ==
  /\ client[c].kind = "none"
  /\ client' = [client EXCEPT ![c] = [kind |-> kind, got |-> "none"]]
  /\ backlog' = backlog \cup {c}
  /\ UNCHANGED <<mgrVars, ssl, listener, replying, crossed>>

\* The two halves of send_result: the write to the connection that m_ssl
\* then is, and the closing of the connection that it is afterwards.
WriteResult(from) ==
  client' = IF ssl # NoClient /\ Waiting(ssl)
            THEN [client EXCEPT ![ssl].got = from] ELSE client

CloseResult ==
  /\ client' = IF ssl # NoClient /\ Waiting(ssl)
               THEN [client EXCEPT ![ssl].got = "closed"] ELSE client
  /\ ssl' = NoClient

\* The listener thread accepts a connection into m_ssl, whoever's it still
\* is and whatever answer is still to come: then the two have crossed ...
Accept(c) ==
  /\ listener = NotServing /\ c \in backlog
  /\ backlog' = backlog \ {c}
  /\ ssl' = c
  /\ listener' = [at |-> "serve", whom |-> c]
  /\ crossed' = IF ssl # NoClient \/ Outstanding
                THEN crossed \cup {c} \cup ({ssl} \ {NoClient}) ELSE crossed
  /\ UNCHANGED <<mgrVars, client, replying>>

\* ... drops it when the handshake fails ...
HandshakeFails ==
  LET c == listener.whom IN
  /\ listener.at = "serve"
  /\ client' = IF Waiting(c) THEN [client EXCEPT ![c].got = "failed"] ELSE client
  /\ ssl' = NoClient
  /\ listener' = NotServing
  /\ UNCHANGED <<mgrVars, backlog, replying, crossed>>

\* ... answers it when the read fails: what it has read is no bus event ...
ReadFails ==
  /\ listener.at = "serve"
  /\ WriteResult("failed")
  /\ listener' = [listener EXCEPT !.at = "close"]
  /\ UNCHANGED <<mgrVars, ssl, backlog, replying, crossed>>

\* Mutant: the listener pushes what the manager may not handle.
AdmitsAll(kind) == TRUE

\* ... and reads the command: unless the data model and the topology are
\* initialised only the two reset commands pass.
Admits(kind) == (ready /\ started) \/ kind \in {"reset", "get_reset"}

\* A command that passes is pushed; io_process() says whether to wait for the
\* manager's answer.  If so the listener goes back to accept(), if not (for
\* a dm_commit) it answers itself.
should_wait(kind) == kind # "commit"

ServePush ==
  LET c == listener.whom IN
  /\ listener.at = "serve" /\ Admits(client[c].kind)
  /\ push_to_queue(Event(client[c].kind, c))
  /\ IF should_wait(client[c].kind)
     THEN listener' = NotServing /\ UNCHANGED client
     ELSE listener' = [listener EXCEPT !.at = "close"] /\ WriteResult(c)
  /\ UNCHANGED <<current, ready, started, demux, quiet, ssl, backlog, replying, crossed>>

\* One that does not is answered by the listener itself.
ServeRefuse ==
  LET c == listener.whom IN
  /\ listener.at = "serve" /\ ~Admits(client[c].kind)
  /\ WriteResult(c)
  /\ listener' = [listener EXCEPT !.at = "close"]
  /\ UNCHANGED <<mgrVars, ssl, backlog, replying, crossed>>

ServeClose ==
  /\ listener.at = "close"
  /\ CloseResult
  /\ listener' = NotServing
  /\ UNCHANGED <<mgrVars, backlog, replying, crossed>>

------------------------------------------------------------------------------
\* The manager thread.

ManagerPop == ~replying /\ Pop /\ UNCHANGED cliVars
ManagerTimeout == ~replying /\ Timeout /\ UNCHANGED cliVars

\* A TR-181 method pushes its command: if its handler answers, the answer goes
\* to the connection that m_ssl then is.
BusPush(kind) ==
  /\ Push(kind)
  /\ crossed' = IF Answers(kind) THEN crossed \cup ({ssl} \ {NoClient}) ELSE crossed
  /\ UNCHANGED <<ssl, client, listener, backlog, replying>>

\* Mutant: the handler of a renew event answers too.
RepliesAlways(e) == Accepted(e)

Replies(e) == Accepted(e) /\ Answers(e.kind)

\* A handler answers whoever m_ssl is; with no connection nothing is sent.
ManagerHandle ==
  /\ Handle
  /\ IF Replies(current) /\ ssl # NoClient
     THEN WriteResult(current.from) /\ replying' = TRUE
     ELSE UNCHANGED <<client, replying>>
  /\ UNCHANGED <<ssl, listener, backlog, crossed>>

ManagerClose ==
  /\ replying
  /\ CloseResult
  /\ replying' = FALSE
  /\ UNCHANGED <<mgrVars, listener, backlog, crossed>>

Next ==
  \/ \E c \in Clients : Accept(c) \/ \E kind \in Requests : Command(c, kind)
  \/ HandshakeFails \/ ReadFails
  \/ ServePush \/ ServeRefuse \/ ServeClose
  \/ \E kind \in EventKinds : BusPush(kind)
  \/ ManagerPop \/ ManagerTimeout \/ ManagerHandle \/ ManagerClose

Listen == (\E c \in Clients : Accept(c)) \/ ServePush \/ ServeRefuse \/ ServeClose
Manage == ManagerPop \/ ManagerTimeout \/ ManagerHandle \/ ManagerClose

\* Both threads run, and the queue's lock is fair: the listener, which in
\* the model needs a free place in the bounded queue, gets one.  No handshake
\* and no read has to fail.
Fairness == SF_vars(Listen) /\ WF_vars(Manage)

Spec == Init /\ [][Next]_vars /\ Fairness

------------------------------------------------------------------------------
\* Properties.

TypeOK ==
  /\ MgrTypes(Origins)
  /\ ssl \in Clients \cup {NoClient}
  /\ client \in [Clients -> [kind : Requests \cup {"none"},
                             got : Origins \cup {"none", "closed", "failed"}]]
  /\ listener \in [at : {"accept", "serve", "close"}, whom : Clients \cup {NoClient}]
  /\ backlog \subseteq Clients /\ replying \in BOOLEAN /\ crossed \subseteq Clients

\* A client reads the answer to its own command, not that of another client
\* or of a bus method, and its connection is not closed on it.  em_cmd_ctrl.h:46
\* says that of every client ("sending the result status of a command execution
\* to the appropriate handler or output interface"); the code keeps it only for
\* those that have not crossed: m_ssl is overwritten by the next accept(),
\* whoever still waits (em_cmd_ctrl.cpp:85), and a TR-181 method's answer is
\* written to it.
OwnAnswer == \A c \in Clients \ crossed : client[c].got \in {"none", "failed", c}

\* A client, which reads without a time limit, is answered, unless it has
\* crossed or its connection fails: also when its command is refused, and when
\* events that nobody answers come before it.
Answered ==
  \A c \in Clients : Waiting(c) ~> (client[c].got \in {c, "failed"} \/ c \in crossed)

\* The orchestrator's time limits run in the ticks, and a tick needs 250 ms
\* without an event.  Once the data model is there and the events cease for
\* long enough, time goes on.
Ticks == started /\ ManagerTimeout
TimeGoesOn ==
  <>[](ready /\ queue = <<>> /\ current = NoEvent /\ ~replying) => []<><<Ticks>>_vars
==============================================================================
