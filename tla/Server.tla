------------------------------- MODULE Server -------------------------------
(***************************************************************************)
(* How links find their connection: Control::add at the client             *)
(* (control.rs), Server::add_incoming and the Listener at the server       *)
(* (connect.rs), and the ids that connections report when they are dropped *)
(* (OwnedConnId of id.rs).                                                 *)
(*                                                                         *)
(* Every link is set up by two concurrent functions that talk over it:     *)
(* Control::add receives Welcome, sends Connect and receives Accepted or   *)
(* Refused; Server::add_incoming finds or makes the connection the link    *)
(* belongs to, in a table shared by all such calls and locked only for     *)
(* single look-ups.  A connection at the server is an instance: first an   *)
(* Incoming, then the Task it becomes when it is accepted.  Its number is  *)
(* that of the channel by which links reach it.                            *)
(*                                                                         *)
(* The key exchange that hides the connection id is left out: the server   *)
(* learns the id of the client's connection.  Exchanged configurations and *)
(* user data are left out.  A failed link, by I/O error or ping_timeout,   *)
(* is dropped by the endpoint that notices.                                *)
(***************************************************************************)
EXTENDS Integers, Sequences, FiniteSets

CONSTANTS
  Servers,     \* servers by their ServerId; a restarted server is another one
  Conns,       \* connection ids
  Own,         \* ids of connections made by Server::connect
  Home,        \* the server that makes them
  Links,       \* calls of Control::add
  ConnOf,      \* the connection each link is added to
  Queue,       \* Cfg::connect_queue
  DisconnectOnMismatch,  \* Cfg::disconnect_on_server_id_mismatch
  NoServer,    \* None of remote_server_id
  MaxInst,     \* bound: instances
  MaxListen    \* bound: calls of Server::listen, for each server

ASSUME ServerAssumption ==
  /\ Conns # {} /\ Own \subseteq Conns /\ Home \in Servers /\ NoServer \notin Servers
  /\ ConnOf \in [Links -> Conns]
  /\ DisconnectOnMismatch \in BOOLEAN
  /\ Queue \in Nat \ {0} /\ MaxInst \in Nat /\ MaxListen \in [Servers -> Nat]

VARIABLES
  \* The client's Control and task, per connection.
  remote_server_id,  \* server of the first link, or NoServer
  connected,         \* some link was accepted
  fatal,             \* content of the channel fatal_connect_error
  ended,             \* the client's task has ended
  session,           \* instances that accepted a link the task was given
  \* The two ends of each link.
  at,                \* server the link leads to
  cpc, spc,          \* where Control::add and Server::add_incoming are
  to_client, to_server,
  existing,          \* existing_connection of the received Connect
  target,            \* instance the server found or made for the link
  generation,        \* listener whose queue the link reserves a place in
  \* The servers.
  conns,             \* table: instance of each connection id, 0 if vacant
  closed_conns,      \* ids reported dropped and not yet cleaned up
  listener,          \* number of the latest Listener, 0 before the first
  listening,         \* the latest Listener has not been dropped
  listen_rx,         \* instances queued for the Listener
  inst               \* the instances

clientVars == <<remote_server_id, connected, fatal, ended, session>>
linkVars   == <<at, cpc, spc, to_client, to_server, existing, target, generation>>
listenVars == <<listener, listening, listen_rx>>
vars       == <<clientVars, linkVars, listenVars, conns, closed_conns, inst>>

(***************************************************************************)
(* Instances.  An instance takes links while its link_rx exists.           *)
(***************************************************************************)
Insts == 1 .. MaxInst

\* starting: in the table, Incoming not made yet; queued for the Listener;
\* orphan: queued for a Listener that is gone; held by the user; running as a
\* task; dropping: an Incoming whose id is reported and channel still open;
\* closing: channel closed and id not reported yet; gone.
InstStates == {"free", "starting", "queued", "orphan", "held", "running",
               "dropping", "closing", "gone"}
Instance == [st : InstStates, srv : Servers, conn : Conns, queue : Seq(Links), links : SUBSET Links]

Alive(i)  == inst[i].st \in {"starting", "queued", "orphan", "held", "running"}
Open(i)   == Alive(i) \/ inst[i].st = "dropping"
Full(i)   == Len(inst[i].queue) >= Queue
Queued(i) == {inst[i].queue[k] : k \in 1 .. Len(inst[i].queue)}
Fresh(i)  == inst[i].st = "free" /\ \A j \in Insts : j < i => inst[j].st # "free"

Free == [st |-> "free", srv |-> Home, conn |-> CHOOSE c \in Conns : TRUE, queue |-> <<>>, links |-> {}]

Init ==
  /\ remote_server_id = [c \in Conns |-> IF c \in Own THEN Home ELSE NoServer]
  /\ connected = [c \in Conns |-> c \in Own]
  /\ fatal = [c \in Conns |-> "none"] /\ ended = [c \in Conns |-> FALSE]
  /\ session = [c \in Conns |-> {}]
  /\ at = [l \in Links |-> Home]
  /\ cpc = [l \in Links |-> "new"] /\ spc = [l \in Links |-> "none"]
  /\ to_client = [l \in Links |-> <<>>] /\ to_server = [l \in Links |-> <<>>]
  /\ existing = [l \in Links |-> FALSE]
  /\ target = [l \in Links |-> 0] /\ generation = [l \in Links |-> 0]
  /\ conns = [s \in Servers |-> [c \in Conns |-> 0]]
  /\ closed_conns = [s \in Servers |-> {}]
  /\ listener = [s \in Servers |-> 0] /\ listening = [s \in Servers |-> FALSE]
  /\ listen_rx = [s \in Servers |-> <<>>]
  /\ inst = [i \in Insts |-> Free]

(***************************************************************************)
(* The client: Control::add and the events of its task.                    *)
(***************************************************************************)
\* A transport connects the link; the server's side starts as well.  Links are
\* added to a connection made by Server::connect once the server has made it.
Dial(l) ==
  /\ cpc[l] = "new"
  /\ \E s \in Servers :
       /\ ConnOf[l] \in Own => s = Home /\ \E i \in Insts : inst[i].conn = ConnOf[l] /\ inst[i].st # "free"
       /\ at' = [at EXCEPT ![l] = s]
  /\ cpc' = [cpc EXCEPT ![l] = "dialed"]
  /\ spc' = [spc EXCEPT ![l] = "arrived"]
  /\ UNCHANGED <<clientVars, to_client, to_server, existing, target, generation,
                 listenVars, conns, closed_conns, inst>>

\* try_send into the channel of capacity one.
Fatal(c, e) == fatal' = IF fatal[c] = "none" THEN [fatal EXCEPT ![c] = e] ELSE fatal

\* Mutant: the id of the first server is not remembered for later links.
MatchesAny(c, s) == TRUE

MatchesServer(c, s) == remote_server_id[c] \in {NoServer, s}

RecvWelcome(l) ==
  LET c == ConnOf[l] IN
  /\ cpc[l] = "dialed" /\ to_client[l] # <<>>
  /\ to_client' = [to_client EXCEPT ![l] = Tail(@)]
  /\ \/ /\ MatchesServer(c, at[l])
        /\ remote_server_id' = [remote_server_id EXCEPT ![c] = at[l]]
        /\ cpc' = [cpc EXCEPT ![l] = "greeted"]
        /\ UNCHANGED fatal
     \/ /\ ~MatchesServer(c, at[l])
        /\ IF DisconnectOnMismatch THEN Fatal(c, "ServerIdMismatch") ELSE UNCHANGED fatal
        /\ cpc' = [cpc EXCEPT ![l] = "failed"]
        /\ UNCHANGED remote_server_id
  /\ UNCHANGED <<connected, ended, session, at, spc, to_server, existing, target, generation,
                 listenVars, conns, closed_conns, inst>>

SendConnect(l) ==
  /\ cpc[l] = "greeted"
  /\ cpc' = [cpc EXCEPT ![l] = "waiting"]
  /\ to_server' = [to_server EXCEPT ![l] = <<connected[ConnOf[l]]>>]
  /\ UNCHANGED <<clientVars, at, spc, to_client, existing, target, generation,
                 listenVars, conns, closed_conns, inst>>

RecvAnswer(l) ==
  LET c == ConnOf[l] IN
  /\ cpc[l] = "waiting" /\ to_client[l] # <<>>
  /\ to_client' = [to_client EXCEPT ![l] = Tail(@)]
  /\ \/ /\ Head(to_client[l]) = "Accepted"
        /\ connected' = [connected EXCEPT ![c] = TRUE]
        /\ cpc' = [cpc EXCEPT ![l] = "accepted"]
        /\ UNCHANGED fatal
     \/ /\ Head(to_client[l]) # "Accepted"
        /\ IF Head(to_client[l]) = "Closed" THEN Fatal(c, "Closed") ELSE UNCHANGED fatal
        /\ cpc' = [cpc EXCEPT ![l] = "refused"]
        /\ UNCHANGED connected
  /\ UNCHANGED <<remote_server_id, ended, session, at, spc, to_server, existing, target,
                 generation, listenVars, conns, closed_conns, inst>>

\* The link is handed to the client's task, if that still runs.
AddLink(l) ==
  LET c == ConnOf[l] IN
  /\ cpc[l] = "accepted"
  /\ \/ /\ ~ended[c]
        /\ cpc' = [cpc EXCEPT ![l] = "added"]
        /\ session' = [session EXCEPT ![c] = @ \cup {target[l]}]
     \/ /\ ended[c]
        /\ cpc' = [cpc EXCEPT ![l] = "failed"]
        /\ UNCHANGED session
  /\ UNCHANGED <<remote_server_id, connected, fatal, ended, at, spc, to_client, to_server,
                 existing, target, generation, listenVars, conns, closed_conns, inst>>

\* ping_timeout elapses or the link breaks during the handshake.
ClientFail(l) ==
  /\ cpc[l] \in {"dialed", "greeted", "waiting"}
  /\ cpc' = [cpc EXCEPT ![l] = "failed"]
  /\ UNCHANGED <<clientVars, at, spc, to_client, to_server, existing, target, generation,
                 listenVars, conns, closed_conns, inst>>

\* FatalConnectError ends the client's task.
ClientEnd(c) ==
  /\ ~ended[c] /\ fatal[c] # "none"
  /\ ended' = [ended EXCEPT ![c] = TRUE]
  /\ UNCHANGED <<remote_server_id, connected, fatal, session, linkVars, listenVars,
                 conns, closed_conns, inst>>

Client ==
  \/ \E l \in Links : \/ Dial(l) \/ RecvWelcome(l) \/ SendConnect(l) \/ RecvAnswer(l)
                      \/ AddLink(l) \/ ClientFail(l)
  \/ \E c \in Conns : ClientEnd(c)

(***************************************************************************)
(* The server: Server::add_incoming.                                       *)
(***************************************************************************)
CleanupLinks(s) ==
  /\ conns' = [conns EXCEPT ![s] = [c \in Conns |-> IF c \in closed_conns[s] THEN 0 ELSE @[c]]]
  /\ closed_conns' = [closed_conns EXCEPT ![s] = {}]

\* First step: clean up the table and send Welcome.
Welcome(l) ==
  /\ spc[l] = "arrived"
  /\ CleanupLinks(at[l])
  /\ to_client' = [to_client EXCEPT ![l] = Append(@, "Welcome")]
  /\ spc' = [spc EXCEPT ![l] = "greeting"]
  /\ UNCHANGED <<clientVars, at, cpc, to_server, existing, target, generation, listenVars, inst>>

RecvConnect(l) ==
  /\ spc[l] = "greeting" /\ to_server[l] # <<>>
  /\ existing' = [existing EXCEPT ![l] = Head(to_server[l])]
  /\ to_server' = [to_server EXCEPT ![l] = <<>>]
  /\ spc' = [spc EXCEPT ![l] = "lookup"]
  /\ UNCHANGED <<clientVars, at, cpc, to_client, target, generation, listenVars,
                 conns, closed_conns, inst>>

\* ping_timeout elapses or the link breaks before Connect was received.
IncomingFail(l) ==
  /\ spc[l] = "greeting"
  /\ spc' = [spc EXCEPT ![l] = "failed"]
  /\ UNCHANGED <<clientVars, at, cpc, to_client, to_server, existing, target, generation,
                 listenVars, conns, closed_conns, inst>>

Entry(l) == conns[at[l]][ConnOf[l]]

\* The first look-up decides whether a place in the Listener's queue is needed.
Lookup(l) ==
  /\ spc[l] = "lookup"
  /\ \/ /\ Entry(l) # 0
        /\ spc' = [spc EXCEPT ![l] = "joining"]
        /\ target' = [target EXCEPT ![l] = Entry(l)]
     \/ /\ Entry(l) = 0
        /\ spc' = [spc EXCEPT ![l] = IF existing[l] THEN "Closed" ELSE "vacant"]
        /\ UNCHANGED target
  /\ UNCHANGED <<clientVars, at, cpc, to_client, to_server, existing, generation,
                 listenVars, conns, closed_conns, inst>>

\* Under a lock of its own, the sender to the present Listener is cloned.
CloneListenTx(l) ==
  /\ spc[l] = "vacant"
  /\ spc' = [spc EXCEPT ![l] = "reserving"]
  /\ generation' = [generation EXCEPT ![l] = listener[at[l]]]
  /\ UNCHANGED <<clientVars, at, cpc, to_client, to_server, existing, target,
                 listenVars, conns, closed_conns, inst>>

\* The Listener whose queue l reserves a place in is still there.
Heard(l) == listening[at[l]] /\ generation[l] = listener[at[l]]

\* Mutant: a place that was not needed after all is not given back.
LeakedPermits(s) ==
  {l \in Links : at[l] = s /\ spc[l] \in {"permit", "starting", "joining", "handed"} /\ Heard(l)}

Permits(s) == {l \in Links : at[l] = s /\ spc[l] \in {"permit", "starting"} /\ Heard(l)}
HasRoom(s) == Len(listen_rx[s]) + Cardinality(Permits(s)) < Queue

\* listen_tx.reserve_owned() completes: with a place, or because the Listener
\* is gone.  It waits while the queue is full.
Reserve(l) ==
  /\ spc[l] = "reserving"
  /\ \/ Heard(l) /\ HasRoom(at[l]) /\ spc' = [spc EXCEPT ![l] = "permit"]
     \/ ~Heard(l) /\ spc' = [spc EXCEPT ![l] = "nopermit"]
  /\ UNCHANGED <<clientVars, at, cpc, to_client, to_server, existing, target, generation,
                 listenVars, conns, closed_conns, inst>>

\* Mutant: the table is not consulted again after the wait.
InsertAnyway(l) == spc[l] = "permit"

MayInsert(l) == spc[l] = "permit" /\ Entry(l) = 0

\* The second look-up, after the wait.
Relookup(l) ==
  /\ spc[l] \in {"permit", "nopermit"}
  /\ \/ /\ MayInsert(l)
        /\ \E i \in Insts :
             /\ Fresh(i)
             /\ conns' = [conns EXCEPT ![at[l]][ConnOf[l]] = i]
             /\ inst' = [inst EXCEPT ![i].st = "starting", ![i].srv = at[l], ![i].conn = ConnOf[l]]
             /\ target' = [target EXCEPT ![l] = i]
        /\ spc' = [spc EXCEPT ![l] = "starting"]
     \/ /\ ~MayInsert(l) /\ Entry(l) # 0
        /\ spc' = [spc EXCEPT ![l] = "joining"]
        /\ target' = [target EXCEPT ![l] = Entry(l)]
        /\ UNCHANGED <<conns, inst>>
     \/ /\ ~MayInsert(l) /\ Entry(l) = 0
        /\ spc' = [spc EXCEPT ![l] = "NotListening"]
        /\ UNCHANGED <<conns, inst, target>>
  /\ UNCHANGED <<clientVars, at, cpc, to_client, to_server, existing, generation,
                 listenVars, closed_conns>>

\* Outside the lock, the link goes into the channel of the new instance and its
\* Incoming to the Listener.  try_send(..).unwrap() panics if other links have
\* filled the channel; the unwinding drops the channel, not the table's entry.
Start(l) ==
  LET i == target[l]
      s == at[l]
  IN
  /\ spc[l] = "starting"
  /\ \/ /\ ~Full(i)
        /\ inst' = [inst EXCEPT ![i].st = IF Heard(l) THEN "queued" ELSE "orphan",
                                ![i].queue = Append(@, l)]
        /\ listen_rx' = IF Heard(l) THEN [listen_rx EXCEPT ![s] = Append(@, i)] ELSE listen_rx
        /\ spc' = [spc EXCEPT ![l] = "handed"]
     \/ /\ Full(i)
        /\ inst' = [inst EXCEPT ![i].st = "gone", ![i].queue = <<>>]
        /\ spc' = [spc EXCEPT ![l] = "panicked"]
        /\ UNCHANGED listen_rx
  /\ UNCHANGED <<clientVars, at, cpc, to_client, to_server, existing, target, generation,
                 listener, listening, conns, closed_conns>>

\* Mutant: a full channel counts as closed.
JoinClosed(i) == ~Open(i) \/ Full(i)

CannotJoin(i) == ~Open(i)

\* link_tx.reserve_owned() on the channel of the instance waits for room.
Join(l) ==
  LET i == target[l] IN
  /\ spc[l] = "joining"
  /\ \/ /\ CannotJoin(i)
        /\ spc' = [spc EXCEPT ![l] = "Closed"]
        /\ UNCHANGED inst
     \/ /\ ~CannotJoin(i) /\ ~Full(i)
        /\ inst' = [inst EXCEPT ![i].queue = Append(@, l)]
        /\ spc' = [spc EXCEPT ![l] = "handed"]
  /\ UNCHANGED <<clientVars, at, cpc, to_client, to_server, existing, target, generation,
                 listenVars, conns, closed_conns>>

\* Refused is sent with the reason found; spc keeps it while it is on its way.
SendRefused(l) ==
  /\ spc[l] \in {"Closed", "NotListening"}
  /\ to_client' = [to_client EXCEPT ![l] = Append(@, spc[l])]
  /\ spc' = [spc EXCEPT ![l] = "done"]
  /\ UNCHANGED <<clientVars, at, cpc, to_server, existing, target, generation,
                 listenVars, conns, closed_conns, inst>>

AddIncoming(l) ==
  \/ Welcome(l) \/ RecvConnect(l) \/ IncomingFail(l) \/ Lookup(l) \/ CloneListenTx(l)
  \/ Reserve(l) \/ Relookup(l) \/ Start(l) \/ Join(l) \/ SendRefused(l)

(***************************************************************************)
(* The server: Listener, Incoming and the tasks.                           *)
(***************************************************************************)
Report(i) == closed_conns' = [closed_conns EXCEPT ![inst[i].srv] = @ \cup {inst[i].conn}]

Answer(S, m) == to_client' = [l \in Links |-> IF l \in S THEN Append(to_client[l], m) ELSE to_client[l]]

\* Server::connect makes a running connection with an entry of its own.
ServerConnect(c) ==
  /\ c \in Own /\ \A i \in Insts : inst[i].st = "free" \/ inst[i].conn # c
  /\ \E i \in Insts :
       /\ Fresh(i)
       /\ inst' = [inst EXCEPT ![i].st = "running", ![i].srv = Home, ![i].conn = c]
       /\ conns' = [conns EXCEPT ![Home][c] = i]
       /\ session' = [session EXCEPT ![c] = {i}]
  /\ UNCHANGED <<remote_server_id, connected, fatal, ended, linkVars, listenVars, closed_conns>>

\* Drops the Incomings of S: their ids are reported first.
DropIncomings(S) ==
  /\ inst' = [i \in Insts |-> IF i \in S THEN [inst[i] EXCEPT !.st = "dropping"] ELSE inst[i]]
  /\ closed_conns' = [s \in Servers |->
       closed_conns[s] \cup {inst[i].conn : i \in {j \in S : inst[j].srv = s}}]

\* Server::listen replaces listen_tx; what was left in the old queue goes.
Listen(s) ==
  /\ ~listening[s] /\ listener[s] < MaxListen[s]
  /\ listener' = [listener EXCEPT ![s] = @ + 1]
  /\ listening' = [listening EXCEPT ![s] = TRUE]
  /\ DropIncomings({i \in Insts : inst[i].srv = s /\ inst[i].st = "orphan"})
  /\ UNCHANGED <<clientVars, linkVars, listen_rx, conns>>

DropListener(s) ==
  /\ listening[s]
  /\ listening' = [listening EXCEPT ![s] = FALSE]
  /\ listen_rx' = [listen_rx EXCEPT ![s] = <<>>]
  /\ DropIncomings({i \in Insts : inst[i].srv = s /\ inst[i].st = "queued"})
  /\ UNCHANGED <<clientVars, linkVars, listener, conns>>

\* Listener::next
NextIncoming(s) ==
  /\ listening[s] /\ listen_rx[s] # <<>>
  /\ inst' = [inst EXCEPT ![Head(listen_rx[s])].st = "held"]
  /\ listen_rx' = [listen_rx EXCEPT ![s] = Tail(@)]
  /\ UNCHANGED <<clientVars, linkVars, listener, listening, conns, closed_conns>>

\* Incoming::link_added, link_tags and link_remote_user_datas.
UpdateLinks(i) ==
  /\ inst[i].st = "held" /\ inst[i].queue # <<>>
  /\ inst' = [inst EXCEPT ![i].links = @ \cup Queued(i), ![i].queue = <<>>]
  /\ UNCHANGED <<clientVars, linkVars, listenVars, conns, closed_conns>>

\* Incoming::accept: the task starts with the links collected so far and sends
\* Accepted over each of them.
Accept(i) ==
  /\ inst[i].st = "held"
  /\ inst' = [inst EXCEPT ![i].st = "running", ![i].links = @ \cup Queued(i), ![i].queue = <<>>]
  /\ Answer(inst[i].links \cup Queued(i), "Accepted")
  /\ UNCHANGED <<clientVars, at, cpc, spc, to_server, existing, target, generation,
                 listenVars, conns, closed_conns>>

\* Incoming::refuse closes the channel, answers all links and drops itself.
Refuse(i) ==
  /\ inst[i].st = "held"
  /\ inst' = [inst EXCEPT ![i].st = "closing", ![i].links = {}, ![i].queue = <<>>]
  /\ Answer(inst[i].links \cup Queued(i), "ConnectionRefused")
  /\ UNCHANGED <<clientVars, at, cpc, spc, to_server, existing, target, generation,
                 listenVars, conns, closed_conns>>

DropIncoming(i) ==
  /\ inst[i].st = "held"
  /\ DropIncomings({i})
  /\ UNCHANGED <<clientVars, linkVars, listenVars, conns>>

\* The channel of a dropped Incoming goes last, with the links in it.
DropChannel(i) ==
  /\ inst[i].st = "dropping"
  /\ inst' = [inst EXCEPT ![i].st = "gone", ![i].links = {}, ![i].queue = <<>>]
  /\ UNCHANGED <<clientVars, linkVars, listenVars, conns, closed_conns>>

\* NewLink: the task adds a link, or its link filter refuses it.
NewLink(i) ==
  /\ inst[i].st = "running" /\ inst[i].queue # <<>>
  /\ LET l == Head(inst[i].queue) IN
     \/ /\ inst' = [inst EXCEPT ![i].queue = Tail(@), ![i].links = @ \cup {l}]
        /\ Answer({l}, "Accepted")
     \/ /\ inst' = [inst EXCEPT ![i].queue = Tail(@)]
        /\ Answer({l}, "LinkRefused")
  /\ UNCHANGED <<clientVars, at, cpc, spc, to_server, existing, target, generation,
                 listenVars, conns, closed_conns>>

\* The task ends: link_rx is dropped by run, with the links still in it ...
TaskEnd(i) ==
  /\ inst[i].st = "running"
  /\ inst' = [inst EXCEPT ![i].st = "closing", ![i].links = {}, ![i].queue = <<>>]
  /\ UNCHANGED <<clientVars, linkVars, listenVars, conns, closed_conns>>

\* ... and the id, held by the Task or the refused Incoming, afterwards.
DropConnId(i) ==
  /\ inst[i].st = "closing"
  /\ inst' = [inst EXCEPT ![i].st = "gone"]
  /\ Report(i)
  /\ UNCHANGED <<clientVars, linkVars, listenVars, conns>>

Instances ==
  \/ \E c \in Conns : ServerConnect(c)
  \/ \E s \in Servers : Listen(s) \/ DropListener(s) \/ NextIncoming(s)
  \/ \E i \in Insts : \/ UpdateLinks(i) \/ Accept(i) \/ Refuse(i) \/ DropIncoming(i)
                      \/ DropChannel(i) \/ NewLink(i) \/ TaskEnd(i) \/ DropConnId(i)

Next == Client \/ (\E l \in Links : AddIncoming(l)) \/ Instances

Spec == Init /\ [][Next]_vars
(***************************************************************************)
(* Properties.                                                             *)
(***************************************************************************)
\* The table leads to every living connection, so there is at most one of each
\* id, however look-ups, waits, clean-ups and drops are interleaved
\* (add_incoming, cleanup_links, OwnedConnId).
TableSound ==
  \A i \in Insts : Alive(i) => conns[inst[i].srv][inst[i].conn] = i

\* A client is told that its connection is closed, which ends its task for
\* good, only when a connection of its id has really ended at that server
\* (RefusedReason::Closed).
ClosedMeansEnded ==
  \A l \in Links : spc[l] = "Closed" =>
    \E i \in Insts : /\ inst[i].srv = at[l] /\ inst[i].conn = ConnOf[l]
                     /\ inst[i].st \notin {"free"} /\ ~Alive(i)

\* A client reveals the id of its connection to one server only, though its
\* links are added concurrently and servers restart (remote_server_id in
\* Control::add).
SameServer ==
  \A k, l \in Links :
    /\ cpc[k] \in {"waiting", "accepted", "added"} /\ cpc[l] \in {"waiting", "accepted", "added"}
    /\ ConnOf[k] = ConnOf[l]
    => at[k] = at[l]

\* All links a client's task was given belong to the same connection at the
\* server: a link of a connection that has ended is refused, and does not start
\* another one.
OneSession == \A c \in Conns : Cardinality(session[c]) <= 1

(***************************************************************************)
(* Liveness.  The calls of add_incoming are driven by tasks of their own;  *)
(* the user of a Listener takes what arrives and accepts, refuses or drops *)
(* it; a running task takes new links.  A handshake that gets no answer    *)
(* times out.                                                              *)
(***************************************************************************)
FairSpec ==
  /\ Spec
  /\ \A l \in Links :
       /\ WF_vars(RecvConnect(l) \/ IncomingFail(l))
       /\ WF_vars(\/ Welcome(l) \/ Lookup(l) \/ CloneListenTx(l) \/ Relookup(l)
                  \/ Start(l) \/ SendRefused(l))
       /\ SF_vars(Reserve(l)) /\ SF_vars(Join(l))
  /\ \A s \in Servers : WF_vars(NextIncoming(s))
  /\ \A i \in Insts :
       /\ WF_vars(Accept(i) \/ Refuse(i) \/ DropIncoming(i))
       /\ WF_vars(NewLink(i)) /\ WF_vars(DropChannel(i) \/ DropConnId(i))

\* Every call of add_incoming ends, unless the connection of its link is one
\* that nobody will ever accept because its Listener was dropped when it was
\* about to be queued.
IncomingHandled ==
  \A l \in Links :
    (spc[l] = "arrived") ~>
      \/ spc[l] \in {"handed", "done", "failed", "panicked"}
      \/ spc[l] = "joining" /\ inst[target[l]].st = "orphan"
=============================================================================
