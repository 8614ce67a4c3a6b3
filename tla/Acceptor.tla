------------------------------- MODULE Acceptor -------------------------------
(***************************************************************************)
(* The transport acceptor (transport/acceptor.rs): the acceptor task that  *)
(* starts listening transports, their transport tasks and the accepting    *)
(* tasks polled by them, the callers of accept, and of the connection      *)
(* tasks the link filter that asks the active transports.                  *)
(*                                                                         *)
(* The acceptor task is one future: transport and accepting tasks make     *)
(* progress only while it waits in its select, not while it waits for the  *)
(* lock of active_transports.  A stream is followed from the transport's   *)
(* listener to its link; Server::add_incoming is one step here and is      *)
(* modelled by module Server.  Transports are added, and waiting streams   *)
(* and connections taken, in any order.                                    *)
(***************************************************************************)
EXTENDS Integers

CONSTANTS
  Transports,   \* transports the application may add
  Streams,      \* incoming transport connections
  Of(_),        \* transport a stream comes in by
  ConnOf(_),    \* aggregated connection a stream belongs to
  Foreign,      \* streams whose tag may carry another transport's name
  Callers,      \* concurrent callers of Acceptor::accept
  MaxFaults     \* bound: failures of wrappers, handshakes, links and listeners

ASSUME AcceptorAssumption ==
  /\ \A c \in Streams : Of(c) \in Transports
  /\ Foreign \subseteq Streams /\ MaxFaults \in Nat

VARIABLES
  task,       \* acceptor task: "top", "select", "lock" or "ended"
  transport,  \* each transport, from Acceptor::add to the end of its task
  removed,    \* transports AcceptingTransportHandle::remove was called for
  result,     \* what the handle's future returns
  active,     \* active_transports: weak references to transports
  present,    \* transports_present
  stream,     \* each stream, from the transport's channel to its accepting task
  link,       \* link of the stream in its connection task
  listed,     \* list of transports the link filter of the link goes through
  asked,      \* those of them it has asked
  request,    \* links that start_disconnect was called on
  conn,       \* "none", "incoming" (in the listener's queue) or "running"
  caller,     \* each caller of accept: state, armed timeout, unseen change
  dropped,    \* the Acceptor was dropped
  faults      \* for the bound

transportVars == <<transport, removed, result, active>>
streamVars == <<stream, link, listed, asked, request, conn>>
vars == <<task, present, transportVars, streamVars, caller, dropped, faults>>

Conns == {ConnOf(c) : c \in Streams}
Running == {t \in Transports : transport[t] = "running"}
Alive == {t \in Transports : transport[t] \in {"queued", "adding", "running"}}

\* Connection tasks that hold the lock of active_transports for reading.
Readers == {c \in Streams : link[c] = "filter"}

Idle == [pc |-> "idle", armed |-> FALSE, unseen |-> FALSE]

Init ==
  /\ task = "top" /\ present = TRUE
  /\ transport = [t \in Transports |-> "new"]
  /\ removed = {}
  /\ result = [t \in Transports |-> "none"]
  /\ active = {}
  /\ stream = [c \in Streams |-> "none"]
  /\ link = [c \in Streams |-> "none"]
  /\ listed = [c \in Streams |-> {}] /\ asked = listed /\ request = {}
  /\ conn = [k \in Conns |-> "none"]
  /\ caller = [a \in Callers |-> Idle]
  /\ dropped = FALSE /\ faults = 0

(***************************************************************************)
(* The application: transports, their handles and the acceptor itself.     *)
(***************************************************************************)

Add(t) ==
  /\ ~dropped /\ transport[t] = "new"
  /\ transport' = [transport EXCEPT ![t] = "queued"]
  /\ UNCHANGED <<task, present, removed, result, active, streamVars, caller, dropped, faults>>

\* AcceptingTransportHandle::remove.  A dropped handle is one that is never
\* used: the fused receiver of the transport task ignores the closed channel.
Remove(t) ==
  /\ transport[t] # "new" /\ t \notin removed
  /\ removed' = removed \cup {t}
  /\ UNCHANGED <<task, present, transport, result, active, streamVars, caller, dropped, faults>>

InCall(a) == caller[a].pc \in {"mutex", "wait"}

\* The acceptor is borrowed by every call of accept.  With it goes the
\* listener: connections nobody has accepted are dropped with their links.
DropAcceptor ==
  /\ ~dropped /\ \A a \in Callers : ~InCall(a)
  /\ dropped' = TRUE
  /\ link' = [c \in Streams |->
                IF link[c] = "new" /\ conn[ConnOf(c)] = "incoming" THEN "gone" ELSE link[c]]
  /\ conn' = [k \in Conns |-> IF conn[k] = "incoming" THEN "none" ELSE conn[k]]
  /\ UNCHANGED <<task, present, transportVars, stream, listed, asked, request, caller, faults>>

(***************************************************************************)
(* Acceptor::task.                                                         *)
(***************************************************************************)

\* The top of the loop tells the callers whether transports are present.
NotifyPresent ==
  /\ task = "top" /\ task' = "select"
  /\ present' = (Running # {})
  /\ caller' = [a \in Callers |->
                  [caller[a] EXCEPT !.unseen = @ \/ (InCall(a) /\ present' # present)]]
  /\ UNCHANGED <<transportVars, streamVars, dropped, faults>>

\* TransportAdded: the task first waits for the lock.
TransportAdded(t) ==
  /\ task = "select" /\ transport[t] = "queued"
  /\ transport' = [transport EXCEPT ![t] = "adding"]
  /\ task' = "lock"
  /\ UNCHANGED <<present, removed, result, active, streamVars, caller, dropped, faults>>

\* Mutant: the lock is not held across the questions of a link filter.
MayWriteAnytime == task = "lock"

MayWrite == task = "lock" /\ Readers = {}

\* Transports that have ended are removed from the list, the new one is added
\* and its task is started.
StartTransport(t) ==
  /\ MayWrite /\ transport[t] = "adding"
  /\ active' = (active \cap Alive) \cup {t}
  /\ transport' = [transport EXCEPT ![t] = "running"]
  /\ task' = "top"
  /\ UNCHANGED <<present, removed, result, streamVars, caller, dropped, faults>>

\* Mutant: links are kept when their accepting task is dropped.
NoGuard(ts) == {}

\* Links whose accepting task is dropped with its transport task: its
\* DisconnectLink calls start_disconnect.
Guarded(ts) == {c \in Streams : Of(c) \in ts /\ stream[c] = "open" /\ link[c] # "gone"}

\* The transport tasks of ts end, and with them everything they poll.
End(ts) ==
  /\ transport' = [t \in Transports |-> IF t \in ts THEN "ended" ELSE transport[t]]
  /\ request' = request \cup Guarded(ts)
  /\ stream' = [c \in Streams |-> IF Of(c) \in ts THEN "done" ELSE stream[c]]
  /\ UNCHANGED <<removed, active, link, listed, asked, conn, caller, dropped>>

\* The acceptor was dropped and its last transport taken from the queue.  The
\* results of the transports are dropped, which their handles report as Ok.
AcceptorEnds ==
  /\ task = "select" /\ dropped /\ \A t \in Transports : transport[t] # "queued"
  /\ task' = "ended"
  /\ End(Running)
  /\ result' = [t \in Transports |-> IF t \in Running THEN "ok" ELSE result[t]]
  /\ UNCHANGED <<present, faults>>

AcceptorTask ==
  \/ NotifyPresent \/ AcceptorEnds
  \/ \E t \in Transports : TransportAdded(t) \/ StartTransport(t)

(***************************************************************************)
(* Acceptor::transport_task and its accepting tasks, polled in the select  *)
(* of the acceptor task.                                                   *)
(***************************************************************************)
Polled(t) == task = "select" /\ transport[t] = "running"

\* The transport task ends with a result, and the acceptor task sees it
\* (TaskEnded).
Finish(t, res) ==
  /\ End({t})
  /\ result' = [result EXCEPT ![t] = res]
  /\ task' = "top"
  /\ UNCHANGED present

\* AcceptingTransport::listen puts an accepted stream into the channel.
Listen(c) ==
  /\ Polled(Of(c)) /\ stream[c] = "none"
  /\ stream' = [stream EXCEPT ![c] = "channel"]
  /\ UNCHANGED <<task, present, transportVars, link, listed, asked, request, conn, caller, dropped, faults>>

ListenFails(t) ==
  /\ Polled(t) /\ faults < MaxFaults
  /\ faults' = faults + 1
  /\ Finish(t, "error")

Removed(t) ==
  /\ Polled(t) /\ t \in removed
  /\ Finish(t, "ok")
  /\ UNCHANGED faults

Mismatch(c) ==
  /\ Polled(Of(c)) /\ stream[c] = "channel" /\ c \in Foreign
  /\ Finish(Of(c), "error")
  /\ UNCHANGED faults

\* The accepting task of a stream is started with the stack of wrappers.
Accepted(c) ==
  /\ Polled(Of(c)) /\ stream[c] = "channel"
  /\ stream' = [stream EXCEPT ![c] = "wrapping"]
  /\ UNCHANGED <<task, present, transportVars, link, listed, asked, request, conn, caller, dropped, faults>>

\* The server knows the connection of the link, or listens.
Joins(c) == ~dropped \/ conn[ConnOf(c)] = "running"

\* A wrapper or add_incoming fails: the error is broadcast.
AcceptFails(c) ==
  /\ Polled(Of(c)) /\ stream[c] \in {"wrapping", "adding"}
  /\ \/ faults < MaxFaults /\ faults' = faults + 1
     \/ stream[c] = "adding" /\ ~Joins(c) /\ UNCHANGED faults
  /\ stream' = [stream EXCEPT ![c] = "done"]
  /\ UNCHANGED <<task, present, transportVars, link, listed, asked, request, conn, caller, dropped>>

Wrapped(c) ==
  /\ Polled(Of(c)) /\ stream[c] = "wrapping"
  /\ stream' = [stream EXCEPT ![c] = "adding"]
  /\ UNCHANGED <<task, present, transportVars, link, listed, asked, request, conn, caller, dropped, faults>>

\* Server::add_incoming hands the link to its connection, or to a new one for
\* the listener.  There is no await until DisconnectLink guards the link.
AddIncoming(c) ==
  /\ Polled(Of(c)) /\ stream[c] = "adding" /\ Joins(c)
  /\ stream' = [stream EXCEPT ![c] = "open"]
  /\ link' = [link EXCEPT ![c] = "new"]
  /\ conn' = [conn EXCEPT ![ConnOf(c)] = IF @ = "none" THEN "incoming" ELSE @]
  /\ UNCHANGED <<task, present, transportVars, listed, asked, request, caller, dropped, faults>>

\* link.disconnected() returns and the reason is broadcast.
Disconnected(c) ==
  /\ Polled(Of(c)) /\ stream[c] = "open" /\ link[c] = "gone"
  /\ stream' = [stream EXCEPT ![c] = "done"]
  /\ UNCHANGED <<task, present, transportVars, link, listed, asked, request, conn, caller, dropped, faults>>

AcceptingTask(c) == Accepted(c) \/ Mismatch(c) \/ Wrapped(c) \/ AddIncoming(c) \/ Disconnected(c)

(***************************************************************************)
(* The connection tasks: NewLink with the link filter set by accept, and   *)
(* the end of links.                                                       *)
(***************************************************************************)

\* The connection task asks the filter, which waits for the lock behind a
\* waiting acceptor task.  A connection handles one new link at a time.
FilterBegins(c) ==
  /\ link[c] = "new" /\ conn[ConnOf(c)] = "running" /\ task # "lock"
  /\ \A d \in Readers : ConnOf(d) # ConnOf(c)
  /\ link' = [link EXCEPT ![c] = "filter"]
  /\ listed' = [listed EXCEPT ![c] = active]
  /\ UNCHANGED <<task, present, transportVars, stream, asked, request, conn, caller, dropped, faults>>

\* One transport is asked; one that has ended is passed over.
Ask(c) ==
  \E t \in listed[c] \ asked[c] :
    /\ link[c] = "filter"
    /\ asked' = [asked EXCEPT ![c] = @ \cup {t}]
    /\ \/ UNCHANGED link
       \/ t \in Alive /\ link' = [link EXCEPT ![c] = "gone"]
    /\ UNCHANGED <<task, present, transportVars, stream, listed, request, conn, caller, dropped, faults>>

\* All have agreed: the lock is released and the connection task, without
\* waiting for anything in between, adds the link.
AddLink(c) ==
  /\ link[c] = "filter" /\ asked[c] = listed[c]
  /\ link' = [link EXCEPT ![c] = "up"]
  /\ UNCHANGED <<task, present, transportVars, stream, listed, asked, request, conn, caller, dropped, faults>>

Disconnect(c) ==
  /\ link[c] = "up" /\ c \in request
  /\ link' = [link EXCEPT ![c] = "gone"]
  /\ UNCHANGED <<task, present, transportVars, stream, listed, asked, request, conn, caller, dropped, faults>>

LinkLost(c) ==
  /\ link[c] = "up" /\ faults < MaxFaults
  /\ faults' = faults + 1
  /\ link' = [link EXCEPT ![c] = "gone"]
  /\ UNCHANGED <<task, present, transportVars, stream, listed, asked, request, conn, caller, dropped>>

ConnectionTask(c) == FilterBegins(c) \/ Ask(c) \/ AddLink(c) \/ Disconnect(c)

(***************************************************************************)
(* Acceptor::accept.                                                       *)
(***************************************************************************)
Call(a) ==
  /\ ~dropped /\ ~InCall(a)
  /\ caller' = [caller EXCEPT ![a] = [Idle EXCEPT !.pc = "mutex"]]
  /\ UNCHANGED <<task, present, transportVars, streamVars, dropped, faults>>

\* The caller drops the future.
Cancel(a) ==
  /\ InCall(a)
  /\ caller' = [caller EXCEPT ![a] = Idle]
  /\ UNCHANGED <<task, present, transportVars, streamVars, dropped, faults>>

\* Mutant: the timeout is started by a change only.
StillUnarmed == FALSE

\* Whether the timeout is running once transports_present has been read.
Armed == ~present

\* The listener is locked; only now the timeout is polled and reads
\* transports_present for the first time.
Lock(a) ==
  /\ caller[a].pc = "mutex" /\ \A b \in Callers : caller[b].pc # "wait"
  /\ caller' = [caller EXCEPT ![a] = [pc |-> "wait", armed |-> Armed, unseen |-> FALSE]]
  /\ UNCHANGED <<task, present, transportVars, streamVars, dropped, faults>>

PresentChanged(a) ==
  /\ caller[a].pc = "wait" /\ caller[a].unseen
  /\ caller' = [caller EXCEPT ![a].armed = ~present, ![a].unseen = FALSE]
  /\ UNCHANGED <<task, present, transportVars, streamVars, dropped, faults>>

\* no_transport_timeout elapses: it is long enough for a change to be seen.
TimedOut(a) ==
  /\ caller[a].pc = "wait" /\ caller[a].armed /\ ~caller[a].unseen
  /\ caller' = [caller EXCEPT ![a] = Idle]
  /\ UNCHANGED <<task, present, transportVars, streamVars, dropped, faults>>

\* A connection is taken from the listener and its task is started.
Accept(a, k) ==
  /\ caller[a].pc = "wait" /\ conn[k] = "incoming"
  /\ conn' = [conn EXCEPT ![k] = "running"]
  /\ caller' = [caller EXCEPT ![a] = Idle]
  /\ UNCHANGED <<task, present, transportVars, stream, link, listed, asked, request, dropped, faults>>

Accepting(a) == Lock(a) \/ PresentChanged(a) \/ TimedOut(a) \/ \E k \in Conns : Accept(a, k)

Next ==
  \/ AcceptorTask \/ DropAcceptor
  \/ \E t \in Transports : Add(t) \/ Remove(t) \/ ListenFails(t) \/ Removed(t)
  \/ \E c \in Streams :
       Listen(c) \/ AcceptingTask(c) \/ AcceptFails(c) \/ ConnectionTask(c) \/ LinkLost(c)
  \/ \E a \in Callers : Call(a) \/ Cancel(a) \/ Accepting(a)

Spec == Init /\ [][Next]_vars

(***************************************************************************)
(* Fairness: the runtime polls every task that is ready, select picks      *)
(* among its ready branches at random, the mutex of the listener is fair,  *)
(* link filters return and the timeout elapses.  Each transport is added,  *)
(* started and removed once, and each stream has one link, so fairness of  *)
(* a disjunction is fairness of each.  The application and the transports  *)
(* are free to do nothing.                                                 *)
(***************************************************************************)
FairSpec ==
  /\ Spec
  /\ WF_vars(NotifyPresent \/ \E t \in Transports : StartTransport(t))
  /\ SF_vars(AcceptorEnds \/ \E t \in Transports : TransportAdded(t) \/ Removed(t))
  /\ WF_vars(\E c \in Streams : ConnectionTask(c))
  /\ \A a \in Callers : SF_vars(Lock(a)) /\ WF_vars(PresentChanged(a) \/ TimedOut(a))

(***************************************************************************)
(* Properties.                                                             *)
(***************************************************************************)

\* A link joins its connection only with the consent of every transport that
\* listens at that moment, although transports come and go while the filter
\* awaits the answer of one after the other.
FilterComplete ==
  [][\A c \in Streams : link[c] = "filter" /\ link'[c] = "up" => Running \subseteq asked[c]]_vars

\* Once a transport is removed, or the acceptor dropped, its task ends, its
\* handle returns, and no link that came in by it stays, whatever its
\* accepting tasks and the link filters were doing.
TransportEnds ==
  \A t \in Transports :
    [](transport[t] # "new" /\ (dropped \/ t \in removed)
         => <>[](result[t] # "none" /\ \A c \in Streams : Of(c) = t => link[c] # "up"))

\* A call of accept does not wait for ever once there is no transport left
\* and none being added, also when the last transport ended before the call
\* or between the call and the moment the listener is locked.
AcceptReturns ==
  \A a \in Callers : <>[](Alive = {}) => []<>(~InCall(a))
===============================================================================
