--------------------------- MODULE AcceptorProofs ---------------------------
(***************************************************************************)
(* No link passes the filter without the consent of every transport that   *)
(* listens, for any transports, streams, connections and callers.          *)
(***************************************************************************)
EXTENDS Acceptor, TLAPS

-----------------------------------------------------------------------------
(***************************************************************************)
(* The inductive invariant.                                                *)
(***************************************************************************)
TransportStates == {"new", "queued", "adding", "running", "ended"}
LinkStates == {"none", "new", "filter", "up", "gone"}

\* Types of what the filter depends on.
FilterType ==
  /\ transport \in [Transports -> TransportStates] /\ active \in SUBSET Transports
  /\ link \in [Streams -> LinkStates]
  /\ listed \in [Streams -> SUBSET Transports] /\ asked \in [Streams -> SUBSET Transports]

\* Every transport that listens is listed for the filters to come.
ActiveInv == Running \subseteq active

\* A filter holds the lock from the moment it takes the list, so no transport
\* has started to listen that is not in its list.
ListedInv == \A c \in Streams : link[c] = "filter" => Running \subseteq listed[c]

AcceptorInv == FilterType /\ ActiveInv /\ ListedInv

filterVars == <<transport, active, link, listed, asked>>
-----------------------------------------------------------------------------
(***************************************************************************)
(* Steps by what they do to the filter's variables.                        *)
(***************************************************************************)

\* No transport starts to listen and no filter is begun.
LEMMA NoneStarts ==
  ASSUME AcceptorInv, FilterType', active' = active, listed' = listed,
         \A t \in Transports : transport'[t] = "running" => transport[t] = "running",
         \A c \in Streams : link'[c] = "filter" => link[c] = "filter"
  PROVE  AcceptorInv'
BY DEF AcceptorInv, ActiveInv, ListedInv, Running

\* The steps that change none of these variables.
LEMMA OutsideStep ==
  ASSUME AcceptorInv, UNCHANGED filterVars
  PROVE  AcceptorInv'
BY DEF AcceptorInv, FilterType, ActiveInv, ListedInv, Running, filterVars

\* Transports are added and taken from the queue.
LEMMA AddStep ==
  ASSUME AcceptorInv, NEW t \in Transports, Add(t) \/ TransportAdded(t)
  PROVE  AcceptorInv'
<1>1. PICK s \in {"queued", "adding"} : transport' = [transport EXCEPT ![t] = s]
  BY DEF Add, TransportAdded
<1>2. active' = active /\ listed' = listed /\ asked' = asked /\ link' = link
  BY DEF Add, TransportAdded, streamVars
<1>3. FilterType'
  BY <1>1, <1>2 DEF AcceptorInv, FilterType, TransportStates
<1>4. \A u \in Transports : transport'[u] = "running" => transport[u] = "running"
  BY <1>1 DEF AcceptorInv, FilterType
<1> QED
  BY <1>2, <1>3, <1>4, NoneStarts

\* A transport starts to listen, which needs the lock.
LEMMA StartStep ==
  ASSUME AcceptorInv, NEW t \in Transports, StartTransport(t)
  PROVE  AcceptorInv'
<1>1. /\ Readers = {} /\ active' = (active \cap Alive) \cup {t}
      /\ transport' = [transport EXCEPT ![t] = "running"]
      /\ link' = link /\ listed' = listed /\ asked' = asked
  BY DEF StartTransport, MayWrite, streamVars
<1>2. FilterType'
  BY <1>1 DEF AcceptorInv, FilterType, TransportStates
<1>3. ActiveInv'
  <2> SUFFICES ASSUME NEW u \in Transports, transport'[u] = "running" PROVE u \in active'
    BY DEF ActiveInv, Running
  <2>1. CASE u = t
    BY <1>1, <2>1
  <2>2. CASE u # t
    <3>1. transport[u] = "running"
      BY <1>1, <2>2 DEF AcceptorInv, FilterType
    <3>2. u \in active /\ u \in Alive
      BY <3>1 DEF AcceptorInv, ActiveInv, Running, Alive
    <3> QED
      BY <1>1, <3>2
  <2> QED
    BY <2>1, <2>2
<1>4. ListedInv'
  BY <1>1 DEF ListedInv, Readers
<1> QED
  BY <1>2, <1>3, <1>4 DEF AcceptorInv

\* Transport tasks end, with the acceptor task or by themselves.
LEMMA EndStep ==
  ASSUME AcceptorInv, NEW ts, End(ts)
  PROVE  AcceptorInv'
<1>1. /\ transport' = [t \in Transports |-> IF t \in ts THEN "ended" ELSE transport[t]]
      /\ active' = active /\ link' = link /\ listed' = listed /\ asked' = asked
  BY DEF End
<1>2. FilterType'
  BY <1>1 DEF AcceptorInv, FilterType, TransportStates
<1>3. \A t \in Transports : transport'[t] = "running" => transport[t] = "running"
  BY <1>1
<1> QED
  BY <1>1, <1>2, <1>3, NoneStarts

\* A link changes its state but does not get to the filter.
LEMMA LinkStep ==
  ASSUME AcceptorInv, NEW c \in Streams,
         AddIncoming(c) \/ AddLink(c) \/ Disconnect(c) \/ LinkLost(c)
  PROVE  AcceptorInv'
<1>1. PICK s \in LinkStates \ {"filter"} : link' = [link EXCEPT ![c] = s]
  BY DEF AddIncoming, AddLink, Disconnect, LinkLost, LinkStates
<1>2. transport' = transport /\ active' = active /\ listed' = listed /\ asked' = asked
  BY DEF AddIncoming, AddLink, Disconnect, LinkLost, transportVars
<1>3. FilterType'
  BY <1>1, <1>2 DEF AcceptorInv, FilterType
<1>4. \A d \in Streams : link'[d] = "filter" => link[d] = "filter"
  BY <1>1 DEF AcceptorInv, FilterType
<1> QED
  BY <1>2, <1>3, <1>4, NoneStarts

\* Connections that nobody has accepted are dropped with their links.
LEMMA DropStep ==
  ASSUME AcceptorInv, DropAcceptor
  PROVE  AcceptorInv'
<1>1. /\ link' = [c \in Streams |->
                    IF link[c] = "new" /\ conn[ConnOf(c)] = "incoming" THEN "gone" ELSE link[c]]
      /\ transport' = transport /\ active' = active /\ listed' = listed /\ asked' = asked
  BY DEF DropAcceptor, transportVars
<1>2. FilterType'
  BY <1>1 DEF AcceptorInv, FilterType, LinkStates
<1>3. \A c \in Streams : link'[c] = "filter" => link[c] = "filter"
  BY <1>1
<1> QED
  BY <1>1, <1>2, <1>3, NoneStarts

\* A filter takes the list.
LEMMA FilterStep ==
  ASSUME AcceptorInv, NEW c \in Streams, FilterBegins(c)
  PROVE  AcceptorInv'
<1>1. /\ link' = [link EXCEPT ![c] = "filter"] /\ listed' = [listed EXCEPT ![c] = active]
      /\ transport' = transport /\ active' = active /\ asked' = asked
  BY DEF FilterBegins, transportVars
<1>2. FilterType'
  BY <1>1 DEF AcceptorInv, FilterType, LinkStates
<1>3. ActiveInv' /\ Running' = Running
  BY <1>1 DEF AcceptorInv, ActiveInv, Running
<1>4. ListedInv'
  <2> SUFFICES ASSUME NEW d \in Streams, link'[d] = "filter" PROVE Running \subseteq listed'[d]
    BY <1>3 DEF ListedInv
  <2>1. CASE d = c
    BY <1>1, <2>1 DEF AcceptorInv, FilterType, ActiveInv
  <2>2. CASE d # c
    BY <1>1, <2>2 DEF AcceptorInv, FilterType, ListedInv
  <2> QED
    BY <2>1, <2>2
<1> QED
  BY <1>2, <1>3, <1>4 DEF AcceptorInv

\* A transport is asked, and may refuse the link.
LEMMA AskStep ==
  ASSUME AcceptorInv, NEW c \in Streams, Ask(c)
  PROVE  AcceptorInv'
<1>1. PICK t \in listed[c] \ asked[c] :
        /\ asked' = [asked EXCEPT ![c] = @ \cup {t}]
        /\ link' = link \/ link' = [link EXCEPT ![c] = "gone"]
        /\ transport' = transport /\ active' = active /\ listed' = listed
  BY DEF Ask, transportVars
<1>2. FilterType'
  <2>1. asked' \in [Streams -> SUBSET Transports]
    <3>1. asked[c] \cup {t} \in SUBSET Transports /\ asked \in [Streams -> SUBSET Transports]
      BY DEF AcceptorInv, FilterType
    <3> QED
      BY <1>1, <3>1
  <2>2. link' \in [Streams -> LinkStates]
    BY <1>1 DEF AcceptorInv, FilterType, LinkStates
  <2> QED
    BY <1>1, <2>1, <2>2 DEF AcceptorInv, FilterType
<1>3. \A d \in Streams : link'[d] = "filter" => link[d] = "filter"
  BY <1>1 DEF AcceptorInv, FilterType
<1> QED
  BY <1>1, <1>2, <1>3, NoneStarts

\* The callers of accept and the accepting tasks up to add_incoming.
LEMMA OtherSteps ==
  ASSUME \/ NotifyPresent
         \/ \E t \in Transports : Remove(t)
         \/ \E c \in Streams : \/ Listen(c) \/ Accepted(c) \/ Wrapped(c) \/ Disconnected(c)
                               \/ AcceptFails(c)
         \/ \E a \in Callers : Call(a) \/ Cancel(a) \/ Accepting(a)
  PROVE  UNCHANGED filterVars
BY DEF NotifyPresent, Remove, Listen, Accepted, Wrapped, Disconnected, AcceptFails, Call, Cancel,
   Accepting, Lock, PresentChanged, TimedOut, Accept, filterVars, transportVars, streamVars
-----------------------------------------------------------------------------
(***************************************************************************)
(* The theorems.                                                           *)
(***************************************************************************)

\* The invariant holds in the initial state.
LEMMA AcceptorInvInit ==
  Init => AcceptorInv
BY DEF Init, AcceptorInv, FilterType, ActiveInv, ListedInv, Running, TransportStates, LinkStates

\* Every step keeps it.
LEMMA AcceptorInvStep ==
  AcceptorInv /\ [Next]_vars => AcceptorInv'
<1> SUFFICES ASSUME AcceptorInv, [Next]_vars PROVE AcceptorInv'
  OBVIOUS
<1>1. CASE UNCHANGED vars
  BY <1>1, OutsideStep DEF vars, transportVars, streamVars, filterVars
<1>2. CASE AcceptorTask
  <2>1. CASE NotifyPresent
    BY <2>1, OtherSteps, OutsideStep
  <2>2. CASE AcceptorEnds
    BY <2>2, EndStep DEF AcceptorEnds
  <2> QED
    BY <1>2, <2>1, <2>2, AddStep, StartStep DEF AcceptorTask
<1>3. ASSUME NEW t \in Transports, Add(t) \/ Remove(t) \/ ListenFails(t) \/ Removed(t)
      PROVE  AcceptorInv'
  <2>1. CASE Remove(t)
    BY <2>1, OtherSteps, OutsideStep
  <2>2. CASE ListenFails(t) \/ Removed(t)
    BY <2>2, EndStep DEF ListenFails, Removed, Finish
  <2> QED
    BY <1>3, <2>1, <2>2, AddStep
<1>4. ASSUME NEW c \in Streams,
             Listen(c) \/ AcceptingTask(c) \/ AcceptFails(c) \/ ConnectionTask(c) \/ LinkLost(c)
      PROVE  AcceptorInv'
  <2>1. CASE Listen(c) \/ Accepted(c) \/ Wrapped(c) \/ Disconnected(c) \/ AcceptFails(c)
    BY <2>1, OtherSteps, OutsideStep
  <2>2. CASE Mismatch(c)
    BY <2>2, EndStep DEF Mismatch, Finish
  <2> QED
    BY <1>4, <2>1, <2>2, LinkStep, FilterStep, AskStep DEF AcceptingTask, ConnectionTask
<1>5. ASSUME NEW a \in Callers, Call(a) \/ Cancel(a) \/ Accepting(a) PROVE AcceptorInv'
  BY <1>5, OtherSteps, OutsideStep
<1> QED
  BY <1>1, <1>2, <1>3, <1>4, <1>5, DropStep DEF Next

\* AcceptorInv holds for any transports, streams and callers of accept: what a
\* link filter goes through includes every transport that listens.
THEOREM AcceptorInvariant == Spec => []AcceptorInv
BY AcceptorInvInit, AcceptorInvStep, PTL DEF Spec

\* Only a filter that has asked all it has listed lets a link pass.
LEMMA PassedFilter ==
  ASSUME AcceptorInv, [Next]_vars, NEW c \in Streams, link[c] = "filter", link'[c] = "up"
  PROVE  asked[c] = listed[c]
<1>1. link \in [Streams -> LinkStates]
  BY DEF AcceptorInv, FilterType
<1>2. CASE \E d \in Streams : AddLink(d)
  <2>1. PICK d \in Streams : AddLink(d)
    BY <1>2
  <2>2. d = c
    BY <1>1, <2>1 DEF AddLink
  <2> QED
    BY <2>1, <2>2 DEF AddLink
<1>3. ASSUME link' = link PROVE FALSE
  BY <1>3
<1>4. ASSUME NEW d \in Streams, NEW s \in {"new", "gone", "filter"}, link' = [link EXCEPT ![d] = s]
      PROVE  FALSE
  BY <1>1, <1>4
<1>5. ASSUME NEW ts, End(ts) PROVE FALSE
  BY <1>3, <1>5 DEF End
<1>6. ASSUME UNCHANGED filterVars PROVE FALSE
  BY <1>3, <1>6 DEF filterVars
<1>7. ASSUME AcceptorTask PROVE FALSE
  BY <1>3, <1>5, <1>6, <1>7, OtherSteps DEF AcceptorTask, AcceptorEnds, TransportAdded, StartTransport, streamVars
<1>8. ASSUME NEW t \in Transports, Add(t) \/ Remove(t) \/ ListenFails(t) \/ Removed(t) PROVE FALSE
  BY <1>3, <1>5, <1>8 DEF Add, Remove, ListenFails, Removed, Finish, streamVars
<1>9. ASSUME NEW d \in Streams, Listen(d) \/ AcceptingTask(d) \/ AcceptFails(d) PROVE FALSE
  <2>1. CASE Listen(d) \/ Accepted(d) \/ Wrapped(d) \/ Disconnected(d) \/ AcceptFails(d)
    BY <1>6, <2>1, OtherSteps
  <2>2. CASE Mismatch(d)
    BY <1>5, <2>2 DEF Mismatch, Finish
  <2>3. CASE AddIncoming(d)
    BY <1>4, <2>3 DEF AddIncoming
  <2> QED
    BY <1>9, <2>1, <2>2, <2>3 DEF AcceptingTask
<1>10. ASSUME NEW d \in Streams, FilterBegins(d) \/ Ask(d) \/ Disconnect(d) \/ LinkLost(d) PROVE FALSE
  BY <1>3, <1>4, <1>10 DEF FilterBegins, Ask, Disconnect, LinkLost
<1>11. ASSUME NEW a \in Callers, Call(a) \/ Cancel(a) \/ Accepting(a) PROVE FALSE
  BY <1>6, <1>11, OtherSteps
<1>12. ASSUME DropAcceptor PROVE FALSE
  BY <1>12 DEF DropAcceptor
<1>13. ASSUME UNCHANGED vars PROVE FALSE
  BY <1>3, <1>13 DEF vars, streamVars
<1> QED
  BY <1>2, <1>7, <1>8, <1>9, <1>10, <1>11, <1>12, <1>13 DEF Next, ConnectionTask

\* A link joins its connection only with the consent of every transport that
\* listens at that moment, whatever transports come and go while the filter
\* asks one after the other.
THEOREM FilterAlwaysComplete == Spec => FilterComplete
<1>1. AcceptorInv /\ [Next]_vars =>
        [\A c \in Streams : link[c] = "filter" /\ link'[c] = "up" => Running \subseteq asked[c]]_vars
  BY PassedFilter DEF AcceptorInv, ListedInv
<1> QED
  BY <1>1, AcceptorInvariant, PTL DEF Spec, FilterComplete
=============================================================================
