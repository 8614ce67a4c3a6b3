--------------------------- MODULE ConnectorProofs ---------------------------
(***************************************************************************)
(* The transport connector never dials a tag that has a link and never     *)
(* goes to sleep while a tag lacks one, for any sets of tags and any       *)
(* number of reports, faults and calls of set_disabled_tags.               *)
(***************************************************************************)
EXTENDS Connector, TLAPS

-----------------------------------------------------------------------------
(***************************************************************************)
(* The inductive invariant, in parts.                                      *)
(***************************************************************************)
Reasons == {"none", "filter", "lost"}
TaskStates == [state : {"none", "dialing", "linked", "sleeping", "done"}, reason : Reasons]
LinkStates == [state : {"none", "new", "up", "gone"}, reason : Reasons]
Watches == [val : SUBSET Tags, new : BOOLEAN]

\* Types of the variables the properties depend on.
ConnectorType ==
  /\ transport \in {"added", "running", "ended"} /\ pc \in {"top", "body", "wait"}
  /\ tags \in Watches /\ disabled \in Watches /\ links \in Watches
  /\ connect \in [Tags -> TaskStates] /\ link \in [Tags -> LinkStates]
  /\ publishing \in BOOLEAN /\ terminated \in BOOLEAN

\* While the transport task lives, every link has the connect task that made
\* it; only a running transport task has connect tasks.
OwnerInv ==
  /\ transport # "ended" => \A t \in Tags : link[t].state # "none" => connect[t].state = "linked"
  /\ transport # "running" => \A t \in Tags : connect[t].state = "none"

\* The published list is right, except between the removal of a link and the
\* publication that follows it.
ListInv == links.val = Up \/ publishing \/ terminated

\* What the transport task read at the top of its loop is the last list, or it
\* will be woken.
SeenInv ==
  /\ transport = "added" => pc = "top"
  /\ transport = "running" /\ pc \in {"body", "wait"} => seen = links.val \/ links.new

\* What the transport task decided on is still so, or it will be woken.
DecidedInv ==
  Waiting /\ ~tags.new /\ ~disabled.new =>
    \A t \in tags.val \ (disabled.val \cup rejected \cup seen) : connect[t].state # "none"

ConnectorInv == ConnectorType /\ OwnerInv /\ ListInv /\ SeenInv /\ DecidedInv
-----------------------------------------------------------------------------
(***************************************************************************)
(* Watch channels.                                                         *)
(***************************************************************************)

\* Sending makes a change that is not seen, reading keeps the value.
LEMMA WatchFacts ==
  /\ \A v \in SUBSET Tags : Watch(v) \in Watches /\ Watch(v).val = v /\ Watch(v).new
  /\ \A w \in Watches : Read(w) \in Watches /\ Read(w).val = w.val /\ ~Read(w).new
BY DEF Watch, Read, Watches

\* The invariant holds in the first state.
LEMMA ConnectorInit == Init => ConnectorInv
<1> SUFFICES ASSUME Init PROVE ConnectorInv
  OBVIOUS
<1>1. Read(Watch({})) \in Watches /\ Read(Watch({})).val = {}
  BY WatchFacts
<1>2. /\ Idle \in TaskStates /\ Idle.state = "none"
      /\ NoLink \in LinkStates /\ NoLink.state = "none"
  BY DEF Idle, NoLink, TaskStates, LinkStates, Reasons
<1>3. ConnectorType
  BY <1>1, <1>2 DEF Init, ConnectorType
<1>4. OwnerInv
  BY <1>2 DEF Init, OwnerInv
<1>5. ListInv
  BY <1>1, <1>2 DEF Init, ListInv, Up
<1> QED
  BY <1>3, <1>4, <1>5 DEF Init, ConnectorInv, SeenInv, DecidedInv, Waiting

\* Connector::task does not touch what the transport task decides on.
LEMMA TaskStep ==
  ASSUME ConnectorInv, TransportAdded \/ PublishTags \/ UNCHANGED vars
  PROVE  ConnectorInv'
<1> USE DEF ConnectorInv
<1>1. /\ UNCHANGED <<pc, seen, tags, disabled, connect, link, rejected, links, publishing, terminated>>
      /\ transport' = transport \/ (transport = "added" /\ transport' = "running")
  BY DEF TransportAdded, PublishTags, vars, loopVars, connectionVars
<1>2. ConnectorType'
  BY <1>1 DEF ConnectorType
<1>3. OwnerInv' /\ ListInv'
  BY <1>1 DEF OwnerInv, ListInv, Up
<1>4. SeenInv' /\ DecidedInv'
  BY <1>1 DEF SeenInv, DecidedInv, Waiting
<1> QED
  BY <1>2, <1>3, <1>4

\* ReadLinks: the list is read.
LEMMA ReadLinksStep ==
  ASSUME ConnectorInv, ReadLinks
  PROVE  ConnectorInv'
<1> USE DEF ConnectorInv
<1>1. /\ transport = "running" /\ seen' = links.val /\ pc' = "body"
      /\ UNCHANGED <<transport, tags, disabled, connect, link, rejected, links, publishing, terminated>>
  BY DEF ReadLinks, connectionVars
<1>2. ConnectorType'
  BY <1>1 DEF ConnectorType
<1>3. OwnerInv' /\ ListInv'
  BY <1>1 DEF OwnerInv, ListInv, Up
<1>4. SeenInv' /\ DecidedInv'
  BY <1>1 DEF SeenInv, DecidedInv, Waiting
<1> QED
  BY <1>2, <1>3, <1>4

\* ConnectTags: every tag that has neither a link nor a connect task gets one.
LEMMA ConnectTagsStep ==
  ASSUME ConnectorInv, ConnectTags
  PROVE  ConnectorInv'
<1> USE DEF ConnectorInv
<1>1. /\ transport = "running" /\ pc = "body" /\ pc' = "wait"
      /\ disabled' = Read(disabled) /\ tags' = Read(tags)
      /\ UNCHANGED <<transport, seen, link, rejected, links, publishing, terminated>>
  BY DEF ConnectTags, connectionVars
<1>2. connect' = [t \in Tags |-> IF t \in Unconnected THEN At("dialing", "none") ELSE connect[t]]
  BY DEF ConnectTags
<1>3. /\ tags' \in Watches /\ tags'.val = tags.val
      /\ disabled' \in Watches /\ disabled'.val = disabled.val
  BY <1>1, WatchFacts DEF ConnectorType
<1>4. At("dialing", "none") \in TaskStates /\ At("dialing", "none").state = "dialing"
  BY DEF At, TaskStates, Reasons
<1>5. connect' \in [Tags -> TaskStates]
  BY <1>2, <1>4 DEF ConnectorType
<1>6. \A t \in Tags : /\ t \in Unconnected => connect[t].state = "none" /\ connect'[t].state = "dialing"
                      /\ t \notin Unconnected => connect'[t] = connect[t]
  BY <1>2, <1>4 DEF Unconnected
<1>7. ConnectorType'
  BY <1>1, <1>3, <1>5 DEF ConnectorType
<1>8. OwnerInv'
  <2>1. \A t \in Tags : link[t].state # "none" => connect'[t].state = "linked"
    BY <1>1, <1>6 DEF OwnerInv
  <2> QED
    BY <1>1, <2>1 DEF OwnerInv
<1>9. ListInv' /\ SeenInv'
  BY <1>1 DEF ListInv, SeenInv, Up
<1>10. DecidedInv'
  <2>1. tags.val \subseteq Tags
    BY DEF ConnectorType, Watches
  <2>2. \A t \in tags.val \ (disabled.val \cup rejected \cup seen) : connect'[t].state # "none"
    BY <1>6, <2>1 DEF Unconnected
  <2> QED
    BY <1>1, <1>3, <2>2 DEF DecidedInv
<1> QED
  BY <1>7, <1>8, <1>9, <1>10

\* The end of the transport task takes its connect tasks along.
LEMMA EndStep ==
  ASSUME ConnectorInv, Mismatch \/ Remove \/ Terminated
  PROVE  ConnectorInv'
<1> USE DEF ConnectorInv
<1>1. /\ transport' = "ended" /\ connect' = [t \in Tags |-> Idle]
      /\ UNCHANGED <<pc, seen, link, rejected, links, publishing, terminated>>
      /\ tags' = tags \/ tags' = Read(tags)
      /\ disabled' = disabled \/ disabled' = Read(disabled)
  BY DEF Mismatch, Remove, Terminated, End, connectionVars, loopVars
<1>2. Idle \in TaskStates /\ Idle.state = "none"
  BY DEF Idle, TaskStates, Reasons
<1>3. tags' \in Watches /\ disabled' \in Watches
  BY <1>1, WatchFacts DEF ConnectorType
<1>4. ConnectorType'
  BY <1>1, <1>2, <1>3 DEF ConnectorType
<1>5. OwnerInv'
  BY <1>1, <1>2 DEF OwnerInv
<1>6. ListInv' /\ SeenInv' /\ DecidedInv'
  BY <1>1 DEF ListInv, SeenInv, DecidedInv, Waiting, Up
<1> QED
  BY <1>4, <1>5, <1>6

\* Events that the transport task and the application cause: a change that is
\* not seen, or another round of the loop.
LEMMA SelectStep ==
  ASSUME ConnectorInv,
         \/ DisabledChanged \/ TagsChanged \/ LinksChanged
         \/ \E s \in Reports : LinkTags(s)
         \/ \E s \in Disables : SetDisabled(s)
  PROVE  ConnectorInv'
<1> USE ConnectorAssumption DEF ConnectorInv
<1>1. UNCHANGED <<transport, seen, link, rejected, connect, publishing, terminated>>
  BY DEF DisabledChanged, TagsChanged, LinksChanged, LinkTags, SetDisabled, connectionVars, loopVars
<1>2. /\ tags' = tags \/ tags' = Read(tags) \/ \E s \in Reports : tags' = Watch(s)
      /\ disabled' = disabled \/ disabled' = Read(disabled) \/ \E s \in Disables : disabled' = Watch(s)
      /\ links' = links \/ links' = Read(links)
      /\ \/ pc' = "top" /\ transport = "running"
         \/ /\ pc' = pc /\ links' = links
            /\ tags' = tags \/ \E s \in Reports : tags' = Watch(s)
            /\ disabled' = disabled \/ \E s \in Disables : disabled' = Watch(s)
  BY DEF DisabledChanged, TagsChanged, LinksChanged, LinkTags, SetDisabled, connectionVars, loopVars, Waiting
<1>3. /\ tags' \in Watches /\ disabled' \in Watches /\ links' \in Watches
      /\ links'.val = links.val
  BY <1>2, WatchFacts DEF ConnectorType
<1>4. ConnectorType'
  BY <1>1, <1>2, <1>3 DEF ConnectorType
<1>5. OwnerInv'
  BY <1>1 DEF OwnerInv
<1>6. ListInv'
  BY <1>1, <1>3 DEF ListInv, Up
<1>7. SeenInv'
  BY <1>1, <1>2 DEF SeenInv
<1>8. DecidedInv'
  <2>1. CASE pc' = "top"
    BY <2>1 DEF DecidedInv, Waiting
  <2>2. CASE pc' = pc /\ tags' = tags /\ disabled' = disabled
    BY <1>1, <2>2 DEF DecidedInv, Waiting
  <2>3. CASE \E s \in Reports : tags' = Watch(s)
    <3>1. tags'.new
      BY <2>3, WatchFacts
    <3> QED
      BY <3>1 DEF DecidedInv
  <2>4. CASE \E s \in Disables : disabled' = Watch(s)
    <3>1. disabled'.new
      BY <2>4, WatchFacts
    <3> QED
      BY <3>1 DEF DecidedInv
  <2> QED
    BY <1>2, <2>1, <2>2, <2>3, <2>4
<1> QED
  BY <1>4, <1>5, <1>6, <1>7, <1>8

\* Finished: the tag has no connect task any more, and the loop starts again.
LEMMA FinishedStep ==
  ASSUME ConnectorInv, NEW t \in Tags, Finished(t)
  PROVE  ConnectorInv'
<1> USE DEF ConnectorInv
<1>1. /\ Waiting /\ connect[t].state = "done" /\ connect' = [connect EXCEPT ![t] = Idle] /\ pc' = "top"
      /\ UNCHANGED <<transport, seen, tags, disabled, link, links, publishing, terminated>>
  BY DEF Finished, connectionVars
<1>2. Idle \in TaskStates /\ Idle.state = "none"
  BY DEF Idle, TaskStates, Reasons
<1>3. ConnectorType'
  BY <1>1, <1>2 DEF ConnectorType
<1>4. OwnerInv'
  BY <1>1, <1>2 DEF OwnerInv, Waiting, ConnectorType
<1>5. ListInv' /\ SeenInv' /\ DecidedInv'
  BY <1>1 DEF ListInv, SeenInv, DecidedInv, Waiting, Up
<1> QED
  BY <1>3, <1>4, <1>5

\* A connect task that changes its own state and keeps one, and its link with
\* it, without adding a link to the list or removing one from it.
LEMMA OwnStep ==
  ASSUME ConnectorInv, NEW t \in Tags, NEW c \in TaskStates, NEW k \in LinkStates,
         Waiting, connect' = [connect EXCEPT ![t] = c], link' = [link EXCEPT ![t] = k],
         c.state # "none", k.state # "none" => c.state = "linked",
         k.state # "up", link[t].state # "up",
         UNCHANGED <<transport, pc, seen, tags, disabled, rejected, links, publishing, terminated>>
  PROVE  ConnectorInv'
<1> USE DEF ConnectorInv
<1>1. /\ connect' \in [Tags -> TaskStates] /\ link' \in [Tags -> LinkStates]
      /\ connect'[t] = c /\ link'[t] = k
      /\ \A u \in Tags : u # t => connect'[u] = connect[u] /\ link'[u] = link[u]
  BY DEF ConnectorType
<1>2. ConnectorType'
  BY <1>1 DEF ConnectorType
<1>3. OwnerInv'
  BY <1>1 DEF OwnerInv, Waiting
<1>4. Up' = Up
  BY <1>1 DEF Up
<1>5. ListInv' /\ SeenInv'
  BY <1>4 DEF ListInv, SeenInv
<1>6. DecidedInv'
  <2>1. tags.val \subseteq Tags
    BY DEF ConnectorType, Watches
  <2>2. \A u \in Tags : connect[u].state # "none" => connect'[u].state # "none"
    BY <1>1
  <2> QED
    BY <2>1, <2>2 DEF DecidedInv, Waiting
<1> QED
  BY <1>2, <1>3, <1>5, <1>6

\* ConnectFails, Connected, Disconnected and Slept.
LEMMA ConnectTaskStep ==
  ASSUME ConnectorInv, NEW t \in Tags, ConnectTask(t)
  PROVE  ConnectorInv'
<1> USE DEF ConnectorInv
<1>1. /\ Waiting
      /\ UNCHANGED <<transport, pc, seen, tags, disabled, rejected, links, publishing, terminated>>
  BY DEF ConnectTask, ConnectFails, Connected, Disconnected, Slept, connectUnchanged, loopVars, connectionVars
<1>2. connect[t] \in TaskStates /\ link[t] \in LinkStates
  BY DEF ConnectorType
<1>3. \A s \in {"sleeping", "linked"}, r \in Reasons : At(s, r) \in TaskStates /\ At(s, r).state = s
  BY DEF At, TaskStates
<1>4. "none" \in Reasons /\ link[t].reason \in Reasons
  BY <1>2 DEF Reasons, LinkStates
<1>5. \E c \in TaskStates, k \in LinkStates :
        /\ connect' = [connect EXCEPT ![t] = c] /\ link' = [link EXCEPT ![t] = k]
        /\ c.state # "none" /\ (k.state # "none" => c.state = "linked")
        /\ k.state # "up" /\ link[t].state # "up"
  <2>0. link[t].state # "none" => connect[t].state = "linked"
    BY <1>1 DEF OwnerInv, Waiting
  <2>1. CASE ConnectFails(t)
    <3>1. /\ connect[t].state = "dialing" /\ link' = link
          /\ connect' = [connect EXCEPT ![t] = At("sleeping", "none")]
      BY <2>1 DEF ConnectFails
    <3>2. link' = [link EXCEPT ![t] = link[t]] /\ link[t].state = "none"
      BY <2>0, <3>1 DEF ConnectorType
    <3> QED
      BY <1>2, <1>3, <1>4, <3>1, <3>2
  <2>2. CASE Connected(t)
    <3>1. /\ connect[t].state = "dialing" /\ link' = [link EXCEPT ![t] = At("new", "none")]
          /\ connect' = [connect EXCEPT ![t] = At("linked", "none")]
      BY <2>2 DEF Connected
    <3>2. link[t].state = "none"
      BY <2>0, <3>1
    <3>3. At("new", "none") \in LinkStates /\ At("new", "none").state = "new"
      BY <1>4 DEF At, LinkStates
    <3> QED
      BY <1>3, <1>4, <3>1, <3>2, <3>3
  <2>3. CASE Disconnected(t)
    <3>1. /\ link[t].state = "gone" /\ link' = [link EXCEPT ![t] = NoLink]
          /\ connect' = [connect EXCEPT ![t] = At("sleeping", link[t].reason)]
      BY <2>3 DEF Disconnected
    <3>2. NoLink \in LinkStates /\ NoLink.state = "none"
      BY <1>4 DEF NoLink, LinkStates
    <3> QED
      BY <1>3, <1>4, <3>1, <3>2
  <2>4. CASE Slept(t)
    <3>0. PICK c : c = [connect[t] EXCEPT !.state = "done"]
      OBVIOUS
    <3>1. /\ connect[t].state = "sleeping" /\ link' = link
          /\ connect' = [connect EXCEPT ![t].state = "done"]
      BY <2>4 DEF Slept
    <3>2. connect' = [connect EXCEPT ![t] = c] /\ link' = [link EXCEPT ![t] = link[t]]
      BY <3>0, <3>1 DEF ConnectorType
    <3>3. c \in TaskStates /\ c.state = "done"
      BY <1>2, <3>0 DEF TaskStates
    <3>4. link[t].state = "none"
      BY <2>0, <3>1
    <3> QED
      BY <1>2, <3>2, <3>3, <3>4
  <2> QED
    BY <2>1, <2>2, <2>3, <2>4 DEF ConnectTask
<1>6. PICK c \in TaskStates, k \in LinkStates :
        /\ connect' = [connect EXCEPT ![t] = c] /\ link' = [link EXCEPT ![t] = k]
        /\ c.state # "none" /\ (k.state # "none" => c.state = "linked")
        /\ k.state # "up" /\ link[t].state # "up"
  BY <1>5
<1> QED
  BY <1>1, <1>6, OwnStep

\* What the connection task may do to the links: none comes into being, and a
\* list that is published is a change not yet seen.
LinksMove ==
  /\ link' \in [Tags -> LinkStates] /\ links' \in Watches
  /\ publishing' \in BOOLEAN /\ terminated' \in BOOLEAN
  /\ \A t \in Tags : link'[t].state # "none" => link[t].state # "none"
  /\ links' = links \/ links'.new

\* The connection task publishes what it changes at once or next, unless it
\* has ended.
LEMMA ConnectionStep ==
  ASSUME ConnectorInv, PublishLinks \/ Terminate \/ \E t \in Tags : NewLink(t) \/ RemoveLink(t)
  PROVE  ConnectorInv'
<1> USE DEF ConnectorInv
<1>1. UNCHANGED <<transport, pc, seen, tags, disabled, rejected, connect>>
  BY DEF PublishLinks, Terminate, NewLink, RemoveLink, taskUnchanged, loopVars
<1>2. \A r \in {"filter", "lost"} : Gone(r) \in LinkStates /\ Gone(r).state = "gone"
  BY DEF Gone, LinkStates, Reasons
<1>3. At("up", "none") \in LinkStates /\ At("up", "none").state = "up"
  BY DEF At, LinkStates, Reasons
<1>4. \A S \in SUBSET Tags : Watch(S) \in Watches /\ Watch(S).val = S /\ Watch(S).new
  BY WatchFacts
<1>5. ASSUME PublishLinks PROVE LinksMove /\ ListInv'
  <2>1. links' = Watch(Up) /\ publishing' = FALSE /\ UNCHANGED <<link, terminated>>
    BY <1>5 DEF PublishLinks
  <2>2. Up \in SUBSET Tags /\ Up' = Up
    BY <2>1 DEF Up
  <2> QED
    BY <1>4, <2>1, <2>2 DEF ConnectorType, ListInv, LinksMove
<1>6. ASSUME Terminate PROVE LinksMove /\ ListInv'
  <2>1. /\ terminated' = TRUE /\ UNCHANGED <<links, publishing>>
        /\ link' = [t \in Tags |-> IF link[t].state \in {"new", "up"} THEN Gone("lost") ELSE link[t]]
    BY <1>6 DEF Terminate
  <2>2. link' \in [Tags -> LinkStates] /\ \A t \in Tags : link'[t].state # "none" => link[t].state # "none"
    BY <1>2, <2>1 DEF ConnectorType
  <2> QED
    BY <2>1, <2>2 DEF ConnectorType, ListInv, LinksMove
<1>7. ASSUME NEW t \in Tags, NewLink(t)
      PROVE  LinksMove /\ ListInv'
  <2>1. /\ ~publishing /\ ~terminated /\ link[t].state = "new" /\ UNCHANGED <<publishing, terminated>>
    BY <1>7 DEF NewLink
  <2>2. CASE Redundant(t)
    <3>1. link' = [link EXCEPT ![t] = Gone("filter")] /\ links' = links
      BY <1>7, <2>2 DEF NewLink
    <3>2. Up' = Up
      BY <1>2, <2>1, <3>1 DEF Up, ConnectorType
    <3> QED
      BY <1>2, <2>1, <3>1, <3>2 DEF ConnectorType, ListInv, LinksMove
  <2>3. CASE ~Redundant(t)
    <3>1. link' = [link EXCEPT ![t] = At("up", "none")] /\ links' = Watch(Up \cup {t})
      BY <1>7, <2>3 DEF NewLink
    <3>2. Up \cup {t} \in SUBSET Tags /\ Up' = Up \cup {t}
      BY <1>3, <3>1 DEF Up, ConnectorType
    <3> QED
      BY <1>3, <1>4, <2>1, <3>1, <3>2 DEF ConnectorType, ListInv, LinksMove
  <2> QED
    BY <2>2, <2>3
<1>8. ASSUME NEW t \in Tags, RemoveLink(t)
      PROVE  LinksMove /\ ListInv'
  <2>1. /\ link[t].state = "up" /\ link' = [link EXCEPT ![t] = Gone("lost")]
        /\ publishing' = TRUE /\ UNCHANGED <<links, terminated>>
    BY <1>8 DEF RemoveLink
  <2> QED
    BY <1>2, <2>1 DEF ConnectorType, ListInv, LinksMove
<1>9. LinksMove /\ ListInv'
  BY <1>5, <1>6, <1>7, <1>8
<1>10. ConnectorType'
  BY <1>1, <1>9 DEF ConnectorType, LinksMove
<1>11. OwnerInv'
  BY <1>1, <1>9 DEF OwnerInv, LinksMove
<1>12. SeenInv'
  BY <1>1, <1>9 DEF SeenInv, LinksMove
<1>13. DecidedInv'
  BY <1>1 DEF DecidedInv, Waiting
<1> QED
  BY <1>9, <1>10, <1>11, <1>12, <1>13
-----------------------------------------------------------------------------
(***************************************************************************)
(* Theorems.                                                               *)
(***************************************************************************)

\* The invariant that carries the theorems below.
THEOREM ConnectorInvariant == Spec => []ConnectorInv
<1>1. Init => ConnectorInv
  BY ConnectorInit
<1>2. ConnectorInv /\ [Next]_vars => ConnectorInv'
  BY TaskStep, ReadLinksStep, ConnectTagsStep, EndStep, SelectStep, FinishedStep, ConnectTaskStep,
     ConnectionStep DEF Next, Loop, Select
<1> QED
  BY <1>1, <1>2, PTL DEF Spec

\* transport_task never dials a tag of which the connection has a link, though
\* the list of links it decides on may be behind.
THEOREM OneLinkPerTagAlways == Spec => []OneLinkPerTag
<1>1. ConnectorInv => OneLinkPerTag
  BY DEF ConnectorInv, OwnerInv, OneLinkPerTag
<1> QED
  BY <1>1, ConnectorInvariant, PTL

\* When transport_task goes to sleep with nothing pending, every tag it should
\* connect has a connect task: no interleaving with the connection task, which
\* reports a lost link before it publishes the list, loses the wake-up.
THEOREM NothingMissedAlways == Spec => []NothingMissed
<1>1. ConnectorInv => NothingMissed
  <2> SUFFICES ASSUME ConnectorInv, Waiting, ~Pending,
                      NEW t \in tags.val \ (disabled.val \cup rejected)
               PROVE  connect[t].state # "none"
    BY DEF NothingMissed
  <2>1. seen = Up
    BY DEF ConnectorInv, SeenInv, ListInv, Waiting, Pending
  <2>2. CASE t \in seen
    BY <2>1, <2>2 DEF ConnectorInv, OwnerInv, Up, Waiting
  <2>3. CASE t \notin seen
    BY <2>3 DEF ConnectorInv, DecidedInv, Pending
  <2> QED
    BY <2>2, <2>3
<1> QED
  BY <1>1, ConnectorInvariant, PTL
=============================================================================
