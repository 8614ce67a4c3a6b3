------------------------------ MODULE Connector ------------------------------
(***************************************************************************)
(* The transport connector: the task of one transport that keeps a link    *)
(* open for every available tag, the connect tasks it polls, the connector *)
(* task above it that publishes the available tags, and of the connection  *)
(* task the part that accepts, filters, removes and publishes links.       *)
(*                                                                         *)
(* The transport task is one future: its connect tasks and the tag         *)
(* discovery of the transport run only while it waits in its select (pc =  *)
(* "wait").  The connection task runs in parallel; it tells a connect task *)
(* that its link is gone before it publishes the list without the link.    *)
(* A watch channel is its value and whether the receiver has seen it.      *)
(***************************************************************************)
EXTENDS FiniteSets, Integers

CONSTANTS
  Tags,           \* link tags the transport may report
  Foreign,        \* tags that carry another transport's name
  Path(_),        \* local interface and remote user data of a tag's link
  Reports,        \* sets of tags the transport may report
  Disables,       \* sets of tags the application may disable
  MaxTagChanges,  \* bound: how often the transport reports other tags
  MaxDisables,    \* bound: calls of set_disabled_tags
  MaxFaults       \* bound: failed connects and lost links

ASSUME ConnectorAssumption == Reports \subseteq SUBSET Tags /\ Disables \subseteq SUBSET Tags

VARIABLES
  transport,   \* "added", "running" or "ended"
  pc,          \* transport task: "top", "body" (list of links read) or "wait"
  seen,        \* list of links read at the top of the loop
  tags,        \* what the transport reports: value and unseen change
  forwarded,   \* tags forwarded to the connector task, and unseen change
  tagsChanged, \* the change of tags was the event that ended the last wait
  available,   \* what Connector::available_tags returns
  disabled,    \* disabled tags: value and unseen change
  connect,     \* connect task of each tag ("none": not in connecting_tags)
  rejected,    \* link_filter_rejected_tags
  link,        \* link of each tag in the connection task
  request,     \* links that start_disconnect was called on
  links,       \* list of links the connection task published, unseen change
  publishing,  \* the connection task has removed a link, not yet published
  terminated,  \* the connection task has ended
  changes, disables, faults  \* counters for the bounds

vars == <<transport, pc, seen, tags, forwarded, tagsChanged, available,
          disabled, connect, rejected, link, request, links, publishing,
          terminated, changes, disables, faults>>

Watch(v) == [val |-> v, new |-> TRUE]
Read(w) == [w EXCEPT !.new = FALSE]

Up == {t \in Tags : link[t].state = "up"}
NoLink == [state |-> "none", reason |-> "none"]
Gone(reason) == [state |-> "gone", reason |-> reason]
Idle == [state |-> "none", reason |-> "none"]
At(state, reason) == [state |-> state, reason |-> reason]

Init ==
  /\ transport = "added" /\ pc = "top" /\ seen = {}
  /\ tags = Read(Watch({})) /\ forwarded = Read(Watch({}))
  /\ tagsChanged = TRUE /\ available = {}
  /\ disabled = Read(Watch({}))
  /\ connect = [t \in Tags |-> Idle] /\ rejected = {}
  /\ link = [t \in Tags |-> NoLink] /\ request = {}
  /\ links = Read(Watch({})) /\ publishing = FALSE /\ terminated = FALSE
  /\ changes = 0 /\ disables = 0 /\ faults = 0

connectionVars == <<links, publishing, terminated>>
loopVars == <<seen, tags, forwarded, tagsChanged, rejected>>
bounds == <<changes, disables, faults>>

(***************************************************************************)
(* Connector::task.                                                        *)
(***************************************************************************)

\* TransportAdded: the transport task is started with an empty set of tags.
TransportAdded ==
  /\ transport = "added" /\ ~terminated
  /\ transport' = "running"
  /\ UNCHANGED <<pc, loopVars, available, disabled, connect, link, request,
                 connectionVars, bounds>>

\* TagsChanged, TransportTerminated: collect the tags of the transports that
\* still run and publish them.
PublishTags ==
  /\ ~terminated
  /\ IF transport = "ended" THEN available # {} ELSE forwarded.new
  /\ available' = IF transport = "ended" THEN {} ELSE forwarded.val
  /\ forwarded' = Read(forwarded)
  /\ UNCHANGED <<transport, pc, seen, tags, tagsChanged, rejected, disabled,
                 connect, link, request, connectionVars, bounds>>

(***************************************************************************)
(* Connector::transport_task: the top of its loop.                         *)
(***************************************************************************)

\* The list of links is read, then connected_links is awaited.
ReadLinks ==
  /\ transport = "running" /\ pc = "top"
  /\ seen' = links.val
  /\ pc' = "body"
  /\ UNCHANGED <<transport, tags, forwarded, tagsChanged, rejected, available,
                 disabled, connect, link, request, connectionVars, bounds>>

\* Mutant: only the list of links is consulted.
UnconnectedByList == {t \in tags.val : t \notin disabled.val \cup rejected \cup seen}

\* The tags a connect task is started for.
Unconnected ==
  {t \in tags.val : /\ connect[t].state = "none"
                    /\ t \notin disabled.val \cup rejected \cup seen}

\* Mutant: links are only looked at when the disabled tags have changed.
DisabledOnChange == {t \in seen \cap disabled.val : t \in Up /\ disabled.new}

\* The links start_disconnect is called on because their tag is disabled.
DisabledLinks == {t \in seen \cap disabled.val : t \in Up}

\* Mutant: links are kept when their connect task is dropped.
NoGuard == {}

\* Dropping the transport task drops its connect tasks; each guard of an
\* established link requests its disconnection.
Guarded ==
  {t \in Tags : connect[t].state = "linked" /\ link[t].state \in {"new", "up"}}
End ==
  /\ transport' = "ended"
  /\ request' = request \cup Guarded
  /\ connect' = [t \in Tags |-> Idle]

\* Disconnect disabled tags, forward changed tags, connect missing tags.
ConnectTags ==
  /\ transport = "running" /\ pc = "body"
  /\ tags.val \cap Foreign = {}
  /\ request' = request \cup DisabledLinks
  /\ disabled' = Read(disabled)
  /\ tags' = Read(tags)
  /\ forwarded' = IF tagsChanged THEN Watch(tags.val) ELSE forwarded
  /\ tagsChanged' = FALSE
  /\ connect' = [t \in Tags |-> IF t \in Unconnected
                                THEN At("dialing", "none") ELSE connect[t]]
  /\ pc' = "wait"
  /\ UNCHANGED <<transport, seen, rejected, available, link, connectionVars,
                 bounds>>

\* A tag of another transport ends the transport task with an error; connect
\* tasks started before it are dropped before they ran.
Mismatch ==
  /\ transport = "running" /\ pc = "body"
  /\ tags.val \cap Foreign # {}
  /\ transport' = "ended"
  /\ request' = request \cup DisabledLinks \cup Guarded
  /\ connect' = [t \in Tags |-> Idle]
  /\ disabled' = Read(disabled)
  /\ tags' = Read(tags)
  /\ forwarded' = IF tagsChanged THEN Watch(tags.val) ELSE forwarded
  /\ tagsChanged' = FALSE
  /\ UNCHANGED <<pc, seen, rejected, available, link, connectionVars, bounds>>

(***************************************************************************)
(* The select of the transport task.                                       *)
(***************************************************************************)
Waiting == transport = "running" /\ pc = "wait"

\* link_tags of the transport, polled by the select, reports other tags.
LinkTags(s) ==
  /\ Waiting /\ changes < MaxTagChanges
  /\ s # tags.val
  /\ tags' = Watch(s)
  /\ changes' = changes + 1
  /\ UNCHANGED <<transport, pc, seen, forwarded, tagsChanged, rejected,
                 available, disabled, connect, link, request, connectionVars,
                 disables, faults>>

\* link_tags fails (TRUE), or the handle asks for the removal.
Remove ==
  /\ Waiting
  /\ End
  /\ UNCHANGED <<pc, loopVars, available, disabled, link, connectionVars,
                 bounds>>

\* control.terminated().
Terminated ==
  /\ Waiting /\ terminated
  /\ End
  /\ UNCHANGED <<pc, loopVars, available, disabled, link, connectionVars,
                 bounds>>

DisabledChanged ==
  /\ Waiting /\ disabled.new
  /\ disabled' = Read(disabled)
  /\ pc' = "top"
  /\ UNCHANGED <<transport, loopVars, available, connect, link, request,
                 connectionVars, bounds>>

TagsChanged ==
  /\ Waiting /\ tags.new
  /\ tags' = Read(tags)
  /\ tagsChanged' = TRUE
  /\ pc' = "top"
  /\ UNCHANGED <<transport, seen, forwarded, rejected, available, disabled,
                 connect, link, request, connectionVars, bounds>>

\* Mutant: the branch does not go back to the top of the loop.
LinksChangedIdle ==
  /\ Waiting
  /\ links.new \/ terminated
  /\ links' = Read(links)
  /\ UNCHANGED <<transport, pc, loopVars, available, disabled, connect, link,
                 request, publishing, terminated, bounds>>

\* links_changed(), which also returns once the connection task has ended.
LinksChanged ==
  /\ Waiting
  /\ links.new \/ terminated
  /\ links' = Read(links)
  /\ pc' = "top"
  /\ UNCHANGED <<transport, loopVars, available, disabled, connect, link,
                 request, publishing, terminated, bounds>>

\* A connect task returns its tag and the reason its link was lost, if any.
Blocked(t) ==
  CASE connect[t].reason = "filter" -> rejected \cup {t}
    [] connect[t].reason = "lost"   -> {}
    [] OTHER                        -> rejected

\* Mutant: the tag stays in connecting_tags.
FinishedStays(t) ==
  /\ Waiting /\ connect[t].state = "done"
  /\ connect' = [connect EXCEPT ![t] = At("forgotten", "none")]
  /\ rejected' = Blocked(t)
  /\ pc' = "top"
  /\ UNCHANGED <<transport, seen, tags, forwarded, tagsChanged, available,
                 disabled, link, request, connectionVars, bounds>>

Finished(t) ==
  /\ Waiting /\ connect[t].state = "done"
  /\ connect' = [connect EXCEPT ![t] = Idle]
  /\ rejected' = Blocked(t)
  /\ pc' = "top"
  /\ UNCHANGED <<transport, seen, tags, forwarded, tagsChanged, available,
                 disabled, link, request, connectionVars, bounds>>

(***************************************************************************)
(* A connect task, polled by the select.                                   *)
(***************************************************************************)
connectUnchanged ==
  UNCHANGED <<transport, pc, loopVars, available, disabled, request,
              connectionVars, changes, disables>>

\* The transport, a wrapper or the link handshake fails: wait, return None.
ConnectFails(t) ==
  /\ Waiting /\ connect[t].state = "dialing"
  /\ terminated \/ faults < MaxFaults
  /\ faults' = IF terminated THEN faults ELSE faults + 1
  /\ connect' = [connect EXCEPT ![t] = At("sleeping", "none")]
  /\ UNCHANGED link
  /\ connectUnchanged

\* control.add has handed the link to the connection task.
Connected(t) ==
  /\ Waiting /\ connect[t].state = "dialing" /\ ~terminated
  /\ connect' = [connect EXCEPT ![t] = At("linked", "none")]
  /\ link' = [link EXCEPT ![t] = At("new", "none")]
  /\ UNCHANGED faults
  /\ connectUnchanged

\* disconnected() returns; the reconnect delay runs since the link was added.
Disconnected(t) ==
  /\ Waiting /\ connect[t].state = "linked" /\ link[t].state = "gone"
  /\ connect' = [connect EXCEPT ![t] = At("sleeping", link[t].reason)]
  /\ link' = [link EXCEPT ![t] = NoLink]
  /\ UNCHANGED faults
  /\ connectUnchanged

\* The reconnect delay is over.
Slept(t) ==
  /\ Waiting /\ connect[t].state = "sleeping"
  /\ connect' = [connect EXCEPT ![t].state = "done"]
  /\ UNCHANGED <<link, faults>>
  /\ connectUnchanged

(***************************************************************************)
(* The connection task.                                                    *)
(***************************************************************************)
taskUnchanged ==
  UNCHANGED <<transport, pc, loopVars, available, disabled, connect, changes,
              disables>>

\* link_filter: another link of the connection uses the same path.
Redundant(t) == \E u \in Up : Path(u) = Path(t)

\* TaskEvent::NewLink: the link is added and published, or refused.
NewLink(t) ==
  /\ ~publishing /\ ~terminated /\ link[t].state = "new"
  /\ IF Redundant(t)
     THEN /\ link' = [link EXCEPT ![t] = Gone("filter")]
          /\ request' = request \ {t}
          /\ UNCHANGED links
     ELSE /\ link' = [link EXCEPT ![t] = At("up", "none")]
          /\ links' = Watch(Up \cup {t})
          /\ UNCHANGED request
  /\ UNCHANGED <<publishing, terminated, faults>>
  /\ taskUnchanged

\* remove_link up to notify_disconnected: a requested disconnection is over,
\* or the link has failed.
RemoveLink(t) ==
  /\ ~publishing /\ ~terminated /\ link[t].state = "up"
  /\ t \in request \/ faults < MaxFaults
  /\ faults' = IF t \in request THEN faults ELSE faults + 1
  /\ link' = [link EXCEPT ![t] = Gone("lost")]
  /\ request' = request \ {t}
  /\ publishing' = TRUE
  /\ UNCHANGED <<links, terminated>>
  /\ taskUnchanged

\* remove_link: publish_links.
PublishLinks ==
  /\ publishing
  /\ links' = Watch(Up)
  /\ publishing' = FALSE
  /\ UNCHANGED <<link, request, terminated, faults>>
  /\ taskUnchanged

\* The connection task ends: all links are disconnected, the list of links
\* keeps its last value.
Terminate ==
  /\ ~publishing /\ ~terminated
  /\ terminated' = TRUE
  /\ link' = [t \in Tags |-> IF link[t].state \in {"new", "up"}
                             THEN Gone("lost") ELSE link[t]]
  /\ request' = {}
  /\ UNCHANGED <<links, publishing, faults>>
  /\ taskUnchanged

\* Connector::set_disabled_tags.
SetDisabled(s) ==
  /\ disables < MaxDisables /\ s # disabled.val
  /\ disabled' = Watch(s)
  /\ disables' = disables + 1
  /\ UNCHANGED <<transport, pc, loopVars, available, connect, link, request,
                 connectionVars, changes, faults>>

Loop == ReadLinks \/ ConnectTags \/ Mismatch
Select ==
  \/ DisabledChanged \/ TagsChanged \/ LinksChanged
  \/ \E t \in Tags : Finished(t)
ConnectTask(t) == ConnectFails(t) \/ Connected(t) \/ Disconnected(t) \/ Slept(t)

Next ==
  \/ TransportAdded \/ PublishTags
  \/ Loop \/ Select \/ Remove \/ Terminated
  \/ \E s \in Reports : LinkTags(s)
  \/ \E s \in Disables : SetDisabled(s)
  \/ \E t \in Tags : ConnectTask(t) \/ NewLink(t) \/ RemoveLink(t)
  \/ PublishLinks \/ Terminate

Spec == Init /\ [][Next]_vars

(***************************************************************************)
(* Fairness: the runtime polls every task that is ready, connects return,  *)
(* delays elapse, and the connection task handles its new links and        *)
(* completes a requested disconnection.                                    *)
(***************************************************************************)
FairSpec ==
  /\ Spec
  /\ WF_vars(TransportAdded \/ PublishTags)
  /\ WF_vars(Loop \/ Select \/ Terminated)
  /\ WF_vars(PublishLinks)
  /\ \A t \in Tags :
       /\ WF_vars(ConnectTask(t))
       /\ WF_vars(NewLink(t) \/ (t \in request /\ RemoveLink(t)))

(***************************************************************************)
(* Properties.                                                             *)
(***************************************************************************)

\* A tag is dialled only while the connection has no link of that tag, not
\* even one that is handed over but not yet in the list of links: the set of
\* connecting tags covers the time the list is behind.
OneLinkPerTag ==
  \A t \in Tags : connect[t].state = "dialing" => link[t].state \notin {"new", "up"}

\* No wake-up is lost: when the transport task waits and nothing it has not
\* yet seen is pending, every available, enabled tag that is not blocked has
\* a link or a connect task, although the list of links it decided on was
\* read before it awaited connected_links and is published after the connect
\* task learns that its link is gone.
Pending ==
  \/ tags.new \/ disabled.new \/ links.new \/ publishing \/ terminated
  \/ \E t \in Tags : connect[t].state = "done"
NothingMissed ==
  Waiting /\ ~Pending =>
    \A t \in tags.val \ (disabled.val \cup rejected) :
      connect[t].state # "none"

\* The link of a disabled tag is disconnected, also when the tag was disabled
\* while its connect task was still dialling.
DisabledDisconnects ==
  \A t \in Tags :
    (t \in disabled.val \cap Up) ~> (t \notin disabled.val \cap Up)

\* A tag that stays available and enabled gets its link back after failed
\* connects and lost links, or is blocked by the link filter.
Wanted(t) ==
  transport = "running" /\ ~terminated /\ t \in tags.val \ disabled.val
Reconnects ==
  \A t \in Tags : Wanted(t) ~> (t \in Up \cup rejected \/ ~Wanted(t))

\* Once a transport has ended, none of its links stays and none of its tags
\* is offered, whatever its connect tasks were doing when it ended.
RemovedLeavesNothing ==
  (transport = "ended") ~> (terminated \/ (Up = {} /\ available = {}))
==============================================================================
