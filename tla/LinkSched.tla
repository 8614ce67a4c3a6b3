----------------------------- MODULE LinkSched ------------------------------
(***************************************************************************)
(* The life of one link between two connection tasks (LinkInt of           *)
(* agg/link_int.rs as driven by Task::run of agg/task.rs): acceptance,     *)
(* readiness and the idle list, pings, tests of a link that is not         *)
(* confirmed, blocking by the users and graceful disconnection.            *)
(*                                                                         *)
(* An action is one iteration of the main loop: the handling of one event, *)
(* followed by what the next iteration does before it waits again (taking  *)
(* its snapshot, check_link_limits, link_testing_step).  Abstractions:     *)
(*  - Of the connection's other links one sees only what they do to this   *)
(*    link: check_link_limits may find it too slow.  None of them is idle. *)
(*  - Flushing is part of becoming ready.  Whether the link is below its   *)
(*    unacked limit is left open, and so is every duration: a timeout may  *)
(*    elapse whenever its condition holds.                                 *)
(*  - Of the reliable messages Data stands for those has_outstanding_ack   *)
(*    waits for and Consumed for all others.  The link delivers in order,  *)
(*    so an Ack is for the oldest of them.                                 *)
(***************************************************************************)
EXTENDS Integers, Sequences

CONSTANTS
  EP, Peer,             \* the two endpoints
  Server,               \* the endpoint with Direction::Incoming
  TestDataLimit,        \* LinkCfg::test_data_limit
  TestAfterAckTimeout,  \* LinkCfg::test_after_ack_timeout
  Pinging,              \* endpoints whose LinkCfg::ping is not WhenTimedOut
  MayDisconnect,        \* endpoints whose user may disconnect the link
  MayBlock,             \* endpoints whose user may block and unblock the link
  MaxBlocks,            \* bound: changes of the blocking by the users
  MaxData,              \* bound: data each endpoint sends
  MaxConsumed,          \* bound: times each endpoint has to report consumed data
  MaxFaults             \* bound: times the link is slow or a timeout elapses

ASSUME LinkAssumption ==
  /\ Peer \in [EP -> EP]
  /\ \A e \in EP : Peer[e] # e /\ Peer[Peer[e]] = e /\ EP = {e, Peer[e]}
  /\ Server \in EP
  /\ TestDataLimit \in Nat /\ TestAfterAckTimeout \in BOOLEAN
  /\ Pinging \subseteq EP /\ MayDisconnect \subseteq EP /\ MayBlock \subseteq EP
  /\ MaxData \in [EP -> Nat] /\ MaxConsumed \in [EP -> Nat]
  /\ MaxBlocks \in Nat /\ MaxFaults \in Nat

VARIABLES
  link,              \* LinkInt of each endpoint
  blocked,           \* LinkInt::blocked, shared with the user
  blocked_changed,   \* blocked_changed_rx holds a notification
  links_idling,      \* loop-top snapshot: idle_links was not empty
  write_rx,          \* messages in the Sender's queue
  consumable,        \* messages waiting to be consumed
  consumed,          \* is_consume_ack_required
  chan,              \* messages in flight from each endpoint
  blocks, faults     \* for the bounds

userVars == <<blocked, blocks>>
taskVars == <<write_rx, consumable, consumed>>
vars == <<link, blocked_changed, links_idling, chan, faults, userVars, taskVars>>

Reasons == {"none", "New", "AckTimeout", "MaxPingExceeded", "Disconnecting"}
Timeouts == {"PingTimeout", "UnconfirmedTimeout", "SendTimeout"}
Disconnected == Timeouts \cup {"LocallyRequested", "RemotelyRequested", "IoError"}
Failures == {"panicked", "protocol_error"}

Msgs == {"Accepted", "Ping", "Pong", "Data", "Consumed", "Ack", "TestData", "Block",
         "Unblock", "Goodbye"}

\* The fields of LinkInt that matter.  A link is joining until its task adds
\* it; a removed link keeps its DisconnectReason only.
LinkInt == [
  state : {"joining", "up"} \cup Disconnected \cup Failures,
  unconfirmed : Reasons, test : {"Inactive", "InProgress", "Failed"},
  needs_tx_accepted : BOOLEAN, tx_polling : BOOLEAN, idle : BOOLEAN,
  send_ping : BOOLEAN, current_ping_sent : BOOLEAN, send_pong : BOOLEAN,
  disconnecting : {"none", "Local", "Remote"}, goodbye_sent : BOOLEAN,
  blocked_sent : BOOLEAN, remotely_blocked : BOOLEAN,
  txed : Seq({"Data", "Consumed"}),  \* reliable messages not yet acked over the link
  sent : Nat,                        \* those of them still in state Sent
  tx_ack_queue : Nat]

\* LinkInt::new
NewLink(e) == [
  state |-> "joining", unconfirmed |-> "none", test |-> "Inactive",
  needs_tx_accepted |-> e = Server, tx_polling |-> FALSE, idle |-> FALSE,
  send_ping |-> FALSE, current_ping_sent |-> FALSE, send_pong |-> FALSE,
  disconnecting |-> "none", goodbye_sent |-> FALSE,
  blocked_sent |-> FALSE, remotely_blocked |-> FALSE,
  txed |-> <<>>, sent |-> 0, tx_ack_queue |-> 0]

Up(e) == link[e].state = "up"
Gone(r) == r.state \in Disconnected \cup Failures

\* LinkInt::is_blocked
IsBlocked(e, r) == blocked[e] \/ r.remotely_blocked

\* LinkInt::has_outstanding_ack
HasOutstandingAck(r) == \E i \in 1 .. Len(r.txed) : r.txed[i] = "Data"

(***************************************************************************)
(* Changes of a link, as functions on its record.                          *)
(***************************************************************************)
\* Removal from idle_links and report_ready.
Ready(r) == [r EXCEPT !.idle = FALSE, !.tx_polling = TRUE]

\* Mutant: the link stays in the idle list.
FlushOnly(r) == [r EXCEPT !.tx_polling = TRUE]

\* flush_link
Flush(r) == [r EXCEPT !.idle = FALSE, !.tx_polling = TRUE]

\* Mutants: the link is not flushed, or forgets that it owes a pong.
UnconfirmQuietly(r, reason) ==
  [r EXCEPT !.idle = FALSE, !.unconfirmed = reason, !.sent = 0]
UnconfirmReset(r, reason) ==
  [Flush(r) EXCEPT !.unconfirmed = reason, !.sent = 0, !.send_pong = FALSE]

\* unconfirm_link: packets sent over the link are queued for resending.
Unconfirm(r, reason) ==
  [Flush(r) EXCEPT !.unconfirmed = reason, !.sent = 0,
                   !.test = IF @ = "Failed" THEN "Inactive" ELSE @]

\* A link found to work: set_unconfirmed(None).
Confirm(r) == [Ready(r) EXCEPT !.unconfirmed = "none", !.test = "Inactive"]

\* add_link
Add(r) == [Ready(r) EXCEPT !.state = "up",
                           !.unconfirmed = IF TestDataLimit > 0 THEN "New" ELSE "none"]

\* remove_link; Err and unwrap end the task and all its links with it.
Remove(e, reason) == [NewLink(e) EXCEPT !.state = reason]

\* start_send_msg and what the main loop updates with it.
Send(r, m) ==
  [Ready(r) EXCEPT
     !.needs_tx_accepted = @ /\ m # "Accepted",
     !.send_pong = @ /\ m # "Pong",
     !.goodbye_sent = @ \/ m = "Goodbye",
     !.send_ping = @ /\ m # "Ping",
     !.current_ping_sent = @ \/ m = "Ping",
     !.blocked_sent = IF m \in {"Block", "Unblock"} THEN m = "Block" ELSE @,
     !.tx_ack_queue = IF m = "Ack" THEN @ - 1 ELSE @,
     !.txed = IF m \in {"Data", "Consumed"} THEN Append(@, m) ELSE @,
     !.sent = IF m \in {"Data", "Consumed"} THEN @ + 1 ELSE @]

(***************************************************************************)
(* link_testing_step: the link afterwards and what was sent over it.       *)
(***************************************************************************)
Testable(r) ==
  /\ r.unconfirmed # "none" /\ ~r.tx_polling /\ ~r.current_ping_sent
  /\ ~HasOutstandingAck(r)

\* A blocked link is not tested, but its unconfirmed timestamp is renewed.
Postponed(e, r) ==
  /\ r.test = "Inactive" /\ Testable(r) /\ IsBlocked(e, r)
  /\ r.unconfirmed = "AckTimeout" => TestAfterAckTimeout

\* Test data goes out as far as the sink takes it.
TestStart(e, r) ==
  IF ~Testable(r) \/ Postponed(e, r) THEN {<<r, <<>>>>}
  ELSE IF r.unconfirmed = "AckTimeout" /\ ~TestAfterAckTimeout THEN {<<Confirm(r), <<>>>>}
  ELSE {[r EXCEPT !.tx_polling = TRUE, !.send_ping = TRUE, !.test = "InProgress"]} \X
       (IF TestDataLimit > 0 THEN {<<>>, <<"TestData">>} ELSE {<<>>})

\* A test ends with its ping, which was fast enough or not.
TestEnd(r) ==
  IF r.current_ping_sent \/ r.send_ping THEN {<<r, <<>>>>}
  ELSE {Confirm(r), [r EXCEPT !.test = "Failed", !.unconfirmed = "MaxPingExceeded"]} \X {<<>>}

LinkTestingStep(e, r) ==
  IF r.state # "up" THEN {<<r, <<>>>>}
  ELSE CASE r.test = "Inactive"   -> TestStart(e, r)
         [] r.test = "InProgress" -> TestEnd(r)
         [] r.test = "Failed"     -> {<<r, <<>>>>}

(***************************************************************************)
(* The main loop.                                                          *)
(***************************************************************************)
NewFault(old, new) ==
  \/ new.test = "Failed" /\ old.test # "Failed"
  \/ new.unconfirmed \in {"AckTimeout", "MaxPingExceeded"} /\ new.unconfirmed # old.unconfirmed
  \/ new.state \in Timeouts

\* Handling an event of endpoint e leaves its link as r, has left the messages
\* incoming on it and has put msgs on it; then comes the top of the loop.
\* Nothing reaches an endpoint that has removed the link.
Iterate(e, r, incoming, msgs) ==
  \E slow \in BOOLEAN :
    /\ slow => r.state = "up" /\ r.unconfirmed = "none"
    /\ \E step \in LinkTestingStep(e, IF slow THEN Unconfirm(r, "MaxPingExceeded") ELSE r) :
         /\ link' = [link EXCEPT ![e] = step[1]]
         /\ chan' = [f \in EP |->
              IF f = e
              THEN IF Gone(link[Peer[e]]) THEN <<>> ELSE chan[e] \o msgs \o step[2]
              ELSE IF Gone(step[1]) THEN <<>> ELSE incoming]
         /\ faults' = faults + IF slow \/ NewFault(link[e], step[1]) THEN 1 ELSE 0
         /\ faults' <= MaxFaults
    /\ links_idling' = [links_idling EXCEPT ![e] = r.idle]

\* An iteration in which nothing is received.
Handled(e, r, msgs) == Iterate(e, r, chan[Peer[e]], msgs)

(***************************************************************************)
(* Events.                                                                 *)
(***************************************************************************)
\* NewLink: the server's task adds the link before it sends Accepted, the
\* client's when the handshake has received it.
AddLink(e) ==
  /\ link[e].state = "joining"
  /\ \/ e = Server /\ Handled(e, Add(link[e]), <<>>)
     \/ /\ e # Server /\ chan[Server] # <<>> /\ Head(chan[Server]) = "Accepted"
        /\ Iterate(e, Add(link[e]), Tail(chan[Server]), <<>>)
  /\ UNCHANGED <<userVars, taskVars, blocked_changed>>

\* Mutant: disconnecting comes before everything else.
GoodbyeFirst(e) ==
  LET r == link[e] IN
  IF r.disconnecting # "none" /\ ~r.goodbye_sent THEN "Goodbye"
  ELSE IF r.needs_tx_accepted THEN "Accepted"
  ELSE IF r.send_pong THEN "Pong" ELSE IF r.send_ping THEN "Ping" ELSE "Nothing"

\* What a ready link has to do, by priority.
Pending(e) ==
  LET r == link[e] IN
  IF r.needs_tx_accepted THEN "Accepted"
  ELSE IF r.send_pong THEN "Pong"
  ELSE IF r.disconnecting # "none" THEN
    IF ~r.goodbye_sent THEN "Goodbye"
    ELSE IF r.disconnecting = "Remote" THEN "Remove" ELSE "Nothing"
  ELSE IF r.send_ping THEN "Ping"
  ELSE IF blocked[e] # r.blocked_sent THEN IF blocked[e] THEN "Block" ELSE "Unblock"
  ELSE IF r.tx_ack_queue > 0 THEN "Ack"
  ELSE IF r.unconfirmed = "none" /\ ~IsBlocked(e, r) THEN "Reliable"
  ELSE "Nothing"

TxReady(e) ==
  LET r == [link[e] EXCEPT !.tx_polling = FALSE] IN
  /\ Up(e) /\ link[e].tx_polling
  /\ UNCHANGED <<userVars, blocked_changed, consumable>>
  /\ \/ /\ Pending(e) \in Msgs
        /\ Handled(e, Send(r, Pending(e)), <<Pending(e)>>) /\ UNCHANGED taskVars
     \/ /\ Pending(e) = "Remove"
        /\ Handled(e, Remove(e, "RemotelyRequested"), <<>>) /\ UNCHANGED taskVars
     \/ /\ Pending(e) = "Nothing"
        /\ Handled(e, r, <<>>) /\ UNCHANGED taskVars
     \/ /\ Pending(e) = "Reliable" /\ consumed[e]
        /\ consumed' = [consumed EXCEPT ![e] = FALSE]
        /\ Handled(e, Send(r, "Consumed"), <<"Consumed">>) /\ UNCHANGED write_rx
     \/ /\ Pending(e) = "Reliable" /\ ~consumed[e] /\ write_rx[e] > 0
        /\ write_rx' = [write_rx EXCEPT ![e] = @ - 1]
        /\ Handled(e, Send(r, "Data"), <<"Data">>) /\ UNCHANGED consumed
     \/ /\ Pending(e) = "Reliable" /\ ~consumed[e]
        /\ Handled(e, [r EXCEPT !.idle = TRUE], <<>>) /\ UNCHANGED taskVars

\* SendConsumed: idle_links.pop().unwrap() relies on the snapshot.
SendConsumed(e) ==
  /\ Up(e) /\ links_idling[e] /\ consumed[e]
  /\ IF link[e].idle
     THEN Handled(e, Send(link[e], "Consumed"), <<"Consumed">>)
     ELSE Handled(e, Remove(e, "panicked"), <<>>)
  /\ consumed' = [consumed EXCEPT ![e] = FALSE]
  /\ UNCHANGED <<userVars, blocked_changed, write_rx, consumable>>

WriteRx(e) ==
  /\ Up(e) /\ ~(links_idling[e] /\ consumed[e]) /\ link[e].idle /\ write_rx[e] > 0
  /\ write_rx' = [write_rx EXCEPT ![e] = @ - 1]
  /\ Handled(e, Send(link[e], "Data"), <<"Data">>)
  /\ UNCHANGED <<userVars, blocked_changed, consumable, consumed>>

\* FlushRequired, Flush, or a link flushed because it is not sendable.
FlushLink(e) ==
  /\ Up(e) /\ ~link[e].tx_polling
  /\ Handled(e, Flush(link[e]), <<>>)
  /\ UNCHANGED <<userVars, taskVars, blocked_changed>>

\* Mutant: the link is not made ready to send the ack.
QueueAckOnly(r) == [r EXCEPT !.tx_ack_queue = @ + 1]

\* handle_received_reliable_msg, as far as the link is concerned.
QueueAck(r) == [Ready(r) EXCEPT !.tx_ack_queue = @ + 1]

\* Mutant: a packet queued for resending is counted once more.
AckedAgain(r) == [r EXCEPT !.txed = Tail(@), !.sent = @ - 1]

\* The ack of the oldest message: event and handle_ack.
Acked(r) == [r EXCEPT !.txed = Tail(@), !.sent = IF @ = Len(r.txed) THEN @ - 1 ELSE @]

\* Goodbye ends a disconnection requested here, or starts one.
Goodbye(e, r) ==
  CASE r.disconnecting = "Local"  -> IF r.goodbye_sent THEN Remove(e, "LocallyRequested") ELSE r
    [] r.disconnecting = "Remote" -> Remove(e, "protocol_error")
    [] r.disconnecting = "none"   -> Unconfirm([r EXCEPT !.disconnecting = "Remote"], "Disconnecting")

\* handle_received_msg: the link afterwards and what was sent over it.
Received(e, r, m) ==
  CASE m = "Pong" -> IF r.current_ping_sent
                     THEN LinkTestingStep(e, [r EXCEPT !.current_ping_sent = FALSE])
                     ELSE {<<r, <<>>>>}
    [] m = "Ping"                     -> {<<Flush([r EXCEPT !.send_pong = TRUE]), <<>>>>}
    [] m \in {"Data", "Consumed"}     -> {<<QueueAck(r), <<>>>>}
    [] m = "Ack"                      -> {<<Acked(r), <<>>>>}
    [] m = "TestData"                 -> {<<r, <<>>>>}
    [] m \in {"Block", "Unblock"}     -> {<<[Ready(r) EXCEPT !.remotely_blocked = m = "Block"], <<>>>>}
    [] m = "Goodbye"                  -> {<<Goodbye(e, r), <<>>>>}
    [] m = "Accepted"                 -> {<<Remove(e, "protocol_error"), <<>>>>}

Receive(e) ==
  /\ Up(e) /\ chan[Peer[e]] # <<>>
  /\ \E res \in Received(e, link[e], Head(chan[Peer[e]])) :
       Iterate(e, res[1], Tail(chan[Peer[e]]), res[2])
  /\ UNCHANGED <<userVars, taskVars, blocked_changed>>

\* Mutant: the link is not made ready to tell the peer.
BlockedUnnoticed(e) ==
  /\ Up(e) /\ blocked_changed[e]
  /\ blocked_changed' = [blocked_changed EXCEPT ![e] = FALSE]
  /\ Handled(e, link[e], <<>>)
  /\ UNCHANGED <<userVars, taskVars>>

BlockedChanged(e) ==
  /\ Up(e) /\ blocked_changed[e]
  /\ blocked_changed' = [blocked_changed EXCEPT ![e] = FALSE]
  /\ Handled(e, Ready(link[e]), <<>>)
  /\ UNCHANGED <<userVars, taskVars>>

\* Disconnect, requested by the user.
Disconnect(e) ==
  /\ Up(e) /\ e \in MayDisconnect /\ link[e].disconnecting = "none"
  /\ Handled(e, Unconfirm([link[e] EXCEPT !.disconnecting = "Local"], "Disconnecting"), <<>>)
  /\ UNCHANGED <<userVars, taskVars, blocked_changed>>

\* next_link_ping and PingLink
PingLink(e) ==
  /\ Up(e) /\ e \in Pinging /\ link[e].unconfirmed = "none"
  /\ ~link[e].current_ping_sent /\ ~link[e].send_ping
  /\ Handled(e, Flush([link[e] EXCEPT !.send_ping = TRUE]), <<>>)
  /\ UNCHANGED <<userVars, taskVars, blocked_changed>>

ConfirmTimedOut(e) ==
  /\ Up(e) /\ link[e].sent > 0
  /\ Handled(e, Unconfirm(link[e], "AckTimeout"), <<>>)
  /\ UNCHANGED <<userVars, taskVars, blocked_changed>>

\* Mutant: only a link that works is tested again.
RetestConfirmed(e) ==
  /\ Up(e) /\ link[e].test = "Failed" /\ link[e].unconfirmed = "none"
  /\ Handled(e, [link[e] EXCEPT !.test = "Inactive"], <<>>)
  /\ UNCHANGED <<userVars, taskVars, blocked_changed>>

\* LinkTesting: retest_interval has passed since a test failed.
LinkTesting(e) ==
  /\ Up(e) /\ link[e].test = "Failed"
  /\ Handled(e, [link[e] EXCEPT !.test = "Inactive"], <<>>)
  /\ UNCHANGED <<userVars, taskVars, blocked_changed>>

\* LinkPingTimeout, LinkUnconfirmedTimeout and LinkSendTimeout.
Expired(e) ==
  LET r == link[e] IN
  {t \in Timeouts :
     \/ t = "PingTimeout" /\ r.current_ping_sent
     \/ /\ t = "UnconfirmedTimeout" /\ r.unconfirmed \notin {"none", "MaxPingExceeded"}
        /\ ~Postponed(e, r)
     \/ t = "SendTimeout" /\ r.tx_polling}

LinkTimeout(e) ==
  /\ Up(e)
  /\ \E t \in Expired(e) : Handled(e, Remove(e, t), <<>>)
  /\ UNCHANGED <<userVars, taskVars, blocked_changed>>

\* TxError or RxError because the peer has removed the link.
LinkError(e) ==
  /\ Up(e) /\ Gone(link[Peer[e]])
  /\ Handled(e, Remove(e, "IoError"), <<>>)
  /\ UNCHANGED <<userVars, taskVars, blocked_changed>>

\* ConsumeReceived: enough was consumed to report it.
ConsumeReceived(e) ==
  /\ Up(e) /\ consumable[e] > 0 /\ ~consumed[e]
  /\ consumable' = [consumable EXCEPT ![e] = @ - 1]
  /\ consumed' = [consumed EXCEPT ![e] = TRUE]
  /\ Handled(e, link[e], <<>>)
  /\ UNCHANGED <<userVars, blocked_changed, write_rx>>

\* An event of another link or of a timer.
OtherEvent(e) ==
  /\ Up(e) /\ Handled(e, link[e], <<>>)
  /\ UNCHANGED <<userVars, taskVars, blocked_changed>>

\* Link::set_blocked
SetBlocked(e) ==
  /\ e \in MayBlock /\ Up(e) /\ blocks < MaxBlocks
  /\ blocks' = blocks + 1
  /\ blocked' = [blocked EXCEPT ![e] = ~@]
  /\ blocked_changed' = [blocked_changed EXCEPT ![e] = TRUE]
  /\ UNCHANGED <<link, links_idling, chan, faults, taskVars>>

(***************************************************************************)
(* The specification.                                                      *)
(***************************************************************************)
Init ==
  /\ link = [e \in EP |-> NewLink(e)]
  /\ blocked = [e \in EP |-> FALSE] /\ blocked_changed = [e \in EP |-> FALSE]
  /\ links_idling = [e \in EP |-> FALSE]
  /\ write_rx = MaxData /\ consumable = MaxConsumed
  /\ consumed = [e \in EP |-> FALSE]
  /\ chan = [e \in EP |-> <<>>]
  /\ blocks = 0 /\ faults = 0

\* What LinkInt::event reports; the loop waits for it and for other events.
LinkIntEvent(e) ==
  \/ TxReady(e) \/ FlushLink(e) \/ Receive(e) \/ BlockedChanged(e) \/ Disconnect(e)
  \/ LinkError(e)

Event(e) ==
  \/ LinkIntEvent(e) \/ AddLink(e) \/ SendConsumed(e) \/ WriteRx(e) \/ PingLink(e)
  \/ ConfirmTimedOut(e) \/ LinkTesting(e) \/ LinkTimeout(e) \/ ConsumeReceived(e)
  \/ OtherEvent(e)

Next == \E e \in EP : Event(e) \/ SetBlocked(e)

Spec == Init /\ [][Next]_vars

\* The main loop handles every event that stays ready, a link that is up
\* delivers, and retest_interval elapses.  Nothing is assumed about the users,
\* timeouts, pings, slow links and other links.
Fairness ==
  \A e \in EP :
    /\ WF_vars(AddLink(e)) /\ WF_vars(TxReady(e)) /\ WF_vars(Receive(e))
    /\ WF_vars(BlockedChanged(e)) /\ WF_vars(LinkTesting(e)) /\ WF_vars(LinkError(e))

FairSpec == Spec /\ Fairness

(***************************************************************************)
(* Properties.                                                             *)
(***************************************************************************)
\* Every field of LinkInt, and the tasks' view of the link, has its type.
LinkTypeOK ==
  /\ link \in [EP -> LinkInt]
  /\ blocked \in [EP -> BOOLEAN] /\ blocked_changed \in [EP -> BOOLEAN]
  /\ links_idling \in [EP -> BOOLEAN] /\ consumed \in [EP -> BOOLEAN]
  /\ write_rx \in [EP -> Nat] /\ consumable \in [EP -> Nat]
  /\ chan \in [EP -> Seq(Msgs)]
  /\ blocks \in 0 .. MaxBlocks /\ faults \in 0 .. MaxFaults

\* A link in the idle list is one a reliable message may be put on at once: it
\* is confirmed, not being disconnected and not polled, as start_send_msg
\* asserts, although half a dozen handlers change these one by one.
IdleReady ==
  \A e \in EP : link[e].idle =>
    /\ Up(e) /\ link[e].unconfirmed = "none" /\ link[e].disconnecting = "none"
    /\ ~link[e].tx_polling

\* No wake-up is lost: a link that is not polled has nothing to send, apart
\* from a change of its blocking whose notification is still to be handled
\* (TxReady ladder against all handlers that queue something for the link).
NothingWaits ==
  \A e \in EP : Up(e) /\ ~link[e].tx_polling =>
    LET r == link[e] IN
    /\ ~r.needs_tx_accepted /\ ~r.send_pong
    /\ r.disconnecting # "none" => r.disconnecting = "Local" /\ r.goodbye_sent
    /\ r.disconnecting = "none" =>
         /\ ~r.send_ping /\ r.tx_ack_queue = 0
         /\ blocked[e] # r.blocked_sent => blocked_changed[e]

InChan(e, m) == \E i \in 1 .. Len(chan[e]) : chan[e][i] = m

\* A ping that is waited for will be answered: it, the request to answer it or
\* the answer is under way, as long as the peer has the link; so a test in
\* progress never waits for nothing (PingLink, link_testing_step, TxReady).
PingTracked ==
  \A e \in EP : Up(e) /\ link[e].current_ping_sent /\ ~Gone(link[Peer[e]]) =>
    InChan(e, "Ping") \/ link[Peer[e]].send_pong \/ InChan(Peer[e], "Pong")

\* The client's handshake sees Accepted before anything else (control.rs
\* refuses any other message), whatever the server's task has queued.
AcceptedFirst ==
  \A e \in EP \ {Server} : link[e].state = "joining" /\ chan[Server] # <<>> =>
    Head(chan[Server]) = "Accepted"

\* Taking a link from the idle list never fails: SendConsumed unwraps it.
PopSucceeds == \A e \in EP : link[e].state # "panicked"

\* A disconnection ends without the help of timeouts, also when both users
\* request it and when a test or ping is in progress.
DisconnectEnds == \A e \in EP : (link[e].disconnecting # "none") ~> ~Up(e)

\* Once the users leave the blocking alone, both endpoints agree on it.
BlockingAgrees ==
  \A e \in EP : <>[](Up(e) /\ Up(Peer[e]) /\ link[e].disconnecting = "none" =>
                       link[Peer[e]].remotely_blocked = blocked[e])

\* A link that is neither blocked nor being disconnected is confirmed again,
\* once it is no longer found slow (link_testing_step).
Reconfirmed ==
  \A e \in EP : <>[](Up(e) /\ Up(Peer[e]) /\ ~IsBlocked(e, link[e])
                       /\ link[e].disconnecting = "none" /\ link[Peer[e]].disconnecting = "none"
                       => link[e].unconfirmed = "none")
=============================================================================
