------------------------------ MODULE Transfer ------------------------------
(***************************************************************************)
(* The two connection tasks of aggligator (Task of agg/task.rs), one per   *)
(* endpoint, exchanging reliable messages over a set of links.  Each task  *)
(* numbers its reliable messages, spreads them over its confirmed links,   *)
(* keeps them in txed_packets until they are acknowledged, queues them for *)
(* resending over another link when a link becomes unconfirmed, reorders   *)
(* and deduplicates what it receives, and closes gracefully.               *)
(*                                                                         *)
(* Names are those of the code.  Abstractions:                             *)
(*  - A reliable message travels as its sequence number; what it carries   *)
(*    is log[e][seq], written once, when endpoint e assigns the number.    *)
(*    User data is the pair of its position in the user's stream (id) and  *)
(*    its length (len).                                                    *)
(*  - Sequence numbers are naturals; their 32-bit wrap-around is the       *)
(*    subject of module SeqNum.                                            *)
(*  - A link is a pair of reliable FIFO channels that may die, as the      *)
(*    TCP-like streams below the code are.  Ping, Pong, TestData, SetBlock *)
(*    and Goodbye decide only when a link is confirmed; that decision is   *)
(*    left open here.                                                      *)
(*  - Whether a link is below its limit for unacknowledged data            *)
(*    (is_sendable) is decided anew, in any way, for every iteration of    *)
(*    the main loop; how the limits move is the subject of module Limits.  *)
(*  - VecDeques sorted by sequence number are sets of sequence numbers;    *)
(*    their front is the least element.                                    *)
(***************************************************************************)
EXTENDS Integers, Sequences

CONSTANTS
  EP,              \* the two endpoints of the connection
  Peer,            \* the other endpoint
  Server,          \* the endpoint with Direction::Incoming
  Links,           \* link identities (LinkId), each used by one link
  Lens,            \* lengths of the data the users send
  SendBuffer,      \* Cfg::send_buffer of each endpoint
  RecvBuffer,      \* Cfg::recv_buffer of each endpoint
  SendQueue,       \* Cfg::send_queue
  UsableInterval,  \* Seq::USABLE_INTERVAL
  GiveUp,          \* whether no_link_timeout and termination_timeout may elapse
  MayClose,        \* endpoints whose user may close the Receiver
  MayDropRecv,     \* endpoints whose user may drop the Receiver
  MayDropSend,     \* endpoints whose user may drop the Sender
  InitLinks,       \* links established before the model starts
  NewLinkStates,   \* confirmation states a new link may start in
  StableLinks,     \* links that are never removed
  MayLimit,        \* links whose unacked limit an endpoint may reach
  MaxSend,         \* bound: messages the user of each endpoint sends
  MaxFaults        \* bound: times a link is unconfirmed, disconnected or fails

ASSUME EndpointAssumption ==
  /\ Peer \in [EP -> EP]
  /\ \A e \in EP : Peer[e] # e /\ Peer[Peer[e]] = e /\ EP = {e, Peer[e]}
  /\ Server \in EP

ASSUME SizeAssumption ==
  /\ Lens \subseteq Nat
  /\ SendBuffer \in [EP -> Nat]
  /\ RecvBuffer \in [EP -> Nat]
  /\ SendQueue \in Nat
  /\ UsableInterval \in Nat

ASSUME BoundAssumption ==
  /\ GiveUp \in BOOLEAN
  /\ MayClose \subseteq EP
  /\ MayDropRecv \subseteq EP
  /\ MayDropSend \subseteq EP
  /\ NewLinkStates \subseteq {"unconfirmed", "confirmed"}
  /\ StableLinks \subseteq Links
  /\ InitLinks \subseteq Links
  /\ MayLimit \in [EP -> SUBSET Links]
  /\ MaxSend \in [EP -> Nat]
  /\ MaxFaults \in Nat

VARIABLES
  \* The user of each endpoint.
  user_data,      \* lengths of all data handed to Sender::send, in order
  sender_alive,   \* the Sender has not been dropped
  recv_alive,     \* the Receiver has not been dropped
  close_req,      \* Receiver::close has queued its request in closed_tx
  delivered,      \* ids of the data the Receiver was given, in order
  eof,            \* the Receiver was given end of stream (read_error None)
  write_error,    \* content of write_error_tx
  \* Task: ends of the user channels (Option is_some) and closing flags.
  write_rx, read_tx, read_closed_rx, link_rx,
  receive_close_sent, receive_finish_sent, send_finish_sent,
  \* Task: sending.
  deq,            \* number of user messages taken from write_rx
  log,            \* reliable message of each sequence number assigned
  tx_seq,         \* next sequence number for sending
  txed_packets,   \* status of each packet not yet swiped
  txed_unacked, txed_unconsumed,
  resend_queue,   \* sequence numbers queued for resending
  resending,      \* loop-top snapshot: resend_queue was not empty
  sendable,       \* links below their unacked limit in this iteration
  \* Task: receiving.
  rx_seq,         \* next sequence number for handing out
  rxed_reliable,  \* filled slots, all above rx_seq
  consumable,     \* rxed_reliable_consumable
  handed,         \* number of Data messages consumed
  rxed_reliable_size, consumed_since_last_ack,
  \* Task: links.
  link_state,     \* none | unconfirmed | confirmed | leaving | gone
  outstanding,    \* LinkInt::txed_unacked, -1 for None
  tx_ack_queue,   \* acks queued for sending over the link
  chan,           \* messages in flight from the endpoint over the link
  faults,         \* link faults so far (for the bound)
  result          \* running | ok | cut | failed | protocol_error

userVars  == <<user_data, sender_alive, recv_alive, close_req>>
readVars  == <<delivered, eof, handed, rxed_reliable_size, consumed_since_last_ack>>
closeVars == <<write_rx, read_tx, read_closed_rx, receive_close_sent,
               receive_finish_sent, send_finish_sent, write_error>>
txVars    == <<deq, log, tx_seq, txed_packets, txed_unacked, txed_unconsumed, resend_queue>>
rxVars    == <<rx_seq, rxed_reliable, consumable>>
linkVars  == <<link_rx, link_state, outstanding, tx_ack_queue, faults, chan>>
vars      == <<userVars, readVars, closeVars, txVars, rxVars, linkVars, resending, sendable, result>>

(***************************************************************************)
(* Messages.                                                               *)
(***************************************************************************)
Kinds == {"Data", "Consumed", "SendFinish", "ReceiveClose", "ReceiveFinish"}

\* ReliableMsg; id is the position of Data in its user's stream, len the
\* length of Data or the amount a Consumed acknowledges.
ReliableMsg == [kind : Kinds, id : Nat, len : Nat]
Data(k, n)    == [kind |-> "Data", id |-> k, len |-> n]
Consumed(n)   == [kind |-> "Consumed", id |-> 0, len |-> n]
Ctrl(kind)    == [kind |-> kind, id |-> 0, len |-> 0]
Size(m)       == IF m.kind = "Data" THEN m.len ELSE 0

\* What travels over a link: reliable messages by number, and acks.
Reliable(s) == [type |-> "Reliable", seq |-> s]
Ack(s)      == [type |-> "Ack", seq |-> s]
LinkMsg     == [type : {"Reliable", "Ack"}, seq : Nat]

\* SentReliableStatus: Sent and Received keep the link, ResendQueued its sent_link.
Status == [st : {"Sent", "ResendQueued", "Received"}, link : Links]

\* Mutant: the queue is served from its back.
IsBack(s, S) == s \in S /\ \A t \in S : s >= t

IsFront(s, S) == s \in S /\ \A t \in S : s <= t

(***************************************************************************)
(* What the task computes at the top of its main loop.                     *)
(***************************************************************************)
Present(e, l)   == link_state[e][l] \in {"unconfirmed", "confirmed", "leaving"}
Confirmed(e, l) == link_state[e][l] = "confirmed"
LinksAvailable(e) == \E l \in Links : Present(e, l)

IsConsumeAckRequired(e) ==
  consumed_since_last_ack[e] > IF read_tx[e] THEN RecvBuffer[e] \div 10 ELSE 0

TxSeqAvail(e) == \A s \in DOMAIN txed_packets[e] : tx_seq[e] - s <= UsableInterval

\* Mutant: the remote receive buffer is not considered.
FitsSendBuffer(e, n) == n = 0 \/ txed_unacked[e] + n <= SendBuffer[e]

\* data.len() <= tx_space(); subtraction saturates at 0, and data is never
\* sent into a saturated buffer because a fitting length is positive.
FitsTxSpace(e, n) ==
  /\ n = 0 \/ txed_unacked[e] + n <= SendBuffer[e]
  /\ n = 0 \/ txed_unconsumed[e] + n <= RecvBuffer[Peer[e]]

\* Mutant: an exit that does not wait until the peer has consumed everything.
AllAcked(e) ==
  /\ DOMAIN txed_packets[e] = {}
  /\ rxed_reliable_size[e] = 0
  /\ consumed_since_last_ack[e] = 0
  /\ send_finish_sent[e]
  /\ receive_finish_sent[e]

AllTransferred(e) ==
  /\ DOMAIN txed_packets[e] = {}
  /\ txed_unconsumed[e] = 0
  /\ rxed_reliable_size[e] = 0
  /\ consumed_since_last_ack[e] = 0
  /\ send_finish_sent[e]
  /\ receive_finish_sent[e]

\* The two exits checked at the top of the loop, before any event.
GracefulExit(e) ==
  ~read_tx[e] /\ ~write_rx[e] /\ (AllTransferred(e) \/ ~LinksAvailable(e))
NoLinksExit(e) == ~LinksAvailable(e) /\ ~link_rx[e]

Running(e) == result[e] = "running" /\ ~GracefulExit(e) /\ ~NoLinksExit(e)

(***************************************************************************)
(* Initial state: both tasks are running, nothing has been sent yet.       *)
(***************************************************************************)
NoPackets == [s \in {} |-> Ctrl("SendFinish")]
Const(v) == [e \in EP |-> v]
PerLink(v) == [e \in EP |-> [l \in Links |-> v]]

Init ==
  /\ user_data = Const(<<>>) /\ sender_alive = Const(TRUE)
  /\ recv_alive = Const(TRUE) /\ close_req = Const(FALSE)
  /\ delivered = Const(<<>>) /\ eof = Const(FALSE) /\ write_error = Const("none")
  /\ write_rx = Const(TRUE) /\ read_tx = Const(TRUE)
  /\ read_closed_rx = Const(TRUE) /\ link_rx = Const(TRUE)
  /\ receive_close_sent = Const(FALSE) /\ receive_finish_sent = Const(FALSE)
  /\ send_finish_sent = Const(FALSE)
  /\ deq = Const(0) /\ log = Const(NoPackets) /\ tx_seq = Const(0)
  /\ txed_packets = Const(NoPackets) /\ txed_unacked = Const(0) /\ txed_unconsumed = Const(0)
  /\ resend_queue = Const({}) /\ resending = Const(FALSE)
  /\ sendable = Const(Links)
  /\ rx_seq = Const(0) /\ rxed_reliable = Const({}) /\ consumable = Const({})
  /\ handed = Const(0) /\ rxed_reliable_size = Const(0) /\ consumed_since_last_ack = Const(0)
  /\ link_state = Const([l \in Links |-> IF l \in InitLinks THEN "confirmed" ELSE "none"])
  /\ outstanding = PerLink(-1)
  /\ tx_ack_queue = PerLink(<<>>) /\ faults = 0 /\ chan = PerLink(<<>>)
  /\ result = Const("running")

(***************************************************************************)
(* Sending over a link.                                                    *)
(***************************************************************************)
\* A message put on a link reaches the peer unless the peer has dropped it.
Push(e, l, m) ==
  chan' = IF link_state[Peer[e]][l] = "gone" THEN chan
          ELSE [chan EXCEPT ![e][l] = Append(@, m)]

\* LinkInt::start_send_msg remembers the highest Data number sent.
NoteOutstanding(e, l, s, m) ==
  outstanding' = IF m.kind = "Data" /\ outstanding[e][l] <= s
                 THEN [outstanding EXCEPT ![e][l] = s] ELSE outstanding

\* send_reliable_over_link
SendReliableOverLink(e, l, m) ==
  LET s == tx_seq[e] IN
  /\ log' = [log EXCEPT ![e] = [i \in 0..s |-> IF i = s THEN m ELSE log[e][i]]]
  /\ tx_seq' = [tx_seq EXCEPT ![e] = s + 1]
  /\ txed_packets' = [txed_packets EXCEPT ![e] =
       [i \in DOMAIN txed_packets[e] \cup {s} |->
          IF i = s THEN [st |-> "Sent", link |-> l] ELSE txed_packets[e][i]]]
  /\ txed_unacked' = [txed_unacked EXCEPT ![e] = @ + Size(m)]
  /\ txed_unconsumed' = [txed_unconsumed EXCEPT ![e] = @ + Size(m)]
  /\ NoteOutstanding(e, l, s, m)
  /\ Push(e, l, Reliable(s))
  /\ UNCHANGED <<resend_queue, link_rx, link_state, tx_ack_queue, faults>>

\* The link may be handed a reliable message: it is idle or has just become
\* ready, believed to work, and has no ack waiting.
CanSubmit(e, l) == Confirmed(e, l) /\ tx_ack_queue[e][l] = <<>>

\* TxReady: a queued ack goes out first, over any link not disconnecting.
SendAck(e, l) ==
  /\ Running(e)
  /\ link_state[e][l] \in {"unconfirmed", "confirmed"}
  /\ tx_ack_queue[e][l] # <<>>
  /\ Push(e, l, Ack(Head(tx_ack_queue[e][l])))
  /\ tx_ack_queue' = [tx_ack_queue EXCEPT ![e][l] = Tail(@)]
  /\ UNCHANGED <<userVars, readVars, closeVars, txVars, rxVars, result,
                 link_rx, link_state, outstanding, faults>>

\* Mutant: the count is not reset.
SendConsumedAgain(e, l) ==
  /\ Running(e) /\ CanSubmit(e, l) /\ IsConsumeAckRequired(e)
  /\ SendReliableOverLink(e, l, Consumed(consumed_since_last_ack[e]))
  /\ UNCHANGED <<userVars, readVars, closeVars, rxVars, deq, result>>

\* TxReady or SendConsumed: report consumed bytes to the peer.
SendConsumed(e, l) ==
  /\ Running(e) /\ CanSubmit(e, l) /\ IsConsumeAckRequired(e)
  /\ SendReliableOverLink(e, l, Consumed(consumed_since_last_ack[e]))
  /\ consumed_since_last_ack' = [consumed_since_last_ack EXCEPT ![e] = 0]
  /\ UNCHANGED <<userVars, delivered, eof, handed, rxed_reliable_size,
                 closeVars, rxVars, deq, result>>

\* TxReady or Resend: resend_reliable_over_link, never over the original link.
Resend(e, l) ==
  /\ Running(e) /\ CanSubmit(e, l) /\ resending[e] /\ l \in sendable[e]
  /\ \E s \in resend_queue[e] :
       /\ IsFront(s, resend_queue[e])
       /\ txed_packets[e][s].link # l
       /\ resend_queue' = [resend_queue EXCEPT ![e] = @ \ {s}]
       /\ txed_packets' = [txed_packets EXCEPT ![e] =
            [txed_packets[e] EXCEPT ![s] = [st |-> "Sent", link |-> l]]]
       /\ NoteOutstanding(e, l, s, log[e][s])
       /\ Push(e, l, Reliable(s))
  /\ UNCHANGED <<userVars, readVars, closeVars, rxVars, result, deq, log, tx_seq,
                 txed_unacked, txed_unconsumed, link_rx, link_state, tx_ack_queue, faults>>

\* Mutants: SendFinish goes out as soon as the Sender is dropped, or before the
\* Sender's end is noticed and never after.
SendFinishEarly(e)   == ~sender_alive[e] /\ ~send_finish_sent[e]
SendFinishMissed(e)  == write_rx[e] /\ ~sender_alive[e] /\ ~send_finish_sent[e] /\ deq[e] = Len(user_data[e])
\* Mutant: ReceiveFinish is only sent if a link is idle when the drop is noticed.
ReceiveFinishMissed(e) == read_tx[e] /\ receive_finish_sent[e]

ReceiveClosePending(e)  == ~read_closed_rx[e] /\ ~receive_close_sent[e]
ReceiveFinishPending(e) == ~read_tx[e] /\ ~receive_finish_sent[e]
SendFinishPending(e)    == ~write_rx[e] /\ ~send_finish_sent[e]

\* TxReady: the closing messages that could not go out over an idle link,
\* in this order of priority.
SendReceiveClose(e, l) ==
  /\ Running(e) /\ CanSubmit(e, l) /\ ~IsConsumeAckRequired(e)
  /\ ReceiveClosePending(e)
  /\ SendReliableOverLink(e, l, Ctrl("ReceiveClose"))
  /\ receive_close_sent' = [receive_close_sent EXCEPT ![e] = TRUE]
  /\ UNCHANGED <<userVars, readVars, rxVars, deq, result, write_rx, read_tx,
                 read_closed_rx, receive_finish_sent, send_finish_sent, write_error>>

SendReceiveFinish(e, l) ==
  /\ Running(e) /\ CanSubmit(e, l) /\ ~IsConsumeAckRequired(e)
  /\ ~ReceiveClosePending(e) /\ ReceiveFinishPending(e)
  /\ SendReliableOverLink(e, l, Ctrl("ReceiveFinish"))
  /\ receive_finish_sent' = [receive_finish_sent EXCEPT ![e] = TRUE]
  /\ UNCHANGED <<userVars, readVars, rxVars, deq, result, write_rx, read_tx,
                 read_closed_rx, receive_close_sent, send_finish_sent, write_error>>

SendSendFinish(e, l) ==
  /\ Running(e) /\ CanSubmit(e, l) /\ ~IsConsumeAckRequired(e)
  /\ ~ReceiveClosePending(e) /\ ~ReceiveFinishPending(e) /\ SendFinishPending(e)
  /\ SendReliableOverLink(e, l, Ctrl("SendFinish"))
  /\ send_finish_sent' = [send_finish_sent EXCEPT ![e] = TRUE]
  /\ UNCHANGED <<userVars, readVars, rxVars, deq, result, write_rx, read_tx,
                 read_closed_rx, receive_close_sent, receive_finish_sent, write_error>>

\* While packets wait for resending, only the link that must not resend the
\* first of them may carry new data, and only after the closing messages.
MayOvertakeResend(e, l) ==
  /\ \A s \in resend_queue[e] : IsFront(s, resend_queue[e]) => txed_packets[e][s].link = l
  /\ ~ReceiveClosePending(e) /\ ~ReceiveFinishPending(e)

\* TxReady or WriteRx: take the next user message and send it.
SendData(e, l) ==
  LET k == deq[e] + 1 IN
  /\ Running(e) /\ CanSubmit(e, l) /\ ~IsConsumeAckRequired(e)
  /\ write_rx[e] /\ TxSeqAvail(e) /\ l \in sendable[e]
  /\ resending[e] => MayOvertakeResend(e, l)
  /\ k <= Len(user_data[e]) /\ FitsTxSpace(e, user_data[e][k])
  /\ deq' = [deq EXCEPT ![e] = k]
  /\ SendReliableOverLink(e, l, Data(k, user_data[e][k]))
  /\ UNCHANGED <<userVars, readVars, closeVars, rxVars, result>>

\* WriteEnd: the Sender is gone and its queue drained; SendFinish goes out at
\* once if a link is idle.
WriteEnd(e) ==
  /\ Running(e) /\ write_rx[e] /\ ~sender_alive[e] /\ deq[e] = Len(user_data[e])
  /\ TxSeqAvail(e) /\ ~resending[e]
  /\ write_rx' = [write_rx EXCEPT ![e] = FALSE]
  /\ \/ /\ ~IsConsumeAckRequired(e)
        /\ \E l \in Links : CanSubmit(e, l) /\ SendReliableOverLink(e, l, Ctrl("SendFinish"))
        /\ send_finish_sent' = [send_finish_sent EXCEPT ![e] = TRUE]
        /\ UNCHANGED deq
     \/ UNCHANGED <<txVars, linkVars, send_finish_sent>>
  /\ UNCHANGED <<userVars, readVars, rxVars, result, read_tx, read_closed_rx,
                 receive_close_sent, receive_finish_sent, write_error>>

\* ReadDropped: a dropped Receiver is noticed when there is data for it.
ReadDropped(e) ==
  /\ Running(e) /\ read_tx[e] /\ ~recv_alive[e] /\ consumable[e] # {}
  /\ read_tx' = [read_tx EXCEPT ![e] = FALSE]
  /\ read_closed_rx' = [read_closed_rx EXCEPT ![e] = FALSE]
  /\ \/ /\ \E l \in Links : CanSubmit(e, l) /\ SendReliableOverLink(e, l, Ctrl("ReceiveFinish"))
        /\ receive_finish_sent' = [receive_finish_sent EXCEPT ![e] = TRUE]
        /\ UNCHANGED deq
     \/ UNCHANGED <<txVars, linkVars, receive_finish_sent>>
  /\ UNCHANGED <<userVars, readVars, rxVars, result, write_rx,
                 receive_close_sent, send_finish_sent, write_error>>

\* ReadClosed: Receiver::close was called.
ReadClosed(e) ==
  /\ Running(e) /\ close_req[e] /\ read_closed_rx[e]
  /\ read_closed_rx' = [read_closed_rx EXCEPT ![e] = FALSE]
  /\ \/ /\ \E l \in Links : CanSubmit(e, l) /\ SendReliableOverLink(e, l, Ctrl("ReceiveClose"))
        /\ receive_close_sent' = [receive_close_sent EXCEPT ![e] = TRUE]
        /\ UNCHANGED deq
     \/ UNCHANGED <<txVars, linkVars, receive_close_sent>>
  /\ UNCHANGED <<userVars, readVars, rxVars, result, write_rx, read_tx,
                 receive_finish_sent, send_finish_sent, write_error>>

\* ConsumeReceived: hand the first consumable message to the Receiver.
ConsumeReceived(e) ==
  /\ Running(e)
  /\ read_tx[e] => recv_alive[e]
  /\ \E s \in consumable[e] :
       LET m == log[Peer[e]][s] IN
       /\ IsFront(s, consumable[e])
       /\ consumable' = [consumable EXCEPT ![e] = @ \ {s}]
       /\ \/ /\ m.kind = "Data"
             /\ rxed_reliable_size' = [rxed_reliable_size EXCEPT ![e] = @ - m.len]
             /\ consumed_since_last_ack' = [consumed_since_last_ack EXCEPT ![e] = @ + m.len]
             /\ handed' = [handed EXCEPT ![e] = @ + 1]
             /\ delivered' = IF read_tx[e] THEN [delivered EXCEPT ![e] = Append(@, m.id)]
                             ELSE delivered
             /\ UNCHANGED <<eof, read_tx, receive_finish_sent>>
          \/ /\ m.kind = "SendFinish"
             /\ eof' = [eof EXCEPT ![e] = TRUE]
             /\ read_tx' = [read_tx EXCEPT ![e] = FALSE]
             /\ receive_finish_sent' = [receive_finish_sent EXCEPT ![e] = TRUE]
             /\ UNCHANGED <<handed, delivered, rxed_reliable_size, consumed_since_last_ack>>
  /\ UNCHANGED <<userVars, txVars, linkVars, result, rx_seq, rxed_reliable, write_rx,
                 read_closed_rx, receive_close_sent, send_finish_sent, write_error>>

(***************************************************************************)
(* Leaving the main loop: the user channels and all links are dropped.     *)
(* write_error keeps a reason stored earlier.                              *)
(***************************************************************************)
DropLinks(e) ==
  /\ link_state' = [link_state EXCEPT ![e] = [l \in Links |-> "gone"]]
  /\ tx_ack_queue' = [tx_ack_queue EXCEPT ![e] = [l \in Links |-> <<>>]]
  /\ UNCHANGED <<outstanding, faults>>

Exit(e, r) ==
  /\ result' = [result EXCEPT ![e] = r]
  /\ read_tx' = [read_tx EXCEPT ![e] = FALSE]
  /\ write_rx' = [write_rx EXCEPT ![e] = FALSE]
  /\ link_rx' = [link_rx EXCEPT ![e] = FALSE]
  /\ write_error' = IF write_error[e] = "none" THEN [write_error EXCEPT ![e] = r] ELSE write_error
  /\ DropLinks(e)
  /\ chan' = [chan EXCEPT ![Peer[e]] = [l \in Links |-> <<>>]]
  /\ UNCHANGED <<userVars, readVars, txVars, rxVars, read_closed_rx, receive_close_sent,
                 receive_finish_sent, send_finish_sent>>

\* Ok(()): sender and receiver are both gone and everything was transferred
\* ("ok"), or no link is left or termination_timeout has passed ("cut").
Finish(e) ==
  /\ result[e] = "running" /\ GracefulExit(e)
  /\ Exit(e, IF AllTransferred(e) THEN "ok" ELSE "cut")

FinishTimeout(e) ==
  /\ GiveUp /\ Running(e) /\ ~read_tx[e] /\ ~write_rx[e]
  /\ Exit(e, "cut")

\* No links and none can be added.
AllLinksFailed(e) ==
  /\ result[e] = "running" /\ ~GracefulExit(e) /\ NoLinksExit(e)
  /\ Exit(e, "failed")

\* NoLinksTimeout: no working link for no_link_timeout.
NoLinksTimeout(e) ==
  /\ GiveUp /\ Running(e) /\ \A l \in Links : ~Confirmed(e, l)
  /\ Exit(e, "failed")

(***************************************************************************)
(* Receiving.                                                              *)
(***************************************************************************)
Incoming(e, l) == Running(e) /\ Present(e, l) /\ chan[Peer[e]][l] # <<>>
Pop(e, l)      == chan' = [chan EXCEPT ![Peer[e]][l] = Tail(@)]

\* handle_ack: an ack counts when it arrives over the link the packet was
\* last sent over, or when the packet waits for resending.
Acked(e, l, s) ==
  /\ s \in DOMAIN txed_packets[e]
  /\ \/ txed_packets[e][s] = [st |-> "Sent", link |-> l]
     \/ txed_packets[e][s].st = "ResendQueued"

\* Mutant: an ack releases all packets before it.
SwipedBelow(pkts) ==
  [s \in {t \in DOMAIN pkts : \A u \in DOMAIN pkts : t <= u => pkts[u].st # "Received"} |-> pkts[s]]

\* Packets left once acknowledged packets are removed from the front.
Swiped(pkts) ==
  [s \in {t \in DOMAIN pkts : \E u \in DOMAIN pkts : u <= t /\ pkts[u].st # "Received"} |-> pkts[s]]

ReceiveAck(e, l) ==
  /\ Incoming(e, l)
  /\ LET msg == Head(chan[Peer[e]][l])
         s   == msg.seq
     IN  /\ msg.type = "Ack"
         /\ outstanding' = IF outstanding[e][l] <= s
                           THEN [outstanding EXCEPT ![e][l] = -1] ELSE outstanding
         /\ \/ /\ Acked(e, l, s)
               /\ txed_packets' = [txed_packets EXCEPT ![e] =
                    Swiped([txed_packets[e] EXCEPT ![s] = [st |-> "Received", link |-> l]])]
               /\ resend_queue' = [resend_queue EXCEPT ![e] = @ \ {s}]
               /\ txed_unacked' = [txed_unacked EXCEPT ![e] = @ - Size(log[e][s])]
            \/ /\ ~Acked(e, l, s)
               /\ UNCHANGED <<txed_packets, resend_queue, txed_unacked>>
  /\ Pop(e, l)
  /\ UNCHANGED <<userVars, readVars, closeVars, rxVars, result, deq, log, tx_seq,
                 txed_unconsumed, link_rx, link_state, tx_ack_queue, faults>>

\* A message received before, whose ack must be sent again.
Duplicate(e, s) == s < rx_seq[e] \/ s \in rxed_reliable[e]

\* The protocol errors handle_received_reliable_msg reports.
ProtocolError(e, s, m) ==
  \/ s >= rx_seq[e] /\ s - rx_seq[e] > UsableInterval
  \/ ~Duplicate(e, s) /\ m.kind = "Data" /\ rxed_reliable_size[e] + m.len > RecvBuffer[e]
  \/ ~Duplicate(e, s) /\ m.kind = "Consumed" /\ m.len > txed_unconsumed[e]

ReceiveInvalid(e, l) ==
  /\ Incoming(e, l)
  /\ LET msg == Head(chan[Peer[e]][l]) IN
       msg.type = "Reliable" /\ ProtocolError(e, msg.seq, log[Peer[e]][msg.seq])
  /\ Exit(e, "protocol_error")

\* Mutant: a message received before is ignored.
ReceiveSilently(e, l) ==
  /\ Incoming(e, l)
  /\ LET msg == Head(chan[Peer[e]][l]) IN
       /\ msg.type = "Reliable" /\ Duplicate(e, msg.seq)
       /\ ~ProtocolError(e, msg.seq, log[Peer[e]][msg.seq])
  /\ Pop(e, l)
  /\ UNCHANGED <<userVars, readVars, closeVars, txVars, rxVars, result,
                 link_rx, link_state, outstanding, tx_ack_queue, faults>>

ReceiveDuplicate(e, l) ==
  /\ Incoming(e, l)
  /\ LET msg == Head(chan[Peer[e]][l])
         s   == msg.seq
     IN  /\ msg.type = "Reliable" /\ Duplicate(e, s)
         /\ ~ProtocolError(e, s, log[Peer[e]][s])
         /\ tx_ack_queue' = [tx_ack_queue EXCEPT ![e][l] = Append(@, s)]
  /\ Pop(e, l)
  /\ UNCHANGED <<userVars, readVars, closeVars, txVars, rxVars, result,
                 link_rx, link_state, outstanding, faults>>

\* A new reliable message: it takes effect on arrival, fills its slot, and
\* everything contiguous becomes consumable.
ReceiveNew(e, l) ==
  /\ Incoming(e, l)
  /\ LET msg == Head(chan[Peer[e]][l])
         s   == msg.seq
         m   == log[Peer[e]][s]
         filled == rxed_reliable[e] \cup {s}
     IN  /\ msg.type = "Reliable" /\ ~Duplicate(e, s) /\ ~ProtocolError(e, s, m)
         /\ tx_ack_queue' = [tx_ack_queue EXCEPT ![e][l] = Append(@, s)]
         /\ rxed_reliable_size' = [rxed_reliable_size EXCEPT ![e] = @ + Size(m)]
         /\ txed_unconsumed' = IF m.kind = "Consumed"
                               THEN [txed_unconsumed EXCEPT ![e] = @ - m.len] ELSE txed_unconsumed
         /\ write_error' = [write_error EXCEPT ![e] =
              CASE m.kind = "ReceiveClose" -> "Closed" [] m.kind = "ReceiveFinish" -> "Dropped"
                [] OTHER -> @]
         /\ write_rx' = [write_rx EXCEPT ![e] = @ /\ m.kind # "ReceiveFinish"]
         /\ send_finish_sent' = [send_finish_sent EXCEPT ![e] = @ \/ m.kind = "ReceiveFinish"]
         /\ \E n \in rx_seq[e] .. tx_seq[Peer[e]] :
              /\ n \notin filled /\ rx_seq[e] .. (n - 1) \subseteq filled
              /\ rx_seq' = [rx_seq EXCEPT ![e] = n]
              /\ rxed_reliable' = [rxed_reliable EXCEPT ![e] = {t \in filled : t > n}]
              /\ consumable' = [consumable EXCEPT ![e] = @ \cup
                   {t \in rx_seq[e] .. (n - 1) : log[Peer[e]][t].kind \in {"Data", "SendFinish"}}]
  /\ Pop(e, l)
  /\ UNCHANGED <<userVars, delivered, eof, handed, consumed_since_last_ack, result,
                 read_tx, read_closed_rx, receive_close_sent, receive_finish_sent,
                 deq, log, tx_seq, txed_packets, txed_unacked, resend_queue,
                 link_rx, link_state, outstanding, faults>>

(***************************************************************************)
(* Links.                                                                  *)
(***************************************************************************)
\* NewLink.  The server's task adds a link before it sends Accepted, the
\* client's after it received it.  A link without test data starts confirmed.
AddLink(e, l) ==
  /\ Running(e) /\ link_rx[e] /\ link_state[e][l] = "none"
  /\ e # Server => link_state[Server][l] # "none"
  /\ \E st \in NewLinkStates : link_state' = [link_state EXCEPT ![e][l] = st]
  /\ UNCHANGED <<userVars, readVars, closeVars, txVars, rxVars, result,
                 link_rx, outstanding, tx_ack_queue, faults, chan>>

\* NoNewLinks: every handle that could add a link is gone.
NoNewLinks(e) ==
  /\ GiveUp /\ Running(e) /\ link_rx[e]
  /\ link_rx' = [link_rx EXCEPT ![e] = FALSE]
  /\ UNCHANGED <<userVars, readVars, closeVars, txVars, rxVars, result,
                 link_state, outstanding, tx_ack_queue, faults, chan>>

\* link_testing_step: a link without outstanding ack passes its test.
ConfirmLink(e, l) ==
  /\ Running(e) /\ link_state[e][l] = "unconfirmed" /\ outstanding[e][l] = -1
  /\ link_state[Peer[e]][l] # "none"
  /\ link_state' = [link_state EXCEPT ![e][l] = "confirmed"]
  /\ UNCHANGED <<userVars, readVars, closeVars, txVars, rxVars, result,
                 link_rx, outstanding, tx_ack_queue, faults, chan>>

Fault == faults < MaxFaults /\ faults' = faults + 1

\* Mutant: only the first packet sent over the link is queued for resending.
FirstSentOver(e, l) ==
  {s \in DOMAIN txed_packets[e] :
     /\ txed_packets[e][s] = [st |-> "Sent", link |-> l]
     /\ \A t \in DOMAIN txed_packets[e] : t < s => txed_packets[e][t] # [st |-> "Sent", link |-> l]}

\* unconfirm_link: packets last sent over the link are queued for resending.
SentOver(e, l) == {s \in DOMAIN txed_packets[e] : txed_packets[e][s] = [st |-> "Sent", link |-> l]}

Unconfirm(e, l) ==
  /\ txed_packets' = [txed_packets EXCEPT ![e] = [s \in DOMAIN txed_packets[e] |->
       IF s \in SentOver(e, l) THEN [st |-> "ResendQueued", link |-> l] ELSE txed_packets[e][s]]]
  /\ resend_queue' = [resend_queue EXCEPT ![e] = @ \cup SentOver(e, l)]
  /\ UNCHANGED <<userVars, readVars, closeVars, rxVars, result, deq, log, tx_seq,
                 txed_unacked, txed_unconsumed, link_rx, outstanding>>

UnconfirmLink(e, l) ==
  /\ Fault
  /\ link_state' = [link_state EXCEPT ![e][l] = "unconfirmed"]
  /\ Unconfirm(e, l)
  /\ UNCHANGED <<tx_ack_queue, chan>>

\* ConfirmTimedOut: the first packet waiting for its ack was sent over the link.
ConfirmTimedOut(e, l) ==
  /\ Running(e)
  /\ \E s \in SentOver(e, l) :
       \A t \in DOMAIN txed_packets[e] : t < s => txed_packets[e][t].st # "Sent"
  /\ UnconfirmLink(e, l)

\* check_link_limits, run inside the loop after the snapshots were taken: the
\* link is much slower than another confirmed link.
CheckLinkLimits(e, l) ==
  /\ Running(e) /\ Confirmed(e, l)
  /\ \E k \in Links \ {l} : Confirmed(e, k)
  /\ UnconfirmLink(e, l)

\* Disconnect or a received Goodbye: the link only drains from now on.
DisconnectLink(e, l) ==
  /\ Running(e) /\ link_state[e][l] \in {"unconfirmed", "confirmed"} /\ l \notin StableLinks
  /\ Fault
  /\ link_state' = [link_state EXCEPT ![e][l] = "leaving"]
  /\ Unconfirm(e, l)
  /\ UNCHANGED <<tx_ack_queue, chan>>

\* remove_link after an I/O error, a timeout, or completed disconnection.
RemoveLink(e, l) ==
  /\ Running(e) /\ Present(e, l)
  /\ IF link_state[Peer[e]][l] = "gone" THEN UNCHANGED faults ELSE Fault /\ l \notin StableLinks
  /\ link_state' = [link_state EXCEPT ![e][l] = "gone"]
  /\ Unconfirm(e, l)
  /\ tx_ack_queue' = [tx_ack_queue EXCEPT ![e][l] = <<>>]
  /\ chan' = [chan EXCEPT ![Peer[e]][l] = <<>>]

(***************************************************************************)
(* The users.                                                              *)
(***************************************************************************)
\* Sender::send; the mpsc channel holds SendQueue requests.
UserSend(e) ==
  /\ sender_alive[e] /\ write_rx[e]
  /\ Len(user_data[e]) < MaxSend[e]
  /\ Len(user_data[e]) - deq[e] < SendQueue
  /\ \E n \in Lens : user_data' = [user_data EXCEPT ![e] = Append(@, n)]
  /\ UNCHANGED <<sender_alive, recv_alive, close_req>>

UserDropSender(e) ==
  /\ e \in MayDropSend /\ sender_alive[e]
  /\ sender_alive' = [sender_alive EXCEPT ![e] = FALSE]
  /\ UNCHANGED <<user_data, recv_alive, close_req>>

UserClose(e) ==
  /\ e \in MayClose /\ recv_alive[e] /\ ~close_req[e]
  /\ close_req' = [close_req EXCEPT ![e] = TRUE]
  /\ UNCHANGED <<user_data, sender_alive, recv_alive>>

UserDropReceiver(e) ==
  /\ e \in MayDropRecv /\ recv_alive[e]
  /\ recv_alive' = [recv_alive EXCEPT ![e] = FALSE]
  /\ UNCHANGED <<user_data, sender_alive, close_req>>

(***************************************************************************)
(* The specification.                                                      *)
(***************************************************************************)
User(e) ==
  /\ UserSend(e) \/ UserDropSender(e) \/ UserClose(e) \/ UserDropReceiver(e)
  /\ UNCHANGED <<readVars, closeVars, txVars, rxVars, linkVars, result, resending, sendable>>

\* An iteration of the main loop without a transfer, such as PublishLinkStats:
\* it matters by the snapshot and the limits that follow it.
Stale(e) == resending[e] # (resend_queue[e] # {})

Idle(e) ==
  /\ Running(e) /\ (Stale(e) \/ MayLimit[e] # {})
  /\ UNCHANGED <<userVars, readVars, closeVars, txVars, rxVars, linkVars, result>>

LinkEvent(e, l) ==
  \/ SendAck(e, l) \/ SendConsumed(e, l) \/ Resend(e, l) \/ SendReceiveClose(e, l)
  \/ SendReceiveFinish(e, l) \/ SendSendFinish(e, l) \/ SendData(e, l)
  \/ ReceiveAck(e, l) \/ ReceiveInvalid(e, l) \/ ReceiveDuplicate(e, l) \/ ReceiveNew(e, l)
  \/ AddLink(e, l) \/ ConfirmLink(e, l) \/ ConfirmTimedOut(e, l)
  \/ DisconnectLink(e, l) \/ RemoveLink(e, l)

TaskEvent(e) ==
  \/ WriteEnd(e) \/ ReadDropped(e) \/ ReadClosed(e) \/ ConsumeReceived(e)
  \/ Finish(e) \/ FinishTimeout(e) \/ AllLinksFailed(e) \/ NoLinksTimeout(e)
  \/ NoNewLinks(e) \/ Idle(e)

\* adjust_link_tx_limits: any confirmed link may be at its limit now.
AdjustLimits(e) ==
  \E full \in SUBSET {l \in MayLimit[e] : link_state'[e][l] = "confirmed"} :
    sendable' = [sendable EXCEPT ![e] = Links \ full]

\* Every event ends its iteration: the next one takes a new snapshot and
\* adjusts the limits.
NextIteration(e) ==
  /\ resending' = [resending EXCEPT ![e] = resend_queue'[e] # {}]
  /\ AdjustLimits(e)

Event(e) == (TaskEvent(e) \/ \E l \in Links : LinkEvent(e, l)) /\ NextIteration(e)

\* Between taking the snapshot and adjusting the limits.
Limits(e) == (\E l \in Links : CheckLinkLimits(e, l)) /\ UNCHANGED resending /\ AdjustLimits(e)

Next == \E e \in EP : User(e) \/ Event(e) \/ Limits(e)

Spec == Init /\ [][Next]_vars

(***************************************************************************)
(* Properties.                                                             *)
(***************************************************************************)
LinkStates == {"none", "unconfirmed", "confirmed", "leaving", "gone"}
Results == {"running", "ok", "cut", "failed", "protocol_error"}

UserType ==
  /\ user_data \in [EP -> Seq(Nat)]
  /\ sender_alive \in [EP -> BOOLEAN] /\ recv_alive \in [EP -> BOOLEAN]
  /\ close_req \in [EP -> BOOLEAN]
ReadType ==
  /\ delivered \in [EP -> Seq(Nat)] /\ eof \in [EP -> BOOLEAN] /\ handed \in [EP -> Nat]
  /\ rxed_reliable_size \in [EP -> Int] /\ consumed_since_last_ack \in [EP -> Nat]
CloseType ==
  /\ write_rx \in [EP -> BOOLEAN] /\ read_tx \in [EP -> BOOLEAN]
  /\ read_closed_rx \in [EP -> BOOLEAN] /\ receive_close_sent \in [EP -> BOOLEAN]
  /\ receive_finish_sent \in [EP -> BOOLEAN] /\ send_finish_sent \in [EP -> BOOLEAN]
  /\ write_error \in [EP -> {"none", "Closed", "Dropped"} \cup Results]
TxType ==
  /\ deq \in [EP -> Nat] /\ tx_seq \in [EP -> Nat]
  /\ DOMAIN log = EP /\ DOMAIN txed_packets = EP
  /\ \A e \in EP : log[e] \in [0 .. (tx_seq[e] - 1) -> ReliableMsg]
  /\ \A e \in EP : /\ DOMAIN txed_packets[e] \subseteq 0 .. (tx_seq[e] - 1)
                   /\ txed_packets[e] \in [DOMAIN txed_packets[e] -> Status]
  /\ txed_unacked \in [EP -> Int] /\ txed_unconsumed \in [EP -> Int]
  /\ DOMAIN resend_queue = EP
  /\ \A e \in EP : resend_queue[e] \subseteq 0 .. (tx_seq[e] - 1)
RxType ==
  /\ rx_seq \in [EP -> Nat]
  /\ rxed_reliable \in [EP -> SUBSET Nat] /\ consumable \in [EP -> SUBSET Nat]
LinkType ==
  /\ link_rx \in [EP -> BOOLEAN] /\ link_state \in [EP -> [Links -> LinkStates]]
  /\ outstanding \in [EP -> [Links -> Int]]
  /\ tx_ack_queue \in [EP -> [Links -> Seq(Nat)]]
  /\ faults \in Nat
  /\ chan \in [EP -> [Links -> Seq(LinkMsg)]]

\* Every variable of the two tasks (struct Task, struct LinkInt) has its type.
TypeOK ==
  /\ UserType /\ ReadType /\ CloseType /\ TxType /\ RxType /\ LinkType
  /\ resending \in [EP -> BOOLEAN] /\ sendable \in [EP -> SUBSET Links] /\ result \in [EP -> Results]

\* The Receiver gets exactly the data the peer's Sender sent, in order and
\* without gaps or duplicates, whatever links failed and whatever was resent
\* (handle_received_reliable_msg, ConsumeReceived).
InOrderDelivery ==
  \A e \in EP :
    /\ Len(delivered[e]) <= Len(user_data[Peer[e]])
    /\ \A i \in 1 .. Len(delivered[e]) : delivered[e][i] = i

Got(e, s) == s < rx_seq[e] \/ s \in rxed_reliable[e]

\* A packet is forgotten, or marked Received, only when the peer's task has
\* it: acks of old copies, and acks racing a resend, never release a packet
\* that is still missing (handle_ack).
AckedReceived ==
  \A e \in EP : \A s \in 0 .. (tx_seq[e] - 1) :
    (s \in DOMAIN txed_packets[e] => txed_packets[e][s].st = "Received") => Got(Peer[e], s)

\* While the task runs, the resend queue holds exactly the packets in state
\* ResendQueued (else unreachable! in run and resend_reliable_over_link), and
\* a packet in state Sent names a link that is present and confirmed (else
\* the unwrap in earliest_confirm_timeout fails).
PacketStates ==
  \A e \in EP : result[e] = "running" =>
    /\ resend_queue[e] = {s \in DOMAIN txed_packets[e] : txed_packets[e][s].st = "ResendQueued"}
    /\ \A s \in DOMAIN txed_packets[e] :
         txed_packets[e][s].st = "Sent" => Confirmed(e, txed_packets[e][s].link)

(***************************************************************************)
(* The inductive invariant behind InOrderDelivery, AckedReceived and       *)
(* EofComplete, in parts.                                                  *)
(***************************************************************************)
IsData(e, s) == log[e][s].kind = "Data"
DataSeqs(e)  == {s \in 0 .. (tx_seq[e] - 1) : IsData(e, s)}

\* Reliable messages on a link were numbered by their sender; acks on a link,
\* or queued for it, are for messages their sender received.
LinkInv ==
  \A e \in EP, l \in Links :
    /\ \A i \in 1 .. Len(chan[e][l]) :
         LET m == chan[e][l][i] IN
         IF m.type = "Ack" THEN Got(e, m.seq) ELSE m.seq < tx_seq[e]
    /\ \A i \in 1 .. Len(tx_ack_queue[e][l]) : Got(e, tx_ack_queue[e][l][i])

\* A task received only what the peer numbered, and rx_seq is the first gap.
RxInv ==
  \A e \in EP :
    /\ rx_seq[e] <= tx_seq[Peer[e]]
    /\ \A s \in rxed_reliable[e] : rx_seq[e] < s /\ s < tx_seq[Peer[e]]
    /\ \A s \in consumable[e] :
         s < rx_seq[e] /\ log[Peer[e]][s].kind \in {"Data", "SendFinish"}

\* User messages are numbered in the order they were sent, each once.
LogInv ==
  \A e \in EP :
    /\ deq[e] <= Len(user_data[e])
    /\ \A s \in DataSeqs(e) : log[e][s].id \in 1 .. deq[e]
    /\ \A s, t \in DataSeqs(e) : s < t => log[e][s].id < log[e][t].id
    /\ \A k \in 1 .. deq[e] : \E s \in DataSeqs(e) : log[e][s].id = k

\* The consumable data is what was received in order and not yet handed out.
ConsumeInv ==
  \A e \in EP :
    /\ handed[e] <= deq[Peer[e]]
    /\ \A s \in DataSeqs(Peer[e]) :
         /\ log[Peer[e]][s].id <= handed[e] => s < rx_seq[e]
         /\ s \in consumable[e] <=> s < rx_seq[e] /\ log[Peer[e]][s].id > handed[e]

\* The Receiver was given a prefix of what was handed out, all of it as long
\* as the task has not seen it dropped.
DeliveredInv ==
  \A e \in EP :
    /\ Len(delivered[e]) <= handed[e]
    /\ read_tx[e] => Len(delivered[e]) = handed[e] /\ ~eof[e]
    /\ \A i \in 1 .. Len(delivered[e]) : delivered[e][i] = i
    /\ result[e] = "running" /\ ~read_tx[e] => eof[e] \/ ~recv_alive[e]

\* A running task closes its sending side only when the Sender was dropped and
\* its queue drained, or with SendFinish already sent or no longer needed.
DrainedInv ==
  \A e \in EP : result[e] = "running" /\ ~write_rx[e] /\ ~send_finish_sent[e]
    => ~sender_alive[e] /\ deq[e] = Len(user_data[e])

\* SendFinish comes after all data.
FinishInv ==
  \A e \in EP : \A s \in 0 .. (tx_seq[e] - 1) : log[e][s].kind = "SendFinish" =>
    /\ ~write_rx[e] /\ ~sender_alive[e] /\ deq[e] = Len(user_data[e])
    /\ \A t \in DataSeqs(e) : t < s

\* End of stream is final and complete.
EofInv ==
  \A e \in EP : eof[e] => ~sender_alive[Peer[e]] /\ handed[e] = Len(user_data[Peer[e]])

\* The inductive invariant: the parts above with the types and AckedReceived.
TransferInv ==
  /\ TypeOK /\ LinkInv /\ RxInv /\ LogInv /\ ConsumeInv /\ DeliveredInv
  /\ DrainedInv /\ FinishInv /\ EofInv /\ AckedReceived

InFlight(e, l, m) == \E i \in 1 .. Len(chan[e][l]) : chan[e][l][i] = m
AckQueued(e, l, s) == \E i \in 1 .. Len(tx_ack_queue[e][l]) : tx_ack_queue[e][l][i] = s

\* A packet in state Sent has a copy or an ack under way on that very link,
\* unless the peer has dropped the link or is leaving it: resending, ignored
\* acks and links that recover never leave a packet that nobody will resend
\* or acknowledge (unconfirm_link, handle_ack, link_testing_step).
PacketTracked ==
  \A e \in EP : result[e] = "running" =>
    \A s \in DOMAIN txed_packets[e] : \A l \in Links :
      /\ txed_packets[e][s] = [st |-> "Sent", link |-> l]
      /\ link_state[Peer[e]][l] \notin {"leaving", "gone"}
      => \/ InFlight(e, l, Reliable(s))
         \/ AckQueued(Peer[e], l, s)
         \/ InFlight(Peer[e], l, Ack(s))

\* End of stream is reported only after everything the peer's Sender sent
\* before it was dropped was consumed (WriteEnd, ConsumeReceived).
EofComplete == \A e \in EP : eof[e] => handed[e] = Len(user_data[Peer[e]])

\* A task that ends because everything was transferred has had every byte it
\* sent consumed by the peer, and it leaves data in the Sender's queue only if
\* the peer's user dropped its Receiver (exit check of run).
OkMeansConsumed ==
  \A e \in EP : result[e] = "ok" =>
    /\ \A k \in (handed[Peer[e]] + 1) .. deq[e] : user_data[e][k] = 0
    /\ deq[e] < Len(user_data[e]) => ~recv_alive[Peer[e]]

\* The tasks never accuse each other of a protocol error: no receive buffer
\* overflow, no txed_unconsumed underflow, no sequence number out of range
\* (tx_space, tx_seq_avail against handle_received_reliable_msg).
NoProtocolError == \A e \in EP : result[e] # "protocol_error"

\* Bytes outstanding at the sender bound what the receiver holds, and no byte
\* counter is taken below zero (tx_space, handle_ack, ConsumeReceived).
FlowControl ==
  \A e \in EP :
    /\ txed_unacked[e] >= 0 /\ rxed_reliable_size[e] >= 0
    /\ rxed_reliable_size[e] + consumed_since_last_ack[e] <= txed_unconsumed[Peer[e]]
    /\ txed_unconsumed[Peer[e]] <= RecvBuffer[e]

\* The highest sequence number in use exceeds the lowest by at most
\* USABLE_INTERVAL, as seq.rs requires of every user of Seq.
SeqWindow ==
  \A e \in EP : \A s \in DOMAIN txed_packets[e] : (tx_seq[e] - 1) - s <= UsableInterval

\* Once a task has processed ReceiveClose, its Sender accepts no further data:
\* what Receiver::close promises.
CloseStopsSender ==
  [][\A e \in EP : write_error[e] = "Closed" => user_data'[e] = user_data[e]]_vars

\* The two tasks and their links implement a pipe in each direction.
P == INSTANCE Pipe WITH sent <- user_data, open <- sender_alive, listening <- recv_alive,
                        ended <- eof
ImplementsPipe == P!Spec

(***************************************************************************)
(* Liveness.  The main loop waits for all its events at once and takes one *)
(* of those that are ready at random; a link that has not failed delivers  *)
(* what was put on it, a user keeps receiving, and no_link_timeout elapses *)
(* for a task without links.  So a task that stays able to work does some  *)
(* of its work.  Data needs a link below its unacked limit too, which may  *)
(* come and go: (re)sending it is strongly fair, as such a link is looked  *)
(* for in every iteration.  Nothing is assumed about faults, other         *)
(* timeouts, new links and the users' decisions to send or drop, nor about *)
(* the limits: the property that needs them to recover says so.            *)
(***************************************************************************)
\* What a task does that no limit forbids.
LinkWork(e, l) ==
  \/ SendAck(e, l) \/ SendConsumed(e, l)
  \/ SendReceiveClose(e, l) \/ SendReceiveFinish(e, l) \/ SendSendFinish(e, l)
  \/ ReceiveAck(e, l) \/ ReceiveDuplicate(e, l) \/ ReceiveNew(e, l)
  \/ ConfirmLink(e, l)
  \/ link_state[Peer[e]][l] = "gone" /\ RemoveLink(e, l)

Work(e) ==
  \/ \E l \in Links : LinkWork(e, l)
  \/ WriteEnd(e) \/ ReadDropped(e) \/ ReadClosed(e) \/ ConsumeReceived(e)
  \/ Finish(e) \/ NoLinksTimeout(e) \/ AllLinksFailed(e)
  \/ Stale(e) /\ Idle(e)

Fairness(e) ==
  /\ WF_vars(Work(e) /\ NextIteration(e))
  /\ SF_vars((\E l \in Links : Resend(e, l) \/ SendData(e, l)) /\ NextIteration(e))

FairSpec == Spec /\ \A e \in EP : Fairness(e)

\* The limits keep no link from sending data for ever.  adjust_link_tx_limits
\* does not ensure it: see BlockedLimitIncreases of module Limits.
LimitsRecover ==
  \A e \in EP : \A l \in MayLimit[e] :
    []<>(l \in sendable[e] \/ link_state[e][l] = "gone")

\* Whatever the users send, and they send finitely much, is consumed by the
\* peer's task, though links are unconfirmed, disconnected and fail, if one link
\* survives and the limits keep no link from sending for ever (run,
\* unconfirm_link, handle_ack, is_sendable).
EventuallyConsumed ==
  LimitsRecover => []<>(\A e \in EP : handed[Peer[e]] = Len(user_data[e]))

\* When both Senders have been dropped, both tasks end.
EventuallyEnds ==
  (\A e \in EP : ~sender_alive[e]) ~> (\A e \in EP : result[e] # "running")

\* When the user of one endpoint drops both halves while data is still coming
\* in, both tasks end, although the peer's user drops nothing.
AbandonedEnds ==
  \A e \in EP :
    (~sender_alive[e] /\ ~recv_alive[e] /\ handed[e] < Len(user_data[Peer[e]]))
      ~> (\A f \in EP : result[f] # "running")
=============================================================================
