------------------------------- MODULE SeqNum -------------------------------
(***************************************************************************)
(* The wrapping sequence numbers of aggligator (Seq of seq.rs) and the     *)
(* three places where a task relies on them: ordering the packets that are *)
(* not yet acknowledged (tx_seq_avail, the sorted resend queue), finding   *)
(* the packet an ack is for (handle_ack), and classifying and placing what *)
(* is received (handle_received_reliable_msg).                             *)
(*                                                                         *)
(* One direction of a connection.  The naturals tx, front and rx count     *)
(* messages and never wrap; the code has only tx_seq, rx_seq and the       *)
(* number stored in each packet, num[k] for the k-th message.  The         *)
(* properties say that the wrapped numbers always give the answers the     *)
(* counts would.  Copies resent over slow links and late acks may arrive   *)
(* at any time, as long as fewer than Horizon messages were sent since.    *)
(***************************************************************************)
EXTENDS Integers

CONSTANTS
  M,                \* number of sequence numbers, 2^32 in the code
  USABLE_INTERVAL,  \* Seq::USABLE_INTERVAL
  Slack,            \* bound: control messages sent while the window is full
  Horizon,          \* bound: age of copies and acks still under way
  MaxSent           \* bound: messages sent

ONE_QUARTER    == (M - 1) \div 4
THREE_QUARTERS == 3 * ONE_QUARTER

ASSUME SeqAssumption ==
  /\ M \in Nat \ {0}
  /\ USABLE_INTERVAL \in Nat /\ Slack \in Nat /\ Horizon \in Nat /\ MaxSent \in Nat
  /\ USABLE_INTERVAL + Slack + 1 <= ONE_QUARTER
  /\ Horizon <= ONE_QUARTER

VARIABLES
  tx, tx_seq,     \* messages numbered so far, and next number for sending
  num,            \* sequence number of each message
  front,          \* first message still in txed_packets
  acked,          \* messages of txed_packets in state Received
  rx, rx_seq,     \* messages handed out so far, and next number for handing out
  rxed_reliable,  \* filled slots: offset from rx_seq to number of the message
  failed          \* the receiver reported "sequence number underflow"

vars == <<tx, tx_seq, num, front, acked, rx, rx_seq, rxed_reliable, failed>>

(***************************************************************************)
(* Seq: arithmetic of 32-bit words.                                        *)
(***************************************************************************)
SeqNo == 0 .. (M - 1)

\* wrapping_add and wrapping_sub, for an argument of at most M.
Add(a, d)   == IF a + d < M THEN a + d ELSE (a + d) - M
Minus(a, d) == IF a >= d THEN a - d ELSE (a - d) + M

\* Sub<Seq>: the wrapped difference read as a signed number.
Sub(a, b) == LET v == Minus(a, b) IN IF v < M \div 2 THEN v ELSE v - M

\* Mutant: numbers are compared as they are.
PlainLess(a, b) == a < b

\* Ord: cmp yields Less.
Less(a, b) ==
  IF a < ONE_QUARTER /\ b >= THREE_QUARTERS THEN FALSE
  ELSE IF b < ONE_QUARTER /\ a >= THREE_QUARTERS THEN TRUE
  ELSE a < b

(***************************************************************************)
(* The sender.                                                             *)
(***************************************************************************)
TxSeqAvail == front < tx => Sub(tx_seq, num[front]) <= USABLE_INTERVAL

\* next_tx_seq and the new packet of send_reliable_over_link.
NextTxSeq ==
  /\ ~failed /\ tx < MaxSent
  /\ num' = [k \in 0 .. tx |-> IF k = tx THEN tx_seq ELSE num[k]]
  /\ tx' = tx + 1
  /\ tx_seq' = Add(tx_seq, 1)
  /\ UNCHANGED <<front, acked, rx, rx_seq, rxed_reliable, failed>>

\* Data and WriteEnd wait for tx_seq_avail.
SendData == TxSeqAvail /\ NextTxSeq

\* Consumed, ReceiveClose, ReceiveFinish and a late SendFinish do not.
SendControl == tx - front <= USABLE_INTERVAL + Slack /\ NextTxSeq

\* Mutant: the wrapped difference is not read as a signed number.
UnsignedIdx(s) == {tx - b : b \in {tx_seq - s} \cap 1 .. (tx - front)}

\* handle_ack: the packet of txed_packets an ack for number s is taken for,
\* found by its distance from the back; none if the distance is out of range.
AckIdx(s) == {tx - b : b \in {Sub(tx_seq, s)} \cap 1 .. (tx - front)}

Got(k) == k < rx \/ (k - rx) \in DOMAIN rxed_reliable
Recent == {k \in 0 .. (tx - 1) : tx - k <= Horizon}

\* handle_ack: mark the packet and swipe the front of txed_packets.
HandleAck ==
  /\ ~failed
  /\ \E k \in Recent : \E f \in front .. tx :
       LET marked == acked \cup AckIdx(num[k]) IN
       /\ Got(k)
       /\ front .. (f - 1) \subseteq marked /\ f \notin marked
       /\ front' = f
       /\ acked' = marked \ (front .. (f - 1))
  /\ UNCHANGED <<tx, tx_seq, num, rx, rx_seq, rxed_reliable, failed>>

(***************************************************************************)
(* The receiver: handle_received_reliable_msg.                             *)
(***************************************************************************)
\* The slots, filled in and shifted when n of them are handed out.
Shifted(slots, n) == [o \in {p - n : p \in {q \in DOMAIN slots : q >= n}} |-> slots[o + n]]

\* Mutant: the last slot of the window is refused.
BelowWindow(offset) == offset \in 0 .. (USABLE_INTERVAL - 1)

InWindow(offset) == offset \in 0 .. USABLE_INTERVAL

\* A number before rx_seq was handed out already: it is only acknowledged.
\* Any other is put into its slot, unless the slot lies outside the window.
HandleReceived ==
  /\ ~failed
  /\ \E k \in Recent :
       LET s == num[k]
           offset == Sub(s, rx_seq)
       IN /\ ~Less(s, rx_seq)
          /\ \/ /\ ~InWindow(offset)
                /\ failed' = TRUE
                /\ UNCHANGED <<rx, rx_seq, rxed_reliable>>
             \/ /\ InWindow(offset)
                /\ \E n \in 0 .. (USABLE_INTERVAL + 1) :
                     LET slots == [o \in DOMAIN rxed_reliable \cup {offset} |->
                                     IF o \in DOMAIN rxed_reliable THEN rxed_reliable[o] ELSE s]
                     IN /\ 0 .. (n - 1) \subseteq DOMAIN slots /\ n \notin DOMAIN slots
                        /\ rx' = rx + n
                        /\ rx_seq' = Add(rx_seq, n)
                        /\ rxed_reliable' = Shifted(slots, n)
                /\ UNCHANGED failed
  /\ UNCHANGED <<tx, tx_seq, num, front, acked>>

(***************************************************************************)
(* The specification.                                                      *)
(***************************************************************************)
Init ==
  /\ tx = 0 /\ tx_seq = 0 /\ num = [k \in {} |-> 0]
  /\ front = 0 /\ acked = {}
  /\ rx = 0 /\ rx_seq = 0 /\ rxed_reliable = [o \in {} |-> 0]
  /\ failed = FALSE

Next == SendData \/ SendControl \/ HandleAck \/ HandleReceived

Spec == Init /\ [][Next]_vars

(***************************************************************************)
(* Properties.                                                             *)
(***************************************************************************)
\* The numbers and slots of both tasks have their types.
SeqType ==
  /\ tx \in Nat /\ front \in 0 .. tx /\ rx \in 0 .. tx
  /\ tx_seq \in SeqNo /\ rx_seq \in SeqNo /\ num \in [0 .. (tx - 1) -> SeqNo]
  /\ acked \subseteq (front + 1) .. (tx - 1)
  /\ DOMAIN rxed_reliable \subseteq 1 .. USABLE_INTERVAL
  /\ rxed_reliable \in [DOMAIN rxed_reliable -> SeqNo]
  /\ failed \in BOOLEAN

\* The inductive invariant: the wrapped numbers lag tx_seq by the age of their
\* message, the window is bounded, and what left it has been received.
NumInv    == \A k \in 0 .. (tx - 1) : tx - k < M => num[k] = Minus(tx_seq, tx - k)
RxSeqInv  == rx_seq = Minus(tx_seq, tx - rx)
WindowInv == tx - front <= USABLE_INTERVAL + Slack + 1
GotInv    == \A k \in 0 .. (tx - 1) : k < front \/ k \in acked => Got(k)
SlotInv   == \A o \in DOMAIN rxed_reliable : rx + o < tx /\ rxed_reliable[o] = num[rx + o]
SeqInv    == SeqType /\ NumInv /\ RxSeqInv /\ WindowInv /\ GotInv /\ SlotInv

\* Comparing numbers orders the unacknowledged packets by age, across the
\* wrap-around too: the resend queue sorted by seq, tx_seq_avail and the limit
\* bookkeeping of handle_ack rely on it.
WindowOrder ==
  \A i, j \in front .. (tx - 1) : Less(num[i], num[j]) <=> i < j

\* An ack, however late, is taken for the packet it was sent for, and for none
\* when that packet was swiped: assert_eq!(packet.seq, rxed_seq) of handle_ack
\* never fails and no other packet is released.
AckHitsPacket ==
  \A k \in Recent : AckIdx(num[k]) = IF k >= front THEN {k} ELSE {}

\* A received number is taken as already handed out exactly when it was, and
\* otherwise goes to the slot of its message; a late copy of an old message
\* never lands in a slot (handle_received_reliable_msg).
ReceivedInPlace ==
  /\ \A k \in Recent :
       /\ Less(num[k], rx_seq) <=> k < rx
       /\ k >= rx => Sub(num[k], rx_seq) = k - rx
  /\ SlotInv

\* The receiver reports a number out of range only when control messages have
\* overrun the window: up to the limit that tx_seq_avail keeps, it accepts every
\* number (tx_seq_avail against handle_received_reliable_msg).
NoUnderflow == failed => tx - front > USABLE_INTERVAL + 1
=============================================================================
