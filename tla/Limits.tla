------------------------------- MODULE Limits -------------------------------
(***************************************************************************)
(* How much unacknowledged data the sending half of a task keeps on each   *)
(* link: the limit of a link decreases when data it carries holds up the   *)
(* other links or its ping grows, and increases when it alone prevents     *)
(* sending.  One iteration of Task::run is Iterate, the checks at the top  *)
(* of the loop, and then one event.                                        *)
(*                                                                         *)
(* Sequence numbers do not wrap around here (SeqNum is about that), and    *)
(* the sender is not closed, so SendFinish is never sent.                  *)
(***************************************************************************)
EXTENDS Integers, Sequences, FiniteSetsExt, SequencesExt

CONSTANTS
  Links,
  DataSize,        \* size of a data packet
  SendBuffer,      \* Cfg::send_buffer
  RecvBuffer,      \* recv_buffer of the remote endpoint
  UnackedInit,     \* LinkCfg::unacked_init
  UnackedLimit,    \* LinkCfg::unacked_limit
  UnackedIncrease, \* LinkCfg::unacked_increase: records [consecutive, percent]
  SingleLink,      \* LinkCfg::unacked_increase_single_link
  MinIncreased,    \* least limit after an increase (100 in the code)
  MinReset,        \* least limit after a reset (128 in the code)
  MaxPing,         \* LinkCfg::max_ping, or None
  MaxPingSpread,   \* Cfg::link_max_ping_spread, or None
  Reliable,        \* RELIABLE_ROUNDTRIP_ESTIMATES
  Pings,           \* roundtrip times
  MaxConsecutive,  \* bound: consecutive increases counted
  MaxData,         \* bound: data packets the application sends
  MaxControl,      \* bound: control messages that become due
  MaxFaults        \* bound: hangs, blocks and losses of links

None == -1

VARIABLES
  link,      \* LinkInt of every link: conf ("confirmed", "unconfirmed" or, when
             \* removed, "gone"), blocked, tx ("pending" is tx_pending, "idle":
             \* in idle_links), txed_unacked_data with its limit and when the limit
             \* was changed, roundtrip and roundtrip_estimates
  txed,      \* txed_packets; those "queued" are the resend queue
  tx_seq,    \* next sequence number
  avail,     \* data packets waiting in write_rx
  consume,   \* a Consumed message is due
  close,     \* ReceiveClose or ReceiveFinish is due
  txed_unconsumed,  \* data sent and not reported as consumed
  overrun,   \* tx_overrun: "armed", "soft" or "hard"
  since,     \* tx_overrun_since: "none", "recent", "second" (one has passed)
  flight,    \* per link, sequence numbers whose acknowledgement is to come
  top,       \* the loop is at its top
  data, control, faults  \* bounded counters

queues == <<txed, tx_seq, flight>>
counters == <<data, control, faults>>
vars == <<link, queues, avail, consume, close, txed_unconsumed, overrun, since,
          top, counters>>

NewLink(ping) ==
  [conf |-> "confirmed", blocked |-> FALSE, tx |-> "ready", unacked |-> 0,
   limit |-> UnackedInit, increased |-> None,
   consecutively |-> Min({45, MaxConsecutive}), roundtrip |-> ping,
   estimates |-> 0]

Init ==
  /\ link \in [Links -> {NewLink(r) : r \in Pings}]
  /\ txed = <<>> /\ tx_seq = 0 /\ flight = [l \in Links |-> <<>>]
  /\ avail = 0 /\ consume = FALSE /\ close = FALSE
  /\ txed_unconsumed = 0 /\ overrun = "armed" /\ since = "none"
  /\ top = TRUE
  /\ data = 0 /\ control = 0 /\ faults = 0

-----------------------------------------------------------------------------
IsSendable(k) == k.unacked < k.limit
Confirmed(k) == k.conf = "confirmed"
Working(k) == Confirmed(k) /\ ~k.blocked
ReliablePing(k) == k.estimates >= Reliable

SizeOf(ps) == FoldSeq(LAMBDA p, n : p.size + n, 0, ps)
With(ps, st) == SelectSeq(ps, LAMBDA p : p.st = st)
ResendQueue == With(txed, "queued")
ComingSeq(ps) == IF With(ps, "queued") = <<>> THEN tx_seq
                 ELSE Head(With(ps, "queued")).seq
TxedUnconsumable(ps) == SizeOf(With(ps, "received"))

TxSpace == Min({SendBuffer - SizeOf(txed) + TxedUnconsumable(txed),
                RecvBuffer - txed_unconsumed})

-----------------------------------------------------------------------------
(* What happens at the top of the loop. *)

Reset(k) == [k EXCEPT !.limit = Max({@ \div 2, MinReset}),
                      !.increased = None, !.consecutively = 0]

\* unconfirm_link: the packets sent over the links S are to be resent.
Requeued(ps, S) ==
  [i \in DOMAIN ps |-> IF ps[i].st = "sent" /\ ps[i].link \in S
                       THEN [ps[i] EXCEPT !.st = "queued"] ELSE ps[i]]
UnconfirmLinks(ls, S, conf) ==
  [l \in Links |-> IF l \in S
                   THEN [Reset(ls[l]) EXCEPT !.conf = conf, !.unacked = 0]
                   ELSE ls[l]]

SpreadBase(ls) ==
  {ls[l].roundtrip : l \in {m \in Links : Working(ls[m]) /\ ReliablePing(ls[m])}}
HasSpread(ls) == MaxPingSpread # None /\ SpreadBase(ls) # {}
LimitPing(ls) == Min(SpreadBase(ls)) * MaxPingSpread
GoodPing(ls) == (Min(SpreadBase(ls)) + 3 * LimitPing(ls)) \div 4

\* check_link_limits: the links to be unconfirmed.
TooSlow ==
  LET slow(k) == MaxPing = None \/ k.roundtrip > MaxPing
      allSlow == \A l \in Links : Working(link[l]) => slow(link[l])
  IN {l \in Links :
        /\ Confirmed(link[l])
        /\ \/ ~allSlow /\ slow(link[l])
           \/ /\ HasSpread(link) /\ ReliablePing(link[l])
              /\ link[l].roundtrip > 2 * LimitPing(link)}

Lowered(k, limit, seq) ==
  [k EXCEPT !.limit = limit, !.increased = seq, !.consecutively = 0]
Current(k) == Min({k.unacked, k.limit})
Less(k) == (Current(k) * 95) \div 100

UnconsumableLimit == Min({SendBuffer, RecvBuffer})
LowLevel(ps) == TxedUnconsumable(ps) < UnconsumableLimit \div 4
SoftOverrun(ps) == TxedUnconsumable(ps) > UnconsumableLimit \div 3
HardOverrun(ps) == TxedUnconsumable(ps) > (UnconsumableLimit * 3) \div 4
Overruns(ps) == \/ SoftOverrun(ps) /\ overrun = "armed"
                \/ HardOverrun(ps) /\ overrun # "hard"

\* The link of the oldest packet that is neither received nor to be resent.
Guilty(ps) == LET sent == With(ps, "sent")
              IN IF Overruns(ps) /\ sent # <<>> THEN {Head(sent).link} ELSE {}
OverrunLimits(ls, ps) ==
  [l \in Links |->
     IF l \in Guilty(ps)
     THEN Lowered(ls[l], IF HardOverrun(ps) THEN Current(ls[l]) \div 2
                                            ELSE Less(ls[l]), ComingSeq(ps))
     ELSE ls[l]]

SetOverrun(ps) ==
  \/ /\ Guilty(ps) # {}
     /\ overrun' = IF HardOverrun(ps) THEN "hard" ELSE "soft"
     /\ since' = "recent"
  \/ /\ Guilty(ps) = {}
     /\ IF (~Overruns(ps) /\ ~SoftOverrun(ps)) \/ since = "second"
        THEN overrun' = "armed" /\ since' = "none"
        ELSE UNCHANGED <<overrun, since>>

AllLinksSlow(ls) ==
  \A l \in Links :
    Working(ls[l]) => MaxPing = None \/ ls[l].roundtrip > MaxPing \div 2
MaxPingLimits(ls, ps) ==
  [l \in Links |->
     IF /\ ~AllLinksSlow(ls) /\ Confirmed(ls[l]) /\ ls[l].increased = None
        /\ ls[l].roundtrip > (MaxPing * 3) \div 4
     THEN Lowered(ls[l], Less(ls[l]), ComingSeq(ps)) ELSE ls[l]]

SpreadLimits(ls, ps) ==
  [l \in Links |->
     IF /\ HasSpread(ls) /\ Working(ls[l]) /\ ReliablePing(ls[l])
        /\ ls[l].roundtrip > LimitPing(ls)
     THEN [Lowered(ls[l], Less(ls[l]), ComingSeq(ps)) EXCEPT !.estimates = None]
     ELSE ls[l]]

SendDataAvail(ps) == avail > 0 \/ With(ps, "queued") # <<>>
SendableLinkAvail(ls) ==
  \E l \in Links : ls[l].tx # "pending" /\ Working(ls[l]) /\ IsSendable(ls[l])
WorkingLinkCount(ls) == Cardinality({l \in Links : Working(ls[l])})
Steps(k) == {s \in UnackedIncrease : k.consecutively >= s.consecutive}
Percents(ls, k) ==
  IF WorkingLinkCount(ls) = 1 THEN {SingleLink}
  ELSE {s.percent : s \in {t \in Steps(k) : \A u \in Steps(k) :
                                              u.consecutive <= t.consecutive}}

\* ls0 are the links before their limits were decreased for their ping.
MayIncrease(ls0, ls, k) ==
  /\ k.tx # "pending" /\ Working(k) /\ ~IsSendable(k) /\ k.increased = None
  /\ k.limit < UnackedLimit
  /\ MaxPing = None \/ k.roundtrip <= MaxPing \div 2 \/ AllLinksSlow(ls)
  /\ HasSpread(ls0) => k.roundtrip <= GoodPing(ls0) /\ ReliablePing(k)
  /\ Percents(ls, k) # {}
IncreasedLimits(ls0, ls, ps) ==
  [l \in Links |->
     IF SendDataAvail(ps) /\ ~SendableLinkAvail(ls) /\ MayIncrease(ls0, ls, ls[l])
     THEN LET percent == CHOOSE p \in Percents(ls, ls[l]) : TRUE
          IN [ls[l] EXCEPT !.limit = Max({(@ * percent) \div 100, MinIncreased}),
                           !.increased = ComingSeq(ps),
                           !.consecutively = Min({@ + 1, MaxConsecutive}),
                           !.estimates = None]
     ELSE ls[l]]

AdjustLinkTxLimits(ls, ps) ==
  LET pinged == MaxPingLimits(OverrunLimits(ls, ps), ps)
      limited == IncreasedLimits(pinged, SpreadLimits(pinged, ps), ps)
  IN IF LowLevel(ps) THEN limited
     ELSE [l \in Links |-> [limited[l] EXCEPT !.consecutively = 0]]

Iterate ==
  LET ls == UnconfirmLinks(link, TooSlow, "unconfirmed")
      ps == Requeued(txed, TooSlow)
  IN /\ top
     /\ link' = AdjustLinkTxLimits(ls, ps)
     /\ txed' = ps
     /\ SetOverrun(ps)
     /\ top' = FALSE
     /\ UNCHANGED <<tx_seq, flight, avail, consume, close, txed_unconsumed, counters>>

-----------------------------------------------------------------------------
(* Sending. *)

Event == ~top /\ top' = TRUE /\ UNCHANGED <<overrun, since>>

SendReliableOverLink(l, size) ==
  /\ txed' = Append(txed, [seq |-> tx_seq, size |-> size, st |-> "sent", link |-> l])
  /\ tx_seq' = tx_seq + 1
  /\ flight' = [flight EXCEPT ![l] = Append(@, tx_seq)]
  /\ link' = [link EXCEPT ![l].unacked = @ + size, ![l].tx = "ready"]
  /\ txed_unconsumed' = txed_unconsumed + size

SendConsumed(l) ==
  /\ consume /\ consume' = FALSE
  /\ SendReliableOverLink(l, 0)
  /\ UNCHANGED <<avail, close>>

SendClose(l) ==
  /\ close /\ close' = FALSE
  /\ SendReliableOverLink(l, 0)
  /\ UNCHANGED <<avail, consume>>

CanResend(l) ==
  /\ ResendQueue # <<>> /\ IsSendable(link[l])
  /\ Head(ResendQueue).link # l

Resend(l) ==
  LET p == Head(ResendQueue) IN
  /\ CanResend(l)
  /\ txed' = [i \in DOMAIN txed |-> IF txed[i] = p
                                    THEN [p EXCEPT !.st = "sent", !.link = l]
                                    ELSE txed[i]]
  /\ flight' = [flight EXCEPT ![l] = Append(@, p.seq)]
  /\ link' = [link EXCEPT ![l].unacked = @ + p.size, ![l].tx = "ready",
                          ![l].increased = Min({@, p.seq})]
  /\ UNCHANGED <<tx_seq, avail, consume, close, txed_unconsumed>>

CanSendData(l) == avail > 0 /\ DataSize <= TxSpace /\ IsSendable(link[l])

SendData(l) ==
  /\ CanSendData(l)
  /\ avail' = avail - 1
  /\ SendReliableOverLink(l, DataSize)
  /\ UNCHANGED <<consume, close>>

\* The sink of link l takes another message; what to send goes by priority.
TxReady(l) ==
  /\ Event
  /\ Working(link[l]) /\ link[l].tx # "idle"
  /\ \/ SendConsumed(l)
     \/ ~consume /\ Resend(l)
     \/ ~consume /\ ~CanResend(l) /\ SendClose(l)
     \/ ~consume /\ ~CanResend(l) /\ ~close /\ SendData(l)
     \/ /\ ~consume /\ ~CanResend(l) /\ ~close /\ ~CanSendData(l)
        /\ link' = [link EXCEPT ![l].tx = "idle"]
        /\ UNCHANGED <<queues, avail, consume, close, txed_unconsumed>>
  /\ UNCHANGED counters

\* The events that use an idle link; ReadClosed and ReadDropped do so at once.
UseIdle(l) ==
  /\ Event
  /\ Working(link[l]) /\ link[l].tx = "idle"
  /\ \/ SendConsumed(l)
     \/ SendClose(l)
     \/ Resend(l)
     \/ ~consume /\ ResendQueue = <<>> /\ SendData(l)
  /\ UNCHANGED counters

\* The sink of link l is polled and not ready.
TxPending(l) ==
  /\ ~top
  /\ link[l].tx = "ready" /\ link' = [link EXCEPT ![l].tx = "pending"]
  /\ UNCHANGED <<queues, avail, consume, close, txed_unconsumed, overrun, since,
                 top, counters>>

-----------------------------------------------------------------------------
(* Receiving. *)

\* Whether packet p is now known to be received, its ack having come over l.
AckCounts(l, p) == p.st = "queued" \/ (p.st = "sent" /\ p.link = l)

AckedLink(l, seq, ping) ==
  LET k == link[l]
      p == SelectSeq(txed, LAMBDA q : q.seq = seq /\ q.st = "sent" /\ q.link = l)
      allowed == k.increased # None /\ k.increased <= seq
      early == k.increased # None /\ k.increased > seq
      estimates == IF early THEN 0 ELSE k.estimates
      unblocked == [k EXCEPT !.increased = IF allowed THEN None ELSE @,
                             !.estimates = estimates]
  IN IF p = <<>> THEN unblocked
     ELSE [unblocked EXCEPT !.unacked = @ - SizeOf(p), !.roundtrip = ping,
             !.estimates = IF @ = None THEN None ELSE Min({@ + 1, Reliable})]

Swiped(ps) ==
  LET first == SelectInSeq(ps, LAMBDA p : p.st # "received")
  IN IF first = 0 THEN <<>> ELSE SubSeq(ps, first, Len(ps))

HandleAck(l) ==
  /\ Event
  /\ link[l].conf # "gone" /\ flight[l] # <<>>
  /\ \E ping \in Pings :
       link' = [link EXCEPT ![l] = AckedLink(l, Head(flight[l]), ping)]
  /\ txed' = Swiped([i \in DOMAIN txed |->
                       IF txed[i].seq = Head(flight[l]) /\ AckCounts(l, txed[i])
                       THEN [txed[i] EXCEPT !.st = "received"] ELSE txed[i]])
  /\ flight' = [flight EXCEPT ![l] = Tail(@)]
  /\ UNCHANGED <<tx_seq, avail, consume, close, txed_unconsumed, counters>>

\* The remote endpoint reports all it could consume.
ReceiveConsumed ==
  /\ Event
  /\ txed_unconsumed > SizeOf(txed)
  /\ txed_unconsumed' = SizeOf(txed)
  /\ UNCHANGED <<link, queues, avail, consume, close, counters>>

\* A pong, and the test of an unconfirmed link it may complete.
Pong(l) ==
  /\ Event
  /\ link[l].conf # "gone"
  /\ \E ping \in Pings, ok \in BOOLEAN :
       /\ ok => link[l].conf = "unconfirmed"
       /\ link' = [link EXCEPT ![l].roundtrip = ping, ![l].estimates = Min({1, Reliable}),
                               ![l].conf = IF ok THEN "confirmed" ELSE @,
                               ![l].tx = IF ok THEN "ready" ELSE @]
  /\ UNCHANGED <<queues, avail, consume, close, txed_unconsumed, counters>>

-----------------------------------------------------------------------------
(* Everything else that happens. *)

UnconfirmLink(l, conf) ==
  /\ Event
  /\ faults < MaxFaults /\ faults' = faults + 1
  /\ link[l].conf # "gone" /\ link[l].conf # conf
  /\ link' = UnconfirmLinks(link, {l}, conf)
  /\ txed' = Requeued(txed, {l})
  /\ flight' = [flight EXCEPT ![l] = IF conf = "gone" THEN <<>> ELSE @]
  /\ UNCHANGED <<tx_seq, avail, consume, close, txed_unconsumed, data, control>>

BlockedChanged(l) ==
  /\ Event
  /\ faults < MaxFaults /\ faults' = faults + 1
  /\ link[l].conf # "gone"
  /\ link' = [link EXCEPT ![l].blocked = ~@, ![l].tx = "ready"]
  /\ UNCHANGED <<queues, avail, consume, close, txed_unconsumed, data, control>>

\* Any other event, of which publishing the statistics recurs for ever.
PublishLinkStats ==
  /\ Event
  /\ UNCHANGED <<link, queues, avail, consume, close, txed_unconsumed, counters>>

SecondPasses ==
  /\ since = "recent" /\ since' = "second"
  /\ UNCHANGED <<link, queues, avail, consume, close, txed_unconsumed, overrun,
                 top, counters>>

\* The application sends, reads (which makes Consumed due) or closes.
User ==
  /\ \/ /\ data < MaxData /\ data' = data + 1 /\ avail' = avail + 1
        /\ UNCHANGED <<consume, close, control>>
     \/ /\ control < MaxControl /\ control' = control + 1
        /\ \/ consume' = TRUE /\ UNCHANGED close
           \/ close' = TRUE /\ UNCHANGED consume
        /\ UNCHANGED <<avail, data>>
  /\ UNCHANGED <<link, queues, txed_unconsumed, overrun, since, top, faults>>

Next ==
  \/ Iterate \/ ReceiveConsumed \/ PublishLinkStats \/ SecondPasses \/ User
  \/ \E l \in Links :
       \/ TxReady(l) \/ UseIdle(l) \/ TxPending(l) \/ HandleAck(l) \/ Pong(l)
       \/ UnconfirmLink(l, "unconfirmed") \/ UnconfirmLink(l, "gone")
       \/ BlockedChanged(l)

Spec == Init /\ [][Next]_vars

(* The loop keeps running, for statistics are published for ever; a link   *)
(* whose sink is ready is served, acknowledgements of a link that is up    *)
(* arrive, and the remote application reads.  No fault, ping, read or      *)
(* close needs to happen.                                                  *)
Fairness ==
  /\ WF_vars(Iterate) /\ WF_vars(PublishLinkStats) /\ SF_vars(ReceiveConsumed)
  /\ \A l \in Links : /\ SF_vars(TxReady(l)) /\ SF_vars(UseIdle(l))
                      /\ SF_vars(HandleAck(l))

FairSpec == Spec /\ Fairness

-----------------------------------------------------------------------------
\* Link l is the only working one and its limit, although below the greatest
\* allowed, keeps it from sending what is there to send.
BlockedByLimit(l) ==
  /\ Working(link[l]) /\ ~IsSendable(link[l]) /\ link[l].limit < UnackedLimit
  /\ \A m \in Links \ {l} : ~Working(link[m])
  /\ SendDataAvail(txed)

(* "Whenever a link is blocked by its limit and no other link is available *)
(* for sending, the limit is increased" (LinkCfg::unacked_increase): a     *)
(* link does not stay blocked by its limit, in adjust_link_tx_limits.      *)
BlockedLimitIncreases ==
  \A l \in Links : BlockedByLimit(l) ~> ~BlockedByLimit(l)
=============================================================================
