--------------------------- MODULE TransferProofs ---------------------------
(***************************************************************************)
(* TransferInv is inductive, for any links, buffers and bounds; from it    *)
(* follow ordered delivery, sound acknowledgement, complete end of stream  *)
(* and the refinement of Pipe.  The invariant is kept in parts: a lemma of *)
(* the form XFrame says which variables a part depends on, SendX what      *)
(* numbering a message does to a part, and ACore that action A preserves   *)
(* them all.                                                               *)
(***************************************************************************)
EXTENDS Transfer, TLAPS

\* The two endpoints are each the peer of the other.
LEMMA PeerFacts ==
  ASSUME NEW e \in EP
  PROVE  Peer[e] \in EP /\ Peer[e] # e /\ Peer[Peer[e]] = e /\ \A f \in EP : f = e \/ f = Peer[e]
BY EndpointAssumption

\* The first state has the right types.
LEMMA InitType == Init => TypeOK
<1> SUFFICES ASSUME Init PROVE TypeOK
  OBVIOUS
<1> USE DEF Const, PerLink
<1>1. UserType
  BY DEF Init, UserType
<1>2. ReadType
  BY DEF Init, ReadType
<1>3. CloseType
  BY DEF Init, CloseType
<1>4. TxType
  BY DEF Init, TxType, NoPackets
<1>5. RxType
  BY DEF Init, RxType
<1>6. LinkType
  BY DEF Init, LinkType, LinkStates
<1>7. /\ resending \in [EP -> BOOLEAN] /\ sendable \in [EP -> SUBSET Links]
      /\ result \in [EP -> Results]
  BY DEF Init, Results
<1> QED
  BY <1>1, <1>2, <1>3, <1>4, <1>5, <1>6, <1>7 DEF TypeOK

\* Putting a message on a link keeps the type of the channels.
LEMMA PushType ==
  ASSUME LinkType, NEW e \in EP, NEW l \in Links, NEW m \in LinkMsg, Push(e, l, m)
  PROVE  chan' \in [EP -> [Links -> Seq(LinkMsg)]]
BY DEF LinkType, Push

\* Noting a sent number keeps the type of outstanding.
LEMMA NoteOutstandingType ==
  ASSUME LinkType, NEW e \in EP, NEW l \in Links, NEW s \in Nat, NEW m, NoteOutstanding(e, l, s, m)
  PROVE  outstanding' \in [EP -> [Links -> Int]]
BY DEF LinkType, NoteOutstanding

\* Sending a reliable message keeps the types of all it assigns.
LEMMA SendReliableType ==
  ASSUME TxType, LinkType, NEW e \in EP, NEW l \in Links, NEW m \in ReliableMsg,
         SendReliableOverLink(e, l, m), deq' \in [EP -> Nat]
  PROVE  TxType' /\ LinkType'
<1> DEFINE s == tx_seq[e]
<1>1. s \in Nat
  BY DEF TxType
<1>2. log' = [log EXCEPT ![e] = [i \in 0..s |-> IF i = s THEN m ELSE log[e][i]]]
  BY DEF SendReliableOverLink
<1>3. tx_seq' = [tx_seq EXCEPT ![e] = s + 1] /\ tx_seq' \in [EP -> Nat]
  BY <1>1 DEF SendReliableOverLink, TxType
<1>4. txed_packets' = [txed_packets EXCEPT ![e] =
       [i \in DOMAIN txed_packets[e] \cup {s} |->
          IF i = s THEN [st |-> "Sent", link |-> l] ELSE txed_packets[e][i]]]
  BY DEF SendReliableOverLink
<1>5. \A f \in EP : log'[f] \in [0 .. (tx_seq'[f] - 1) -> ReliableMsg]
  <2> SUFFICES ASSUME NEW f \in EP PROVE log'[f] \in [0 .. (tx_seq'[f] - 1) -> ReliableMsg]
    OBVIOUS
  <2>1. CASE f = e
    <3>1. log'[f] = [i \in 0..s |-> IF i = s THEN m ELSE log[e][i]]
      BY <1>2, <2>1 DEF TxType
    <3>2. tx_seq'[f] - 1 = s
      BY <1>1, <1>3, <2>1 DEF TxType
    <3>3. \A i \in 0..s : i # s => i \in 0 .. (tx_seq[e] - 1)
      BY <1>1
    <3> QED
      BY <3>1, <3>2, <3>3 DEF TxType
  <2>2. CASE f # e
    BY <1>2, <1>3, <2>2 DEF TxType
  <2> QED
    BY <2>1, <2>2
<1>6. \A f \in EP : /\ DOMAIN txed_packets'[f] \subseteq 0 .. (tx_seq'[f] - 1)
                    /\ txed_packets'[f] \in [DOMAIN txed_packets'[f] -> Status]
  <2> SUFFICES ASSUME NEW f \in EP
               PROVE  /\ DOMAIN txed_packets'[f] \subseteq 0 .. (tx_seq'[f] - 1)
                      /\ txed_packets'[f] \in [DOMAIN txed_packets'[f] -> Status]
    OBVIOUS
  <2>1. CASE f = e
    <3>1. txed_packets'[f] = [i \in DOMAIN txed_packets[e] \cup {s} |->
            IF i = s THEN [st |-> "Sent", link |-> l] ELSE txed_packets[e][i]]
      BY <1>4, <2>1 DEF TxType
    <3>2. tx_seq'[f] - 1 = s
      BY <1>1, <1>3, <2>1 DEF TxType
    <3>4. DOMAIN txed_packets[e] \subseteq 0 .. (s - 1)
      BY DEF TxType
    <3>3. [st |-> "Sent", link |-> l] \in Status
      BY DEF Status
    <3> QED
      BY <1>1, <3>1, <3>2, <3>3, <3>4 DEF TxType
  <2>2. CASE f # e
    BY <1>3, <1>4, <2>2 DEF TxType
  <2> QED
    BY <2>1, <2>2
<1>7. txed_unacked' \in [EP -> Int] /\ txed_unconsumed' \in [EP -> Int]
  BY DEF SendReliableOverLink, TxType, Size, ReliableMsg
<1>11. \A f \in EP : resend_queue[f] \subseteq 0 .. (tx_seq'[f] - 1)
  BY <1>1, <1>3 DEF TxType
<1>8. TxType'
  BY <1>11, <1>2, <1>3, <1>4, <1>5, <1>6, <1>7 DEF SendReliableOverLink, TxType
<1>9. Reliable(s) \in LinkMsg
  BY <1>1 DEF Reliable, LinkMsg
<1>10. LinkType'
  BY <1>1, <1>9, PushType, NoteOutstandingType DEF SendReliableOverLink, LinkType
<1> QED
  BY <1>8, <1>10

\* What sending a reliable message does to the numbering of both endpoints.
LEMMA SendReliableFacts ==
  ASSUME TxType, NEW e \in EP, NEW l \in Links, NEW m \in ReliableMsg,
         SendReliableOverLink(e, l, m)
  PROVE  /\ tx_seq[e] \in Nat /\ tx_seq'[e] = tx_seq[e] + 1
         /\ log'[e][tx_seq[e]] = m
         /\ \A s \in 0 .. (tx_seq[e] - 1) : log'[e][s] = log[e][s]
         /\ DataSeqs(e)' = DataSeqs(e) \cup {s \in {tx_seq[e]} : m.kind = "Data"}
         /\ \A f \in EP : f # e => /\ tx_seq'[f] = tx_seq[f] /\ log'[f] = log[f]
                                   /\ DataSeqs(f)' = DataSeqs(f)
<1> DEFINE n == tx_seq[e]
<1>1. n \in Nat /\ tx_seq'[e] = n + 1
  BY DEF TxType, SendReliableOverLink
<1>2. log'[e] = [i \in 0..n |-> IF i = n THEN m ELSE log[e][i]]
  BY DEF TxType, SendReliableOverLink
<1>3. log'[e][n] = m
  BY <1>1, <1>2
<1>4. \A s \in 0 .. (n - 1) : log'[e][s] = log[e][s]
  BY <1>1, <1>2
<1>5. \A f \in EP : f # e => tx_seq'[f] = tx_seq[f] /\ log'[f] = log[f]
  BY DEF TxType, SendReliableOverLink
<1>6. \A f \in EP : f # e => DataSeqs(f)' = DataSeqs(f)
  BY <1>5 DEF DataSeqs, IsData
<1>7. 0 .. (tx_seq'[e] - 1) = (0 .. (n - 1)) \cup {n}
  BY <1>1
<1>8. DataSeqs(e)' = DataSeqs(e) \cup {s \in {n} : m.kind = "Data"}
  BY <1>3, <1>4, <1>7 DEF DataSeqs, IsData
<1> QED
  BY <1>1, <1>3, <1>4, <1>5, <1>6, <1>8

\* Data is numbered in the order of the user's stream.
SendsInOrder(e, m) ==
  \/ m.kind # "Data" /\ deq' = deq
  \/ /\ m.kind = "Data" /\ m.id = deq[e] + 1 /\ deq[e] < Len(user_data[e])
     /\ deq' = [deq EXCEPT ![e] = deq[e] + 1]

\* A newly numbered message extends the log in the order of the user stream.
LEMMA SendLog ==
  ASSUME TxType, UserType, LogInv, NEW e \in EP, NEW l \in Links, NEW m \in ReliableMsg,
         SendReliableOverLink(e, l, m), SendsInOrder(e, m), user_data' = user_data
  PROVE  LogInv'
<1> USE SendReliableFacts
<1> SUFFICES ASSUME NEW f \in EP
             PROVE  /\ deq'[f] <= Len(user_data[f])
                    /\ \A s \in DataSeqs(f)' : log'[f][s].id \in 1 .. deq'[f]
                    /\ \A s, t \in DataSeqs(f)' : s < t => log'[f][s].id < log'[f][t].id
                    /\ \A k \in 1 .. deq'[f] : \E s \in DataSeqs(f)' : log'[f][s].id = k
  BY DEF LogInv
<1>0. \A g \in EP : deq[g] \in Nat /\ Len(user_data[g]) \in Nat
  BY DEF TxType, UserType
<1>1. CASE f # e
  <2>1. deq'[f] = deq[f]
    BY <1>1 DEF SendsInOrder, TxType
  <2>2. log'[f] = log[f] /\ DataSeqs(f)' = DataSeqs(f)
    BY <1>1
  <2> QED
    BY <2>1, <2>2 DEF LogInv
<1>2. CASE f = e /\ m.kind # "Data"
  <2>1. DataSeqs(f)' = DataSeqs(f) /\ deq' = deq
    BY <1>2 DEF SendsInOrder
  <2>2. \A s \in DataSeqs(f) : log'[f][s] = log[f][s]
    BY <1>2 DEF DataSeqs
  <2> QED
    BY <1>2, <2>1, <2>2 DEF LogInv
<1>3. CASE f = e /\ m.kind = "Data"
  <2> DEFINE n == tx_seq[e]
  <2>1. DataSeqs(f)' = DataSeqs(f) \cup {n}
    BY <1>3
  <2>2. \A s \in DataSeqs(f) : s < n /\ log'[f][s] = log[f][s]
    BY <1>3 DEF DataSeqs
  <2>3. log'[f][n].id = deq[e] + 1 /\ deq'[f] = deq[e] + 1 /\ deq[e] < Len(user_data[e])
    BY <1>0, <1>3 DEF SendsInOrder, TxType
  <2>4. \A s \in DataSeqs(f) : log[f][s].id \in 1 .. deq[f]
    BY DEF LogInv
  <2>5. \A s \in DataSeqs(f)' : log'[f][s].id \in 1 .. deq'[f]
    BY <1>0, <1>3, <2>1, <2>2, <2>3, <2>4
  <2>6. \A s, t \in DataSeqs(f)' : s < t => log'[f][s].id < log'[f][t].id
    <3> SUFFICES ASSUME NEW s \in DataSeqs(f)', NEW t \in DataSeqs(f)', s < t
                 PROVE  log'[f][s].id < log'[f][t].id
      OBVIOUS
    <3>0. n \in Nat /\ DataSeqs(f) \subseteq Int
      BY DEF DataSeqs
    <3>1. s \in DataSeqs(f)
      BY <2>1, <2>2, <3>0
    <3>2. CASE t = n
      BY <1>0, <1>3, <2>2, <2>3, <2>4, <3>1, <3>2
    <3>3. CASE t \in DataSeqs(f)
      BY <2>2, <3>1, <3>3 DEF LogInv
    <3> QED
      BY <2>1, <3>2, <3>3
  <2>7. \A k \in 1 .. deq'[f] : \E s \in DataSeqs(f)' : log'[f][s].id = k
    <3> SUFFICES ASSUME NEW k \in 1 .. deq'[f] PROVE \E s \in DataSeqs(f)' : log'[f][s].id = k
      OBVIOUS
    <3>1. CASE k = deq[e] + 1
      BY <2>1, <2>3, <3>1
    <3>2. CASE k # deq[e] + 1
      <4>1. k \in 1 .. deq[f]
        BY <1>0, <1>3, <2>3, <3>2
      <4>2. PICK s \in DataSeqs(f) : log[f][s].id = k
        BY <4>1 DEF LogInv
      <4> QED
        BY <2>1, <2>2, <4>2
    <3> QED
      BY <3>1, <3>2
  <2> QED
    BY <1>0, <1>3, <2>3, <2>5, <2>6, <2>7
<1> QED
  BY <1>1, <1>2, <1>3

\* Sending leaves what the two endpoints have received untouched.
LEMMA SendRx ==
  ASSUME TxType, RxType, RxInv, NEW e \in EP, NEW l \in Links, NEW m \in ReliableMsg,
         SendReliableOverLink(e, l, m), UNCHANGED <<rx_seq, rxed_reliable, consumable>>
  PROVE  RxInv'
<1> SUFFICES ASSUME NEW f \in EP
             PROVE  /\ rx_seq[f] <= tx_seq'[Peer[f]]
                    /\ \A s \in rxed_reliable[f] : rx_seq[f] < s /\ s < tx_seq'[Peer[f]]
                    /\ \A s \in consumable[f] :
                         s < rx_seq[f] /\ log'[Peer[f]][s].kind \in {"Data", "SendFinish"}
  BY DEF RxInv
<1>0. Peer[f] \in EP /\ tx_seq[Peer[f]] \in Nat
  BY PeerFacts DEF TxType
<1>5. tx_seq'[Peer[f]] = tx_seq[Peer[f]] \/ tx_seq'[Peer[f]] = tx_seq[Peer[f]] + 1
  BY <1>0, SendReliableFacts
<1>1. tx_seq[Peer[f]] \in Nat /\ tx_seq'[Peer[f]] \in Nat /\ tx_seq[Peer[f]] <= tx_seq'[Peer[f]]
  BY <1>0, <1>5
<1>2. \A s \in 0 .. (tx_seq[Peer[f]] - 1) : log'[Peer[f]][s] = log[Peer[f]][s]
  BY SendReliableFacts, PeerFacts
<1>3. rx_seq[f] \in Nat /\ rxed_reliable[f] \subseteq Nat /\ consumable[f] \subseteq Nat
  BY DEF RxType
<1>4. \A s \in consumable[f] : s \in 0 .. (tx_seq[Peer[f]] - 1)
  BY <1>1, <1>3 DEF RxInv
<1> QED
  BY <1>1, <1>2, <1>3, <1>4 DEF RxInv

\* A newly numbered message is not yet received, so consumption is unaffected.
LEMMA SendConsume ==
  ASSUME TxType, RxType, ReadType, RxInv, LogInv, ConsumeInv,
         NEW e \in EP, NEW l \in Links, NEW m \in ReliableMsg,
         SendReliableOverLink(e, l, m), SendsInOrder(e, m),
         UNCHANGED <<rx_seq, consumable, handed>>
  PROVE  ConsumeInv'
<1> SUFFICES ASSUME NEW f \in EP
             PROVE  /\ handed[f] <= deq'[Peer[f]]
                    /\ \A s \in DataSeqs(Peer[f])' :
                         /\ log'[Peer[f]][s].id <= handed[f] => s < rx_seq[f]
                         /\ s \in consumable[f] <=>
                              s < rx_seq[f] /\ log'[Peer[f]][s].id > handed[f]
  BY DEF ConsumeInv
<1> DEFINE p == Peer[f]
           n == tx_seq[p]
<1>0. p \in EP /\ handed[f] \in Nat /\ deq[p] \in Nat /\ n \in Nat /\ rx_seq[f] \in Nat
      /\ rx_seq[f] <= n /\ handed[f] <= deq[p]
  BY PeerFacts DEF TxType, ReadType, RxType, RxInv, ConsumeInv
<1>1. deq'[p] = deq[p] \/ deq'[p] = deq[p] + 1
  BY <1>0 DEF SendsInOrder, TxType
<1>2. \A s \in DataSeqs(p) : log'[p][s] = log[p][s]
  BY <1>0, SendReliableFacts DEF DataSeqs
<1>3. \A s \in DataSeqs(p) :
        /\ log'[p][s].id <= handed[f] => s < rx_seq[f]
        /\ s \in consumable[f] <=> s < rx_seq[f] /\ log'[p][s].id > handed[f]
  BY <1>2 DEF ConsumeInv
<1>4. ASSUME NEW s \in DataSeqs(p)', s \notin DataSeqs(p)
      PROVE  s = n /\ log'[p][s].id = deq[p] + 1
  <2>1. p = e /\ s = n /\ m.kind = "Data"
    BY <1>0, <1>4, SendReliableFacts
  <2> QED
    BY <2>1, SendReliableFacts DEF SendsInOrder
<1>5. n \notin consumable[f]
  BY <1>0 DEF RxInv, RxType
<1>6. ASSUME NEW s \in DataSeqs(p)'
      PROVE  /\ log'[p][s].id <= handed[f] => s < rx_seq[f]
             /\ s \in consumable[f] <=> s < rx_seq[f] /\ log'[p][s].id > handed[f]
  <2>1. CASE s \in DataSeqs(p)
    BY <1>3, <2>1
  <2>2. CASE s \notin DataSeqs(p)
    <3>1. s = n /\ log'[p][s].id = deq[p] + 1
      BY <1>4, <2>2
    <3> QED
      BY <1>0, <1>5, <3>1
  <2> QED
    BY <2>1, <2>2
<1> QED
  BY <1>0, <1>1, <1>6

\* A packet just sent is in txed_packets, in state Sent.
LEMMA SendAcked ==
  ASSUME TxType, AckedReceived, NEW e \in EP, NEW l \in Links, NEW m \in ReliableMsg,
         SendReliableOverLink(e, l, m), UNCHANGED <<rx_seq, rxed_reliable>>
  PROVE  AckedReceived'
<1> SUFFICES ASSUME NEW f \in EP, NEW s \in 0 .. (tx_seq'[f] - 1),
                    s \in DOMAIN txed_packets'[f] => txed_packets'[f][s].st = "Received"
             PROVE  Got(Peer[f], s)'
  BY DEF AckedReceived
<1>1. Got(Peer[f], s)' <=> Got(Peer[f], s)
  BY DEF Got
<1>2. CASE f # e
  <2>1. tx_seq'[f] = tx_seq[f] /\ txed_packets'[f] = txed_packets[f]
    BY <1>2 DEF SendReliableOverLink, TxType
  <2> QED
    BY <1>1, <2>1 DEF AckedReceived
<1>3. CASE f = e
  <2>1. txed_packets'[e] = [i \in DOMAIN txed_packets[e] \cup {tx_seq[e]} |->
          IF i = tx_seq[e] THEN [st |-> "Sent", link |-> l] ELSE txed_packets[e][i]]
    BY DEF SendReliableOverLink, TxType
  <2>2. s # tx_seq[e]
    BY <1>3, <2>1
  <2>3. s \in 0 .. (tx_seq[e] - 1)
    BY <1>3, <2>2, SendReliableFacts
  <2>4. s \in DOMAIN txed_packets[e] => txed_packets[e][s].st = "Received"
    BY <1>3, <2>1, <2>2
  <2> QED
    BY <1>1, <1>3, <2>3, <2>4 DEF AckedReceived
<1> QED
  BY <1>2, <1>3

\* Putting a message on a link: either it is appended to the link's channel
\* or the channel is left alone.
LEMMA PushElements ==
  ASSUME LinkType, NEW e \in EP, NEW l \in Links, NEW m \in LinkMsg, Push(e, l, m)
  PROVE  \A f \in EP, k \in Links : \A i \in 1 .. Len(chan'[f][k]) :
           \/ i \in 1 .. Len(chan[f][k]) /\ chan'[f][k][i] = chan[f][k][i]
           \/ f = e /\ k = l /\ chan'[f][k][i] = m
<1> SUFFICES ASSUME NEW f \in EP, NEW k \in Links, NEW i \in 1 .. Len(chan'[f][k])
             PROVE  \/ i \in 1 .. Len(chan[f][k]) /\ chan'[f][k][i] = chan[f][k][i]
                    \/ f = e /\ k = l /\ chan'[f][k][i] = m
  OBVIOUS
<1>1. chan[f][k] \in Seq(LinkMsg) /\ chan[e][l] \in Seq(LinkMsg)
  BY DEF LinkType
<1>2. CASE chan'[f][k] = chan[f][k]
  BY <1>2
<1>3. CASE f = e /\ k = l /\ chan'[f][k] = Append(chan[e][l], m)
  BY <1>1, <1>3
<1>4. chan'[f][k] = chan[f][k] \/ (f = e /\ k = l /\ chan'[f][k] = Append(chan[e][l], m))
  BY DEF Push, LinkType
<1> QED
  BY <1>2, <1>3, <1>4

\* Numbers assigned, and messages received, stay so.
Grows == /\ \A e \in EP : tx_seq[e] <= tx_seq'[e]
         /\ \A e \in EP, s \in Nat : Got(e, s) => Got(e, s)'

\* LinkInv survives a step that puts only messages on a channel, or into an
\* ack queue, that satisfy it.
ChannelsOK ==
  \A f \in EP, k \in Links : \A i \in 1 .. Len(chan'[f][k]) :
    \/ \E j \in 1 .. Len(chan[f][k]) : chan'[f][k][i] = chan[f][k][j]
    \/ \E s \in Nat : chan'[f][k][i] = Ack(s) /\ Got(f, s)'
    \/ \E s \in Nat : chan'[f][k][i] = Reliable(s) /\ s < tx_seq'[f]

AckQueuesOK ==
  \A f \in EP, k \in Links : \A i \in 1 .. Len(tx_ack_queue'[f][k]) :
    \/ \E j \in 1 .. Len(tx_ack_queue[f][k]) : tx_ack_queue'[f][k][i] = tx_ack_queue[f][k][j]
    \/ \E s \in Nat : tx_ack_queue'[f][k][i] = s /\ Got(f, s)'

\* LinkInv survives when channels and ack queues only gain sound entries.
LEMMA LinkInvStep ==
  ASSUME LinkType, TxType, TxType', LinkInv, Grows, ChannelsOK, AckQueuesOK
  PROVE  LinkInv'
<1> SUFFICES ASSUME NEW f \in EP, NEW k \in Links
             PROVE  /\ \A i \in 1 .. Len(chan'[f][k]) :
                         (IF chan[f][k][i].type = "Ack" THEN Got(f, chan[f][k][i].seq)
                          ELSE chan[f][k][i].seq < tx_seq[f])'
                    /\ \A i \in 1 .. Len(tx_ack_queue'[f][k]) : Got(f, tx_ack_queue[f][k][i])'
  BY DEF LinkInv
<1>0. tx_seq[f] \in Nat /\ tx_seq'[f] \in Nat /\ tx_seq[f] <= tx_seq'[f]
  BY DEF TxType, Grows
<1>1. ASSUME NEW i \in 1 .. Len(chan'[f][k])
      PROVE  (IF chan[f][k][i].type = "Ack" THEN Got(f, chan[f][k][i].seq)
              ELSE chan[f][k][i].seq < tx_seq[f])'
  <2>1. CASE \E j \in 1 .. Len(chan[f][k]) : chan'[f][k][i] = chan[f][k][j]
    <3>1. PICK j \in 1 .. Len(chan[f][k]) : chan'[f][k][i] = chan[f][k][j]
      BY <2>1
    <3>2. chan[f][k][j] \in LinkMsg
      BY DEF LinkType
    <3>3. PICK s \in Nat : s = chan[f][k][j].seq
      BY <3>2 DEF LinkMsg
    <3>4. IF chan[f][k][j].type = "Ack" THEN Got(f, s) ELSE s < tx_seq[f]
      BY <3>3 DEF LinkInv
    <3>5. IF chan[f][k][j].type = "Ack" THEN Got(f, s)' ELSE s < tx_seq'[f]
      BY <1>0, <3>4 DEF Grows
    <3> QED
      BY <3>1, <3>3, <3>5 DEF Got
  <2>2. CASE \E s \in Nat : chan'[f][k][i] = Ack(s) /\ Got(f, s)'
    BY <2>2 DEF Ack, Got
  <2>3. CASE \E s \in Nat : chan'[f][k][i] = Reliable(s) /\ s < tx_seq'[f]
    BY <2>3 DEF Reliable
  <2> QED
    BY <2>1, <2>2, <2>3 DEF ChannelsOK
<1>2. ASSUME NEW i \in 1 .. Len(tx_ack_queue'[f][k])
      PROVE  Got(f, tx_ack_queue[f][k][i])'
  <2>1. CASE \E j \in 1 .. Len(tx_ack_queue[f][k]) :
               tx_ack_queue'[f][k][i] = tx_ack_queue[f][k][j]
    <3>1. PICK j \in 1 .. Len(tx_ack_queue[f][k]) :
            tx_ack_queue'[f][k][i] = tx_ack_queue[f][k][j]
      BY <2>1
    <3>2. PICK s \in Nat : s = tx_ack_queue[f][k][j]
      BY DEF LinkType
    <3>3. Got(f, s)'
      BY <3>2 DEF LinkInv, Grows
    <3> QED
      BY <3>1, <3>2, <3>3 DEF Got
  <2>2. CASE \E s \in Nat : tx_ack_queue'[f][k][i] = s /\ Got(f, s)'
    BY <2>2 DEF Got
  <2> QED
    BY <2>1, <2>2 DEF AckQueuesOK
<1> QED
  BY <1>1, <1>2

\* Steps that receive nothing leave Got alone.
LEMMA GrowsFrame ==
  ASSUME TxType, UNCHANGED <<rx_seq, rxed_reliable>>,
         \A e \in EP : tx_seq'[e] = tx_seq[e] \/ tx_seq'[e] = tx_seq[e] + 1
  PROVE  Grows
<1>1. \A e \in EP : tx_seq[e] \in Nat
  BY DEF TxType
<1>2. \A e \in EP : tx_seq[e] <= tx_seq'[e]
  BY <1>1
<1>3. \A e \in EP, s \in Nat : Got(e, s) => Got(e, s)'
  BY DEF Got
<1> QED
  BY <1>2, <1>3 DEF Grows

\* A sent message carries a number that its sender has assigned.
LEMMA SendLink ==
  ASSUME TxType, LinkType, LinkInv, NEW e \in EP, NEW l \in Links, NEW m \in ReliableMsg,
         SendReliableOverLink(e, l, m), TxType', UNCHANGED <<rx_seq, rxed_reliable>>
  PROVE  LinkInv'
<1>1. tx_seq[e] \in Nat /\ Reliable(tx_seq[e]) \in LinkMsg
  BY DEF TxType, Reliable, LinkMsg
<1>2. Grows
  BY GrowsFrame, SendReliableFacts
<1>3. \A f \in EP, k \in Links : \A i \in 1 .. Len(chan'[f][k]) :
           \/ i \in 1 .. Len(chan[f][k]) /\ chan'[f][k][i] = chan[f][k][i]
           \/ f = e /\ k = l /\ chan'[f][k][i] = Reliable(tx_seq[e])
  BY <1>1, PushElements DEF SendReliableOverLink
<1>4. tx_seq[e] < tx_seq'[e]
  BY SendReliableFacts
<1>5. ChannelsOK
  BY <1>1, <1>3, <1>4 DEF ChannelsOK
<1>6. AckQueuesOK
  BY DEF AckQueuesOK, SendReliableOverLink
<1> QED
  BY <1>2, <1>5, <1>6, LinkInvStep

\* A message sent while FinishInv holds keeps SendFinish behind all data.
LEMMA SendFinishInv ==
  ASSUME TxType, UserType, CloseType, FinishInv,
         NEW e \in EP, NEW l \in Links, NEW m \in ReliableMsg,
         SendReliableOverLink(e, l, m), SendsInOrder(e, m),
         UNCHANGED <<user_data, sender_alive>>,
         \A f \in EP : write_rx'[f] => write_rx[f],
         m.kind = "Data" => write_rx[e],
         m.kind = "SendFinish" =>
           ~write_rx'[e] /\ ~sender_alive[e] /\ deq[e] = Len(user_data[e])
  PROVE  FinishInv'
<1> SUFFICES ASSUME NEW f \in EP, NEW s \in 0 .. (tx_seq'[f] - 1), log'[f][s].kind = "SendFinish"
             PROVE  /\ ~write_rx'[f] /\ ~sender_alive[f] /\ deq'[f] = Len(user_data[f])
                    /\ \A t \in DataSeqs(f)' : t < s
  BY DEF FinishInv
<1>1. CASE f # e
  <2>1. log'[f] = log[f] /\ tx_seq'[f] = tx_seq[f] /\ DataSeqs(f)' = DataSeqs(f)
    BY <1>1, SendReliableFacts
  <2>2. deq'[f] = deq[f]
    BY <1>1 DEF SendsInOrder, TxType
  <2> QED
    BY <2>1, <2>2 DEF FinishInv
<1>2. CASE f = e /\ s = tx_seq[e]
  <2>1. m.kind = "SendFinish"
    BY <1>2, SendReliableFacts
  <2>2. DataSeqs(e)' = DataSeqs(e) /\ deq' = deq
    <3>1. deq' = deq
      BY <2>1 DEF SendsInOrder
    <3>2. DataSeqs(e)' = DataSeqs(e) \cup {t \in {tx_seq[e]} : m.kind = "Data"}
      BY SendReliableFacts
    <3> QED
      BY <2>1, <3>1, <3>2
  <2>3. \A t \in DataSeqs(e) : t < tx_seq[e]
    BY SendReliableFacts DEF DataSeqs
  <2> QED
    BY <1>2, <2>1, <2>2, <2>3
<1>3. CASE f = e /\ s # tx_seq[e]
  <2>1. s \in 0 .. (tx_seq[e] - 1)
    BY <1>3, SendReliableFacts
  <2>2. log[e][s].kind = "SendFinish"
    BY <1>3, <2>1, SendReliableFacts
  <2>3. /\ ~write_rx[e] /\ ~sender_alive[e] /\ deq[e] = Len(user_data[e])
        /\ \A t \in DataSeqs(e) : t < s
    BY <2>1, <2>2 DEF FinishInv
  <2>4. m.kind # "Data"
    BY <2>3
  <2>5. DataSeqs(e)' = DataSeqs(e) /\ deq' = deq
    BY <2>4, SendReliableFacts DEF SendsInOrder
  <2> QED
    BY <1>3, <2>3, <2>5
<1> QED
  BY <1>1, <1>2, <1>3

(***************************************************************************)
(* Frames: what a part of the invariant depends on.                        *)
(***************************************************************************)
LEMMA RxFrame ==
  ASSUME RxInv, UNCHANGED <<rx_seq, rxed_reliable, consumable, tx_seq, log>>
  PROVE  RxInv'
BY DEF RxInv

\* LogInv depends on the log and on what was taken from the Sender only.
LEMMA LogFrame ==
  ASSUME LogInv, UNCHANGED <<deq, user_data, tx_seq, log>>
  PROVE  LogInv'
BY DEF LogInv, DataSeqs, IsData

\* ConsumeInv depends on the log and on what was received and handed out only.
LEMMA ConsumeFrame ==
  ASSUME ConsumeInv, UNCHANGED <<handed, deq, tx_seq, log, rx_seq, consumable>>
  PROVE  ConsumeInv'
BY DEF ConsumeInv, DataSeqs, IsData

\* DeliveredInv depends on the reading side only.
LEMMA DeliveredFrame ==
  ASSUME DeliveredInv, UNCHANGED <<delivered, handed, read_tx, eof, result, recv_alive>>
  PROVE  DeliveredInv'
BY DEF DeliveredInv

\* DrainedInv depends on the writing side only.
LEMMA DrainedFrame ==
  ASSUME DrainedInv, UNCHANGED <<result, write_rx, send_finish_sent, sender_alive, deq, user_data>>
  PROVE  DrainedInv'
BY DEF DrainedInv

\* FinishInv depends on the log and on the writing side only.
LEMMA FinishFrame ==
  ASSUME FinishInv, UNCHANGED <<tx_seq, log, write_rx, sender_alive, deq, user_data>>
  PROVE  FinishInv'
BY DEF FinishInv, DataSeqs, IsData

\* EofInv depends on the end of stream and what was handed out only.
LEMMA EofFrame ==
  ASSUME EofInv, UNCHANGED <<eof, sender_alive, handed, user_data>>
  PROVE  EofInv'
BY DEF EofInv

\* AckedReceived depends on the packets and on what was received only.
LEMMA AckedFrame ==
  ASSUME AckedReceived, UNCHANGED <<tx_seq, txed_packets, rx_seq, rxed_reliable>>
  PROVE  AckedReceived'
BY DEF AckedReceived, Got

(***************************************************************************)
(* Steps.  Core is TransferInv without the types of what every iteration   *)
(* event overwrites.                                                       *)
(***************************************************************************)
Core ==
  /\ UserType /\ ReadType /\ CloseType /\ TxType /\ RxType /\ LinkType
  /\ result \in [EP -> Results]
  /\ LinkInv /\ RxInv /\ LogInv /\ ConsumeInv /\ DeliveredInv
  /\ DrainedInv /\ FinishInv /\ EofInv /\ AckedReceived

\* Steps that change nothing but links, channels and ack queues.
LEMMA LinkOnly ==
  ASSUME Core, UNCHANGED <<userVars, readVars, closeVars, txVars, rxVars, result>>,
         LinkType', ChannelsOK, AckQueuesOK
  PROVE  Core'
<1> USE DEF userVars, readVars, closeVars, txVars, rxVars
<1>1. UserType' /\ ReadType' /\ CloseType'
  BY DEF Core, UserType, ReadType, CloseType
<1>2. TxType' /\ RxType' /\ result' \in [EP -> Results]
  BY DEF Core, TxType, RxType
<1>3. Grows
  BY GrowsFrame DEF Core
<1>4. LinkInv'
  BY <1>2, <1>3, LinkInvStep DEF Core
<1>5. RxInv' /\ LogInv' /\ ConsumeInv'
  BY RxFrame, LogFrame, ConsumeFrame DEF Core
<1>6. DeliveredInv' /\ DrainedInv' /\ FinishInv'
  BY DeliveredFrame, DrainedFrame, FinishFrame DEF Core
<1>7. EofInv' /\ AckedReceived'
  BY EofFrame, AckedFrame DEF Core
<1> QED
  BY <1>1, <1>2, <1>4, <1>5, <1>6, <1>7 DEF Core

\* SendAck preserves the invariant: the ack sent is one that was queued.
LEMMA SendAckCore ==
  ASSUME Core, NEW e \in EP, NEW l \in Links, SendAck(e, l)
  PROVE  Core'
<1> DEFINE q == tx_ack_queue[e][l]
<1>1. q \in Seq(Nat) /\ q # <<>>
  BY DEF Core, LinkType, SendAck
<1>2. Head(q) \in Nat /\ Tail(q) \in Seq(Nat) /\ Ack(Head(q)) \in LinkMsg /\ 1 \in 1 .. Len(q)
      /\ Head(q) = q[1]
  BY <1>1 DEF Ack, LinkMsg
<1>3. Push(e, l, Ack(Head(q))) /\ tx_ack_queue' = [tx_ack_queue EXCEPT ![e][l] = Tail(q)]
  BY DEF SendAck
<1>4. LinkType'
  BY <1>2, <1>3, PushType DEF Core, LinkType, SendAck
<1>5. Got(e, Head(q))
  BY <1>2 DEF Core, LinkInv
<1>7. ChannelsOK
  <2>1. \A f \in EP, k \in Links : \A i \in 1 .. Len(chan'[f][k]) :
           \/ i \in 1 .. Len(chan[f][k]) /\ chan'[f][k][i] = chan[f][k][i]
           \/ f = e /\ k = l /\ chan'[f][k][i] = Ack(Head(q))
    BY <1>2, <1>3, PushElements DEF Core
  <2>2. PICK s \in Nat : s = Head(q)
    BY <1>2
  <2>3. Got(e, s)'
    BY <1>5, <2>2 DEF Got, SendAck, rxVars
  <2> QED
    BY <2>1, <2>2, <2>3 DEF ChannelsOK
<1>8. AckQueuesOK
  <2> SUFFICES ASSUME NEW f \in EP, NEW k \in Links, NEW i \in 1 .. Len(tx_ack_queue'[f][k])
               PROVE  \E j \in 1 .. Len(tx_ack_queue[f][k]) :
                        tx_ack_queue'[f][k][i] = tx_ack_queue[f][k][j]
    BY DEF AckQueuesOK
  <2>1. CASE f = e /\ k = l
    <3>1. tx_ack_queue'[f][k] = Tail(q)
      BY <1>3, <2>1 DEF Core, LinkType
    <3>2. i \in 1 .. Len(Tail(q)) /\ Tail(q)[i] = q[i + 1] /\ i + 1 \in 1 .. Len(q)
      BY <1>1, <3>1
    <3> QED
      BY <2>1, <3>1, <3>2
  <2>2. CASE ~(f = e /\ k = l)
    BY <1>3, <2>2 DEF Core, LinkType
  <2> QED
    BY <2>1, <2>2
<1> QED
  BY <1>4, <1>7, <1>8, LinkOnly DEF SendAck

\* AddLink preserves the invariant.
LEMMA AddLinkCore ==
  ASSUME Core, NEW e \in EP, NEW l \in Links, AddLink(e, l)
  PROVE  Core'
<1>1. LinkType'
  BY BoundAssumption DEF Core, LinkType, AddLink, LinkStates
<1>2. ChannelsOK /\ AckQueuesOK
  BY DEF ChannelsOK, AckQueuesOK, AddLink
<1> QED
  BY <1>1, <1>2, LinkOnly DEF AddLink

\* ConfirmLink preserves the invariant.
LEMMA ConfirmLinkCore ==
  ASSUME Core, NEW e \in EP, NEW l \in Links, ConfirmLink(e, l)
  PROVE  Core'
<1>1. LinkType'
  BY DEF Core, LinkType, ConfirmLink, LinkStates
<1>2. ChannelsOK /\ AckQueuesOK
  BY DEF ChannelsOK, AckQueuesOK, ConfirmLink
<1> QED
  BY <1>1, <1>2, LinkOnly DEF ConfirmLink

\* NoNewLinks preserves the invariant.
LEMMA NoNewLinksCore ==
  ASSUME Core, NEW e \in EP, NoNewLinks(e)
  PROVE  Core'
<1>1. LinkType'
  BY DEF Core, LinkType, NoNewLinks
<1>2. ChannelsOK /\ AckQueuesOK
  BY DEF ChannelsOK, AckQueuesOK, NoNewLinks
<1> QED
  BY <1>1, <1>2, LinkOnly DEF NoNewLinks

\* An idle iteration preserves the invariant.
LEMMA IdleCore ==
  ASSUME Core, NEW e \in EP, Idle(e)
  PROVE  Core'
<1>1. LinkType'
  BY DEF Core, LinkType, Idle, linkVars
<1>2. ChannelsOK /\ AckQueuesOK
  BY DEF ChannelsOK, AckQueuesOK, Idle, linkVars
<1> QED
  BY <1>1, <1>2, LinkOnly DEF Idle

\* What every step that sends a new reliable message has in common.
LEMMA SendsCore ==
  ASSUME Core, NEW e \in EP, NEW l \in Links, NEW m \in ReliableMsg,
         SendReliableOverLink(e, l, m), SendsInOrder(e, m),
         UNCHANGED <<userVars, rxVars, handed>>,
         \A f \in EP : write_rx'[f] => write_rx[f],
         m.kind = "Data" => write_rx[e],
         m.kind = "SendFinish" =>
           ~write_rx'[e] /\ ~sender_alive[e] /\ deq[e] = Len(user_data[e])
  PROVE  /\ UserType' /\ RxType' /\ TxType' /\ LinkType' /\ LinkInv' /\ RxInv' /\ LogInv'
         /\ ConsumeInv' /\ FinishInv' /\ AckedReceived'
<1> USE DEF userVars, rxVars
<1>1. UserType' /\ RxType'
  BY DEF Core, UserType, RxType
<1>2. deq' \in [EP -> Nat]
  BY DEF Core, SendsInOrder, TxType
<1>3. TxType' /\ LinkType'
  BY <1>2, SendReliableType DEF Core
<1>4. LinkInv'
  BY <1>3, SendLink DEF Core
<1>5. RxInv' /\ LogInv'
  BY SendRx, SendLog DEF Core
<1>6. ConsumeInv'
  BY SendConsume DEF Core
<1>7. FinishInv'
  BY SendFinishInv DEF Core
<1>8. AckedReceived'
  BY SendAcked DEF Core
<1> QED
  BY <1>1, <1>3, <1>4, <1>5, <1>6, <1>7, <1>8

\* The control messages are reliable messages that carry no data.
LEMMA CtrlMsg ==
  ASSUME NEW k \in Kinds \ {"Data"}
  PROVE  Ctrl(k) \in ReliableMsg /\ Ctrl(k).kind = k
BY DEF Ctrl, ReliableMsg, Kinds

\* SendConsumed preserves the invariant.
LEMMA SendConsumedCore ==
  ASSUME Core, NEW e \in EP, NEW l \in Links, SendConsumed(e, l)
  PROVE  Core'
<1> USE DEF SendConsumed, userVars, closeVars, rxVars
<1> DEFINE m == Consumed(consumed_since_last_ack[e])
<1>1. m \in ReliableMsg /\ m.kind = "Consumed"
  BY DEF Core, ReadType, Consumed, ReliableMsg, Kinds
<1>2. SendsInOrder(e, m)
  BY <1>1 DEF SendsInOrder
<1>3. /\ UserType' /\ RxType' /\ TxType' /\ LinkType' /\ LinkInv' /\ RxInv' /\ LogInv'
      /\ ConsumeInv' /\ FinishInv' /\ AckedReceived'
  BY <1>1, <1>2, SendsCore
<1>4. ReadType' /\ CloseType' /\ result' \in [EP -> Results]
  BY DEF Core, ReadType, CloseType
<1>5. DeliveredInv' /\ DrainedInv' /\ EofInv'
  BY DeliveredFrame, DrainedFrame, EofFrame DEF Core
<1> QED
  BY <1>3, <1>4, <1>5 DEF Core

\* SendReceiveClose preserves the invariant.
LEMMA SendReceiveCloseCore ==
  ASSUME Core, NEW e \in EP, NEW l \in Links, SendReceiveClose(e, l)
  PROVE  Core'
<1> USE DEF SendReceiveClose, userVars, readVars, rxVars
<1>1. Ctrl("ReceiveClose") \in ReliableMsg /\ Ctrl("ReceiveClose").kind = "ReceiveClose"
  BY CtrlMsg DEF Kinds
<1>2. SendsInOrder(e, Ctrl("ReceiveClose"))
  BY <1>1 DEF SendsInOrder
<1>3. /\ UserType' /\ RxType' /\ TxType' /\ LinkType' /\ LinkInv' /\ RxInv' /\ LogInv'
      /\ ConsumeInv' /\ FinishInv' /\ AckedReceived'
  BY <1>1, <1>2, SendsCore
<1>4. ReadType' /\ CloseType' /\ result' \in [EP -> Results]
  BY DEF Core, ReadType, CloseType
<1>5. DeliveredInv' /\ DrainedInv' /\ EofInv'
  BY DeliveredFrame, DrainedFrame, EofFrame DEF Core
<1> QED
  BY <1>3, <1>4, <1>5 DEF Core

\* SendReceiveFinish preserves the invariant.
LEMMA SendReceiveFinishCore ==
  ASSUME Core, NEW e \in EP, NEW l \in Links, SendReceiveFinish(e, l)
  PROVE  Core'
<1> USE DEF SendReceiveFinish, userVars, readVars, rxVars
<1>1. Ctrl("ReceiveFinish") \in ReliableMsg /\ Ctrl("ReceiveFinish").kind = "ReceiveFinish"
  BY CtrlMsg DEF Kinds
<1>2. SendsInOrder(e, Ctrl("ReceiveFinish"))
  BY <1>1 DEF SendsInOrder
<1>3. /\ UserType' /\ RxType' /\ TxType' /\ LinkType' /\ LinkInv' /\ RxInv' /\ LogInv'
      /\ ConsumeInv' /\ FinishInv' /\ AckedReceived'
  BY <1>1, <1>2, SendsCore
<1>4. ReadType' /\ CloseType' /\ result' \in [EP -> Results]
  BY DEF Core, ReadType, CloseType
<1>5. DeliveredInv' /\ DrainedInv' /\ EofInv'
  BY DeliveredFrame, DrainedFrame, EofFrame DEF Core
<1> QED
  BY <1>3, <1>4, <1>5 DEF Core

\* SendSendFinish preserves the invariant: the Sender is gone and drained.
LEMMA SendSendFinishCore ==
  ASSUME Core, NEW e \in EP, NEW l \in Links, SendSendFinish(e, l)
  PROVE  Core'
<1> USE DEF SendSendFinish, userVars, readVars, rxVars
<1>1. Ctrl("SendFinish") \in ReliableMsg /\ Ctrl("SendFinish").kind = "SendFinish"
  BY CtrlMsg DEF Kinds
<1>2. SendsInOrder(e, Ctrl("SendFinish"))
  BY <1>1 DEF SendsInOrder
<1>3. ~write_rx[e] /\ ~sender_alive[e] /\ deq[e] = Len(user_data[e])
  BY DEF Core, DrainedInv, SendFinishPending, Running
<1>4. /\ UserType' /\ RxType' /\ TxType' /\ LinkType' /\ LinkInv' /\ RxInv' /\ LogInv'
      /\ ConsumeInv' /\ FinishInv' /\ AckedReceived'
  BY <1>1, <1>2, <1>3, SendsCore
<1>5. ReadType' /\ CloseType' /\ result' \in [EP -> Results]
  BY DEF Core, ReadType, CloseType
<1>6. DeliveredInv' /\ EofInv'
  BY DeliveredFrame, EofFrame DEF Core
<1>7. DrainedInv'
  BY DEF Core, DrainedInv, CloseType
<1> QED
  BY <1>4, <1>5, <1>6, <1>7 DEF Core

\* SendData preserves the invariant: it numbers the next user message.
LEMMA SendDataCore ==
  ASSUME Core, NEW e \in EP, NEW l \in Links, SendData(e, l)
  PROVE  Core'
<1> USE DEF SendData, userVars, readVars, closeVars, rxVars
<1> DEFINE k == deq[e] + 1
           m == Data(k, user_data[e][k])
<1>0. user_data[e] \in Seq(Nat) /\ deq[e] \in Nat /\ Len(user_data[e]) \in Nat
  BY DEF Core, UserType, TxType
<1>1. k \in Nat /\ k <= Len(user_data[e]) /\ user_data[e][k] \in Nat
  BY <1>0
<1>2. m \in ReliableMsg /\ m.kind = "Data" /\ m.id = k
  BY <1>1 DEF Data, ReliableMsg, Kinds
<1>3. SendsInOrder(e, m)
  BY <1>0, <1>1, <1>2 DEF SendsInOrder
<1>4. /\ UserType' /\ RxType' /\ TxType' /\ LinkType' /\ LinkInv' /\ RxInv' /\ LogInv'
      /\ ConsumeInv' /\ FinishInv' /\ AckedReceived'
  BY <1>2, <1>3, SendsCore
<1>5. ReadType' /\ CloseType' /\ result' \in [EP -> Results]
  BY DEF Core, ReadType, CloseType
<1>6. DeliveredInv' /\ EofInv'
  BY DeliveredFrame, EofFrame DEF Core
<1>7. DrainedInv'
  <2> SUFFICES ASSUME NEW f \in EP, result[f] = "running", ~write_rx[f], ~send_finish_sent[f]
               PROVE  ~sender_alive[f] /\ deq'[f] = Len(user_data[f])
    BY DEF DrainedInv
  <2>1. f # e
    OBVIOUS
  <2> QED
    BY <2>1 DEF Core, DrainedInv, TxType
<1> QED
  BY <1>4, <1>5, <1>6, <1>7 DEF Core

\* A step that changes closing flags only keeps every part that does not
\* mention them.
LEMMA CloseOnly ==
  ASSUME Core, UNCHANGED <<userVars, readVars, txVars, rxVars, linkVars, result>>
  PROVE  /\ UserType' /\ ReadType' /\ RxType' /\ TxType' /\ LinkType' /\ LinkInv' /\ RxInv'
         /\ LogInv' /\ ConsumeInv' /\ EofInv' /\ AckedReceived'
<1> USE DEF userVars, readVars, txVars, rxVars, linkVars
<1>1. UserType' /\ ReadType' /\ RxType' /\ TxType' /\ LinkType'
  BY DEF Core, UserType, ReadType, RxType, TxType, LinkType
<1>2. LinkInv'
  BY DEF Core, LinkInv, Got
<1>3. RxInv' /\ LogInv' /\ ConsumeInv' /\ EofInv' /\ AckedReceived'
  BY RxFrame, LogFrame, ConsumeFrame, EofFrame, AckedFrame DEF Core
<1> QED
  BY <1>1, <1>2, <1>3

\* WriteEnd preserves the invariant: it closes a drained Sender.
LEMMA WriteEndCore ==
  ASSUME Core, NEW e \in EP, WriteEnd(e)
  PROVE  Core'
<1> USE DEF WriteEnd, userVars, readVars, rxVars
<1> DEFINE m == Ctrl("SendFinish")
<1>1. m \in ReliableMsg /\ m.kind = "SendFinish"
  BY CtrlMsg DEF Kinds
<1>2. /\ ~write_rx'[e] /\ ~sender_alive[e] /\ deq[e] = Len(user_data[e])
      /\ \A f \in EP : write_rx'[f] => write_rx[f]
      /\ \A f \in EP : f # e => write_rx'[f] = write_rx[f]
      /\ deq' = deq
  BY DEF Core, CloseType, txVars
<1>3. ReadType' /\ CloseType' /\ result' \in [EP -> Results]
  BY DEF Core, ReadType, CloseType
<1>4. DeliveredInv' /\ EofInv'
  BY DeliveredFrame, EofFrame DEF Core
<1>5. DrainedInv'
  <2> SUFFICES ASSUME NEW f \in EP, result[f] = "running", ~write_rx'[f], ~send_finish_sent'[f]
               PROVE  ~sender_alive[f] /\ deq[f] = Len(user_data[f])
    BY <1>2 DEF DrainedInv
  <2>1. CASE f = e
    BY <1>2, <2>1
  <2>2. CASE f # e
    <3>1. send_finish_sent'[f] = send_finish_sent[f]
      BY <2>2 DEF Core, CloseType
    <3> QED
      BY <1>2, <2>2, <3>1 DEF Core, DrainedInv
  <2> QED
    BY <2>1, <2>2
<1>6. CASE UNCHANGED <<txVars, linkVars, send_finish_sent>>
  <2>1. FinishInv'
    BY <1>2, <1>6 DEF Core, FinishInv, DataSeqs, IsData, txVars
  <2> QED
    BY <1>3, <1>4, <1>5, <1>6, <2>1, CloseOnly DEF Core
<1>7. CASE \E l \in Links : CanSubmit(e, l) /\ SendReliableOverLink(e, l, m)
  <2>1. SendsInOrder(e, m)
    BY <1>1, <1>2 DEF SendsInOrder
  <2>2. /\ UserType' /\ RxType' /\ TxType' /\ LinkType' /\ LinkInv' /\ RxInv' /\ LogInv'
        /\ ConsumeInv' /\ FinishInv' /\ AckedReceived'
    BY <1>1, <1>2, <1>7, <2>1, SendsCore
  <2> QED
    BY <1>3, <1>4, <1>5, <2>2 DEF Core
<1> QED
  BY <1>6, <1>7

\* ReadDropped preserves the invariant.
LEMMA ReadDroppedCore ==
  ASSUME Core, NEW e \in EP, ReadDropped(e)
  PROVE  Core'
<1> USE DEF ReadDropped, userVars, readVars, rxVars
<1> DEFINE m == Ctrl("ReceiveFinish")
<1>1. m \in ReliableMsg /\ m.kind = "ReceiveFinish"
  BY CtrlMsg DEF Kinds
<1>2. deq' = deq
  BY DEF txVars
<1>3. ReadType' /\ CloseType' /\ result' \in [EP -> Results]
  BY DEF Core, ReadType, CloseType
<1>4. DrainedInv' /\ EofInv'
  BY <1>2, DrainedFrame, EofFrame DEF Core
<1>5. DeliveredInv'
  <2>1. \A f \in EP : (read_tx'[f] => read_tx[f]) /\ (f # e => read_tx'[f] = read_tx[f])
    BY DEF Core, CloseType
  <2> QED
    BY <2>1 DEF Core, DeliveredInv
<1>6. CASE UNCHANGED <<txVars, linkVars, receive_finish_sent>>
  <2>1. FinishInv'
    BY <1>6, FinishFrame DEF Core, txVars
  <2> QED
    BY <1>3, <1>4, <1>5, <1>6, <2>1, CloseOnly DEF Core
<1>7. CASE \E l \in Links : CanSubmit(e, l) /\ SendReliableOverLink(e, l, m)
  <2>1. SendsInOrder(e, m)
    BY <1>1, <1>2 DEF SendsInOrder
  <2>2. /\ UserType' /\ RxType' /\ TxType' /\ LinkType' /\ LinkInv' /\ RxInv' /\ LogInv'
        /\ ConsumeInv' /\ FinishInv' /\ AckedReceived'
    BY <1>1, <1>7, <2>1, SendsCore
  <2> QED
    BY <1>3, <1>4, <1>5, <2>2 DEF Core
<1> QED
  BY <1>6, <1>7

\* ReadClosed preserves the invariant.
LEMMA ReadClosedCore ==
  ASSUME Core, NEW e \in EP, ReadClosed(e)
  PROVE  Core'
<1> USE DEF ReadClosed, userVars, readVars, rxVars
<1> DEFINE m == Ctrl("ReceiveClose")
<1>1. m \in ReliableMsg /\ m.kind = "ReceiveClose"
  BY CtrlMsg DEF Kinds
<1>2. deq' = deq
  BY DEF txVars
<1>3. ReadType' /\ CloseType' /\ result' \in [EP -> Results]
  BY DEF Core, ReadType, CloseType
<1>4. DrainedInv' /\ EofInv' /\ DeliveredInv'
  BY <1>2, DrainedFrame, EofFrame, DeliveredFrame DEF Core
<1>5. CASE UNCHANGED <<txVars, linkVars, receive_close_sent>>
  <2>1. FinishInv'
    BY <1>5, FinishFrame DEF Core, txVars
  <2> QED
    BY <1>3, <1>4, <1>5, <2>1, CloseOnly DEF Core
<1>6. CASE \E l \in Links : CanSubmit(e, l) /\ SendReliableOverLink(e, l, m)
  <2>1. SendsInOrder(e, m)
    BY <1>1, <1>2 DEF SendsInOrder
  <2>2. /\ UserType' /\ RxType' /\ TxType' /\ LinkType' /\ LinkInv' /\ RxInv' /\ LogInv'
        /\ ConsumeInv' /\ FinishInv' /\ AckedReceived'
    BY <1>1, <1>6, <2>1, SendsCore
  <2> QED
    BY <1>3, <1>4, <2>2 DEF Core
<1> QED
  BY <1>5, <1>6

(***************************************************************************)
(* Steps that change packets, the resend queue and links.                  *)
(***************************************************************************)
LEMMA PacketsOnly ==
  ASSUME Core, UNCHANGED <<userVars, readVars, closeVars, rxVars, result, deq, log, tx_seq>>,
         TxType', LinkType', ChannelsOK, AckQueuesOK, AckedReceived'
  PROVE  Core'
<1> USE DEF userVars, readVars, closeVars, rxVars
<1>1. UserType' /\ ReadType' /\ CloseType' /\ RxType' /\ result' \in [EP -> Results]
  BY DEF Core, UserType, ReadType, CloseType, RxType
<1>2. Grows
  BY GrowsFrame DEF Core
<1>3. LinkInv'
  BY <1>2, LinkInvStep DEF Core
<1>4. RxInv' /\ LogInv' /\ ConsumeInv'
  BY RxFrame, LogFrame, ConsumeFrame DEF Core
<1>5. DeliveredInv' /\ DrainedInv' /\ FinishInv' /\ EofInv'
  BY DeliveredFrame, DrainedFrame, FinishFrame, EofFrame DEF Core
<1> QED
  BY <1>1, <1>3, <1>4, <1>5 DEF Core

\* The types of the packets survive when those of one endpoint are replaced.
LEMMA PacketsType ==
  ASSUME TxType, NEW e \in EP, NEW pkts, NEW q,
         DOMAIN pkts \subseteq DOMAIN txed_packets[e], pkts \in [DOMAIN pkts -> Status],
         q \subseteq 0 .. (tx_seq[e] - 1),
         txed_packets' = [txed_packets EXCEPT ![e] = pkts],
         resend_queue' = [resend_queue EXCEPT ![e] = q],
         txed_unacked' \in [EP -> Int], UNCHANGED <<deq, log, tx_seq, txed_unconsumed>>
  PROVE  TxType'
<1>1. \A f \in EP : /\ DOMAIN txed_packets'[f] \subseteq 0 .. (tx_seq[f] - 1)
                    /\ txed_packets'[f] \in [DOMAIN txed_packets'[f] -> Status]
  <2> SUFFICES ASSUME NEW f \in EP
               PROVE  /\ DOMAIN txed_packets'[f] \subseteq 0 .. (tx_seq[f] - 1)
                      /\ txed_packets'[f] \in [DOMAIN txed_packets'[f] -> Status]
    OBVIOUS
  <2>0. DOMAIN txed_packets[f] \subseteq 0 .. (tx_seq[f] - 1)
    BY DEF TxType
  <2>1. CASE f = e
    <3>1. txed_packets'[f] = pkts
      BY <2>1 DEF TxType
    <3> QED
      BY <2>0, <2>1, <3>1
  <2>2. CASE f # e
    <3>1. txed_packets'[f] = txed_packets[f]
      BY <2>2 DEF TxType
    <3> QED
      BY <2>0, <3>1 DEF TxType
  <2> QED
    BY <2>1, <2>2
<1>2. \A f \in EP : resend_queue'[f] \subseteq 0 .. (tx_seq[f] - 1)
  BY DEF TxType
<1>3. DOMAIN txed_packets' = EP /\ DOMAIN resend_queue' = EP
  BY DEF TxType
<1> QED
  BY <1>1, <1>2, <1>3 DEF TxType

\* AckedReceived survives when only packets the peer has are newly released.
LEMMA PacketsAcked ==
  ASSUME TxType, AckedReceived, NEW e \in EP, NEW pkts,
         txed_packets' = [txed_packets EXCEPT ![e] = pkts],
         UNCHANGED <<tx_seq, rx_seq, rxed_reliable>>,
         \A s \in DOMAIN txed_packets[e] : txed_packets[e][s].st # "Received" =>
           \/ s \in DOMAIN pkts /\ pkts[s].st # "Received"
           \/ Got(Peer[e], s)
  PROVE  AckedReceived'
<1> SUFFICES ASSUME NEW f \in EP, NEW s \in 0 .. (tx_seq[f] - 1),
                    s \in DOMAIN txed_packets'[f] => txed_packets'[f][s].st = "Received"
             PROVE  Got(Peer[f], s)
  BY DEF AckedReceived, Got
<1>1. CASE f # e
  <2>1. txed_packets'[f] = txed_packets[f]
    BY <1>1 DEF TxType
  <2> QED
    BY <2>1 DEF AckedReceived
<1>2. CASE f = e
  <2>1. txed_packets'[f] = pkts
    BY <1>2 DEF TxType
  <2>2. CASE s \in DOMAIN txed_packets[e] => txed_packets[e][s].st = "Received"
    BY <1>2, <2>2 DEF AckedReceived
  <2>3. CASE s \in DOMAIN txed_packets[e] /\ txed_packets[e][s].st # "Received"
    BY <1>2, <2>1, <2>3
  <2> QED
    BY <2>2, <2>3
<1> QED
  BY <1>1, <1>2

\* Resend preserves the invariant: the packet keeps its number.
LEMMA ResendCore ==
  ASSUME Core, NEW e \in EP, NEW l \in Links, Resend(e, l)
  PROVE  Core'
<1>1. PICK s \in resend_queue[e] :
        /\ resend_queue' = [resend_queue EXCEPT ![e] = resend_queue[e] \ {s}]
        /\ txed_packets' = [txed_packets EXCEPT ![e] =
             [txed_packets[e] EXCEPT ![s] = [st |-> "Sent", link |-> l]]]
        /\ NoteOutstanding(e, l, s, log[e][s])
        /\ Push(e, l, Reliable(s))
  BY DEF Resend
<1>2. s \in 0 .. (tx_seq[e] - 1) /\ tx_seq[e] \in Nat
  BY DEF Core, TxType
<1>3. s \in Nat /\ s < tx_seq[e] /\ Reliable(s) \in LinkMsg
  BY <1>2 DEF Reliable, LinkMsg
<1> DEFINE pkts == [txed_packets[e] EXCEPT ![s] = [st |-> "Sent", link |-> l]]
<1>4. DOMAIN pkts = DOMAIN txed_packets[e] /\ [st |-> "Sent", link |-> l] \in Status
  BY DEF Status
<1>5. pkts \in [DOMAIN pkts -> Status]
  BY <1>4 DEF Core, TxType
<1>6. \A t \in DOMAIN txed_packets[e] : txed_packets[e][t].st # "Received" => pkts[t].st # "Received"
  OBVIOUS
<1>7. TxType'
  <2>1. resend_queue[e] \ {s} \subseteq 0 .. (tx_seq[e] - 1)
    BY DEF Core, TxType
  <2>2. TxType /\ txed_unacked' \in [EP -> Int] /\ UNCHANGED <<deq, log, tx_seq, txed_unconsumed>>
    BY DEF Core, TxType, Resend
  <2> HIDE DEF pkts
  <2> QED
    BY <1>1, <1>4, <1>5, <2>1, <2>2, PacketsType DEF pkts
<1>8. AckedReceived'
  <2>1. TxType /\ AckedReceived /\ UNCHANGED <<tx_seq, rx_seq, rxed_reliable>>
    BY DEF Core, Resend, rxVars
  <2> QED
    BY <1>1, <1>4, <1>6, <2>1, PacketsAcked
<1>9. LinkType'
  BY <1>1, <1>3, PushType, NoteOutstandingType DEF Core, LinkType, Resend
<1>10. AckQueuesOK
  BY DEF AckQueuesOK, Resend
<1>11. ChannelsOK
  <2>1. \A f \in EP, k \in Links : \A i \in 1 .. Len(chan'[f][k]) :
           \/ i \in 1 .. Len(chan[f][k]) /\ chan'[f][k][i] = chan[f][k][i]
           \/ f = e /\ k = l /\ chan'[f][k][i] = Reliable(s)
    BY <1>1, <1>3, PushElements DEF Core
  <2>2. tx_seq' = tx_seq
    BY DEF Resend
  <2> QED
    BY <1>3, <2>1, <2>2 DEF ChannelsOK
<1> QED
  BY <1>7, <1>8, <1>9, <1>10, <1>11, PacketsOnly DEF Resend

\* What unconfirm_link does, whatever becomes of the link itself.
LEMMA UnconfirmCore ==
  ASSUME Core, NEW e \in EP, NEW l \in Links, Unconfirm(e, l),
         LinkType', ChannelsOK, AckQueuesOK
  PROVE  Core'
<1> DEFINE pkts == [s \in DOMAIN txed_packets[e] |->
       IF s \in SentOver(e, l) THEN [st |-> "ResendQueued", link |-> l] ELSE txed_packets[e][s]]
<1>1. /\ txed_packets' = [txed_packets EXCEPT ![e] = pkts]
      /\ resend_queue' = [resend_queue EXCEPT ![e] = resend_queue[e] \cup SentOver(e, l)]
  BY DEF Unconfirm
<1>2. [st |-> "ResendQueued", link |-> l] \in Status
  BY DEF Status
<1>3. DOMAIN pkts = DOMAIN txed_packets[e] /\ pkts \in [DOMAIN pkts -> Status]
  BY <1>2 DEF Core, TxType
<1>4. \A t \in DOMAIN txed_packets[e] : txed_packets[e][t].st # "Received" => pkts[t].st # "Received"
  OBVIOUS
<1>5. resend_queue[e] \cup SentOver(e, l) \subseteq 0 .. (tx_seq[e] - 1)
  BY DEF Core, TxType, SentOver
<1>6. /\ TxType /\ AckedReceived /\ txed_unacked' \in [EP -> Int]
      /\ UNCHANGED <<deq, log, tx_seq, txed_unconsumed, rx_seq, rxed_reliable>>
  BY DEF Core, TxType, Unconfirm, rxVars
<1> HIDE DEF pkts
<1>7. TxType'
  BY <1>1, <1>3, <1>5, <1>6, PacketsType
<1>8. AckedReceived'
  <2>1. \A s \in DOMAIN txed_packets[e] : txed_packets[e][s].st # "Received" =>
          \/ s \in DOMAIN pkts /\ pkts[s].st # "Received"
          \/ Got(Peer[e], s)
    BY <1>3, <1>4
  <2> QED
    BY <1>1, <1>6, <2>1, PacketsAcked
<1> QED
  BY <1>7, <1>8, PacketsOnly DEF Unconfirm

\* Unconfirming a link preserves the invariant.
LEMMA UnconfirmLinkCore ==
  ASSUME Core, NEW e \in EP, NEW l \in Links, UnconfirmLink(e, l)
  PROVE  Core'
<1>1. LinkType'
  BY DEF Core, LinkType, UnconfirmLink, Unconfirm, Fault, LinkStates
<1>2. ChannelsOK /\ AckQueuesOK
  BY DEF ChannelsOK, AckQueuesOK, UnconfirmLink
<1> QED
  BY <1>1, <1>2, UnconfirmCore DEF UnconfirmLink

\* DisconnectLink preserves the invariant.
LEMMA DisconnectLinkCore ==
  ASSUME Core, NEW e \in EP, NEW l \in Links, DisconnectLink(e, l)
  PROVE  Core'
<1>1. LinkType'
  BY DEF Core, LinkType, DisconnectLink, Unconfirm, Fault, LinkStates
<1>2. ChannelsOK /\ AckQueuesOK
  BY DEF ChannelsOK, AckQueuesOK, DisconnectLink
<1> QED
  BY <1>1, <1>2, UnconfirmCore DEF DisconnectLink

\* RemoveLink preserves the invariant: what the link loses stays in txed_packets.
LEMMA RemoveLinkCore ==
  ASSUME Core, NEW e \in EP, NEW l \in Links, RemoveLink(e, l)
  PROVE  Core'
<1>0. /\ tx_ack_queue' = [tx_ack_queue EXCEPT ![e][l] = <<>>]
      /\ chan' = [chan EXCEPT ![Peer[e]][l] = <<>>]
      /\ link_state' = [link_state EXCEPT ![e][l] = "gone"]
      /\ UNCHANGED <<link_rx, outstanding>>
      /\ faults' \in Nat /\ LinkType
  BY DEF RemoveLink, Unconfirm, Fault, Core, LinkType
<1>1. <<>> \in Seq(Nat) /\ <<>> \in Seq(LinkMsg) /\ Peer[e] \in EP
  BY PeerFacts
<1>2. LinkType'
  <2>1. tx_ack_queue' \in [EP -> [Links -> Seq(Nat)]]
    BY <1>0, <1>1 DEF LinkType
  <2>2. chan' \in [EP -> [Links -> Seq(LinkMsg)]]
    BY <1>0, <1>1 DEF LinkType
  <2> QED
    BY <1>0, <2>1, <2>2 DEF LinkType, LinkStates
<1>3. ChannelsOK
  <2> SUFFICES ASSUME NEW f \in EP, NEW k \in Links, NEW i \in 1 .. Len(chan'[f][k])
               PROVE  \E j \in 1 .. Len(chan[f][k]) : chan'[f][k][i] = chan[f][k][j]
    BY DEF ChannelsOK
  <2>1. CASE f = Peer[e] /\ k = l
    <3>1. chan'[f][k] = <<>>
      BY <1>0, <1>1, <2>1 DEF LinkType
    <3> QED
      BY <3>1
  <2>2. CASE ~(f = Peer[e] /\ k = l)
    <3>1. chan'[f][k] = chan[f][k]
      BY <1>0, <1>1, <2>2 DEF LinkType
    <3> QED
      BY <3>1
  <2> QED
    BY <2>1, <2>2
<1>4. AckQueuesOK
  <2> SUFFICES ASSUME NEW f \in EP, NEW k \in Links, NEW i \in 1 .. Len(tx_ack_queue'[f][k])
               PROVE  \E j \in 1 .. Len(tx_ack_queue[f][k]) :
                        tx_ack_queue'[f][k][i] = tx_ack_queue[f][k][j]
    BY DEF AckQueuesOK
  <2>1. CASE f = e /\ k = l
    <3>1. tx_ack_queue'[f][k] = <<>>
      BY <1>0, <2>1 DEF LinkType
    <3> QED
      BY <3>1
  <2>2. CASE ~(f = e /\ k = l)
    <3>1. tx_ack_queue'[f][k] = tx_ack_queue[f][k]
      BY <1>0, <2>2 DEF LinkType
    <3> QED
      BY <3>1
  <2> QED
    BY <2>1, <2>2
<1> QED
  BY <1>2, <1>3, <1>4, UnconfirmCore DEF RemoveLink

(***************************************************************************)
(* Leaving the main loop.                                                  *)
(***************************************************************************)
LEMMA ExitCore ==
  ASSUME Core, NEW e \in EP, NEW r \in Results \ {"running"}, Exit(e, r)
  PROVE  Core'
<1> USE DEF userVars, readVars, txVars, rxVars
<1>0. Peer[e] \in EP
  BY PeerFacts
<1>1. UserType' /\ ReadType' /\ TxType' /\ RxType'
  BY DEF Core, Exit, UserType, ReadType, TxType, RxType
<1>2. CloseType' /\ result' \in [EP -> Results]
  BY DEF Core, Exit, CloseType
<1>3. LinkType'
  <2>1. [l \in Links |-> <<>>] \in [Links -> Seq(Nat)] /\ [l \in Links |-> <<>>] \in [Links -> Seq(LinkMsg)]
    OBVIOUS
  <2>2. [l \in Links |-> "gone"] \in [Links -> LinkStates]
    BY DEF LinkStates
  <2> QED
    BY <1>0, <2>1, <2>2 DEF Core, Exit, DropLinks, LinkType
<1>4. Grows
  BY GrowsFrame DEF Core, Exit
<1>5. ChannelsOK
  <2> SUFFICES ASSUME NEW f \in EP, NEW k \in Links, NEW i \in 1 .. Len(chan'[f][k])
               PROVE  \E j \in 1 .. Len(chan[f][k]) : chan'[f][k][i] = chan[f][k][j]
    BY DEF ChannelsOK
  <2>1. chan'[f][k] = <<>> \/ chan'[f][k] = chan[f][k]
    BY <1>0 DEF Core, LinkType, Exit
  <2> QED
    BY <2>1
<1>6. AckQueuesOK
  <2> SUFFICES ASSUME NEW f \in EP, NEW k \in Links, NEW i \in 1 .. Len(tx_ack_queue'[f][k])
               PROVE  \E j \in 1 .. Len(tx_ack_queue[f][k]) :
                        tx_ack_queue'[f][k][i] = tx_ack_queue[f][k][j]
    BY DEF AckQueuesOK
  <2>1. tx_ack_queue'[f][k] = <<>> \/ tx_ack_queue'[f][k] = tx_ack_queue[f][k]
    BY DEF Core, LinkType, Exit, DropLinks
  <2> QED
    BY <2>1
<1>7. LinkInv'
  BY <1>1, <1>4, <1>5, <1>6, LinkInvStep DEF Core
<1>8. RxInv' /\ LogInv' /\ ConsumeInv' /\ EofInv' /\ AckedReceived'
  BY RxFrame, LogFrame, ConsumeFrame, EofFrame, AckedFrame DEF Core, Exit
<1>9. \A f \in EP : /\ read_tx'[f] => read_tx[f]
                    /\ write_rx'[f] => write_rx[f]
                    /\ f # e => /\ result'[f] = result[f] /\ read_tx'[f] = read_tx[f]
                                /\ write_rx'[f] = write_rx[f]
  BY DEF Core, CloseType, Exit
<1>10. result'[e] = r /\ r # "running"
  BY DEF Core, Exit
<1>11. DeliveredInv'
  BY <1>9, <1>10 DEF Core, DeliveredInv, Exit
<1>12. DrainedInv'
  BY <1>9, <1>10 DEF Core, DrainedInv, Exit
<1>13. FinishInv'
  BY <1>9 DEF Core, FinishInv, DataSeqs, IsData, Exit
<1> QED
  BY <1>1, <1>2, <1>3, <1>7, <1>8, <1>11, <1>12, <1>13 DEF Core

\* The four ways to leave the main loop preserve the invariant.
LEMMA ExitsCore ==
  ASSUME Core, NEW e \in EP,
         \/ Finish(e) \/ FinishTimeout(e) \/ AllLinksFailed(e) \/ NoLinksTimeout(e)
         \/ \E l \in Links : ReceiveInvalid(e, l)
  PROVE  Core'
<1>1. \E r \in Results \ {"running"} : Exit(e, r)
  BY DEF Finish, FinishTimeout, AllLinksFailed, NoLinksTimeout, ReceiveInvalid, Results
<1> QED
  BY <1>1, ExitCore

(***************************************************************************)
(* Receiving.                                                              *)
(***************************************************************************)
\* The message at the head of a channel satisfies LinkInv, and taking it off
\* leaves messages that were there.
LEMMA PopFacts ==
  ASSUME Core, NEW e \in EP, NEW l \in Links, Incoming(e, l), Pop(e, l)
  PROVE  LET msg == Head(chan[Peer[e]][l]) IN
         /\ msg \in LinkMsg
         /\ msg.type = "Ack" => Got(Peer[e], msg.seq)
         /\ msg.type = "Reliable" => msg.seq < tx_seq[Peer[e]]
         /\ chan' \in [EP -> [Links -> Seq(LinkMsg)]]
         /\ ChannelsOK
<1> DEFINE p == Peer[e]
           q == chan[p][l]
<1>0. p \in EP
  BY PeerFacts
<1>1. q \in Seq(LinkMsg) /\ q # <<>>
  BY <1>0 DEF Core, LinkType, Incoming
<1>2. Head(q) \in LinkMsg /\ Tail(q) \in Seq(LinkMsg) /\ 1 \in 1 .. Len(q) /\ Head(q) = q[1]
  BY <1>1
<1>3. IF Head(q).type = "Ack" THEN Got(p, Head(q).seq) ELSE Head(q).seq < tx_seq[p]
  BY <1>0, <1>2 DEF Core, LinkInv
<1>4. chan' = [chan EXCEPT ![p][l] = Tail(q)]
  BY DEF Pop
<1>5. chan' \in [EP -> [Links -> Seq(LinkMsg)]]
  BY <1>2, <1>4 DEF Core, LinkType
<1>6. ChannelsOK
  <2> SUFFICES ASSUME NEW f \in EP, NEW k \in Links, NEW i \in 1 .. Len(chan'[f][k])
               PROVE  \E j \in 1 .. Len(chan[f][k]) : chan'[f][k][i] = chan[f][k][j]
    BY DEF ChannelsOK
  <2>1. CASE f = p /\ k = l
    <3>1. chan'[f][k] = Tail(q)
      BY <1>0, <1>4, <2>1 DEF Core, LinkType
    <3>2. i \in 1 .. Len(Tail(q)) /\ Tail(q)[i] = q[i + 1] /\ i + 1 \in 1 .. Len(q)
      BY <1>1, <3>1
    <3> QED
      BY <2>1, <3>1, <3>2
  <2>2. CASE ~(f = p /\ k = l)
    <3>1. chan'[f][k] = chan[f][k]
      BY <1>0, <1>4, <2>2 DEF Core, LinkType
    <3> QED
      BY <3>1
  <2> QED
    BY <2>1, <2>2
<1> QED
  BY <1>2, <1>3, <1>5, <1>6

\* The ack of a received message is queued.
LEMMA QueueAck ==
  ASSUME Core, NEW e \in EP, NEW l \in Links, NEW s \in Nat, Got(e, s)',
         tx_ack_queue' = [tx_ack_queue EXCEPT ![e][l] = Append(tx_ack_queue[e][l], s)]
  PROVE  AckQueuesOK /\ tx_ack_queue' \in [EP -> [Links -> Seq(Nat)]]
<1> DEFINE q == tx_ack_queue[e][l]
<1>1. q \in Seq(Nat) /\ Append(q, s) \in Seq(Nat)
  BY DEF Core, LinkType
<1>2. tx_ack_queue' \in [EP -> [Links -> Seq(Nat)]]
  BY <1>1 DEF Core, LinkType
<1>3. AckQueuesOK
  <2> SUFFICES ASSUME NEW f \in EP, NEW k \in Links, NEW i \in 1 .. Len(tx_ack_queue'[f][k])
               PROVE  \/ \E j \in 1 .. Len(tx_ack_queue[f][k]) :
                           tx_ack_queue'[f][k][i] = tx_ack_queue[f][k][j]
                      \/ tx_ack_queue'[f][k][i] = s /\ f = e
    BY DEF AckQueuesOK
  <2>1. CASE f = e /\ k = l
    <3>1. tx_ack_queue'[f][k] = Append(q, s)
      BY <2>1 DEF Core, LinkType
    <3>2. (i \in 1 .. Len(q) /\ Append(q, s)[i] = q[i]) \/ Append(q, s)[i] = s
      <4>1. Len(q) \in Nat /\ Len(Append(q, s)) = Len(q) + 1
        BY <1>1
      <4>2. i \in 1 .. Len(q) \/ i = Len(q) + 1
        BY <3>1, <4>1
      <4> QED
        BY <1>1, <4>2
    <3> QED
      BY <2>1, <3>1, <3>2
  <2>2. CASE ~(f = e /\ k = l)
    <3>1. tx_ack_queue'[f][k] = tx_ack_queue[f][k]
      BY <2>2 DEF Core, LinkType
    <3> QED
      BY <3>1
  <2> QED
    BY <2>1, <2>2
<1> QED
  BY <1>2, <1>3

\* ReceiveDuplicate preserves the invariant: it acks what was received.
LEMMA ReceiveDuplicateCore ==
  ASSUME Core, NEW e \in EP, NEW l \in Links, ReceiveDuplicate(e, l)
  PROVE  Core'
<1> DEFINE msg == Head(chan[Peer[e]][l])
<1>1. msg \in LinkMsg /\ ChannelsOK /\ chan' \in [EP -> [Links -> Seq(LinkMsg)]]
  BY PopFacts DEF ReceiveDuplicate
<1>2. PICK s \in Nat : s = msg.seq
  BY <1>1 DEF LinkMsg
<1>3. Got(e, s)'
  BY <1>2 DEF ReceiveDuplicate, Duplicate, Got, rxVars
<1>4. tx_ack_queue' = [tx_ack_queue EXCEPT ![e][l] = Append(tx_ack_queue[e][l], s)]
  BY <1>2 DEF ReceiveDuplicate
<1>5. AckQueuesOK /\ tx_ack_queue' \in [EP -> [Links -> Seq(Nat)]]
  BY <1>3, <1>4, QueueAck
<1>6. LinkType'
  BY <1>1, <1>5 DEF Core, LinkType, ReceiveDuplicate
<1> QED
  BY <1>1, <1>5, <1>6, LinkOnly DEF ReceiveDuplicate

\* ReceiveAck preserves the invariant: the released packet was received.
LEMMA ReceiveAckCore ==
  ASSUME Core, NEW e \in EP, NEW l \in Links, ReceiveAck(e, l)
  PROVE  Core'
<1> DEFINE msg == Head(chan[Peer[e]][l])
<1>1. /\ msg \in LinkMsg /\ ChannelsOK /\ chan' \in [EP -> [Links -> Seq(LinkMsg)]]
      /\ Got(Peer[e], msg.seq)
  BY PopFacts DEF ReceiveAck
<1>2. PICK s \in Nat : s = msg.seq
  BY <1>1 DEF LinkMsg
<1>3. LinkType'
  <2>1. outstanding' \in [EP -> [Links -> Int]]
    <3>1. \/ outstanding' = outstanding
          \/ outstanding' = [outstanding EXCEPT ![e][l] = -1]
      BY DEF ReceiveAck
    <3>2. outstanding \in [EP -> [Links -> Int]]
      BY DEF Core, LinkType
    <3>3. -1 \in Int
      OBVIOUS
    <3> QED
      BY <3>1, <3>2, <3>3
  <2>2. UNCHANGED <<link_rx, link_state, tx_ack_queue, faults>>
    BY DEF ReceiveAck
  <2> QED
    BY <1>1, <2>1, <2>2 DEF Core, LinkType
<1>4. AckQueuesOK
  BY DEF AckQueuesOK, ReceiveAck
<1>5. CASE ~Acked(e, l, s)
  <2>1. UNCHANGED <<userVars, readVars, closeVars, txVars, rxVars, result>>
    BY <1>2, <1>5 DEF ReceiveAck, txVars
  <2> QED
    BY <1>1, <1>3, <1>4, <2>1, LinkOnly
<1>6. CASE Acked(e, l, s)
  <2> DEFINE got == [txed_packets[e] EXCEPT ![s] = [st |-> "Received", link |-> l]]
             pkts == Swiped(got)
  <2>1. /\ txed_packets' = [txed_packets EXCEPT ![e] = pkts]
        /\ resend_queue' = [resend_queue EXCEPT ![e] = resend_queue[e] \ {s}]
        /\ txed_unacked' = [txed_unacked EXCEPT ![e] = txed_unacked[e] - Size(log[e][s])]
    BY <1>2, <1>6 DEF ReceiveAck
  <2>2. DOMAIN txed_packets[e] \subseteq Nat /\ txed_packets[e] \in [DOMAIN txed_packets[e] -> Status]
        /\ s \in 0 .. (tx_seq[e] - 1)
    BY <1>6 DEF Core, TxType, Acked
  <2>3. DOMAIN got = DOMAIN txed_packets[e] /\ got \in [DOMAIN txed_packets[e] -> Status]
        /\ \A t \in DOMAIN txed_packets[e] : t # s => got[t] = txed_packets[e][t]
    BY <2>2 DEF Status
  <2>4. DOMAIN pkts \subseteq DOMAIN txed_packets[e] /\ \A t \in DOMAIN pkts : pkts[t] = got[t]
    BY <2>3 DEF Swiped
  <2>5. pkts \in [DOMAIN pkts -> Status]
    BY <2>3, <2>4 DEF Swiped
  <2>6. \A t \in DOMAIN txed_packets[e] : got[t].st # "Received" => t \in DOMAIN pkts
    BY <2>2, <2>3 DEF Swiped
  <2>7. \A t \in DOMAIN txed_packets[e] : txed_packets[e][t].st # "Received" =>
          \/ t \in DOMAIN pkts /\ pkts[t].st # "Received"
          \/ Got(Peer[e], t)
    BY <1>1, <1>2, <2>3, <2>4, <2>6
  <2>8. Size(log[e][s]) \in Nat
    BY <2>2 DEF Core, TxType, Size, ReliableMsg
  <2>9. txed_unacked' \in [EP -> Int]
    BY <2>1, <2>8 DEF Core, TxType
  <2>10. /\ TxType /\ AckedReceived
         /\ UNCHANGED <<deq, log, tx_seq, txed_unconsumed, rx_seq, rxed_reliable>>
    BY DEF Core, ReceiveAck, rxVars
  <2>11. resend_queue[e] \ {s} \subseteq 0 .. (tx_seq[e] - 1)
    BY DEF Core, TxType
  <2> HIDE DEF pkts
  <2>12. TxType'
    BY <2>1, <2>4, <2>5, <2>9, <2>10, <2>11, PacketsType
  <2>13. AckedReceived'
    BY <2>1, <2>7, <2>10, PacketsAcked
  <2> QED
    BY <1>1, <1>3, <1>4, <2>12, <2>13, PacketsOnly DEF ReceiveAck
<1> QED
  BY <1>5, <1>6

\* Data messages of the peer have consecutive ids in the order of their numbers.
LEMMA DataFacts ==
  ASSUME TxType, NEW f \in EP, NEW t \in DataSeqs(f)
  PROVE  /\ t \in Nat /\ t \in 0 .. (tx_seq[f] - 1)
         /\ log[f][t] \in ReliableMsg /\ log[f][t].kind = "Data" /\ log[f][t].id \in Nat
<1>1. t \in 0 .. (tx_seq[f] - 1) /\ log[f][t].kind = "Data"
  BY DEF DataSeqs, IsData
<1>2. t \in Nat /\ log[f][t] \in ReliableMsg
  BY <1>1 DEF TxType
<1> QED
  BY <1>1, <1>2 DEF ReliableMsg

\* ReceiveNew preserves the invariant: rx_seq moves to the first gap.
LEMMA ReceiveNewCore ==
  ASSUME Core, NEW e \in EP, NEW l \in Links, ReceiveNew(e, l)
  PROVE  Core'
<1> DEFINE p == Peer[e]
           msg == Head(chan[p][l])
<1>1. /\ msg \in LinkMsg /\ ChannelsOK /\ chan' \in [EP -> [Links -> Seq(LinkMsg)]]
      /\ msg.seq < tx_seq[p]
  BY PopFacts DEF ReceiveNew
<1>2. PICK s \in Nat : s = msg.seq
  BY <1>1 DEF LinkMsg
<1> DEFINE m == log[p][s]
           filled == rxed_reliable[e] \cup {s}
<1>3. PICK n \in rx_seq[e] .. tx_seq[p] :
        /\ n \notin filled /\ rx_seq[e] .. (n - 1) \subseteq filled
        /\ rx_seq' = [rx_seq EXCEPT ![e] = n]
        /\ rxed_reliable' = [rxed_reliable EXCEPT ![e] = {t \in filled : t > n}]
        /\ consumable' = [consumable EXCEPT ![e] = consumable[e] \cup
             {t \in rx_seq[e] .. (n - 1) : log[p][t].kind \in {"Data", "SendFinish"}}]
  BY <1>2 DEF ReceiveNew
<1>4. /\ p \in EP /\ p # e /\ \A f \in EP : f = e \/ f = p
      /\ Peer[p] = e
  BY PeerFacts
<1>5. /\ rx_seq[e] \in Nat /\ rxed_reliable[e] \subseteq Nat /\ consumable[e] \subseteq Nat
      /\ tx_seq[p] \in Nat /\ n \in Nat /\ s < tx_seq[p] /\ rx_seq[e] <= n /\ n <= tx_seq[p]
  <2>1. rx_seq[e] \in Nat /\ rxed_reliable[e] \subseteq Nat /\ consumable[e] \subseteq Nat
    BY DEF Core, RxType
  <2>2. tx_seq[p] \in Nat
    BY <1>4 DEF Core, TxType
  <2>3. n \in Nat /\ rx_seq[e] <= n /\ n <= tx_seq[p]
    BY <1>3, <2>1, <2>2
  <2> QED
    BY <1>1, <1>2, <2>1, <2>2, <2>3
<1>6. m \in ReliableMsg
  <2>1. log[p] \in [0 .. (tx_seq[p] - 1) -> ReliableMsg]
    BY <1>4 DEF Core, TxType
  <2>2. s \in 0 .. (tx_seq[p] - 1)
    BY <1>5
  <2> QED
    BY <2>1, <2>2
<1>7. UserType' /\ ReadType' /\ CloseType' /\ result' \in [EP -> Results]
  <2>1. Size(m) \in Nat
    BY <1>6 DEF Size, ReliableMsg
  <2>2. UserType' /\ result' \in [EP -> Results]
    BY DEF ReceiveNew, Core, UserType, userVars
  <2>3. ReadType'
    <3>1. rxed_reliable_size' = [rxed_reliable_size EXCEPT ![e] = rxed_reliable_size[e] + Size(m)]
      BY <1>2 DEF ReceiveNew
    <3>2. rxed_reliable_size' \in [EP -> Int]
      BY <2>1, <3>1 DEF Core, ReadType
    <3> QED
      BY <3>2 DEF ReceiveNew, Core, ReadType
  <2>4. CloseType'
    BY <1>2 DEF ReceiveNew, Core, CloseType
  <2> QED
    BY <2>2, <2>3, <2>4
<1>8. RxType'
  BY <1>3, <1>5 DEF Core, RxType
<1>9. TxType'
  <2>1. PICK k \in Nat : k = m.len
    BY <1>6 DEF ReliableMsg
  <2>2. txed_unconsumed' \in [EP -> Int]
    <3>1. \/ txed_unconsumed' = txed_unconsumed
          \/ txed_unconsumed' = [txed_unconsumed EXCEPT ![e] = txed_unconsumed[e] - k]
      BY <1>2, <2>1 DEF ReceiveNew
    <3>2. txed_unconsumed \in [EP -> Int]
      BY DEF Core, TxType
    <3> QED
      BY <3>1, <3>2
  <2> QED
    BY <2>2 DEF ReceiveNew, Core, TxType
<1>10. /\ rx_seq'[e] = n /\ rx_seq'[p] = rx_seq[p]
       /\ rxed_reliable'[e] = {t \in filled : t > n} /\ rxed_reliable'[p] = rxed_reliable[p]
       /\ consumable'[p] = consumable[p]
       /\ consumable'[e] = consumable[e] \cup
            {t \in rx_seq[e] .. (n - 1) : log[p][t].kind \in {"Data", "SendFinish"}}
  BY <1>3, <1>4 DEF Core, RxType
<1>11. \A t \in Nat : t < rx_seq[e] \/ t \in filled => Got(e, t)'
  <2> SUFFICES ASSUME NEW t \in Nat, t < rx_seq[e] \/ t \in filled PROVE Got(e, t)'
    OBVIOUS
  <2>1. t < n \/ (t \in filled /\ t > n)
    BY <1>3, <1>5
  <2> QED
    BY <1>10, <2>1 DEF Got
<1>12. Grows
  <2>1. \A f \in EP : tx_seq[f] \in Nat
    BY DEF Core, TxType
  <2>5. tx_seq' = tx_seq
    BY DEF ReceiveNew
  <2>2. \A f \in EP : tx_seq[f] <= tx_seq'[f]
    BY <2>1, <2>5
  <2>3. \A t \in Nat : Got(e, t) => Got(e, t)'
    BY <1>11 DEF Got
  <2>4. \A t \in Nat : Got(p, t) => Got(p, t)'
    BY <1>10 DEF Got
  <2> QED
    BY <1>4, <2>2, <2>3, <2>4 DEF Grows
<1>13. AckQueuesOK /\ tx_ack_queue' \in [EP -> [Links -> Seq(Nat)]]
  <2>1. tx_ack_queue' = [tx_ack_queue EXCEPT ![e][l] = Append(tx_ack_queue[e][l], s)]
    BY <1>2 DEF ReceiveNew
  <2>2. Got(e, s)'
    BY <1>11
  <2> QED
    BY <2>1, <2>2, QueueAck
<1>14. LinkType'
  BY <1>1, <1>13 DEF Core, LinkType, ReceiveNew
<1>15. LinkInv'
  BY <1>1, <1>9, <1>12, <1>13, LinkInvStep DEF Core
<1>16. log' = log /\ tx_seq' = tx_seq /\ deq' = deq /\ handed' = handed /\ UNCHANGED userVars
  BY DEF ReceiveNew
<1>17. RxInv'
  <2> SUFFICES ASSUME NEW f \in EP
               PROVE  /\ rx_seq'[f] <= tx_seq[Peer[f]]
                      /\ \A t \in rxed_reliable'[f] : rx_seq'[f] < t /\ t < tx_seq[Peer[f]]
                      /\ \A t \in consumable'[f] :
                           t < rx_seq'[f] /\ log[Peer[f]][t].kind \in {"Data", "SendFinish"}
    BY <1>16 DEF RxInv
  <2>1. CASE f = p
    BY <1>10, <2>1 DEF Core, RxInv
  <2>2. CASE f = e
    <3>1. \A t \in rxed_reliable[e] : t < tx_seq[p]
      BY DEF Core, RxInv
    <3>2. \A t \in rxed_reliable'[e] : n < t /\ t < tx_seq[p]
      BY <1>5, <1>10, <3>1
    <3>3. \A t \in consumable[e] : t < rx_seq[e] /\ log[p][t].kind \in {"Data", "SendFinish"}
      BY DEF Core, RxInv
    <3>4. \A t \in consumable'[e] : t < n /\ log[p][t].kind \in {"Data", "SendFinish"}
      BY <1>5, <1>10, <3>3
    <3> QED
      BY <1>5, <1>10, <2>2, <3>2, <3>4
  <2> QED
    BY <1>4, <2>1, <2>2
<1>18. ConsumeInv'
  <2>0. \A f \in EP : DataSeqs(f)' = DataSeqs(f)
    BY <1>16 DEF DataSeqs, IsData
  <2> SUFFICES ASSUME NEW f \in EP
               PROVE  /\ handed[f] <= deq[Peer[f]]
                      /\ \A t \in DataSeqs(Peer[f]) :
                           /\ log[Peer[f]][t].id <= handed[f] => t < rx_seq'[f]
                           /\ t \in consumable'[f] <=>
                                t < rx_seq'[f] /\ log[Peer[f]][t].id > handed[f]
    BY <1>16, <2>0, PeerFacts DEF ConsumeInv
  <2>1. CASE f = p
    BY <1>10, <2>1 DEF Core, ConsumeInv
  <2>2. CASE f = e
    <3> SUFFICES ASSUME NEW t \in DataSeqs(p)
                 PROVE  /\ log[p][t].id <= handed[e] => t < n
                        /\ t \in consumable'[e] <=> t < n /\ log[p][t].id > handed[e]
      BY <1>10, <2>2 DEF Core, ConsumeInv
    <3>1. /\ log[p][t].id <= handed[e] => t < rx_seq[e]
          /\ t \in consumable[e] <=> t < rx_seq[e] /\ log[p][t].id > handed[e]
      BY DEF Core, ConsumeInv
    <3>2. t \in Nat /\ log[p][t].kind = "Data" /\ log[p][t] \in ReliableMsg
      BY <1>4, DataFacts DEF Core
    <3>3. log[p][t].id \in Nat /\ handed[e] \in Nat
      BY <3>2 DEF ReliableMsg, Core, ReadType
    <3>4. t \in consumable'[e] <=> t \in consumable[e] \/ t \in rx_seq[e] .. (n - 1)
      BY <1>10, <3>2
    <3> QED
      BY <1>5, <3>1, <3>2, <3>3, <3>4
  <2> QED
    BY <1>4, <2>1, <2>2
<1>19. LogInv' /\ EofInv' /\ DeliveredInv'
  BY LogFrame, EofFrame, DeliveredFrame DEF Core, ReceiveNew, userVars
<1>20. DrainedInv'
  <2> SUFFICES ASSUME NEW f \in EP, result[f] = "running", ~write_rx'[f], ~send_finish_sent'[f]
               PROVE  ~sender_alive[f] /\ deq[f] = Len(user_data[f])
    BY DEF DrainedInv, ReceiveNew, userVars
  <2>1. ~write_rx[f] /\ ~send_finish_sent[f]
    BY <1>2 DEF ReceiveNew, Core, CloseType
  <2> QED
    BY <2>1 DEF Core, DrainedInv
<1>21. FinishInv'
  <2>1. \A f \in EP : write_rx'[f] => write_rx[f]
    BY DEF ReceiveNew, Core, CloseType
  <2> QED
    BY <1>16, <2>1 DEF Core, FinishInv, DataSeqs, IsData, userVars
<1>22. AckedReceived'
  <2> SUFFICES ASSUME NEW f \in EP, NEW t \in 0 .. (tx_seq[f] - 1),
                      t \in DOMAIN txed_packets[f] => txed_packets[f][t].st = "Received"
               PROVE  Got(Peer[f], t)'
    BY <1>16 DEF AckedReceived, ReceiveNew
  <2>1. Got(Peer[f], t)
    BY DEF Core, AckedReceived
  <2>2. t \in Nat /\ Peer[f] \in EP
    BY PeerFacts
  <2>3. Got(e, t)' \/ Peer[f] # e
    BY <1>12, <2>1, <2>2 DEF Grows
  <2>4. Got(p, t)' \/ Peer[f] # p
    BY <1>4, <1>12, <2>1, <2>2 DEF Grows
  <2> QED
    BY <1>4, <2>2, <2>3, <2>4 DEF Got
<1> QED
  BY <1>7, <1>8, <1>9, <1>14, <1>15, <1>17, <1>18, <1>19, <1>20, <1>21, <1>22 DEF Core

(***************************************************************************)
(* Consuming.  The front of the consumable messages, when it is data, is   *)
(* the next data of the peer's stream; when it is SendFinish, all data was *)
(* consumed.                                                               *)
(***************************************************************************)
LEMMA FrontFacts ==
  ASSUME Core, NEW e \in EP, NEW s \in consumable[e], IsFront(s, consumable[e])
  PROVE  /\ s \in Nat /\ s < tx_seq[Peer[e]] /\ log[Peer[e]][s] \in ReliableMsg
         /\ log[Peer[e]][s].kind = "Data" =>
              log[Peer[e]][s].id = handed[e] + 1 /\ handed[e] < deq[Peer[e]]
         /\ log[Peer[e]][s].kind = "SendFinish" =>
              /\ ~sender_alive[Peer[e]] /\ handed[e] = Len(user_data[Peer[e]])
<1> DEFINE p == Peer[e]
           m == log[p][s]
<1>1. p \in EP
  BY PeerFacts
<1>2. /\ s \in Nat /\ rx_seq[e] \in Nat /\ tx_seq[p] \in Nat /\ handed[e] \in Nat /\ deq[p] \in Nat
      /\ handed[e] <= deq[p] /\ consumable[e] \subseteq Nat
  BY <1>1 DEF Core, RxType, TxType, ReadType, ConsumeInv
<1>3. s < rx_seq[e] /\ rx_seq[e] <= tx_seq[p]
  BY DEF Core, RxInv
<1>4. s \in 0 .. (tx_seq[p] - 1) /\ s < tx_seq[p]
  BY <1>2, <1>3
<1>5. m \in ReliableMsg
  BY <1>1, <1>4 DEF Core, TxType
<1>6. \A t \in DataSeqs(p) : t \in Nat /\ log[p][t].id \in Nat
  BY <1>1, DataFacts DEF Core
<1>7. ASSUME m.kind = "Data" PROVE m.id = handed[e] + 1 /\ handed[e] < deq[p]
  <2>1. s \in DataSeqs(p)
    BY <1>4, <1>7 DEF DataSeqs, IsData
  <2>2. m.id > handed[e] /\ m.id \in 1 .. deq[p]
    BY <1>1, <2>1 DEF Core, ConsumeInv, LogInv
  <2>3. handed[e] + 1 \in 1 .. deq[p]
    BY <1>2, <2>2
  <2>4. PICK t \in DataSeqs(p) : log[p][t].id = handed[e] + 1
    BY <1>1, <2>3 DEF Core, LogInv
  <2>5. ~(s < t)
    <3> SUFFICES ASSUME s < t PROVE FALSE
      OBVIOUS
    <3>1. m.id < log[p][t].id
      BY <1>1, <2>1 DEF Core, LogInv
    <3> QED
      BY <1>2, <2>2, <2>4, <3>1
  <2>6. t < rx_seq[e]
    BY <1>2, <1>3, <1>6, <2>5
  <2>7. t \in consumable[e]
    BY <1>2, <2>4, <2>6 DEF Core, ConsumeInv
  <2>8. s <= t
    BY <2>7 DEF IsFront
  <2>9. s = t
    BY <1>2, <1>6, <2>5, <2>8
  <2> QED
    BY <1>2, <2>3, <2>4, <2>9
<1>8. ASSUME m.kind = "SendFinish"
      PROVE  ~sender_alive[p] /\ handed[e] = Len(user_data[p])
  <2>1. /\ ~sender_alive[p] /\ deq[p] = Len(user_data[p])
        /\ \A t \in DataSeqs(p) : t < s
    BY <1>1, <1>4, <1>8 DEF Core, FinishInv
  <2>2. handed[e] = deq[p]
    <3> SUFFICES ASSUME handed[e] # deq[p] PROVE FALSE
      OBVIOUS
    <3>1. handed[e] + 1 \in 1 .. deq[p]
      BY <1>2
    <3>2. PICK t \in DataSeqs(p) : log[p][t].id = handed[e] + 1
      BY <1>1, <3>1 DEF Core, LogInv
    <3>3. t < s
      BY <2>1
    <3>4. t \in consumable[e]
      BY <1>2, <1>3, <1>6, <3>2, <3>3 DEF Core, ConsumeInv
    <3>5. s <= t
      BY <3>4 DEF IsFront
    <3> QED
      BY <1>2, <1>6, <3>3, <3>5
  <2> QED
    BY <2>1, <2>2
<1> QED
  BY <1>2, <1>4, <1>5, <1>7, <1>8

\* ConsumeReceived preserves the invariant: the front is the next message.
LEMMA ConsumeReceivedCore ==
  ASSUME Core, NEW e \in EP, ConsumeReceived(e)
  PROVE  Core'
<1> USE DEF userVars, txVars, linkVars
<1> DEFINE p == Peer[e]
<1>1. PICK s \in consumable[e] :
       LET m == log[p][s] IN
       /\ IsFront(s, consumable[e])
       /\ consumable' = [consumable EXCEPT ![e] = consumable[e] \ {s}]
       /\ \/ /\ m.kind = "Data"
             /\ rxed_reliable_size' = [rxed_reliable_size EXCEPT ![e] = rxed_reliable_size[e] - m.len]
             /\ consumed_since_last_ack' =
                  [consumed_since_last_ack EXCEPT ![e] = consumed_since_last_ack[e] + m.len]
             /\ handed' = [handed EXCEPT ![e] = handed[e] + 1]
             /\ delivered' = IF read_tx[e] THEN [delivered EXCEPT ![e] = Append(delivered[e], m.id)]
                             ELSE delivered
             /\ UNCHANGED <<eof, read_tx, receive_finish_sent>>
          \/ /\ m.kind = "SendFinish"
             /\ eof' = [eof EXCEPT ![e] = TRUE]
             /\ read_tx' = [read_tx EXCEPT ![e] = FALSE]
             /\ receive_finish_sent' = [receive_finish_sent EXCEPT ![e] = TRUE]
             /\ UNCHANGED <<handed, delivered, rxed_reliable_size, consumed_since_last_ack>>
  BY DEF ConsumeReceived
<1> DEFINE m == log[p][s]
<1>2. /\ UNCHANGED <<userVars, txVars, linkVars, result, rx_seq, rxed_reliable, write_rx,
                     read_closed_rx, receive_close_sent, send_finish_sent, write_error>>
      /\ read_tx[e] => recv_alive[e]
      /\ result[e] = "running"
  BY DEF ConsumeReceived, Running
<1>3. /\ p \in EP /\ p # e /\ \A f \in EP : f = e \/ f = p
      /\ Peer[p] = e
  BY PeerFacts
<1>4. /\ s \in Nat /\ s < tx_seq[p] /\ m \in ReliableMsg
      /\ m.kind = "Data" => m.id = handed[e] + 1 /\ handed[e] < deq[p]
      /\ m.kind = "SendFinish" => ~sender_alive[p] /\ handed[e] = Len(user_data[p])
  BY <1>1, FrontFacts
<1>5. UserType' /\ TxType' /\ LinkType'
  BY <1>2 DEF Core, UserType, TxType, LinkType
<1>6. RxType' /\ CloseType' /\ result' \in [EP -> Results]
  <2>1. RxType' /\ result' \in [EP -> Results]
    BY <1>1, <1>2 DEF Core, RxType
  <2>2. read_tx' \in [EP -> BOOLEAN] /\ receive_finish_sent' \in [EP -> BOOLEAN]
    BY <1>1 DEF Core, CloseType
  <2> QED
    BY <1>2, <2>1, <2>2 DEF Core, CloseType
<1>7. LinkInv'
  BY <1>2 DEF Core, LinkInv, Got
<1>8. LogInv' /\ DrainedInv' /\ FinishInv' /\ AckedReceived'
  BY <1>2, LogFrame, DrainedFrame, FinishFrame, AckedFrame DEF Core
<1>9. consumable'[e] = consumable[e] \ {s} /\ consumable'[p] = consumable[p]
  BY <1>1, <1>3 DEF Core, RxType
<1>10. RxInv'
  BY <1>2, <1>3, <1>9 DEF Core, RxInv
<1>11. \A f \in EP : DataSeqs(f)' = DataSeqs(f)
  BY <1>2 DEF DataSeqs, IsData
<1>12. CASE m.kind = "Data"
  <2>1. /\ rxed_reliable_size' = [rxed_reliable_size EXCEPT ![e] = rxed_reliable_size[e] - m.len]
        /\ consumed_since_last_ack' =
             [consumed_since_last_ack EXCEPT ![e] = consumed_since_last_ack[e] + m.len]
        /\ handed' = [handed EXCEPT ![e] = handed[e] + 1]
        /\ delivered' = IF read_tx[e] THEN [delivered EXCEPT ![e] = Append(delivered[e], m.id)]
                        ELSE delivered
        /\ UNCHANGED <<eof, read_tx, receive_finish_sent>>
    BY <1>1, <1>12
  <2>2. m.len \in Nat /\ m.id \in Nat
    BY <1>4 DEF ReliableMsg
  <2>3. ReadType'
    <3>1. delivered' \in [EP -> Seq(Nat)]
      BY <2>1, <2>2 DEF Core, ReadType
    <3>2. PICK k \in Nat : k = m.len
      BY <2>2
    <3>3. /\ rxed_reliable_size' = [rxed_reliable_size EXCEPT ![e] = rxed_reliable_size[e] - k]
          /\ consumed_since_last_ack' =
               [consumed_since_last_ack EXCEPT ![e] = consumed_since_last_ack[e] + k]
      BY <2>1, <3>2
    <3>4. handed' \in [EP -> Nat] /\ eof' \in [EP -> BOOLEAN]
      BY <2>1 DEF Core, ReadType
    <3>5. rxed_reliable_size' \in [EP -> Int] /\ consumed_since_last_ack' \in [EP -> Nat]
      BY <3>3 DEF Core, ReadType
    <3> QED
      BY <3>1, <3>4, <3>5 DEF ReadType
  <2>4. handed'[e] = handed[e] + 1 /\ handed'[p] = handed[p] /\ handed[e] \in Nat /\ deq[p] \in Nat
    BY <1>3, <2>1 DEF Core, ReadType, TxType
  <2>5. ConsumeInv'
    <3> SUFFICES ASSUME NEW f \in EP
                 PROVE  /\ handed'[f] <= deq[Peer[f]]
                        /\ \A t \in DataSeqs(Peer[f]) :
                             /\ log[Peer[f]][t].id <= handed'[f] => t < rx_seq[f]
                             /\ t \in consumable'[f] <=>
                                  t < rx_seq[f] /\ log[Peer[f]][t].id > handed'[f]
      BY <1>2, <1>11, PeerFacts DEF ConsumeInv
    <3>1. CASE f = p
      BY <1>9, <2>4, <3>1 DEF Core, ConsumeInv
    <3>2. CASE f = e
      <4>1. handed'[f] <= deq[p]
        BY <1>4, <1>12, <2>4, <3>2
      <4>2. s < rx_seq[e] /\ s \in DataSeqs(p)
        <5>1. s < rx_seq[e]
          BY DEF Core, RxInv
        <5>2. tx_seq[p] \in Nat
          BY <1>3 DEF Core, TxType
        <5>3. s \in 0 .. (tx_seq[p] - 1)
          BY <1>4, <5>2
        <5> QED
          BY <1>12, <5>1, <5>3 DEF DataSeqs, IsData
      <4>3. ASSUME NEW t \in DataSeqs(p)
            PROVE  /\ log[p][t].id <= handed'[e] => t < rx_seq[e]
                   /\ t \in consumable'[e] <=> t < rx_seq[e] /\ log[p][t].id > handed'[e]
        <5>1. /\ log[p][t].id <= handed[e] => t < rx_seq[e]
              /\ t \in consumable[e] <=> t < rx_seq[e] /\ log[p][t].id > handed[e]
          BY DEF Core, ConsumeInv
        <5>2. t \in Nat /\ log[p][t].id \in Nat
          BY <1>3, DataFacts DEF Core
        <5>3. t = s <=> log[p][t].id = handed[e] + 1
          <6>1. s < t => m.id < log[p][t].id
            BY <1>3, <4>2 DEF Core, LogInv
          <6>2. t < s => log[p][t].id < m.id
            BY <1>3, <4>2 DEF Core, LogInv
          <6> QED
            BY <1>4, <1>12, <2>2, <5>2, <6>1, <6>2
        <5> QED
          BY <1>9, <2>4, <4>2, <5>1, <5>2, <5>3
      <4> QED
        BY <3>2, <4>1, <4>3
    <3> QED
      BY <1>3, <3>1, <3>2
  <2>6. ~eof[e] \/ ~read_tx[e]
    BY DEF Core, DeliveredInv
  <2>7. DeliveredInv'
    <3> SUFFICES ASSUME NEW f \in EP
                 PROVE  /\ Len(delivered'[f]) <= handed'[f]
                        /\ read_tx[f] => Len(delivered'[f]) = handed'[f] /\ ~eof[f]
                        /\ \A i \in 1 .. Len(delivered'[f]) : delivered'[f][i] = i
                        /\ result[f] = "running" /\ ~read_tx[f] => eof[f] \/ ~recv_alive[f]
      BY <1>2, <2>1 DEF DeliveredInv
    <3>1. CASE f = p
      <4>1. delivered'[f] = delivered[f]
        BY <1>3, <2>1, <3>1 DEF Core, ReadType
      <4> QED
        BY <2>4, <3>1, <4>1 DEF Core, DeliveredInv
    <3>2. CASE f = e /\ ~read_tx[e]
      <4>1. delivered'[f] = delivered[f] /\ Len(delivered[f]) \in Nat
        BY <2>1, <3>2 DEF Core, ReadType
      <4> QED
        BY <2>4, <3>2, <4>1 DEF Core, DeliveredInv
    <3>3. CASE f = e /\ read_tx[e]
      <4>1. delivered[e] \in Seq(Nat) /\ delivered'[e] = Append(delivered[e], m.id)
        BY <2>1, <3>3 DEF Core, ReadType
      <4>2. Len(delivered[e]) = handed[e] /\ ~eof[e]
        BY <3>3 DEF Core, DeliveredInv
      <4>3. Len(delivered'[e]) = handed[e] + 1 /\ delivered'[e][handed[e] + 1] = handed[e] + 1
        BY <1>4, <1>12, <4>1, <4>2
      <4>4. \A i \in 1 .. handed[e] : delivered'[e][i] = i
        <5>1. \A i \in 1 .. Len(delivered[e]) : delivered[e][i] = i
          BY DEF Core, DeliveredInv
        <5> QED
          BY <4>1, <4>2, <5>1
      <4>5. \A i \in 1 .. Len(delivered'[e]) : delivered'[e][i] = i
        BY <2>4, <4>3, <4>4
      <4> QED
        BY <2>4, <3>3, <4>2, <4>3, <4>5
    <3> QED
      BY <1>3, <3>1, <3>2, <3>3
  <2>8. EofInv'
    <3> SUFFICES ASSUME NEW f \in EP, eof[f]
                 PROVE  ~sender_alive[Peer[f]] /\ handed'[f] = Len(user_data[Peer[f]])
      BY <1>2, <2>1 DEF EofInv
    <3>1. ~sender_alive[Peer[f]] /\ handed[f] = Len(user_data[Peer[f]])
      BY DEF Core, EofInv
    <3>2. CASE f = p
      BY <2>4, <3>1, <3>2
    <3>3. CASE f = e
      <4>1. deq[p] <= Len(user_data[p])
        BY <1>3 DEF Core, LogInv
      <4> QED
        BY <1>4, <1>12, <2>4, <3>1, <3>3, <4>1
    <3> QED
      BY <1>3, <3>2, <3>3
  <2> QED
    BY <1>5, <1>6, <1>7, <1>8, <1>10, <2>3, <2>5, <2>7, <2>8 DEF Core
<1>13. CASE m.kind = "SendFinish"
  <2>1. /\ eof' = [eof EXCEPT ![e] = TRUE] /\ read_tx' = [read_tx EXCEPT ![e] = FALSE]
        /\ UNCHANGED <<handed, delivered, rxed_reliable_size, consumed_since_last_ack>>
    BY <1>1, <1>13
  <2>2. ReadType'
    BY <2>1 DEF Core, ReadType
  <2>3. ConsumeInv'
    <3> SUFFICES ASSUME NEW f \in EP
                 PROVE  /\ handed[f] <= deq[Peer[f]]
                        /\ \A t \in DataSeqs(Peer[f]) :
                             /\ log[Peer[f]][t].id <= handed[f] => t < rx_seq[f]
                             /\ t \in consumable'[f] <=>
                                  t < rx_seq[f] /\ log[Peer[f]][t].id > handed[f]
      BY <1>2, <1>11, <2>1, PeerFacts DEF ConsumeInv
    <3>1. s \notin DataSeqs(p)
      BY <1>13 DEF DataSeqs, IsData
    <3>2. \A t \in DataSeqs(Peer[f]) : t \in consumable'[f] <=> t \in consumable[f]
      BY <1>3, <1>9, <3>1
    <3> QED
      BY <3>2 DEF Core, ConsumeInv
  <2>4. eof'[e] /\ ~read_tx'[e] /\ eof'[p] = eof[p] /\ read_tx'[p] = read_tx[p]
    BY <1>3, <2>1 DEF Core, ReadType, CloseType
  <2>5. DeliveredInv'
    BY <1>2, <1>3, <2>1, <2>4 DEF Core, DeliveredInv
  <2>6. EofInv'
    BY <1>2, <1>3, <1>4, <1>13, <2>1, <2>4 DEF Core, EofInv
  <2> QED
    BY <1>5, <1>6, <1>7, <1>8, <1>10, <2>2, <2>3, <2>5, <2>6 DEF Core
<1> QED
  BY <1>1, <1>12, <1>13

(***************************************************************************)
(* The users.                                                              *)
(***************************************************************************)
LEMMA UserCore ==
  ASSUME Core, NEW e \in EP, User(e)
  PROVE  Core'
<1> USE DEF readVars, closeVars, txVars, rxVars, linkVars
<1>1. /\ UNCHANGED <<readVars, closeVars, txVars, rxVars, linkVars, result>>
      /\ UserSend(e) \/ UserDropSender(e) \/ UserClose(e) \/ UserDropReceiver(e)
  BY DEF User
<1>2. ReadType' /\ CloseType' /\ TxType' /\ RxType' /\ LinkType' /\ result' \in [EP -> Results]
  BY <1>1 DEF Core, ReadType, CloseType, TxType, RxType, LinkType
<1>3. LinkInv'
  BY <1>1 DEF Core, LinkInv, Got
<1>4. RxInv' /\ ConsumeInv' /\ AckedReceived'
  BY <1>1, RxFrame, ConsumeFrame, AckedFrame DEF Core
<1>5. CASE UserSend(e)
  <2>1. sender_alive[e] /\ UNCHANGED <<sender_alive, recv_alive, close_req>> /\ write_rx[e]
    BY <1>5 DEF UserSend
  <2>2. PICK n \in Lens : user_data' = [user_data EXCEPT ![e] = Append(user_data[e], n)]
    BY <1>5 DEF UserSend
  <2>3. user_data[e] \in Seq(Nat) /\ n \in Nat
    BY SizeAssumption DEF Core, UserType
  <2>4. UserType'
    BY <2>1, <2>2, <2>3 DEF Core, UserType
  <2>5. /\ Len(user_data'[e]) = Len(user_data[e]) + 1 /\ Len(user_data[e]) \in Nat
        /\ \A f \in EP : f # e => user_data'[f] = user_data[f]
    BY <2>2, <2>3 DEF Core, UserType
  <2>6. LogInv'
    <3>1. \A f \in EP : DataSeqs(f)' = DataSeqs(f)
      BY <1>1 DEF DataSeqs, IsData
    <3>2. \A f \in EP : deq[f] <= Len(user_data[f]) /\ deq[f] \in Nat
      BY DEF Core, LogInv, TxType
    <3>3. \A f \in EP : deq[f] <= Len(user_data'[f])
      BY <2>5, <3>2
    <3> QED
      BY <1>1, <3>1, <3>3 DEF Core, LogInv
  <2>7. DeliveredInv'
    BY <1>1, <2>1, DeliveredFrame DEF Core
  <2>8. DrainedInv' /\ FinishInv'
    BY <1>1, <2>1, <2>5 DEF Core, DrainedInv, FinishInv, DataSeqs, IsData
  <2>9. EofInv'
    <3> SUFFICES ASSUME NEW f \in EP, eof[f]
                 PROVE  ~sender_alive[Peer[f]] /\ handed[f] = Len(user_data'[Peer[f]])
      BY <1>1, <2>1 DEF EofInv
    <3>1. ~sender_alive[Peer[f]] /\ handed[f] = Len(user_data[Peer[f]]) /\ Peer[f] \in EP
      BY PeerFacts DEF Core, EofInv
    <3> QED
      BY <2>1, <2>5, <3>1
  <2> QED
    BY <1>2, <1>3, <1>4, <2>4, <2>6, <2>7, <2>8, <2>9 DEF Core
<1>6. CASE UserDropSender(e)
  <2>1. /\ sender_alive' = [sender_alive EXCEPT ![e] = FALSE]
        /\ UNCHANGED <<user_data, recv_alive, close_req>>
    BY <1>6 DEF UserDropSender
  <2>2. UserType'
    BY <2>1 DEF Core, UserType
  <2>3. \A f \in EP : sender_alive'[f] => sender_alive[f]
    BY <2>1 DEF Core, UserType
  <2>4. LogInv' /\ DeliveredInv'
    BY <1>1, <2>1, LogFrame, DeliveredFrame DEF Core
  <2>5. DrainedInv' /\ FinishInv'
    BY <1>1, <2>1, <2>3 DEF Core, DrainedInv, FinishInv, DataSeqs, IsData
  <2>6. EofInv'
    BY <1>1, <2>1, <2>3, PeerFacts DEF Core, EofInv
  <2> QED
    BY <1>2, <1>3, <1>4, <2>2, <2>4, <2>5, <2>6 DEF Core
<1>7. CASE UserClose(e) \/ UserDropReceiver(e)
  <2>1. UNCHANGED <<user_data, sender_alive>>
    BY <1>7 DEF UserClose, UserDropReceiver
  <2>2. UserType'
    BY <1>7 DEF Core, UserType, UserClose, UserDropReceiver
  <2>3. \A f \in EP : recv_alive'[f] => recv_alive[f]
    BY <1>7 DEF Core, UserType, UserClose, UserDropReceiver
  <2>4. DeliveredInv'
    BY <1>1, <2>3 DEF Core, DeliveredInv
  <2>5. LogInv' /\ DrainedInv' /\ FinishInv' /\ EofInv'
    BY <1>1, <2>1, LogFrame, DrainedFrame, FinishFrame, EofFrame DEF Core
  <2> QED
    BY <1>2, <1>3, <1>4, <2>2, <2>4, <2>5 DEF Core
<1> QED
  BY <1>1, <1>5, <1>6, <1>7

(***************************************************************************)
(* Every step of the system keeps Core.                                    *)
(***************************************************************************)
LEMMA LinkEventCore ==
  ASSUME Core, NEW e \in EP, NEW l \in Links, LinkEvent(e, l)
  PROVE  Core'
<1>1. CASE SendAck(e, l) \/ SendConsumed(e, l) \/ Resend(e, l) \/ SendData(e, l)
  BY <1>1, SendAckCore, SendConsumedCore, ResendCore, SendDataCore
<1>2. CASE SendReceiveClose(e, l) \/ SendReceiveFinish(e, l) \/ SendSendFinish(e, l)
  BY <1>2, SendReceiveCloseCore, SendReceiveFinishCore, SendSendFinishCore
<1>3. CASE ReceiveAck(e, l) \/ ReceiveDuplicate(e, l) \/ ReceiveNew(e, l)
  BY <1>3, ReceiveAckCore, ReceiveDuplicateCore, ReceiveNewCore
<1>4. CASE ReceiveInvalid(e, l)
  BY <1>4, ExitsCore
<1>5. CASE AddLink(e, l) \/ ConfirmLink(e, l)
  BY <1>5, AddLinkCore, ConfirmLinkCore
<1>6. CASE ConfirmTimedOut(e, l)
  BY <1>6, UnconfirmLinkCore DEF ConfirmTimedOut
<1>7. CASE DisconnectLink(e, l) \/ RemoveLink(e, l)
  BY <1>7, DisconnectLinkCore, RemoveLinkCore
<1> QED
  BY <1>1, <1>2, <1>3, <1>4, <1>5, <1>6, <1>7 DEF LinkEvent

\* Every event of a task that is not tied to a link preserves the invariant.
LEMMA TaskEventCore ==
  ASSUME Core, NEW e \in EP, TaskEvent(e)
  PROVE  Core'
<1>1. CASE WriteEnd(e) \/ ReadDropped(e) \/ ReadClosed(e) \/ ConsumeReceived(e)
  BY <1>1, WriteEndCore, ReadDroppedCore, ReadClosedCore, ConsumeReceivedCore
<1>2. CASE Finish(e) \/ FinishTimeout(e) \/ AllLinksFailed(e) \/ NoLinksTimeout(e)
  BY <1>2, ExitsCore
<1>3. CASE NoNewLinks(e) \/ Idle(e)
  BY <1>3, NoNewLinksCore, IdleCore
<1> QED
  BY <1>1, <1>2, <1>3 DEF TaskEvent

\* What is decided anew for every iteration of the main loop.
IterationType == resending \in [EP -> BOOLEAN] /\ sendable \in [EP -> SUBSET Links]

\* The invariant is its core and the type of what an iteration decides.
LEMMA InvSplit == TransferInv <=> Core /\ IterationType
BY DEF TransferInv, TypeOK, Core, IterationType

\* Adjusting the limits keeps the type of what they allow.
LEMMA AdjustType ==
  ASSUME IterationType, NEW e \in EP, AdjustLimits(e)
  PROVE  sendable' \in [EP -> SUBSET Links]
BY DEF IterationType, AdjustLimits

\* The first state satisfies the invariant.
LEMMA InitInv == Init => TransferInv
<1> SUFFICES ASSUME Init PROVE TransferInv
  OBVIOUS
<1>1. TypeOK
  BY InitType
<1>0. \A e \in EP : Peer[e] \in EP
  BY PeerFacts
<1>2. ASSUME NEW e \in EP
      PROVE  tx_seq[e] = 0 /\ rx_seq[e] = 0 /\ deq[e] = 0 /\ handed[e] = 0
  BY DEF Init, Const
<1>3. \A e \in EP, l \in Links : chan[e][l] = <<>> /\ tx_ack_queue[e][l] = <<>>
  BY DEF Init, PerLink
<1>4. ASSUME NEW e \in EP PROVE 0 .. (tx_seq[e] - 1) = {} /\ DataSeqs(e) = {}
  <2>1. tx_seq[e] = 0
    BY <1>2
  <2>2. 0 .. (tx_seq[e] - 1) = {}
    BY <2>1
  <2> QED
    BY <2>2 DEF DataSeqs
<1>5. \A e \in EP : rxed_reliable[e] = {} /\ consumable[e] = {}
  BY DEF Init, Const
<1>6. \A e \in EP : ~eof[e] /\ read_tx[e] /\ write_rx[e]
  BY DEF Init, Const
<1>7. ASSUME NEW e \in EP PROVE Len(user_data[e]) = 0 /\ Len(delivered[e]) = 0
  BY DEF Init, Const
<1>8. LinkInv
  BY <1>3 DEF LinkInv
<1>9. ASSUME NEW e \in EP PROVE rx_seq[e] <= tx_seq[Peer[e]] /\ handed[e] <= deq[Peer[e]]
  BY <1>0, <1>2
<1>10. ASSUME NEW e \in EP PROVE deq[e] <= Len(user_data[e]) /\ 1 .. deq[e] = {}
  <2>1. deq[e] = 0 /\ Len(user_data[e]) = 0
    BY <1>2, <1>7
  <2> QED
    BY <2>1
<1>11. ASSUME NEW e \in EP
       PROVE  Len(delivered[e]) <= handed[e] /\ Len(delivered[e]) = handed[e]
              /\ 1 .. Len(delivered[e]) = {}
  <2>1. handed[e] = 0 /\ Len(delivered[e]) = 0
    BY <1>2, <1>7
  <2> QED
    BY <2>1
<1>12. RxInv
  BY <1>5, <1>9 DEF RxInv
<1>13. LogInv
  BY <1>4, <1>10 DEF LogInv
<1>14. ConsumeInv
  BY <1>0, <1>4, <1>9 DEF ConsumeInv
<1>15. DeliveredInv
  BY <1>6, <1>11 DEF DeliveredInv
<1>16. DrainedInv /\ FinishInv /\ EofInv /\ AckedReceived
  BY <1>4, <1>6 DEF DrainedInv, FinishInv, EofInv, AckedReceived
<1> QED
  BY <1>1, <1>8, <1>12, <1>13, <1>14, <1>15, <1>16 DEF TransferInv

\* Every step preserves the invariant.
LEMMA NextInv == TransferInv /\ [Next]_vars => TransferInv'
<1> SUFFICES ASSUME TransferInv, [Next]_vars PROVE TransferInv'
  OBVIOUS
<1>0. Core /\ IterationType
  BY InvSplit
<1>1. ASSUME NEW e \in EP, User(e) PROVE TransferInv'
  <2>1. Core'
    BY <1>0, <1>1, UserCore
  <2>2. IterationType'
    BY <1>0, <1>1 DEF User, IterationType
  <2> QED
    BY <2>1, <2>2 DEF TransferInv, TypeOK, Core, IterationType
<1>2. ASSUME NEW e \in EP, Event(e) PROVE TransferInv'
  <2>1. Core'
    BY <1>0, <1>2, TaskEventCore, LinkEventCore DEF Event
  <2>2. resending' \in [EP -> BOOLEAN]
    BY <1>0, <1>2 DEF Event, NextIteration, IterationType
  <2>3. sendable' \in [EP -> SUBSET Links]
    BY <1>0, <1>2, AdjustType DEF Event, NextIteration
  <2> QED
    BY <2>1, <2>2, <2>3 DEF TransferInv, TypeOK, Core
<1>3. ASSUME NEW e \in EP, Limits(e) PROVE TransferInv'
  <2>1. Core' /\ resending' = resending
    BY <1>0, <1>3, UnconfirmLinkCore DEF Limits, CheckLinkLimits
  <2>2. sendable' \in [EP -> SUBSET Links]
    BY <1>0, <1>3, AdjustType DEF Limits
  <2> QED
    BY <1>0, <2>1, <2>2 DEF TransferInv, TypeOK, Core, IterationType
<1>4. CASE UNCHANGED vars
  <2>1. /\ UNCHANGED <<userVars, readVars, closeVars, txVars, rxVars, result>>
        /\ UNCHANGED linkVars /\ UNCHANGED <<resending, sendable>>
    BY <1>4 DEF vars
  <2>2. LinkType' /\ ChannelsOK /\ AckQueuesOK
    BY <1>0, <2>1 DEF Core, LinkType, ChannelsOK, AckQueuesOK, linkVars
  <2>3. Core'
    BY <1>0, <2>1, <2>2, LinkOnly
  <2> QED
    BY <1>0, <2>1, <2>3 DEF TransferInv, TypeOK, Core, IterationType
<1> QED
  BY <1>1, <1>2, <1>3, <1>4 DEF Next

\* The inductive invariant holds in every reachable state of the two tasks,
\* for any number of links, users' messages, buffer sizes and link faults.
THEOREM TransferInvariant == Spec => []TransferInv
<1>1. Init => TransferInv
  BY InitInv
<1>2. TransferInv /\ [Next]_vars => TransferInv'
  BY NextInv
<1> QED
  BY <1>1, <1>2, PTL DEF Spec

\* Every variable of the two tasks keeps its type.
THEOREM TypeCorrect == Spec => []TypeOK
<1>1. TransferInv => TypeOK
  BY DEF TransferInv
<1> QED
  BY <1>1, TransferInvariant, PTL

\* Receivers get the peer's data in order, without gaps and duplicates, in
\* every schedule of sends, acks, resends and link failures
\* (handle_received_reliable_msg, ConsumeReceived).
THEOREM Delivery == Spec => []InOrderDelivery
<1>1. TransferInv => InOrderDelivery
  <2> SUFFICES ASSUME TransferInv, NEW e \in EP
               PROVE  /\ Len(delivered[e]) <= Len(user_data[Peer[e]])
                      /\ \A i \in 1 .. Len(delivered[e]) : delivered[e][i] = i
    BY DEF InOrderDelivery
  <2>1. Core /\ Peer[e] \in EP
    BY InvSplit, PeerFacts
  <2>2. Len(delivered[e]) <= handed[e] /\ \A i \in 1 .. Len(delivered[e]) : delivered[e][i] = i
    BY <2>1 DEF Core, DeliveredInv
  <2>3. handed[e] <= deq[Peer[e]] /\ deq[Peer[e]] <= Len(user_data[Peer[e]])
    BY <2>1 DEF Core, ConsumeInv, LogInv
  <2>4. /\ Len(delivered[e]) \in Nat /\ handed[e] \in Nat
        /\ deq[Peer[e]] \in Nat /\ Len(user_data[Peer[e]]) \in Nat
    <3>1. Len(delivered[e]) \in Nat /\ handed[e] \in Nat
      BY <2>1 DEF Core, ReadType
    <3>2. deq[Peer[e]] \in Nat
      BY <2>1 DEF Core, TxType
    <3>3. Len(user_data[Peer[e]]) \in Nat
      BY <2>1 DEF Core, UserType
    <3> QED
      BY <3>1, <3>2, <3>3
  <2> QED
    BY <2>2, <2>3, <2>4
<1> QED
  BY <1>1, TransferInvariant, PTL

\* A packet is released only once the peer's task has it (handle_ack).
THEOREM Acknowledgement == Spec => []AckedReceived
<1>1. TransferInv => AckedReceived
  BY DEF TransferInv
<1> QED
  BY <1>1, TransferInvariant, PTL

\* End of stream is reported only after all data was consumed (WriteEnd,
\* ConsumeReceived).
THEOREM EndOfStream == Spec => []EofComplete
<1>1. TransferInv => EofComplete
  BY DEF TransferInv, EofInv, EofComplete
<1> QED
  BY <1>1, TransferInvariant, PTL

(***************************************************************************)
(* Refinement: the users of the two tasks see a pipe in each direction.    *)
(***************************************************************************)
pipeView == <<user_data, sender_alive, recv_alive, delivered, eof>>

\* A step of a user is a step of the pipe.
LEMMA UserStep ==
  ASSUME NEW e \in EP, User(e)
  PROVE  P!Next \/ UNCHANGED pipeView
<1>1. UNCHANGED <<delivered, eof>>
  BY DEF User, readVars
<1>2. CASE UserSend(e)
  BY <1>1, <1>2 DEF UserSend, P!Next, P!Send
<1>3. CASE UserDropSender(e)
  BY <1>1, <1>3 DEF UserDropSender, P!Next, P!DropSender
<1>4. CASE UserClose(e)
  BY <1>1, <1>4 DEF UserClose, pipeView
<1>5. CASE UserDropReceiver(e)
  BY <1>1, <1>5 DEF UserDropReceiver, P!Next, P!DropReceiver
<1> QED
  BY <1>2, <1>3, <1>4, <1>5 DEF User

\* Handing out a message is a step of the pipe.
LEMMA ConsumeStep ==
  ASSUME Core, NEW e \in EP, ConsumeReceived(e)
  PROVE  P!Next \/ UNCHANGED pipeView
<1> DEFINE p == Peer[e]
<1>1. PICK s \in consumable[e] :
       LET m == log[p][s] IN
       /\ IsFront(s, consumable[e])
       /\ \/ /\ m.kind = "Data"
             /\ delivered' = IF read_tx[e] THEN [delivered EXCEPT ![e] = Append(delivered[e], m.id)]
                             ELSE delivered
             /\ UNCHANGED eof
          \/ /\ m.kind = "SendFinish"
             /\ eof' = [eof EXCEPT ![e] = TRUE]
             /\ UNCHANGED delivered
  BY DEF ConsumeReceived
<1> DEFINE m == log[p][s]
<1>2. /\ UNCHANGED <<user_data, sender_alive, recv_alive>>
      /\ read_tx[e] => recv_alive[e]
      /\ result[e] = "running"
  BY DEF ConsumeReceived, Running, userVars
<1>3. /\ m.kind = "Data" => m.id = handed[e] + 1 /\ handed[e] < deq[p]
      /\ m.kind = "SendFinish" => ~sender_alive[p] /\ handed[e] = Len(user_data[p])
  BY <1>1, FrontFacts
<1>4. p \in EP
  BY PeerFacts
<1>5. read_tx[e] => Len(delivered[e]) = handed[e] /\ ~eof[e]
  BY DEF Core, DeliveredInv
<1>6. CASE m.kind = "Data" /\ read_tx[e]
  <2>1. handed[e] \in Nat /\ deq[p] \in Nat /\ Len(user_data[p]) \in Nat
    <3>1. handed[e] \in Nat
      BY DEF Core, ReadType
    <3>2. deq[p] \in Nat
      BY <1>4 DEF Core, TxType
    <3>3. Len(user_data[p]) \in Nat
      BY <1>4 DEF Core, UserType
    <3> QED
      BY <3>1, <3>2, <3>3
  <2>2. deq[p] <= Len(user_data[p])
    BY <1>4 DEF Core, LogInv
  <2>3. Len(delivered[e]) < Len(user_data[p])
    BY <1>3, <1>5, <1>6, <2>1, <2>2
  <2>4. delivered' = [delivered EXCEPT ![e] = Append(delivered[e], Len(delivered[e]) + 1)]
    BY <1>1, <1>3, <1>5, <1>6
  <2> QED
    BY <1>1, <1>2, <1>5, <1>6, <2>3, <2>4 DEF P!Next, P!Deliver
<1>7. CASE m.kind = "Data" /\ ~read_tx[e]
  BY <1>1, <1>2, <1>7 DEF pipeView
<1>8. CASE m.kind = "SendFinish" /\ eof[e]
  <2>1. eof' = eof
    BY <1>1, <1>8 DEF Core, ReadType
  <2> QED
    BY <1>1, <1>2, <1>8, <2>1 DEF pipeView
<1>9. CASE m.kind = "SendFinish" /\ ~eof[e]
  <2>1. recv_alive[e] => read_tx[e]
    BY <1>2, <1>9 DEF Core, DeliveredInv
  <2>2. recv_alive[e] => Len(delivered[e]) = Len(user_data[p])
    BY <1>3, <1>5, <1>9, <2>1
  <2> QED
    BY <1>1, <1>2, <1>3, <1>9, <2>2 DEF P!Next, P!End
<1> QED
  BY <1>1, <1>6, <1>7, <1>8, <1>9

\* A step on a link is a stutter of the pipe.
LEMMA LinkEventStep ==
  ASSUME NEW e \in EP, NEW l \in Links, LinkEvent(e, l)
  PROVE  UNCHANGED pipeView
<1> USE DEF pipeView, userVars, readVars
<1>1. CASE SendAck(e, l) \/ SendConsumed(e, l) \/ Resend(e, l) \/ SendData(e, l)
  BY <1>1 DEF SendAck, SendConsumed, Resend, SendData
<1>2. CASE SendReceiveClose(e, l) \/ SendReceiveFinish(e, l) \/ SendSendFinish(e, l)
  BY <1>2 DEF SendReceiveClose, SendReceiveFinish, SendSendFinish
<1>3. CASE ReceiveAck(e, l) \/ ReceiveDuplicate(e, l) \/ ReceiveNew(e, l) \/ ReceiveInvalid(e, l)
  BY <1>3 DEF ReceiveAck, ReceiveDuplicate, ReceiveNew, ReceiveInvalid, Exit
<1>4. CASE AddLink(e, l) \/ ConfirmLink(e, l)
  BY <1>4 DEF AddLink, ConfirmLink
<1>5. CASE ConfirmTimedOut(e, l) \/ DisconnectLink(e, l) \/ RemoveLink(e, l)
  BY <1>5 DEF ConfirmTimedOut, UnconfirmLink, DisconnectLink, RemoveLink, Unconfirm
<1> QED
  BY <1>1, <1>2, <1>3, <1>4, <1>5 DEF LinkEvent

\* Any other step of a task is a step of the pipe or a stutter.
LEMMA TaskEventStep ==
  ASSUME Core, NEW e \in EP, TaskEvent(e)
  PROVE  P!Next \/ UNCHANGED pipeView
<1>1. CASE ConsumeReceived(e)
  BY <1>1, ConsumeStep
<1>2. CASE WriteEnd(e) \/ ReadDropped(e) \/ ReadClosed(e) \/ NoNewLinks(e) \/ Idle(e)
  BY <1>2 DEF WriteEnd, ReadDropped, ReadClosed, NoNewLinks, Idle, pipeView, userVars, readVars
<1>3. CASE Finish(e) \/ FinishTimeout(e) \/ AllLinksFailed(e) \/ NoLinksTimeout(e)
  BY <1>3 DEF Finish, FinishTimeout, AllLinksFailed, NoLinksTimeout, Exit, pipeView, userVars, readVars
<1> QED
  BY <1>1, <1>2, <1>3 DEF TaskEvent

\* Two tasks that split, lose, reorder, duplicate and resend packets over any
\* number of links look to their users like a pipe in each direction.
THEOREM Refinement == Spec => ImplementsPipe
<1>1. Init => P!Init
  BY DEF Init, P!Init, Const
<1>2. TransferInv /\ [Next]_vars => [P!Next]_(P!pipeVars)
  <2> SUFFICES ASSUME TransferInv, [Next]_vars PROVE P!Next \/ UNCHANGED pipeView
    BY DEF pipeView, P!pipeVars
  <2>0. Core
    BY InvSplit
  <2>1. CASE UNCHANGED vars
    BY <2>1 DEF vars, pipeView, userVars, readVars
  <2>2. ASSUME NEW e \in EP, User(e) PROVE P!Next \/ UNCHANGED pipeView
    BY <2>2, UserStep
  <2>3. ASSUME NEW e \in EP, Event(e) PROVE P!Next \/ UNCHANGED pipeView
    BY <2>0, <2>3, TaskEventStep, LinkEventStep DEF Event
  <2>4. ASSUME NEW e \in EP, Limits(e) PROVE P!Next \/ UNCHANGED pipeView
    BY <2>4 DEF Limits, CheckLinkLimits, UnconfirmLink, Unconfirm, pipeView, userVars, readVars
  <2> QED
    BY <2>1, <2>2, <2>3, <2>4 DEF Next
<1> QED
  BY <1>1, <1>2, TransferInvariant, PTL DEF Spec, ImplementsPipe, P!Spec
=============================================================================
