----------------------------- MODULE FlowProofs -----------------------------
(***************************************************************************)
(* What becomes of packets and bytes: packets are queued for resending     *)
(* over links that work and are never forgotten, the byte counters of the  *)
(* two tasks agree, and a task that ends because everything was            *)
(* transferred is right about it.  The proofs rest on TransferInv and on   *)
(* FlowInv, which is inductive beside it.                                  *)
(***************************************************************************)
EXTENDS TransferProofs

(***************************************************************************)
(* Packets.                                                                *)
(***************************************************************************)
Has(q, m) == \E i \in 1 .. Len(q) : q[i] = m

\* Appending adds one element.
LEMMA HasAppend ==
  ASSUME NEW S, NEW q \in Seq(S), NEW x \in S, NEW m
  PROVE  Has(Append(q, x), m) <=> Has(q, m) \/ m = x
<1>1. Len(q) \in Nat /\ Len(Append(q, x)) = Len(q) + 1 /\ Append(q, x)[Len(q) + 1] = x
  OBVIOUS
<1>2. \A i \in 1 .. Len(q) : Append(q, x)[i] = q[i]
  OBVIOUS
<1>3. 1 .. (Len(q) + 1) = (1 .. Len(q)) \cup {Len(q) + 1}
  BY <1>1
<1> QED
  BY <1>1, <1>2, <1>3 DEF Has

\* Taking the head off leaves the other elements.
LEMMA HasTail ==
  ASSUME NEW S, NEW q \in Seq(S), q # <<>>, NEW m, Has(q, m), m # Head(q)
  PROVE  Has(Tail(q), m)
<1>1. PICK i \in 1 .. Len(q) : q[i] = m
  BY DEF Has
<1>2. i # 1
  BY <1>1
<1>3. i - 1 \in 1 .. Len(Tail(q)) /\ Tail(q)[i - 1] = m
  BY <1>1, <1>2
<1> QED
  BY <1>3 DEF Has

\* The parts of PacketStates and PacketTracked.
QueueOK(e) == \A s : s \in resend_queue[e]
  <=> s \in DOMAIN txed_packets[e] /\ txed_packets[e][s].st = "ResendQueued"
SentOK(e) == \A s \in DOMAIN txed_packets[e] :
  txed_packets[e][s].st = "Sent" => Confirmed(e, txed_packets[e][s].link)
SentOn(e, s, l) == s \in DOMAIN txed_packets[e] /\ txed_packets[e][s] = [st |-> "Sent", link |-> l]
Left(e, l) == link_state[e][l] \in {"leaving", "gone"}
UnderWay(e, s, l) == \/ Has(chan[e][l], Reliable(s))
                     \/ Has(tx_ack_queue[Peer[e]][l], s)
                     \/ Has(chan[Peer[e]][l], Ack(s))

PacketInv ==
  \A e \in EP : result[e] = "running" =>
    /\ QueueOK(e) /\ SentOK(e)
    /\ \A l \in Links : \A s : SentOn(e, s, l) /\ ~Left(Peer[e], l) => UnderWay(e, s, l)

\* PacketInv is the conjunction of the two properties.
LEMMA PacketParts == PacketInv <=> PacketStates /\ PacketTracked
<1>1. ASSUME NEW e \in EP
      PROVE  QueueOK(e) <=> resend_queue[e] =
               {s \in DOMAIN txed_packets[e] : txed_packets[e][s].st = "ResendQueued"}
  BY DEF QueueOK
<1>2. ASSUME NEW e \in EP
      PROVE  (\A l \in Links : \A s : SentOn(e, s, l) /\ ~Left(Peer[e], l) => UnderWay(e, s, l))
             <=> (\A s \in DOMAIN txed_packets[e] : \A l \in Links :
                    /\ txed_packets[e][s] = [st |-> "Sent", link |-> l]
                    /\ link_state[Peer[e]][l] \notin {"leaving", "gone"}
                    => \/ InFlight(e, l, Reliable(s))
                       \/ AckQueued(Peer[e], l, s)
                       \/ InFlight(Peer[e], l, Ack(s)))
  BY DEF SentOn, Left, UnderWay, Has, InFlight, AckQueued
<1> QED
  BY <1>1, <1>2 DEF PacketInv, PacketStates, PacketTracked, SentOK

\* A packet in state Sent was sent over a link that its task believes in.
LEMMA SentConfirmed ==
  ASSUME TxType, LinkType, NEW e \in EP, SentOK(e), NEW s, NEW l \in Links, SentOn(e, s, l)
  PROVE  link_state[e][l] = "confirmed"
BY DEF SentOn, SentOK, Confirmed

\* Steps that touch neither packets nor links.
LEMMA PacketFrame ==
  ASSUME PacketInv, UNCHANGED <<txed_packets, resend_queue, link_state, chan, tx_ack_queue, result>>
  PROVE  PacketInv'
BY DEF PacketInv, QueueOK, SentOK, SentOn, Left, UnderWay, Confirmed

\* What a message put on a link does to the channels.
LEMMA PushHas ==
  ASSUME LinkType, NEW e \in EP, NEW l \in Links, NEW m \in LinkMsg, Push(e, l, m)
  PROVE  /\ \A f \in EP, k \in Links : \A x : Has(chan[f][k], x) => Has(chan'[f][k], x)
         /\ link_state[Peer[e]][l] # "gone" => Has(chan'[e][l], m)
<1>1. chan[e][l] \in Seq(LinkMsg)
  BY DEF LinkType
<1>2. CASE link_state[Peer[e]][l] = "gone"
  BY <1>2 DEF Push
<1>3. CASE link_state[Peer[e]][l] # "gone"
  <2>1. chan'[e][l] = Append(chan[e][l], m)
    BY <1>3 DEF Push, LinkType
  <2>2. \A f \in EP, k \in Links : ~(f = e /\ k = l) => chan'[f][k] = chan[f][k]
    BY <1>3 DEF Push, LinkType
  <2>3. \A x : Has(chan'[e][l], x) <=> Has(chan[e][l], x) \/ x = m
    BY <1>1, <2>1, HasAppend
  <2> QED
    BY <2>2, <2>3
<1> QED
  BY <1>2, <1>3

\* A packet sent, or sent again, over a confirmed link is under way on it.
LEMMA SendOver ==
  ASSUME Core, PacketInv, UNCHANGED <<result, link_state, tx_ack_queue>>,
         NEW e \in EP, NEW l \in Links, NEW s \in Nat, Push(e, l, Reliable(s)), Confirmed(e, l),
         \A f \in EP : f # e => txed_packets'[f] = txed_packets[f] /\ resend_queue'[f] = resend_queue[f],
         DOMAIN txed_packets'[e] = DOMAIN txed_packets[e] \cup {s},
         txed_packets'[e][s] = [st |-> "Sent", link |-> l],
         \A t \in DOMAIN txed_packets[e] : t # s => txed_packets'[e][t] = txed_packets[e][t],
         resend_queue'[e] = resend_queue[e] \ {s}
  PROVE  PacketInv'
<1>1. Reliable(s) \in LinkMsg
  BY DEF Reliable, LinkMsg
<1>2. /\ \A f \in EP, k \in Links : \A x : Has(chan[f][k], x) => Has(chan'[f][k], x)
      /\ link_state[Peer[e]][l] # "gone" => Has(chan'[e][l], Reliable(s))
  BY <1>1, PushHas DEF Core
<1>3. \A f \in EP, k \in Links : \A t : UnderWay(f, t, k) => UnderWay(f, t, k)'
  BY <1>2, PeerFacts DEF UnderWay
<1> SUFFICES ASSUME NEW f \in EP, result[f] = "running"
             PROVE  /\ QueueOK(f)' /\ SentOK(f)'
                    /\ \A k \in Links : \A t :
                         SentOn(f, t, k)' /\ ~Left(Peer[f], k)' => UnderWay(f, t, k)'
  BY DEF PacketInv
<1>4. /\ QueueOK(f) /\ SentOK(f)
      /\ \A k \in Links : \A t : SentOn(f, t, k) /\ ~Left(Peer[f], k) => UnderWay(f, t, k)
  BY DEF PacketInv
<1>5. CASE f # e
  BY <1>3, <1>4, <1>5 DEF QueueOK, SentOK, SentOn, Left, Confirmed
<1>6. CASE f = e
  <2>1. QueueOK(e)'
    BY <1>4, <1>6 DEF QueueOK
  <2>2. SentOK(e)'
    BY <1>4, <1>6 DEF SentOK, Confirmed
  <2>3. ASSUME NEW k \in Links, NEW t, SentOn(e, t, k)', ~Left(Peer[e], k)'
        PROVE  UnderWay(e, t, k)'
    <3>1. CASE t = s
      <4>1. k = l
        BY <2>3, <3>1 DEF SentOn
      <4>2. link_state[Peer[e]][l] # "gone"
        BY <2>3, <4>1 DEF Left
      <4> QED
        BY <1>2, <3>1, <4>1, <4>2 DEF UnderWay
    <3>2. CASE t # s
      <4>1. SentOn(e, t, k) /\ ~Left(Peer[e], k)
        BY <2>3, <3>2 DEF SentOn, Left
      <4> QED
        BY <1>3, <1>4, <1>6, <4>1
    <3> QED
      BY <3>1, <3>2
  <2> QED
    BY <1>6, <2>1, <2>2, <2>3
<1> QED
  BY <1>5, <1>6

\* A new packet is tracked.
LEMMA SendPackets ==
  ASSUME Core, PacketInv, NEW e \in EP, NEW l \in Links, NEW m \in ReliableMsg,
         SendReliableOverLink(e, l, m), CanSubmit(e, l), result' = result
  PROVE  PacketInv'
<1>1. PICK s \in Nat : s = tx_seq[e]
  BY DEF Core, TxType
<1>2. resend_queue[e] \subseteq 0 .. (s - 1) /\ DOMAIN txed_packets[e] \subseteq 0 .. (s - 1)
  BY <1>1 DEF Core, TxType
<1>3. s \notin resend_queue[e] /\ s \notin DOMAIN txed_packets[e]
  BY <1>2
<1>4. txed_packets' = [txed_packets EXCEPT ![e] =
       [i \in DOMAIN txed_packets[e] \cup {s} |->
          IF i = s THEN [st |-> "Sent", link |-> l] ELSE txed_packets[e][i]]]
  BY <1>1 DEF SendReliableOverLink
<1>5. txed_packets'[e] = [i \in DOMAIN txed_packets[e] \cup {s} |->
          IF i = s THEN [st |-> "Sent", link |-> l] ELSE txed_packets[e][i]]
  BY <1>4 DEF Core, TxType
<1>6. \A f \in EP : f # e => txed_packets'[f] = txed_packets[f]
  BY <1>4 DEF Core, TxType
<1>7. /\ UNCHANGED <<resend_queue, link_state, tx_ack_queue>>
      /\ Push(e, l, Reliable(s)) /\ Confirmed(e, l)
  BY <1>1 DEF SendReliableOverLink, CanSubmit
<1>8. DOMAIN txed_packets'[e] = DOMAIN txed_packets[e] \cup {s}
  BY <1>5
<1>9. txed_packets'[e][s] = [st |-> "Sent", link |-> l]
  BY <1>5
<1>10. \A t \in DOMAIN txed_packets[e] : t # s => txed_packets'[e][t] = txed_packets[e][t]
  BY <1>5
<1>11. resend_queue'[e] = resend_queue[e] \ {s}
  BY <1>3, <1>7
<1> QED
  BY <1>6, <1>7, <1>8, <1>9, <1>10, <1>11, SendOver

\* A packet sent again is one that waited for it, and is tracked on its new link.
LEMMA ResendPackets ==
  ASSUME Core, PacketInv, NEW e \in EP, NEW l \in Links, Resend(e, l)
  PROVE  PacketInv'
<1>1. PICK s \in resend_queue[e] :
        /\ resend_queue' = [resend_queue EXCEPT ![e] = resend_queue[e] \ {s}]
        /\ txed_packets' = [txed_packets EXCEPT ![e] =
             [txed_packets[e] EXCEPT ![s] = [st |-> "Sent", link |-> l]]]
        /\ Push(e, l, Reliable(s))
  BY DEF Resend
<1>2. s \in Nat
  BY DEF Core, TxType
<1>3. s \in DOMAIN txed_packets[e]
  BY DEF Resend, Running, PacketInv, QueueOK
<1>4. txed_packets'[e] = [txed_packets[e] EXCEPT ![s] = [st |-> "Sent", link |-> l]]
  BY <1>1 DEF Core, TxType
<1>5. \A f \in EP : f # e => txed_packets'[f] = txed_packets[f] /\ resend_queue'[f] = resend_queue[f]
  BY <1>1 DEF Core, TxType
<1>6. DOMAIN txed_packets'[e] = DOMAIN txed_packets[e] \cup {s}
  BY <1>3, <1>4
<1>7. txed_packets'[e][s] = [st |-> "Sent", link |-> l]
  BY <1>3, <1>4
<1>8. \A t \in DOMAIN txed_packets[e] : t # s => txed_packets'[e][t] = txed_packets[e][t]
  BY <1>4
<1>9. resend_queue'[e] = resend_queue[e] \ {s}
  BY <1>1 DEF Core, TxType
<1>10. UNCHANGED <<result, link_state, tx_ack_queue>> /\ Confirmed(e, l)
  BY DEF Resend, CanSubmit
<1> QED
  BY <1>1, <1>2, <1>5, <1>6, <1>7, <1>8, <1>9, <1>10, SendOver

\* Steps that leave packets alone: links are not unconfirmed, and what is under
\* way stays so.
LEMMA QuietPackets ==
  ASSUME Core, PacketInv, UNCHANGED <<txed_packets, resend_queue, result>>,
         \A f \in EP, k \in Links : /\ Confirmed(f, k) => Confirmed(f, k)'
                                    /\ Left(f, k) => Left(f, k)',
         \A f \in EP, k \in Links : \A t :
           SentOn(f, t, k) /\ link_state[f][k] = "confirmed" /\ UnderWay(f, t, k) => UnderWay(f, t, k)'
  PROVE  PacketInv'
<1> SUFFICES ASSUME NEW f \in EP, result[f] = "running"
             PROVE  /\ QueueOK(f)' /\ SentOK(f)'
                    /\ \A k \in Links : \A t :
                         SentOn(f, t, k)' /\ ~Left(Peer[f], k)' => UnderWay(f, t, k)'
  BY DEF PacketInv
<1>1. /\ QueueOK(f) /\ SentOK(f)
      /\ \A k \in Links : \A t : SentOn(f, t, k) /\ ~Left(Peer[f], k) => UnderWay(f, t, k)
  BY DEF PacketInv
<1>2. \A k \in Links : \A t : SentOn(f, t, k)' <=> SentOn(f, t, k)
  BY DEF SentOn
<1>3. \A k \in Links : \A t : SentOn(f, t, k) => link_state[f][k] = "confirmed"
  BY <1>1, SentConfirmed DEF Core
<1>4. QueueOK(f)'
  BY <1>1 DEF QueueOK
<1>5. SentOK(f)'
  <2> SUFFICES ASSUME NEW s \in DOMAIN txed_packets[f], txed_packets[f][s].st = "Sent"
               PROVE  Confirmed(f, txed_packets[f][s].link)'
    BY DEF SentOK
  <2>1. PICK k \in Links : k = txed_packets[f][s].link
    BY DEF Core, TxType, Status
  <2>2. Confirmed(f, k)'
    BY <1>1, <2>1 DEF SentOK
  <2> QED
    BY <2>1, <2>2 DEF Confirmed
<1> QED
  BY <1>1, <1>2, <1>3, <1>4, <1>5, PeerFacts

\* An ack moves from its queue to the link.
LEMMA SendAckPackets ==
  ASSUME Core, PacketInv, NEW e \in EP, NEW l \in Links, SendAck(e, l)
  PROVE  PacketInv'
<1>1. PICK q \in Seq(Nat) : q = tx_ack_queue[e][l]
  BY DEF Core, LinkType
<1>2. PICK a \in Nat : a = Head(q)
  BY <1>1 DEF SendAck
<1>3. /\ q # <<>> /\ Push(e, l, Ack(a)) /\ tx_ack_queue' = [tx_ack_queue EXCEPT ![e][l] = Tail(q)]
      /\ UNCHANGED <<txed_packets, resend_queue, result, link_state>>
  BY <1>1, <1>2 DEF SendAck, txVars
<1>4. Ack(a) \in LinkMsg
  BY DEF Ack, LinkMsg
<1>5. /\ \A f \in EP, k \in Links : \A x : Has(chan[f][k], x) => Has(chan'[f][k], x)
      /\ link_state[Peer[e]][l] # "gone" => Has(chan'[e][l], Ack(a))
  BY <1>3, <1>4, PushHas DEF Core
<1>6. /\ tx_ack_queue'[e][l] = Tail(q)
      /\ \A f \in EP, k \in Links : ~(f = e /\ k = l) => tx_ack_queue'[f][k] = tx_ack_queue[f][k]
  BY <1>3 DEF Core, LinkType
<1>7. ASSUME NEW f \in EP, NEW k \in Links, NEW t, link_state[f][k] = "confirmed", UnderWay(f, t, k)
      PROVE  UnderWay(f, t, k)'
  <2>1. Peer[f] \in EP /\ (Peer[f] = e => f = Peer[e])
    BY PeerFacts
  <2>2. CASE Has(tx_ack_queue[Peer[f]][k], t) /\ Peer[f] = e /\ k = l
    <3>1. CASE t = a
      BY <1>5, <1>7, <2>1, <2>2, <3>1 DEF UnderWay
    <3>2. CASE t # a
      BY <1>1, <1>2, <1>3, <1>6, <2>2, <3>2, HasTail DEF UnderWay
    <3> QED
      BY <3>1, <3>2
  <2>3. CASE Has(tx_ack_queue[Peer[f]][k], t) /\ ~(Peer[f] = e /\ k = l)
    BY <1>6, <2>1, <2>3 DEF UnderWay
  <2>4. CASE Has(chan[f][k], Reliable(t)) \/ Has(chan[Peer[f]][k], Ack(t))
    BY <1>5, <2>1, <2>4 DEF UnderWay
  <2> QED
    BY <1>7, <2>2, <2>3, <2>4 DEF UnderWay
<1>8. \A f \in EP, k \in Links : /\ Confirmed(f, k) => Confirmed(f, k)'
                                 /\ Left(f, k) => Left(f, k)'
  BY <1>3 DEF Confirmed, Left
<1> QED
  BY <1>3, <1>7, <1>8, QuietPackets

\* A link that is new, or passes its test, affects no packet.
LEMMA NewLinkPackets ==
  ASSUME Core, PacketInv, NEW e \in EP, NEW l \in Links, AddLink(e, l) \/ ConfirmLink(e, l)
  PROVE  PacketInv'
<1>1. /\ UNCHANGED <<txed_packets, resend_queue, result, chan, tx_ack_queue>>
      /\ link_state[e][l] \in {"none", "unconfirmed"}
      /\ \E st : link_state' = [link_state EXCEPT ![e][l] = st]
  BY DEF AddLink, ConfirmLink, txVars
<1>2. \A f \in EP, k \in Links : ~(f = e /\ k = l) => link_state'[f][k] = link_state[f][k]
  BY <1>1 DEF Core, LinkType
<1>3. \A f \in EP, k \in Links : /\ Confirmed(f, k) => Confirmed(f, k)'
                                 /\ Left(f, k) => Left(f, k)'
  BY <1>1, <1>2 DEF Confirmed, Left
<1>4. \A f \in EP, k \in Links : \A t : UnderWay(f, t, k) => UnderWay(f, t, k)'
  BY <1>1 DEF UnderWay
<1> QED
  BY <1>1, <1>3, <1>4, QuietPackets

\* What taking a message off a link leaves there.
LEMMA PopHas ==
  ASSUME Core, NEW e \in EP, NEW l \in Links, Incoming(e, l), Pop(e, l)
  PROVE  \A f \in EP, k \in Links : \A x :
           /\ Has(chan[f][k], x)
           /\ ~(f = Peer[e] /\ k = l /\ x = Head(chan[Peer[e]][l]))
           => Has(chan'[f][k], x)
<1>1. Peer[e] \in EP
  BY PeerFacts
<1>2. chan[Peer[e]][l] \in Seq(LinkMsg) /\ chan[Peer[e]][l] # <<>>
  BY <1>1 DEF Core, LinkType, Incoming
<1>3. /\ chan'[Peer[e]][l] = Tail(chan[Peer[e]][l])
      /\ \A f \in EP, k \in Links : ~(f = Peer[e] /\ k = l) => chan'[f][k] = chan[f][k]
  BY <1>1 DEF Core, LinkType, Pop
<1> QED
  BY <1>2, <1>3, HasTail

\* A received message turns into an ack to be sent over the same link.
LEMMA ReceivePackets ==
  ASSUME Core, PacketInv, NEW e \in EP, NEW l \in Links, ReceiveNew(e, l) \/ ReceiveDuplicate(e, l)
  PROVE  PacketInv'
<1>1. Head(chan[Peer[e]][l]) \in LinkMsg /\ Incoming(e, l) /\ Pop(e, l)
  BY PopFacts DEF ReceiveNew, ReceiveDuplicate
<1>2. PICK s \in Nat : s = Head(chan[Peer[e]][l]).seq
  BY <1>1 DEF LinkMsg
<1>3. Head(chan[Peer[e]][l]).type = "Reliable"
  BY DEF ReceiveNew, ReceiveDuplicate
<1>4. /\ tx_ack_queue' = [tx_ack_queue EXCEPT ![e][l] = Append(tx_ack_queue[e][l], s)]
      /\ UNCHANGED <<txed_packets, resend_queue, result, link_state>>
  BY <1>2 DEF ReceiveNew, ReceiveDuplicate, txVars
<1>5. \A f \in EP, k \in Links : \A x :
        Has(chan[f][k], x) => Has(chan'[f][k], x) \/ (f = Peer[e] /\ k = l /\ x = Head(chan[Peer[e]][l]))
  BY <1>1, PopHas
<1>6. /\ \A f \in EP, k \in Links : \A t : Has(tx_ack_queue[f][k], t) => Has(tx_ack_queue'[f][k], t)
      /\ Has(tx_ack_queue'[e][l], s)
  <2>1. tx_ack_queue[e][l] \in Seq(Nat) /\ tx_ack_queue'[e][l] = Append(tx_ack_queue[e][l], s)
    BY <1>4 DEF Core, LinkType
  <2>2. \A f \in EP, k \in Links : ~(f = e /\ k = l) => tx_ack_queue'[f][k] = tx_ack_queue[f][k]
    BY <1>4 DEF Core, LinkType
  <2>3. \A t : Has(tx_ack_queue'[e][l], t) <=> Has(tx_ack_queue[e][l], t) \/ t = s
    BY <2>1, HasAppend
  <2> QED
    BY <2>2, <2>3
<1>7. \A t : Ack(t) # Head(chan[Peer[e]][l]) /\ (Reliable(t) = Head(chan[Peer[e]][l]) => t = s)
  BY <1>2, <1>3 DEF Ack, Reliable
<1>8. \A f \in EP, k \in Links : \A t : UnderWay(f, t, k) => UnderWay(f, t, k)'
  <2> SUFFICES ASSUME NEW f \in EP, NEW k \in Links, NEW t, UnderWay(f, t, k)
               PROVE  UnderWay(f, t, k)'
    OBVIOUS
  <2>1. Peer[f] \in EP /\ Peer[Peer[e]] = e /\ Peer[e] \in EP
    BY PeerFacts
  <2>2. CASE Has(chan[f][k], Reliable(t))
    BY <1>5, <1>6, <1>7, <2>1, <2>2 DEF UnderWay
  <2>3. CASE Has(tx_ack_queue[Peer[f]][k], t)
    BY <1>6, <2>1, <2>3 DEF UnderWay
  <2>4. CASE Has(chan[Peer[f]][k], Ack(t))
    BY <1>5, <1>7, <2>1, <2>4 DEF UnderWay
  <2> QED
    BY <2>2, <2>3, <2>4 DEF UnderWay
<1>9. \A f \in EP, k \in Links : /\ Confirmed(f, k) => Confirmed(f, k)'
                                 /\ Left(f, k) => Left(f, k)'
  BY <1>4 DEF Confirmed, Left
<1> QED
  BY <1>4, <1>8, <1>9, QuietPackets

\* A task that leaves its loop has no packets that matter and drops its links.
LEMMA ExitPackets ==
  ASSUME Core, PacketInv, NEW e \in EP, NEW r, r # "running", Exit(e, r)
  PROVE  PacketInv'
<1>1. /\ result' = [result EXCEPT ![e] = r] /\ UNCHANGED <<txed_packets, resend_queue>>
      /\ link_state' = [link_state EXCEPT ![e] = [l \in Links |-> "gone"]]
  BY DEF Exit, DropLinks, txVars
<1> SUFFICES ASSUME NEW f \in EP, result'[f] = "running"
             PROVE  /\ QueueOK(f)' /\ SentOK(f)'
                    /\ \A k \in Links : \A t :
                         SentOn(f, t, k)' /\ ~Left(Peer[f], k)' => UnderWay(f, t, k)'
  BY DEF PacketInv
<1>2. f # e /\ result[f] = "running" /\ Peer[f] = e
  BY <1>1, PeerFacts DEF Core
<1>3. link_state'[f] = link_state[f] /\ \A k \in Links : Left(e, k)'
  BY <1>1, <1>2 DEF Core, LinkType, Left
<1>4. QueueOK(f) /\ SentOK(f)
  BY <1>2 DEF PacketInv
<1> QED
  BY <1>1, <1>2, <1>3, <1>4 DEF QueueOK, SentOK, Confirmed

\* unconfirm_link: no packet stays in state Sent over the link, whatever becomes
\* of the link.
LEMMA UnconfirmPackets ==
  ASSUME Core, PacketInv, NEW e \in EP, NEW l \in Links, Unconfirm(e, l),
         \A f \in EP, k \in Links : ~(f = e /\ k = l) => link_state'[f][k] = link_state[f][k],
         Left(e, l) => Left(e, l)',
         UNCHANGED <<chan, tx_ack_queue>>
         \/ /\ Left(e, l)'
            /\ \A f \in EP, k \in Links : k # l =>
                 chan'[f][k] = chan[f][k] /\ tx_ack_queue'[f][k] = tx_ack_queue[f][k]
  PROVE  PacketInv'
<1>1. /\ txed_packets'[e] = [s \in DOMAIN txed_packets[e] |->
           IF s \in SentOver(e, l) THEN [st |-> "ResendQueued", link |-> l] ELSE txed_packets[e][s]]
      /\ resend_queue'[e] = resend_queue[e] \cup SentOver(e, l)
      /\ \A f \in EP : f # e => txed_packets'[f] = txed_packets[f] /\ resend_queue'[f] = resend_queue[f]
  BY DEF Core, TxType, Unconfirm
<1>2. result' = result
  BY DEF Unconfirm
<1>3. \A f \in EP, k \in Links : Left(f, k) => Left(f, k)'
  BY DEF Left
<1>4. \A f \in EP, k \in Links : k # l =>
        chan'[f][k] = chan[f][k] /\ tx_ack_queue'[f][k] = tx_ack_queue[f][k]
  OBVIOUS
<1>5. \A f \in EP, k \in Links : \A t : k # l /\ UnderWay(f, t, k) => UnderWay(f, t, k)'
  BY <1>4, PeerFacts DEF UnderWay
<1> SUFFICES ASSUME NEW f \in EP, result[f] = "running"
             PROVE  /\ QueueOK(f)' /\ SentOK(f)'
                    /\ \A k \in Links : \A t :
                         SentOn(f, t, k)' /\ ~Left(Peer[f], k)' => UnderWay(f, t, k)'
  BY <1>2 DEF PacketInv
<1>6. /\ QueueOK(f) /\ SentOK(f)
      /\ \A k \in Links : \A t : SentOn(f, t, k) /\ ~Left(Peer[f], k) => UnderWay(f, t, k)
  BY DEF PacketInv
<1>7. CASE f = e
  <2>1. QueueOK(e)'
    BY <1>1, <1>6, <1>7 DEF QueueOK, SentOver
  <2>2. \A k \in Links : \A t : SentOn(e, t, k)' => k # l /\ SentOn(e, t, k)
    BY <1>1 DEF SentOn, SentOver
  <2>3. SentOK(e)'
    <3> SUFFICES ASSUME NEW s \in DOMAIN txed_packets'[e], txed_packets'[e][s].st = "Sent"
                 PROVE  Confirmed(e, txed_packets[e][s].link)'
      BY DEF SentOK
    <3>1. s \in DOMAIN txed_packets[e] /\ s \notin SentOver(e, l) /\ txed_packets'[e][s] = txed_packets[e][s]
      BY <1>1
    <3>2. txed_packets[e][s] \in Status
      BY <3>1 DEF Core, TxType
    <3>3. PICK k \in Links : k = txed_packets[e][s].link
      BY <3>2 DEF Status
    <3>4. k # l
      BY <3>1, <3>2, <3>3 DEF SentOver, Status
    <3>5. Confirmed(e, k)
      BY <1>6, <1>7, <3>1, <3>3 DEF SentOK
    <3> QED
      BY <3>1, <3>3, <3>4, <3>5 DEF Confirmed
  <2>4. Peer[e] \in EP
    BY PeerFacts
  <2> QED
    BY <1>3, <1>5, <1>6, <1>7, <2>1, <2>2, <2>3, <2>4
<1>8. CASE f # e
  <2>1. Peer[f] = e /\ e \in EP
    BY <1>8, PeerFacts
  <2>2. QueueOK(f)' /\ SentOK(f)' /\ \A k \in Links : \A t : SentOn(f, t, k)' <=> SentOn(f, t, k)
    <3>1. txed_packets'[f] = txed_packets[f] /\ resend_queue'[f] = resend_queue[f]
      BY <1>1, <1>8
    <3>2. \A k \in Links : Confirmed(f, k)' <=> Confirmed(f, k)
      BY <1>8 DEF Confirmed
    <3>3. \A s \in DOMAIN txed_packets[f] : txed_packets[f][s].link \in Links
      BY DEF Core, TxType, Status
    <3>4. SentOK(f)'
      <4> SUFFICES ASSUME NEW s \in DOMAIN txed_packets[f], txed_packets[f][s].st = "Sent"
                   PROVE  Confirmed(f, txed_packets[f][s].link)'
        BY <3>1 DEF SentOK
      <4>1. PICK k \in Links : k = txed_packets[f][s].link
        BY <3>3
      <4>2. Confirmed(f, k)'
        BY <1>6, <3>2, <4>1 DEF SentOK
      <4> QED
        BY <3>1, <4>1, <4>2 DEF Confirmed
    <3> QED
      BY <1>6, <3>1, <3>4 DEF QueueOK, SentOn
  <2>3. ASSUME NEW k \in Links, NEW t, SentOn(f, t, k), ~Left(e, k)' PROVE UnderWay(f, t, k)'
    <3>1. UnderWay(f, t, k)
      BY <1>3, <1>6, <2>1, <2>3
    <3>2. CASE k # l
      BY <1>5, <3>1, <3>2
    <3>3. CASE k = l
      BY <2>3, <3>1, <3>3 DEF UnderWay
    <3> QED
      BY <3>2, <3>3
  <2> QED
    BY <2>1, <2>2, <2>3
<1> QED
  BY <1>7, <1>8

\* ConfirmTimedOut and check_link_limits unconfirm a link that was confirmed.
LEMMA UnconfirmLinkPackets ==
  ASSUME Core, PacketInv, NEW e \in EP, NEW l \in Links, ConfirmTimedOut(e, l) \/ CheckLinkLimits(e, l)
  PROVE  PacketInv'
<1>1. UnconfirmLink(e, l) /\ Running(e)
  BY DEF ConfirmTimedOut, CheckLinkLimits
<1>2. Unconfirm(e, l) /\ UNCHANGED <<chan, tx_ack_queue>>
      /\ link_state' = [link_state EXCEPT ![e][l] = "unconfirmed"]
  BY <1>1 DEF UnconfirmLink
<1>3. \A f \in EP, k \in Links : ~(f = e /\ k = l) => link_state'[f][k] = link_state[f][k]
  BY <1>2 DEF Core, LinkType
<1>4. ~Left(e, l)
  <2>1. CASE ConfirmTimedOut(e, l)
    <3>1. PICK s : SentOn(e, s, l)
      BY <2>1 DEF ConfirmTimedOut, SentOver, SentOn
    <3>2. SentOK(e)
      BY <1>1 DEF Running, PacketInv
    <3> QED
      BY <3>1, <3>2, SentConfirmed DEF Left, Core
  <2>2. CASE CheckLinkLimits(e, l)
    BY <2>2 DEF CheckLinkLimits, Confirmed, Left
  <2> QED
    BY <2>1, <2>2
<1> QED
  BY <1>2, <1>3, <1>4, UnconfirmPackets

\* A link that is disconnected or removed loses its packets to the resend queue.
LEMMA LeavePackets ==
  ASSUME Core, PacketInv, NEW e \in EP, NEW l \in Links, DisconnectLink(e, l) \/ RemoveLink(e, l)
  PROVE  PacketInv'
<1>1. Peer[e] \in EP
  BY PeerFacts
<1>2. /\ Unconfirm(e, l)
      /\ \E st \in {"leaving", "gone"} : link_state' = [link_state EXCEPT ![e][l] = st]
  BY DEF DisconnectLink, RemoveLink
<1>3. \A f \in EP, k \in Links : ~(f = e /\ k = l) => link_state'[f][k] = link_state[f][k]
  BY <1>2 DEF Core, LinkType
<1>4. Left(e, l)'
  BY <1>2 DEF Core, LinkType, Left
<1>5. \A f \in EP, k \in Links : k # l =>
        chan'[f][k] = chan[f][k] /\ tx_ack_queue'[f][k] = tx_ack_queue[f][k]
  <2>1. CASE DisconnectLink(e, l)
    BY <2>1 DEF DisconnectLink
  <2>2. CASE RemoveLink(e, l)
    <3>1. /\ tx_ack_queue' = [tx_ack_queue EXCEPT ![e][l] = <<>>]
          /\ chan' = [chan EXCEPT ![Peer[e]][l] = <<>>]
      BY <2>2 DEF RemoveLink
    <3> QED
      BY <1>1, <3>1 DEF Core, LinkType
  <2> QED
    BY <2>1, <2>2
<1> QED
  BY <1>2, <1>3, <1>4, <1>5, UnconfirmPackets

\* Swiping removes packets in state Received only and changes none.
LEMMA SwipedFacts ==
  ASSUME NEW pkts, DOMAIN pkts \subseteq Nat
  PROVE  /\ DOMAIN Swiped(pkts) \subseteq DOMAIN pkts
         /\ \A s \in DOMAIN Swiped(pkts) : Swiped(pkts)[s] = pkts[s]
         /\ \A s \in DOMAIN pkts : pkts[s].st # "Received" => s \in DOMAIN Swiped(pkts)
<1>1. \A s \in DOMAIN pkts : s <= s
  OBVIOUS
<1> QED
  BY <1>1 DEF Swiped

\* What an ack that counts does to the packets of its task.
LEMMA AckedFacts ==
  ASSUME TxType, NEW e \in EP, NEW l \in Links, NEW s \in DOMAIN txed_packets[e], NEW pkts,
         pkts = Swiped([txed_packets[e] EXCEPT ![s] = [st |-> "Received", link |-> l]])
  PROVE  /\ \A t \in DOMAIN pkts : t \in DOMAIN txed_packets[e]
         /\ \A t \in DOMAIN pkts : t # s => pkts[t] = txed_packets[e][t]
         /\ s \in DOMAIN pkts => pkts[s].st = "Received"
         /\ \A t \in DOMAIN txed_packets[e] :
              t # s /\ txed_packets[e][t].st # "Received" => t \in DOMAIN pkts
<1>1. PICK old : old = [txed_packets[e] EXCEPT ![s] = [st |-> "Received", link |-> l]]
  OBVIOUS
<1>2. DOMAIN old = DOMAIN txed_packets[e] /\ DOMAIN old \subseteq Nat
  BY <1>1 DEF TxType
<1>3. old[s].st = "Received" /\ \A t \in DOMAIN old : t # s => old[t] = txed_packets[e][t]
  BY <1>1
<1>4. pkts = Swiped(old)
  BY <1>1
<1>5. /\ DOMAIN pkts \subseteq DOMAIN old /\ \A t \in DOMAIN pkts : pkts[t] = old[t]
      /\ \A t \in DOMAIN old : old[t].st # "Received" => t \in DOMAIN pkts
  BY <1>2, <1>4, SwipedFacts
<1>6. \A t \in DOMAIN txed_packets[e] :
        t # s /\ txed_packets[e][t].st # "Received" => t \in DOMAIN pkts
  BY <1>2, <1>3, <1>5
<1> QED
  BY <1>2, <1>3, <1>5, <1>6

\* An ack releases its packet, if it counts, and no other.
LEMMA ReceiveAckPackets ==
  ASSUME Core, PacketInv, NEW e \in EP, NEW l \in Links, ReceiveAck(e, l)
  PROVE  PacketInv'
<1>1. Head(chan[Peer[e]][l]) \in LinkMsg /\ Incoming(e, l) /\ Pop(e, l)
  BY PopFacts DEF ReceiveAck
<1>2. PICK s \in Nat : s = Head(chan[Peer[e]][l]).seq
  BY <1>1 DEF LinkMsg
<1>3. Head(chan[Peer[e]][l]).type = "Ack"
  BY DEF ReceiveAck
<1>4. \A t : (Ack(t) = Head(chan[Peer[e]][l]) => t = s) /\ Reliable(t) # Head(chan[Peer[e]][l])
  BY <1>2, <1>3 DEF Ack, Reliable
<1>5. /\ UNCHANGED <<result, link_state, tx_ack_queue>>
      /\ Peer[e] \in EP /\ Peer[Peer[e]] = e /\ \A f \in EP : Peer[f] = Peer[e] => f = e
  BY PeerFacts DEF ReceiveAck
<1>6. ASSUME NEW f \in EP, NEW k \in Links, NEW t, UnderWay(f, t, k), ~(f = e /\ k = l /\ t = s)
      PROVE  UnderWay(f, t, k)'
  <2>1. \A g \in EP : \A x :
          Has(chan[g][k], x) => Has(chan'[g][k], x) \/ (g = Peer[e] /\ k = l /\ x = Head(chan[Peer[e]][l]))
    BY <1>1, PopHas
  <2>2. Peer[f] \in EP
    BY PeerFacts
  <2>3. CASE Has(chan[f][k], Reliable(t))
    BY <1>4, <2>1, <2>3 DEF UnderWay
  <2>4. CASE Has(tx_ack_queue[Peer[f]][k], t)
    BY <1>5, <2>4 DEF UnderWay
  <2>5. CASE Has(chan[Peer[f]][k], Ack(t))
    BY <1>4, <1>5, <1>6, <2>1, <2>2, <2>5 DEF UnderWay
  <2> QED
    BY <1>6, <2>3, <2>4, <2>5 DEF UnderWay
<1>7. CASE ~Acked(e, l, s)
  <2>1. UNCHANGED <<txed_packets, resend_queue>>
    BY <1>2, <1>7 DEF ReceiveAck
  <2>2. \A f \in EP, k \in Links : \A t : SentOn(f, t, k) => ~(f = e /\ k = l /\ t = s)
    BY <1>7 DEF Acked, SentOn
  <2>3. \A f \in EP, k \in Links : /\ Confirmed(f, k) => Confirmed(f, k)'
                                   /\ Left(f, k) => Left(f, k)'
    BY <1>5 DEF Confirmed, Left
  <2> QED
    BY <1>5, <1>6, <2>1, <2>2, <2>3, QuietPackets
<1>8. CASE Acked(e, l, s)
  <2>1. PICK pkts : pkts = Swiped([txed_packets[e] EXCEPT ![s] = [st |-> "Received", link |-> l]])
    OBVIOUS
  <2>2. /\ txed_packets' = [txed_packets EXCEPT ![e] = pkts]
        /\ resend_queue' = [resend_queue EXCEPT ![e] = resend_queue[e] \ {s}]
    BY <1>2, <1>8, <2>1 DEF ReceiveAck
  <2>3. /\ \A t \in DOMAIN pkts : t \in DOMAIN txed_packets[e]
        /\ \A t \in DOMAIN pkts : t # s => pkts[t] = txed_packets[e][t]
        /\ s \in DOMAIN pkts => pkts[s].st = "Received"
        /\ \A t \in DOMAIN txed_packets[e] :
             t # s /\ txed_packets[e][t].st # "Received" => t \in DOMAIN pkts
    BY <1>8, <2>1, AckedFacts DEF Acked, Core
  <2>4. /\ txed_packets'[e] = pkts /\ resend_queue'[e] = resend_queue[e] \ {s}
        /\ \A f \in EP : f # e => txed_packets'[f] = txed_packets[f] /\ resend_queue'[f] = resend_queue[f]
    BY <2>2 DEF Core, TxType
  <2> SUFFICES ASSUME NEW f \in EP, result[f] = "running"
               PROVE  /\ QueueOK(f)' /\ SentOK(f)'
                      /\ \A k \in Links : \A t :
                           SentOn(f, t, k)' /\ ~Left(Peer[f], k)' => UnderWay(f, t, k)'
    BY <1>5 DEF PacketInv
  <2>5. /\ QueueOK(f) /\ SentOK(f)
        /\ \A k \in Links : \A t : SentOn(f, t, k) /\ ~Left(Peer[f], k) => UnderWay(f, t, k)
    BY DEF PacketInv
  <2>6. CASE f # e
    BY <1>5, <1>6, <2>4, <2>5, <2>6 DEF QueueOK, SentOK, SentOn, Left, Confirmed
  <2>7. CASE f = e
    <3>1. QueueOK(e)'
      BY <2>3, <2>4, <2>5, <2>7 DEF QueueOK
    <3>2. SentOK(e)'
      BY <1>5, <2>3, <2>4, <2>5, <2>7 DEF SentOK, Confirmed
    <3>3. \A k \in Links : \A t : SentOn(e, t, k)' => SentOn(e, t, k) /\ t # s
      BY <2>3, <2>4 DEF SentOn
    <3>4. \A k \in Links : Left(Peer[e], k)' <=> Left(Peer[e], k)
      BY <1>5 DEF Left
    <3> QED
      BY <1>6, <2>5, <2>7, <3>1, <3>2, <3>3, <3>4
  <2> QED
    BY <2>6, <2>7
<1> QED
  BY <1>7, <1>8

(***************************************************************************)
(* Sums.  x is the sum of w[0] .. w[n-1] if there is a sequence of partial *)
(* sums that says so; with such a witness in the invariant, no step needs  *)
(* induction over the messages.                                            *)
(***************************************************************************)
IsSum(w, n, x) ==
  \E g \in [0 .. n -> Nat] :
    /\ g[0] = 0 /\ g[n] = x
    /\ \A i \in 0 .. (n - 1) : g[i + 1] = g[i] + w[i]
    /\ \A i, j \in 0 .. n : i <= j => g[i] <= g[j]

\* A sum depends on its terms only.
LEMMA SumSame ==
  ASSUME NEW n \in Nat, NEW x, NEW w, NEW v, IsSum(w, n, x), \A i \in 0 .. (n - 1) : v[i] = w[i]
  PROVE  IsSum(v, n, x)
BY DEF IsSum

\* A sum of lengths is a length, and none of its terms exceeds it.
LEMMA SumBound ==
  ASSUME NEW n \in Nat, NEW x, NEW w, IsSum(w, n, x), \A i \in 0 .. (n - 1) : w[i] \in Nat
  PROVE  x \in Nat /\ \A i \in 0 .. (n - 1) : w[i] <= x
<1>1. PICK g \in [0 .. n -> Nat] :
        /\ g[0] = 0 /\ g[n] = x
        /\ \A i \in 0 .. (n - 1) : g[i + 1] = g[i] + w[i]
        /\ \A i, j \in 0 .. n : i <= j => g[i] <= g[j]
  BY DEF IsSum
<1>2. x \in Nat
  BY <1>1
<1>3. ASSUME NEW i \in 0 .. (n - 1) PROVE w[i] <= x
  <2>1. i \in 0 .. n /\ i + 1 \in 0 .. n /\ n \in 0 .. n /\ i + 1 <= n
    OBVIOUS
  <2>2. g[i + 1] <= g[n] /\ g[i + 1] = g[i] + w[i] /\ g[i] \in Nat /\ g[i + 1] \in Nat
    BY <1>1, <2>1
  <2> QED
    BY <1>1, <1>2, <2>2
<1> QED
  BY <1>2, <1>3

\* The sum of no terms.
LEMMA SumEmpty == ASSUME NEW w PROVE IsSum(w, 0, 0)
<1>1. PICK g : g = [i \in 0 .. 0 |-> 0]
  OBVIOUS
<1>2. g \in [0 .. 0 -> Nat] /\ g[0] = 0
  BY <1>1
<1>3. (\A i \in 0 .. (0 - 1) : g[i + 1] = g[i] + w[i]) /\ \A i, j \in 0 .. 0 : i <= j => g[i] <= g[j]
  BY <1>2
<1> QED
  BY <1>2, <1>3 DEF IsSum

\* A further term.
LEMMA SumExtend ==
  ASSUME NEW n \in Nat, NEW x \in Nat, NEW w, NEW v, IsSum(w, n, x),
         \A i \in 0 .. (n - 1) : v[i] = w[i], v[n] \in Nat
  PROVE  IsSum(v, n + 1, x + v[n])
<1>1. PICK g \in [0 .. n -> Nat] :
        /\ g[0] = 0 /\ g[n] = x
        /\ \A i \in 0 .. (n - 1) : g[i + 1] = g[i] + w[i]
        /\ \A i, j \in 0 .. n : i <= j => g[i] <= g[j]
  BY DEF IsSum
<1>2. PICK a \in Nat : a = v[n]
  OBVIOUS
<1>3. PICK h : h = [i \in 0 .. (n + 1) |-> IF i = n + 1 THEN x + a ELSE g[i]]
  OBVIOUS
<1>4. h[n + 1] = x + a /\ \A i \in 0 .. n : h[i] = g[i] /\ g[i] \in Nat /\ g[i] <= x
  BY <1>1, <1>3
<1>5. h \in [0 .. (n + 1) -> Nat]
  <2>1. \A i \in 0 .. (n + 1) : i = n + 1 \/ i \in 0 .. n
    OBVIOUS
  <2> QED
    BY <1>3, <1>4, <2>1
<1>6. h[0] = 0
  BY <1>1, <1>4
<1>7. ASSUME NEW i \in 0 .. (n + 1 - 1) PROVE h[i + 1] = h[i] + v[i]
  <2>1. CASE i = n
    <3>1. h[n] = x
      BY <1>1, <1>4
    <3> QED
      BY <1>2, <1>4, <2>1, <3>1
  <2>2. CASE i # n
    <3>1. i \in 0 .. (n - 1) /\ i \in 0 .. n /\ i + 1 \in 0 .. n
      BY <2>2
    <3>2. h[i] = g[i] /\ h[i + 1] = g[i + 1] /\ g[i + 1] = g[i] + w[i] /\ v[i] = w[i]
      BY <1>1, <1>4, <3>1
    <3> QED
      BY <3>2
  <2> QED
    BY <2>1, <2>2
<1>8. ASSUME NEW i \in 0 .. (n + 1), NEW j \in 0 .. (n + 1), i <= j PROVE h[i] <= h[j]
  <2>1. CASE j = n + 1 /\ i = n + 1
    BY <1>4, <2>1
  <2>2. CASE j = n + 1 /\ i # n + 1
    <3>1. i \in 0 .. n
      BY <2>2
    <3>2. h[i] = g[i] /\ g[i] \in Nat /\ g[i] <= x /\ h[j] = x + a
      BY <1>4, <2>2, <3>1
    <3> QED
      BY <3>2
  <2>3. CASE j # n + 1
    <3>1. i \in 0 .. n /\ j \in 0 .. n
      BY <1>8, <2>3
    <3> QED
      BY <1>1, <1>4, <1>8, <3>1
  <2> QED
    BY <2>1, <2>2, <2>3
<1>9. h[n + 1] = x + v[n]
  BY <1>2, <1>4
<1>10. \A i \in 0 .. (n + 1 - 1) : h[i + 1] = h[i] + v[i]
  BY <1>7
<1>11. \A i, j \in 0 .. (n + 1) : i <= j => h[i] <= h[j]
  BY <1>8
<1>12. PICK k, y : k \in Nat /\ k = n + 1 /\ y = x + v[n]
  OBVIOUS
<1>13. h \in [0 .. k -> Nat] /\ h[0] = 0 /\ h[k] = y
  BY <1>5, <1>6, <1>9, <1>12
<1>14. \A i \in 0 .. (k - 1) : h[i + 1] = h[i] + v[i]
  BY <1>10, <1>12
<1>15. \A i, j \in 0 .. k : i <= j => h[i] <= h[j]
  BY <1>11, <1>12
<1>16. IsSum(v, k, y)
  BY <1>13, <1>14, <1>15 DEF IsSum
<1> QED
  BY <1>12, <1>16

\* Changing one term.
LEMMA SumChange ==
  ASSUME NEW n \in Nat, NEW x \in Nat, NEW w, NEW v, IsSum(w, n, x), NEW s \in 0 .. (n - 1),
         \A i \in 0 .. (n - 1) : w[i] \in Nat /\ (i # s => v[i] = w[i]), v[s] \in Nat
  PROVE  IsSum(v, n, x - w[s] + v[s])
<1>1. PICK g \in [0 .. n -> Nat] :
        /\ g[0] = 0 /\ g[n] = x
        /\ \A i \in 0 .. (n - 1) : g[i + 1] = g[i] + w[i]
        /\ \A i, j \in 0 .. n : i <= j => g[i] <= g[j]
  BY DEF IsSum
<1>2. PICK a \in Nat, b \in Nat : a = w[s] /\ b = v[s]
  OBVIOUS
<1>3. PICK h : h = [i \in 0 .. n |-> IF i <= s THEN g[i] ELSE g[i] - a + b]
  OBVIOUS
<1>4. s \in 0 .. n /\ s + 1 \in 0 .. n /\ n \in 0 .. n /\ 0 \in 0 .. n /\ 0 <= s /\ ~(n <= s)
  OBVIOUS
<1>5. g[s] \in Nat /\ g[s + 1] = g[s] + a
  BY <1>1, <1>2, <1>4
<1>6. \A i \in 0 .. n : /\ i <= s => h[i] = g[i] /\ g[i] <= g[s]
                        /\ ~(i <= s) => h[i] = g[i] - a + b /\ g[s] + a <= g[i]
                        /\ g[i] \in Nat
  <2> SUFFICES ASSUME NEW i \in 0 .. n
               PROVE  /\ i <= s => h[i] = g[i] /\ g[i] <= g[s]
                      /\ ~(i <= s) => h[i] = g[i] - a + b /\ g[s] + a <= g[i]
                      /\ g[i] \in Nat
    OBVIOUS
  <2>1. CASE i <= s
    BY <1>1, <1>3, <1>4, <2>1
  <2>2. CASE ~(i <= s)
    <3>1. s + 1 <= i
      BY <2>2
    <3>2. g[s + 1] <= g[i]
      BY <1>1, <1>4, <3>1
    <3> QED
      BY <1>1, <1>3, <1>5, <2>2, <3>2
  <2> QED
    BY <2>1, <2>2
<1>7. h \in [0 .. n -> Nat]
  <2>1. ASSUME NEW i \in 0 .. n PROVE h[i] \in Nat
    <3>1. PICK c \in Nat, d \in Nat : c = g[i] /\ d = g[s]
      BY <1>5, <1>6
    <3>2. h[i] = c \/ (h[i] = c - a + b /\ d + a <= c)
      BY <1>6, <3>1
    <3> QED
      BY <3>1, <3>2
  <2> QED
    BY <1>3, <2>1
<1>8. h[0] = 0 /\ h[n] = x - a + b
  BY <1>1, <1>4, <1>6
<1>9. ASSUME NEW i \in 0 .. (n - 1) PROVE h[i + 1] = h[i] + v[i]
  <2>1. i \in 0 .. n /\ i + 1 \in 0 .. n /\ g[i + 1] = g[i] + w[i] /\ w[i] \in Nat /\ g[i] \in Nat
    BY <1>1
  <2>2. CASE i < s
    <3>1. h[i + 1] = g[i + 1] /\ h[i] = g[i] /\ v[i] = w[i]
      BY <1>6, <2>1, <2>2
    <3> QED
      BY <2>1, <3>1
  <2>3. CASE i = s
    <3>1. h[i + 1] = g[i + 1] - a + b /\ h[i] = g[i]
      BY <1>6, <2>1, <2>3
    <3> QED
      BY <1>2, <1>5, <2>1, <2>3, <3>1
  <2>4. CASE i > s
    <3>1. h[i + 1] = g[i + 1] - a + b /\ h[i] = g[i] - a + b /\ v[i] = w[i]
      BY <1>6, <2>1, <2>4
    <3>2. PICK c \in Nat, d \in Nat : c = g[i] /\ d = w[i]
      BY <2>1
    <3>3. g[i + 1] = c + d
      BY <2>1, <3>2
    <3>4. h[i + 1] = (c + d) - a + b /\ h[i] = c - a + b /\ v[i] = d
      BY <3>1, <3>2, <3>3
    <3>5. (c + d) - a + b = (c - a + b) + d
      BY <3>2
    <3> QED
      BY <3>4, <3>5
  <2> QED
    BY <2>2, <2>3, <2>4
<1>10. ASSUME NEW i \in 0 .. n, NEW j \in 0 .. n, i <= j PROVE h[i] <= h[j]
  <2>1. g[i] <= g[j] /\ g[i] \in Nat /\ g[j] \in Nat
    BY <1>1, <1>10
  <2>2. CASE j <= s
    BY <1>6, <1>10, <2>1, <2>2
  <2>3. CASE ~(j <= s) /\ i <= s
    <3>1. h[i] = g[i] /\ g[i] <= g[s] /\ h[j] = g[j] - a + b /\ g[s] + a <= g[j]
      BY <1>6, <2>3
    <3> QED
      BY <1>5, <2>1, <3>1
  <2>4. CASE ~(i <= s)
    <3>1. ~(j <= s)
      BY <1>10, <2>4
    <3>2. h[i] = g[i] - a + b /\ h[j] = g[j] - a + b
      BY <1>6, <2>4, <3>1
    <3> QED
      BY <2>1, <3>2
  <2> QED
    BY <2>2, <2>3, <2>4
<1> QED
  BY <1>2, <1>7, <1>8, <1>9, <1>10 DEF IsSum

(***************************************************************************)
(* Bytes.  For each sequence number, what it contributes to: the data on   *)
(* its way to the receiver, the data the receiver holds, the reports of    *)
(* consumed data on their way back, the data not acknowledged.             *)
(***************************************************************************)
Seqs(e) == 0 .. (tx_seq[e] - 1)

Unreceived(e) == [s \in Seqs(e) |-> IF Got(Peer[e], s) THEN 0 ELSE Size(log[e][s])]
Held(e) == [s \in Seqs(Peer[e]) |->
              IF s \in rxed_reliable[e] \cup consumable[e] THEN Size(log[Peer[e]][s]) ELSE 0]
Reports(e) == [s \in Seqs(e) |->
                 IF log[e][s].kind = "Consumed" /\ ~Got(Peer[e], s) THEN log[e][s].len ELSE 0]
Open(e, s) == s \in DOMAIN txed_packets[e] /\ txed_packets[e][s].st # "Received"
Unacked(e) == [s \in Seqs(e) |-> IF Open(e, s) THEN Size(log[e][s]) ELSE 0]

\* rxed_reliable_size counts what is held.
HeldInv == \A e \in EP : IsSum(Held(e), tx_seq[Peer[e]], rxed_reliable_size[e])

\* txed_unacked counts the data of the packets that are not acknowledged.
UnackedInv == \A e \in EP : IsSum(Unacked(e), tx_seq[e], txed_unacked[e])

\* txed_unconsumed counts the data on its way, held, consumed but not reported,
\* and reported in a message that has not arrived.
Balance(e, a, c) ==
  LET p == Peer[e] IN
  /\ IsSum(Unreceived(e), tx_seq[e], a) /\ IsSum(Reports(p), tx_seq[p], c)
  /\ txed_unconsumed[e] = a + rxed_reliable_size[p] + consumed_since_last_ack[p] + c
BalanceInv == \A e \in EP : \E a, c \in Nat : Balance(e, a, c)

\* All of it fits into the receive buffer.
RoomInv == \A e \in EP : txed_unconsumed[e] <= RecvBuffer[Peer[e]]

BytesInv == HeldInv /\ UnackedInv /\ BalanceInv /\ RoomInv

\* All contributions are lengths.
LEMMA TermTypes ==
  ASSUME TxType, NEW e \in EP
  PROVE  /\ tx_seq[e] \in Nat /\ tx_seq[Peer[e]] \in Nat
         /\ \A s \in Seqs(e) : Size(log[e][s]) \in Nat /\ log[e][s].len \in Nat
         /\ \A s \in Seqs(e) : /\ Unreceived(e)[s] \in Nat /\ Reports(e)[s] \in Nat
                               /\ Unacked(e)[s] \in Nat
         /\ \A s \in Seqs(Peer[e]) : Held(e)[s] \in Nat
<1>1. \A f \in EP : tx_seq[f] \in Nat
  BY DEF TxType
<1>2. \A f \in EP : \A s \in Seqs(f) : log[f][s] \in ReliableMsg
  BY DEF TxType, Seqs
<1>3. \A f \in EP : \A s \in Seqs(f) : Size(log[f][s]) \in Nat /\ log[f][s].len \in Nat
  BY <1>2 DEF Size, ReliableMsg
<1>4. Peer[e] \in EP
  BY PeerFacts
<1> QED
  BY <1>1, <1>3, <1>4 DEF Unreceived, Reports, Unacked, Held

\* The sums stand still when the contributions and the counters do.
LEMMA HeldSame ==
  ASSUME TxType, NEW f \in EP, IsSum(Held(f), tx_seq[Peer[f]], rxed_reliable_size[f]),
         tx_seq'[Peer[f]] = tx_seq[Peer[f]], log'[Peer[f]] = log[Peer[f]],
         rxed_reliable'[f] = rxed_reliable[f], consumable'[f] = consumable[f],
         rxed_reliable_size'[f] = rxed_reliable_size[f]
  PROVE  IsSum(Held(f), tx_seq[Peer[f]], rxed_reliable_size[f])'
<1>1. PICK n, w, v : n \in Nat /\ n = tx_seq[Peer[f]] /\ w = Held(f) /\ v = Held(f)'
  BY TermTypes
<1>2. \A i \in 0 .. (n - 1) : v[i] = w[i]
  BY <1>1 DEF Held, Seqs
<1>3. IsSum(v, n, rxed_reliable_size[f])
  BY <1>1, <1>2, SumSame
<1> QED
  BY <1>1, <1>3

\* The same for the packets that are not acknowledged.
LEMMA UnackedSame ==
  ASSUME TxType, NEW f \in EP, IsSum(Unacked(f), tx_seq[f], txed_unacked[f]),
         tx_seq'[f] = tx_seq[f], log'[f] = log[f], txed_unacked'[f] = txed_unacked[f],
         \A s \in Seqs(f) : Open(f, s)' <=> Open(f, s)
  PROVE  IsSum(Unacked(f), tx_seq[f], txed_unacked[f])'
<1>1. PICK n, w, v : n \in Nat /\ n = tx_seq[f] /\ w = Unacked(f) /\ v = Unacked(f)'
  BY TermTypes
<1>2. \A i \in 0 .. (n - 1) : v[i] = w[i]
  BY <1>1 DEF Unacked, Seqs
<1>3. IsSum(v, n, txed_unacked[f])
  BY <1>1, <1>2, SumSame
<1> QED
  BY <1>1, <1>3

\* The same for the data on its way.
LEMMA UnreceivedSame ==
  ASSUME TxType, NEW f \in EP, NEW a, IsSum(Unreceived(f), tx_seq[f], a),
         tx_seq'[f] = tx_seq[f], log'[f] = log[f],
         \A s \in Seqs(f) : Got(Peer[f], s)' <=> Got(Peer[f], s)
  PROVE  IsSum(Unreceived(f), tx_seq[f], a)'
<1>1. PICK n, w, v : n \in Nat /\ n = tx_seq[f] /\ w = Unreceived(f) /\ v = Unreceived(f)'
  BY TermTypes
<1>2. \A i \in 0 .. (n - 1) : v[i] = w[i]
  BY <1>1 DEF Unreceived, Seqs
<1>3. IsSum(v, n, a)
  BY <1>1, <1>2, SumSame
<1> QED
  BY <1>1, <1>3

\* The same for the reports on their way back.
LEMMA ReportsSame ==
  ASSUME TxType, NEW f \in EP, NEW a, IsSum(Reports(f), tx_seq[f], a),
         tx_seq'[f] = tx_seq[f], log'[f] = log[f],
         \A s \in Seqs(f) : Got(Peer[f], s)' <=> Got(Peer[f], s)
  PROVE  IsSum(Reports(f), tx_seq[f], a)'
<1>1. PICK n, w, v : n \in Nat /\ n = tx_seq[f] /\ w = Reports(f) /\ v = Reports(f)'
  BY TermTypes
<1>2. \A i \in 0 .. (n - 1) : v[i] = w[i]
  BY <1>1 DEF Reports, Seqs
<1>3. IsSum(v, n, a)
  BY <1>1, <1>2, SumSame
<1> QED
  BY <1>1, <1>3

\* Steps that keep all contributions.
LEMMA BytesFrame ==
  ASSUME TxType, BytesInv,
         UNCHANGED <<tx_seq, log, rx_seq, rxed_reliable, consumable, rxed_reliable_size,
                     consumed_since_last_ack, txed_unacked, txed_unconsumed>>,
         \A f \in EP : \A s \in Seqs(f) : Open(f, s)' <=> Open(f, s)
  PROVE  BytesInv'
<1>1. HeldInv'
  BY HeldSame DEF BytesInv, HeldInv
<1>2. UnackedInv'
  BY UnackedSame DEF BytesInv, UnackedInv
<1>3. BalanceInv'
  <2> SUFFICES ASSUME NEW f \in EP PROVE \E a, c \in Nat : Balance(f, a, c)'
    BY DEF BalanceInv
  <2>1. PICK a \in Nat, c \in Nat : Balance(f, a, c)
    BY DEF BytesInv, BalanceInv
  <2>2. Peer[f] \in EP
    BY PeerFacts
  <2>3. \A g \in EP : \A s \in Seqs(g) : Got(Peer[g], s)' <=> Got(Peer[g], s)
    BY DEF Got
  <2>4. IsSum(Unreceived(f), tx_seq[f], a)' /\ IsSum(Reports(Peer[f]), tx_seq[Peer[f]], c)'
    BY <2>1, <2>2, <2>3, UnreceivedSame, ReportsSame DEF Balance
  <2>5. Balance(f, a, c)'
    BY <2>1, <2>4 DEF Balance
  <2> QED
    BY <2>5
<1>4. RoomInv'
  BY DEF BytesInv, RoomInv
<1> QED
  BY <1>1, <1>2, <1>3, <1>4 DEF BytesInv

\* What a new message contributes.  Nobody has received its number yet.
LEMMA NewTerms ==
  ASSUME Core, NEW e \in EP, NEW l \in Links, NEW m \in ReliableMsg,
         SendReliableOverLink(e, l, m), UNCHANGED rxVars
  PROVE  LET n == tx_seq[e] IN
         /\ \A i \in 0 .. (n - 1) : /\ Unreceived(e)'[i] = Unreceived(e)[i]
                                    /\ Reports(e)'[i] = Reports(e)[i]
                                    /\ Unacked(e)'[i] = Unacked(e)[i]
                                    /\ Held(Peer[e])'[i] = Held(Peer[e])[i]
         /\ Unreceived(e)'[n] = Size(m) /\ Unacked(e)'[n] = Size(m)
         /\ Reports(e)'[n] = (IF m.kind = "Consumed" THEN m.len ELSE 0)
         /\ Held(Peer[e])'[n] = 0
<1>1. PICK n \in Nat : n = tx_seq[e]
  BY DEF Core, TxType
<1>2. PICK p \in EP : p = Peer[e] /\ Peer[p] = e /\ p # e
  BY PeerFacts
<1>3. /\ tx_seq'[e] = n + 1 /\ log'[e][n] = m /\ \A i \in 0 .. (n - 1) : log'[e][i] = log[e][i]
  BY <1>1, SendReliableFacts DEF Core
<1>4. Seqs(e)' = 0 .. n /\ Seqs(e) = 0 .. (n - 1)
  BY <1>1, <1>3 DEF Seqs
<1>5. \A s : Got(p, s)' <=> Got(p, s)
  BY DEF Got, rxVars
<1>6. ~Got(p, n) /\ n \notin rxed_reliable[p] \cup consumable[p]
  <2>1. rx_seq[p] \in Nat /\ rx_seq[p] <= n
    BY <1>1, <1>2 DEF Core, RxInv, RxType
  <2>2. n \notin rxed_reliable[p]
    BY <1>1, <1>2 DEF Core, RxInv
  <2>3. ~(n < rx_seq[p])
    BY <2>1
  <2>4. n \notin consumable[p]
    BY <2>3 DEF Core, RxInv
  <2> QED
    BY <2>2, <2>3, <2>4 DEF Got
<1>7. txed_packets'[e] = [i \in DOMAIN txed_packets[e] \cup {n} |->
          IF i = n THEN [st |-> "Sent", link |-> l] ELSE txed_packets[e][i]]
  BY <1>1 DEF Core, TxType, SendReliableOverLink
<1>8. Open(e, n)' /\ \A i \in 0 .. (n - 1) : Open(e, i)' <=> Open(e, i)
  BY <1>7 DEF Open
<1>9. UNCHANGED <<rxed_reliable, consumable>>
  BY DEF rxVars
<1>10. \A i \in 0 .. (n - 1) : i \in Seqs(e) /\ i \in Seqs(e)'
  BY <1>4
<1>11. n \in Seqs(e)'
  BY <1>4
<1>12. \A i \in 0 .. (n - 1) : /\ Unreceived(e)'[i] = Unreceived(e)[i]
                               /\ Reports(e)'[i] = Reports(e)[i]
  BY <1>2, <1>3, <1>5, <1>10 DEF Unreceived, Reports
<1>13. \A i \in 0 .. (n - 1) : Unacked(e)'[i] = Unacked(e)[i]
  BY <1>3, <1>8, <1>10 DEF Unacked
<1>14. \A i \in 0 .. (n - 1) : Held(p)'[i] = Held(p)[i]
  BY <1>2, <1>3, <1>9, <1>10 DEF Held
<1>15. Unreceived(e)'[n] = Size(m) /\ Reports(e)'[n] = (IF m.kind = "Consumed" THEN m.len ELSE 0)
  BY <1>2, <1>3, <1>5, <1>6, <1>11 DEF Unreceived, Reports
<1>16. Unacked(e)'[n] = Size(m)
  BY <1>3, <1>8, <1>11 DEF Unacked
<1>17. Held(p)'[n] = 0
  BY <1>2, <1>6, <1>9, <1>11 DEF Held
<1> QED
  BY <1>1, <1>2, <1>12, <1>13, <1>14, <1>15, <1>16, <1>17

\* Numbering a message keeps the books: data is sent only if it fits, and a
\* report of consumed data takes the place of what it reports.
LEMMA SendBytes ==
  ASSUME Core, BytesInv, NEW e \in EP, NEW l \in Links, NEW m \in ReliableMsg,
         SendReliableOverLink(e, l, m), UNCHANGED <<rxVars, rxed_reliable_size>>,
         Size(m) = 0 \/ txed_unconsumed[e] + Size(m) <= RecvBuffer[Peer[e]],
         \/ m.kind # "Consumed" /\ consumed_since_last_ack' = consumed_since_last_ack
         \/ /\ m.kind = "Consumed" /\ m.len = consumed_since_last_ack[e]
            /\ consumed_since_last_ack' = [consumed_since_last_ack EXCEPT ![e] = 0]
  PROVE  BytesInv'
<1>1. PICK n \in Nat : n = tx_seq[e]
  BY DEF Core, TxType
<1>2. PICK p \in EP : p = Peer[e] /\ Peer[p] = e /\ p # e /\ \A f \in EP : f = e \/ f = p
  BY PeerFacts
<1>3. PICK z \in Nat : z = Size(m)
  BY DEF Size, ReliableMsg
<1>4. PICK u, r, k, h, u1, r1, k1, h1 :
        /\ u = Unreceived(e) /\ r = Reports(e) /\ k = Unacked(e) /\ h = Held(p)
        /\ u1 = Unreceived(e)' /\ r1 = Reports(e)' /\ k1 = Unacked(e)' /\ h1 = Held(p)'
  OBVIOUS
<1>5. /\ \A i \in 0 .. (n - 1) : u1[i] = u[i] /\ r1[i] = r[i] /\ k1[i] = k[i] /\ h1[i] = h[i]
      /\ u1[n] = z /\ k1[n] = z /\ r1[n] = (IF m.kind = "Consumed" THEN m.len ELSE 0) /\ h1[n] = 0
  BY <1>1, <1>2, <1>3, <1>4, NewTerms
<1>6. /\ tx_seq'[e] = n + 1 /\ tx_seq'[p] = tx_seq[p] /\ log'[p] = log[p]
  BY <1>1, <1>2, SendReliableFacts DEF Core
<1>7. /\ txed_unacked'[e] = txed_unacked[e] + z /\ txed_unacked'[p] = txed_unacked[p]
      /\ txed_unconsumed'[e] = txed_unconsumed[e] + z /\ txed_unconsumed'[p] = txed_unconsumed[p]
  BY <1>2, <1>3 DEF SendReliableOverLink, Core, TxType
<1>8. TxType /\ UNCHANGED <<rx_seq, rxed_reliable, consumable, rxed_reliable_size>>
  BY DEF Core, rxVars
<1>9. \A f \in EP, s \in Nat : Got(f, s)' <=> Got(f, s)
  BY <1>8 DEF Got
<1>10. HeldInv'
  <2>1. IsSum(Held(e), tx_seq[Peer[e]], rxed_reliable_size[e])'
    BY <1>2, <1>6, <1>8, HeldSame DEF BytesInv, HeldInv
  <2>2. PICK x : x = rxed_reliable_size[p]
    OBVIOUS
  <2>3. IsSum(h, n, x) /\ \A i \in 0 .. (n - 1) : h[i] \in Nat
    <3>1. IsSum(h, n, x)
      BY <1>1, <1>2, <1>4, <2>2 DEF BytesInv, HeldInv
    <3>2. \A i \in 0 .. (n - 1) : h[i] \in Nat
      BY <1>1, <1>2, <1>4, <1>8, TermTypes DEF Seqs
    <3> QED
      BY <3>1, <3>2
  <2>4. x \in Nat
    BY <2>3, SumBound
  <2>8. h1[n] \in Nat /\ \A i \in 0 .. (n - 1) : h1[i] = h[i]
    BY <1>5
  <2>5. IsSum(h1, n + 1, x + h1[n])
    BY <2>3, <2>4, <2>8, SumExtend
  <2>6. x + h1[n] = rxed_reliable_size'[p]
    BY <1>5, <1>8, <2>2, <2>4
  <2>7. IsSum(Held(p), tx_seq[Peer[p]], rxed_reliable_size[p])'
    BY <1>2, <1>4, <1>6, <2>5, <2>6
  <2> QED
    BY <1>2, <2>1, <2>7 DEF HeldInv
<1>11. UnackedInv'
  <2>1. IsSum(Unacked(p), tx_seq[p], txed_unacked[p])'
    <3>1. txed_packets'[p] = txed_packets[p]
      BY <1>2 DEF SendReliableOverLink, Core, TxType
    <3>2. \A s \in Seqs(p) : Open(p, s)' <=> Open(p, s)
      BY <3>1 DEF Open
    <3> QED
      BY <1>6, <1>7, <1>8, <3>2, UnackedSame DEF BytesInv, UnackedInv
  <2>2. PICK x : x = txed_unacked[e]
    OBVIOUS
  <2>3. IsSum(k, n, x)
    BY <1>1, <1>4, <2>2 DEF BytesInv, UnackedInv
  <2>4. \A i \in 0 .. (n - 1) : k[i] \in Nat
    BY <1>1, <1>4, <1>8, TermTypes DEF Seqs
  <2>5. x \in Nat
    BY <2>3, <2>4, SumBound
  <2>6. IsSum(k1, n + 1, x + k1[n])
    BY <1>5, <2>3, <2>5, SumExtend
  <2>7. IsSum(Unacked(e), tx_seq[e], txed_unacked[e])'
    BY <1>4, <1>5, <1>6, <1>7, <2>2, <2>6
  <2> QED
    BY <1>2, <2>1, <2>7 DEF UnackedInv
<1>12. \E a, c \in Nat : Balance(e, a, c)'
  <2>1. PICK a \in Nat, c \in Nat : Balance(e, a, c)
    BY DEF BytesInv, BalanceInv
  <2>7. IsSum(u, n, a)
    BY <1>1, <1>4, <2>1 DEF Balance
  <2>8. u1[n] = z /\ \A i \in 0 .. (n - 1) : u1[i] = u[i]
    BY <1>5
  <2>2. IsSum(u1, n + 1, a + z)
    BY <2>7, <2>8, SumExtend
  <2>3. IsSum(Unreceived(e), tx_seq[e], a + z)'
    BY <1>4, <1>6, <2>2
  <2>4. IsSum(Reports(p), tx_seq[p], c)'
    <3>1. \A s \in Seqs(p) : Got(Peer[p], s)' <=> Got(Peer[p], s)
      BY <1>2, <1>9, <1>8 DEF Seqs, TxType
    <3> QED
      BY <1>2, <1>6, <1>8, <2>1, <3>1, ReportsSame DEF Balance
  <2>5. txed_unconsumed'[e] = (a + z) + rxed_reliable_size'[p] + consumed_since_last_ack'[p] + c
    <3>1. consumed_since_last_ack'[p] = consumed_since_last_ack[p]
      BY <1>2 DEF Core, ReadType
    <3>2. PICK x \in Int, y \in Int : x = rxed_reliable_size[p] /\ y = consumed_since_last_ack[p]
      BY DEF Core, ReadType
    <3>3. txed_unconsumed[e] = a + x + y + c
      BY <1>2, <2>1, <3>2 DEF Balance
    <3> QED
      BY <1>7, <1>8, <3>1, <3>2, <3>3
  <2>6. Balance(e, a + z, c)'
    BY <1>2, <2>3, <2>4, <2>5 DEF Balance
  <2> QED
    BY <2>6
<1>13. \E a, c \in Nat : Balance(p, a, c)'
  <2>1. PICK a \in Nat, c \in Nat : Balance(p, a, c)
    BY DEF BytesInv, BalanceInv
  <2>2. PICK y \in Nat : y = consumed_since_last_ack[e]
    BY DEF Core, ReadType
  <2>3. PICK d \in Nat : d = r1[n] /\ consumed_since_last_ack'[e] + d = y
    <3>1. CASE m.kind = "Consumed"
      BY <1>5, <2>2, <3>1 DEF Core, ReadType
    <3>2. CASE m.kind # "Consumed"
      BY <1>5, <2>2, <3>2
    <3> QED
      BY <3>1, <3>2
  <2>4. IsSum(r, n, c)
    BY <1>1, <1>2, <1>4, <2>1 DEF Balance
  <2>5. IsSum(r1, n + 1, c + d)
    BY <1>5, <2>3, <2>4, SumExtend
  <2>6. IsSum(Reports(e), tx_seq[e], c + d)'
    BY <1>4, <1>6, <2>5
  <2>7. IsSum(Unreceived(p), tx_seq[p], a)'
    <3>1. \A s \in Seqs(p) : Got(Peer[p], s)' <=> Got(Peer[p], s)
      BY <1>2, <1>9, <1>8 DEF Seqs, TxType
    <3> QED
      BY <1>2, <1>6, <1>8, <2>1, <3>1, UnreceivedSame DEF Balance
  <2>8. txed_unconsumed'[p] = a + rxed_reliable_size'[e] + consumed_since_last_ack'[e] + (c + d)
    <3>1. PICK x \in Int, z1 \in Int : x = rxed_reliable_size[e] /\ z1 = consumed_since_last_ack'[e]
      <4>1. consumed_since_last_ack'[e] \in Int
        BY DEF Core, ReadType
      <4> QED
        BY <4>1 DEF Core, ReadType
    <3>2. txed_unconsumed[p] = a + x + y + c
      BY <1>2, <2>1, <2>2, <3>1 DEF Balance
    <3> QED
      BY <1>7, <1>8, <2>3, <3>1, <3>2
  <2>9. Balance(p, a, c + d)'
    BY <1>2, <2>6, <2>7, <2>8 DEF Balance
  <2> QED
    BY <2>9
<1>14. RoomInv'
  <2>1. txed_unconsumed[e] <= RecvBuffer[p] /\ txed_unconsumed[p] <= RecvBuffer[e]
    BY <1>2 DEF BytesInv, RoomInv
  <2>2. txed_unconsumed'[e] <= RecvBuffer[p]
    BY <1>2, <1>3, <1>7, <2>1 DEF Core, TxType
  <2> QED
    BY <1>2, <1>7, <2>1, <2>2 DEF RoomInv
<1> QED
  BY <1>2, <1>10, <1>11, <1>12, <1>13, <1>14 DEF BytesInv, BalanceInv

\* An ack that counts takes its packet out of txed_unacked, once.
LEMMA ReceiveAckBytes ==
  ASSUME Core, BytesInv, NEW e \in EP, NEW l \in Links, ReceiveAck(e, l)
  PROVE  BytesInv'
<1>1. PICK s \in Nat : s = Head(chan[Peer[e]][l]).seq
  BY PopFacts DEF ReceiveAck, LinkMsg
<1>2. TxType /\ UNCHANGED <<tx_seq, log, rx_seq, rxed_reliable, consumable, rxed_reliable_size,
                            consumed_since_last_ack, txed_unconsumed>>
  BY DEF Core, ReceiveAck, readVars, rxVars
<1>3. CASE ~Acked(e, l, s)
  <2>1. UNCHANGED <<txed_packets, txed_unacked>>
    BY <1>1, <1>3 DEF ReceiveAck
  <2>2. \A f \in EP : \A t \in Seqs(f) : Open(f, t)' <=> Open(f, t)
    BY <2>1 DEF Open
  <2> QED
    BY <1>2, <2>1, <2>2, BytesFrame
<1>4. CASE Acked(e, l, s)
  <2>1. PICK pkts : pkts = Swiped([txed_packets[e] EXCEPT ![s] = [st |-> "Received", link |-> l]])
    OBVIOUS
  <2>2. /\ txed_packets' = [txed_packets EXCEPT ![e] = pkts]
        /\ txed_unacked' = [txed_unacked EXCEPT ![e] = txed_unacked[e] - Size(log[e][s])]
    BY <1>1, <1>4, <2>1 DEF ReceiveAck
  <2>3. /\ txed_packets'[e] = pkts /\ \A f \in EP : f # e => txed_packets'[f] = txed_packets[f]
        /\ txed_unacked'[e] = txed_unacked[e] - Size(log[e][s])
        /\ \A f \in EP : f # e => txed_unacked'[f] = txed_unacked[f]
    BY <2>2 DEF Core, TxType
  <2>4. /\ \A t \in DOMAIN pkts : t \in DOMAIN txed_packets[e]
        /\ \A t \in DOMAIN pkts : t # s => pkts[t] = txed_packets[e][t]
        /\ s \in DOMAIN pkts => pkts[s].st = "Received"
        /\ \A t \in DOMAIN txed_packets[e] :
             t # s /\ txed_packets[e][t].st # "Received" => t \in DOMAIN pkts
    BY <1>2, <1>4, <2>1, AckedFacts DEF Acked
  <2>5. Open(e, s) /\ ~Open(e, s)' /\ \A t : t # s => (Open(e, t)' <=> Open(e, t))
    <3>1. Open(e, s)
      BY <1>4 DEF Acked, Open
    <3> QED
      BY <2>3, <2>4, <3>1 DEF Open
  <2>6. PICK n \in Nat : n = tx_seq[e]
    BY <1>2, TermTypes
  <2>7. PICK w, v : w = Unacked(e) /\ v = Unacked(e)'
    OBVIOUS
  <2>8. s \in 0 .. (n - 1)
    BY <1>2, <1>4, <2>6, <2>7 DEF Acked, TxType
  <2>9. PICK z \in Nat : z = Size(log[e][s])
    BY <1>2, <2>6, <2>7, <2>8, TermTypes DEF Seqs
  <2>10. w[s] = z /\ v[s] = 0 /\ \A i \in 0 .. (n - 1) : i # s => v[i] = w[i]
    BY <1>2, <2>5, <2>6, <2>7, <2>8, <2>9 DEF Unacked, Seqs
  <2>11. \A i \in 0 .. (n - 1) : w[i] \in Nat
    BY <1>2, <2>6, <2>7, TermTypes DEF Seqs
  <2>12. PICK x : x = txed_unacked[e]
    OBVIOUS
  <2>13. IsSum(w, n, x)
    BY <2>6, <2>7, <2>12 DEF BytesInv, UnackedInv
  <2>14. x \in Nat
    BY <2>11, <2>13, SumBound
  <2>15. IsSum(v, n, x - w[s] + v[s])
    BY <2>8, <2>10, <2>11, <2>13, <2>14, SumChange
  <2>16. x - w[s] + v[s] = txed_unacked'[e]
    BY <2>3, <2>9, <2>10, <2>12, <2>14
  <2>17. IsSum(Unacked(e), tx_seq[e], txed_unacked[e])'
    BY <1>2, <2>6, <2>7, <2>15, <2>16
  <2>18. ASSUME NEW f \in EP, f # e PROVE IsSum(Unacked(f), tx_seq[f], txed_unacked[f])'
    <3>1. \A t \in Seqs(f) : Open(f, t)' <=> Open(f, t)
      BY <2>3, <2>18 DEF Open
    <3> QED
      BY <1>2, <2>3, <2>18, <3>1, UnackedSame DEF BytesInv, UnackedInv
  <2>19. UnackedInv'
    BY <2>17, <2>18 DEF UnackedInv
  <2>20. HeldInv'
    BY <1>2, HeldSame DEF BytesInv, HeldInv
  <2>21. BalanceInv'
    <3> SUFFICES ASSUME NEW f \in EP PROVE \E a, c \in Nat : Balance(f, a, c)'
      BY DEF BalanceInv
    <3>1. PICK a \in Nat, c \in Nat : Balance(f, a, c)
      BY DEF BytesInv, BalanceInv
    <3>2. Peer[f] \in EP
      BY PeerFacts
    <3>3. \A g \in EP : \A t \in Seqs(g) : Got(Peer[g], t)' <=> Got(Peer[g], t)
      BY <1>2 DEF Got
    <3>4. IsSum(Unreceived(f), tx_seq[f], a)' /\ IsSum(Reports(Peer[f]), tx_seq[Peer[f]], c)'
      BY <1>2, <3>1, <3>2, <3>3, UnreceivedSame, ReportsSame DEF Balance
    <3>5. Balance(f, a, c)'
      BY <1>2, <3>1, <3>4 DEF Balance
    <3> QED
      BY <3>5
  <2>22. RoomInv'
    BY <1>2 DEF BytesInv, RoomInv
  <2> QED
    BY <2>19, <2>20, <2>21, <2>22 DEF BytesInv
<1> QED
  BY <1>3, <1>4

\* What consuming does to the books: the data moves from what is held to what
\* has to be reported.
LEMMA ConsumeBytes ==
  ASSUME Core, BytesInv, NEW e \in EP, ConsumeReceived(e)
  PROVE  BytesInv'
<1>1. PICK s \in consumable[e] :
        LET m == log[Peer[e]][s] IN
        /\ consumable' = [consumable EXCEPT ![e] = consumable[e] \ {s}]
        /\ \/ /\ m.kind = "Data"
              /\ rxed_reliable_size' = [rxed_reliable_size EXCEPT ![e] = rxed_reliable_size[e] - m.len]
              /\ consumed_since_last_ack' =
                   [consumed_since_last_ack EXCEPT ![e] = consumed_since_last_ack[e] + m.len]
           \/ m.kind = "SendFinish" /\ UNCHANGED <<rxed_reliable_size, consumed_since_last_ack>>
  BY DEF ConsumeReceived
<1>2. TxType /\ UNCHANGED <<tx_seq, log, rx_seq, rxed_reliable, txed_packets, txed_unacked, txed_unconsumed>>
  BY DEF Core, ConsumeReceived, txVars
<1>3. PICK p \in EP : p = Peer[e] /\ Peer[p] = e /\ p # e /\ \A f \in EP : f = e \/ f = p
  BY PeerFacts
<1>4. PICK n \in Nat : n = tx_seq[p]
  BY <1>2, TermTypes
<1>5. PICK w, v : w = Held(e) /\ v = Held(e)'
  OBVIOUS
<1>6. s \in 0 .. (n - 1) /\ s \notin rxed_reliable[e]
  <2>1. s \in Nat /\ s < rx_seq[e] /\ rx_seq[e] <= n /\ rx_seq[e] \in Nat
    BY <1>3, <1>4, <1>5 DEF Core, RxInv, RxType
  <2>2. s \notin rxed_reliable[e]
    BY <2>1 DEF Core, RxInv, RxType
  <2> QED
    BY <2>1, <2>2
<1>7. PICK z \in Nat : z = Size(log[p][s])
  BY <1>2, <1>4, <1>5, <1>6, TermTypes DEF Seqs
<1>8. PICK x \in Int, y \in Nat : x = rxed_reliable_size[e] /\ y = consumed_since_last_ack[e]
  BY DEF Core, ReadType
<1>9. rxed_reliable_size'[e] = x - z /\ consumed_since_last_ack'[e] = y + z
  BY <1>1, <1>3, <1>7, <1>8 DEF Size, Core, ReadType
<1>10. /\ rxed_reliable_size'[p] = rxed_reliable_size[p]
      /\ consumed_since_last_ack'[p] = consumed_since_last_ack[p] /\ consumable'[p] = consumable[p]
      /\ consumable'[e] = consumable[e] \ {s}
  BY <1>1, <1>3 DEF Core, ReadType, RxType
<1>11. w[s] = z /\ v[s] = 0 /\ \A i \in 0 .. (n - 1) : i # s => v[i] = w[i]
  BY <1>2, <1>3, <1>4, <1>5, <1>6, <1>7, <1>10 DEF Held, Seqs
<1>12. HeldInv'
  <2>1. \A i \in 0 .. (n - 1) : w[i] \in Nat
    BY <1>2, <1>3, <1>4, <1>5, TermTypes DEF Seqs
  <2>2. IsSum(w, n, x)
    BY <1>3, <1>4, <1>5, <1>8 DEF BytesInv, HeldInv
  <2>3. x \in Nat
    BY <2>1, <2>2, SumBound
  <2>4. IsSum(v, n, x - w[s] + v[s])
    BY <1>6, <1>11, <2>1, <2>2, <2>3, SumChange
  <2>5. x - w[s] + v[s] = rxed_reliable_size'[e]
    BY <1>9, <1>11, <2>3
  <2>6. IsSum(Held(e), tx_seq[Peer[e]], rxed_reliable_size[e])'
    BY <1>2, <1>3, <1>4, <1>5, <2>4, <2>5
  <2>7. IsSum(Held(p), tx_seq[Peer[p]], rxed_reliable_size[p])'
    BY <1>2, <1>10, HeldSame DEF BytesInv, HeldInv
  <2> QED
    BY <1>3, <2>6, <2>7 DEF HeldInv
<1>13. UnackedInv'
  <2>1. \A f \in EP : \A t \in Seqs(f) : Open(f, t)' <=> Open(f, t)
    BY <1>2 DEF Open
  <2> QED
    BY <1>2, <2>1, UnackedSame DEF BytesInv, UnackedInv
<1>14. BalanceInv'
  <2> SUFFICES ASSUME NEW f \in EP PROVE \E a, c \in Nat : Balance(f, a, c)'
    BY DEF BalanceInv
  <2>1. PICK a \in Nat, c \in Nat : Balance(f, a, c)
    BY DEF BytesInv, BalanceInv
  <2>2. PICK q \in EP : q = Peer[f]
    BY PeerFacts
  <2>3. \A g \in EP : \A t \in Seqs(g) : Got(Peer[g], t)' <=> Got(Peer[g], t)
    BY <1>2 DEF Got
  <2>4. IsSum(Unreceived(f), tx_seq[f], a)' /\ IsSum(Reports(q), tx_seq[q], c)'
    BY <1>2, <2>1, <2>2, <2>3, UnreceivedSame, ReportsSame DEF Balance
  <2>5. txed_unconsumed'[f] = a + rxed_reliable_size'[q] + consumed_since_last_ack'[q] + c
    <3>1. txed_unconsumed[f] = a + rxed_reliable_size[q] + consumed_since_last_ack[q] + c
      BY <2>1, <2>2 DEF Balance
    <3>2. CASE q = e
      BY <1>2, <1>8, <1>9, <3>1, <3>2
    <3>3. CASE q = p
      BY <1>2, <1>10, <3>1, <3>3
    <3> QED
      BY <1>3, <3>2, <3>3
  <2>6. Balance(f, a, c)'
    BY <2>2, <2>4, <2>5 DEF Balance
  <2> QED
    BY <2>6
<1>15. RoomInv'
  BY <1>2 DEF BytesInv, RoomInv
<1> QED
  BY <1>12, <1>13, <1>14, <1>15 DEF BytesInv

\* A new message is received, and no other; what was received is held until it
\* is consumed, except for messages that carry no data.
LEMMA NewGot ==
  ASSUME Core, NEW e \in EP, NEW l \in Links, ReceiveNew(e, l), NEW s \in Nat,
         s = Head(chan[Peer[e]][l]).seq
  PROVE  /\ s < tx_seq[Peer[e]] /\ ~Got(e, s) /\ s \notin rxed_reliable[e] \cup consumable[e]
         /\ \A t \in Nat : Got(e, t)' <=> Got(e, t) \/ t = s
         /\ \A t \in Nat : log[Peer[e]][t].kind = "Data" =>
              (t \in (rxed_reliable[e] \cup consumable[e])'
                 <=> t \in rxed_reliable[e] \cup consumable[e] \/ t = s)
         /\ \A f \in EP : f # e => /\ rxed_reliable'[f] = rxed_reliable[f] /\ rx_seq'[f] = rx_seq[f]
                                   /\ consumable'[f] = consumable[f]
<1>1. PICK n \in rx_seq[e] .. tx_seq[Peer[e]] :
        /\ n \notin rxed_reliable[e] \cup {s} /\ rx_seq[e] .. (n - 1) \subseteq rxed_reliable[e] \cup {s}
        /\ rx_seq' = [rx_seq EXCEPT ![e] = n]
        /\ rxed_reliable' = [rxed_reliable EXCEPT ![e] = {t \in rxed_reliable[e] \cup {s} : t > n}]
        /\ consumable' = [consumable EXCEPT ![e] = consumable[e] \cup
             {t \in rx_seq[e] .. (n - 1) : log[Peer[e]][t].kind \in {"Data", "SendFinish"}}]
  BY DEF ReceiveNew
<1>2. s < tx_seq[Peer[e]] /\ ~Got(e, s)
  <2>1. Head(chan[Peer[e]][l]).type = "Reliable" /\ ~Duplicate(e, s) /\ Incoming(e, l) /\ Pop(e, l)
    BY DEF ReceiveNew
  <2> QED
    BY <2>1, PopFacts DEF Duplicate, Got
<1>3. /\ rx_seq[e] \in Nat /\ tx_seq[Peer[e]] \in Nat /\ n \in Nat /\ rx_seq[e] <= n
      /\ rxed_reliable[e] \subseteq Nat /\ consumable[e] \subseteq Nat
  <2>1. rx_seq[e] \in Nat /\ tx_seq[Peer[e]] \in Nat
    BY PeerFacts DEF Core, RxType, TxType
  <2>2. rxed_reliable[e] \subseteq Nat /\ consumable[e] \subseteq Nat
    BY DEF Core, RxType
  <2> QED
    BY <2>1, <2>2
<1>4. /\ rx_seq'[e] = n /\ rxed_reliable'[e] = {t \in rxed_reliable[e] \cup {s} : t > n}
      /\ consumable'[e] = consumable[e] \cup
           {t \in rx_seq[e] .. (n - 1) : log[Peer[e]][t].kind \in {"Data", "SendFinish"}}
  BY <1>1 DEF Core, RxType
<1>5. \A t \in rxed_reliable[e] : rx_seq[e] < t
  BY DEF Core, RxInv
<1>6. \A t \in consumable[e] : t < rx_seq[e]
  BY DEF Core, RxInv
<1>7. rx_seq[e] <= s /\ s \notin rxed_reliable[e] /\ s \notin consumable[e]
  BY <1>2, <1>3, <1>6 DEF Got
<1>8. \A t \in Nat : t \in rxed_reliable[e] \cup {s} => rx_seq[e] <= t /\ (t > n \/ t < n)
  BY <1>1, <1>3, <1>5, <1>7
<1>9. \A t \in Nat : rx_seq[e] <= t /\ t < n => t \in rxed_reliable[e] \cup {s}
  BY <1>1, <1>3
<1>10. \A t \in Nat : Got(e, t)' <=> Got(e, t) \/ t = s
  <2> SUFFICES ASSUME NEW t \in Nat PROVE Got(e, t)' <=> Got(e, t) \/ t = s
    OBVIOUS
  <2>1. Got(e, t)' <=> t < n \/ (t \in rxed_reliable[e] \cup {s} /\ t > n)
    BY <1>4 DEF Got
  <2>2. Got(e, t) <=> t < rx_seq[e] \/ t \in rxed_reliable[e]
    BY DEF Got
  <2> QED
    BY <1>3, <1>8, <1>9, <2>1, <2>2
<1>11. ASSUME NEW t \in Nat, log[Peer[e]][t].kind = "Data"
       PROVE  t \in (rxed_reliable[e] \cup consumable[e])'
                <=> t \in rxed_reliable[e] \cup consumable[e] \/ t = s
  <2>1. t \in consumable'[e] <=> t \in consumable[e] \/ (rx_seq[e] <= t /\ t < n)
    BY <1>3, <1>4, <1>11
  <2>2. t \in rxed_reliable'[e] <=> t \in rxed_reliable[e] \cup {s} /\ t > n
    BY <1>4
  <2> QED
    BY <1>8, <1>9, <2>1, <2>2
<1>12. \A f \in EP : f # e => /\ rxed_reliable'[f] = rxed_reliable[f] /\ rx_seq'[f] = rx_seq[f]
                              /\ consumable'[f] = consumable[f]
  BY <1>1 DEF Core, RxType
<1> QED
  BY <1>2, <1>7, <1>10, <1>11, <1>12

\* What a received message does to the books: data moves from the way to what
\* is held, a report is taken off what is unconsumed.
LEMMA ReceiveNewBytes ==
  ASSUME Core, BytesInv, NEW e \in EP, NEW l \in Links, ReceiveNew(e, l)
  PROVE  BytesInv'
<1>1. PICK s \in Nat : s = Head(chan[Peer[e]][l]).seq
  BY PopFacts DEF ReceiveNew, LinkMsg
<1>2. PICK p \in EP : p = Peer[e] /\ Peer[p] = e /\ p # e /\ \A f \in EP : f = e \/ f = p
  BY PeerFacts
<1>3. TxType /\ UNCHANGED <<tx_seq, log, txed_packets, txed_unacked, consumed_since_last_ack>>
  BY DEF Core, ReceiveNew
<1>4. /\ s < tx_seq[p] /\ ~Got(e, s) /\ s \notin rxed_reliable[e] \cup consumable[e]
      /\ \A t \in Nat : Got(e, t)' <=> Got(e, t) \/ t = s
      /\ \A t \in Nat : log[p][t].kind = "Data" =>
           (t \in (rxed_reliable[e] \cup consumable[e])'
              <=> t \in rxed_reliable[e] \cup consumable[e] \/ t = s)
      /\ rxed_reliable'[p] = rxed_reliable[p] /\ rx_seq'[p] = rx_seq[p] /\ consumable'[p] = consumable[p]
  BY <1>1, <1>2, NewGot
<1>5. PICK n \in Nat : n = tx_seq[p]
  BY <1>3 DEF TxType
<1>6. s \in 0 .. (n - 1) /\ Seqs(p) = 0 .. (n - 1) /\ Seqs(p)' = 0 .. (n - 1)
  BY <1>3, <1>4, <1>5 DEF Seqs
<1>7. PICK u, r, h, u1, r1, h1 :
        /\ u = Unreceived(p) /\ r = Reports(p) /\ h = Held(e)
        /\ u1 = Unreceived(p)' /\ r1 = Reports(p)' /\ h1 = Held(e)'
  OBVIOUS
<1>8. PICK z \in Nat : z = Size(log[p][s])
  BY <1>3, <1>6, TermTypes
<1>9. PICK d \in Nat : d = (IF log[p][s].kind = "Consumed" THEN log[p][s].len ELSE 0)
  BY <1>3, <1>6, TermTypes
<1>10. \A i \in 0 .. (n - 1) : u[i] \in Nat /\ r[i] \in Nat /\ h[i] \in Nat
  BY <1>2, <1>3, <1>6, <1>7, TermTypes
<1>11. u[s] = z /\ u1[s] = 0 /\ \A i \in 0 .. (n - 1) : i # s => u1[i] = u[i]
  BY <1>2, <1>3, <1>4, <1>6, <1>7, <1>8 DEF Unreceived
<1>12. r[s] = d /\ r1[s] = 0 /\ \A i \in 0 .. (n - 1) : i # s => r1[i] = r[i]
  BY <1>2, <1>3, <1>4, <1>6, <1>7, <1>9 DEF Reports
<1>13. h[s] = 0 /\ h1[s] = z /\ \A i \in 0 .. (n - 1) : i # s => h1[i] = h[i]
  <2>1. \A i \in 0 .. (n - 1) : /\ h[i] = (IF i \in rxed_reliable[e] \cup consumable[e]
                                           THEN Size(log[p][i]) ELSE 0)
                                /\ h1[i] = (IF i \in (rxed_reliable[e] \cup consumable[e])'
                                            THEN Size(log[p][i]) ELSE 0)
    BY <1>2, <1>3, <1>6, <1>7 DEF Held
  <2>2. \A i \in 0 .. (n - 1) : log[p][i].kind # "Data" => Size(log[p][i]) = 0
    BY DEF Size
  <2> QED
    BY <1>4, <1>6, <1>8, <2>1, <2>2
<1>14. /\ rxed_reliable_size'[e] = rxed_reliable_size[e] + z
       /\ rxed_reliable_size'[p] = rxed_reliable_size[p]
       /\ txed_unconsumed'[e] = txed_unconsumed[e] - d
       /\ txed_unconsumed'[p] = txed_unconsumed[p]
  <2>1. rxed_reliable_size' = [rxed_reliable_size EXCEPT ![e] = rxed_reliable_size[e] + z]
    BY <1>1, <1>2, <1>8 DEF ReceiveNew
  <2>2. txed_unconsumed' = IF log[p][s].kind = "Consumed"
          THEN [txed_unconsumed EXCEPT ![e] = txed_unconsumed[e] - log[p][s].len] ELSE txed_unconsumed
    BY <1>1, <1>2 DEF ReceiveNew
  <2>3. txed_unconsumed[e] \in Int
    BY DEF Core, TxType
  <2> QED
    BY <1>2, <1>9, <2>1, <2>2, <2>3 DEF Core, ReadType, TxType
<1>15. HeldInv'
  <2>1. PICK x : x = rxed_reliable_size[e]
    OBVIOUS
  <2>2. IsSum(h, n, x)
    BY <1>2, <1>5, <1>7, <2>1 DEF BytesInv, HeldInv
  <2>3. x \in Nat
    BY <1>10, <2>2, SumBound
  <2>4. IsSum(h1, n, x - h[s] + h1[s])
    BY <1>6, <1>10, <1>13, <2>2, <2>3, SumChange
  <2>5. x - h[s] + h1[s] = rxed_reliable_size'[e]
    BY <1>13, <1>14, <2>1, <2>3
  <2>6. IsSum(Held(e), tx_seq[Peer[e]], rxed_reliable_size[e])'
    BY <1>2, <1>3, <1>5, <1>7, <2>4, <2>5
  <2>7. IsSum(Held(p), tx_seq[Peer[p]], rxed_reliable_size[p])'
    BY <1>3, <1>4, <1>14, HeldSame DEF BytesInv, HeldInv
  <2> QED
    BY <1>2, <2>6, <2>7 DEF HeldInv
<1>16. UnackedInv'
  <2>1. \A f \in EP : \A t \in Seqs(f) : Open(f, t)' <=> Open(f, t)
    BY <1>3 DEF Open
  <2> QED
    BY <1>3, <2>1, UnackedSame DEF BytesInv, UnackedInv
<1>17. \A t \in Seqs(e) : Got(Peer[e], t)' <=> Got(Peer[e], t)
  BY <1>2, <1>4 DEF Got
<1>18. \E a, c \in Nat : Balance(p, a, c)'
  <2>1. PICK a \in Nat, c \in Nat : Balance(p, a, c)
    BY DEF BytesInv, BalanceInv
  <2>2. IsSum(u, n, a)
    BY <1>5, <1>7, <2>1 DEF Balance
  <2>3. z <= a
    BY <1>6, <1>10, <1>11, <2>2, SumBound
  <2>4. PICK b \in Nat : b = a - z
    BY <2>3
  <2>11. u1[s] \in Nat /\ \A i \in 0 .. (n - 1) : u[i] \in Nat /\ (i # s => u1[i] = u[i])
    BY <1>10, <1>11
  <2>5. IsSum(u1, n, a - u[s] + u1[s])
    BY <1>6, <2>2, <2>11, SumChange
  <2>6. a - u[s] + u1[s] = b
    BY <1>11, <2>4
  <2>7. IsSum(Unreceived(p), tx_seq[p], b)'
    BY <1>3, <1>5, <1>7, <2>5, <2>6
  <2>8. IsSum(Reports(e), tx_seq[e], c)'
    BY <1>2, <1>3, <1>17, <2>1, ReportsSame DEF Balance
  <2>9. txed_unconsumed'[p] = b + rxed_reliable_size'[e] + consumed_since_last_ack'[e] + c
    <3>1. PICK x \in Int, y \in Int : x = rxed_reliable_size[e] /\ y = consumed_since_last_ack[e]
      BY DEF Core, ReadType
    <3>2. txed_unconsumed[p] = a + x + y + c
      BY <1>2, <2>1, <3>1 DEF Balance
    <3> QED
      BY <1>3, <1>14, <2>4, <3>1, <3>2
  <2>10. Balance(p, b, c)'
    BY <1>2, <2>7, <2>8, <2>9 DEF Balance
  <2> QED
    BY <2>10
<1>19. \E a, c \in Nat : Balance(e, a, c)'
  <2>1. PICK a \in Nat, c \in Nat : Balance(e, a, c)
    BY DEF BytesInv, BalanceInv
  <2>2. IsSum(r, n, c)
    BY <1>2, <1>5, <1>7, <2>1 DEF Balance
  <2>3. d <= c
    BY <1>6, <1>10, <1>12, <2>2, SumBound
  <2>4. PICK b \in Nat : b = c - d
    BY <2>3
  <2>11. r1[s] \in Nat /\ \A i \in 0 .. (n - 1) : r[i] \in Nat /\ (i # s => r1[i] = r[i])
    BY <1>10, <1>12
  <2>5. IsSum(r1, n, c - r[s] + r1[s])
    BY <1>6, <2>2, <2>11, SumChange
  <2>6. c - r[s] + r1[s] = b
    BY <1>12, <2>4
  <2>7. IsSum(Reports(p), tx_seq[p], b)'
    BY <1>3, <1>5, <1>7, <2>5, <2>6
  <2>8. IsSum(Unreceived(e), tx_seq[e], a)'
    BY <1>3, <1>17, <2>1, UnreceivedSame DEF Balance
  <2>9. txed_unconsumed'[e] = a + rxed_reliable_size'[p] + consumed_since_last_ack'[p] + b
    <3>1. PICK x \in Int, y \in Int : x = rxed_reliable_size[p] /\ y = consumed_since_last_ack[p]
      BY DEF Core, ReadType
    <3>2. txed_unconsumed[e] = a + x + y + c
      BY <1>2, <2>1, <3>1 DEF Balance
    <3> QED
      BY <1>3, <1>14, <2>4, <3>1, <3>2
  <2>10. Balance(e, a, b)'
    BY <1>2, <2>7, <2>8, <2>9 DEF Balance
  <2> QED
    BY <2>10
<1>20. RoomInv'
  <2>1. txed_unconsumed[e] <= RecvBuffer[p] /\ txed_unconsumed[p] <= RecvBuffer[e]
        /\ txed_unconsumed[e] \in Int /\ RecvBuffer[p] \in Int
    BY <1>2, SizeAssumption DEF BytesInv, RoomInv, Core, TxType
  <2>2. txed_unconsumed'[e] <= RecvBuffer[p]
    BY <1>14, <2>1
  <2> QED
    BY <1>2, <1>14, <2>1, <2>2 DEF RoomInv
<1> QED
  BY <1>2, <1>15, <1>16, <1>18, <1>19, <1>20 DEF BytesInv, BalanceInv

(***************************************************************************)
(* How a connection ends.                                                  *)
(***************************************************************************)
\* Data messages carry the user's data.
LenInv == \A e \in EP : \A s \in DataSeqs(e) : log[e][s].len = user_data[e][log[e][s].id]

\* ReceiveFinish is sent only for a Receiver that was dropped: after the end of
\* the stream it counts as sent.
DropInv ==
  \A e \in EP :
    /\ \A s \in Seqs(e) : log[e][s].kind = "ReceiveFinish" => ~recv_alive[e]
    /\ eof[e] => receive_finish_sent[e]

\* The sending side is closed because there is nothing left to send, or nobody
\* to send it to.
NothingToSend(e) ==
  (~sender_alive[e] /\ deq[e] = Len(user_data[e])) \/ ~recv_alive[Peer[e]]
EndedInv ==
  \A e \in EP : /\ result[e] # "running" => ~write_rx[e]
                /\ result[e] \in {"running", "ok"} /\ ~write_rx[e] => NothingToSend(e)

EndInv == LenInv /\ DropInv /\ EndedInv /\ OkMeansConsumed

\* Steps that number no message and take none from a Sender.
LEMMA SteadyEnd ==
  ASSUME Core, EndInv, UNCHANGED <<log, tx_seq, deq, user_data, result>>,
         handed' \in [EP -> Nat],
         \A f \in EP : /\ sender_alive'[f] => sender_alive[f]
                       /\ recv_alive'[f] => recv_alive[f]
                       /\ handed[f] <= handed'[f]
                       /\ eof'[f] => receive_finish_sent'[f]
                       /\ write_rx'[f] => write_rx[f]
                       /\ write_rx[f] => write_rx'[f] \/ (result[f] = "running" /\ NothingToSend(f))
  PROVE  EndInv'
<1>1. LenInv'
  BY DEF EndInv, LenInv, DataSeqs, IsData
<1>2. DropInv'
  BY DEF EndInv, DropInv, Seqs
<1>3. EndedInv'
  <2> SUFFICES ASSUME NEW f \in EP
               PROVE  /\ result[f] # "running" => ~write_rx'[f]
                      /\ result[f] \in {"running", "ok"} /\ ~write_rx'[f] => NothingToSend(f)'
    BY DEF EndedInv
  <2>1. /\ result[f] # "running" => ~write_rx[f]
        /\ result[f] \in {"running", "ok"} /\ ~write_rx[f] => NothingToSend(f)
    BY DEF EndInv, EndedInv
  <2>2. NothingToSend(f) => NothingToSend(f)'
    BY PeerFacts DEF NothingToSend
  <2> QED
    BY <2>1, <2>2
<1>4. OkMeansConsumed'
  <2> SUFFICES ASSUME NEW f \in EP, result[f] = "ok"
               PROVE  /\ \A k \in (handed'[Peer[f]] + 1) .. deq[f] : user_data[f][k] = 0
                      /\ deq[f] < Len(user_data[f]) => ~recv_alive'[Peer[f]]
    BY DEF OkMeansConsumed
  <2>1. /\ \A k \in (handed[Peer[f]] + 1) .. deq[f] : user_data[f][k] = 0
        /\ deq[f] < Len(user_data[f]) => ~recv_alive[Peer[f]]
    BY DEF EndInv, OkMeansConsumed
  <2>2. PICK p \in EP : p = Peer[f]
    BY PeerFacts
  <2>3. handed[p] \in Nat /\ handed'[p] \in Nat /\ handed[p] <= handed'[p] /\ deq[f] \in Nat
    BY DEF Core, ReadType, TxType
  <2>4. (handed'[p] + 1) .. deq[f] \subseteq (handed[p] + 1) .. deq[f]
    BY <2>3
  <2> QED
    BY <2>1, <2>2, <2>4
<1> QED
  BY <1>1, <1>2, <1>3, <1>4 DEF EndInv

\* Steps that number a message.
LEMMA SendEnd ==
  ASSUME Core, EndInv, NEW e \in EP, NEW l \in Links, NEW m \in ReliableMsg,
         SendReliableOverLink(e, l, m), result[e] = "running",
         UNCHANGED <<userVars, result, handed, eof>>,
         \/ m.kind # "Data" /\ deq' = deq
         \/ /\ m = Data(deq[e] + 1, user_data[e][deq[e] + 1]) /\ deq[e] < Len(user_data[e])
            /\ deq' = [deq EXCEPT ![e] = deq[e] + 1] /\ write_rx[e] /\ write_rx' = write_rx,
         m.kind = "ReceiveFinish" => ~recv_alive[e],
         \A f \in EP : /\ receive_finish_sent[f] => receive_finish_sent'[f]
                       /\ write_rx'[f] => write_rx[f]
                       /\ write_rx[f] => write_rx'[f] \/ (f = e /\ NothingToSend(e))
  PROVE  EndInv'
<1>1. PICK n \in Nat : n = tx_seq[e]
  BY DEF Core, TxType
<1>2. /\ tx_seq'[e] = n + 1 /\ log'[e][n] = m /\ \A s \in 0 .. (n - 1) : log'[e][s] = log[e][s]
      /\ DataSeqs(e)' = DataSeqs(e) \cup {s \in {n} : m.kind = "Data"}
      /\ \A f \in EP : f # e => tx_seq'[f] = tx_seq[f] /\ log'[f] = log[f] /\ DataSeqs(f)' = DataSeqs(f)
  BY <1>1, SendReliableFacts DEF Core
<1>3. UNCHANGED <<user_data, sender_alive, recv_alive>>
  BY DEF userVars
<1>4. LenInv'
  <2> SUFFICES ASSUME NEW f \in EP, NEW s \in DataSeqs(f)'
               PROVE  log'[f][s].len = user_data[f][log'[f][s].id]
    BY <1>3 DEF LenInv
  <2>1. CASE f # e
    BY <1>2, <2>1 DEF EndInv, LenInv
  <2>2. CASE f = e /\ s \in DataSeqs(e)
    <3>1. log'[e][s] = log[e][s]
      BY <1>1, <1>2, <2>2 DEF DataSeqs
    <3> QED
      BY <2>2, <3>1 DEF EndInv, LenInv
  <2>3. CASE f = e /\ s = n /\ m.kind = "Data"
    BY <1>2, <2>3 DEF Data
  <2> QED
    BY <1>2, <2>1, <2>2, <2>3
<1>5. DropInv'
  <2>1. ASSUME NEW f \in EP, NEW s \in Seqs(f)', log'[f][s].kind = "ReceiveFinish"
        PROVE  ~recv_alive[f]
    <3>1. CASE f # e
      BY <1>2, <2>1, <3>1 DEF EndInv, DropInv, Seqs
    <3>2. CASE f = e /\ s # n
      <4>1. s \in 0 .. (n - 1) /\ s \in Seqs(e)
        BY <1>1, <1>2, <3>2 DEF Seqs
      <4> QED
        BY <1>2, <2>1, <3>2, <4>1 DEF EndInv, DropInv
    <3>3. CASE f = e /\ s = n
      BY <1>2, <2>1, <3>3
    <3> QED
      BY <3>1, <3>2, <3>3
  <2>2. \A f \in EP : eof'[f] => receive_finish_sent'[f]
    BY DEF EndInv, DropInv
  <2> QED
    BY <1>3, <2>1, <2>2 DEF DropInv
<1>6. EndedInv'
  <2> SUFFICES ASSUME NEW f \in EP
               PROVE  /\ result[f] # "running" => ~write_rx'[f]
                      /\ result[f] \in {"running", "ok"} /\ ~write_rx'[f] => NothingToSend(f)'
    BY DEF EndedInv
  <2>1. /\ result[f] # "running" => ~write_rx[f]
        /\ result[f] \in {"running", "ok"} /\ ~write_rx[f] => NothingToSend(f)
    BY DEF EndInv, EndedInv
  <2>2. CASE deq'[f] = deq[f]
    <3>1. NothingToSend(f)' <=> NothingToSend(f)
      BY <1>3, <2>2 DEF NothingToSend
    <3> QED
      BY <2>1, <3>1
  <2>3. CASE deq'[f] # deq[f]
    <3>1. f = e /\ write_rx[e] /\ write_rx' = write_rx
      BY <2>3 DEF Core, TxType
    <3> QED
      BY <3>1
  <2> QED
    BY <2>2, <2>3
<1>7. OkMeansConsumed'
  <2> SUFFICES ASSUME NEW f \in EP, result[f] = "ok"
               PROVE  /\ \A k \in (handed[Peer[f]] + 1) .. deq'[f] : user_data[f][k] = 0
                      /\ deq'[f] < Len(user_data[f]) => ~recv_alive[Peer[f]]
    BY <1>3 DEF OkMeansConsumed
  <2>1. f # e
    OBVIOUS
  <2>2. deq'[f] = deq[f]
    BY <2>1 DEF Core, TxType
  <2> QED
    BY <2>2 DEF EndInv, OkMeansConsumed
<1> QED
  BY <1>4, <1>5, <1>6, <1>7 DEF EndInv

\* When everything was transferred, what the peer has not consumed is empty.
LEMMA AllConsumed ==
  ASSUME Core, BytesInv, EndInv, NEW e \in EP, AllTransferred(e)
  PROVE  \A k \in (handed[Peer[e]] + 1) .. deq[e] : user_data[e][k] = 0
<1>1. PICK p \in EP : p = Peer[e] /\ Peer[p] = e
  BY PeerFacts
<1>2. PICK n \in Nat : n = tx_seq[e]
  BY DEF Core, TxType
<1>3. \A s \in 0 .. (n - 1) : Got(p, s)
  BY <1>1, <1>2 DEF Core, AckedReceived, AllTransferred
<1>4. rx_seq[p] = n
  <2>1. rx_seq[p] \in Nat /\ rx_seq[p] <= n /\ rx_seq[p] \notin rxed_reliable[p]
    BY <1>1, <1>2 DEF Core, RxInv, RxType
  <2>2. CASE rx_seq[p] < n
    <3>1. Got(p, rx_seq[p])
      BY <1>3, <2>1, <2>2
    <3> QED
      BY <2>1, <3>1 DEF Got
  <2> QED
    BY <2>1, <2>2
<1>5. PICK w : w = Held(p)
  OBVIOUS
<1>6. \A i \in 0 .. (n - 1) : w[i] \in Nat
  BY <1>1, <1>2, <1>5, TermTypes DEF Core, Seqs
<1>7. PICK x : x = rxed_reliable_size[p]
  OBVIOUS
<1>8. IsSum(w, n, x)
  BY <1>1, <1>2, <1>5, <1>7 DEF BytesInv, HeldInv
<1>9. x \in Nat /\ \A i \in 0 .. (n - 1) : w[i] <= x
  BY <1>6, <1>8, SumBound
<1>10. x = 0
  <2>1. PICK a \in Nat, c \in Nat : Balance(e, a, c)
    BY DEF BytesInv, BalanceInv
  <2>2. PICK y \in Nat : y = consumed_since_last_ack[p]
    BY DEF Core, ReadType
  <2>3. 0 = a + x + y + c
    BY <1>1, <1>7, <2>1, <2>2 DEF Balance, AllTransferred
  <2> QED
    BY <1>9, <2>3
<1>11. \A i \in 0 .. (n - 1) : w[i] = 0
  BY <1>6, <1>9, <1>10
<1> SUFFICES ASSUME NEW k \in (handed[p] + 1) .. deq[e] PROVE user_data[e][k] = 0
  BY <1>1
<1>12. k \in 1 .. deq[e] /\ k > handed[p] /\ k \in Nat
  <2>1. PICK a \in Nat, b \in Nat : a = handed[p] /\ b = deq[e]
    BY <1>1 DEF Core, ReadType, TxType
  <2> QED
    BY <2>1
<1>13. PICK s \in DataSeqs(e) : log[e][s].id = k
  BY <1>12 DEF Core, LogInv
<1>14. s \in 0 .. (n - 1) /\ log[e][s].kind = "Data"
  BY <1>2, <1>13 DEF DataSeqs, IsData
<1>15. s \in consumable[p]
  <2>1. s < rx_seq[p]
    BY <1>4, <1>14
  <2> QED
    BY <1>1, <1>12, <1>13, <2>1 DEF Core, ConsumeInv
<1>16. w[s] = log[e][s].len
  BY <1>1, <1>2, <1>5, <1>14, <1>15 DEF Held, Seqs, Size
<1>17. log[e][s].len = user_data[e][k]
  BY <1>13 DEF EndInv, LenInv
<1> QED
  BY <1>11, <1>14, <1>16, <1>17

\* Leaving the main loop.
LEMMA ExitEnd ==
  ASSUME Core, EndInv, NEW e \in EP, NEW r, Exit(e, r), r # "running", result[e] = "running",
         r = "ok" => /\ ~write_rx[e]
                     /\ \A k \in (handed[Peer[e]] + 1) .. deq[e] : user_data[e][k] = 0
  PROVE  EndInv'
<1>1. /\ result' = [result EXCEPT ![e] = r] /\ write_rx' = [write_rx EXCEPT ![e] = FALSE]
      /\ UNCHANGED <<log, tx_seq, deq, user_data, sender_alive, recv_alive, handed, eof,
                     receive_finish_sent>>
  BY DEF Exit, txVars, userVars, readVars
<1>2. /\ result'[e] = r /\ ~write_rx'[e]
      /\ \A f \in EP : f # e => result'[f] = result[f] /\ write_rx'[f] = write_rx[f]
  BY <1>1 DEF Core, CloseType
<1>3. LenInv' /\ DropInv'
  BY <1>1 DEF EndInv, LenInv, DropInv, DataSeqs, IsData, Seqs
<1>4. EndedInv'
  BY <1>1, <1>2 DEF EndInv, EndedInv, NothingToSend
<1>5. OkMeansConsumed'
  <2> SUFFICES ASSUME NEW f \in EP, result'[f] = "ok"
               PROVE  /\ \A k \in (handed[Peer[f]] + 1) .. deq[f] : user_data[f][k] = 0
                      /\ deq[f] < Len(user_data[f]) => ~recv_alive[Peer[f]]
    BY <1>1 DEF OkMeansConsumed
  <2>1. CASE f # e
    BY <1>2, <2>1 DEF EndInv, OkMeansConsumed
  <2>2. CASE f = e
    <3>1. r = "ok" /\ NothingToSend(e)
      BY <1>2, <2>2 DEF EndInv, EndedInv
    <3>2. deq[e] = Len(user_data[e]) => ~(deq[e] < Len(user_data[e]))
      BY DEF Core, TxType
    <3> QED
      BY <2>2, <3>1, <3>2 DEF NothingToSend
  <2> QED
    BY <2>1, <2>2
<1> QED
  BY <1>3, <1>4, <1>5 DEF EndInv

(***************************************************************************)
(* The inductive invariant, step by step.                                  *)
(***************************************************************************)
FlowInv == PacketInv /\ BytesInv /\ EndInv

\* Steps that keep the contents of all messages, all counters and all results.
Steady ==
  UNCHANGED <<userVars, readVars, closeVars, rxVars, deq, log, tx_seq, txed_unacked,
              txed_unconsumed, result>>

\* They keep FlowInv if they keep the packets in order and acknowledge none.
LEMMA SteadyFlow ==
  ASSUME Core, FlowInv, Steady, PacketInv',
         \A f \in EP : \A s \in Seqs(f) : Open(f, s)' <=> Open(f, s)
  PROVE  FlowInv'
<1> USE DEF Steady, userVars, readVars, closeVars, rxVars
<1>1. BytesInv'
  BY BytesFrame DEF Core, FlowInv
<1>2. \A f \in EP : handed[f] <= handed'[f]
  BY DEF Core, ReadType
<1>3. EndInv'
  <2>1. handed' \in [EP -> Nat]
    BY DEF Core, ReadType
  <2>2. \A f \in EP : eof'[f] => receive_finish_sent'[f]
    BY DEF FlowInv, EndInv, DropInv
  <2> QED
    BY <1>2, <2>1, <2>2, SteadyEnd DEF FlowInv
<1> QED
  BY <1>1, <1>3 DEF FlowInv

\* Steps that touch packets only by what happens to links.
LEMMA QuietFlow ==
  ASSUME Core, FlowInv, UNCHANGED <<userVars, readVars, closeVars, txVars, rxVars, result>>, PacketInv'
  PROVE  FlowInv'
<1>1. Steady /\ UNCHANGED txed_packets
  BY DEF Steady, txVars
<1>2. \A f \in EP : \A s \in Seqs(f) : Open(f, s)' <=> Open(f, s)
  BY <1>1 DEF Open
<1> QED
  BY <1>1, <1>2, SteadyFlow

\* Queueing the packets of a link for resending acknowledges none.
LEMMA UnconfirmOpen ==
  ASSUME Core, NEW e \in EP, NEW l \in Links, Unconfirm(e, l)
  PROVE  Steady /\ \A f \in EP : \A s \in Seqs(f) : Open(f, s)' <=> Open(f, s)
<1>1. Steady
  BY DEF Unconfirm, Steady
<1>2. PICK pkts : pkts = [s \in DOMAIN txed_packets[e] |->
        IF s \in SentOver(e, l) THEN [st |-> "ResendQueued", link |-> l] ELSE txed_packets[e][s]]
  OBVIOUS
<1>3. txed_packets' = [txed_packets EXCEPT ![e] = pkts]
  BY <1>2 DEF Unconfirm
<1>4. txed_packets'[e] = pkts /\ \A f \in EP : f # e => txed_packets'[f] = txed_packets[f]
  BY <1>3 DEF Core, TxType
<1>5. DOMAIN pkts = DOMAIN txed_packets[e]
  BY <1>2
<1>6. ASSUME NEW s \in DOMAIN txed_packets[e]
      PROVE  pkts[s].st # "Received" <=> txed_packets[e][s].st # "Received"
  BY <1>2 DEF SentOver
<1> QED
  BY <1>1, <1>4, <1>5, <1>6 DEF Open

\* Neither does sending one of them again.
LEMMA ResendOpen ==
  ASSUME Core, PacketInv, NEW e \in EP, NEW l \in Links, Resend(e, l)
  PROVE  Steady /\ \A f \in EP : \A s \in Seqs(f) : Open(f, s)' <=> Open(f, s)
<1>1. Steady
  BY DEF Resend, Steady
<1>2. PICK s \in resend_queue[e] : txed_packets' = [txed_packets EXCEPT ![e] =
             [txed_packets[e] EXCEPT ![s] = [st |-> "Sent", link |-> l]]]
  BY DEF Resend
<1>3. s \in DOMAIN txed_packets[e] /\ txed_packets[e][s].st = "ResendQueued"
  BY DEF PacketInv, QueueOK, Resend, Running
<1>4. PICK pkts : pkts = [txed_packets[e] EXCEPT ![s] = [st |-> "Sent", link |-> l]]
  OBVIOUS
<1>5. txed_packets'[e] = pkts /\ \A f \in EP : f # e => txed_packets'[f] = txed_packets[f]
  BY <1>2, <1>4 DEF Core, TxType
<1>6. txed_packets[e] \in [DOMAIN txed_packets[e] -> Status]
  BY DEF Core, TxType
<1>7. DOMAIN pkts = DOMAIN txed_packets[e] /\ pkts[s] = [st |-> "Sent", link |-> l]
      /\ \A t \in DOMAIN txed_packets[e] : t # s => pkts[t] = txed_packets[e][t]
  BY <1>3, <1>4, <1>6
<1> QED
  BY <1>1, <1>3, <1>5, <1>7 DEF Open

\* Links come and go.
LEMMA LinksFlow ==
  ASSUME Core, FlowInv, NEW e \in EP, NEW l \in Links,
         \/ SendAck(e, l) \/ Resend(e, l) \/ AddLink(e, l) \/ ConfirmLink(e, l)
         \/ ConfirmTimedOut(e, l) \/ CheckLinkLimits(e, l) \/ DisconnectLink(e, l) \/ RemoveLink(e, l)
         \/ ReceiveDuplicate(e, l)
  PROVE  FlowInv'
<1>0. PacketInv
  BY DEF FlowInv
<1>1. CASE SendAck(e, l)
  BY <1>0, <1>1, SendAckPackets, QuietFlow DEF SendAck
<1>2. CASE AddLink(e, l) \/ ConfirmLink(e, l)
  BY <1>0, <1>2, NewLinkPackets, QuietFlow DEF AddLink, ConfirmLink
<1>3. CASE ReceiveDuplicate(e, l)
  BY <1>0, <1>3, ReceivePackets, QuietFlow DEF ReceiveDuplicate
<1>4. CASE Resend(e, l)
  <2>1. PacketInv'
    BY <1>0, <1>4, ResendPackets
  <2>2. Steady /\ \A f \in EP : \A s \in Seqs(f) : Open(f, s)' <=> Open(f, s)
    BY <1>0, <1>4, ResendOpen
  <2> QED
    BY <2>1, <2>2, SteadyFlow
<1>5. CASE ConfirmTimedOut(e, l) \/ CheckLinkLimits(e, l) \/ DisconnectLink(e, l) \/ RemoveLink(e, l)
  <2>1. PacketInv'
    BY <1>0, <1>5, UnconfirmLinkPackets, LeavePackets
  <2>2. Unconfirm(e, l)
    BY <1>5 DEF ConfirmTimedOut, CheckLinkLimits, UnconfirmLink, DisconnectLink, RemoveLink
  <2>3. Steady /\ \A f \in EP : \A s \in Seqs(f) : Open(f, s)' <=> Open(f, s)
    BY <2>2, UnconfirmOpen
  <2> QED
    BY <2>1, <2>3, SteadyFlow
<1> QED
  BY <1>1, <1>2, <1>3, <1>4, <1>5

\* Sending a control message: SendFinish for a Sender that is done, or
\* ReceiveFinish for a Receiver that was dropped.
LEMMA CtrlFlow ==
  ASSUME Core, FlowInv, NEW e \in EP, NEW l \in Links, NEW k \in Kinds \ {"Data", "Consumed"},
         SendReliableOverLink(e, l, Ctrl(k)), CanSubmit(e, l), result[e] = "running",
         UNCHANGED <<userVars, readVars, rxVars, deq, result>>,
         k = "ReceiveFinish" => ~recv_alive[e],
         \A f \in EP : /\ receive_finish_sent[f] => receive_finish_sent'[f]
                       /\ write_rx'[f] => write_rx[f]
                       /\ write_rx[f] => write_rx'[f] \/ (f = e /\ NothingToSend(e))
  PROVE  FlowInv'
<1>1. PICK m : m = Ctrl(k)
  OBVIOUS
<1>2. m \in ReliableMsg /\ m.kind = k /\ Size(m) = 0 /\ SendReliableOverLink(e, l, m)
  BY <1>1, CtrlMsg DEF Size
<1>3. UNCHANGED <<handed, eof, rxed_reliable_size, consumed_since_last_ack>>
  BY DEF readVars
<1>4. PacketInv'
  BY <1>2, SendPackets DEF FlowInv
<1>5. BytesInv'
  BY <1>2, <1>3, SendBytes DEF FlowInv
<1>6. EndInv'
  BY <1>2, <1>3, SendEnd DEF FlowInv
<1> QED
  BY <1>4, <1>5, <1>6 DEF FlowInv

\* Sending ReceiveFinish late: end of stream does not need it.
LEMMA DroppedFacts ==
  ASSUME Core, EndInv, NEW e \in EP, result[e] = "running", ReceiveFinishPending(e)
  PROVE  ~recv_alive[e]
BY DEF Core, DeliveredInv, EndInv, DropInv, ReceiveFinishPending

\* Closing messages that had to wait.
LEMMA SendCtrlFlow ==
  ASSUME Core, FlowInv, NEW e \in EP, NEW l \in Links,
         SendReceiveClose(e, l) \/ SendReceiveFinish(e, l) \/ SendSendFinish(e, l)
  PROVE  FlowInv'
<1>1. /\ result[e] = "running" /\ CanSubmit(e, l)
      /\ UNCHANGED <<userVars, readVars, rxVars, deq, result, write_rx>>
      /\ \A f \in EP : receive_finish_sent[f] => receive_finish_sent'[f]
  BY DEF SendReceiveClose, SendReceiveFinish, SendSendFinish, Running, Core, CloseType
<1>2. PICK k \in Kinds \ {"Data", "Consumed"} :
        /\ SendReliableOverLink(e, l, Ctrl(k))
        /\ k = "ReceiveFinish" => ReceiveFinishPending(e)
  BY DEF SendReceiveClose, SendReceiveFinish, SendSendFinish, Kinds
<1>3. k = "ReceiveFinish" => ~recv_alive[e]
  BY <1>1, <1>2, DroppedFacts DEF FlowInv
<1> QED
  BY <1>1, <1>2, <1>3, CtrlFlow

\* Reporting what was consumed.
LEMMA SendConsumedFlow ==
  ASSUME Core, FlowInv, NEW e \in EP, NEW l \in Links, SendConsumed(e, l)
  PROVE  FlowInv'
<1>1. PICK m : m = Consumed(consumed_since_last_ack[e])
  OBVIOUS
<1>2. /\ m \in ReliableMsg /\ m.kind = "Consumed" /\ m.len = consumed_since_last_ack[e] /\ Size(m) = 0
  BY <1>1 DEF Core, ReadType, Consumed, ReliableMsg, Kinds, Size
<1>3. /\ SendReliableOverLink(e, l, m) /\ CanSubmit(e, l) /\ result[e] = "running"
      /\ UNCHANGED <<userVars, rxVars, result, handed, eof, rxed_reliable_size, deq, write_rx,
                     receive_finish_sent>>
      /\ consumed_since_last_ack' = [consumed_since_last_ack EXCEPT ![e] = 0]
  BY <1>1 DEF SendConsumed, Running, closeVars
<1>4. PacketInv'
  BY <1>2, <1>3, SendPackets DEF FlowInv
<1>5. BytesInv'
  BY <1>2, <1>3, SendBytes DEF FlowInv
<1>6. EndInv'
  BY <1>2, <1>3, SendEnd DEF FlowInv
<1> QED
  BY <1>4, <1>5, <1>6 DEF FlowInv

\* Sending data that fits into the peer's receive buffer.
LEMMA SendDataFlow ==
  ASSUME Core, FlowInv, NEW e \in EP, NEW l \in Links, SendData(e, l)
  PROVE  FlowInv'
<1>1. PICK n \in Nat : n = deq[e]
  BY DEF Core, TxType
<1>2. PICK z \in Nat : z = user_data[e][n + 1]
  <2>1. user_data[e] \in Seq(Nat) /\ n + 1 \in 1 .. Len(user_data[e])
    BY <1>1 DEF Core, UserType, SendData
  <2> QED
    BY <2>1
<1>3. PICK m : m = Data(n + 1, z)
  OBVIOUS
<1>4. m \in ReliableMsg /\ m.kind = "Data" /\ Size(m) = z
  BY <1>3 DEF Data, ReliableMsg, Kinds, Size
<1>5. /\ SendReliableOverLink(e, l, m) /\ CanSubmit(e, l) /\ result[e] = "running" /\ write_rx[e]
      /\ UNCHANGED <<userVars, rxVars, result, handed, eof, rxed_reliable_size,
                     consumed_since_last_ack, write_rx, receive_finish_sent>>
      /\ deq' = [deq EXCEPT ![e] = deq[e] + 1]
      /\ m = Data(deq[e] + 1, user_data[e][deq[e] + 1])
  BY <1>1, <1>2, <1>3 DEF SendData, Running, closeVars, readVars
<1>6. deq[e] < Len(user_data[e])
  <2>1. Len(user_data[e]) \in Nat /\ n + 1 <= Len(user_data[e])
    BY <1>1 DEF Core, UserType, SendData
  <2> QED
    BY <1>1, <2>1
<1>7. Size(m) = 0 \/ txed_unconsumed[e] + Size(m) <= RecvBuffer[Peer[e]]
  BY <1>1, <1>2, <1>4 DEF SendData, FitsTxSpace
<1>8. PacketInv'
  BY <1>4, <1>5, SendPackets DEF FlowInv
<1>9. BytesInv'
  BY <1>4, <1>5, <1>7, SendBytes DEF FlowInv
<1>10. EndInv'
  BY <1>4, <1>5, <1>6, SendEnd DEF FlowInv
<1> QED
  BY <1>8, <1>9, <1>10 DEF FlowInv

\* Noticing the end of the Sender, and a Receiver that was closed or dropped:
\* the closing message goes out now or later.
LEMMA CloseFlow ==
  ASSUME Core, FlowInv, NEW e \in EP, WriteEnd(e) \/ ReadDropped(e) \/ ReadClosed(e)
  PROVE  FlowInv'
<1>1. /\ result[e] = "running" /\ deq' = deq
      /\ UNCHANGED <<userVars, readVars, rxVars, result>>
      /\ \A f \in EP : receive_finish_sent[f] => receive_finish_sent'[f]
      /\ \A f \in EP : write_rx'[f] => write_rx[f]
  BY DEF WriteEnd, ReadDropped, ReadClosed, Running, txVars, Core, CloseType
<1>2. \A f \in EP : write_rx[f] => write_rx'[f] \/ (f = e /\ NothingToSend(e))
  BY DEF WriteEnd, ReadDropped, ReadClosed, Core, CloseType, NothingToSend
<1>3. CASE \E l \in Links : \E k \in Kinds \ {"Data", "Consumed"} :
             /\ CanSubmit(e, l) /\ SendReliableOverLink(e, l, Ctrl(k))
             /\ k = "ReceiveFinish" => ~recv_alive[e]
  BY <1>1, <1>2, <1>3, CtrlFlow
<1>4. CASE UNCHANGED <<txVars, linkVars>>
  <2>1. PacketInv'
    BY <1>1, <1>4, PacketFrame DEF FlowInv, txVars, linkVars
  <2>2. BytesInv'
    <3>1. \A f \in EP : \A s \in Seqs(f) : Open(f, s)' <=> Open(f, s)
      BY <1>4 DEF Open, txVars
    <3> QED
      BY <1>1, <1>4, <3>1, BytesFrame DEF FlowInv, Core, txVars, readVars, rxVars
  <2>3. EndInv'
    <3>1. handed' \in [EP -> Nat] /\ \A f \in EP : handed[f] <= handed'[f]
      BY <1>1 DEF readVars, Core, ReadType
    <3>2. \A f \in EP : eof'[f] => receive_finish_sent'[f]
      BY <1>1 DEF FlowInv, EndInv, DropInv, readVars
    <3>3. UNCHANGED <<log, tx_seq, deq, user_data, result, sender_alive, recv_alive>>
      BY <1>1, <1>4 DEF txVars, userVars
    <3> QED
      BY <1>1, <1>2, <3>1, <3>2, <3>3, SteadyEnd DEF FlowInv
  <2> QED
    BY <2>1, <2>2, <2>3 DEF FlowInv
<1> QED
  BY <1>3, <1>4 DEF WriteEnd, ReadDropped, ReadClosed, Kinds

\* An ack changes packets and txed_unacked only.
LEMMA ReceiveAckFlow ==
  ASSUME Core, FlowInv, NEW e \in EP, NEW l \in Links, ReceiveAck(e, l)
  PROVE  FlowInv'
<1>1. PacketInv' /\ BytesInv'
  BY ReceiveAckPackets, ReceiveAckBytes DEF FlowInv
<1>2. UNCHANGED <<log, tx_seq, deq, user_data, result, sender_alive, recv_alive, handed, eof,
                  write_rx, receive_finish_sent>>
  BY DEF ReceiveAck, userVars, readVars, closeVars
<1>3. handed' \in [EP -> Nat] /\ \A f \in EP : handed[f] <= handed'[f]
  BY <1>2 DEF Core, ReadType
<1>4. \A f \in EP : eof'[f] => receive_finish_sent'[f]
  BY <1>2 DEF FlowInv, EndInv, DropInv
<1>5. EndInv'
  BY <1>2, <1>3, <1>4, SteadyEnd DEF FlowInv
<1> QED
  BY <1>1, <1>5 DEF FlowInv

\* A new message closes the sending side only if it is ReceiveFinish, which
\* says that the peer's Receiver was dropped.
LEMMA ReceiveNewFlow ==
  ASSUME Core, FlowInv, NEW e \in EP, NEW l \in Links, ReceiveNew(e, l)
  PROVE  FlowInv'
<1>1. PacketInv' /\ BytesInv'
  BY ReceivePackets, ReceiveNewBytes DEF FlowInv
<1>2. PICK p \in EP : p = Peer[e]
  BY PeerFacts
<1>3. PICK s \in Nat : s = Head(chan[p][l]).seq /\ s < tx_seq[p]
  BY <1>2, PopFacts DEF ReceiveNew, LinkMsg
<1>4. s \in Seqs(p)
  BY <1>3 DEF Seqs, Core, TxType
<1>5. UNCHANGED <<log, tx_seq, deq, user_data, result, sender_alive, recv_alive, handed, eof,
                  receive_finish_sent>>
      /\ result[e] = "running"
  BY DEF ReceiveNew, Incoming, Running, userVars
<1>6. write_rx' = [write_rx EXCEPT ![e] = write_rx[e] /\ log[p][s].kind # "ReceiveFinish"]
  BY <1>2, <1>3 DEF ReceiveNew
<1>7. /\ \A f \in EP : write_rx'[f] => write_rx[f]
      /\ \A f \in EP : f # e => write_rx'[f] = write_rx[f]
      /\ write_rx[e] /\ ~write_rx'[e] => log[p][s].kind = "ReceiveFinish"
  BY <1>6 DEF Core, CloseType
<1>8. write_rx[e] => write_rx'[e] \/ NothingToSend(e)
  BY <1>2, <1>4, <1>7 DEF FlowInv, EndInv, DropInv, NothingToSend
<1>9. handed' \in [EP -> Nat] /\ \A f \in EP : handed[f] <= handed'[f]
  BY <1>5 DEF Core, ReadType
<1>10. \A f \in EP : eof'[f] => receive_finish_sent'[f]
  BY <1>5 DEF FlowInv, EndInv, DropInv
<1>11. EndInv'
  BY <1>5, <1>7, <1>8, <1>9, <1>10, SteadyEnd DEF FlowInv
<1> QED
  BY <1>1, <1>11 DEF FlowInv

\* Consuming hands out more data, or the end of the stream.
LEMMA ConsumeFlow ==
  ASSUME Core, FlowInv, NEW e \in EP, ConsumeReceived(e)
  PROVE  FlowInv'
<1>1. PacketInv'
  BY PacketFrame DEF FlowInv, ConsumeReceived, txVars, linkVars
<1>2. BytesInv'
  BY ConsumeBytes DEF FlowInv
<1>3. UNCHANGED <<log, tx_seq, deq, user_data, result, sender_alive, recv_alive, write_rx>>
  BY DEF ConsumeReceived, userVars, txVars
<1>4. handed' = handed \/ handed' = [handed EXCEPT ![e] = handed[e] + 1]
  BY DEF ConsumeReceived
<1>5. handed' \in [EP -> Nat] /\ \A f \in EP : handed[f] <= handed'[f]
  <2>1. handed \in [EP -> Nat] /\ handed[e] + 1 \in Nat /\ handed[e] <= handed[e] + 1
    BY DEF Core, ReadType
  <2>2. ASSUME NEW f \in EP PROVE handed[f] <= handed[f]
    BY <2>1
  <2>3. \A f \in EP : handed'[f] = handed[f] \/ (f = e /\ handed'[f] = handed[e] + 1)
    BY <1>4, <2>1
  <2> QED
    BY <1>4, <2>1, <2>2, <2>3
<1>6. \A f \in EP : eof'[f] => receive_finish_sent'[f]
  <2>1. \/ UNCHANGED <<eof, receive_finish_sent>>
        \/ /\ eof' = [eof EXCEPT ![e] = TRUE]
           /\ receive_finish_sent' = [receive_finish_sent EXCEPT ![e] = TRUE]
    BY DEF ConsumeReceived
  <2> QED
    BY <2>1 DEF FlowInv, EndInv, DropInv, Core, ReadType, CloseType
<1>7. EndInv'
  BY <1>3, <1>5, <1>6, SteadyEnd DEF FlowInv
<1> QED
  BY <1>1, <1>2, <1>7 DEF FlowInv

\* Leaving the main loop, for whatever reason.
LEMMA ExitFlow ==
  ASSUME Core, FlowInv, NEW e \in EP, NEW r, Exit(e, r), r # "running", result[e] = "running",
         r = "ok" => ~write_rx[e] /\ AllTransferred(e)
  PROVE  FlowInv'
<1>1. PacketInv'
  BY ExitPackets DEF FlowInv
<1>2. BytesInv'
  <2>1. \A f \in EP : \A s \in Seqs(f) : Open(f, s)' <=> Open(f, s)
    BY DEF Open, Exit, txVars
  <2> QED
    BY <2>1, BytesFrame DEF FlowInv, Core, Exit, txVars, readVars, rxVars
<1>3. r = "ok" => \A k \in (handed[Peer[e]] + 1) .. deq[e] : user_data[e][k] = 0
  BY AllConsumed DEF FlowInv
<1>4. EndInv'
  BY <1>3, ExitEnd DEF FlowInv
<1> QED
  BY <1>1, <1>2, <1>4 DEF FlowInv

\* The five ways to leave it.
LEMMA ExitsFlow ==
  ASSUME Core, FlowInv, NEW e \in EP,
         \/ Finish(e) \/ FinishTimeout(e) \/ AllLinksFailed(e) \/ NoLinksTimeout(e)
         \/ \E l \in Links : ReceiveInvalid(e, l)
  PROVE  FlowInv'
<1>1. CASE Finish(e)
  <2>1. PICK r : r = IF AllTransferred(e) THEN "ok" ELSE "cut"
    OBVIOUS
  <2>2. Exit(e, r) /\ r # "running" /\ result[e] = "running"
        /\ (r = "ok" => ~write_rx[e] /\ AllTransferred(e))
    BY <1>1, <2>1 DEF Finish, GracefulExit
  <2> QED
    BY <2>2, ExitFlow
<1>2. CASE FinishTimeout(e)
  BY <1>2, ExitFlow DEF FinishTimeout, Running
<1>3. CASE AllLinksFailed(e) \/ NoLinksTimeout(e)
  BY <1>3, ExitFlow DEF AllLinksFailed, NoLinksTimeout, Running
<1>4. CASE \E l \in Links : ReceiveInvalid(e, l)
  BY <1>4, ExitFlow DEF ReceiveInvalid, Incoming, Running
<1> QED
  BY <1>1, <1>2, <1>3, <1>4

\* The users: data is sent only while the task takes it.
LEMMA UserFlow ==
  ASSUME Core, FlowInv, NEW e \in EP, User(e)
  PROVE  FlowInv'
<1>1. UNCHANGED <<readVars, closeVars, txVars, rxVars, linkVars, result>>
  BY DEF User
<1>2. PacketInv'
  BY <1>1, PacketFrame DEF FlowInv, txVars, linkVars
<1>3. BytesInv'
  <2>1. \A f \in EP : \A s \in Seqs(f) : Open(f, s)' <=> Open(f, s)
    BY <1>1 DEF Open, txVars
  <2> QED
    BY <1>1, <2>1, BytesFrame DEF FlowInv, Core, txVars, readVars, rxVars
<1>4. CASE user_data' = user_data
  <2>1. \A f \in EP : (sender_alive'[f] => sender_alive[f]) /\ (recv_alive'[f] => recv_alive[f])
    BY DEF User, UserSend, UserDropSender, UserClose, UserDropReceiver, Core, UserType
  <2>2. handed' \in [EP -> Nat] /\ \A f \in EP : handed[f] <= handed'[f]
    BY <1>1 DEF readVars, Core, ReadType
  <2>3. \A f \in EP : eof'[f] => receive_finish_sent'[f]
    BY <1>1 DEF FlowInv, EndInv, DropInv, readVars, closeVars
  <2>4. UNCHANGED <<log, tx_seq, deq, user_data, result, write_rx>>
    BY <1>1, <1>4 DEF txVars, closeVars
  <2>5. EndInv'
    BY <2>1, <2>2, <2>3, <2>4, SteadyEnd DEF FlowInv
  <2> QED
    BY <1>2, <1>3, <2>5 DEF FlowInv
<1>5. CASE UserSend(e)
  <2>1. PICK n \in Lens : user_data' = [user_data EXCEPT ![e] = Append(user_data[e], n)]
    BY <1>5 DEF UserSend
  <2>2. PICK q \in Seq(Nat) : q = user_data[e]
    BY DEF Core, UserType
  <2>3. n \in Nat
    BY SizeAssumption
  <2>4. user_data'[e] = Append(q, n) /\ \A f \in EP : f # e => user_data'[f] = user_data[f]
    BY <2>1, <2>2 DEF Core, UserType
  <2>5. \A i \in 1 .. Len(q) : user_data'[e][i] = q[i]
    BY <2>3, <2>4
  <2>6. write_rx[e] /\ result[e] = "running"
    BY <1>5 DEF UserSend, FlowInv, EndInv, EndedInv
  <2>7. UNCHANGED <<log, tx_seq, deq, result, write_rx, sender_alive, recv_alive, handed, eof,
                    receive_finish_sent>>
    BY <1>1, <1>5 DEF UserSend, txVars, closeVars, readVars
  <2>8. LenInv'
    <3> SUFFICES ASSUME NEW f \in EP, NEW s \in DataSeqs(f)
                 PROVE  log[f][s].len = user_data'[f][log[f][s].id]
      BY <2>7 DEF LenInv, DataSeqs, IsData
    <3>1. log[f][s].len = user_data[f][log[f][s].id]
      BY DEF FlowInv, EndInv, LenInv
    <3>2. CASE f = e
      <4>1. log[e][s].id \in 1 .. deq[e] /\ deq[e] <= Len(q) /\ deq[e] \in Nat
        BY <2>2, <3>2 DEF Core, LogInv, TxType
      <4>2. log[e][s].id \in 1 .. Len(q)
        BY <4>1
      <4> QED
        BY <2>2, <2>5, <3>1, <3>2, <4>2
    <3> QED
      BY <2>4, <3>1, <3>2
  <2>9. DropInv'
    BY <2>7 DEF FlowInv, EndInv, DropInv, Seqs
  <2>10. EndedInv'
    BY <2>4, <2>6, <2>7 DEF FlowInv, EndInv, EndedInv, NothingToSend
  <2>11. OkMeansConsumed'
    BY <2>4, <2>6, <2>7 DEF FlowInv, EndInv, OkMeansConsumed
  <2> QED
    BY <1>2, <1>3, <2>8, <2>9, <2>10, <2>11 DEF FlowInv, EndInv
<1> QED
  BY <1>4, <1>5 DEF User, UserDropSender, UserClose, UserDropReceiver

\* Every event over a link keeps FlowInv.
LEMMA LinkEventFlow ==
  ASSUME Core, FlowInv, NEW e \in EP, NEW l \in Links, LinkEvent(e, l)
  PROVE  FlowInv'
<1>1. CASE \/ SendAck(e, l) \/ Resend(e, l) \/ AddLink(e, l) \/ ConfirmLink(e, l)
           \/ ConfirmTimedOut(e, l) \/ DisconnectLink(e, l) \/ RemoveLink(e, l)
           \/ ReceiveDuplicate(e, l)
  BY <1>1, LinksFlow
<1>2. CASE SendConsumed(e, l) \/ SendData(e, l)
  BY <1>2, SendConsumedFlow, SendDataFlow
<1>3. CASE SendReceiveClose(e, l) \/ SendReceiveFinish(e, l) \/ SendSendFinish(e, l)
  BY <1>3, SendCtrlFlow
<1>4. CASE ReceiveAck(e, l) \/ ReceiveNew(e, l)
  BY <1>4, ReceiveAckFlow, ReceiveNewFlow
<1>5. CASE ReceiveInvalid(e, l)
  BY <1>5, ExitsFlow
<1> QED
  BY <1>1, <1>2, <1>3, <1>4, <1>5 DEF LinkEvent

\* So does every event of a task that is not tied to a link.
LEMMA TaskEventFlow ==
  ASSUME Core, FlowInv, NEW e \in EP, TaskEvent(e)
  PROVE  FlowInv'
<1>1. CASE WriteEnd(e) \/ ReadDropped(e) \/ ReadClosed(e)
  BY <1>1, CloseFlow
<1>2. CASE ConsumeReceived(e)
  BY <1>2, ConsumeFlow
<1>3. CASE Finish(e) \/ FinishTimeout(e) \/ AllLinksFailed(e) \/ NoLinksTimeout(e)
  BY <1>3, ExitsFlow
<1>4. CASE NoNewLinks(e) \/ Idle(e)
  <2>1. /\ UNCHANGED <<userVars, readVars, closeVars, txVars, rxVars, result>>
        /\ UNCHANGED <<link_state, chan, tx_ack_queue>>
    BY <1>4 DEF NoNewLinks, Idle, linkVars
  <2>2. PacketInv'
    BY <2>1, PacketFrame DEF FlowInv, txVars
  <2> QED
    BY <2>1, <2>2, QuietFlow
<1> QED
  BY <1>1, <1>2, <1>3, <1>4 DEF TaskEvent

\* In the first state nothing has been sent.
LEMMA InitFlow == Init => FlowInv
<1> SUFFICES ASSUME Init PROVE FlowInv
  OBVIOUS
<1>1. \A e \in EP : Peer[e] \in EP
  BY PeerFacts
<1>2. ASSUME NEW e \in EP
      PROVE  /\ tx_seq[e] = 0 /\ deq[e] = 0 /\ result[e] = "running" /\ resend_queue[e] = {}
             /\ rxed_reliable_size[e] = 0 /\ consumed_since_last_ack[e] = 0
             /\ txed_unacked[e] = 0 /\ txed_unconsumed[e] = 0 /\ write_rx[e] /\ ~eof[e]
  BY DEF Init, Const
<1>3. ASSUME NEW e \in EP PROVE DOMAIN txed_packets[e] = {}
  BY DEF Init, Const, NoPackets
<1>4. ASSUME NEW e \in EP PROVE Seqs(e) = {} /\ DataSeqs(e) = {}
  <2>1. tx_seq[e] = 0
    BY <1>2
  <2> QED
    BY <2>1 DEF Seqs, DataSeqs
<1>5. PacketInv
  BY <1>2, <1>3 DEF PacketInv, QueueOK, SentOK, SentOn
<1>6. HeldInv
  BY <1>1, <1>2, SumEmpty DEF HeldInv
<1>7. UnackedInv
  BY <1>2, SumEmpty DEF UnackedInv
<1>8. BalanceInv
  <2> SUFFICES ASSUME NEW e \in EP PROVE Balance(e, 0, 0)
    BY DEF BalanceInv
  <2>1. IsSum(Unreceived(e), tx_seq[e], 0) /\ IsSum(Reports(Peer[e]), tx_seq[Peer[e]], 0)
    BY <1>1, <1>2, SumEmpty
  <2>2. txed_unconsumed[e] = 0 + rxed_reliable_size[Peer[e]] + consumed_since_last_ack[Peer[e]] + 0
    BY <1>1, <1>2
  <2> QED
    BY <2>1, <2>2 DEF Balance
<1>9. RoomInv
  <2>1. \A e \in EP : RecvBuffer[Peer[e]] \in Nat
    BY <1>1, SizeAssumption
  <2>2. \A n \in Nat : 0 <= n
    OBVIOUS
  <2> QED
    BY <1>2, <2>1, <2>2 DEF RoomInv
<1>10. EndInv
  BY <1>2, <1>4 DEF EndInv, LenInv, DropInv, EndedInv, OkMeansConsumed
<1> QED
  BY <1>5, <1>6, <1>7, <1>8, <1>9, <1>10 DEF FlowInv, BytesInv

\* Every step keeps FlowInv.
LEMMA NextFlow == TransferInv /\ FlowInv /\ [Next]_vars => FlowInv'
<1> SUFFICES ASSUME TransferInv, FlowInv, [Next]_vars PROVE FlowInv'
  OBVIOUS
<1>0. Core
  BY InvSplit
<1>1. ASSUME NEW e \in EP, User(e) PROVE FlowInv'
  BY <1>0, <1>1, UserFlow
<1>2. ASSUME NEW e \in EP, Event(e) PROVE FlowInv'
  BY <1>0, <1>2, TaskEventFlow, LinkEventFlow DEF Event
<1>3. ASSUME NEW e \in EP, Limits(e) PROVE FlowInv'
  BY <1>0, <1>3, LinksFlow DEF Limits
<1>4. CASE UNCHANGED vars
  <2>1. /\ UNCHANGED <<userVars, readVars, closeVars, txVars, rxVars, result>>
        /\ UNCHANGED <<link_state, chan, tx_ack_queue>>
    BY <1>4 DEF vars, linkVars
  <2>2. PacketInv'
    BY <2>1, PacketFrame DEF FlowInv, txVars
  <2> QED
    BY <1>0, <2>1, <2>2, QuietFlow
<1> QED
  BY <1>1, <1>2, <1>3, <1>4 DEF Next

(***************************************************************************)
(* The theorems.                                                           *)
(***************************************************************************)
\* Packets, byte counters and ends of connections stay in order in every
\* reachable state of the two tasks, for any number of links, messages, link
\* faults and any buffer sizes.
THEOREM FlowInvariant == Spec => []FlowInv
<1>1. Init => FlowInv
  BY InitFlow
<1>2. TransferInv /\ FlowInv /\ [Next]_vars => FlowInv'
  BY NextFlow
<1>3. Spec => []TransferInv
  BY TransferInvariant
<1> QED
  BY <1>1, <1>2, <1>3, PTL DEF Spec

\* The resend queue of a running task holds exactly the packets that wait for
\* resending, and packets in state Sent name a confirmed link: unreachable! in
\* run and resend_reliable_over_link and unwrap in earliest_confirm_timeout
\* are never reached.
THEOREM PacketsAlwaysConsistent == Spec => []PacketStates
<1>1. FlowInv => PacketStates
  BY PacketParts DEF FlowInv
<1> QED
  BY <1>1, FlowInvariant, PTL

\* No packet is forgotten: while it counts as sent, it or its ack is under way
\* over that link, or the peer has given the link up (unconfirm_link, handle_ack).
THEOREM PacketsAlwaysTracked == Spec => []PacketTracked
<1>1. FlowInv => PacketTracked
  BY PacketParts DEF FlowInv
<1> QED
  BY <1>1, FlowInvariant, PTL

\* What the counters of the two tasks say about each other.
LEMMA FlowControlled == TransferInv /\ FlowInv => FlowControl
<1> SUFFICES ASSUME TransferInv, FlowInv, NEW e \in EP
             PROVE  /\ txed_unacked[e] >= 0 /\ rxed_reliable_size[e] >= 0
                    /\ rxed_reliable_size[e] + consumed_since_last_ack[e] <= txed_unconsumed[Peer[e]]
                    /\ txed_unconsumed[Peer[e]] <= RecvBuffer[e]
  BY DEF FlowControl
<1>1. PICK p \in EP : p = Peer[e] /\ Peer[p] = e
  BY PeerFacts
<1>2. TxType /\ ReadType /\ BytesInv
  BY DEF TransferInv, TypeOK, FlowInv
<1>3. PICK n \in Nat, k \in Nat : n = tx_seq[e] /\ k = tx_seq[p]
  BY <1>2 DEF TxType
<1>4. PICK w, v : w = Unacked(e) /\ v = Held(e)
  OBVIOUS
<1>5. (\A i \in 0 .. (n - 1) : w[i] \in Nat) /\ (\A i \in 0 .. (k - 1) : v[i] \in Nat)
  BY <1>1, <1>2, <1>3, <1>4, TermTypes DEF Seqs
<1>6. PICK x, z : x = txed_unacked[e] /\ z = rxed_reliable_size[e]
  OBVIOUS
<1>7. IsSum(w, n, x) /\ IsSum(v, k, z)
  BY <1>1, <1>2, <1>3, <1>4, <1>6 DEF BytesInv, UnackedInv, HeldInv
<1>8. x \in Nat /\ z \in Nat
  BY <1>5, <1>7, SumBound
<1>9. PICK a \in Nat, c \in Nat : Balance(p, a, c)
  BY <1>2 DEF BytesInv, BalanceInv
<1>10. PICK y \in Nat : y = consumed_since_last_ack[e]
  BY <1>2 DEF ReadType
<1>11. txed_unconsumed[p] = a + z + y + c
  BY <1>1, <1>6, <1>9, <1>10 DEF Balance
<1>12. z + y <= a + z + y + c
  BY <1>8
<1>13. txed_unconsumed[p] <= RecvBuffer[e]
  BY <1>1, <1>2 DEF BytesInv, RoomInv
<1> QED
  BY <1>1, <1>6, <1>8, <1>10, <1>11, <1>12, <1>13

\* No counter is taken below zero and no receive buffer holds more than its
\* size: the sender's txed_unconsumed bounds what the receiver keeps (tx_space,
\* handle_ack, ConsumeReceived, handle_received_reliable_msg).
THEOREM FlowAlwaysControlled == Spec => []FlowControl
BY FlowControlled, TransferInvariant, FlowInvariant, PTL

\* A task that ends with Ok because everything was transferred is right: the
\* peer consumed every byte it sent, and data stays in the Sender's queue only
\* if the peer's Receiver was dropped (exit check of run).
THEOREM OkAlwaysMeansConsumed == Spec => []OkMeansConsumed
<1>1. FlowInv => OkMeansConsumed
  BY DEF FlowInv, EndInv
<1> QED
  BY <1>1, FlowInvariant, PTL

\* What a message on a link may ask of its receiver: data that was not received
\* fits into the receive buffer, and a report of consumed data covers no more
\* than is unconsumed, whatever else is under way.
LEMMA MessageFits ==
  ASSUME TransferInv, FlowInv, NEW e \in EP, NEW p \in EP, p = Peer[e],
         NEW s \in Seqs(p), ~Got(e, s)
  PROVE  /\ log[p][s].kind = "Data" => rxed_reliable_size[e] + log[p][s].len <= RecvBuffer[e]
         /\ log[p][s].kind = "Consumed" => log[p][s].len <= txed_unconsumed[e]
<1>1. Peer[p] = e /\ TxType /\ ReadType /\ BytesInv
  BY PeerFacts DEF TransferInv, TypeOK, FlowInv
<1>2. PICK n \in Nat, len \in Nat : n = tx_seq[p] /\ len = log[p][s].len
  BY <1>1, TermTypes
<1>3. PICK u, r : u = Unreceived(p) /\ r = Reports(p)
  OBVIOUS
<1>4. \A i \in 0 .. (n - 1) : u[i] \in Nat /\ r[i] \in Nat
  BY <1>1, <1>2, <1>3, TermTypes DEF Seqs
<1>5. s \in 0 .. (n - 1)
  BY <1>2 DEF Seqs
<1>6. PICK x \in Nat, y \in Nat, xp \in Nat, yp \in Nat :
        /\ x = rxed_reliable_size[e] /\ y = consumed_since_last_ack[e]
        /\ xp = rxed_reliable_size[p] /\ yp = consumed_since_last_ack[p]
  <2>1. \A f \in EP : rxed_reliable_size[f] \in Int /\ rxed_reliable_size[f] >= 0
    BY <1>1, FlowControlled DEF FlowControl, ReadType
  <2>2. \A i \in Int : i >= 0 => i \in Nat
    OBVIOUS
  <2>3. \A f \in EP : rxed_reliable_size[f] \in Nat
    BY <2>1, <2>2
  <2>4. \A f \in EP : consumed_since_last_ack[f] \in Nat
    BY <1>1 DEF ReadType
  <2> QED
    BY <2>3, <2>4
<1>7. ASSUME log[p][s].kind = "Data" PROVE x + len <= RecvBuffer[e]
  <2>1. PICK a \in Nat, c \in Nat : Balance(p, a, c)
    BY <1>1 DEF BytesInv, BalanceInv
  <2>2. IsSum(u, n, a)
    BY <1>2, <1>3, <2>1 DEF Balance
  <2>3. u[s] <= a
    BY <1>4, <1>5, <2>2, SumBound
  <2>4. u[s] = len
    BY <1>1, <1>2, <1>3, <1>7 DEF Unreceived, Size
  <2>5. PICK t \in Nat : t = RecvBuffer[e]
    BY SizeAssumption
  <2>6. a + x + y + c <= t
    BY <1>1, <1>6, <2>1, <2>5 DEF Balance, BytesInv, RoomInv
  <2> QED
    BY <2>3, <2>4, <2>5, <2>6
<1>8. ASSUME log[p][s].kind = "Consumed" PROVE len <= txed_unconsumed[e]
  <2>1. PICK a \in Nat, c \in Nat : Balance(e, a, c)
    BY <1>1 DEF BytesInv, BalanceInv
  <2>2. IsSum(r, n, c)
    BY <1>2, <1>3, <2>1 DEF Balance
  <2>3. r[s] <= c
    BY <1>4, <1>5, <2>2, SumBound
  <2>4. r[s] = len
    BY <1>1, <1>2, <1>3, <1>8 DEF Reports
  <2>5. txed_unconsumed[e] = a + xp + yp + c
    BY <1>6, <2>1 DEF Balance
  <2>6. len <= a + xp + yp + c
    BY <2>3, <2>4
  <2> QED
    BY <2>5, <2>6
<1> QED
  BY <1>2, <1>6, <1>7, <1>8

\* While sequence numbers stay within the window, no message is refused.
LEMMA NoInvalid ==
  ASSUME TransferInv, FlowInv, SeqWindow, NEW e \in EP, NEW l \in Links
  PROVE  ~ReceiveInvalid(e, l)
<1> SUFFICES ASSUME ReceiveInvalid(e, l) PROVE FALSE
  OBVIOUS
<1>1. PICK p \in EP : p = Peer[e] /\ Peer[p] = e
  BY PeerFacts
<1>2. Core
  BY InvSplit
<1>3. PICK msg : msg = Head(chan[p][l])
  OBVIOUS
<1>4. /\ chan[p][l] \in Seq(LinkMsg) /\ chan[p][l] # <<>>
      /\ msg.type = "Reliable" /\ ProtocolError(e, msg.seq, log[p][msg.seq])
  BY <1>1, <1>2, <1>3 DEF ReceiveInvalid, Incoming, Core, LinkType
<1>5. msg \in LinkMsg /\ 1 \in 1 .. Len(chan[p][l]) /\ msg = chan[p][l][1]
  BY <1>3, <1>4
<1>6. msg.seq < tx_seq[p]
  BY <1>2, <1>4, <1>5 DEF Core, LinkInv
<1>7. PICK s \in Nat : s = msg.seq
  BY <1>5 DEF LinkMsg
<1>8. PICK n \in Nat, x \in Nat : n = tx_seq[p] /\ x = rx_seq[e]
  BY <1>2 DEF Core, TxType, RxType
<1>9. s \in Seqs(p) /\ s < n
  BY <1>6, <1>7, <1>8 DEF Seqs
<1>10. CASE s >= x /\ s - x > UsableInterval
  <2>1. x \in 0 .. (n - 1)
    BY <1>8, <1>9, <1>10
  <2>2. ~Got(e, x)
    BY <1>2, <1>8 DEF Core, RxInv, Got
  <2>3. x \in DOMAIN txed_packets[p]
    BY <1>1, <1>2, <1>8, <2>1, <2>2 DEF Core, AckedReceived
  <2>4. (n - 1) - x <= UsableInterval
    BY <1>8, <2>3 DEF SeqWindow
  <2> QED
    BY <1>9, <1>10, <2>4, SizeAssumption
<1>11. CASE ~Got(e, s)
  <2>1. /\ log[p][s].kind = "Data" => rxed_reliable_size[e] + log[p][s].len <= RecvBuffer[e]
        /\ log[p][s].kind = "Consumed" => log[p][s].len <= txed_unconsumed[e]
    BY <1>1, <1>9, <1>11, MessageFits
  <2>2. PICK len \in Nat : len = log[p][s].len
    <3>1. TxType
      BY <1>2 DEF Core
    <3> QED
      BY <1>9, <3>1, TermTypes
  <2>3. PICK i \in Int, b \in Int, j \in Int :
          i = rxed_reliable_size[e] /\ b = RecvBuffer[e] /\ j = txed_unconsumed[e]
    BY <1>2, SizeAssumption DEF Core, ReadType, TxType
  <2>4. /\ log[p][s].kind = "Data" => ~(rxed_reliable_size[e] + log[p][s].len > RecvBuffer[e])
        /\ log[p][s].kind = "Consumed" => ~(log[p][s].len > txed_unconsumed[e])
    BY <2>1, <2>2, <2>3
  <2> QED
    BY <1>4, <1>7, <1>8, <1>10, <2>4 DEF ProtocolError
<1> QED
  BY <1>4, <1>7, <1>8, <1>10, <1>11 DEF ProtocolError, Duplicate, Got

\* No other step ends a task with a protocol error.
LEMMA NoErrorStep ==
  ASSUME TransferInv, FlowInv, SeqWindow, NoProtocolError, [Next]_vars
  PROVE  NoProtocolError'
<1>0. Core
  BY InvSplit
<1>1. ASSUME NEW e \in EP, NEW r, r # "protocol_error", Exit(e, r) PROVE NoProtocolError'
  BY <1>0, <1>1 DEF Exit, NoProtocolError, Core
<1>2. ASSUME result' = result PROVE NoProtocolError'
  BY <1>2 DEF NoProtocolError
<1>3. ASSUME NEW e \in EP, NEW l \in Links, LinkEvent(e, l) PROVE result' = result
  <2>1. ~ReceiveInvalid(e, l)
    BY NoInvalid
  <2> QED
    BY <1>3, <2>1 DEF LinkEvent, SendAck, SendConsumed, Resend, SendReceiveClose, SendReceiveFinish,
      SendSendFinish, SendData, ReceiveAck, ReceiveDuplicate, ReceiveNew, AddLink, ConfirmLink,
      ConfirmTimedOut, DisconnectLink, RemoveLink, UnconfirmLink, Unconfirm
<1>4. ASSUME NEW e \in EP, TaskEvent(e) PROVE NoProtocolError'
  <2>1. CASE Finish(e) \/ FinishTimeout(e) \/ AllLinksFailed(e) \/ NoLinksTimeout(e)
    <3>1. PICK r \in {"ok", "cut", "failed"} : Exit(e, r)
      BY <2>1 DEF Finish, FinishTimeout, AllLinksFailed, NoLinksTimeout
    <3> QED
      BY <1>1, <3>1
  <2>2. CASE \/ WriteEnd(e) \/ ReadDropped(e) \/ ReadClosed(e) \/ ConsumeReceived(e)
             \/ NoNewLinks(e) \/ Idle(e)
    BY <1>2, <2>2 DEF WriteEnd, ReadDropped, ReadClosed, ConsumeReceived, NoNewLinks, Idle
  <2> QED
    BY <1>4, <2>1, <2>2 DEF TaskEvent
<1>5. ASSUME NEW e \in EP, User(e) \/ Limits(e) PROVE NoProtocolError'
  BY <1>2, <1>5 DEF User, Limits, CheckLinkLimits, UnconfirmLink, Unconfirm
<1>6. CASE UNCHANGED vars
  BY <1>2, <1>6 DEF vars
<1> QED
  BY <1>2, <1>3, <1>4, <1>5, <1>6 DEF Next, Event

\* As long as each task keeps its sequence numbers within USABLE_INTERVAL, the
\* tasks never accuse each other of a protocol error: every message fits into
\* the receive buffer and every report into txed_unconsumed, whatever the order
\* of arrival (tx_space against handle_received_reliable_msg).
THEOREM NoErrorWithinWindow == Spec /\ []SeqWindow => []NoProtocolError
<1>1. Init => NoProtocolError
  BY DEF Init, Const, NoProtocolError
<1>2. TransferInv /\ FlowInv /\ SeqWindow /\ NoProtocolError /\ [Next]_vars => NoProtocolError'
  BY NoErrorStep
<1> QED
  BY <1>1, <1>2, TransferInvariant, FlowInvariant, PTL DEF Spec

(***************************************************************************)
(* What no step undoes: an acknowledged packet is not sent again, its      *)
(* number keeps its message, and what was received stays received.         *)
(***************************************************************************)
AckKept ==
  \A e \in EP : \A s \in Seqs(e) :
    /\ s \in Seqs(e)' /\ log'[e][s] = log[e][s]
    /\ Open(e, s)' => Open(e, s)
GotKept == \A e \in EP : \A s \in Nat : Got(e, s) => Got(e, s)'

\* No step of either task numbers a message anew or brings an acknowledged
\* packet back into use, whatever acks, resends and link failures cross
\* (handle_ack, unconfirm_link, resend_reliable_over_link).
AckFinal == [][AckKept]_vars

\* No step of either task forgets that it received a message, so a copy that
\* arrives later is always recognised (handle_received_reliable_msg).
GotFinal == [][GotKept]_vars

\* Steps that number no message and open no packet.
LEMMA SteadyAck ==
  ASSUME UNCHANGED <<log, tx_seq>>, \A f \in EP : \A s \in Seqs(f) : Open(f, s)' => Open(f, s)
  PROVE  AckKept
BY DEF AckKept, Seqs

\* Sending takes a new number.
LEMMA SendAckKept ==
  ASSUME Core, NEW e \in EP, NEW l \in Links, NEW m, SendReliableOverLink(e, l, m)
  PROVE  AckKept
<1>1. PICK n \in Nat : n = tx_seq[e]
  BY DEF Core, TxType
<1>2. /\ log'[e] = [i \in 0 .. n |-> IF i = n THEN m ELSE log[e][i]] /\ tx_seq'[e] = n + 1
      /\ txed_packets'[e] = [i \in DOMAIN txed_packets[e] \cup {n} |->
           IF i = n THEN [st |-> "Sent", link |-> l] ELSE txed_packets[e][i]]
      /\ \A f \in EP : f # e => /\ log'[f] = log[f] /\ tx_seq'[f] = tx_seq[f]
                                /\ txed_packets'[f] = txed_packets[f]
  BY <1>1 DEF SendReliableOverLink, Core, TxType
<1>3. \A s \in Seqs(e) : s \in 0 .. n /\ s # n
  BY <1>1 DEF Seqs
<1>4. \A s \in Seqs(e) : s \in Seqs(e)' /\ log'[e][s] = log[e][s]
  BY <1>1, <1>2, <1>3 DEF Seqs
<1>5. \A s \in Seqs(e) : Open(e, s)' => Open(e, s)
  BY <1>2, <1>3 DEF Open
<1>6. \A f \in EP : f # e => \A s \in Seqs(f) :
        s \in Seqs(f)' /\ log'[f][s] = log[f][s] /\ (Open(f, s)' => Open(f, s))
  BY <1>2 DEF Seqs, Open
<1> QED
  BY <1>4, <1>5, <1>6 DEF AckKept

\* An ack opens no packet.
LEMMA ReceiveAckKept ==
  ASSUME Core, NEW e \in EP, NEW l \in Links, ReceiveAck(e, l)
  PROVE  AckKept
<1>1. UNCHANGED <<log, tx_seq>>
  BY DEF ReceiveAck
<1>2. CASE UNCHANGED txed_packets
  BY <1>1, <1>2, SteadyAck DEF Open
<1>3. ASSUME NEW s \in DOMAIN txed_packets[e],
             txed_packets' = [txed_packets EXCEPT ![e] =
               Swiped([txed_packets[e] EXCEPT ![s] = [st |-> "Received", link |-> l]])]
      PROVE  AckKept
  <2>1. PICK pkts : pkts = Swiped([txed_packets[e] EXCEPT ![s] = [st |-> "Received", link |-> l]])
    OBVIOUS
  <2>2. /\ \A t \in DOMAIN pkts : t \in DOMAIN txed_packets[e]
        /\ \A t \in DOMAIN pkts : t # s => pkts[t] = txed_packets[e][t]
        /\ s \in DOMAIN pkts => pkts[s].st = "Received"
    BY <2>1, AckedFacts DEF Core
  <2>3. txed_packets'[e] = pkts /\ \A f \in EP : f # e => txed_packets'[f] = txed_packets[f]
    BY <1>3, <2>1 DEF Core, TxType
  <2> QED
    BY <1>1, <2>2, <2>3, SteadyAck DEF Open
<1> QED
  BY <1>2, <1>3 DEF ReceiveAck, Acked

\* Every step keeps what was acknowledged.
LEMMA NextAckKept == TransferInv /\ FlowInv /\ [Next]_vars => AckKept
<1> SUFFICES ASSUME TransferInv, FlowInv, [Next]_vars PROVE AckKept
  OBVIOUS
<1>1. Core /\ PacketInv
  BY InvSplit DEF FlowInv
<1>2. ASSUME UNCHANGED <<log, tx_seq, txed_packets>> PROVE AckKept
  BY <1>2, SteadyAck DEF Open
<1>3. ASSUME NEW e \in EP, NEW l \in Links, LinkEvent(e, l) PROVE AckKept
  <2>1. CASE \/ SendAck(e, l) \/ ReceiveInvalid(e, l) \/ ReceiveDuplicate(e, l)
             \/ ReceiveNew(e, l) \/ AddLink(e, l) \/ ConfirmLink(e, l)
    BY <1>2, <2>1 DEF SendAck, ReceiveInvalid, Exit, ReceiveDuplicate, ReceiveNew, AddLink,
      ConfirmLink, txVars
  <2>2. CASE \/ SendConsumed(e, l) \/ SendReceiveClose(e, l) \/ SendReceiveFinish(e, l)
             \/ SendSendFinish(e, l) \/ SendData(e, l)
    BY <1>1, <2>2, SendAckKept DEF SendConsumed, SendReceiveClose, SendReceiveFinish,
      SendSendFinish, SendData
  <2>3. CASE Resend(e, l)
    BY <1>1, <2>3, ResendOpen, SteadyAck DEF Steady
  <2>4. CASE ConfirmTimedOut(e, l) \/ DisconnectLink(e, l) \/ RemoveLink(e, l)
    <3>1. Unconfirm(e, l)
      BY <2>4 DEF ConfirmTimedOut, UnconfirmLink, DisconnectLink, RemoveLink
    <3> QED
      BY <1>1, <3>1, UnconfirmOpen, SteadyAck DEF Steady
  <2>5. CASE ReceiveAck(e, l)
    BY <1>1, <2>5, ReceiveAckKept
  <2> QED
    BY <1>3, <2>1, <2>2, <2>3, <2>4, <2>5 DEF LinkEvent
<1>4. ASSUME NEW e \in EP, TaskEvent(e) PROVE AckKept
  <2>1. CASE \E l \in Links : \E k \in Kinds : SendReliableOverLink(e, l, Ctrl(k))
    BY <1>1, <2>1, SendAckKept
  <2>2. CASE WriteEnd(e) \/ ReadDropped(e) \/ ReadClosed(e)
    BY <1>2, <2>1, <2>2 DEF WriteEnd, ReadDropped, ReadClosed, txVars, Kinds
  <2>3. CASE \/ ConsumeReceived(e) \/ Finish(e) \/ FinishTimeout(e) \/ AllLinksFailed(e)
             \/ NoLinksTimeout(e) \/ NoNewLinks(e) \/ Idle(e)
    BY <1>2, <2>3 DEF ConsumeReceived, Finish, FinishTimeout, AllLinksFailed, NoLinksTimeout,
      NoNewLinks, Idle, Exit, txVars
  <2> QED
    BY <1>4, <2>2, <2>3 DEF TaskEvent
<1>5. ASSUME NEW e \in EP, Limits(e) PROVE AckKept
  <2>1. PICK l \in Links : Unconfirm(e, l)
    BY <1>5 DEF Limits, CheckLinkLimits, UnconfirmLink
  <2> QED
    BY <1>1, <2>1, UnconfirmOpen, SteadyAck DEF Steady
<1>6. ASSUME NEW e \in EP, User(e) PROVE AckKept
  BY <1>2, <1>6 DEF User, txVars
<1>7. CASE UNCHANGED vars
  BY <1>2, <1>7 DEF vars, txVars
<1> QED
  BY <1>3, <1>4, <1>5, <1>6, <1>7 DEF Next, Event

\* Every step keeps what was received.
LEMMA NextGotKept == TransferInv /\ [Next]_vars => GotKept
<1> SUFFICES ASSUME TransferInv, [Next]_vars PROVE GotKept
  OBVIOUS
<1>1. Core
  BY InvSplit
<1>2. ASSUME UNCHANGED <<rx_seq, rxed_reliable>> PROVE GotKept
  BY <1>2 DEF GotKept, Got
<1>3. ASSUME NEW e \in EP, NEW l \in Links, ReceiveNew(e, l) PROVE GotKept
  <2>1. PICK s \in Nat : s = Head(chan[Peer[e]][l]).seq
    BY <1>1, <1>3, PopFacts DEF ReceiveNew, LinkMsg
  <2>2. \A t \in Nat : Got(e, t)' <=> Got(e, t) \/ t = s
    BY <1>1, <1>3, <2>1, NewGot
  <2>3. \A f \in EP : f # e => rxed_reliable'[f] = rxed_reliable[f] /\ rx_seq'[f] = rx_seq[f]
    BY <1>1, <1>3, <2>1, NewGot
  <2> QED
    BY <2>2, <2>3 DEF GotKept, Got
<1>4. ASSUME NEW e \in EP, NEW l \in Links, LinkEvent(e, l), ~ReceiveNew(e, l) PROVE GotKept
  BY <1>2, <1>4 DEF LinkEvent, SendAck, SendConsumed, Resend, SendReceiveClose, SendReceiveFinish,
    SendSendFinish, SendData, ReceiveAck, ReceiveInvalid, Exit, ReceiveDuplicate, AddLink,
    ConfirmLink, ConfirmTimedOut, DisconnectLink, RemoveLink, UnconfirmLink, Unconfirm, rxVars
<1>5. ASSUME NEW e \in EP, TaskEvent(e) PROVE GotKept
  BY <1>2, <1>5 DEF TaskEvent, WriteEnd, ReadDropped, ReadClosed, ConsumeReceived, Finish,
    FinishTimeout, AllLinksFailed, NoLinksTimeout, NoNewLinks, Idle, Exit, rxVars
<1>6. ASSUME NEW e \in EP, User(e) \/ Limits(e) PROVE GotKept
  BY <1>2, <1>6 DEF User, Limits, CheckLinkLimits, UnconfirmLink, Unconfirm, rxVars
<1>7. CASE UNCHANGED vars
  BY <1>2, <1>7 DEF vars, rxVars
<1> QED
  BY <1>3, <1>4, <1>5, <1>6, <1>7 DEF Next, Event

\* An acknowledged packet stays acknowledged, and its number keeps the message
\* it was assigned: acks, resends and link failures in any order never make a
\* task send again what its peer has confirmed (handle_ack, unconfirm_link).
THEOREM AcksAlwaysFinal == Spec => AckFinal
<1>1. TransferInv /\ FlowInv /\ [Next]_vars => [AckKept]_vars
  BY NextAckKept
<1> QED
  BY <1>1, TransferInvariant, FlowInvariant, PTL DEF Spec, AckFinal

\* What a task received stays received, so that every later copy is answered
\* with an ack and otherwise ignored (handle_received_reliable_msg).
THEOREM ReceiptsAlwaysFinal == Spec => GotFinal
<1>1. TransferInv /\ [Next]_vars => [GotKept]_vars
  BY NextGotKept
<1> QED
  BY <1>1, TransferInvariant, PTL DEF Spec, GotFinal

=============================================================================
