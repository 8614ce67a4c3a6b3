----------------------------- MODULE SeqProofs ------------------------------
(***************************************************************************)
(* For every width of the sequence numbers, and every window that fits     *)
(* into a quarter of them, the wrapped numbers behave like the counts they *)
(* stand for.  The arithmetic is in Differences; SeqInv is inductive.      *)
(***************************************************************************)
EXTENDS SeqNum, TLAPS

\* The quarter leaves room for three more, and half the numbers exceed it.
LEMMA Quarter ==
  /\ ONE_QUARTER \in Nat /\ 4 * ONE_QUARTER < M /\ THREE_QUARTERS = 3 * ONE_QUARTER
  /\ ONE_QUARTER < M \div 2 /\ M \div 2 \in Nat /\ M \div 2 <= M
BY SeqAssumption DEF ONE_QUARTER, THREE_QUARTERS

\* What the operations of Seq compute for two numbers at distances i and j
\* behind the number a, the first of them not more than a quarter away.
LEMMA Differences ==
  ASSUME NEW a \in SeqNo, NEW i \in 0 .. ONE_QUARTER, NEW j \in 0 .. i
  PROVE  /\ Minus(a, i) \in SeqNo
         /\ Sub(Minus(a, j), Minus(a, i)) = i - j
         /\ Less(Minus(a, i), Minus(a, j)) <=> j < i
         /\ ~Less(Minus(a, j), Minus(a, i))
<1> DEFINE x == Minus(a, i)  y == Minus(a, j)
<1>1. /\ a \in Int /\ 0 <= a /\ a < M /\ i \in Int /\ j \in Int /\ M \in Int
      /\ 0 <= j /\ j <= i /\ i <= ONE_QUARTER
  BY SeqAssumption, Quarter DEF SeqNo
<1>2. x \in Int /\ 0 <= x /\ x < M /\ y \in Int /\ 0 <= y /\ y < M
  BY <1>1, Quarter DEF Minus
<1>3. y = x + (i - j) \/ y = (x + (i - j)) - M
  BY <1>1 DEF Minus
<1>4. Sub(y, x) = i - j
  BY <1>1, <1>2, <1>3, Quarter DEF Sub, Minus
<1>5. (Less(x, y) <=> j < i) /\ ~Less(y, x)
  <2> HIDE DEF x, y
  <2> QED
    BY <1>1, <1>2, <1>3, Quarter DEF Less
<1>6. x \in SeqNo
  <2> HIDE DEF x
  <2> QED
    BY <1>1, <1>2 DEF SeqNo
<1> QED
  BY <1>4, <1>5, <1>6

\* Adding one moves every distance by one.
LEMMA Advance ==
  ASSUME NEW a \in SeqNo, NEW d \in 0 .. (M - 1)
  PROVE  Add(a, 1) \in SeqNo /\ Minus(Add(a, 1), d + 1) = Minus(a, d)
BY SeqAssumption DEF Add, Minus, SeqNo

\* Adding n to a number d behind a gives the number d - n behind a.
LEMMA CatchUp ==
  ASSUME NEW a \in SeqNo, NEW d \in 0 .. (M - 1), NEW n \in 0 .. d
  PROVE  Add(Minus(a, d), n) \in SeqNo /\ Add(Minus(a, d), n) = Minus(a, d - n)
BY SeqAssumption DEF Add, Minus, SeqNo
\* Distances of the messages, the window and the receiver from tx_seq.
LEMMA Ages ==
  ASSUME SeqInv
  PROVE  /\ tx \in Nat /\ front \in Nat /\ rx \in Nat /\ front <= rx /\ rx <= tx
         /\ tx - front <= ONE_QUARTER /\ tx_seq \in SeqNo
         /\ rx_seq = Minus(tx_seq, tx - rx)
         /\ \A k \in 0 .. (tx - 1) :
              (k \in Recent \/ k >= front) =>
                tx - k \in 1 .. ONE_QUARTER /\ num[k] = Minus(tx_seq, tx - k)
<1> USE SeqAssumption, Quarter
<1>0. /\ tx \in Nat /\ front \in 0 .. tx /\ rx \in 0 .. tx /\ tx_seq \in SeqNo
      /\ DOMAIN rxed_reliable \subseteq 1 .. USABLE_INTERVAL
      /\ tx - front <= USABLE_INTERVAL + Slack + 1 /\ rx_seq = Minus(tx_seq, tx - rx)
  BY Zenon DEF SeqInv, SeqType, WindowInv, RxSeqInv
<1>1. /\ tx \in Nat /\ front \in Nat /\ rx \in Nat /\ front <= tx /\ rx <= tx /\ tx_seq \in SeqNo
      /\ tx - front <= ONE_QUARTER /\ rx_seq = Minus(tx_seq, tx - rx)
  BY <1>0
<1>2. front <= rx
  <2> SUFFICES ASSUME rx < front PROVE FALSE
    BY <1>1
  <2>1. rx \in 0 .. (tx - 1)
    BY <1>1
  <2>2. Got(rx)
    BY <2>1, <1>1 DEF SeqInv, GotInv
  <2>3. rx - rx = 0 /\ 0 \notin DOMAIN rxed_reliable
    BY <1>0, <1>1
  <2> QED
    BY <2>2, <2>3, <1>1 DEF Got
<1>3. ASSUME NEW k \in 0 .. (tx - 1), k \in Recent \/ k >= front
      PROVE  tx - k \in 1 .. ONE_QUARTER /\ num[k] = Minus(tx_seq, tx - k)
  <2>1. tx - k \in 1 .. ONE_QUARTER
    BY <1>1, <1>3 DEF Recent
  <2>2. tx - k < M
    BY <2>1
  <2> QED
    BY <2>1, <2>2 DEF SeqInv, NumInv
<1> QED
  BY <1>1, <1>2, <1>3

\* The invariant makes comparisons in the window agree with the age of packets.
LEMMA InvOrder == SeqInv => WindowOrder
<1> SUFFICES ASSUME SeqInv, NEW i \in front .. (tx - 1), NEW j \in front .. (tx - 1)
             PROVE  Less(num[i], num[j]) <=> i < j
  BY DEF WindowOrder
<1>1. /\ i \in Nat /\ j \in Nat /\ tx_seq \in SeqNo /\ tx \in Nat /\ front \in Nat
      /\ tx - i \in 1 .. ONE_QUARTER /\ num[i] = Minus(tx_seq, tx - i)
      /\ tx - j \in 1 .. ONE_QUARTER /\ num[j] = Minus(tx_seq, tx - j)
  BY Ages
<1>2. CASE i <= j
  <2>1. tx - j \in 0 .. (tx - i) /\ tx - i \in 0 .. ONE_QUARTER
    BY <1>1, <1>2, Quarter
  <2>2. Less(num[i], num[j]) <=> tx - j < tx - i
    BY <1>1, <2>1, Differences
  <2> QED
    BY <1>1, <2>2
<1>3. CASE j < i
  <2>1. tx - i \in 0 .. (tx - j) /\ tx - j \in 0 .. ONE_QUARTER
    BY <1>1, <1>3, Quarter
  <2>2. ~Less(num[i], num[j])
    BY <1>1, <2>1, Differences
  <2> QED
    BY <1>1, <1>3, <2>2
<1> QED
  BY <1>1, <1>2, <1>3

\* The invariant makes every ack find its packet.
LEMMA InvAck == SeqInv => AckHitsPacket
<1> SUFFICES ASSUME SeqInv, NEW k \in Recent
             PROVE  AckIdx(num[k]) = IF k >= front THEN {k} ELSE {}
  BY DEF AckHitsPacket
<1>1. /\ k \in Nat /\ k < tx /\ tx \in Nat /\ front \in Nat /\ front <= tx /\ tx_seq \in SeqNo
      /\ tx - k \in 1 .. ONE_QUARTER /\ num[k] = Minus(tx_seq, tx - k)
  BY Ages DEF Recent
<1>2. Minus(tx_seq, 0) = tx_seq
  BY <1>1, SeqAssumption DEF Minus, SeqNo
<1>3. Sub(Minus(tx_seq, 0), num[k]) = (tx - k) - 0
  BY <1>1, Differences, Quarter
<1>4. Sub(tx_seq, num[k]) = tx - k
  BY <1>1, <1>2, <1>3
<1>5. tx - (tx - k) = k /\ (tx - k \in 1 .. (tx - front) <=> k >= front)
  BY <1>1
<1> QED
  BY <1>4, <1>5 DEF AckIdx

\* The invariant makes every received number go to its place.
LEMMA InvReceived == SeqInv => ReceivedInPlace
<1> SUFFICES ASSUME SeqInv, NEW k \in Recent
             PROVE  /\ Less(num[k], rx_seq) <=> k < rx
                    /\ k >= rx => Sub(num[k], rx_seq) = k - rx
  BY DEF ReceivedInPlace, SeqInv
<1>1. /\ k \in Nat /\ k < tx /\ tx \in Nat /\ rx \in Nat /\ rx <= tx /\ tx_seq \in SeqNo
      /\ tx - rx \in 0 .. ONE_QUARTER /\ rx_seq = Minus(tx_seq, tx - rx)
      /\ tx - k \in 1 .. ONE_QUARTER /\ num[k] = Minus(tx_seq, tx - k)
  BY Ages, Quarter DEF Recent
<1>2. CASE k < rx
  <2>1. tx - rx \in 0 .. (tx - k) /\ tx - k \in 0 .. ONE_QUARTER
    BY <1>1, <1>2, Quarter
  <2>2. Less(num[k], rx_seq) <=> tx - rx < tx - k
    BY <1>1, <2>1, Differences
  <2> QED
    BY <1>1, <1>2, <2>2
<1>3. CASE k >= rx
  <2>1. tx - k \in 0 .. (tx - rx)
    BY <1>1, <1>3
  <2>2. ~Less(num[k], rx_seq) /\ Sub(num[k], rx_seq) = (tx - rx) - (tx - k)
    BY <1>1, <2>1, Differences
  <2> QED
    BY <1>1, <1>3, <2>2
<1> QED
  BY <1>1, <1>2, <1>3

\* The first state satisfies the invariant.
LEMMA InitInv == Init => SeqInv
<1> SUFFICES ASSUME Init PROVE SeqInv
  OBVIOUS
<1> USE SeqAssumption DEF Init
<1>1. SeqType
  <2>1. 0 .. (tx - 1) = {} /\ 0 \in SeqNo
    BY DEF SeqNo
  <2>2. num \in [0 .. (tx - 1) -> SeqNo]
    BY <2>1
  <2>3. rxed_reliable \in [DOMAIN rxed_reliable -> SeqNo] /\ DOMAIN rxed_reliable = {}
    OBVIOUS
  <2>4. /\ tx \in Nat /\ front \in 0 .. tx /\ rx \in 0 .. tx
        /\ acked \subseteq (front + 1) .. (tx - 1)
    OBVIOUS
  <2> QED
    BY Zenon, <2>1, <2>2, <2>3, <2>4 DEF SeqType
<1>2. NumInv /\ GotInv /\ SlotInv
  BY DEF NumInv, GotInv, SlotInv
<1>3. RxSeqInv /\ WindowInv
  BY DEF RxSeqInv, WindowInv, Minus
<1> QED
  BY <1>1, <1>2, <1>3 DEF SeqInv

\* The parts of SeqType, one by one.
LEMMA TypeParts ==
  ASSUME SeqInv
  PROVE  /\ tx \in Nat /\ front \in 0 .. tx /\ rx \in 0 .. tx
         /\ tx_seq \in SeqNo /\ rx_seq \in SeqNo /\ num \in [0 .. (tx - 1) -> SeqNo]
         /\ acked \subseteq (front + 1) .. (tx - 1)
         /\ DOMAIN rxed_reliable \subseteq 1 .. USABLE_INTERVAL
         /\ rxed_reliable \in [DOMAIN rxed_reliable -> SeqNo]
         /\ failed \in BOOLEAN
BY Zenon DEF SeqInv, SeqType

\* Numbering a message preserves the invariant while the window has room.
LEMMA SendStep ==
  ASSUME SeqInv, NextTxSeq, tx - front <= USABLE_INTERVAL + Slack
  PROVE  SeqInv'
<1> USE SeqAssumption, Quarter
<1>1. /\ tx' = tx + 1 /\ tx_seq' = Add(tx_seq, 1)
      /\ num' = [k \in 0 .. tx |-> IF k = tx THEN tx_seq ELSE num[k]]
      /\ UNCHANGED <<front, acked, rx, rx_seq, rxed_reliable, failed>>
  BY DEF NextTxSeq
<1>0. /\ tx \in Nat /\ front \in 0 .. tx /\ rx \in 0 .. tx /\ tx_seq \in SeqNo
      /\ acked \subseteq (front + 1) .. (tx - 1)
      /\ DOMAIN rxed_reliable \subseteq 1 .. USABLE_INTERVAL
      /\ front <= rx /\ tx - front <= ONE_QUARTER
  BY Zenon, TypeParts, Ages
<1>2. /\ tx \in Nat /\ front \in 0 .. tx /\ rx \in 0 .. tx /\ tx_seq \in SeqNo
      /\ tx - rx <= ONE_QUARTER /\ 0 <= tx - rx
  BY <1>0
<1>3. Add(tx_seq, 1) \in SeqNo
  BY <1>2, Advance
<1>4. SeqType'
  <2>1. tx' \in Nat /\ front' \in 0 .. tx' /\ rx' \in 0 .. tx'
    BY <1>1, <1>2
  <2>2. tx_seq' \in SeqNo /\ rx_seq' \in SeqNo
    BY <1>1, <1>3, TypeParts
  <2>3. num' \in [0 .. (tx' - 1) -> SeqNo]
    <3>1. tx' - 1 = tx /\ \A k \in 0 .. tx : k # tx => k \in 0 .. (tx - 1)
      BY <1>1, <1>2
    <3>2. num \in [0 .. (tx - 1) -> SeqNo]
      BY TypeParts
    <3> QED
      BY <3>1, <3>2, <1>1, <1>2
  <2>4. acked' \subseteq (front' + 1) .. (tx' - 1)
    BY <1>0, <1>1
  <2> QED
    BY <2>1, <2>2, <2>3, <2>4, <1>1, TypeParts DEF SeqType
<1>5. NumInv'
  <2> SUFFICES ASSUME NEW k \in 0 .. tx, (tx + 1) - k < M
               PROVE  num'[k] = Minus(Add(tx_seq, 1), (tx + 1) - k)
    BY <1>1, <1>2 DEF NumInv
  <2>1. tx - k \in 0 .. (M - 1) /\ (tx + 1) - k = (tx - k) + 1
    BY <1>2
  <2>2. Minus(Add(tx_seq, 1), (tx + 1) - k) = Minus(tx_seq, tx - k)
    BY <1>2, <2>1, Advance
  <2>3. CASE k = tx
    BY <1>1, <1>2, <2>2, <2>3 DEF Minus, SeqNo
  <2>4. CASE k # tx
    <3>1. k \in 0 .. (tx - 1) /\ tx - k < M
      BY <1>2, <2>1, <2>4
    <3>2. num[k] = Minus(tx_seq, tx - k)
      BY <3>1 DEF SeqInv, NumInv
    <3> QED
      BY <1>1, <2>2, <2>4, <3>2
  <2> QED
    BY <2>3, <2>4
<1>6. RxSeqInv'
  <2>1. tx - rx \in 0 .. (M - 1) /\ (tx + 1) - rx = (tx - rx) + 1
    BY <1>2
  <2>2. Minus(Add(tx_seq, 1), (tx - rx) + 1) = Minus(tx_seq, tx - rx)
    BY <1>2, <2>1, Advance
  <2> QED
    BY <1>1, <2>1, <2>2 DEF SeqInv, RxSeqInv
<1>7. WindowInv'
  BY <1>1, <1>2 DEF WindowInv
<1>8. GotInv'
  <2> SUFFICES ASSUME NEW k \in 0 .. tx, k < front \/ k \in acked
               PROVE  Got(k)'
    BY <1>1, <1>2 DEF GotInv
  <2>1. k \in 0 .. (tx - 1)
    BY <1>0
  <2>2. Got(k)
    BY <2>1 DEF SeqInv, GotInv
  <2> QED
    BY <1>1, <2>2 DEF Got
<1>9. SlotInv'
  <2> SUFFICES ASSUME NEW o \in DOMAIN rxed_reliable
               PROVE  rx + o < tx + 1 /\ rxed_reliable[o] = num'[rx + o]
    BY <1>1 DEF SlotInv
  <2>1. rx + o < tx /\ rxed_reliable[o] = num[rx + o]
    BY DEF SeqInv, SlotInv
  <2>2. o \in Nat
    BY <1>0
  <2>3. rx + o \in 0 .. tx /\ rx + o # tx /\ rx + o < tx + 1
    BY <1>2, <2>1, <2>2
  <2> QED
    BY <1>1, <2>1, <2>3
<1> QED
  BY <1>4, <1>5, <1>6, <1>7, <1>8, <1>9 DEF SeqInv

\* tx_seq_avail measures the window exactly.
LEMMA Avail ==
  ASSUME SeqInv, TxSeqAvail
  PROVE  tx - front <= USABLE_INTERVAL
<1>1. tx \in Nat /\ front \in 0 .. tx /\ tx_seq \in SeqNo
  BY TypeParts
<1>2. CASE front = tx
  BY <1>1, <1>2, SeqAssumption
<1>3. CASE front # tx
  <2>1. front \in 0 .. (tx - 1) /\ front >= front /\ front < tx
    BY <1>1, <1>3
  <2>2. tx - front \in 1 .. ONE_QUARTER /\ num[front] = Minus(tx_seq, tx - front)
    BY <2>1, Ages
  <2>3. Minus(tx_seq, 0) = tx_seq
    BY <1>1, SeqAssumption DEF Minus, SeqNo
  <2>4. Sub(Minus(tx_seq, 0), Minus(tx_seq, tx - front)) = (tx - front) - 0
    BY <1>1, <2>2, Differences, Quarter
  <2> QED
    BY <1>1, <2>1, <2>2, <2>3, <2>4 DEF TxSeqAvail
<1> QED
  BY <1>2, <1>3

\* Handling an ack preserves the invariant.
LEMMA AckStep ==
  ASSUME SeqInv, HandleAck
  PROVE  SeqInv'
<1>1. PICK k \in Recent : \E f \in front .. tx :
        /\ Got(k)
        /\ front .. (f - 1) \subseteq acked \cup AckIdx(num[k]) /\ f \notin acked \cup AckIdx(num[k])
        /\ front' = f
        /\ acked' = (acked \cup AckIdx(num[k])) \ (front .. (f - 1))
  BY DEF HandleAck
<1>2. PICK f \in front .. tx :
        /\ Got(k)
        /\ front .. (f - 1) \subseteq acked \cup AckIdx(num[k]) /\ f \notin acked \cup AckIdx(num[k])
        /\ front' = f
        /\ acked' = (acked \cup AckIdx(num[k])) \ (front .. (f - 1))
  BY <1>1
<1>3. UNCHANGED <<tx, tx_seq, num, rx, rx_seq, rxed_reliable, failed>>
  BY DEF HandleAck
<1> DEFINE marked == acked \cup AckIdx(num[k])
<1>4. \A j \in marked : j \in front .. (tx - 1) /\ Got(j)
  <2>1. tx \in Nat /\ front \in 0 .. tx /\ acked \subseteq (front + 1) .. (tx - 1)
    BY TypeParts
  <2>2. \A j \in acked : j \in 0 .. (tx - 1) /\ j \in front .. (tx - 1)
    BY <2>1
  <2>3. \A j \in acked : Got(j)
    BY <2>2 DEF SeqInv, GotInv
  <2>4. AckIdx(num[k]) = IF k >= front THEN {k} ELSE {}
    BY InvAck DEF AckHitsPacket
  <2>5. \A j \in AckIdx(num[k]) : j = k /\ k \in front .. (tx - 1)
    BY <2>1, <2>4 DEF Recent
  <2> QED
    BY <2>2, <2>3, <2>5, <1>2
<1> HIDE DEF marked
<1>5. /\ front .. (f - 1) \subseteq marked /\ f \notin marked
      /\ front' = f /\ acked' = marked \ (front .. (f - 1))
  BY <1>2 DEF marked
<1>6. tx \in Nat /\ front \in 0 .. tx /\ f \in front .. tx
  BY TypeParts
<1>7. SeqType'
  <2>1. front' \in 0 .. tx'
    BY <1>3, <1>5, <1>6
  <2>2. acked' \subseteq (front' + 1) .. (tx' - 1)
    BY <1>3, <1>4, <1>5, <1>6
  <2> QED
    BY <2>1, <2>2, <1>3, TypeParts DEF SeqType
<1>8. NumInv' /\ RxSeqInv' /\ SlotInv'
  BY <1>3 DEF SeqInv, NumInv, RxSeqInv, SlotInv
<1>9. WindowInv'
  BY <1>3, <1>5, <1>6, SeqAssumption DEF SeqInv, WindowInv
<1>10. GotInv'
  <2> SUFFICES ASSUME NEW j \in 0 .. (tx - 1), j < f \/ j \in acked'
               PROVE  Got(j)
    BY <1>3, <1>5 DEF GotInv, Got
  <2>1. CASE j < front
    BY <2>1 DEF SeqInv, GotInv
  <2>2. CASE j >= front /\ j < f
    <3>1. j \in front .. (f - 1)
      BY <1>6, <2>2
    <3> QED
      BY <3>1, <1>4, <1>5
  <2>3. CASE j \in acked'
    BY <2>3, <1>4, <1>5
  <2> QED
    BY <2>1, <2>2, <2>3, <1>6
<1> QED
  BY <1>7, <1>8, <1>9, <1>10 DEF SeqInv

\* Receiving a number outside the window only ends the connection.
LEMMA FailStep ==
  ASSUME SeqInv, failed' = TRUE,
         UNCHANGED <<tx, tx_seq, num, front, acked, rx, rx_seq, rxed_reliable>>
  PROVE  SeqInv'
<1>1. SeqType'
  BY TypeParts DEF SeqType
<1>2. NumInv' /\ RxSeqInv' /\ WindowInv' /\ GotInv' /\ SlotInv'
  BY Zenon DEF SeqInv, NumInv, RxSeqInv, WindowInv, GotInv, SlotInv, Got
<1> QED
  BY <1>1, <1>2 DEF SeqInv

\* Filling a slot and handing out what is complete preserves the invariant.
LEMMA FillStep ==
  ASSUME SeqInv, NEW k \in 0 .. (tx - 1), k >= rx, k - rx <= USABLE_INTERVAL,
         NEW n \in 0 .. (USABLE_INTERVAL + 1), NEW slots,
         slots = [o \in DOMAIN rxed_reliable \cup {k - rx} |->
                    IF o \in DOMAIN rxed_reliable THEN rxed_reliable[o] ELSE num[k]],
         0 .. (n - 1) \subseteq DOMAIN slots, n \notin DOMAIN slots,
         rx' = rx + n, rx_seq' = Add(rx_seq, n), rxed_reliable' = Shifted(slots, n),
         UNCHANGED <<tx, tx_seq, num, front, acked, failed>>
  PROVE  SeqInv'
<1> DEFINE D == DOMAIN rxed_reliable \cup {k - rx}
<1> USE SeqAssumption, Quarter
<1>0. /\ tx \in Nat /\ front \in 0 .. tx /\ rx \in 0 .. tx /\ tx_seq \in SeqNo
      /\ DOMAIN rxed_reliable \subseteq 1 .. USABLE_INTERVAL
      /\ num \in [0 .. (tx - 1) -> SeqNo]
      /\ front <= rx /\ tx - front <= ONE_QUARTER
      /\ rx_seq = Minus(tx_seq, tx - rx)
  BY Zenon, TypeParts, Ages
<1>1. \A o \in D : o \in 0 .. USABLE_INTERVAL /\ rx + o \in 0 .. (tx - 1)
  <2>1. \A o \in DOMAIN rxed_reliable : rx + o < tx
    BY DEF SeqInv, SlotInv
  <2> QED
    BY <1>0, <2>1
<1>2. DOMAIN slots = D /\ \A o \in D : slots[o] = num[rx + o]
  <2>1. \A o \in DOMAIN rxed_reliable : rxed_reliable[o] = num[rx + o]
    BY DEF SeqInv, SlotInv
  <2>2. rx + (k - rx) = k
    BY <1>0
  <2> QED
    BY <2>1, <2>2
<1>3. rx + n <= tx
  <2>1. CASE n = 0
    BY <1>0, <2>1
  <2>2. CASE n # 0
    <3>1. n - 1 \in 0 .. (n - 1)
      BY <2>2
    <3>2. n - 1 \in D
      BY <3>1, <1>2
    <3> QED
      BY <1>0, <1>1, <3>2
  <2> QED
    BY <2>1, <2>2
<1>4. DOMAIN rxed_reliable' = {p - n : p \in {q \in D : q >= n}}
  BY <1>2 DEF Shifted
<1>5. \A o \in DOMAIN rxed_reliable' :
        /\ o + n \in D /\ o \in 1 .. USABLE_INTERVAL
        /\ rxed_reliable'[o] = slots[o + n]
  <2> SUFFICES ASSUME NEW o \in DOMAIN rxed_reliable'
               PROVE  /\ o + n \in D /\ o \in 1 .. USABLE_INTERVAL
                      /\ rxed_reliable'[o] = slots[o + n]
    OBVIOUS
  <2>0. PICK p \in D : p >= n /\ o = p - n
    BY <1>4
  <2>1. p \in 0 .. USABLE_INTERVAL /\ p # n
    BY <2>0, <1>1, <1>2
  <2>2. (p - n) + n = p /\ p - n \in 1 .. USABLE_INTERVAL
    BY <2>0, <2>1
  <2>3. p - n \in {x - n : x \in {q \in DOMAIN slots : q >= n}}
    BY <2>0, <1>2
  <2> QED
    BY <2>0, <2>2, <2>3 DEF Shifted
<1> HIDE DEF D
<1>6. SlotInv'
  <2> SUFFICES ASSUME NEW o \in DOMAIN rxed_reliable'
               PROVE  (rx + n) + o < tx /\ rxed_reliable'[o] = num[(rx + n) + o]
    BY DEF SlotInv
  <2>1. o + n \in D /\ o \in 1 .. USABLE_INTERVAL /\ rxed_reliable'[o] = slots[o + n]
    BY <1>5
  <2>2. rx + (o + n) \in 0 .. (tx - 1) /\ slots[o + n] = num[rx + (o + n)]
    BY <2>1, <1>1, <1>2
  <2>3. rx + (o + n) = (rx + n) + o /\ (rx + (o + n) <= tx - 1 => (rx + n) + o < tx)
    <3>1. rx \in Nat /\ tx \in Nat /\ o \in Nat /\ n \in Nat
      BY <1>0, <2>1
    <3> QED
      BY <3>1
  <2> QED
    BY <2>1, <2>2, <2>3
<1>7. rx_seq' \in SeqNo /\ rx_seq' = Minus(tx_seq, tx - (rx + n))
  <2>1. tx - rx \in 0 .. (M - 1) /\ n \in 0 .. (tx - rx) /\ (tx - rx) - n = tx - (rx + n)
    BY <1>0, <1>3
  <2> QED
    BY <1>0, <2>1, CatchUp
<1>8. SeqType'
  <2>1. rx' \in 0 .. tx'
    BY <1>0, <1>3
  <2>2. DOMAIN rxed_reliable' \subseteq 1 .. USABLE_INTERVAL
    BY <1>5
  <2>3. rxed_reliable' \in [DOMAIN rxed_reliable' -> SeqNo]
    <3>1. \A o \in DOMAIN rxed_reliable' : rxed_reliable'[o] \in SeqNo
      <4> SUFFICES ASSUME NEW o \in DOMAIN rxed_reliable' PROVE rxed_reliable'[o] \in SeqNo
        OBVIOUS
      <4>1. o + n \in D /\ rxed_reliable'[o] = slots[o + n]
        BY <1>5
      <4>2. slots[o + n] = num[rx + (o + n)] /\ rx + (o + n) \in 0 .. (tx - 1)
        BY <4>1, <1>1, <1>2
      <4> QED
        BY <4>1, <4>2, <1>0
    <3> QED
      BY <3>1 DEF Shifted
  <2> QED
    BY Zenon, <2>1, <2>2, <2>3, <1>7, TypeParts DEF SeqType
<1>9. NumInv' /\ WindowInv' /\ RxSeqInv'
  BY Zenon, <1>7 DEF SeqInv, NumInv, WindowInv, RxSeqInv
<1>10. GotInv'
  <2> SUFFICES ASSUME NEW j \in 0 .. (tx - 1), Got(j)
               PROVE  Got(j)'
    BY DEF SeqInv, GotInv
  <2>1. CASE j < rx + n
    BY <2>1 DEF Got
  <2>2. CASE j >= rx + n
    <3>1. j - rx \in DOMAIN rxed_reliable /\ j - rx >= n
      BY <1>0, <2>2 DEF Got
    <3>2. (j - rx) - n \in DOMAIN rxed_reliable'
      BY <3>1, <1>4 DEF D
    <3>3. (j - rx) - n = j - (rx + n)
      BY <1>0
    <3> QED
      BY <3>2, <3>3 DEF Got
  <2> QED
    BY <2>1, <2>2, <1>0
<1> QED
  BY <1>6, <1>8, <1>9, <1>10 DEF SeqInv

\* Receiving a message preserves the invariant.
LEMMA ReceiveStep ==
  ASSUME SeqInv, HandleReceived
  PROVE  SeqInv'
<1>0. UNCHANGED <<tx, tx_seq, num, front, acked>>
  BY DEF HandleReceived
<1>1. PICK k \in Recent :
        /\ ~Less(num[k], rx_seq)
        /\ \/ failed' = TRUE /\ UNCHANGED <<rx, rx_seq, rxed_reliable>>
           \/ /\ Sub(num[k], rx_seq) \in 0 .. USABLE_INTERVAL
              /\ \E n \in 0 .. (USABLE_INTERVAL + 1) :
                   LET slots == [o \in DOMAIN rxed_reliable \cup {Sub(num[k], rx_seq)} |->
                                   IF o \in DOMAIN rxed_reliable THEN rxed_reliable[o] ELSE num[k]]
                   IN /\ 0 .. (n - 1) \subseteq DOMAIN slots /\ n \notin DOMAIN slots
                      /\ rx' = rx + n
                      /\ rx_seq' = Add(rx_seq, n)
                      /\ rxed_reliable' = Shifted(slots, n)
              /\ UNCHANGED failed
  BY Zenon DEF HandleReceived, InWindow
<1>2. CASE failed' = TRUE /\ UNCHANGED <<rx, rx_seq, rxed_reliable>>
  BY <1>0, <1>2, FailStep
<1>3. CASE ~(failed' = TRUE /\ UNCHANGED <<rx, rx_seq, rxed_reliable>>)
  <2>1. /\ Less(num[k], rx_seq) <=> k < rx
        /\ k >= rx => Sub(num[k], rx_seq) = k - rx
    BY InvReceived DEF ReceivedInPlace
  <2>2. k \in 0 .. (tx - 1) /\ rx \in Nat
    BY Ages DEF Recent
  <2>3. k >= rx /\ Sub(num[k], rx_seq) = k - rx
    BY <1>1, <2>1, <2>2
  <2>4. k - rx <= USABLE_INTERVAL /\ UNCHANGED failed
    BY <1>1, <1>3, <2>3
  <2>5. PICK n \in 0 .. (USABLE_INTERVAL + 1) :
          LET slots == [o \in DOMAIN rxed_reliable \cup {k - rx} |->
                          IF o \in DOMAIN rxed_reliable THEN rxed_reliable[o] ELSE num[k]]
          IN /\ 0 .. (n - 1) \subseteq DOMAIN slots /\ n \notin DOMAIN slots
             /\ rx' = rx + n
             /\ rx_seq' = Add(rx_seq, n)
             /\ rxed_reliable' = Shifted(slots, n)
    BY <1>1, <1>3, <2>3
  <2> QED
    BY <1>0, <2>2, <2>3, <2>4, <2>5, FillStep
<1> QED
  BY <1>2, <1>3

\* Every step preserves the invariant.
LEMMA InvStep == SeqInv /\ [Next]_vars => SeqInv'
<1> SUFFICES ASSUME SeqInv, [Next]_vars PROVE SeqInv'
  OBVIOUS
<1>1. CASE SendData
  <2>1. tx - front <= USABLE_INTERVAL /\ tx \in Nat /\ front \in Nat
    BY <1>1, Avail, Ages DEF SendData
  <2>2. tx - front <= USABLE_INTERVAL + Slack
    BY <2>1, SeqAssumption
  <2> QED
    BY <1>1, <2>2, SendStep DEF SendData
<1>2. CASE SendControl
  BY <1>2, SendStep DEF SendControl
<1>3. CASE HandleAck
  BY <1>3, AckStep
<1>4. CASE HandleReceived
  BY <1>4, ReceiveStep
<1>5. CASE UNCHANGED vars
  <2> USE <1>5 DEF vars
  <2>1. SeqType'
    BY TypeParts DEF SeqType
  <2>2. NumInv' /\ RxSeqInv' /\ WindowInv' /\ GotInv' /\ SlotInv'
    BY Zenon DEF SeqInv, NumInv, RxSeqInv, WindowInv, GotInv, SlotInv, Got
  <2> QED
    BY <2>1, <2>2 DEF SeqInv
<1> QED
  BY <1>1, <1>2, <1>3, <1>4, <1>5 DEF Next

\* The wrapped numbers lag the counts they stand for by the age of their
\* message, and what left txed_packets has been received: SeqInv holds.
THEOREM SeqInvariant == Spec => []SeqInv
<1> QED
  BY InitInv, InvStep, PTL DEF Spec

\* Comparing numbers with Seq::cmp orders the unacknowledged packets by age.
THEOREM Ordering == Spec => []WindowOrder
BY SeqInvariant, InvOrder, PTL

\* The lookup of handle_ack finds the acknowledged packet and no other.
THEOREM Acking == Spec => []AckHitsPacket
BY SeqInvariant, InvAck, PTL

\* The receiver recognises what it handed out and places the rest.
THEOREM Receiving == Spec => []ReceivedInPlace
BY SeqInvariant, InvReceived, PTL

\* Without control messages beyond the window no offset is out of range.
LEMMA UnderflowStep == SeqInv /\ NoUnderflow /\ [Next]_vars => NoUnderflow'
<1> SUFFICES ASSUME SeqInv, NoUnderflow, [Next]_vars, failed' PROVE NoUnderflow'
  BY DEF NoUnderflow
<1>0. CASE failed
  BY <1>0 DEF NoUnderflow, Next, SendData, SendControl, NextTxSeq, HandleAck, HandleReceived, vars
<1> SUFFICES ASSUME ~failed PROVE NoUnderflow'
  BY <1>0
<1>1. HandleReceived
  BY DEF Next, SendData, SendControl, NextTxSeq, HandleAck, vars
<1>2. PICK k \in Recent :
        /\ ~Less(num[k], rx_seq)
        /\ Sub(num[k], rx_seq) \notin 0 .. USABLE_INTERVAL
  BY <1>1 DEF HandleReceived, InWindow
<1>3. /\ Less(num[k], rx_seq) <=> k < rx
      /\ k >= rx => Sub(num[k], rx_seq) = k - rx
  BY InvReceived DEF ReceivedInPlace
<1>4. /\ k \in Nat /\ k < tx /\ tx \in Nat /\ rx \in Nat /\ front \in Nat /\ front <= rx
  BY Ages DEF Recent
<1>5. tx - front > USABLE_INTERVAL + 1
  BY <1>2, <1>3, <1>4, SeqAssumption
<1> QED
  BY <1>1, <1>5 DEF NoUnderflow, HandleReceived

\* A number is out of range for the receiver only when control messages have
\* overrun the window that tx_seq_avail keeps.
THEOREM Underflow == Spec => []NoUnderflow
<1>1. Init => NoUnderflow
  BY DEF Init, NoUnderflow
<1> QED
  BY <1>1, SeqInvariant, UnderflowStep, PTL DEF Spec
=============================================================================
