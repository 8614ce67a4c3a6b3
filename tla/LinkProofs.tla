----------------------------- MODULE LinkProofs -----------------------------
(***************************************************************************)
(* The scheduling of a link is sound for any limits and any number of      *)
(* messages, faults and changes of its blocking.                           *)
(***************************************************************************)
EXTENDS LinkSched, FiniteSets, FiniteSetTheorems, TLAPS

-----------------------------------------------------------------------------
(***************************************************************************)
(* The inductive invariant, in parts.  The first parts are about the       *)
(* record of one link, so that they can be followed through the functions  *)
(* an iteration of the main loop applies to it.                            *)
(***************************************************************************)

\* A link in the idle list can take a reliable message.
IdleOK(r) ==
  r.idle => /\ r.state = "up" /\ r.unconfirmed = "none" /\ r.disconnecting = "none"
            /\ ~r.tx_polling

\* A link that is not polled has nothing to send; changed says that a
\* notification of changed blocking waits.
WaitOK(e, r, changed) ==
  r.state = "up" /\ ~r.tx_polling =>
    /\ ~r.needs_tx_accepted /\ ~r.send_pong
    /\ r.disconnecting # "none" => r.disconnecting = "Local" /\ r.goodbye_sent
    /\ r.disconnecting = "none" =>
         /\ ~r.send_ping /\ r.tx_ack_queue = 0
         /\ blocked[e] # r.blocked_sent => changed

\* Only a link that is not confirmed is being tested or has failed its test.
TestOK(r) == r.test # "Inactive" => r.unconfirmed # "none"

\* A link that is not up is as new.
FreshOK(e, r) == r.state # "up" => r = Remove(e, r.state)

Good(e, r, changed) ==
  r \in LinkInt /\ IdleOK(r) /\ WaitOK(e, r, changed) /\ TestOK(r) /\ FreshOK(e, r)

\* Number of messages in q that belong to S.
Count(q, S) == Cardinality({i \in 1 .. Len(q) : q[i] \in S})
Reliable == {"Data", "Consumed"}
Acks == {"Ack"}

\* Every Ack that an endpoint has received, or will receive, is for a message
\* that waits for it.
AckInv ==
  \A e \in EP : ~Gone(link[e]) =>
    Count(chan[e], Reliable) + link[Peer[e]].tx_ack_queue + Count(chan[Peer[e]], Acks)
      <= Len(link[e].txed)

\* The server's task sends Accepted before anything else.
AcceptInv ==
  \A e \in EP \ {Server} : link[e].state = "joining" =>
    \/ chan[Server] = <<>> /\ link[Server].needs_tx_accepted
    \/ chan[Server] # <<>> /\ Head(chan[Server]) = "Accepted"

LinkInv ==
  /\ LinkTypeOK
  /\ \A e \in EP : Good(e, link[e], blocked_changed[e])
  /\ PingTracked /\ AckInv /\ AcceptInv
-----------------------------------------------------------------------------
(***************************************************************************)
(* Counting messages.                                                      *)
(***************************************************************************)

\* A count is finite and zero for an empty channel.
LEMMA CountType ==
  ASSUME NEW q \in Seq(Msgs), NEW S
  PROVE  /\ IsFiniteSet({i \in 1 .. Len(q) : q[i] \in S}) /\ Count(q, S) \in Nat
         /\ q = <<>> => Count(q, S) = 0
<1>1. IsFiniteSet(1 .. Len(q))
  BY FS_Interval
<1>2. IsFiniteSet({i \in 1 .. Len(q) : q[i] \in S})
  BY <1>1, FS_Subset
<1>3. q = <<>> => {i \in 1 .. Len(q) : q[i] \in S} = {}
  OBVIOUS
<1> QED
  BY <1>2, <1>3, FS_CardinalityType, FS_EmptySet DEF Count

\* Sending one message.
LEMMA CountAppend ==
  ASSUME NEW q \in Seq(Msgs), NEW m \in Msgs, NEW S
  PROVE  Count(Append(q, m), S) = Count(q, S) + IF m \in S THEN 1 ELSE 0
<1> DEFINE A == {i \in 1 .. Len(q) : q[i] \in S}
<1> DEFINE B == {i \in 1 .. Len(Append(q, m)) : Append(q, m)[i] \in S}
<1>1. IsFiniteSet(A) /\ Cardinality(A) \in Nat
  BY CountType, FS_CardinalityType
<1>2. /\ Len(q) \in Nat /\ Len(Append(q, m)) = Len(q) + 1 /\ Append(q, m)[Len(q) + 1] = m
      /\ \A i \in 1 .. Len(q) : Append(q, m)[i] = q[i]
  OBVIOUS
<1>3. CASE m \in S
  <2>1. B = A \cup {Len(q) + 1} /\ Len(q) + 1 \notin A
    BY <1>2, <1>3
  <2>2. Cardinality(B) = Cardinality(A) + 1
    BY <1>1, <2>1, FS_AddElement
  <2> QED
    BY <1>3, <2>2 DEF Count
<1>4. CASE m \notin S
  <2>1. B = A
    BY <1>2, <1>4
  <2>2. Count(q, S) = Cardinality(A) /\ Count(Append(q, m), S) = Cardinality(B)
    BY DEF Count
  <2> HIDE DEF A, B
  <2> QED
    BY <1>1, <1>4, <2>1, <2>2
<1> QED
  BY <1>3, <1>4

\* Receiving one message.
LEMMA CountTail ==
  ASSUME NEW q \in Seq(Msgs), q # <<>>, NEW S
  PROVE  /\ Tail(q) \in Seq(Msgs) /\ Head(q) \in Msgs
         /\ Count(q, S) = Count(Tail(q), S) + IF Head(q) \in S THEN 1 ELSE 0
<1> DEFINE A == {i \in 1 .. Len(Tail(q)) : Tail(q)[i] \in S}
<1> DEFINE B == {i \in 2 .. Len(q) : q[i] \in S}
<1> DEFINE C == {i \in 1 .. Len(q) : q[i] \in S}
<1>1. /\ Tail(q) \in Seq(Msgs) /\ Head(q) \in Msgs /\ Head(q) = q[1]
      /\ Len(q) \in Nat \ {0} /\ Len(Tail(q)) = Len(q) - 1
      /\ \A i \in 1 .. Len(Tail(q)) : Tail(q)[i] = q[i + 1]
  OBVIOUS
<1>2. IsFiniteSet(A) /\ Cardinality(A) \in Nat
  BY <1>1, CountType, FS_CardinalityType
<1>3. ExistsBijection(A, B)
  <2> DEFINE f == [i \in A |-> i + 1]
  <2>1. f \in [A -> B]
    BY <1>1
  <2>2. \A i, j \in A : f[i] = f[j] => i = j
    BY <1>1
  <2>3. \A j \in B : \E i \in A : f[i] = j
    <3> TAKE j \in B
    <3>1. j - 1 \in A /\ f[j - 1] = j
      BY <1>1
    <3> QED
      BY <3>1
  <2>4. f \in Bijection(A, B)
    BY <2>1, <2>2, <2>3 DEF Bijection, Injection, Surjection, IsInjective
  <2> QED
    BY <2>4 DEF ExistsBijection
<1>4. IsFiniteSet(B) /\ Cardinality(B) = Cardinality(A)
  BY <1>2, <1>3, FS_Bijection
<1>5. CASE Head(q) \in S
  <2>1. C = B \cup {1} /\ 1 \notin B
    BY <1>1, <1>5
  <2>2. Cardinality(C) = Cardinality(B) + 1
    BY <1>4, <2>1, FS_AddElement
  <2> QED
    BY <1>1, <1>4, <1>5, <2>2 DEF Count
<1>6. CASE Head(q) \notin S
  <2>1. C = B
    BY <1>1, <1>6
  <2>2. Count(q, S) = Cardinality(C) /\ Count(Tail(q), S) = Cardinality(A)
    BY DEF Count
  <2> HIDE DEF A, B, C
  <2> QED
    BY <1>1, <1>2, <1>4, <1>6, <2>1, <2>2
<1> QED
  BY <1>1, <1>5, <1>6

\* What a channel looks like after a message or none was put on it.
LEMMA ConcatFacts ==
  ASSUME NEW q \in Seq(Msgs)
  PROVE  q \o <<>> = q /\ \A m \in Msgs : q \o <<m>> = Append(q, m)
OBVIOUS
-----------------------------------------------------------------------------
(***************************************************************************)
(* The functions on the record of a link.                                  *)
(***************************************************************************)

\* What the peer and the handshake depend on.
Keeps(r, s) ==
  /\ s.state = r.state /\ s.needs_tx_accepted = r.needs_tx_accepted
  /\ s.current_ping_sent = r.current_ping_sent /\ s.send_pong = r.send_pong
  /\ s.tx_ack_queue = r.tx_ack_queue /\ s.txed = r.txed

\* The fields that count.
LEMMA LinkNats ==
  ASSUME NEW r \in LinkInt
  PROVE  /\ r.txed \in Seq(Reliable) /\ Len(r.txed) \in Nat
         /\ r.tx_ack_queue \in Nat /\ r.sent \in Nat
<1>1. r.txed \in Seq(Reliable) /\ r.tx_ack_queue \in Nat /\ r.sent \in Nat
  BY DEF LinkInt, Reliable
<1> QED
  BY <1>1

\* A polled link that is not idle is as good as its record.
LEMMA Polled ==
  ASSUME NEW e, NEW changed, NEW r \in LinkInt, r.state = "up", ~r.idle, r.tx_polling, TestOK(r)
  PROVE  Good(e, r, changed)
BY DEF Good, IdleOK, WaitOK, FreshOK

\* Ready and Flush.
LEMMA ReadyFacts ==
  ASSUME NEW r \in LinkInt
  PROVE  /\ Flush(r) = Ready(r) /\ Ready(r) \in LinkInt /\ Keeps(r, Ready(r))
         /\ ~Ready(r).idle /\ Ready(r).tx_polling
         /\ Ready(r).unconfirmed = r.unconfirmed /\ Ready(r).test = r.test
BY DEF Ready, Flush, LinkInt, Keeps

\* Unconfirm, for a reason.
LEMMA UnconfirmFacts ==
  ASSUME NEW r \in LinkInt, NEW reason \in Reasons \ {"none"}
  PROVE  /\ Unconfirm(r, reason) \in LinkInt /\ Keeps(r, Unconfirm(r, reason))
         /\ ~Unconfirm(r, reason).idle /\ Unconfirm(r, reason).tx_polling
         /\ TestOK(Unconfirm(r, reason))
<1> DEFINE u == Flush(r)
<1>1. u \in LinkInt /\ Keeps(r, u) /\ ~u.idle /\ u.tx_polling
  BY ReadyFacts
<1>2. Unconfirm(r, reason) = [u EXCEPT !.unconfirmed = reason, !.sent = 0,
                                       !.test = IF @ = "Failed" THEN "Inactive" ELSE @]
  BY DEF Unconfirm
<1> HIDE DEF u
<1>3. Unconfirm(r, reason) \in LinkInt
  <2>1. PICK t \in {"Inactive", "InProgress", "Failed"} :
          Unconfirm(r, reason) = [u EXCEPT !.unconfirmed = reason, !.sent = 0, !.test = t]
    BY <1>1, <1>2 DEF LinkInt
  <2>2. [u EXCEPT !.test = t] \in LinkInt
    BY <1>1 DEF LinkInt
  <2>3. [[u EXCEPT !.test = t] EXCEPT !.unconfirmed = reason, !.sent = 0] \in LinkInt
    BY <2>2 DEF LinkInt
  <2>4. [u EXCEPT !.unconfirmed = reason, !.sent = 0, !.test = t]
          = [[u EXCEPT !.test = t] EXCEPT !.unconfirmed = reason, !.sent = 0]
    BY <1>1 DEF LinkInt
  <2> QED
    BY <2>1, <2>3, <2>4
<1>4. Keeps(u, Unconfirm(r, reason)) /\ ~Unconfirm(r, reason).idle /\ Unconfirm(r, reason).tx_polling
  BY <1>1, <1>2 DEF LinkInt, Keeps
<1>5. Unconfirm(r, reason).unconfirmed = reason
  BY <1>1, <1>2 DEF LinkInt
<1> QED
  BY <1>1, <1>3, <1>4, <1>5 DEF Keeps, TestOK

\* Confirm.
LEMMA ConfirmFacts ==
  ASSUME NEW r \in LinkInt
  PROVE  /\ Confirm(r) \in LinkInt /\ Keeps(r, Confirm(r))
         /\ ~Confirm(r).idle /\ Confirm(r).tx_polling /\ TestOK(Confirm(r))
<1> DEFINE u == Ready(r)
<1>1. u \in LinkInt /\ Keeps(r, u) /\ ~u.idle /\ u.tx_polling
  BY ReadyFacts
<1>2. Confirm(r) = [u EXCEPT !.unconfirmed = "none", !.test = "Inactive"]
  BY DEF Confirm
<1> HIDE DEF u
<1>3. Confirm(r) \in LinkInt
  BY <1>1, <1>2 DEF LinkInt, Reasons
<1>4. Keeps(u, Confirm(r)) /\ ~Confirm(r).idle /\ Confirm(r).tx_polling /\ Confirm(r).test = "Inactive"
  BY <1>1, <1>2 DEF LinkInt, Keeps
<1> QED
  BY <1>1, <1>3, <1>4 DEF Keeps, TestOK

\* A removed link, and a new one.
LEMMA RemoveFacts ==
  ASSUME NEW e \in EP, NEW reason \in {"joining"} \cup Disconnected \cup Failures, NEW changed
  PROVE  /\ Good(e, Remove(e, reason), changed) /\ Remove(e, reason).state = reason
         /\ Remove(e, reason).txed = <<>> /\ Remove(e, reason).tx_ack_queue = 0
         /\ ~Remove(e, reason).current_ping_sent
         /\ e = Server => Remove(e, reason).needs_tx_accepted
<1>1. NewLink(e) \in LinkInt
  BY DEF NewLink, LinkInt, Reasons
<1>2. Remove(e, reason) \in LinkInt /\ Remove(e, reason).state = reason
  BY <1>1 DEF Remove, LinkInt
<1>3. reason # "up"
  BY DEF Disconnected, Timeouts, Failures
<1> QED
  BY <1>2, <1>3 DEF Good, IdleOK, WaitOK, TestOK, FreshOK, Remove, NewLink

\* A test step: either nothing happens, or the link is polled, or a test that
\* is not for an idle link has failed.
LEMMA TestingFacts ==
  ASSUME LinkTypeOK, NEW e \in EP, NEW changed \in BOOLEAN, NEW r, Good(e, r, changed),
         NEW step \in LinkTestingStep(e, r)
  PROVE  /\ Good(e, step[1], changed) /\ Keeps(r, step[1])
         /\ step[2] \in {<<>>, <<"TestData">>}
         /\ step[2] # <<>> => r.state = "up" /\ ~r.tx_polling
<1>1. r \in LinkInt
  BY DEF Good
<1>2. CASE step = <<r, <<>>>>
  BY <1>2 DEF Keeps
<1>3. CASE r.state = "up" /\ step = <<Confirm(r), <<>>>>
  BY <1>1, <1>3, ConfirmFacts, Polled DEF Keeps
<1>4. CASE r.state = "up" /\ r.test = "InProgress"
           /\ step = <<[r EXCEPT !.test = "Failed", !.unconfirmed = "MaxPingExceeded"], <<>>>>
  <2> DEFINE s == [r EXCEPT !.test = "Failed", !.unconfirmed = "MaxPingExceeded"]
  <2>1. s \in LinkInt
    BY <1>1 DEF LinkInt, Reasons
  <2>2. ~r.idle
    BY <1>4 DEF Good, IdleOK, TestOK
  <2>3. Keeps(r, s) /\ IdleOK(s) /\ TestOK(s) /\ FreshOK(e, s)
    BY <1>1, <1>4, <2>2 DEF LinkInt, Keeps, IdleOK, TestOK, FreshOK
  <2>4. WaitOK(e, s, changed)
    BY <1>1 DEF Good, WaitOK, LinkInt
  <2> QED
    BY <1>4, <2>1, <2>3, <2>4 DEF Good
<1>5. CASE /\ r.state = "up" /\ Testable(r)
           /\ step[1] = [r EXCEPT !.tx_polling = TRUE, !.send_ping = TRUE, !.test = "InProgress"]
           /\ step[2] \in {<<>>, <<"TestData">>}
  <2> DEFINE s == [r EXCEPT !.tx_polling = TRUE, !.send_ping = TRUE, !.test = "InProgress"]
  <2>1. s \in LinkInt /\ Keeps(r, s) /\ s.tx_polling /\ TestOK(s) /\ s.idle = r.idle
    BY <1>1, <1>5 DEF LinkInt, Keeps, TestOK, Testable
  <2>2. ~r.idle /\ ~r.tx_polling
    BY <1>5 DEF Good, IdleOK, Testable
  <2>3. Good(e, s, changed)
    BY <1>5, <2>1, <2>2, Polled DEF Keeps
  <2> QED
    BY <1>5, <2>1, <2>2, <2>3
<1>6. \/ step = <<r, <<>>>>
      \/ r.state = "up" /\ step = <<Confirm(r), <<>>>>
      \/ /\ r.state = "up" /\ r.test = "InProgress"
         /\ step = <<[r EXCEPT !.test = "Failed", !.unconfirmed = "MaxPingExceeded"], <<>>>>
      \/ /\ r.state = "up" /\ Testable(r)
         /\ step[1] = [r EXCEPT !.tx_polling = TRUE, !.send_ping = TRUE, !.test = "InProgress"]
         /\ step[2] \in {<<>>, <<"TestData">>}
  <2>1. r.test \in {"Inactive", "InProgress", "Failed"}
    BY <1>1 DEF LinkInt
  <2>2. CASE r.state # "up" \/ r.test = "Failed"
    BY <2>2 DEF LinkTestingStep
  <2>3. CASE r.state = "up" /\ r.test = "Inactive"
    <3>1. step \in TestStart(e, r)
      BY <2>3 DEF LinkTestingStep
    <3> QED
      BY <2>3, <3>1 DEF TestStart
  <2>4. CASE r.state = "up" /\ r.test = "InProgress"
    <3>1. step \in TestEnd(r)
      BY <2>4 DEF LinkTestingStep
    <3> QED
      BY <2>4, <3>1 DEF TestEnd
  <2> QED
    BY <2>1, <2>2, <2>3, <2>4
<1> QED
  BY <1>2, <1>3, <1>4, <1>5, <1>6
-----------------------------------------------------------------------------
(***************************************************************************)
(* An iteration of the main loop.                                          *)
(***************************************************************************)
Has(q, m) == \E i \in 1 .. Len(q) : q[i] = m

\* The message x, or none.
MaybeMsg == Msgs \cup {"none"}
MaybeTest == {"TestData", "none"}
One(x) == IF x = "none" THEN <<>> ELSE <<x>>

\* The channel q after x and the test data t were put on it.
Put(q, x, t) == (q \o One(x)) \o One(t)

\* What Append leaves in place and adds.
LEMMA HasAppend ==
  ASSUME NEW q \in Seq(Msgs), NEW m \in Msgs
  PROVE  /\ Append(q, m) \in Seq(Msgs) /\ Append(q, m) # <<>>
         /\ \A n : Has(q, n) => Has(Append(q, m), n)
         /\ Has(Append(q, m), m)
         /\ Head(Append(q, m)) = IF q = <<>> THEN m ELSE Head(q)
<1>1. /\ Append(q, m) \in Seq(Msgs) /\ Len(Append(q, m)) = Len(q) + 1 /\ Len(q) \in Nat
      /\ \A k \in 1 .. Len(q) : Append(q, m)[k] = q[k]
      /\ Append(q, m)[Len(q) + 1] = m
  OBVIOUS
<1>2. Head(Append(q, m)) = IF q = <<>> THEN m ELSE Head(q)
  OBVIOUS
<1>3. ASSUME NEW n, Has(q, n) PROVE Has(Append(q, m), n)
  <2>1. PICK i \in 1 .. Len(q) : q[i] = n
    BY <1>3 DEF Has
  <2>2. i \in 1 .. Len(Append(q, m)) /\ Append(q, m)[i] = n
    BY <1>1, <2>1
  <2> QED
    BY <2>2 DEF Has
<1>4. Has(Append(q, m), m)
  <2>1. Len(q) + 1 \in 1 .. Len(Append(q, m))
    BY <1>1
  <2> QED
    BY <1>1, <2>1 DEF Has
<1>5. Append(q, m) # <<>>
  BY <1>1
<1> QED
  BY <1>1, <1>2, <1>3, <1>4, <1>5

\* What Tail leaves in place.
LEMMA HasTail ==
  ASSUME NEW q \in Seq(Msgs), q # <<>>, NEW m
  PROVE  Has(q, m) => Head(q) = m \/ Has(Tail(q), m)
<1> SUFFICES ASSUME NEW i \in 1 .. Len(q), q[i] = m, Head(q) # m
             PROVE  \E k \in 1 .. Len(Tail(q)) : Tail(q)[k] = m
  BY DEF Has
<1>1. i - 1 \in 1 .. Len(Tail(q)) /\ Tail(q)[i - 1] = m
  OBVIOUS
<1> QED
  BY <1>1

\* A message, or none, is put on a channel.
LEMMA PutOne ==
  ASSUME NEW q \in Seq(Msgs), NEW x \in MaybeMsg
  PROVE  /\ q \o One(x) \in Seq(Msgs)
         /\ \A m : Has(q, m) => Has(q \o One(x), m)
         /\ x # "none" => Has(q \o One(x), x)
         /\ q # <<>> => q \o One(x) # <<>> /\ Head(q \o One(x)) = Head(q)
         /\ q = <<>> /\ x # "none" => q \o One(x) # <<>> /\ Head(q \o One(x)) = x
         /\ q = <<>> /\ x = "none" => q \o One(x) = <<>>
<1>1. PICK u : u = q \o One(x)
  OBVIOUS
<1>2. CASE x = "none"
  <2>1. u = q
    BY <1>1, <1>2, ConcatFacts DEF One
  <2> QED
    BY <1>1, <1>2, <2>1
<1>3. CASE x # "none"
  <2>1. u = Append(q, x) /\ x \in Msgs
    BY <1>1, <1>3, ConcatFacts DEF One, MaybeMsg
  <2>2. /\ u \in Seq(Msgs) /\ u # <<>> /\ Has(u, x)
        /\ \A n : Has(q, n) => Has(u, n)
        /\ Head(u) = IF q = <<>> THEN x ELSE Head(q)
    BY <2>1, HasAppend
  <2> QED
    BY <1>1, <1>3, <2>2
<1> QED
  BY <1>2, <1>3

\* It is counted if it is one of S.
LEMMA PutOneCount ==
  ASSUME NEW q \in Seq(Msgs), NEW x \in MaybeMsg, NEW S, "none" \notin S
  PROVE  Count(q \o One(x), S) = Count(q, S) + IF x \in S THEN 1 ELSE 0
<1>1. PICK u : u = q \o One(x)
  OBVIOUS
<1>2. CASE x = "none"
  <2>1. u = q
    BY <1>1, <1>2, ConcatFacts DEF One
  <2>2. Count(q, S) \in Nat /\ x \notin S
    BY <1>2, CountType
  <2>3. Count(q, S) + (IF x \in S THEN 1 ELSE 0) = Count(q, S)
    BY <2>2
  <2> QED
    BY <1>1, <2>1, <2>3
<1>3. CASE x # "none"
  <2>1. u = Append(q, x) /\ x \in Msgs
    BY <1>1, <1>3, ConcatFacts DEF One, MaybeMsg
  <2>2. Count(u, S) = Count(q, S) + IF x \in S THEN 1 ELSE 0
    BY <2>1, CountAppend
  <2> QED
    BY <1>1, <2>2
<1> QED
  BY <1>2, <1>3

\* A message and test data, or none of them, are put on a channel.
LEMMA PutFacts ==
  ASSUME NEW q \in Seq(Msgs), NEW x \in MaybeMsg, NEW t \in MaybeTest
  PROVE  /\ Put(q, x, t) \in Seq(Msgs)
         /\ \A m : Has(q, m) => Has(Put(q, x, t), m)
         /\ x # "none" => Has(Put(q, x, t), x)
         /\ q # <<>> => Put(q, x, t) # <<>> /\ Head(Put(q, x, t)) = Head(q)
         /\ q = <<>> /\ x # "none" => Put(q, x, t) # <<>> /\ Head(Put(q, x, t)) = x
         /\ q = <<>> /\ x = "none" /\ t = "none" => Put(q, x, t) = <<>>
<1>1. PICK u : u = q \o One(x)
  OBVIOUS
<1>2. /\ u \in Seq(Msgs)
      /\ \A m : Has(q, m) => Has(u, m)
      /\ x # "none" => Has(u, x)
      /\ q # <<>> => u # <<>> /\ Head(u) = Head(q)
      /\ q = <<>> /\ x # "none" => u # <<>> /\ Head(u) = x
      /\ q = <<>> /\ x = "none" => u = <<>>
  BY <1>1, PutOne
<1>3. PICK p : p = u \o One(t) /\ p = Put(q, x, t)
  BY <1>1 DEF Put
<1>4. t \in MaybeMsg
  BY DEF MaybeTest, MaybeMsg, Msgs
<1>5. /\ p \in Seq(Msgs)
      /\ \A m : Has(u, m) => Has(p, m)
      /\ u # <<>> => p # <<>> /\ Head(p) = Head(u)
      /\ u = <<>> /\ t = "none" => p = <<>>
  <2>1. u \in Seq(Msgs) /\ p = u \o One(t)
    BY <1>2, <1>3
  <2> QED
    BY <1>4, <2>1, PutOne
<1> QED
  BY <1>2, <1>3, <1>5

\* The count of messages other than test data.
LEMMA PutCount ==
  ASSUME NEW q \in Seq(Msgs), NEW x \in MaybeMsg, NEW t \in MaybeTest,
         NEW S, "TestData" \notin S, "none" \notin S
  PROVE  Count(Put(q, x, t), S) = Count(q, S) + IF x \in S THEN 1 ELSE 0
<1>1. PICK u : u = q \o One(x)
  OBVIOUS
<1>2. u \in Seq(Msgs) /\ Count(u, S) = Count(q, S) + IF x \in S THEN 1 ELSE 0
  BY <1>1, PutOne, PutOneCount
<1>3. t \in MaybeMsg /\ t \notin S
  BY DEF MaybeTest, MaybeMsg, Msgs
<1>4. Count(u \o One(t), S) = Count(u, S) + IF t \in S THEN 1 ELSE 0
  BY <1>2, <1>3, PutOneCount
<1>5. Put(q, x, t) = u \o One(t)
  BY <1>1 DEF Put
<1>6. Count(u, S) \in Nat
  BY <1>2, CountType
<1> QED
  BY <1>2, <1>3, <1>4, <1>5, <1>6

\* The top of the loop keeps a good record good and may add test data.
LEMMA IterateFacts ==
  ASSUME LinkTypeOK, NEW e \in EP, NEW changed \in BOOLEAN, NEW r, Good(e, r, changed),
         NEW incoming \in Seq(Msgs), NEW x \in MaybeMsg, Iterate(e, r, incoming, One(x))
  PROVE  /\ link' \in [EP -> LinkInt] /\ Good(e, link'[e], changed) /\ Keeps(r, link'[e])
         /\ link'[Peer[e]] = link[Peer[e]]
         /\ chan' \in [EP -> Seq(Msgs)]
         /\ chan'[Peer[e]] = IF Gone(r) THEN <<>> ELSE incoming
         /\ \E t \in MaybeTest :
              /\ t # "none" => ~r.needs_tx_accepted
              /\ chan'[e] = IF Gone(link[Peer[e]]) THEN <<>> ELSE Put(chan[e], x, t)
         /\ links_idling' \in [EP -> BOOLEAN] /\ faults' \in 0 .. MaxFaults
<1> USE LinkAssumption
<1>1. Peer[e] \in EP /\ Peer[e] # e /\ EP = {e, Peer[e]}
  OBVIOUS
<1>2. PICK slow \in BOOLEAN :
        /\ slow => r.state = "up" /\ r.unconfirmed = "none"
        /\ \E step \in LinkTestingStep(e, IF slow THEN Unconfirm(r, "MaxPingExceeded") ELSE r) :
             /\ link' = [link EXCEPT ![e] = step[1]]
             /\ chan' = [f \in EP |->
                  IF f = e
                  THEN IF Gone(link[Peer[e]]) THEN <<>> ELSE chan[e] \o One(x) \o step[2]
                  ELSE IF Gone(step[1]) THEN <<>> ELSE incoming]
             /\ faults' = faults + IF slow \/ NewFault(link[e], step[1]) THEN 1 ELSE 0
             /\ faults' <= MaxFaults
        /\ links_idling' = [links_idling EXCEPT ![e] = r.idle]
  BY DEF Iterate
<1>3. PICK s : s = IF slow THEN Unconfirm(r, "MaxPingExceeded") ELSE r
  OBVIOUS
<1>4. r \in LinkInt
  BY DEF Good
<1>5. Good(e, s, changed) /\ Keeps(r, s) /\ (~s.tx_polling => s = r)
  <2>1. CASE slow
    <3>1. s = Unconfirm(r, "MaxPingExceeded") /\ "MaxPingExceeded" \in Reasons \ {"none"}
      BY <1>3, <2>1 DEF Reasons
    <3>2. s \in LinkInt /\ Keeps(r, s) /\ ~s.idle /\ s.tx_polling /\ TestOK(s)
      BY <1>4, <3>1, UnconfirmFacts
    <3>3. s.state = "up"
      BY <1>2, <2>1, <3>2 DEF Keeps
    <3> QED
      BY <3>2, <3>3, Polled
  <2>2. CASE ~slow
    BY <1>3, <2>2 DEF Keeps
  <2> QED
    BY <2>1, <2>2
<1>6. PICK step \in LinkTestingStep(e, s) :
        /\ link' = [link EXCEPT ![e] = step[1]]
        /\ chan' = [f \in EP |->
             IF f = e
             THEN IF Gone(link[Peer[e]]) THEN <<>> ELSE chan[e] \o One(x) \o step[2]
             ELSE IF Gone(step[1]) THEN <<>> ELSE incoming]
        /\ faults' = faults + IF slow \/ NewFault(link[e], step[1]) THEN 1 ELSE 0
        /\ faults' <= MaxFaults
  BY <1>2, <1>3
<1>7. /\ Good(e, step[1], changed) /\ Keeps(s, step[1])
      /\ step[2] \in {<<>>, <<"TestData">>}
      /\ step[2] # <<>> => s.state = "up" /\ ~s.tx_polling
  BY <1>5, TestingFacts
<1>8. /\ link' \in [EP -> LinkInt] /\ link'[e] = step[1] /\ link'[Peer[e]] = link[Peer[e]]
  BY <1>1, <1>6, <1>7 DEF LinkTypeOK, Good
<1>9. Keeps(r, step[1])
  BY <1>5, <1>7 DEF Keeps
<1>10. step[2] # <<>> => ~r.needs_tx_accepted
  BY <1>5, <1>7 DEF Good, WaitOK, Keeps
<1>17. PICK t \in MaybeTest : step[2] = One(t) /\ (t # "none" => step[2] # <<>>)
  <2>1. CASE step[2] = <<>>
    <3>1. step[2] = One("none") /\ "none" \in MaybeTest
      BY <2>1 DEF One, MaybeTest
    <3> QED
      BY <3>1
  <2>2. CASE step[2] = <<"TestData">>
    <3>1. step[2] = One("TestData") /\ "TestData" \in MaybeTest /\ step[2] # <<>>
      BY <2>2 DEF One, MaybeTest
    <3> QED
      BY <3>1
  <2> QED
    BY <1>7, <2>1, <2>2
<1>11. /\ chan'[e] = IF Gone(link[Peer[e]]) THEN <<>> ELSE Put(chan[e], x, t)
       /\ chan'[Peer[e]] = IF Gone(step[1]) THEN <<>> ELSE incoming
  <2>1. chan[e] \o One(x) \o step[2] = Put(chan[e], x, t)
    BY <1>17 DEF Put
  <2> QED
    BY <1>1, <1>6, <2>1
<1>12. Gone(step[1]) <=> Gone(r)
  BY <1>9 DEF Keeps, Gone
<1>13. Put(chan[e], x, t) \in Seq(Msgs) /\ <<>> \in Seq(Msgs)
  <2>1. chan[e] \in Seq(Msgs)
    BY DEF LinkTypeOK
  <2> QED
    BY <2>1, PutFacts
<1>14. chan' \in [EP -> Seq(Msgs)]
  <2>1. chan[e] \o One(x) \o step[2] = Put(chan[e], x, t)
    BY <1>17 DEF Put
  <2>2. chan' = [f \in EP |-> IF f = e
                             THEN IF Gone(link[Peer[e]]) THEN <<>> ELSE Put(chan[e], x, t)
                             ELSE IF Gone(step[1]) THEN <<>> ELSE incoming]
    BY <1>6, <2>1
  <2> QED
    BY <1>13, <2>2
<1>15. links_idling' \in [EP -> BOOLEAN]
  <2>1. r.idle \in BOOLEAN /\ links_idling \in [EP -> BOOLEAN]
    BY <1>4 DEF LinkInt, LinkTypeOK
  <2> QED
    BY <1>2, <2>1
<1>16. faults' \in 0 .. MaxFaults
  BY <1>6 DEF LinkTypeOK
<1> QED
  BY <1>7, <1>8, <1>9, <1>10, <1>17, <1>11, <1>12, <1>14, <1>15, <1>16

\* What the handling of an event owes the peer: Accepted comes first, a ping
\* received is answered, an answer waited for is not lost, and no more is
\* acknowledged than was received.
Consistent(e, r, incoming, x) ==
  LET p == Peer[e] IN
  /\ ~Gone(link[e]) /\ r.state # "joining"
  /\ Gone(r) => r.tx_ack_queue = 0 /\ x = "none"
  /\ e = Server /\ link[e].needs_tx_accepted =>
       x = "Accepted" \/ (r.needs_tx_accepted /\ x = "none")
  /\ ~Gone(r) /\ r.current_ping_sent =>
       \/ x = "Ping"
       \/ Up(e) /\ link[e].current_ping_sent /\ (Has(chan[p], "Pong") => Has(incoming, "Pong"))
  /\ ~Gone(r) =>
       /\ Has(chan[p], "Ping") => Has(incoming, "Ping") \/ r.send_pong
       /\ link[e].send_pong => r.send_pong \/ x = "Pong"
       /\ Len(link[e].txed) + (IF x \in Reliable THEN 1 ELSE 0) + Count(incoming, Acks)
            <= Len(r.txed) + Count(chan[p], Acks)
       /\ Count(incoming, Reliable) + r.tx_ack_queue + (IF x \in Acks THEN 1 ELSE 0)
            <= Count(chan[p], Reliable) + link[e].tx_ack_queue

\* What an event does to the notification of e and to the queues of the tasks.
Notified(e, changed) == blocked_changed' = [blocked_changed EXCEPT ![e] = changed]
TaskTypes ==
  consumed \in [EP -> BOOLEAN] /\ write_rx \in [EP -> Nat] /\ consumable \in [EP -> Nat]

\* A consistent event keeps the invariant.
LEMMA EventStep ==
  ASSUME LinkInv, NEW e \in EP, NEW changed \in BOOLEAN, NEW r, Good(e, r, changed),
         NEW incoming \in Seq(Msgs), NEW x \in MaybeMsg, Iterate(e, r, incoming, One(x)),
         Consistent(e, r, incoming, x), UNCHANGED userVars, Notified(e, changed), TaskTypes'
  PROVE  LinkInv'
<1> USE DEF LinkInv, Notified, TaskTypes
<1>0. PICK p : p = Peer[e]
  OBVIOUS
<1>1. p \in EP /\ p # e /\ EP = {e, p} /\ Peer[p] = e
  BY <1>0, LinkAssumption
<1>2. /\ link' \in [EP -> LinkInt] /\ Good(e, link'[e], changed) /\ Keeps(r, link'[e])
      /\ link'[p] = link[p]
      /\ chan' \in [EP -> Seq(Msgs)]
      /\ chan'[p] = IF Gone(r) THEN <<>> ELSE incoming
      /\ \E t \in MaybeTest :
           /\ t # "none" => ~r.needs_tx_accepted
           /\ chan'[e] = IF Gone(link[p]) THEN <<>> ELSE Put(chan[e], x, t)
      /\ links_idling' \in [EP -> BOOLEAN] /\ faults' \in 0 .. MaxFaults
  BY <1>0, IterateFacts
<1>3. chan[e] \in Seq(Msgs) /\ chan[p] \in Seq(Msgs) /\ link[e] \in LinkInt /\ link[p] \in LinkInt
  BY <1>1 DEF LinkTypeOK
<1>4. LinkTypeOK'
  <2>1. blocked_changed' \in [EP -> BOOLEAN]
    BY DEF LinkTypeOK
  <2> QED
    BY <1>2, <2>1 DEF LinkTypeOK, userVars
<1>5. \A f \in EP : Good(f, link[f], blocked_changed[f])' 
  <2>1. blocked_changed'[e] = changed /\ blocked_changed'[p] = blocked_changed[p] /\ blocked' = blocked
    BY <1>1 DEF LinkTypeOK, userVars
  <2>2. Good(e, link[e], blocked_changed[e])'
    BY <1>2, <2>1 DEF Good, WaitOK
  <2>3. Good(p, link[p], blocked_changed[p])'
    <3>1. Good(p, link[p], blocked_changed[p])
      BY <1>1
    <3> QED
      BY <1>2, <2>1, <3>1 DEF Good, WaitOK
  <2> QED
    BY <1>1, <2>2, <2>3
<1>6. PICK t \in MaybeTest :
        /\ t # "none" => ~r.needs_tx_accepted
        /\ chan'[e] = IF Gone(link[p]) THEN <<>> ELSE Put(chan[e], x, t)
  BY <1>2
<1>7. PICK q : q = Put(chan[e], x, t)
  OBVIOUS
<1>8. /\ \A m : Has(chan[e], m) => Has(q, m)
      /\ x # "none" => Has(q, x)
      /\ chan[e] # <<>> => q # <<>> /\ Head(q) = Head(chan[e])
      /\ chan[e] = <<>> /\ x # "none" => q # <<>> /\ Head(q) = x
      /\ chan[e] = <<>> /\ x = "none" /\ t = "none" => q = <<>>
  BY <1>3, <1>7, PutFacts
<1>9. /\ Count(q, Reliable) = Count(chan[e], Reliable) + IF x \in Reliable THEN 1 ELSE 0
      /\ Count(q, Acks) = Count(chan[e], Acks) + IF x \in Acks THEN 1 ELSE 0
  <2>1. /\ "TestData" \notin Reliable /\ "none" \notin Reliable
        /\ "TestData" \notin Acks /\ "none" \notin Acks
    BY DEF Reliable, Acks
  <2> QED
    BY <1>3, <1>7, <2>1, PutCount
<1>10. Gone(link'[e]) <=> Gone(r)
  BY <1>2 DEF Keeps, Gone
<1>11. PingTracked'
  <2>0. /\ \A f \in EP : \A m : InChan(f, m) <=> Has(chan[f], m)
        /\ \A f \in EP : \A m : InChan(f, m)' <=> Has(chan'[f], m)
    BY DEF InChan, Has
  <2>1. ASSUME link'[e].state = "up", link'[e].current_ping_sent, ~Gone(link[p])
        PROVE  Has(chan'[e], "Ping") \/ link[p].send_pong \/ Has(chan'[p], "Pong")
    <3>1. ~Gone(r) /\ r.current_ping_sent /\ chan'[e] = q /\ chan'[p] = incoming
      BY <1>2, <1>6, <1>7, <2>1 DEF Keeps, Gone, Disconnected, Timeouts, Failures
    <3>2. CASE x = "Ping"
      BY <1>8, <3>1, <3>2
    <3>3. CASE Up(e) /\ link[e].current_ping_sent /\ (Has(chan[p], "Pong") => Has(incoming, "Pong"))
      <4>1. Has(chan[e], "Ping") \/ link[p].send_pong \/ Has(chan[p], "Pong")
        BY <1>0, <1>1, <2>0, <2>1, <3>3 DEF PingTracked
      <4> QED
        BY <1>8, <3>1, <3>3, <4>1
    <3> QED
      BY <1>0, <3>1, <3>2, <3>3 DEF Consistent
  <2>2. ASSUME link[p].state = "up", link[p].current_ping_sent, ~Gone(link'[e])
        PROVE  Has(chan'[p], "Ping") \/ link'[e].send_pong \/ Has(chan'[e], "Pong")
    <3>1. ~Gone(r) /\ ~Gone(link[e]) /\ ~Gone(link[p]) /\ chan'[e] = q /\ chan'[p] = incoming
      BY <1>2, <1>6, <1>7, <1>10, <2>2 DEF Consistent, Gone, Disconnected, Timeouts, Failures
    <3>2. Has(chan[p], "Ping") \/ link[e].send_pong \/ Has(chan[e], "Pong")
      BY <1>1, <2>0, <2>2, <3>1 DEF PingTracked, Up
    <3>3. link'[e].send_pong = r.send_pong
      BY <1>2 DEF Keeps
    <3> QED
      BY <1>0, <1>8, <3>1, <3>2, <3>3 DEF Consistent
  <2> QED
    BY <1>0, <1>1, <1>2, <2>0, <2>1, <2>2 DEF PingTracked, Up
<1>12. AckInv'
  <2>0. /\ Len(link[e].txed) \in Nat /\ Len(link[p].txed) \in Nat /\ Len(r.txed) \in Nat
        /\ link[e].tx_ack_queue \in Nat /\ link[p].tx_ack_queue \in Nat /\ r.tx_ack_queue \in Nat
    <3>1. r \in LinkInt
      BY DEF Good
    <3> QED
      BY <1>3, <3>1, LinkNats
  <2>1. /\ Count(chan[e], Reliable) \in Nat /\ Count(chan[p], Reliable) \in Nat
        /\ Count(incoming, Reliable) \in Nat /\ Count(<<>>, Reliable) = 0
        /\ Count(chan[e], Acks) \in Nat /\ Count(chan[p], Acks) \in Nat
        /\ Count(incoming, Acks) \in Nat /\ Count(<<>>, Acks) = 0
    <3>1. <<>> \in Seq(Msgs)
      OBVIOUS
    <3> QED
      BY <1>3, <3>1, CountType
  <2>2. link'[e].tx_ack_queue = r.tx_ack_queue /\ link'[e].txed = r.txed
    BY <1>2 DEF Keeps
  <2>3. ASSUME ~Gone(link'[e])
        PROVE  Count(chan'[e], Reliable) + link[p].tx_ack_queue + Count(chan'[p], Acks)
                 <= Len(link'[e].txed)
    <3>1. ~Gone(r) /\ ~Gone(link[e]) /\ chan'[p] = incoming /\ (chan'[e] = <<>> \/ chan'[e] = q)
      BY <1>2, <1>6, <1>7, <1>10, <2>3 DEF Consistent
    <3>2. Count(chan[e], Reliable) + link[p].tx_ack_queue + Count(chan[p], Acks) <= Len(link[e].txed)
      BY <1>0, <3>1 DEF AckInv
    <3>3. Len(link[e].txed) + (IF x \in Reliable THEN 1 ELSE 0) + Count(incoming, Acks)
            <= Len(r.txed) + Count(chan[p], Acks)
      BY <1>0, <3>1 DEF Consistent
    <3>4. Count(chan'[e], Reliable) <= Count(chan[e], Reliable) + (IF x \in Reliable THEN 1 ELSE 0)
          /\ Count(chan'[e], Reliable) \in Nat
      BY <1>9, <2>1, <3>1
    <3>5. PICK k \in {0, 1} : k = IF x \in Reliable THEN 1 ELSE 0
      OBVIOUS
    <3>6. /\ Len(link[e].txed) + k + Count(incoming, Acks) <= Len(r.txed) + Count(chan[p], Acks)
          /\ Count(chan'[e], Reliable) <= Count(chan[e], Reliable) + k
      BY <3>3, <3>4, <3>5
    <3>7. Count(chan'[e], Reliable) + link[p].tx_ack_queue + Count(incoming, Acks) <= Len(r.txed)
      <4>1. PICK a \in Nat : a = Count(chan[e], Reliable)
        BY <2>1
      <4>2. PICK b \in Nat : b = Count(chan'[e], Reliable)
        BY <3>4
      <4>3. PICK c \in Nat : c = Count(chan[p], Acks)
        BY <2>1
      <4>4. PICK d \in Nat : d = Count(incoming, Acks)
        BY <2>1
      <4>5. PICK n \in Nat : n = Len(link[e].txed)
        BY <2>0
      <4>6. PICK l \in Nat : l = Len(r.txed)
        BY <2>0
      <4>7. PICK w \in Nat : w = link[p].tx_ack_queue
        BY <2>0
      <4>8. a + w + c <= n /\ n + k + d <= l + c /\ b <= a + k
        BY <3>2, <3>6, <4>1, <4>2, <4>3, <4>4, <4>5, <4>6, <4>7
      <4>9. b + w + d <= l
        BY <4>8
      <4> QED
        BY <4>2, <4>4, <4>6, <4>7, <4>9
    <3> QED
      BY <2>2, <3>1, <3>7
  <2>4. ASSUME ~Gone(link[p])
        PROVE  Count(chan'[p], Reliable) + link'[e].tx_ack_queue + Count(chan'[e], Acks)
                 <= Len(link[p].txed)
    <3>1. chan'[e] = q
      BY <1>6, <1>7, <2>4
    <3>2. Count(chan[p], Reliable) + link[e].tx_ack_queue + Count(chan[e], Acks) <= Len(link[p].txed)
      BY <1>1, <2>4 DEF AckInv
    <3>3. CASE Gone(r)
      <4>1. chan'[p] = <<>> /\ r.tx_ack_queue = 0 /\ x = "none"
        BY <1>2, <3>3 DEF Consistent
      <4>2. Count(q, Acks) = Count(chan[e], Acks)
        BY <1>9, <2>1, <4>1 DEF Acks
      <4>3. PICK a \in Nat : a = Count(chan[p], Reliable)
        BY <2>1
      <4>4. PICK c \in Nat : c = Count(chan[e], Acks)
        BY <2>1
      <4>5. PICK n \in Nat : n = Len(link[p].txed)
        BY <2>0
      <4>6. PICK w \in Nat : w = link[e].tx_ack_queue
        BY <2>0
      <4>7. a + w + c <= n
        BY <3>2, <4>3, <4>4, <4>5, <4>6
      <4>8. 0 + 0 + c <= n
        BY <4>7
      <4>9. Count(chan'[p], Reliable) = 0 /\ link'[e].tx_ack_queue = 0 /\ Count(chan'[e], Acks) = c
        BY <2>1, <2>2, <3>1, <4>1, <4>2, <4>4
      <4> QED
        BY <4>5, <4>8, <4>9
    <3>4. CASE ~Gone(r)
      <4>1. /\ chan'[p] = incoming
            /\ Count(incoming, Reliable) + r.tx_ack_queue + (IF x \in Acks THEN 1 ELSE 0)
                 <= Count(chan[p], Reliable) + link[e].tx_ack_queue
        BY <1>0, <1>2, <3>4 DEF Consistent
      <4>2. PICK k \in {0, 1} : k = IF x \in Acks THEN 1 ELSE 0
        OBVIOUS
      <4>3. /\ Count(incoming, Reliable) + r.tx_ack_queue + k <= Count(chan[p], Reliable) + link[e].tx_ack_queue
            /\ Count(q, Acks) = Count(chan[e], Acks) + k
        BY <1>9, <4>1, <4>2
      <4>4. Count(incoming, Reliable) + r.tx_ack_queue + Count(q, Acks) <= Len(link[p].txed)
        <5>1. PICK a \in Nat : a = Count(chan[p], Reliable)
          BY <2>1
        <5>2. PICK c \in Nat : c = Count(chan[e], Acks)
          BY <2>1
        <5>3. PICK n \in Nat : n = Len(link[p].txed)
          BY <2>0
        <5>4. PICK w \in Nat : w = link[e].tx_ack_queue
          BY <2>0
        <5>5. PICK b \in Nat : b = Count(incoming, Reliable)
          BY <2>1
        <5>6. PICK v \in Nat : v = r.tx_ack_queue
          BY <2>0
        <5>7. a + w + c <= n /\ b + v + k <= a + w /\ Count(q, Acks) = c + k
          BY <3>2, <4>3, <5>1, <5>2, <5>3, <5>4, <5>5, <5>6
        <5>8. b + v + (c + k) <= n
          BY <5>7
        <5> QED
          BY <5>3, <5>5, <5>6, <5>7, <5>8
      <4> QED
        BY <2>2, <3>1, <4>1, <4>4
    <3> QED
      BY <3>3, <3>4
  <2> QED
    BY <1>0, <1>1, <1>2, <2>3, <2>4 DEF AckInv
<1>13. AcceptInv'
  <2>1. link'[e].state # "joining"
    BY <1>2 DEF Consistent, Keeps
  <2>2. ASSUME e = Server, link[p].state = "joining"
        PROVE  \/ chan'[e] = <<>> /\ link'[e].needs_tx_accepted
               \/ chan'[e] # <<>> /\ Head(chan'[e]) = "Accepted"
    <3>1. chan'[e] = q
      BY <1>6, <1>7, <2>2 DEF Gone, Disconnected, Timeouts, Failures
    <3>2. \/ chan[e] = <<>> /\ link[e].needs_tx_accepted
          \/ chan[e] # <<>> /\ Head(chan[e]) = "Accepted"
      BY <1>1, <2>2 DEF AcceptInv
    <3>3. link'[e].needs_tx_accepted = r.needs_tx_accepted
      BY <1>2 DEF Keeps
    <3>4. CASE chan[e] = <<>> /\ link[e].needs_tx_accepted
      BY <1>6, <1>8, <2>2, <3>1, <3>3, <3>4 DEF Consistent
    <3> QED
      BY <1>8, <3>1, <3>2, <3>4
  <2> QED
    BY <1>1, <1>2, <2>1, <2>2, LinkAssumption DEF AcceptInv
<1> QED
  BY <1>4, <1>5, <1>11, <1>12, <1>13
-----------------------------------------------------------------------------
(***************************************************************************)
(* Kinds of events.                                                        *)
(***************************************************************************)

\* Most events leave the notification alone.
LEMMA NotNotified ==
  ASSUME LinkTypeOK, NEW e \in EP, UNCHANGED blocked_changed
  PROVE  Notified(e, blocked_changed[e]) /\ blocked_changed[e] \in BOOLEAN
BY DEF LinkTypeOK, Notified

\* A removed link is neither joining nor up.
LEMMA GoneStates ==
  ASSUME NEW r
  PROVE  Gone(r) => r.state # "up" /\ r.state # "joining"
BY DEF Gone, Disconnected, Timeouts, Failures

\* An event that neither receives nor sends.
LEMMA SilentStep ==
  ASSUME LinkInv, NEW e \in EP, NEW changed \in BOOLEAN, NEW r, Good(e, r, changed),
         Up(e), Keeps(link[e], r), Handled(e, r, <<>>),
         UNCHANGED userVars, Notified(e, changed), TaskTypes'
  PROVE  LinkInv'
<1>1. PICK incoming : incoming = chan[Peer[e]]
  OBVIOUS
<1>2. incoming \in Seq(Msgs) /\ "none" \in MaybeMsg /\ One("none") = <<>>
  BY <1>1, LinkAssumption DEF LinkInv, LinkTypeOK, MaybeMsg, One
<1>3. Iterate(e, r, incoming, One("none"))
  BY <1>1, <1>2 DEF Handled
<1>4. "none" \notin Reliable /\ "none" \notin Acks
  BY DEF Reliable, Acks
<1>5. /\ Len(link[e].txed) \in Nat /\ link[e].tx_ack_queue \in Nat
      /\ Count(incoming, Reliable) \in Nat /\ Count(incoming, Acks) \in Nat
  <2>1. link[e] \in LinkInt
    BY DEF LinkInv, LinkTypeOK
  <2> QED
    BY <1>2, <2>1, LinkNats, CountType
<1>6. Consistent(e, r, incoming, "none")
  <2>1. ~Gone(link[e]) /\ ~Gone(r) /\ r.state # "joining"
    BY GoneStates DEF Up, Keeps
  <2>2. /\ Len(link[e].txed) + (IF "none" \in Reliable THEN 1 ELSE 0) + Count(incoming, Acks)
             <= Len(r.txed) + Count(chan[Peer[e]], Acks)
        /\ Count(incoming, Reliable) + r.tx_ack_queue + (IF "none" \in Acks THEN 1 ELSE 0)
             <= Count(chan[Peer[e]], Reliable) + link[e].tx_ack_queue
    BY <1>1, <1>4, <1>5 DEF Keeps
  <2> QED
    BY <1>1, <2>1, <2>2 DEF Consistent, Keeps
<1> QED
  BY <1>2, <1>3, <1>6, EventStep

\* The link is removed.
LEMMA RemoveStep ==
  ASSUME LinkInv, NEW e \in EP, NEW reason \in Disconnected \cup Failures, Up(e),
         NEW incoming \in Seq(Msgs), Iterate(e, Remove(e, reason), incoming, <<>>),
         UNCHANGED userVars, UNCHANGED blocked_changed, TaskTypes'
  PROVE  LinkInv'
<1>1. PICK r : r = Remove(e, reason)
  OBVIOUS
<1>2. Notified(e, blocked_changed[e]) /\ blocked_changed[e] \in BOOLEAN
  BY NotNotified DEF LinkInv
<1>3. /\ Good(e, r, blocked_changed[e]) /\ r.state = reason /\ r.tx_ack_queue = 0
      /\ e = Server => r.needs_tx_accepted
  BY <1>1, <1>2, RemoveFacts
<1>4. "none" \in MaybeMsg /\ One("none") = <<>>
  BY DEF MaybeMsg, One
<1>5. Iterate(e, r, incoming, One("none"))
  BY <1>1, <1>4
<1>6. Gone(r)
  BY <1>3 DEF Gone
<1>7. Consistent(e, r, incoming, "none")
  BY <1>3, <1>6, GoneStates DEF Consistent, Up
<1> QED
  BY <1>2, <1>3, <1>4, <1>5, <1>7, EventStep

\* The flags start_send_msg changes.
LEMMA FlagTypes ==
  ASSUME NEW r \in LinkInt, NEW b \in BOOLEAN
  PROVE  /\ [r EXCEPT !.needs_tx_accepted = b] \in LinkInt
         /\ [r EXCEPT !.send_pong = b] \in LinkInt
         /\ [r EXCEPT !.goodbye_sent = b] \in LinkInt
         /\ [r EXCEPT !.send_ping = b] \in LinkInt
         /\ [r EXCEPT !.current_ping_sent = b] \in LinkInt
         /\ [r EXCEPT !.blocked_sent = b] \in LinkInt
<1>1. CASE b = TRUE
  BY <1>1 DEF LinkInt
<1>2. CASE b = FALSE
  BY <1>2 DEF LinkInt
<1> QED
  BY <1>1, <1>2

\* start_send_msg keeps what it does not send; an Ack needs something to
\* acknowledge.
LEMMA SendFacts ==
  ASSUME NEW r \in LinkInt, NEW m \in Msgs, m = "Ack" => r.tx_ack_queue > 0
  PROVE  /\ Send(r, m) \in LinkInt /\ Send(r, m).state = r.state
         /\ ~Send(r, m).idle /\ Send(r, m).tx_polling
         /\ TestOK(r) => TestOK(Send(r, m))
         /\ Send(r, m).current_ping_sent => r.current_ping_sent \/ m = "Ping"
         /\ r.send_pong => Send(r, m).send_pong \/ m = "Pong"
         /\ Len(Send(r, m).txed) = Len(r.txed) + (IF m \in Reliable THEN 1 ELSE 0)
         /\ Send(r, m).tx_ack_queue = r.tx_ack_queue - (IF m \in Acks THEN 1 ELSE 0)
<1>1. PICK u : u = Ready(r)
  OBVIOUS
<1>2. /\ u \in LinkInt /\ Keeps(r, u) /\ ~u.idle /\ u.tx_polling
      /\ u.unconfirmed = r.unconfirmed /\ u.test = r.test
  BY <1>1, ReadyFacts
<1>3. PICK a \in BOOLEAN : a = (u.needs_tx_accepted /\ m # "Accepted")
  OBVIOUS
<1>4. PICK b \in BOOLEAN : b = (u.send_pong /\ m # "Pong")
  OBVIOUS
<1>5. PICK c \in BOOLEAN : c = (u.goodbye_sent \/ m = "Goodbye")
  OBVIOUS
<1>6. PICK d \in BOOLEAN : d = (u.send_ping /\ m # "Ping")
  OBVIOUS
<1>7. PICK f \in BOOLEAN : f = (u.current_ping_sent \/ m = "Ping")
  OBVIOUS
<1>8. PICK g \in BOOLEAN : g = IF m \in {"Block", "Unblock"} THEN m = "Block" ELSE u.blocked_sent
  <2>1. u.blocked_sent \in BOOLEAN
    BY <1>2 DEF LinkInt
  <2> QED
    BY <2>1
<1>9. u.tx_ack_queue \in Nat /\ u.txed \in Seq(Reliable) /\ Len(u.txed) \in Nat /\ u.sent \in Nat
  BY <1>2, LinkNats
<1>10. PICK h \in Nat : h = IF m = "Ack" THEN u.tx_ack_queue - 1 ELSE u.tx_ack_queue
  BY <1>2, <1>9 DEF Keeps
<1>11. PICK i \in Seq(Reliable) :
         /\ i = IF m \in {"Data", "Consumed"} THEN Append(u.txed, m) ELSE u.txed
         /\ Len(i) = Len(u.txed) + (IF m \in Reliable THEN 1 ELSE 0)
  <2>1. CASE m \in Reliable
    <3>1. Append(u.txed, m) \in Seq(Reliable) /\ Len(Append(u.txed, m)) = Len(u.txed) + 1
      BY <1>9, <2>1
    <3>2. m \in {"Data", "Consumed"}
      BY <2>1 DEF Reliable
    <3> QED
      BY <2>1, <3>1, <3>2
  <2>2. CASE m \notin Reliable
    <3>1. m \notin {"Data", "Consumed"} /\ Len(u.txed) = Len(u.txed) + 0
      BY <1>9, <2>2 DEF Reliable
    <3> QED
      BY <1>9, <2>2, <3>1
  <2> QED
    BY <2>1, <2>2
<1>12. PICK j \in Nat : j = IF m \in {"Data", "Consumed"} THEN u.sent + 1 ELSE u.sent
  BY <1>9
<1>13. PICK v : v = [u EXCEPT !.needs_tx_accepted = a, !.send_pong = b, !.goodbye_sent = c]
  OBVIOUS
<1>14. PICK w : w = [v EXCEPT !.send_ping = d, !.current_ping_sent = f, !.blocked_sent = g]
  OBVIOUS
<1>15. PICK x : x = [w EXCEPT !.tx_ack_queue = h, !.txed = i, !.sent = j]
  OBVIOUS
<1>16. Send(r, m) = x
  BY <1>1, <1>3, <1>4, <1>5, <1>6, <1>7, <1>8, <1>10, <1>11, <1>12, <1>13, <1>14, <1>15 DEF Send
<1>17. /\ v \in LinkInt /\ v.state = u.state /\ v.idle = u.idle /\ v.tx_polling = u.tx_polling
       /\ v.unconfirmed = u.unconfirmed /\ v.test = u.test /\ v.send_pong = b
  <2>1. v \in LinkInt
    <3>1. PICK v1 : v1 = [u EXCEPT !.needs_tx_accepted = a]
      OBVIOUS
    <3>2. PICK v2 : v2 = [v1 EXCEPT !.send_pong = b]
      OBVIOUS
    <3>3. v = [v2 EXCEPT !.goodbye_sent = c]
      BY <1>13, <3>1, <3>2
    <3> QED
      BY <1>2, <3>1, <3>2, <3>3, FlagTypes
  <2>2. /\ v.state = u.state /\ v.idle = u.idle /\ v.tx_polling = u.tx_polling
        /\ v.unconfirmed = u.unconfirmed /\ v.test = u.test
    BY <1>2, <1>13 DEF LinkInt
  <2>3. v.send_pong = b
    <3>1. CASE b = TRUE
      BY <1>2, <1>13, <3>1 DEF LinkInt
    <3>2. CASE b = FALSE
      BY <1>2, <1>13, <3>2 DEF LinkInt
    <3> QED
      BY <3>1, <3>2
  <2> QED
    BY <2>1, <2>2, <2>3
<1>18. /\ w \in LinkInt /\ w.state = v.state /\ w.idle = v.idle /\ w.tx_polling = v.tx_polling
       /\ w.unconfirmed = v.unconfirmed /\ w.test = v.test /\ w.send_pong = v.send_pong
       /\ w.current_ping_sent = f
  <2>0. v \in LinkInt
    BY <1>17
  <2>1. w \in LinkInt
    <3>1. PICK w1 : w1 = [v EXCEPT !.send_ping = d]
      OBVIOUS
    <3>2. PICK w2 : w2 = [w1 EXCEPT !.current_ping_sent = f]
      OBVIOUS
    <3>3. w = [w2 EXCEPT !.blocked_sent = g]
      BY <1>14, <3>1, <3>2
    <3> QED
      BY <2>0, <3>1, <3>2, <3>3, FlagTypes
  <2>2. /\ w.state = v.state /\ w.idle = v.idle /\ w.tx_polling = v.tx_polling
        /\ w.unconfirmed = v.unconfirmed /\ w.test = v.test
    BY <1>14, <2>0 DEF LinkInt
  <2>3. w.send_pong = v.send_pong
    BY <1>14, <2>0 DEF LinkInt
  <2>4. w.current_ping_sent = f
    <3>1. CASE f = TRUE
      BY <1>14, <2>0, <3>1 DEF LinkInt
    <3>2. CASE f = FALSE
      BY <1>14, <2>0, <3>2 DEF LinkInt
    <3> QED
      BY <3>1, <3>2
  <2> QED
    BY <2>1, <2>2, <2>3, <2>4
<1>19. /\ x \in LinkInt /\ x.state = w.state /\ x.idle = w.idle /\ x.tx_polling = w.tx_polling
       /\ x.unconfirmed = w.unconfirmed /\ x.test = w.test /\ x.send_pong = w.send_pong
       /\ x.current_ping_sent = w.current_ping_sent /\ x.tx_ack_queue = h /\ x.txed = i
  BY <1>15, <1>18 DEF LinkInt, Reliable
<1>20. Len(x.txed) = Len(r.txed) + (IF m \in Reliable THEN 1 ELSE 0)
  <2>1. Len(i) = Len(u.txed) + (IF m \in Reliable THEN 1 ELSE 0)
    BY <1>11
  <2> QED
    BY <1>2, <1>19, <2>1 DEF Keeps
<1>21. x.tx_ack_queue = r.tx_ack_queue - (IF m \in Acks THEN 1 ELSE 0)
  <2>1. h = u.tx_ack_queue - (IF m \in Acks THEN 1 ELSE 0)
    BY <1>9, <1>10 DEF Acks
  <2> QED
    BY <1>2, <1>19, <2>1 DEF Keeps
<1>22. TestOK(r) => TestOK(x)
  BY <1>2, <1>17, <1>18, <1>19 DEF TestOK
<1>23. (x.current_ping_sent => r.current_ping_sent \/ m = "Ping")
       /\ (r.send_pong => x.send_pong \/ m = "Pong")
  BY <1>2, <1>4, <1>7, <1>17, <1>18, <1>19 DEF Keeps
<1> QED
  BY <1>2, <1>16, <1>17, <1>18, <1>19, <1>20, <1>21, <1>22, <1>23 DEF Keeps

\* A message other than test data is sent; nothing is sent before Accepted.
LEMMA SendStep ==
  ASSUME LinkInv, NEW e \in EP, NEW r \in LinkInt, Keeps(link[e], r), TestOK(r), Up(e),
         NEW m \in Msgs, m = "Ack" => r.tx_ack_queue > 0,
         link[e].needs_tx_accepted => m = "Accepted",
         Handled(e, Send(r, m), <<m>>),
         UNCHANGED userVars, UNCHANGED blocked_changed, TaskTypes'
  PROVE  LinkInv'
<1>1. PICK incoming : incoming = chan[Peer[e]]
  OBVIOUS
<1>2. PICK s : s = Send(r, m)
  OBVIOUS
<1>3. incoming \in Seq(Msgs) /\ m \in MaybeMsg /\ One(m) = <<m>> /\ m # "none"
  BY <1>1, LinkAssumption DEF LinkInv, LinkTypeOK, MaybeMsg, One, Msgs
<1>4. Iterate(e, s, incoming, One(m))
  BY <1>1, <1>2, <1>3 DEF Handled
<1>5. Notified(e, blocked_changed[e]) /\ blocked_changed[e] \in BOOLEAN
  BY NotNotified DEF LinkInv
<1>6. /\ s \in LinkInt /\ s.state = r.state /\ ~s.idle /\ s.tx_polling /\ TestOK(s)
      /\ s.current_ping_sent => r.current_ping_sent \/ m = "Ping"
      /\ r.send_pong => s.send_pong \/ m = "Pong"
      /\ Len(s.txed) = Len(r.txed) + (IF m \in Reliable THEN 1 ELSE 0)
      /\ s.tx_ack_queue = r.tx_ack_queue - (IF m \in Acks THEN 1 ELSE 0)
  BY <1>2, SendFacts
<1>7. r.state = "up"
  BY DEF Keeps, Up
<1>8. Good(e, s, blocked_changed[e])
  BY <1>6, <1>7, Polled
<1>9. /\ Len(r.txed) \in Nat /\ r.tx_ack_queue \in Nat
      /\ Count(incoming, Reliable) \in Nat /\ Count(incoming, Acks) \in Nat
  BY <1>3, LinkNats, CountType
<1>10. Consistent(e, s, incoming, m)
  <2>1. ~Gone(link[e]) /\ ~Gone(s) /\ s.state # "joining"
    BY <1>6, <1>7, GoneStates DEF Up
  <2>2. Len(link[e].txed) + (IF m \in Reliable THEN 1 ELSE 0) + Count(incoming, Acks)
          <= Len(s.txed) + Count(chan[Peer[e]], Acks)
    <3>1. PICK k \in {0, 1} : k = IF m \in Reliable THEN 1 ELSE 0
      OBVIOUS
    <3>2. Len(s.txed) = Len(r.txed) + k /\ Len(link[e].txed) = Len(r.txed)
      BY <1>6, <3>1 DEF Keeps
    <3>3. PICK n \in Nat : n = Len(r.txed)
      BY <1>9
    <3>4. PICK c \in Nat : c = Count(incoming, Acks)
      BY <1>9
    <3>5. n + k + c <= (n + k) + c
      OBVIOUS
    <3> QED
      BY <1>1, <3>1, <3>2, <3>3, <3>4, <3>5
  <2>3. Count(incoming, Reliable) + s.tx_ack_queue + (IF m \in Acks THEN 1 ELSE 0)
          <= Count(chan[Peer[e]], Reliable) + link[e].tx_ack_queue
    <3>1. PICK k \in {0, 1} : k = IF m \in Acks THEN 1 ELSE 0
      OBVIOUS
    <3>2. s.tx_ack_queue = r.tx_ack_queue - k /\ link[e].tx_ack_queue = r.tx_ack_queue
      BY <1>6, <3>1 DEF Keeps
    <3> QED
      BY <1>1, <1>9, <3>1, <3>2
  <2> QED
    BY <1>1, <1>6, <2>1, <2>2, <2>3 DEF Consistent, Keeps
<1> QED
  BY <1>3, <1>4, <1>5, <1>8, <1>10, EventStep

\* The message m is received; test data may be sent at once.
LEMMA ReceiveStep ==
  ASSUME LinkInv, NEW e \in EP, NEW p \in EP, p = Peer[e], ~Gone(link[e]), chan[p] # <<>>,
         NEW m, m = Head(chan[p]), NEW r, Good(e, r, blocked_changed[e]), r.state = "up",
         NEW x \in {"none", "TestData"}, x # "none" => ~link[e].needs_tx_accepted,
         r.needs_tx_accepted = link[e].needs_tx_accepted,
         r.current_ping_sent => Up(e) /\ link[e].current_ping_sent /\ m # "Pong",
         link[e].send_pong \/ m = "Ping" => r.send_pong,
         Len(link[e].txed) <= Len(r.txed) + (IF m \in Acks THEN 1 ELSE 0),
         r.tx_ack_queue <= link[e].tx_ack_queue + (IF m \in Reliable THEN 1 ELSE 0),
         Iterate(e, r, Tail(chan[p]), One(x)),
         UNCHANGED userVars, UNCHANGED blocked_changed, TaskTypes'
  PROVE  LinkInv'
<1>1. PICK incoming : incoming = Tail(chan[p])
  OBVIOUS
<1>2. chan[p] \in Seq(Msgs) /\ link[e] \in LinkInt /\ r \in LinkInt
  BY DEF LinkInv, LinkTypeOK, Good
<1>3. /\ incoming \in Seq(Msgs)
      /\ Count(chan[p], Acks) = Count(incoming, Acks) + IF m \in Acks THEN 1 ELSE 0
      /\ Count(chan[p], Reliable) = Count(incoming, Reliable) + IF m \in Reliable THEN 1 ELSE 0
  BY <1>1, <1>2, CountTail
<1>4. /\ Has(chan[p], "Ping") => m = "Ping" \/ Has(incoming, "Ping")
      /\ Has(chan[p], "Pong") => m = "Pong" \/ Has(incoming, "Pong")
  BY <1>1, <1>2, HasTail
<1>5. Notified(e, blocked_changed[e]) /\ blocked_changed[e] \in BOOLEAN
  BY NotNotified DEF LinkInv
<1>6. x \in MaybeMsg /\ x \notin Reliable /\ x \notin Acks
  BY DEF MaybeMsg, Msgs, Reliable, Acks
<1>7. PICK a \in Nat : a = Count(incoming, Acks)
  BY <1>3, CountType
<1>8. PICK b \in Nat : b = Count(incoming, Reliable)
  BY <1>3, CountType
<1>9. PICK n \in Nat : n = Len(link[e].txed)
  BY <1>2, LinkNats
<1>10. PICK l \in Nat : l = Len(r.txed)
  BY <1>2, LinkNats
<1>11. PICK v \in Nat : v = link[e].tx_ack_queue
  BY <1>2, LinkNats
<1>12. PICK w \in Nat : w = r.tx_ack_queue
  BY <1>2, LinkNats
<1>13. Len(link[e].txed) + (IF x \in Reliable THEN 1 ELSE 0) + Count(incoming, Acks)
         <= Len(r.txed) + Count(chan[p], Acks)
  <2>1. PICK k \in {0, 1} : k = IF m \in Acks THEN 1 ELSE 0
    OBVIOUS
  <2>2. n <= l + k /\ Count(chan[p], Acks) = a + k
    BY <1>3, <1>7, <1>9, <1>10, <2>1
  <2>3. n + 0 + a <= l + (a + k)
    BY <2>2
  <2> QED
    BY <1>6, <1>7, <1>9, <1>10, <2>2, <2>3
<1>14. Count(incoming, Reliable) + r.tx_ack_queue + (IF x \in Acks THEN 1 ELSE 0)
         <= Count(chan[p], Reliable) + link[e].tx_ack_queue
  <2>1. PICK k \in {0, 1} : k = IF m \in Reliable THEN 1 ELSE 0
    OBVIOUS
  <2>2. w <= v + k /\ Count(chan[p], Reliable) = b + k
    BY <1>3, <1>8, <1>11, <1>12, <2>1
  <2>3. b + w + 0 <= (b + k) + v
    BY <2>2
  <2> QED
    BY <1>6, <1>8, <1>11, <1>12, <2>2, <2>3
<1>15. ~Gone(r)
  BY GoneStates
<1>16. Consistent(e, r, incoming, x)
  BY <1>4, <1>13, <1>14, <1>15 DEF Consistent
<1> QED
  BY <1>1, <1>3, <1>5, <1>6, <1>16, EventStep
-----------------------------------------------------------------------------
(***************************************************************************)
(* The events.                                                             *)
(***************************************************************************)

\* The queues of the tasks keep their type when they do not change.
LEMMA SameTasks ==
  ASSUME LinkInv, UNCHANGED taskVars
  PROVE  TaskTypes'
BY DEF LinkInv, LinkTypeOK, taskVars, TaskTypes

\* What is known of a link that is up.
LEMMA UpFacts ==
  ASSUME LinkInv, NEW e \in EP, Up(e)
  PROVE  /\ link[e] \in LinkInt /\ link[e].state = "up" /\ TestOK(link[e])
         /\ Good(e, link[e], blocked_changed[e]) /\ blocked_changed[e] \in BOOLEAN
BY DEF LinkInv, LinkTypeOK, Good, Up

\* OtherEvent and ConsumeReceived leave the link as it is.
LEMMA OtherStep ==
  ASSUME LinkInv, NEW e \in EP, OtherEvent(e) \/ ConsumeReceived(e)
  PROVE  LinkInv'
<1>1. /\ Up(e) /\ Handled(e, link[e], <<>>) /\ UNCHANGED userVars /\ UNCHANGED blocked_changed
  BY DEF OtherEvent, ConsumeReceived
<1>2. TaskTypes'
  <2>1. CASE OtherEvent(e)
    BY <2>1, SameTasks DEF OtherEvent
  <2>2. CASE ConsumeReceived(e)
    BY <2>2 DEF ConsumeReceived, TaskTypes, LinkInv, LinkTypeOK
  <2> QED
    BY <2>1, <2>2
<1>3. Notified(e, blocked_changed[e])
  BY <1>1, NotNotified DEF LinkInv
<1>4. Keeps(link[e], link[e])
  BY DEF Keeps
<1> QED
  BY <1>1, <1>2, <1>3, <1>4, UpFacts, SilentStep

\* A silent event that leaves the link polled and not idle.
LEMMA PolledStep ==
  ASSUME LinkInv, NEW e \in EP, NEW changed \in BOOLEAN, Up(e), NEW r \in LinkInt,
         Keeps(link[e], r), ~r.idle, r.tx_polling, TestOK(r), Handled(e, r, <<>>),
         UNCHANGED userVars, UNCHANGED taskVars, Notified(e, changed)
  PROVE  LinkInv'
<1>1. r.state = "up"
  BY DEF Keeps, Up
<1> QED
  BY <1>1, Polled, SameTasks, SilentStep

\* FlushLink
LEMMA FlushStep ==
  ASSUME LinkInv, NEW e \in EP, FlushLink(e)
  PROVE  LinkInv'
<1>1. /\ Up(e) /\ Handled(e, Flush(link[e]), <<>>)
      /\ UNCHANGED userVars /\ UNCHANGED taskVars /\ UNCHANGED blocked_changed
  BY DEF FlushLink
<1>2. PICK r : r = Flush(link[e])
  OBVIOUS
<1>3. r \in LinkInt /\ Keeps(link[e], r) /\ ~r.idle /\ r.tx_polling /\ TestOK(r)
  BY <1>1, <1>2, UpFacts, ReadyFacts DEF TestOK
<1>4. Notified(e, blocked_changed[e]) /\ blocked_changed[e] \in BOOLEAN
  BY <1>1, NotNotified DEF LinkInv
<1> QED
  BY <1>1, <1>2, <1>3, <1>4, PolledStep

\* BlockedChanged
LEMMA BlockedStep ==
  ASSUME LinkInv, NEW e \in EP, BlockedChanged(e)
  PROVE  LinkInv'
<1>1. /\ Up(e) /\ Handled(e, Ready(link[e]), <<>>)
      /\ UNCHANGED userVars /\ UNCHANGED taskVars /\ Notified(e, FALSE)
  BY DEF BlockedChanged, Notified
<1>2. PICK r : r = Ready(link[e])
  OBVIOUS
<1>3. r \in LinkInt /\ Keeps(link[e], r) /\ ~r.idle /\ r.tx_polling /\ TestOK(r)
  BY <1>1, <1>2, UpFacts, ReadyFacts DEF TestOK
<1> QED
  BY <1>1, <1>2, <1>3, PolledStep

\* ConfirmTimedOut
LEMMA ConfirmTimedOutStep ==
  ASSUME LinkInv, NEW e \in EP, ConfirmTimedOut(e)
  PROVE  LinkInv'
<1>1. /\ Up(e) /\ Handled(e, Unconfirm(link[e], "AckTimeout"), <<>>)
      /\ UNCHANGED userVars /\ UNCHANGED taskVars /\ UNCHANGED blocked_changed
  BY DEF ConfirmTimedOut
<1>2. PICK r : r = Unconfirm(link[e], "AckTimeout")
  OBVIOUS
<1>3. "AckTimeout" \in Reasons \ {"none"}
  BY DEF Reasons
<1>4. r \in LinkInt /\ Keeps(link[e], r) /\ ~r.idle /\ r.tx_polling /\ TestOK(r)
  BY <1>1, <1>2, <1>3, UpFacts, UnconfirmFacts
<1>5. Notified(e, blocked_changed[e]) /\ blocked_changed[e] \in BOOLEAN
  BY <1>1, NotNotified DEF LinkInv
<1> QED
  BY <1>1, <1>2, <1>4, <1>5, PolledStep

\* Starting to disconnect, by the user or the peer.
LEMMA DisconnectingFacts ==
  ASSUME NEW r \in LinkInt, NEW by \in {"Local", "Remote"}, NEW u,
         u = Unconfirm([r EXCEPT !.disconnecting = by], "Disconnecting")
  PROVE  u \in LinkInt /\ Keeps(r, u) /\ ~u.idle /\ u.tx_polling /\ TestOK(u)
<1>1. PICK s : s = [r EXCEPT !.disconnecting = by]
  OBVIOUS
<1>2. s \in LinkInt /\ Keeps(r, s)
  BY <1>1 DEF LinkInt, Keeps
<1>3. "Disconnecting" \in Reasons \ {"none"}
  BY DEF Reasons
<1>4. u = Unconfirm(s, "Disconnecting")
  BY <1>1
<1> HIDE <1>1
<1>5. u \in LinkInt /\ Keeps(s, u) /\ ~u.idle /\ u.tx_polling /\ TestOK(u)
  BY <1>2, <1>3, <1>4, UnconfirmFacts
<1> QED
  BY <1>2, <1>5 DEF Keeps

\* Disconnect
LEMMA DisconnectStep ==
  ASSUME LinkInv, NEW e \in EP, Disconnect(e)
  PROVE  LinkInv'
<1>1. PICK r : r = Unconfirm([link[e] EXCEPT !.disconnecting = "Local"], "Disconnecting")
  OBVIOUS
<1>2. /\ Up(e) /\ Handled(e, r, <<>>)
      /\ UNCHANGED userVars /\ UNCHANGED taskVars /\ UNCHANGED blocked_changed
  BY <1>1 DEF Disconnect
<1>3. r \in LinkInt /\ Keeps(link[e], r) /\ ~r.idle /\ r.tx_polling /\ TestOK(r)
  BY <1>1, <1>2, UpFacts, DisconnectingFacts
<1>4. Notified(e, blocked_changed[e]) /\ blocked_changed[e] \in BOOLEAN
  BY <1>2, NotNotified DEF LinkInv
<1> QED
  BY <1>2, <1>3, <1>4, PolledStep

\* PingLink
LEMMA PingStep ==
  ASSUME LinkInv, NEW e \in EP, PingLink(e)
  PROVE  LinkInv'
<1>1. PICK s : s = [link[e] EXCEPT !.send_ping = TRUE]
  OBVIOUS
<1>2. PICK r : r = Flush(s)
  OBVIOUS
<1>3. /\ Up(e) /\ Handled(e, r, <<>>)
      /\ UNCHANGED userVars /\ UNCHANGED taskVars /\ UNCHANGED blocked_changed
  BY <1>1, <1>2 DEF PingLink
<1>4. s \in LinkInt /\ Keeps(link[e], s) /\ TestOK(s)
  <2>1. link[e] \in LinkInt /\ TestOK(link[e])
    BY <1>3, UpFacts
  <2> QED
    BY <1>1, <2>1 DEF LinkInt, Keeps, TestOK
<1>5. r \in LinkInt /\ Keeps(s, r) /\ ~r.idle /\ r.tx_polling /\ TestOK(r)
  BY <1>2, <1>4, ReadyFacts DEF TestOK
<1>6. Keeps(link[e], r)
  BY <1>4, <1>5 DEF Keeps
<1>7. Notified(e, blocked_changed[e]) /\ blocked_changed[e] \in BOOLEAN
  BY <1>3, NotNotified DEF LinkInv
<1> QED
  BY <1>3, <1>5, <1>6, <1>7, PolledStep

\* LinkTesting
LEMMA RetestStep ==
  ASSUME LinkInv, NEW e \in EP, LinkTesting(e)
  PROVE  LinkInv'
<1>1. PICK r : r = [link[e] EXCEPT !.test = "Inactive"]
  OBVIOUS
<1>2. /\ Up(e) /\ Handled(e, r, <<>>)
      /\ UNCHANGED userVars /\ UNCHANGED taskVars /\ UNCHANGED blocked_changed
  BY <1>1 DEF LinkTesting
<1>3. /\ link[e] \in LinkInt /\ Good(e, link[e], blocked_changed[e]) /\ blocked_changed[e] \in BOOLEAN
      /\ link[e].state = "up"
  BY <1>2, UpFacts
<1>4. r \in LinkInt /\ Keeps(link[e], r) /\ TestOK(r)
  BY <1>1, <1>3 DEF LinkInt, Keeps, TestOK
<1>5. /\ r.idle = link[e].idle /\ r.state = link[e].state /\ r.unconfirmed = link[e].unconfirmed
      /\ r.disconnecting = link[e].disconnecting /\ r.tx_polling = link[e].tx_polling
      /\ r.goodbye_sent = link[e].goodbye_sent /\ r.send_ping = link[e].send_ping
      /\ r.blocked_sent = link[e].blocked_sent
  BY <1>1, <1>3 DEF LinkInt
<1>6. Good(e, r, blocked_changed[e])
  BY <1>3, <1>4, <1>5 DEF Good, IdleOK, WaitOK, FreshOK, Keeps
<1>7. Notified(e, blocked_changed[e]) /\ TaskTypes'
  BY <1>2, NotNotified, SameTasks DEF LinkInv
<1> QED
  BY <1>2, <1>3, <1>4, <1>6, <1>7, SilentStep

\* LinkTimeout and LinkError
LEMMA FailStep ==
  ASSUME LinkInv, NEW e \in EP, LinkTimeout(e) \/ LinkError(e)
  PROVE  LinkInv'
<1>1. PICK reason \in Disconnected \cup Failures : Handled(e, Remove(e, reason), <<>>)
  <2>1. CASE LinkTimeout(e)
    BY <2>1 DEF LinkTimeout, Expired, Disconnected
  <2>2. CASE LinkError(e)
    BY <2>2 DEF LinkError, Disconnected
  <2> QED
    BY <2>1, <2>2
<1>2. /\ Up(e) /\ UNCHANGED userVars /\ UNCHANGED taskVars /\ UNCHANGED blocked_changed
  BY DEF LinkTimeout, LinkError
<1>3. PICK incoming \in Seq(Msgs) : Iterate(e, Remove(e, reason), incoming, <<>>)
  BY <1>1, LinkAssumption DEF Handled, LinkInv, LinkTypeOK
<1> QED
  BY <1>2, <1>3, SameTasks, RemoveStep

\* SetBlocked
LEMMA SetBlockedStep ==
  ASSUME LinkInv, NEW e \in EP, SetBlocked(e)
  PROVE  LinkInv'
<1> USE DEF LinkInv
<1>1. /\ link' = link /\ chan' = chan /\ links_idling' = links_idling /\ faults' = faults
      /\ consumed' = consumed /\ write_rx' = write_rx /\ consumable' = consumable
  BY DEF SetBlocked, taskVars
<1>2. LinkTypeOK'
  <2>1. blocked' \in [EP -> BOOLEAN] /\ blocked_changed' \in [EP -> BOOLEAN]
    BY DEF SetBlocked, LinkTypeOK
  <2>2. blocks' \in 0 .. MaxBlocks
    BY LinkAssumption DEF SetBlocked, LinkTypeOK
  <2> QED
    BY <1>1, <2>1, <2>2 DEF LinkTypeOK
<1>3. ASSUME NEW f \in EP PROVE Good(f, link[f], blocked_changed[f])'
  <2>1. Good(f, link[f], blocked_changed[f])
    OBVIOUS
  <2>2. (blocked'[f] = blocked[f] /\ blocked_changed'[f] = blocked_changed[f]) \/ blocked_changed'[f]
    BY DEF SetBlocked, LinkTypeOK
  <2> QED
    BY <1>1, <2>1, <2>2 DEF Good, WaitOK
<1>4. PingTracked' /\ AckInv' /\ AcceptInv'
  BY <1>1 DEF PingTracked, AckInv, AcceptInv, InChan, Up
<1> QED
  BY <1>2, <1>3, <1>4

\* SendConsumed and WriteRx
LEMMA IdleStep ==
  ASSUME LinkInv, NEW e \in EP, SendConsumed(e) \/ WriteRx(e)
  PROVE  LinkInv'
<1>1. Up(e) /\ UNCHANGED userVars /\ UNCHANGED blocked_changed
  BY DEF SendConsumed, WriteRx
<1>2. TaskTypes'
  <2>1. CASE SendConsumed(e)
    BY <2>1 DEF SendConsumed, TaskTypes, LinkInv, LinkTypeOK
  <2>2. CASE WriteRx(e)
    <3>1. write_rx[e] - 1 \in Nat /\ write_rx \in [EP -> Nat]
      BY <2>2 DEF WriteRx, LinkInv, LinkTypeOK
    <3>2. write_rx' \in [EP -> Nat]
      BY <2>2, <3>1 DEF WriteRx
    <3> QED
      BY <2>2, <3>2 DEF WriteRx, TaskTypes, LinkInv, LinkTypeOK
  <2> QED
    BY <2>1, <2>2
<1>3. /\ link[e] \in LinkInt /\ Good(e, link[e], blocked_changed[e])
      /\ link[e].state = "up" /\ TestOK(link[e])
  BY <1>1, UpFacts
<1>4. CASE link[e].idle
  <2>1. PICK m \in {"Consumed", "Data"} : Handled(e, Send(link[e], m), <<m>>)
    BY <1>4 DEF SendConsumed, WriteRx
  <2>2. ~link[e].needs_tx_accepted
    BY <1>3, <1>4 DEF Good, IdleOK, WaitOK
  <2>3. m \in Msgs /\ m # "Ack" /\ Keeps(link[e], link[e])
    BY DEF Msgs, Keeps
  <2> QED
    BY <1>1, <1>2, <1>3, <2>1, <2>2, <2>3, SendStep
<1>5. CASE ~link[e].idle
  <2>1. Handled(e, Remove(e, "panicked"), <<>>)
    BY <1>5 DEF SendConsumed, WriteRx
  <2>2. PICK incoming \in Seq(Msgs) : Iterate(e, Remove(e, "panicked"), incoming, <<>>)
    BY <2>1, LinkAssumption DEF Handled, LinkInv, LinkTypeOK
  <2>3. "panicked" \in Disconnected \cup Failures
    BY DEF Failures
  <2> QED
    BY <1>1, <1>2, <2>2, <2>3, RemoveStep
<1> QED
  BY <1>4, <1>5

\* The priorities of TxReady: what may be sent, and when there is nothing.
LEMMA PendingFacts ==
  ASSUME LinkTypeOK, NEW e \in EP
  PROVE  LET r == link[e] IN
         /\ Pending(e) = "Ack" => r.tx_ack_queue > 0
         /\ Pending(e) \in Msgs /\ r.needs_tx_accepted => Pending(e) = "Accepted"
         /\ Pending(e) \in {"Nothing", "Reliable"} =>
              /\ ~r.needs_tx_accepted /\ ~r.send_pong
              /\ r.disconnecting # "none" => r.disconnecting = "Local" /\ r.goodbye_sent
              /\ r.disconnecting = "none" =>
                   ~r.send_ping /\ r.tx_ack_queue = 0 /\ blocked[e] = r.blocked_sent
         /\ Pending(e) = "Reliable" => r.unconfirmed = "none" /\ r.disconnecting = "none"
<1>1. /\ link[e].tx_ack_queue \in Nat /\ link[e].disconnecting \in {"none", "Local", "Remote"}
  BY DEF LinkTypeOK, LinkInt
<1> QED
  BY <1>1 DEF Pending

\* A link that is no longer polled because it has nothing to send.
LEMMA QuietFacts ==
  ASSUME LinkInv, NEW e \in EP, Up(e), link[e].tx_polling, NEW idle \in BOOLEAN,
         Pending(e) = IF idle THEN "Reliable" ELSE "Nothing",
         NEW r, r = [link[e] EXCEPT !.tx_polling = FALSE, !.idle = idle]
  PROVE  Good(e, r, blocked_changed[e]) /\ Keeps(link[e], r)
<1>1. link[e] \in LinkInt /\ link[e].state = "up" /\ TestOK(link[e]) /\ LinkTypeOK
  BY UpFacts DEF LinkInv
<1>2. r \in LinkInt
  <2>1. CASE idle = TRUE
    BY <1>1, <2>1 DEF LinkInt
  <2>2. CASE idle = FALSE
    BY <1>1, <2>2 DEF LinkInt
  <2> QED
    BY <2>1, <2>2
<1>3. /\ r.state = link[e].state /\ r.unconfirmed = link[e].unconfirmed /\ r.test = link[e].test
      /\ r.disconnecting = link[e].disconnecting /\ r.tx_ack_queue = link[e].tx_ack_queue
      /\ r.txed = link[e].txed
  BY <1>1 DEF LinkInt
<1>4. /\ r.needs_tx_accepted = link[e].needs_tx_accepted /\ r.send_pong = link[e].send_pong
      /\ r.goodbye_sent = link[e].goodbye_sent /\ r.send_ping = link[e].send_ping
      /\ r.blocked_sent = link[e].blocked_sent /\ r.current_ping_sent = link[e].current_ping_sent
  BY <1>1 DEF LinkInt
<1>5. ~r.tx_polling /\ (r.idle => idle)
  <2>1. CASE idle = TRUE
    BY <1>1, <2>1 DEF LinkInt
  <2>2. CASE idle = FALSE
    BY <1>1, <2>2 DEF LinkInt
  <2> QED
    BY <2>1, <2>2
<1>6. Keeps(link[e], r)
  BY <1>3, <1>4 DEF Keeps
<1>7. WaitOK(e, r, blocked_changed[e])
  <2>1. /\ ~link[e].needs_tx_accepted /\ ~link[e].send_pong
        /\ link[e].disconnecting # "none" => link[e].disconnecting = "Local" /\ link[e].goodbye_sent
        /\ link[e].disconnecting = "none" =>
             ~link[e].send_ping /\ link[e].tx_ack_queue = 0 /\ blocked[e] = link[e].blocked_sent
    BY <1>1, PendingFacts
  <2> QED
    BY <1>3, <1>4, <2>1 DEF WaitOK
<1>8. IdleOK(r)
  <2>1. idle => link[e].unconfirmed = "none" /\ link[e].disconnecting = "none"
    BY <1>1, PendingFacts
  <2> QED
    BY <1>1, <1>3, <1>5, <2>1 DEF IdleOK
<1>9. TestOK(r) /\ FreshOK(e, r)
  BY <1>1, <1>3 DEF TestOK, FreshOK
<1> QED
  BY <1>2, <1>6, <1>7, <1>8, <1>9 DEF Good

\* TxReady
LEMMA TxReadyStep ==
  ASSUME LinkInv, NEW e \in EP, TxReady(e)
  PROVE  LinkInv'
<1>1. PICK r : r = [link[e] EXCEPT !.tx_polling = FALSE]
  OBVIOUS
<1>2. Up(e) /\ link[e].tx_polling /\ UNCHANGED userVars /\ UNCHANGED blocked_changed /\ consumable' = consumable
  BY DEF TxReady
<1>3. /\ link[e] \in LinkInt /\ TestOK(link[e]) /\ Good(e, link[e], blocked_changed[e])
      /\ blocked_changed[e] \in BOOLEAN /\ LinkTypeOK
  BY <1>2, UpFacts DEF LinkInv
<1>4. r \in LinkInt /\ Keeps(link[e], r) /\ TestOK(r)
  BY <1>1, <1>3 DEF LinkInt, Keeps, TestOK
<1>5. Notified(e, blocked_changed[e])
  BY <1>2, <1>3, NotNotified
<1>6. ASSUME NEW m \in Msgs, Handled(e, Send(r, m), <<m>>), m = "Ack" => link[e].tx_ack_queue > 0,
             link[e].needs_tx_accepted => m = "Accepted", TaskTypes'
      PROVE  LinkInv'
  <2>1. m = "Ack" => r.tx_ack_queue > 0
    BY <1>4, <1>6 DEF Keeps
  <2> QED
    BY <1>2, <1>4, <1>6, <2>1, SendStep
<1>7. CASE Pending(e) \in Msgs /\ Handled(e, Send(r, Pending(e)), <<Pending(e)>>) /\ UNCHANGED taskVars
  BY <1>3, <1>6, <1>7, PendingFacts, SameTasks
<1>8. CASE Handled(e, Remove(e, "RemotelyRequested"), <<>>) /\ UNCHANGED taskVars
  <2>1. PICK incoming \in Seq(Msgs) : Iterate(e, Remove(e, "RemotelyRequested"), incoming, <<>>)
    BY <1>8, LinkAssumption DEF Handled, LinkInv, LinkTypeOK
  <2>2. "RemotelyRequested" \in Disconnected \cup Failures
    BY DEF Disconnected
  <2> QED
    BY <1>2, <1>8, <2>1, <2>2, SameTasks, RemoveStep
<1>9. CASE Pending(e) = "Nothing" /\ Handled(e, r, <<>>) /\ UNCHANGED taskVars
  <2>1. ~link[e].idle
    BY <1>2, <1>3 DEF Good, IdleOK
  <2>2. r = [link[e] EXCEPT !.tx_polling = FALSE, !.idle = FALSE]
    BY <1>1, <1>3, <2>1 DEF LinkInt
  <2>3. Good(e, r, blocked_changed[e])
    BY <1>2, <1>9, <2>2, QuietFacts
  <2> QED
    BY <1>2, <1>3, <1>4, <1>5, <1>9, <2>3, SameTasks, SilentStep
<1>10. CASE Pending(e) = "Reliable" /\ Handled(e, [r EXCEPT !.idle = TRUE], <<>>) /\ UNCHANGED taskVars
  <2>1. PICK s : s = [r EXCEPT !.idle = TRUE]
    OBVIOUS
  <2>2. s = [link[e] EXCEPT !.tx_polling = FALSE, !.idle = TRUE]
    BY <1>1, <2>1
  <2>3. Good(e, s, blocked_changed[e]) /\ Keeps(link[e], s)
    BY <1>2, <1>10, <2>2, QuietFacts
  <2>4. Handled(e, s, <<>>)
    BY <1>10, <2>1
  <2> QED
    BY <1>2, <1>3, <1>5, <1>10, <2>3, <2>4, SameTasks, SilentStep
<1>11. CASE /\ Pending(e) = "Reliable" /\ consumed' = [consumed EXCEPT ![e] = FALSE]
            /\ Handled(e, Send(r, "Consumed"), <<"Consumed">>) /\ UNCHANGED write_rx
  <2>1. TaskTypes'
    BY <1>2, <1>3, <1>11 DEF TaskTypes, LinkTypeOK
  <2>2. "Consumed" \in Msgs /\ ~link[e].needs_tx_accepted
    BY <1>3, <1>11, PendingFacts DEF Msgs
  <2> QED
    BY <1>6, <1>11, <2>1, <2>2
<1>12. CASE /\ Pending(e) = "Reliable" /\ write_rx[e] > 0 /\ write_rx' = [write_rx EXCEPT ![e] = @ - 1]
            /\ Handled(e, Send(r, "Data"), <<"Data">>) /\ UNCHANGED consumed
  <2>1. TaskTypes'
    <3>1. write_rx[e] - 1 \in Nat /\ write_rx \in [EP -> Nat]
      BY <1>3, <1>12 DEF LinkTypeOK
    <3>2. write_rx' \in [EP -> Nat]
      BY <1>12, <3>1
    <3> QED
      BY <1>2, <1>3, <1>12, <3>2 DEF TaskTypes, LinkTypeOK
  <2>2. "Data" \in Msgs /\ ~link[e].needs_tx_accepted
    BY <1>3, <1>12, PendingFacts DEF Msgs
  <2> QED
    BY <1>6, <1>12, <2>1, <2>2
<1> QED
  BY <1>1, <1>7, <1>8, <1>9, <1>10, <1>11, <1>12 DEF TxReady

\* AddLink
LEMMA AddStep ==
  ASSUME LinkInv, NEW e \in EP, AddLink(e)
  PROVE  LinkInv'
<1>1. /\ link[e].state = "joining"
      /\ UNCHANGED userVars /\ UNCHANGED taskVars /\ UNCHANGED blocked_changed
  BY DEF AddLink
<1>2. PICK r : r = Add(link[e])
  OBVIOUS
<1>3. link[e] \in LinkInt /\ LinkTypeOK /\ ~Gone(link[e])
  BY <1>1, GoneStates DEF LinkInv, LinkTypeOK
<1>4. /\ ~link[e].current_ping_sent /\ ~link[e].send_pong /\ link[e].test = "Inactive"
      /\ link[e].txed = <<>> /\ link[e].tx_ack_queue = 0
  <2>1. link[e] = Remove(e, "joining")
    BY <1>1 DEF LinkInv, Good, FreshOK
  <2> QED
    BY <2>1 DEF Remove, NewLink
<1>5. /\ r \in LinkInt /\ r.state = "up" /\ ~r.idle /\ r.tx_polling /\ r.test = link[e].test
      /\ r.needs_tx_accepted = link[e].needs_tx_accepted /\ r.send_pong = link[e].send_pong
      /\ r.current_ping_sent = link[e].current_ping_sent
      /\ r.txed = link[e].txed /\ r.tx_ack_queue = link[e].tx_ack_queue
  <2>1. PICK u : u = Ready(link[e])
    OBVIOUS
  <2>2. u \in LinkInt /\ Keeps(link[e], u) /\ ~u.idle /\ u.tx_polling /\ u.test = link[e].test
    BY <1>3, <2>1, ReadyFacts
  <2>3. PICK why \in Reasons : r = [u EXCEPT !.state = "up", !.unconfirmed = why]
    BY <1>2, <2>1 DEF Add, Reasons
  <2>4. r \in LinkInt /\ r.state = "up"
    BY <2>2, <2>3 DEF LinkInt
  <2>5. /\ r.idle = u.idle /\ r.tx_polling = u.tx_polling /\ r.test = u.test
        /\ r.needs_tx_accepted = u.needs_tx_accepted /\ r.send_pong = u.send_pong
        /\ r.current_ping_sent = u.current_ping_sent /\ r.txed = u.txed /\ r.tx_ack_queue = u.tx_ack_queue
    BY <2>2, <2>3 DEF LinkInt
  <2> QED
    BY <2>2, <2>4, <2>5 DEF Keeps
<1>6. Good(e, r, blocked_changed[e])
  BY <1>4, <1>5, Polled DEF TestOK
<1>7. TaskTypes' /\ Notified(e, blocked_changed[e]) /\ blocked_changed[e] \in BOOLEAN
  BY <1>1, <1>3, SameTasks, NotNotified
<1>8. PICK p \in EP : p = Peer[e]
  BY LinkAssumption
<1>9. One("none") = <<>> /\ "none" \in MaybeMsg /\ "none" \in {"none", "TestData"}
  BY DEF One, MaybeMsg
<1>10. CASE e = Server /\ Handled(e, Add(link[e]), <<>>)
  <2>1. PICK incoming : incoming = chan[p]
    OBVIOUS
  <2>2. incoming \in Seq(Msgs) /\ Iterate(e, r, incoming, One("none"))
    BY <1>2, <1>3, <1>8, <1>9, <1>10, <2>1 DEF Handled, LinkTypeOK
  <2>3. "none" \notin Reliable /\ "none" \notin Acks
    BY DEF Reliable, Acks
  <2>4. /\ Len(link[e].txed) \in Nat /\ link[e].tx_ack_queue \in Nat
        /\ Count(incoming, Reliable) \in Nat /\ Count(incoming, Acks) \in Nat
    BY <1>3, <2>2, LinkNats, CountType
  <2>5. /\ Len(link[e].txed) + (IF "none" \in Reliable THEN 1 ELSE 0) + Count(incoming, Acks)
             <= Len(r.txed) + Count(chan[p], Acks)
        /\ Count(incoming, Reliable) + r.tx_ack_queue + (IF "none" \in Acks THEN 1 ELSE 0)
             <= Count(chan[p], Reliable) + link[e].tx_ack_queue
    BY <1>5, <2>1, <2>3, <2>4
  <2>6. ~Gone(r) /\ r.state # "joining"
    BY <1>5, GoneStates
  <2>7. Consistent(e, r, incoming, "none")
    BY <1>3, <1>4, <1>5, <1>8, <2>1, <2>5, <2>6 DEF Consistent
  <2> QED
    BY <1>1, <1>6, <1>7, <1>9, <2>2, <2>7, EventStep
<1>11. CASE /\ e # Server /\ chan[Server] # <<>> /\ Head(chan[Server]) = "Accepted"
            /\ Iterate(e, Add(link[e]), Tail(chan[Server]), <<>>)
  <2>1. p = Server
    BY <1>8, <1>11, LinkAssumption
  <2>2. /\ chan[p] # <<>> /\ Head(chan[p]) = "Accepted" /\ Iterate(e, r, Tail(chan[p]), One("none"))
    BY <1>2, <1>9, <1>11, <2>1
  <2>3. "Accepted" \notin Reliable /\ "Accepted" \notin Acks
    BY DEF Reliable, Acks
  <2>4. Len(link[e].txed) \in Nat /\ link[e].tx_ack_queue \in Nat
    BY <1>3, LinkNats
  <2>5. /\ Len(link[e].txed) <= Len(r.txed) + (IF "Accepted" \in Acks THEN 1 ELSE 0)
        /\ r.tx_ack_queue <= link[e].tx_ack_queue + (IF "Accepted" \in Reliable THEN 1 ELSE 0)
    BY <1>5, <2>3, <2>4
  <2> QED
    BY <1>1, <1>3, <1>4, <1>5, <1>6, <1>7, <1>8, <1>9, <2>2, <2>5, ReceiveStep
<1> QED
  BY <1>10, <1>11 DEF AddLink

\* What a message other than Goodbye and Accepted does to the record of the
\* link, and what is sent at once; Acks come only for what was sent.
ReceivedOK(r, s, m, x) ==
  /\ s.state = "up" /\ s.needs_tx_accepted = r.needs_tx_accepted
  /\ x \in {"none", "TestData"} /\ (x # "none" => ~r.needs_tx_accepted)
  /\ s.current_ping_sent => r.current_ping_sent /\ m # "Pong"
  /\ r.send_pong \/ m = "Ping" => s.send_pong
  /\ Len(r.txed) <= Len(s.txed) + (IF m \in Acks THEN 1 ELSE 0)
  /\ s.tx_ack_queue <= r.tx_ack_queue + (IF m \in Reliable THEN 1 ELSE 0)

\* A message that changes nothing the peer depends on.
LEMMA ReceivedKeeps ==
  ASSUME NEW r \in LinkInt, NEW s, Keeps(r, s), r.state = "up", NEW m, NEW x \in {"none", "TestData"},
         x # "none" => ~r.needs_tx_accepted, m # "Ping", m = "Pong" => ~r.current_ping_sent
  PROVE  ReceivedOK(r, s, m, x)
<1>1. Len(r.txed) \in Nat /\ r.tx_ack_queue \in Nat
  BY LinkNats
<1>2. PICK k \in {0, 1} : k = IF m \in Acks THEN 1 ELSE 0
  OBVIOUS
<1>3. PICK l \in {0, 1} : l = IF m \in Reliable THEN 1 ELSE 0
  OBVIOUS
<1>4. Len(r.txed) <= Len(s.txed) + k /\ s.tx_ack_queue <= r.tx_ack_queue + l
  BY <1>1 DEF Keeps
<1> QED
  BY <1>2, <1>3, <1>4 DEF ReceivedOK, Keeps

\* Pong ends a ping that was sent, and the test that waits for it.
LEMMA PongFacts ==
  ASSUME LinkInv, NEW e \in EP, Up(e), NEW res \in Received(e, link[e], "Pong")
  PROVE  /\ Good(e, res[1], blocked_changed[e])
         /\ \E x \in {"none", "TestData"} : res[2] = One(x) /\ ReceivedOK(link[e], res[1], "Pong", x)
<1>1. PICK r : r = link[e]
  OBVIOUS
<1>2. r \in LinkInt /\ r.state = "up" /\ Good(e, r, blocked_changed[e]) /\ blocked_changed[e] \in BOOLEAN
  BY <1>1, UpFacts
<1>3. One("none") = <<>> /\ One("TestData") = <<"TestData">>
  BY DEF One
<1>4. CASE ~r.current_ping_sent
  <2>1. res = <<r, <<>>>>
    BY <1>1, <1>4 DEF Received
  <2>2. ReceivedOK(r, r, "Pong", "none")
    BY <1>2, <1>4, ReceivedKeeps DEF Keeps
  <2> QED
    BY <1>1, <1>2, <1>3, <2>1, <2>2
<1>5. CASE r.current_ping_sent
  <2>1. PICK s : s = [r EXCEPT !.current_ping_sent = FALSE]
    OBVIOUS
  <2>2. res \in LinkTestingStep(e, s)
    BY <1>1, <1>5, <2>1 DEF Received
  <2>3. s \in LinkInt /\ ~s.current_ping_sent /\ s.state = "up"
    BY <1>2, <2>1 DEF LinkInt
  <2>4. /\ s.idle = r.idle /\ s.unconfirmed = r.unconfirmed /\ s.test = r.test
        /\ s.disconnecting = r.disconnecting /\ s.tx_polling = r.tx_polling
        /\ s.goodbye_sent = r.goodbye_sent /\ s.send_ping = r.send_ping
        /\ s.blocked_sent = r.blocked_sent /\ s.needs_tx_accepted = r.needs_tx_accepted
        /\ s.send_pong = r.send_pong /\ s.tx_ack_queue = r.tx_ack_queue /\ s.txed = r.txed
    BY <1>2, <2>1 DEF LinkInt
  <2>5. Good(e, s, blocked_changed[e])
    BY <1>2, <2>3, <2>4 DEF Good, IdleOK, WaitOK, TestOK, FreshOK
  <2>6. /\ Good(e, res[1], blocked_changed[e]) /\ Keeps(s, res[1])
        /\ res[2] \in {<<>>, <<"TestData">>} /\ (res[2] # <<>> => s.state = "up" /\ ~s.tx_polling)
    BY <1>2, <2>2, <2>5, TestingFacts DEF LinkInv
  <2>7. PICK x \in {"none", "TestData"} : res[2] = One(x) /\ (x # "none" => res[2] # <<>>)
    <3>1. <<"TestData">> # <<>>
      OBVIOUS
    <3>2. CASE res[2] = <<>>
      BY <1>3, <3>2
    <3>3. CASE res[2] = <<"TestData">>
      BY <1>3, <3>1, <3>3
    <3> QED
      BY <2>6, <3>2, <3>3
  <2>8. x # "none" => ~s.needs_tx_accepted
    BY <2>5, <2>6, <2>7 DEF Good, WaitOK
  <2>9. ReceivedOK(s, res[1], "Pong", x)
    BY <2>3, <2>6, <2>8, ReceivedKeeps
  <2>10. ~res[1].current_ping_sent
    BY <2>3, <2>6 DEF Keeps
  <2>11. ReceivedOK(r, res[1], "Pong", x)
    BY <2>4, <2>9, <2>10 DEF ReceivedOK
  <2> QED
    BY <1>1, <2>6, <2>7, <2>11
<1> QED
  BY <1>4, <1>5

\* The other messages leave the link polled, or as it is but for an ack.
LEMMA MessageFacts ==
  ASSUME LinkInv, NEW e \in EP, Up(e), NEW p \in EP, p = Peer[e], chan[p] # <<>>,
         NEW m \in Msgs \ {"Pong", "Goodbye", "Accepted"}, m = Head(chan[p]),
         NEW res \in Received(e, link[e], m)
  PROVE  Good(e, res[1], blocked_changed[e]) /\ res[2] = <<>> /\ ReceivedOK(link[e], res[1], m, "none")
<1>1. PICK r : r = link[e]
  OBVIOUS
<1>2. r \in LinkInt /\ r.state = "up" /\ Good(e, r, blocked_changed[e]) /\ TestOK(r)
  BY <1>1, UpFacts
<1>3. Len(r.txed) \in Nat /\ r.tx_ack_queue \in Nat /\ r.sent \in Nat /\ r.txed \in Seq(Reliable)
  BY <1>2, LinkNats
<1>4. PICK u : u = Ready(r)
  OBVIOUS
<1>5. /\ u \in LinkInt /\ Keeps(r, u) /\ ~u.idle /\ u.tx_polling
      /\ u.unconfirmed = r.unconfirmed /\ u.test = r.test
  BY <1>2, <1>4, ReadyFacts
<1>6. CASE m = "Ping"
  <2>1. PICK s : s = [r EXCEPT !.send_pong = TRUE]
    OBVIOUS
  <2>2. res = <<Flush(s), <<>>>>
    BY <1>1, <1>6, <2>1 DEF Received
  <2>3. s \in LinkInt /\ s.send_pong /\ s.state = "up" /\ TestOK(s)
    BY <1>2, <2>1 DEF LinkInt, TestOK
  <2>4. /\ s.needs_tx_accepted = r.needs_tx_accepted /\ s.current_ping_sent = r.current_ping_sent
        /\ s.tx_ack_queue = r.tx_ack_queue /\ s.txed = r.txed
    BY <1>2, <2>1 DEF LinkInt
  <2>5. PICK v : v = Flush(s)
    OBVIOUS
  <2>6. v \in LinkInt /\ Keeps(s, v) /\ ~v.idle /\ v.tx_polling /\ TestOK(v)
    BY <2>3, <2>5, ReadyFacts DEF TestOK
  <2>7. v.state = "up"
    BY <2>3, <2>6 DEF Keeps
  <2>8. Good(e, v, blocked_changed[e])
    BY <2>6, <2>7, Polled
  <2>9. "Ping" \notin Acks /\ "Ping" \notin Reliable
    BY DEF Acks, Reliable
  <2>10. Len(r.txed) <= Len(v.txed) + 0 /\ v.tx_ack_queue <= r.tx_ack_queue + 0
    BY <1>3, <2>4, <2>6 DEF Keeps
  <2>11. ReceivedOK(r, v, m, "none")
    BY <1>6, <2>3, <2>4, <2>6, <2>7, <2>9, <2>10 DEF ReceivedOK, Keeps
  <2> QED
    BY <1>1, <2>2, <2>5, <2>8, <2>11
<1>7. CASE m \in Reliable
  <2>1. PICK s : s = [u EXCEPT !.tx_ack_queue = @ + 1]
    OBVIOUS
  <2>2. res = <<s, <<>>>>
    BY <1>1, <1>4, <1>7, <2>1 DEF Received, Reliable, QueueAck
  <2>3. s \in LinkInt /\ s.state = "up" /\ ~s.idle /\ s.tx_polling /\ TestOK(s)
    <3>1. u.tx_ack_queue + 1 \in Nat /\ u.state = "up" /\ TestOK(u)
      BY <1>2, <1>3, <1>5 DEF Keeps, TestOK
    <3> QED
      BY <1>5, <2>1, <3>1 DEF LinkInt, TestOK
  <2>4. /\ s.needs_tx_accepted = u.needs_tx_accepted /\ s.current_ping_sent = u.current_ping_sent
        /\ s.send_pong = u.send_pong /\ s.tx_ack_queue = u.tx_ack_queue + 1 /\ s.txed = u.txed
    BY <1>5, <2>1 DEF LinkInt
  <2>5. Good(e, s, blocked_changed[e])
    BY <2>3, Polled
  <2>6. m \notin Acks /\ m # "Ping" /\ m # "Pong"
    BY <1>7 DEF Acks, Reliable
  <2>7. Len(r.txed) <= Len(s.txed) + 0 /\ s.tx_ack_queue <= r.tx_ack_queue + 1
    BY <1>3, <1>5, <2>4 DEF Keeps
  <2>8. ReceivedOK(r, s, m, "none")
    BY <1>5, <1>7, <2>3, <2>4, <2>6, <2>7 DEF ReceivedOK, Keeps
  <2> QED
    BY <1>1, <2>2, <2>5, <2>8
<1>8. CASE m = "Ack"
  <2>1. r.txed # <<>>
    <3>1. Count(chan[e], Reliable) + link[p].tx_ack_queue + Count(chan[p], Acks) <= Len(r.txed)
      BY <1>1, GoneStates DEF LinkInv, AckInv, Up
    <3>2. PICK a \in Nat : a = Count(chan[e], Reliable)
      BY CountType DEF LinkInv, LinkTypeOK
    <3>3. PICK b \in Nat : b = link[p].tx_ack_queue
      BY LinkNats DEF LinkInv, LinkTypeOK
    <3>4. PICK c \in Nat : c = Count(Tail(chan[p]), Acks) /\ Count(chan[p], Acks) = c + 1
      <4>1. chan[p] \in Seq(Msgs) /\ Head(chan[p]) \in Acks
        BY <1>8 DEF LinkInv, LinkTypeOK, Acks
      <4>2. /\ Tail(chan[p]) \in Seq(Msgs)
            /\ Count(chan[p], Acks) = Count(Tail(chan[p]), Acks) + 1
        BY <4>1, CountTail
      <4> QED
        BY <4>2, CountType
    <3>5. PICK n \in Nat : n = Len(r.txed)
      BY <1>3
    <3>6. a + b + (c + 1) <= n
      BY <3>1, <3>2, <3>3, <3>4, <3>5
    <3>7. n # 0
      BY <3>6
    <3> QED
      BY <1>3, <3>5, <3>7
  <2>2. PICK s : s = Acked(r)
    OBVIOUS
  <2>3. res = <<s, <<>>>>
    BY <1>1, <1>8, <2>2 DEF Received
  <2>4. Tail(r.txed) \in Seq(Reliable) /\ Len(Tail(r.txed)) = Len(r.txed) - 1 /\ Len(r.txed) > 0
    BY <1>3, <2>1
  <2>5. PICK n \in Nat : s = [r EXCEPT !.txed = Tail(r.txed), !.sent = n]
    <3>1. (IF r.sent = Len(r.txed) THEN r.sent - 1 ELSE r.sent) \in Nat
      BY <1>3, <2>4
    <3> QED
      BY <2>2, <3>1 DEF Acked
  <2>6. s \in LinkInt
    BY <1>2, <2>4, <2>5 DEF LinkInt, Reliable
  <2>7. /\ s.state = r.state /\ s.idle = r.idle /\ s.unconfirmed = r.unconfirmed /\ s.test = r.test
        /\ s.disconnecting = r.disconnecting /\ s.tx_polling = r.tx_polling
        /\ s.goodbye_sent = r.goodbye_sent /\ s.send_ping = r.send_ping
    BY <1>2, <2>5 DEF LinkInt
  <2>8. /\ s.blocked_sent = r.blocked_sent /\ s.needs_tx_accepted = r.needs_tx_accepted
        /\ s.send_pong = r.send_pong /\ s.tx_ack_queue = r.tx_ack_queue
        /\ s.current_ping_sent = r.current_ping_sent /\ s.txed = Tail(r.txed)
    BY <1>2, <2>5 DEF LinkInt
  <2>9. Good(e, s, blocked_changed[e])
    BY <1>2, <2>6, <2>7, <2>8 DEF Good, IdleOK, WaitOK, TestOK, FreshOK
  <2>10. "Ack" \in Acks /\ "Ack" \notin Reliable
    BY DEF Acks, Reliable
  <2>11. Len(r.txed) <= Len(s.txed) + 1 /\ s.tx_ack_queue <= r.tx_ack_queue + 0
    BY <1>3, <2>4, <2>8
  <2>12. ReceivedOK(r, s, m, "none")
    BY <1>2, <1>8, <2>7, <2>8, <2>10, <2>11 DEF ReceivedOK
  <2> QED
    BY <1>1, <2>3, <2>9, <2>12
<1>9. CASE m = "TestData"
  <2>1. res = <<r, <<>>>>
    BY <1>1, <1>9 DEF Received
  <2>2. ReceivedOK(r, r, m, "none")
    BY <1>2, <1>9, ReceivedKeeps DEF Keeps
  <2> QED
    BY <1>1, <1>2, <2>1, <2>2
<1>10. CASE m \in {"Block", "Unblock"}
  <2>1. PICK b \in BOOLEAN : b = (m = "Block")
    OBVIOUS
  <2>2. PICK s : s = [u EXCEPT !.remotely_blocked = b]
    OBVIOUS
  <2>3. res = <<s, <<>>>>
    BY <1>1, <1>4, <1>10, <2>1, <2>2 DEF Received
  <2>4. s \in LinkInt
    <3>1. CASE b = TRUE
      BY <1>5, <2>2, <3>1 DEF LinkInt
    <3>2. CASE b = FALSE
      BY <1>5, <2>2, <3>2 DEF LinkInt
    <3> QED
      BY <3>1, <3>2
  <2>5. Keeps(u, s) /\ s.idle = u.idle /\ s.tx_polling = u.tx_polling
        /\ s.unconfirmed = u.unconfirmed /\ s.test = u.test
    BY <1>5, <2>2 DEF LinkInt, Keeps
  <2>6. Keeps(r, s)
    BY <1>5, <2>5 DEF Keeps
  <2>7. ~s.idle /\ s.tx_polling /\ TestOK(s) /\ s.state = "up"
    BY <1>2, <1>5, <2>5, <2>6 DEF TestOK, Keeps
  <2>8. Good(e, s, blocked_changed[e])
    BY <2>4, <2>7, Polled
  <2>9. m # "Ping" /\ m # "Pong"
    BY <1>10
  <2>10. ReceivedOK(r, s, m, "none")
    BY <1>2, <2>6, <2>9, ReceivedKeeps
  <2> QED
    BY <1>1, <2>3, <2>8, <2>10
<1> QED
  BY <1>6, <1>7, <1>8, <1>9, <1>10 DEF Msgs, Reliable

\* Goodbye and Accepted: the link is removed, or starts to disconnect.
LEMMA GoodbyeFacts ==
  ASSUME LinkInv, NEW e \in EP, Up(e), NEW m \in {"Goodbye", "Accepted"},
         NEW res \in Received(e, link[e], m)
  PROVE  /\ res[2] = <<>>
         /\ \/ \E reason \in Disconnected \cup Failures : res[1] = Remove(e, reason)
            \/ Good(e, res[1], blocked_changed[e]) /\ ReceivedOK(link[e], res[1], m, "none")
<1>1. PICK r : r = link[e]
  OBVIOUS
<1>2. r \in LinkInt /\ r.state = "up" /\ Good(e, r, blocked_changed[e])
  BY <1>1, UpFacts
<1>3. "LocallyRequested" \in Disconnected /\ "protocol_error" \in Failures
  BY DEF Disconnected, Failures
<1>4. r.disconnecting \in {"none", "Local", "Remote"}
  BY <1>2 DEF LinkInt
<1>5. CASE m = "Accepted"
  <2>1. res = <<Remove(e, "protocol_error"), <<>>>>
    BY <1>1, <1>5 DEF Received
  <2> QED
    BY <1>3, <2>1
<1>6. CASE m = "Goodbye"
  <2>1. res = <<Goodbye(e, r), <<>>>>
    BY <1>1, <1>6 DEF Received
  <2>2. CASE r.disconnecting = "Remote" \/ (r.disconnecting = "Local" /\ r.goodbye_sent)
    <3>1. Goodbye(e, r) \in {Remove(e, "LocallyRequested"), Remove(e, "protocol_error")}
      BY <2>2 DEF Goodbye
    <3> QED
      BY <1>3, <2>1, <3>1
  <2>3. CASE r.disconnecting = "Local" /\ ~r.goodbye_sent
    <3>1. Goodbye(e, r) = r
      BY <2>3 DEF Goodbye
    <3>2. ReceivedOK(r, r, m, "none")
      BY <1>2, <1>6, ReceivedKeeps DEF Keeps
    <3> QED
      BY <1>1, <1>2, <2>1, <3>1, <3>2
  <2>4. CASE r.disconnecting = "none"
    <3>1. PICK u : u = Unconfirm([r EXCEPT !.disconnecting = "Remote"], "Disconnecting")
      OBVIOUS
    <3>2. Goodbye(e, r) = u
      BY <2>4, <3>1 DEF Goodbye
    <3>3. u \in LinkInt /\ Keeps(r, u) /\ ~u.idle /\ u.tx_polling /\ TestOK(u)
      BY <1>2, <3>1, DisconnectingFacts
    <3>4. u.state = "up"
      BY <1>2, <3>3 DEF Keeps
    <3>5. Good(e, u, blocked_changed[e])
      BY <3>3, <3>4, Polled
    <3>6. ReceivedOK(r, u, m, "none")
      BY <1>2, <1>6, <3>3, ReceivedKeeps
    <3> QED
      BY <1>1, <2>1, <3>2, <3>5, <3>6
  <2> QED
    BY <1>4, <2>2, <2>3, <2>4
<1> QED
  BY <1>5, <1>6

\* Receive
LEMMA ReceiveActionStep ==
  ASSUME LinkInv, NEW e \in EP, Receive(e)
  PROVE  LinkInv'
<1>1. PICK p \in EP : p = Peer[e]
  BY LinkAssumption
<1>2. PICK m : m = Head(chan[p])
  OBVIOUS
<1>3. /\ Up(e) /\ chan[p] # <<>>
      /\ UNCHANGED userVars /\ UNCHANGED taskVars /\ UNCHANGED blocked_changed
  BY <1>1 DEF Receive
<1>4. PICK res \in Received(e, link[e], m) : Iterate(e, res[1], Tail(chan[p]), res[2])
  BY <1>1, <1>2 DEF Receive
<1>5. chan[p] \in Seq(Msgs) /\ m \in Msgs /\ Tail(chan[p]) \in Seq(Msgs)
  <2>1. chan[p] \in Seq(Msgs)
    BY DEF LinkInv, LinkTypeOK
  <2> QED
    BY <1>2, <1>3, <2>1, CountTail
<1>6. TaskTypes' /\ ~Gone(link[e]) /\ One("none") = <<>>
  BY <1>3, SameTasks, GoneStates DEF Up, One
<1>7. ASSUME NEW x \in {"none", "TestData"}, Good(e, res[1], blocked_changed[e]), res[2] = One(x),
             ReceivedOK(link[e], res[1], m, x)
      PROVE  LinkInv'
  <2>1. PICK r : r = res[1]
    OBVIOUS
  <2>2. Iterate(e, r, Tail(chan[p]), One(x)) /\ Good(e, r, blocked_changed[e])
    BY <1>4, <1>7, <2>1
  <2>3. /\ r.state = "up" /\ r.needs_tx_accepted = link[e].needs_tx_accepted
        /\ x # "none" => ~link[e].needs_tx_accepted
        /\ r.current_ping_sent => Up(e) /\ link[e].current_ping_sent /\ m # "Pong"
        /\ link[e].send_pong \/ m = "Ping" => r.send_pong
        /\ Len(link[e].txed) <= Len(r.txed) + (IF m \in Acks THEN 1 ELSE 0)
        /\ r.tx_ack_queue <= link[e].tx_ack_queue + (IF m \in Reliable THEN 1 ELSE 0)
    BY <1>3, <1>7, <2>1 DEF ReceivedOK
  <2> QED
    BY <1>1, <1>2, <1>3, <1>6, <2>2, <2>3, ReceiveStep
<1>8. CASE m = "Pong"
  BY <1>3, <1>4, <1>7, <1>8, PongFacts
<1>9. CASE m \in {"Goodbye", "Accepted"}
  <2>1. /\ res[2] = <<>>
        /\ \/ \E reason \in Disconnected \cup Failures : res[1] = Remove(e, reason)
           \/ Good(e, res[1], blocked_changed[e]) /\ ReceivedOK(link[e], res[1], m, "none")
    BY <1>3, <1>4, <1>9, GoodbyeFacts
  <2>2. ASSUME NEW reason \in Disconnected \cup Failures, res[1] = Remove(e, reason) PROVE LinkInv'
    <3>1. Iterate(e, Remove(e, reason), Tail(chan[p]), <<>>)
      BY <1>4, <2>1, <2>2
    <3> QED
      BY <1>3, <1>5, <1>6, <2>2, <3>1, RemoveStep
  <2> QED
    BY <1>6, <1>7, <2>1, <2>2
<1>10. CASE m \in Msgs \ {"Pong", "Goodbye", "Accepted"}
  <2>1. Good(e, res[1], blocked_changed[e]) /\ res[2] = <<>> /\ ReceivedOK(link[e], res[1], m, "none")
    BY <1>1, <1>2, <1>3, <1>4, <1>10, MessageFacts
  <2> QED
    BY <1>6, <1>7, <2>1
<1> QED
  BY <1>5, <1>8, <1>9, <1>10
-----------------------------------------------------------------------------
(***************************************************************************)
(* The theorems.                                                           *)
(***************************************************************************)

\* The invariant holds in the initial state.
LEMMA LinkInvInit ==
  Init => LinkInv
<1> SUFFICES ASSUME Init PROVE LinkInv
  OBVIOUS
<1>1. ASSUME NEW e \in EP
      PROVE  /\ NewLink(e) \in LinkInt /\ Good(e, NewLink(e), FALSE) /\ NewLink(e).state = "joining"
             /\ NewLink(e).txed = <<>> /\ NewLink(e).tx_ack_queue = 0
             /\ e = Server => NewLink(e).needs_tx_accepted
  <2>1. NewLink(e) = Remove(e, "joining")
    <3>1. PICK r : r = NewLink(e)
      OBVIOUS
    <3>2. r \in LinkInt /\ r.state = "joining"
      BY <3>1 DEF NewLink, LinkInt, Reasons
    <3>3. r = [r EXCEPT !.state = "joining"]
      BY <3>2 DEF LinkInt
    <3> QED
      BY <3>1, <3>3 DEF Remove
  <2>2. /\ Good(e, Remove(e, "joining"), FALSE) /\ Remove(e, "joining").state = "joining"
        /\ Remove(e, "joining").txed = <<>> /\ Remove(e, "joining").tx_ack_queue = 0
        /\ e = Server => Remove(e, "joining").needs_tx_accepted
    BY RemoveFacts
  <2> QED
    BY <2>1, <2>2 DEF Good
<1>2. LinkTypeOK
  <2>1. link \in [EP -> LinkInt]
    BY <1>1 DEF Init
  <2>2. chan \in [EP -> Seq(Msgs)]
    BY DEF Init
  <2> QED
    BY <2>1, <2>2, LinkAssumption DEF LinkTypeOK, Init
<1>3. \A e \in EP : Good(e, link[e], blocked_changed[e])
  BY <1>1 DEF Init
<1>4. PingTracked
  BY <1>1 DEF Init, PingTracked, Up
<1>5. AckInv
  <2> SUFFICES ASSUME NEW e \in EP
               PROVE  Count(chan[e], Reliable) + link[Peer[e]].tx_ack_queue + Count(chan[Peer[e]], Acks)
                        <= Len(link[e].txed)
    BY DEF AckInv
  <2>1. Peer[e] \in EP /\ <<>> \in Seq(Msgs)
    BY LinkAssumption
  <2>2. chan[e] = <<>> /\ chan[Peer[e]] = <<>> /\ link[e].txed = <<>> /\ link[Peer[e]].tx_ack_queue = 0
    BY <1>1, <2>1 DEF Init
  <2>3. Count(<<>>, Reliable) = 0 /\ Count(<<>>, Acks) = 0 /\ Len(<<>>) = 0
    BY <2>1, CountType
  <2> QED
    BY <2>2, <2>3
<1>6. AcceptInv
  BY <1>1, LinkAssumption DEF Init, AcceptInv
<1> QED
  BY <1>2, <1>3, <1>4, <1>5, <1>6 DEF LinkInv

\* Every iteration of a task and every change by a user keeps the invariant.
LEMMA LinkInvStep ==
  LinkInv /\ [Next]_vars => LinkInv'
<1> SUFFICES ASSUME LinkInv, [Next]_vars PROVE LinkInv'
  OBVIOUS
<1>1. CASE UNCHANGED vars
  BY <1>1 DEF vars, userVars, taskVars, LinkInv, LinkTypeOK, Good, IdleOK, WaitOK, TestOK, FreshOK,
     PingTracked, AckInv, AcceptInv, InChan, Up
<1>2. ASSUME NEW e \in EP, Event(e) PROVE LinkInv'
  BY <1>2, AddStep, TxReadyStep, IdleStep, FlushStep, ReceiveActionStep, BlockedStep, DisconnectStep,
     PingStep, ConfirmTimedOutStep, RetestStep, FailStep, OtherStep DEF Event, LinkIntEvent
<1> QED
  BY <1>1, <1>2, SetBlockedStep DEF Next

\* LinkInv, the conjunction of the properties below with what they need of one
\* another, holds for every limit, every number of messages, faults and
\* changes of the blocking and for tasks that run arbitrarily.
THEOREM LinkInvariant == Spec => []LinkInv
BY LinkInvInit, LinkInvStep, PTL DEF Spec

\* Every field of LinkInt and the tasks' view of the link keep their types; in
\* particular no Ack is received for which nothing waits, and no count of
\* LinkInt becomes negative.
THEOREM LinkTyped == Spec => []LinkTypeOK
<1>1. LinkInv => LinkTypeOK
  BY DEF LinkInv
<1> QED
  BY <1>1, LinkInvariant, PTL

\* A link in the idle list can take a reliable message at once.
THEOREM IdleAlwaysReady == Spec => []IdleReady
<1>1. LinkInv => IdleReady
  BY DEF LinkInv, Good, IdleOK, IdleReady, Up
<1> QED
  BY <1>1, LinkInvariant, PTL

\* A link that is not polled has nothing to send: no wake-up is lost between
\* the handlers that queue something and the TxReady ladder.
THEOREM NothingEverWaits == Spec => []NothingWaits
<1>1. LinkInv => NothingWaits
  BY DEF LinkInv, Good, WaitOK, NothingWaits, Up
<1> QED
  BY <1>1, LinkInvariant, PTL

\* As long as the peer has the link, a ping that is waited for, the request to
\* answer it or its answer is under way.
THEOREM PingAlwaysTracked == Spec => []PingTracked
<1>1. LinkInv => PingTracked
  BY DEF LinkInv
<1> QED
  BY <1>1, LinkInvariant, PTL

\* Accepted is the first message the client's handshake sees.
THEOREM AcceptedAlwaysFirst == Spec => []AcceptedFirst
<1>1. LinkInv => AcceptedFirst
  BY DEF LinkInv, AcceptInv, AcceptedFirst
<1> QED
  BY <1>1, LinkInvariant, PTL
=============================================================================
