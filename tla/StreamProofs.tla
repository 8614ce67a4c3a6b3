---------------------------- MODULE StreamProofs ----------------------------
(***************************************************************************)
(* An answered flush covers everything written before it, for any sizes,   *)
(* buffers and faults.                                                     *)
(*                                                                         *)
(* What is read is what was written, and the reader is told of the end     *)
(* only when it has read all of it, when the byte stream below has at most *)
(* one fault (StreamBounds): the decoder is followed frame by frame        *)
(* through everything that was encoded.                                    *)
(***************************************************************************)
EXTENDS Stream, SequenceTheorems, TLAPS

-----------------------------------------------------------------------------
(***************************************************************************)
(* The inductive invariant: where the one flush request may be that the    *)
(* sink waits for.                                                         *)
(***************************************************************************)
Data == Seq(Nat \ {0})
Requests == Data \cup {Flush}

\* Types of what a flush depends on.
FlushType ==
  /\ written \in Nat /\ queue \in Seq(Requests)
  /\ peeked = <<>> \/ \E r \in Requests : peeked = <<r>>
  /\ flushedRx \in {"none", "waiting", "done", "dropped"} /\ flushing \in BOOLEAN

NoFlush(q) == \A i \in 1 .. Len(q) : q[i] # Flush

\* The only flush request of q is its last one.
FlushLast(q) == q # <<>> /\ q[Len(q)] = Flush /\ \A i \in 1 .. Len(q) - 1 : q[i] # Flush

\* The sink waits: its request is the last in the queue, or peeked, or being
\* carried out, and nothing was written after it.
WaitingInv ==
  flushedRx = "waiting" =>
    /\ sender # "failed"
    /\ \/ FlushLast(queue) /\ peeked # <<Flush>> /\ ~flushing
       \/ queue = <<>> /\ peeked = <<Flush>> /\ ~flushing
       \/ queue = <<>> /\ peeked = <<>> /\ flushing

\* The sink does not wait: there is no request.
SettledInv == flushedRx # "waiting" => NoFlush(queue) /\ peeked # <<Flush>> /\ ~flushing

\* The answer is not yet used: nothing was written or sent since.
DoneInv == flushedRx = "done" => queue = <<>> /\ peeked = <<>> /\ out = <<>>

\* A sink is closed with the answer to its last flush.
ClosedInv == sink = "closed" => flushedRx = "none"

FlushInv == FlushType /\ WaitingInv /\ SettledInv /\ DoneInv /\ ClosedInv

flushVars == <<written, flushedRx, sink, queue, peeked, sender, flushing, out>>
-----------------------------------------------------------------------------
(***************************************************************************)
(* Requests.                                                               *)
(***************************************************************************)

\* Bytes are not taken for a flush request.
LEMMA DataFacts ==
  ASSUME NEW w \in Nat, NEW n \in Nat
  PROVE  [i \in 1 .. n |-> w + i] \in Requests /\ [i \in 1 .. n |-> w + i] # Flush
<1>1. PICK d : d = [i \in 1 .. n |-> w + i]
  OBVIOUS
<1>2. d \in Data
  <2>1. \A i \in 1 .. n : w + i \in Nat \ {0}
    OBVIOUS
  <2>2. d \in [1 .. n -> Nat \ {0}]
    BY <1>1, <2>1
  <2> QED
    BY <2>2 DEF Data
<1>3. Flush[1] = 0 /\ Len(Flush) = 1
  BY DEF Flush
<1>4. d # Flush
  <2>1. Len(d) = 1 => d[1] \in Nat \ {0}
    BY <1>2 DEF Data
  <2> QED
    BY <1>3, <2>1
<1> QED
  BY <1>1, <1>2, <1>4 DEF Requests

\* A request is put into the queue.
LEMMA AppendFacts ==
  ASSUME NEW q \in Seq(Requests), NEW r \in Requests, NoFlush(q)
  PROVE  /\ Append(q, r) \in Seq(Requests)
         /\ r # Flush => NoFlush(Append(q, r))
         /\ r = Flush => FlushLast(Append(q, r))
<1>1. /\ Append(q, r) \in Seq(Requests) /\ Len(Append(q, r)) = Len(q) + 1 /\ Len(q) \in Nat
      /\ Append(q, r)[Len(q) + 1] = r /\ Append(q, r) # <<>>
      /\ \A i \in 1 .. Len(q) : Append(q, r)[i] = q[i]
  OBVIOUS
<1> QED
  BY <1>1 DEF NoFlush, FlushLast

\* An empty queue.
LEMMA EmptyQueue ==
  ASSUME NEW q \in Seq(Requests)
  PROVE  q = <<>> <=> Len(q) = 0
OBVIOUS

\* What holds of an empty queue and nothing peeked.
LEMMA EmptyFacts ==
  NoFlush(<<>>) /\ <<>> # <<Flush>> /\ <<>> \in Seq(Requests)
BY DEF NoFlush

\* The first request is taken from it.
LEMMA TailFacts ==
  ASSUME NEW q \in Seq(Requests), q # <<>>
  PROVE  /\ Tail(q) \in Seq(Requests) /\ Head(q) \in Requests
         /\ NoFlush(q) => NoFlush(Tail(q)) /\ Head(q) # Flush
         /\ FlushLast(q) => \/ Tail(q) = <<>> /\ Head(q) = Flush
                            \/ FlushLast(Tail(q)) /\ Head(q) # Flush
<1>1. /\ Tail(q) \in Seq(Requests) /\ Head(q) \in Requests /\ Head(q) = q[1]
      /\ Len(q) \in Nat \ {0} /\ Len(Tail(q)) = Len(q) - 1
      /\ \A i \in 1 .. Len(Tail(q)) : Tail(q)[i] = q[i + 1]
  OBVIOUS
<1>2. NoFlush(q) => NoFlush(Tail(q)) /\ Head(q) # Flush
  BY <1>1 DEF NoFlush
<1>3. ASSUME FlushLast(q), Len(q) = 1 PROVE Tail(q) = <<>> /\ Head(q) = Flush
  <2>1. Head(q) = Flush
    BY <1>1, <1>3 DEF FlushLast
  <2>2. Len(Tail(q)) = 0
    BY <1>1, <1>3
  <2>3. Tail(q) = <<>>
    BY <2>2, <1>1, EmptyQueue
  <2> QED
    BY <2>1, <2>3
<1>4. ASSUME FlushLast(q), Len(q) # 1 PROVE FlushLast(Tail(q)) /\ Head(q) # Flush
  <2>0. Len(Tail(q)) # 0
    BY <1>1, <1>4
  <2>1. Tail(q) # <<>> /\ Head(q) # Flush
    <3>1. Tail(q) # <<>>
      BY <1>1, <2>0, EmptyQueue
    <3>2. 1 \in 1 .. Len(q) - 1
      BY <1>1, <1>4
    <3>3. q[1] # Flush
      BY <1>4, <3>2 DEF FlushLast
    <3> QED
      BY <1>1, <3>1, <3>3
  <2>2. Tail(q)[Len(Tail(q))] = Flush
    BY <1>1, <1>4 DEF FlushLast
  <2>3. \A i \in 1 .. Len(Tail(q)) - 1 : Tail(q)[i] # Flush
    BY <1>1, <1>4 DEF FlushLast
  <2> QED
    BY <2>1, <2>2, <2>3 DEF FlushLast
<1> QED
  BY <1>1, <1>2, <1>3, <1>4
-----------------------------------------------------------------------------
(***************************************************************************)
(* The steps.                                                              *)
(***************************************************************************)

\* The steps that have nothing to do with a flush.
LEMMA OutsideStep ==
  ASSUME FlushInv, UNCHANGED flushVars
  PROVE  FlushInv'
BY DEF FlushInv, FlushType, WaitingInv, SettledInv, DoneInv, ClosedInv, flushVars

\* StartSend, for a buffer or an item.
LEMMA SendStep ==
  ASSUME FlushInv, NEW n \in Nat, StartSend(n)
  PROVE  FlushInv'
<1>1. /\ flushedRx \in {"none", "done"} /\ flushedRx' = "none"
      /\ queue' = Append(queue, [i \in 1 .. n |-> written + i]) /\ written' = written + n
      /\ UNCHANGED <<sink, peeked, sender, flushing, out>>
  BY DEF StartSend, PollReady, linkVars
<1>2. queue \in Seq(Requests) /\ NoFlush(queue) /\ written \in Nat /\ peeked # <<Flush>> /\ ~flushing
  BY <1>1 DEF FlushInv, FlushType, SettledInv
<1>3. PICK d : d = [i \in 1 .. n |-> written + i]
  OBVIOUS
<1>4. d \in Requests /\ d # Flush
  BY <1>2, <1>3, DataFacts
<1>5. queue' = Append(queue, d)
  BY <1>1, <1>3
<1>6. queue' \in Seq(Requests) /\ NoFlush(queue')
  BY <1>2, <1>4, <1>5, AppendFacts
<1>7. FlushType'
  BY <1>1, <1>2, <1>6 DEF FlushInv, FlushType
<1>8. SettledInv'
  BY <1>1, <1>2, <1>6 DEF SettledInv, NoFlush
<1> QED
  BY <1>1, <1>7, <1>8 DEF FlushInv, WaitingInv, DoneInv, ClosedInv

\* StartFlush
LEMMA StartFlushStep ==
  ASSUME FlushInv, StartFlush
  PROVE  FlushInv'
<1>1. /\ flushedRx = "none" /\ flushedRx' = "waiting" /\ queue' = Append(queue, Flush)
      /\ sender = "open" /\ sink # "closed" /\ UNCHANGED <<written, sink, peeked, sender, flushing, out>>
  BY DEF StartFlush, SinkReady, linkVars
<1>2. queue \in Seq(Requests) /\ NoFlush(queue) /\ peeked # <<Flush>> /\ ~flushing /\ Flush \in Requests
  BY <1>1 DEF FlushInv, FlushType, SettledInv, Requests
<1>3. queue' \in Seq(Requests) /\ FlushLast(queue')
  BY <1>1, <1>2, AppendFacts
<1>4. FlushType'
  BY <1>1, <1>2, <1>3 DEF FlushInv, FlushType
<1>5. WaitingInv'
  BY <1>1, <1>2, <1>3 DEF WaitingInv, FlushLast
<1> QED
  BY <1>1, <1>4, <1>5 DEF FlushInv, SettledInv, DoneInv, ClosedInv

\* StartClose, PollClose, FlushReturns and SinkFails
LEMMA SinkStep ==
  ASSUME FlushInv, StartClose \/ PollClose \/ FlushReturns \/ SinkFails
  PROVE  FlushInv'
<1>1. UNCHANGED <<written, queue, peeked, sender, flushing, out>>
  BY DEF StartClose, PollClose, FlushReturns, SinkFails, taskVars, linkVars
<1>2. \/ flushedRx' = flushedRx /\ sink' = "closing"
      \/ flushedRx # "waiting" /\ flushedRx' = "none"
  BY DEF StartClose, PollClose, FlushReturns, SinkFails, FlushInv, WaitingInv
<1> QED
  BY <1>1, <1>2 DEF FlushInv, FlushType, WaitingInv, SettledInv, DoneInv, ClosedInv, NoFlush, FlushLast

\* TryPeek
LEMMA PeekStep ==
  ASSUME FlushInv, TryPeek
  PROVE  FlushInv'
<1>1. /\ peeked = <<>> /\ queue # <<>> /\ peeked' = <<Head(queue)>> /\ queue' = Tail(queue)
      /\ UNCHANGED <<written, flushedRx, sink, sender, flushing, out>>
  BY DEF TryPeek, sinkVars, linkVars
<1>2. PICK h : h = Head(queue)
  OBVIOUS
<1>3. PICK q : q = Tail(queue)
  OBVIOUS
<1>4. /\ q \in Seq(Requests) /\ h \in Requests
      /\ NoFlush(queue) => NoFlush(q) /\ h # Flush
      /\ FlushLast(queue) => (q = <<>> /\ h = Flush) \/ (FlushLast(q) /\ h # Flush)
  <2>1. queue \in Seq(Requests)
    BY DEF FlushInv, FlushType
  <2> QED
    BY <1>1, <1>2, <1>3, <2>1, TailFacts
<1>5. peeked' = <<h>> /\ queue' = q /\ (<<h>> = <<Flush>> <=> h = Flush) /\ <<h>> # <<>>
  BY <1>1, <1>2, <1>3
<1>6. FlushType'
  BY <1>1, <1>4, <1>5 DEF FlushInv, FlushType
<1>7. WaitingInv'
  <2> SUFFICES ASSUME flushedRx = "waiting"
               PROVE  /\ sender # "failed" /\ ~flushing
                      /\ (FlushLast(q) /\ h # Flush) \/ (q = <<>> /\ h = Flush)
    BY <1>1, <1>5 DEF WaitingInv, FlushLast
  <2>1. sender # "failed" /\ FlushLast(queue) /\ ~flushing
    BY <1>1 DEF FlushInv, WaitingInv
  <2> QED
    BY <1>4, <2>1
<1>8. SettledInv'
  BY <1>1, <1>4, <1>5 DEF FlushInv, SettledInv, NoFlush
<1>9. DoneInv'
  BY <1>1 DEF FlushInv, DoneInv
<1> QED
  BY <1>1, <1>6, <1>7, <1>8, <1>9 DEF FlushInv, ClosedInv

\* SendData
LEMMA SendDataStep ==
  ASSUME FlushInv, SendData
  PROVE  FlushInv'
<1>1. /\ peeked # <<>> /\ Head(peeked) # Flush /\ peeked' = <<>>
      /\ UNCHANGED <<written, flushedRx, sink, queue, sender, flushing>>
  BY DEF SendData, sinkVars
<1>2. peeked # <<Flush>>
  BY <1>1
<1>3. FlushType'
  BY <1>1 DEF FlushInv, FlushType
<1>4. flushedRx # "done"
  BY <1>1 DEF FlushInv, DoneInv
<1>5. WaitingInv'
  BY <1>1, <1>2 DEF FlushInv, WaitingInv, FlushLast
<1>6. SettledInv'
  BY <1>1, <1>2 DEF FlushInv, SettledInv, NoFlush
<1> QED
  BY <1>1, <1>3, <1>4, <1>5, <1>6 DEF FlushInv, DoneInv, ClosedInv

\* TakeFlush
LEMMA TakeFlushStep ==
  ASSUME FlushInv, TakeFlush
  PROVE  FlushInv'
<1>1. /\ peeked # <<>> /\ Head(peeked) = Flush /\ peeked' = <<>> /\ flushing' = TRUE
      /\ UNCHANGED <<written, flushedRx, sink, queue, sender, out>>
  BY DEF TakeFlush, sinkVars, linkVars
<1>2. peeked = <<Flush>>
  BY <1>1 DEF FlushInv, FlushType
<1>3. flushedRx = "waiting" /\ queue = <<>> /\ sender # "failed"
  BY <1>1, <1>2 DEF FlushInv, FlushType, SettledInv, WaitingInv
<1>4. FlushType'
  BY <1>1 DEF FlushInv, FlushType
<1> QED
  BY <1>1, <1>3, <1>4 DEF FlushInv, WaitingInv, SettledInv, DoneInv, ClosedInv

\* Flushed
LEMMA FlushedStep ==
  ASSUME FlushInv, Flushed
  PROVE  FlushInv'
<1>1. /\ flushing /\ out = <<>> /\ flushing' = FALSE
      /\ flushedRx' = IF flushedRx = "waiting" THEN "done" ELSE flushedRx
      /\ UNCHANGED <<written, sink, queue, peeked, sender, out>>
  BY DEF Flushed, LinkFlushed, linkVars
<1>2. flushedRx = "waiting" /\ queue = <<>> /\ peeked = <<>>
  BY <1>1 DEF FlushInv, SettledInv, WaitingInv
<1>3. FlushType'
  BY <1>1 DEF FlushInv, FlushType
<1>4. SettledInv' /\ DoneInv' /\ ClosedInv'
  BY <1>1, <1>2, EmptyFacts DEF FlushInv, SettledInv, DoneInv, ClosedInv
<1> QED
  BY <1>1, <1>2, <1>3, <1>4 DEF FlushInv, WaitingInv

\* EncodeFails and SenderFails
LEMMA SenderEndsStep ==
  ASSUME FlushInv, SenderEnds
  PROVE  FlushInv'
<1>1. /\ sender' = "failed" /\ queue' = <<>> /\ peeked' = <<>> /\ flushing' = FALSE /\ out' = <<>>
      /\ flushedRx' = IF flushedRx = "waiting" THEN "dropped" ELSE flushedRx
      /\ written' = written /\ sink' = sink
  BY DEF SenderEnds
<1>2. FlushType'
  BY <1>1, EmptyFacts DEF FlushInv, FlushType
<1> QED
  BY <1>1, <1>2, EmptyFacts DEF FlushInv, WaitingInv, SettledInv, DoneInv, ClosedInv

\* WriteEnd
LEMMA WriteEndStep ==
  ASSUME FlushInv, WriteEnd
  PROVE  FlushInv'
<1>1. /\ sink = "closed" /\ sender' = "finished"
      /\ UNCHANGED <<written, flushedRx, sink, queue, peeked, flushing>>
  BY DEF WriteEnd, sinkVars
<1>2. flushedRx = "none"
  BY <1>1 DEF FlushInv, ClosedInv
<1> QED
  BY <1>1, <1>2 DEF FlushInv, FlushType, WaitingInv, SettledInv, DoneInv, ClosedInv, NoFlush

\* Transmit
LEMMA TransmitStep ==
  ASSUME FlushInv, Transmit
  PROVE  FlushInv'
<1>1. out' = <<>> /\ UNCHANGED <<written, flushedRx, sink, queue, peeked, sender, flushing>>
  BY DEF Transmit, sinkVars, taskVars
<1> QED
  BY <1>1 DEF FlushInv, FlushType, WaitingInv, SettledInv, DoneInv, ClosedInv, NoFlush, FlushLast

\* The stream below, the receiving task and the reader.
LEMMA OtherSteps ==
  ASSUME Decode \/ Read \/ Fault \/ ReceiverFails \/ \E n \in 1 .. Len(wire) : Deliver(n)
  PROVE  UNCHANGED flushVars
<1>1. CASE Decode
  BY <1>1 DEF Decode, DecodeHeader, DecodeData, DecodeFails, flushVars, sinkVars, taskVars, linkVars
<1>2. CASE Read
  BY <1>2 DEF Read, PollRead, PollNext, ReadBytes, ReadEnd, readUnchanged, flushVars, sinkVars,
     taskVars, linkVars
<1>3. CASE Fault \/ ReceiverFails
  BY <1>3 DEF Fault, Corrupt, LoseFrame, Break, ReceiverFails, flushVars, sinkVars, taskVars, linkVars
<1>4. CASE \E n \in 1 .. Len(wire) : Deliver(n)
  BY <1>4 DEF Deliver, flushVars, sinkVars, taskVars, linkVars
<1> QED
  BY <1>1, <1>2, <1>3, <1>4
-----------------------------------------------------------------------------
(***************************************************************************)
(* The theorems.                                                           *)
(***************************************************************************)

\* The invariant holds in the initial state.
LEMMA FlushInvInit ==
  Init => FlushInv
<1> SUFFICES ASSUME Init PROVE FlushInv
  OBVIOUS
<1>1. /\ written = 0 /\ queue = <<>> /\ peeked = <<>> /\ flushedRx = "none" /\ flushing = FALSE
  BY DEF Init
<1>2. FlushType
  BY <1>1, EmptyFacts DEF FlushType
<1>3. SettledInv
  BY <1>1, EmptyFacts DEF SettledInv
<1> QED
  BY <1>1, <1>2, <1>3 DEF FlushInv, WaitingInv, DoneInv, ClosedInv

\* Every step keeps it.
LEMMA FlushInvStep ==
  FlushInv /\ [Next]_vars => FlushInv'
<1> SUFFICES ASSUME FlushInv, [Next]_vars PROVE FlushInv'
  OBVIOUS
<1>1. CASE UNCHANGED vars
  BY <1>1, OutsideStep DEF vars, flushVars, sinkVars, taskVars, linkVars
<1>2. CASE Sink
  <2>1. ASSUME NEW n \in WriteSizes, PollWrite(n) PROVE FlushInv'
    <3>1. PICK k : k = Smaller(n, Smaller(IoWriteSize, RecvBuffer))
      OBVIOUS
    <3>2. k \in Nat
      BY <3>1, StreamAssumption DEF Smaller
    <3>3. StartSend(k)
      BY <2>1, <3>1 DEF PollWrite
    <3> QED
      BY <3>2, <3>3, SendStep
  <2>2. ASSUME NEW n \in ItemSizes, StartSend(n) PROVE FlushInv'
    BY <2>2, SendStep, StreamAssumption
  <2> QED
    BY <1>2, <2>1, <2>2, StartFlushStep, SinkStep DEF Sink
<1>3. CASE Task
  BY <1>3, PeekStep, SendDataStep, SenderEndsStep, TakeFlushStep, FlushedStep, WriteEndStep
  DEF Task, EncodeFails
<1>4. CASE SenderFails
  BY <1>4, SenderEndsStep DEF SenderFails
<1>5. CASE Decode \/ Read \/ Fault \/ ReceiverFails \/ \E n \in 1 .. Len(wire) : Deliver(n)
  BY <1>5, OtherSteps, OutsideStep
<1> QED
  BY <1>1, <1>2, <1>3, <1>4, <1>5, TransmitStep DEF Next

\* FlushInv holds for any sizes, buffers, numbers of flushes and faults: there
\* is at most one flush request, and nothing is behind it.
THEOREM FlushInvariant == Spec => []FlushInv
BY FlushInvInit, FlushInvStep, PTL DEF Spec

\* When a flush is answered, every byte written before has left the queue and
\* the transmit buffers of the link, also when an earlier flush was given up.
THEOREM FlushAlwaysCovers == Spec => []FlushCovers
<1>1. FlushInv => FlushCovers
  BY DEF FlushInv, DoneInv, FlushCovers
<1> QED
  BY <1>1, FlushInvariant, PTL
-----------------------------------------------------------------------------
(***************************************************************************)
(* Frames: what the codec encodes, at which positions and with which numbers.*)
(***************************************************************************)

\* The cells of payloads, the payloads, and all cells, altered ones as well.
PayloadCells == {"id", "byte"} \X (Int \ {0})
Payloads == Seq(PayloadCells) \ {<<>>}
Cells == ({"len"} \X Int) \cup ({"seq"} \X Int \X Seq(PayloadCells)) \cup ({"id", "byte"} \X Int)

\* The two cells of a frame header.
LenCell(n) == <<"len", n>>
SeqCell(s, x) == <<"seq", s, x>>

\* The next number is another one.
CodecAssumption == SeqMod \in Nat /\ SeqMod > 1

\* T is the encoding of the first F payloads pay, frame f of them at pos[f]
\* with number num[f].
FrameType(T, pay, pos, num, F) ==
  /\ F \in Nat /\ pay \in [Nat -> Payloads] /\ pos \in [Nat -> Nat] /\ num \in [Nat -> 0 .. SeqMod - 1]
  /\ T \in Seq(Cells) /\ Len(T) = pos[F]
FrameNums(num, F) == \A f \in 0 .. F - 1 : num[f + 1] = (num[f] + 1) % SeqMod
FrameEnds(pay, pos, F) == \A f \in 0 .. F - 1 : pos[f + 1] = pos[f] + 2 + Len(pay[f])
FrameOrder(pos, F) == \A f, h \in 0 .. F : f < h => pos[f] < pos[h]
FrameCells(T, pay, pos, num, F) ==
  \A f \in 0 .. F - 1 :
    /\ T[pos[f] + 1] = LenCell(Len(pay[f]))
    /\ T[pos[f] + 2] = SeqCell(num[f], pay[f])
    /\ \A j \in 1 .. Len(pay[f]) : T[pos[f] + 2 + j] = pay[f][j]
FrameCover(pos, F) ==
  \A p \in 1 .. pos[F] : \E f \in 0 .. F - 1 : pos[f] < p /\ p <= pos[f + 1]
Framed(T, pay, pos, num, F) ==
  /\ FrameType(T, pay, pos, num, F) /\ FrameNums(num, F) /\ FrameEnds(pay, pos, F) /\ FrameOrder(pos, F)
  /\ FrameCells(T, pay, pos, num, F) /\ FrameCover(pos, F)

\* The cells of a frame.
LEMMA EncodeFacts ==
  ASSUME NEW s \in Int, NEW x \in Payloads
  PROVE  /\ Encode(s, x) \in Seq(Cells) /\ Len(Encode(s, x)) = 2 + Len(x)
         /\ Encode(s, x)[1] = LenCell(Len(x)) /\ Encode(s, x)[2] = SeqCell(s, x)
         /\ \A j \in 1 .. Len(x) : Encode(s, x)[2 + j] = x[j]
<1>1. x \in Seq(PayloadCells) /\ Len(x) \in Nat
  BY DEF Payloads
<1>2. x \in Seq(Cells)
  BY <1>1 DEF PayloadCells, Cells
<1>3. PICK u : u = LenCell(Len(x))
  OBVIOUS
<1>4. PICK v : v = SeqCell(s, x)
  OBVIOUS
<1>5. u \in Cells /\ v \in Cells
  BY <1>1, <1>3, <1>4 DEF Cells, LenCell, SeqCell
<1>6. <<u, v>> \in Seq(Cells) /\ Len(<<u, v>>) = 2 /\ <<u, v>>[1] = u /\ <<u, v>>[2] = v
  BY <1>5
<1>7. PICK h : h = <<u, v>>
  OBVIOUS
<1>8. /\ h \o x \in Seq(Cells) /\ Len(h \o x) = 2 + Len(x) /\ (h \o x)[1] = u /\ (h \o x)[2] = v
      /\ \A j \in 1 .. Len(x) : (h \o x)[2 + j] = x[j]
  BY <1>1, <1>2, <1>6, <1>7
<1>9. Encode(s, x) = h \o x
  BY <1>3, <1>4, <1>7 DEF Encode, LenCell, SeqCell
<1> QED
  BY <1>3, <1>4, <1>8, <1>9

\* A sequence is continued by another.
LEMMA ConcatFacts ==
  ASSUME NEW C, NEW s \in Seq(C), NEW t \in Seq(C)
  PROVE  /\ s \o t \in Seq(C) /\ Len(s \o t) = Len(s) + Len(t) /\ Len(s) \in Nat /\ Len(t) \in Nat
         /\ \A i \in 1 .. Len(s) : (s \o t)[i] = s[i]
         /\ \A i \in 1 .. Len(t) : (s \o t)[Len(s) + i] = t[i]
OBVIOUS

\* A value of a function is set.
LEMMA ExceptFacts ==
  ASSUME NEW C, NEW f \in [Nat -> C], NEW n \in Nat, NEW v \in C
  PROVE  /\ [f EXCEPT ![n] = v] \in [Nat -> C] /\ [f EXCEPT ![n] = v][n] = v
         /\ \A m \in Nat : m # n => [f EXCEPT ![n] = v][m] = f[m]
OBVIOUS

\* TE is T, which ends at b, and a frame with number s and payload x.
AddsFrame(TE, T, b, s, x) ==
  /\ TE \in Seq(Cells) /\ Len(TE) = b + 2 + Len(x)
  /\ \A i \in 1 .. b : TE[i] = T[i]
  /\ TE[b + 1] = LenCell(Len(x)) /\ TE[b + 2] = SeqCell(s, x)
  /\ \A j \in 1 .. Len(x) : TE[b + 2 + j] = x[j]

\* f2 is f with value v for n.
Sets(f2, f, n, v, C) ==
  f2 \in [Nat -> C] /\ f2[n] = v /\ \A m \in Nat : m # n => f2[m] = f[m]

\* A frame with payload x follows the first F.
MoreFramed(TE, T, pay2, pay, pos2, pos, num2, num, F, x) ==
  /\ AddsFrame(TE, T, pos[F], num[F], x)
  /\ Sets(pay2, pay, F, x, Payloads)
  /\ Sets(pos2, pos, F + 1, pos[F] + 2 + Len(x), Nat)
  /\ Sets(num2, num, F + 1, (num[F] + 1) % SeqMod, 0 .. SeqMod - 1)

\* A frame more.
LEMMA FramedMore ==
  ASSUME CodecAssumption, NEW T, NEW pay, NEW pos, NEW num, NEW F \in Nat,
         Framed(T, pay, pos, num, F), NEW x, x \in Payloads,
         NEW TE, NEW pay2, NEW pos2, NEW num2,
         MoreFramed(TE, T, pay2, pay, pos2, pos, num2, num, F, x)
  PROVE  Framed(TE, pay2, pos2, num2, F + 1)
<1>1. /\ FrameType(T, pay, pos, num, F) /\ FrameNums(num, F) /\ FrameEnds(pay, pos, F) /\ FrameOrder(pos, F)
      /\ FrameCells(T, pay, pos, num, F) /\ FrameCover(pos, F)
  BY DEF Framed
<1>2. /\ F \in Nat /\ pay \in [Nat -> Payloads] /\ pos \in [Nat -> Nat]
      /\ num \in [Nat -> 0 .. SeqMod - 1] /\ T \in Seq(Cells) /\ Len(T) = pos[F]
  BY <1>1 DEF FrameType
<1>3. PICK n \in Nat : n = Len(x)
  BY DEF Payloads
<1>4. PICK b \in Nat : b = pos[F]
  BY <1>2
<1>5. PICK s : s = num[F]
  OBVIOUS
<1>6. PICK r : r = (s + 1) % SeqMod
  OBVIOUS
<1>7. /\ AddsFrame(TE, T, b, s, x) /\ Sets(pos2, pos, F + 1, b + 2 + n, Nat)
      /\ Sets(num2, num, F + 1, r, 0 .. SeqMod - 1) /\ Sets(pay2, pay, F, x, Payloads)
  BY <1>3, <1>4, <1>5, <1>6 DEF MoreFramed
<1>8. /\ pay2 \in [Nat -> Payloads] /\ pos2 \in [Nat -> Nat] /\ num2 \in [Nat -> 0 .. SeqMod - 1]
      /\ pay2[F] = x /\ pos2[F + 1] = b + 2 + n /\ num2[F + 1] = r
      /\ \A f \in 0 .. F - 1 : pay2[f] = pay[f] /\ f \in 0 .. F /\ f + 1 \in 0 .. F
      /\ \A f \in 0 .. F : pos2[f] = pos[f] /\ num2[f] = num[f]
  <2>1. /\ pay2 \in [Nat -> Payloads] /\ pay2[F] = x /\ \A f \in Nat : f # F => pay2[f] = pay[f]
    BY <1>7 DEF Sets
  <2>2. /\ pos2 \in [Nat -> Nat] /\ pos2[F + 1] = b + 2 + n
        /\ \A f \in Nat : f # F + 1 => pos2[f] = pos[f]
    BY <1>7 DEF Sets
  <2>3. /\ num2 \in [Nat -> 0 .. SeqMod - 1] /\ num2[F + 1] = r
        /\ \A f \in Nat : f # F + 1 => num2[f] = num[f]
    BY <1>7 DEF Sets
  <2>4. /\ \A f \in 0 .. F - 1 : f \in Nat /\ f # F /\ f \in 0 .. F /\ f + 1 \in 0 .. F
        /\ \A f \in 0 .. F : f \in Nat /\ f # F + 1
    <3>1. F \in Nat
      BY <1>2
    <3> QED
      BY <3>1
  <2> QED
    BY <2>1, <2>2, <2>3, <2>4
<1>9. \A f \in 0 .. F : pos[f] \in Nat /\ pos[f] <= b
  <2> SUFFICES ASSUME NEW f \in 0 .. F PROVE pos[f] \in Nat /\ pos[f] <= b
    OBVIOUS
  <2>1. CASE f = F
    BY <1>4, <2>1
  <2>2. CASE f # F
    <3>1. f < F /\ F \in 0 .. F /\ F \in Nat
      BY <1>2, <2>2
    <3>2. pos[f] < pos[F]
      BY <1>1, <3>1 DEF FrameOrder
    <3>3. pos \in [Nat -> Nat]
      BY <1>2
    <3>4. pos[f] \in Nat
      BY <3>3
    <3> QED
      BY <1>4, <3>2, <3>4
  <2> QED
    BY <2>1, <2>2
<1>10. ASSUME NEW f \in 0 .. F
       PROVE  pos2[f + 1] = pos2[f] + 2 + Len(pay2[f]) /\ num2[f + 1] = (num2[f] + 1) % SeqMod
  <2>1. CASE f = F
    BY <1>3, <1>4, <1>5, <1>6, <1>8, <2>1
  <2>2. CASE f # F
    <3>1. f \in 0 .. F - 1
      BY <1>2, <2>2
    <3>2. pos[f + 1] = pos[f] + 2 + Len(pay[f]) /\ num[f + 1] = (num[f] + 1) % SeqMod
      BY <1>1, <3>1 DEF FrameEnds, FrameNums
    <3> QED
      BY <1>8, <3>1, <3>2
  <2> QED
    BY <2>1, <2>2
<1>11. ASSUME NEW f \in 0 .. F + 1, NEW h \in 0 .. F + 1, f < h PROVE pos2[f] < pos2[h]
  <2>1. f \in 0 .. F
    BY <1>2, <1>11
  <2>2. CASE h = F + 1
    <3>1. pos2[h] = b + 2 + n /\ pos2[f] \in Nat /\ pos2[f] <= b
      BY <1>8, <1>9, <2>1, <2>2
    <3> QED
      BY <3>1
  <2>3. CASE h # F + 1
    <3>1. h \in 0 .. F
      BY <1>2, <2>3
    <3>2. pos[f] < pos[h]
      BY <1>1, <1>11, <2>1, <3>1 DEF FrameOrder
    <3> QED
      BY <1>8, <2>1, <3>1, <3>2
  <2> QED
    BY <2>2, <2>3
<1>12. ASSUME NEW f \in 0 .. F
       PROVE  /\ TE[pos2[f] + 1] = LenCell(Len(pay2[f]))
              /\ TE[pos2[f] + 2] = SeqCell(num2[f], pay2[f])
              /\ \A j \in 1 .. Len(pay2[f]) : TE[pos2[f] + 2 + j] = pay2[f][j]
  <2>1. CASE f = F
    <3>1. pos2[f] = b /\ pay2[f] = x /\ num2[f] = s
      BY <1>2, <1>4, <1>5, <1>8, <2>1
    <3> QED
      BY <1>7, <3>1 DEF AddsFrame
  <2>2. CASE f # F
    <3>1. f \in 0 .. F - 1
      BY <1>2, <2>2
    <3>2. pos2[f] = pos[f] /\ pay2[f] = pay[f] /\ num2[f] = num[f]
      BY <1>8, <3>1
    <3>3. /\ T[pos[f] + 1] = LenCell(Len(pay[f])) /\ T[pos[f] + 2] = SeqCell(num[f], pay[f])
          /\ \A j \in 1 .. Len(pay[f]) : T[pos[f] + 2 + j] = pay[f][j]
      BY <1>1, <3>1 DEF FrameCells
    <3>4. pos[f + 1] = pos[f] + 2 + Len(pay[f])
      BY <1>1, <3>1 DEF FrameEnds
    <3>5. PICK l \in Nat : l = Len(pay[f])
      <4>1. pay[f] \in Payloads
        BY <1>2, <3>1
      <4> QED
        BY <4>1 DEF Payloads
    <3>6. PICK q \in Nat : q = pos[f]
      BY <1>9
    <3>7. q + 2 + l <= b
      <4>1. pos[f + 1] <= b
        BY <1>8, <1>9, <3>1
      <4> QED
        BY <3>4, <3>5, <3>6, <4>1
    <3>8. q + 1 \in 1 .. b /\ q + 2 \in 1 .. b /\ \A j \in 1 .. l : q + 2 + j \in 1 .. b
      BY <3>7
    <3>9. \A i \in 1 .. b : TE[i] = T[i]
      BY <1>7 DEF AddsFrame
    <3>10. /\ TE[q + 1] = T[q + 1] /\ TE[q + 2] = T[q + 2]
           /\ \A j \in 1 .. l : TE[q + 2 + j] = T[q + 2 + j]
      BY <3>8, <3>9
    <3> QED
      BY <3>2, <3>3, <3>5, <3>6, <3>10
  <2> QED
    BY <2>1, <2>2
<1>13. ASSUME NEW p \in 1 .. b + 2 + n PROVE \E f \in 0 .. F : pos2[f] < p /\ p <= pos2[f + 1]
  <2>1. CASE p > b
    <3>1. F \in 0 .. F /\ pos2[F] < p /\ p <= pos2[F + 1]
      BY <1>2, <1>4, <1>8, <2>1
    <3> QED
      BY <3>1
  <2>2. CASE ~(p > b)
    <3>1. p \in 1 .. pos[F]
      BY <1>4, <2>2
    <3>2. PICK f \in 0 .. F - 1 : pos[f] < p /\ p <= pos[f + 1]
      BY <1>1, <3>1 DEF FrameCover
    <3> QED
      BY <1>8, <3>2
  <2> QED
    BY <2>1, <2>2
<1>14. PICK K \in Nat : K = F + 1 /\ K - 1 = F
  BY <1>2
<1>15. TE \in Seq(Cells) /\ Len(TE) = pos2[K] /\ pos2[K] = b + 2 + n
  BY <1>3, <1>7, <1>8, <1>14 DEF AddsFrame
<1>16. FrameType(TE, pay2, pos2, num2, K) /\ FrameNums(num2, K)
  BY <1>8, <1>10, <1>14, <1>15 DEF FrameType, FrameNums
<1>17. FrameEnds(pay2, pos2, K) /\ FrameOrder(pos2, K)
  BY <1>10, <1>11, <1>14 DEF FrameEnds, FrameOrder
<1>18. FrameCells(TE, pay2, pos2, num2, K)
  BY <1>12, <1>14 DEF FrameCells
<1>19. FrameCover(pos2, K)
  BY <1>13, <1>14, <1>15 DEF FrameCover
<1> QED
  BY <1>14, <1>16, <1>17, <1>18, <1>19 DEF Framed

\* A frame is encoded behind T.
LEMMA EncodeAdds ==
  ASSUME NEW T \in Seq(Cells), NEW s \in Int, NEW x \in Payloads
  PROVE  AddsFrame(T \o Encode(s, x), T, Len(T), s, x)
<1>1. PICK n \in Nat : n = Len(x)
  BY DEF Payloads
<1>2. PICK b \in Nat : b = Len(T)
  OBVIOUS
<1>3. PICK E : E = Encode(s, x)
  OBVIOUS
<1>4. /\ E \in Seq(Cells) /\ Len(E) = 2 + n /\ E[1] = LenCell(n) /\ E[2] = SeqCell(s, x)
      /\ \A j \in 1 .. n : E[2 + j] = x[j]
  BY <1>1, <1>3, EncodeFacts
<1>5. PICK TE : TE = T \o E
  OBVIOUS
<1>6. /\ TE \in Seq(Cells) /\ Len(TE) = b + (2 + n) /\ \A i \in 1 .. b : TE[i] = T[i]
      /\ \A i \in 1 .. 2 + n : TE[b + i] = E[i]
  <2>1. /\ T \o E \in Seq(Cells) /\ Len(T \o E) = Len(T) + Len(E)
        /\ \A i \in 1 .. Len(T) : (T \o E)[i] = T[i]
        /\ \A i \in 1 .. Len(E) : (T \o E)[Len(T) + i] = E[i]
    <3>1. E \in Seq(Cells)
      BY <1>4
    <3> QED
      BY <3>1, ConcatFacts
  <2> QED
    BY <1>2, <1>4, <1>5, <2>1
<1>7. /\ 1 \in 1 .. 2 + n /\ 2 \in 1 .. 2 + n /\ b + (2 + n) = b + 2 + n
      /\ \A j \in 1 .. n : 2 + j \in 1 .. 2 + n /\ b + (2 + j) = b + 2 + j
  OBVIOUS
<1>8. /\ Len(TE) = b + 2 + n /\ TE[b + 1] = LenCell(n) /\ TE[b + 2] = SeqCell(s, x)
      /\ \A j \in 1 .. n : TE[b + 2 + j] = x[j]
  BY <1>4, <1>6, <1>7
<1> QED
  BY <1>1, <1>2, <1>3, <1>5, <1>6, <1>8 DEF AddsFrame

\* The next payload is encoded: positions and numbers of the others stay.
LEMMA FramedAppend ==
  ASSUME CodecAssumption, NEW T, NEW pay, NEW pos, NEW num, NEW F \in Nat,
         Framed(T, pay, pos, num, F), NEW x \in Payloads
  PROVE  \E pos2, num2 :
           /\ Framed(T \o Encode(num[F], x), [pay EXCEPT ![F] = x], pos2, num2, F + 1)
           /\ \A f \in 0 .. F : pos2[f] = pos[f] /\ num2[f] = num[f]
           /\ num2[F + 1] = (num[F] + 1) % SeqMod
<1>1. /\ pay \in [Nat -> Payloads] /\ pos \in [Nat -> Nat] /\ num \in [Nat -> 0 .. SeqMod - 1]
      /\ T \in Seq(Cells) /\ Len(T) = pos[F]
  BY DEF Framed, FrameType
<1>2. PICK n \in Nat : n = Len(x)
  BY DEF Payloads
<1>3. PICK b \in Nat : b = pos[F]
  BY <1>1
<1>4. PICK s \in 0 .. SeqMod - 1 : s = num[F]
  BY <1>1
<1>5. s \in Int /\ SeqMod \in Nat \ {0}
  BY DEF CodecAssumption
<1>6. PICK r \in 0 .. SeqMod - 1 : r = (s + 1) % SeqMod
  BY <1>5
<1>7. PICK E : E = Encode(s, x)
  OBVIOUS
<1>8. AddsFrame(T \o E, T, b, s, x)
  BY <1>1, <1>3, <1>5, <1>7, EncodeAdds
<1>9. PICK pay2 : pay2 = [pay EXCEPT ![F] = x]
  OBVIOUS
<1>10. Sets(pay2, pay, F, x, Payloads)
  BY <1>1, <1>9, ExceptFacts DEF Sets
<1>11. PICK K \in Nat : K = F + 1
  OBVIOUS
<1>12. PICK q \in Nat : q = b + 2 + n
  OBVIOUS
<1>13. PICK pos2 : pos2 = [pos EXCEPT ![K] = q]
  OBVIOUS
<1>14. Sets(pos2, pos, K, q, Nat)
  BY <1>1, <1>13, ExceptFacts DEF Sets
<1>15. PICK num2 : num2 = [num EXCEPT ![K] = r]
  OBVIOUS
<1>16. Sets(num2, num, K, r, 0 .. SeqMod - 1)
  BY <1>1, <1>15, ExceptFacts DEF Sets
<1>17. PICK TE : TE = T \o E
  OBVIOUS
<1>18. MoreFramed(TE, T, pay2, pay, pos2, pos, num2, num, F, x)
  BY <1>2, <1>3, <1>4, <1>6, <1>8, <1>10, <1>11, <1>12, <1>14, <1>16, <1>17 DEF MoreFramed
<1>19. Framed(TE, pay2, pos2, num2, F + 1)
  BY <1>18, FramedMore
<1>20. /\ \A f \in 0 .. F : pos2[f] = pos[f] /\ num2[f] = num[f]
       /\ num2[K] = r
  <2>1. \A f \in 0 .. F : f \in Nat /\ f # K
    BY <1>11
  <2> QED
    BY <1>14, <1>16, <2>1 DEF Sets
<1>21. Framed(T \o Encode(num[F], x), [pay EXCEPT ![F] = x], pos2, num2, F + 1)
  BY <1>4, <1>7, <1>9, <1>17, <1>19
<1>22. num2[F + 1] = (num[F] + 1) % SeqMod
  BY <1>4, <1>6, <1>11, <1>20
<1> QED
  BY <1>20, <1>21, <1>22
-----------------------------------------------------------------------------
(***************************************************************************)
(* What is left of it on its way, with one cell altered or one frame lost. *)
(***************************************************************************)

\* The position in T of cell i of what follows position c, when w cells behind
\* position g were lost.
Source(c, g, w, i) == IF c + i > g THEN c + i + w ELSE c + i

\* S holds the cells of T behind c, but for the lost ones, and with the one at
\* position a altered.
Carried(S, T, c, a, g, w) ==
  /\ S \in Seq(Cells) /\ c + Len(S) + w <= Len(T)
  /\ \A i \in 1 .. Len(S) :
       /\ c + i # a => S[i] = T[Source(c, g, w, i)]
       /\ c + i = a => S[i] \in Altered(T[Source(c, g, w, i)])

\* No more faults; the link is not lost to the sending task.
Faulty(flt) == flt >= MaxFaults
Alive(snd) == snd # "failed"

\* No fault, or a cell altered, or a frame lost.
Kind(c, a, g, w, pos, F, flt) ==
  \/ a = 0 /\ g = 0 /\ w = 0
  \/ Faulty(flt) /\ c < a /\ g = 0 /\ w = 0
  \/ Faulty(flt) /\ a = 0 /\ c <= g /\ \E k \in 0 .. F - 1 : g = pos[k] /\ w = pos[k + 1] - pos[k]

\* All of T is there.
Complete(S, T, c, a, g, w) ==
  c + Len(S) + w = Len(T) /\ a <= c + Len(S) /\ g <= c + Len(S)

Way(S, T, c, pos, F, snd, flt) ==
  \E a, g, w \in Nat :
    /\ Carried(S, T, c, a, g, w) /\ Kind(c, a, g, w, pos, F, flt)
    /\ Alive(snd) => Complete(S, T, c, a, g, w)

\* Fields of the cells of a header.
LEMMA CellFields ==
  /\ \A n : LenCell(n)[1] = "len" /\ LenCell(n)[2] = n
  /\ \A s, x : SeqCell(s, x)[1] = "seq" /\ SeqCell(s, x)[2] = s /\ SeqCell(s, x)[3] = x
BY DEF LenCell, SeqCell

\* An altered length is wrong.
LEMMA AlteredLen ==
  ASSUME NEW n \in Nat \ {0}, NEW u \in Altered(LenCell(n))
  PROVE  u \in Cells /\ u[2] \in Nat /\ u[2] # n
<1>1. u = <<"len", n + 1>> \/ u = <<"len", n - 1>>
  BY DEF Altered, LenCell
<1> QED
  BY <1>1 DEF Cells

\* The next number is another one.
LEMMA NextDiffers ==
  ASSUME CodecAssumption, NEW s \in 0 .. SeqMod - 1
  PROVE  (s + 1) % SeqMod \in 0 .. SeqMod - 1 /\ (s + 1) % SeqMod # s /\ s \in Nat
<1>1. SeqMod \in Nat /\ SeqMod > 1 /\ s \in Nat
  BY DEF CodecAssumption
<1>2. CASE s + 1 < SeqMod
  <2>1. (s + 1) % SeqMod = s + 1
    BY <1>1, <1>2
  <2> QED
    BY <1>1, <1>2, <2>1
<1>3. CASE ~(s + 1 < SeqMod)
  <2>1. s + 1 = SeqMod
    BY <1>1, <1>3
  <2>2. SeqMod % SeqMod = 0
    BY <1>1
  <2> QED
    BY <1>1, <2>1, <2>2
<1> QED
  BY <1>2, <1>3

\* An altered number is wrong, and an altered checksum is that of nothing.
LEMMA AlteredSeq ==
  ASSUME CodecAssumption, NEW s \in 0 .. SeqMod - 1, NEW x \in Seq(PayloadCells),
         NEW u \in Altered(SeqCell(s, x))
  PROVE  u \in Cells /\ (u[2] # s \/ u[3] = <<>>)
<1>1. PICK m \in 0 .. SeqMod - 1 : m = (s + 1) % SeqMod /\ m # s
  BY NextDiffers
<1>2. PICK e : e = <<>>
  OBVIOUS
<1>3. u = <<"seq", m, x>> \/ u = <<"seq", s, e>>
  BY <1>1, <1>2 DEF Altered, SeqCell
<1>4. e \in Seq(PayloadCells) /\ s \in Int /\ m \in Int
  BY <1>2 DEF CodecAssumption
<1>5. <<"seq", s, e>> \in Cells /\ <<"seq", s, e>>[3] = e
  BY <1>4 DEF Cells
<1>6. <<"seq", m, x>> \in Cells /\ <<"seq", m, x>>[2] = m
  BY <1>4 DEF Cells
<1> QED
  BY <1>1, <1>2, <1>3, <1>5, <1>6

\* An altered cell of a payload is another one.
LEMMA AlteredPayload ==
  ASSUME NEW v \in PayloadCells, NEW u \in Altered(v)
  PROVE  u \in Cells /\ u # v
<1>1. PICK t \in {"id", "byte"}, n \in Int \ {0} : v = <<t, n>>
  BY DEF PayloadCells
<1>2. v[1] # "len" /\ v[1] # "seq" /\ v[1] = t /\ v[2] = n
  BY <1>1
<1>3. u \in {<<v[1], 0>>}
  BY <1>2 DEF Altered
<1>4. u = <<t, 0>>
  BY <1>2, <1>3
<1>5. u[2] = 0
  BY <1>4
<1> QED
  BY <1>1, <1>2, <1>4, <1>5 DEF Cells

\* Positions in T.
LEMMA FrameFacts ==
  ASSUME NEW T, NEW pay, NEW pos, NEW num, NEW F, Framed(T, pay, pos, num, F)
  PROVE  /\ F \in Nat /\ T \in Seq(Cells) /\ Len(T) = pos[F]
         /\ \A f \in Nat : /\ pay[f] \in Payloads /\ pos[f] \in Nat /\ num[f] \in 0 .. SeqMod - 1
                           /\ pay[f] \in Seq(PayloadCells) /\ Len(pay[f]) \in Nat \ {0}
         /\ \A f \in 0 .. F : pos[f] <= pos[F]
         /\ \A f \in 0 .. F - 1 :
              /\ pos[f + 1] = pos[f] + 2 + Len(pay[f]) /\ pos[f] + 2 + Len(pay[f]) <= pos[F]
              /\ T[pos[f] + 1] = LenCell(Len(pay[f])) /\ T[pos[f] + 2] = SeqCell(num[f], pay[f])
              /\ \A j \in 1 .. Len(pay[f]) : T[pos[f] + 2 + j] = pay[f][j]
<1>1. /\ F \in Nat /\ pay \in [Nat -> Payloads] /\ pos \in [Nat -> Nat]
      /\ num \in [Nat -> 0 .. SeqMod - 1] /\ T \in Seq(Cells) /\ Len(T) = pos[F]
  BY DEF Framed, FrameType
<1>2. \A f \in Nat : pos[f] \in Nat
  <2>1. pos \in [Nat -> Nat]
    BY <1>1
  <2> QED
    BY <2>1
<1>3. \A f \in Nat : num[f] \in 0 .. SeqMod - 1
  <2>1. num \in [Nat -> 0 .. SeqMod - 1]
    BY <1>1
  <2> QED
    BY <2>1
<1>4. \A f \in Nat : /\ pay[f] \in Payloads /\ pay[f] \in Seq(PayloadCells)
                     /\ Len(pay[f]) \in Nat \ {0}
  <2>1. pay \in [Nat -> Payloads]
    BY <1>1
  <2>2. \A x \in Payloads : x \in Seq(PayloadCells) /\ Len(x) \in Nat \ {0}
    <3>1. \A x \in Seq(PayloadCells) : Len(x) \in Nat /\ (x # <<>> => Len(x) # 0)
      OBVIOUS
    <3> QED
      BY <3>1 DEF Payloads
  <2> QED
    BY <2>1, <2>2
<1>5. F \in Nat
  BY <1>1
<1>6. FrameOrder(pos, F) /\ FrameEnds(pay, pos, F) /\ FrameCells(T, pay, pos, num, F)
  BY DEF Framed
<1>7. \A f \in 0 .. F : pos[f] <= pos[F]
  <2> SUFFICES ASSUME NEW f \in 0 .. F PROVE pos[f] <= pos[F]
    OBVIOUS
  <2>1. CASE f = F
    BY <1>2, <1>5, <2>1
  <2>2. CASE f # F
    <3>1. f < F /\ F \in 0 .. F /\ f \in Nat
      BY <1>5, <2>2
    <3>2. pos[f] < pos[F] /\ pos[f] \in Nat /\ pos[F] \in Nat
      BY <1>2, <1>5, <1>6, <3>1 DEF FrameOrder
    <3> QED
      BY <3>2
  <2> QED
    BY <2>1, <2>2
<1>8. ASSUME NEW f \in 0 .. F - 1
      PROVE  pos[f + 1] = pos[f] + 2 + Len(pay[f]) /\ pos[f] + 2 + Len(pay[f]) <= pos[F]
  <2>1. pos[f + 1] = pos[f] + 2 + Len(pay[f])
    BY <1>6 DEF FrameEnds
  <2>2. f + 1 \in 0 .. F
    BY <1>5
  <2>3. pos[f + 1] <= pos[F]
    BY <1>7, <2>2
  <2> QED
    BY <2>1, <2>3
<1>9. \A f \in 0 .. F - 1 :
        /\ T[pos[f] + 1] = LenCell(Len(pay[f])) /\ T[pos[f] + 2] = SeqCell(num[f], pay[f])
        /\ \A j \in 1 .. Len(pay[f]) : T[pos[f] + 2 + j] = pay[f][j]
  BY <1>6 DEF FrameCells
<1> QED
  BY <1>1, <1>2, <1>3, <1>4, <1>7, <1>8, <1>9

\* Where a frame ends.
LEMMA FrameEnd ==
  ASSUME NEW T, NEW pay, NEW pos, NEW num, NEW F, Framed(T, pay, pos, num, F), NEW f \in 0 .. F - 1
  PROVE  pos[f + 1] = pos[f] + 2 + Len(pay[f])
BY DEF Framed, FrameEnds

\* The payload of a frame.
LEMMA FramePayload ==
  ASSUME NEW T, NEW pay, NEW pos, NEW num, NEW F, Framed(T, pay, pos, num, F), NEW f \in Nat
  PROVE  pay[f] \in Seq(PayloadCells) /\ Len(pay[f]) \in Nat \ {0}
BY FrameFacts

\* Frames that start at or behind a position.
LEMMA FrameAfter ==
  ASSUME NEW T, NEW pay, NEW pos, NEW num, NEW F \in Nat, Framed(T, pay, pos, num, F),
         NEW d \in 0 .. F, NEW k \in 0 .. F
  PROVE  /\ pos[d] <= pos[k] => d <= k
         /\ d < k => pos[d + 1] <= pos[k]
<1>1. FrameOrder(pos, F)
  BY DEF Framed
<1>2. \A f \in Nat : pos[f] \in Nat
  BY FrameFacts
<1>3. d \in Nat /\ k \in Nat /\ pos[d] \in Nat /\ pos[k] \in Nat
  BY <1>2
<1>4. k < d => pos[k] < pos[d]
  BY <1>1 DEF FrameOrder
<1>5. ASSUME d < k PROVE pos[d + 1] <= pos[k]
  <2>1. d + 1 \in 0 .. F
    BY <1>5
  <2>2. CASE d + 1 = k
    BY <1>3, <2>2
  <2>3. CASE d + 1 # k
    <3>1. d + 1 < k
      BY <1>5, <2>3
    <3>2. pos[d + 1] < pos[k] /\ pos[d + 1] \in Nat
      BY <1>1, <1>2, <2>1, <3>1 DEF FrameOrder
    <3> QED
      BY <1>3, <3>2
  <2> QED
    BY <2>2, <2>3
<1> QED
  BY <1>3, <1>4, <1>5

\* What is encoded is sent.
LEMMA WayAppend ==
  ASSUME NEW S, NEW T \in Seq(Cells), NEW c \in Nat, NEW pos, NEW pos2, NEW F \in Nat, NEW snd, NEW flt,
         Alive(snd), Way(S, T, c, pos, F, snd, flt), NEW E \in Seq(Cells),
         \A f \in 0 .. F : pos2[f] = pos[f]
  PROVE  Way(S \o E, T \o E, c, pos2, F + 1, snd, flt)
<1>1. PICK a \in Nat, g \in Nat, w \in Nat :
        /\ Carried(S, T, c, a, g, w) /\ Kind(c, a, g, w, pos, F, flt)
        /\ Complete(S, T, c, a, g, w)
  BY DEF Way
<1>2. /\ S \in Seq(Cells)
      /\ \A i \in 1 .. Len(S) : /\ c + i # a => S[i] = T[Source(c, g, w, i)]
                                /\ c + i = a => S[i] \in Altered(T[Source(c, g, w, i)])
  BY <1>1 DEF Carried
<1>3. PICK n \in Nat : n = Len(S)
  BY <1>2
<1>4. PICK t \in Nat : t = Len(T)
  OBVIOUS
<1>5. PICK e \in Nat : e = Len(E)
  OBVIOUS
<1>6. c + n + w = t /\ a <= c + n /\ g <= c + n
  BY <1>1, <1>3, <1>4 DEF Complete
<1>7. PICK SE : SE = S \o E
  OBVIOUS
<1>8. PICK TE : TE = T \o E
  OBVIOUS
<1>9. /\ SE \in Seq(Cells) /\ Len(SE) = n + e /\ \A i \in 1 .. n : SE[i] = S[i]
      /\ \A j \in 1 .. e : SE[n + j] = E[j]
  BY <1>2, <1>3, <1>5, <1>7, ConcatFacts
<1>10. /\ TE \in Seq(Cells) /\ Len(TE) = t + e /\ \A i \in 1 .. t : TE[i] = T[i]
       /\ \A j \in 1 .. e : TE[t + j] = E[j]
  BY <1>4, <1>5, <1>8, ConcatFacts
<1>11. ASSUME NEW i \in 1 .. n + e
       PROVE  /\ c + i # a => SE[i] = TE[Source(c, g, w, i)]
              /\ c + i = a => SE[i] \in Altered(TE[Source(c, g, w, i)])
  <2>1. CASE i <= n
    <3>1. i \in 1 .. n /\ Source(c, g, w, i) \in 1 .. t
      BY <1>6, <2>1 DEF Source
    <3>2. SE[i] = S[i] /\ TE[Source(c, g, w, i)] = T[Source(c, g, w, i)]
      BY <1>9, <1>10, <3>1
    <3> QED
      BY <1>2, <1>3, <3>1, <3>2
  <2>2. CASE ~(i <= n)
    <3>1. PICK j \in 1 .. e : i = n + j
      <4>1. i - n \in 1 .. e /\ i = n + (i - n)
        BY <2>2
      <4> QED
        BY <4>1
    <3>2. c + i # a /\ Source(c, g, w, i) = t + j
      BY <1>6, <3>1 DEF Source
    <3>3. SE[n + j] = E[j] /\ TE[t + j] = E[j]
      BY <1>9, <1>10
    <3> QED
      BY <3>1, <3>2, <3>3
  <2> QED
    BY <2>1, <2>2
<1>12. c + (n + e) + w = t + e /\ a <= c + (n + e) /\ g <= c + (n + e)
  BY <1>6
<1>13. Carried(SE, TE, c, a, g, w)
  BY <1>9, <1>10, <1>11, <1>12 DEF Carried
<1>14. Complete(SE, TE, c, a, g, w)
  BY <1>9, <1>10, <1>12 DEF Complete
<1>15. Kind(c, a, g, w, pos2, F + 1, flt)
  <2>1. \A k \in 0 .. F - 1 : k \in 0 .. F + 1 - 1 /\ pos2[k] = pos[k] /\ pos2[k + 1] = pos[k + 1]
    OBVIOUS
  <2>2. Kind(c, a, g, w, pos, F, flt)
    BY <1>1
  <2>3. ASSUME NEW k \in 0 .. F - 1, g = pos[k], w = pos[k + 1] - pos[k]
        PROVE  \E h \in 0 .. F + 1 - 1 : g = pos2[h] /\ w = pos2[h + 1] - pos2[h]
    BY <2>1, <2>3
  <2> QED
    BY <2>2, <2>3 DEF Kind
<1> QED
  BY <1>7, <1>8, <1>13, <1>14, <1>15 DEF Way

\* What was not sent is dropped.
LEMMA WayCut ==
  ASSUME NEW S, NEW T \in Seq(Cells), NEW c \in Nat, NEW pos, NEW F \in Nat, NEW snd, NEW flt,
         Way(S, T, c, pos, F, snd, flt),
         NEW snd2, ~Alive(snd2), NEW S2 \in Seq(Cells), Len(S2) <= Len(S), \A i \in 1 .. Len(S2) : S2[i] = S[i]
  PROVE  Way(S2, T, c, pos, F, snd2, flt)
<1>1. PICK a \in Nat, g \in Nat, w \in Nat :
        Carried(S, T, c, a, g, w) /\ Kind(c, a, g, w, pos, F, flt)
  BY DEF Way
<1>2. /\ S \in Seq(Cells) /\ c + Len(S) + w <= Len(T)
      /\ \A i \in 1 .. Len(S) : /\ c + i # a => S[i] = T[Source(c, g, w, i)]
                                /\ c + i = a => S[i] \in Altered(T[Source(c, g, w, i)])
  BY <1>1 DEF Carried
<1>3. Len(S2) \in Nat /\ Len(S) \in Nat /\ Len(T) \in Nat
  BY <1>2
<1>4. \A i \in 1 .. Len(S2) : i \in 1 .. Len(S)
  BY <1>3
<1>5. c + Len(S2) + w <= Len(T)
  BY <1>2, <1>3
<1>6. Carried(S2, T, c, a, g, w)
  BY <1>2, <1>4, <1>5 DEF Carried
<1> QED
  BY <1>1, <1>6 DEF Way

\* The first n cells of a sequence are taken.
LEMMA DropFacts ==
  ASSUME NEW C, NEW s \in Seq(C), NEW n \in 0 .. Len(s)
  PROVE  /\ SubSeq(s, n + 1, Len(s)) \in Seq(C) /\ Len(SubSeq(s, n + 1, Len(s))) = Len(s) - n
         /\ \A i \in 1 .. Len(s) - n : SubSeq(s, n + 1, Len(s))[i] = s[n + i]
OBVIOUS

\* Cells are consumed: the fault is behind them.
LEMMA WayDrop ==
  ASSUME NEW S, NEW T \in Seq(Cells), NEW c \in Nat, NEW pos, NEW F \in Nat, NEW snd, NEW flt,
         NEW a \in Nat, NEW g \in Nat, NEW w \in Nat,
         Carried(S, T, c, a, g, w), Kind(c, a, g, w, pos, F, flt),
         Alive(snd) => Complete(S, T, c, a, g, w),
         NEW n \in Nat, n <= Len(S),
         (a = 0 /\ g = 0 /\ w = 0) \/ c + n < a \/ (a = 0 /\ c + n <= g)
  PROVE  Way(SubSeq(S, n + 1, Len(S)), T, c + n, pos, F, snd, flt)
<1>1. /\ S \in Seq(Cells) /\ c + Len(S) + w <= Len(T)
      /\ \A i \in 1 .. Len(S) : /\ c + i # a => S[i] = T[Source(c, g, w, i)]
                                /\ c + i = a => S[i] \in Altered(T[Source(c, g, w, i)])
  BY DEF Carried
<1>2. PICK l \in Nat : l = Len(S)
  BY <1>1
<1>3. PICK R : R = SubSeq(S, n + 1, Len(S))
  OBVIOUS
<1>4. /\ R \in Seq(Cells) /\ Len(R) = l - n /\ \A i \in 1 .. l - n : R[i] = S[n + i]
  <2>1. n \in 0 .. Len(S)
    BY <1>2
  <2> QED
    BY <1>1, <1>2, <1>3, <2>1, DropFacts
<1>5. PICK b \in Nat : b = c + n
  OBVIOUS
<1>6. ASSUME NEW i \in 1 .. l - n
      PROVE  /\ b + i # a => R[i] = T[Source(b, g, w, i)]
             /\ b + i = a => R[i] \in Altered(T[Source(b, g, w, i)])
  <2>1. PICK k \in 1 .. l : k = n + i
    BY <1>2
  <2>2. c + k = b + i
    BY <1>5, <2>1
  <2>3. Source(c, g, w, k) = Source(b, g, w, i)
    BY <2>2 DEF Source
  <2>4. /\ c + k # a => S[k] = T[Source(c, g, w, k)]
        /\ c + k = a => S[k] \in Altered(T[Source(c, g, w, k)])
    BY <1>1, <1>2
  <2>5. R[i] = S[k]
    BY <1>4, <2>1
  <2> QED
    BY <2>2, <2>3, <2>4, <2>5
<1>7. b + (l - n) = c + l /\ l - n \in Nat
  BY <1>2, <1>5
<1>8. Carried(R, T, b, a, g, w)
  BY <1>1, <1>2, <1>4, <1>6, <1>7 DEF Carried
<1>9. Alive(snd) => Complete(R, T, b, a, g, w)
  BY <1>2, <1>4, <1>7 DEF Complete
<1>10. Kind(b, a, g, w, pos, F, flt)
  <2>1. (a = 0 /\ g = 0 /\ w = 0) \/ b < a \/ (a = 0 /\ b <= g)
    BY <1>5
  <2>2. CASE a = 0 /\ g = 0 /\ w = 0
    BY <2>2 DEF Kind
  <2>3. CASE Faulty(flt) /\ c < a /\ g = 0 /\ w = 0
    <3>1. b < a
      BY <2>1, <2>3
    <3> QED
      BY <2>3, <3>1 DEF Kind
  <2>4. CASE /\ Faulty(flt) /\ a = 0 /\ c <= g
             /\ \E k \in 0 .. F - 1 : g = pos[k] /\ w = pos[k + 1] - pos[k]
    <3>1. (g = 0 /\ w = 0) \/ b <= g
      BY <2>1, <2>4
    <3> QED
      BY <2>4, <3>1 DEF Kind
  <2> QED
    BY <2>2, <2>3, <2>4 DEF Kind
<1> QED
  BY <1>3, <1>5, <1>8, <1>9, <1>10 DEF Way
-----------------------------------------------------------------------------
(***************************************************************************)
(* What the decoder makes of it: a header that passes is that of the next  *)
(* frame or has a length that its checksum does not fit.                   *)
(***************************************************************************)

\* A header that cannot pass: the payload it announces is not as long as the
\* one its checksum is of.
BadHeader(n, x) == n \in Nat /\ n # Len(x)

\* The header of frame d is next, or one that cannot pass.
HeaderNext(S, T, pay, pos, num, F, d, snd, flt) ==
  /\ d < F
  /\ \/ /\ S[1] = LenCell(Len(pay[d])) /\ S[2] = SeqCell(num[d], pay[d])
        /\ Way(SubSeq(S, 3, Len(S)), T, pos[d] + 2, pos, F, snd, flt)
     \/ Faulty(flt) /\ BadHeader(S[1][2], S[2][3])

\* The next header that is accepted is that of frame d, or cannot pass.
LEMMA HeaderDecoded ==
  ASSUME CodecAssumption, NEW T, NEW pay, NEW pos, NEW num, NEW F \in Nat,
         Framed(T, pay, pos, num, F), NEW d \in 0 .. F, NEW S, NEW snd, NEW flt,
         Way(S, T, pos[d], pos, F, snd, flt), Len(S) >= 2, S[2][2] = num[d]
  PROVE  HeaderNext(S, T, pay, pos, num, F, d, snd, flt)
<1> SUFFICES /\ d < F
             /\ \/ /\ S[1] = LenCell(Len(pay[d])) /\ S[2] = SeqCell(num[d], pay[d])
                   /\ Way(SubSeq(S, 3, Len(S)), T, pos[d] + 2, pos, F, snd, flt)
                \/ Faulty(flt) /\ BadHeader(S[1][2], S[2][3])
  BY DEF HeaderNext
<1>1. T \in Seq(Cells) /\ Len(T) = pos[F] /\ pos[F] \in Nat
  BY FrameFacts
<1>2. PICK c \in Nat : c = pos[d]
  BY FrameFacts
<1>3. PICK a \in Nat, g \in Nat, w \in Nat :
        /\ Carried(S, T, c, a, g, w) /\ Kind(c, a, g, w, pos, F, flt)
        /\ Alive(snd) => Complete(S, T, c, a, g, w)
  BY <1>2 DEF Way
<1>4. /\ S \in Seq(Cells) /\ c + Len(S) + w <= Len(T)
      /\ \A i \in 1 .. Len(S) : /\ c + i # a => S[i] = T[Source(c, g, w, i)]
                                /\ c + i = a => S[i] \in Altered(T[Source(c, g, w, i)])
  BY <1>3 DEF Carried
<1>5. PICK l \in Nat : l = Len(S) /\ l >= 2 /\ 1 \in 1 .. l /\ 2 \in 1 .. l
  BY <1>4
<1>6. c + l + w <= pos[F]
  BY <1>1, <1>4, <1>5
<1>7. d < F
  <2>1. CASE d = F
    BY <1>1, <1>2, <1>5, <1>6, <2>1
  <2> QED
    BY <2>1
<1>8. PICK n \in Nat \ {0} : n = Len(pay[d])
  BY FrameFacts
<1>9. /\ pay[d] \in Seq(PayloadCells) /\ num[d] \in 0 .. SeqMod - 1
      /\ T[c + 1] = LenCell(n) /\ T[c + 2] = SeqCell(num[d], pay[d])
  <2>1. d \in 0 .. F - 1 /\ d \in Nat
    BY <1>7
  <2> QED
    BY <1>2, <1>8, <2>1, FrameFacts
<1>10. /\ c + 1 # a => S[1] = T[Source(c, g, w, 1)]
       /\ c + 1 = a => S[1] \in Altered(T[Source(c, g, w, 1)])
       /\ c + 2 # a => S[2] = T[Source(c, g, w, 2)]
       /\ c + 2 = a => S[2] \in Altered(T[Source(c, g, w, 2)])
  BY <1>4, <1>5
\* The header is intact.
<1>11. ASSUME (a = 0 /\ g = 0 /\ w = 0) \/ c + 2 < a \/ (a = 0 /\ c + 2 <= g),
              Source(c, g, w, 1) = c + 1, Source(c, g, w, 2) = c + 2
       PROVE  /\ S[1] = LenCell(n) /\ S[2] = SeqCell(num[d], pay[d])
              /\ Way(SubSeq(S, 3, Len(S)), T, c + 2, pos, F, snd, flt)
  <2>1. c + 1 # a /\ c + 2 # a
    BY <1>11
  <2>2. S[1] = LenCell(n) /\ S[2] = SeqCell(num[d], pay[d])
    BY <1>9, <1>10, <1>11, <2>1
  <2>3. Way(SubSeq(S, 2 + 1, Len(S)), T, c + 2, pos, F, snd, flt)
    BY <1>1, <1>3, <1>5, <1>11, WayDrop
  <2>4. 2 + 1 = 3
    OBVIOUS
  <2> QED
    BY <2>2, <2>3, <2>4
<1>12. CASE a = 0 /\ g = 0 /\ w = 0
  <2>1. Source(c, g, w, 1) = c + 1 /\ Source(c, g, w, 2) = c + 2
    BY <1>12 DEF Source
  <2> QED
    BY <1>2, <1>7, <1>8, <1>11, <1>12, <2>1
<1>13. CASE Faulty(flt) /\ c < a /\ g = 0 /\ w = 0
  <2>1. Source(c, g, w, 1) = c + 1 /\ Source(c, g, w, 2) = c + 2
    BY <1>13 DEF Source
  <2>2. CASE a = c + 1
    <3>1. S[1] \in Altered(LenCell(n)) /\ S[2] = SeqCell(num[d], pay[d])
      BY <1>9, <1>10, <2>1, <2>2
    <3>2. S[1][2] \in Nat /\ S[1][2] # n /\ S[2][3] = pay[d]
      BY <3>1, AlteredLen, CellFields
    <3>3. BadHeader(S[1][2], S[2][3])
      BY <1>8, <3>2 DEF BadHeader
    <3> QED
      BY <1>7, <1>13, <3>3
  <2>3. CASE a = c + 2
    <3>1. S[1] = LenCell(n) /\ S[2] \in Altered(SeqCell(num[d], pay[d]))
      BY <1>9, <1>10, <2>1, <2>3
    <3>2. S[2][3] = <<>> /\ S[1][2] = n
      BY <1>9, <3>1, AlteredSeq, CellFields
    <3>3. Len(<<>>) = 0
      OBVIOUS
    <3>4. BadHeader(S[1][2], S[2][3])
      BY <3>2, <3>3 DEF BadHeader
    <3> QED
      BY <1>7, <1>13, <3>4
  <2>4. CASE a # c + 1 /\ a # c + 2
    <3>1. c + 2 < a
      BY <1>13, <2>4
    <3> QED
      BY <1>2, <1>7, <1>8, <1>11, <2>1, <3>1
  <2> QED
    BY <2>2, <2>3, <2>4
<1>14. CASE /\ Faulty(flt) /\ a = 0 /\ c <= g
            /\ \E k \in 0 .. F - 1 : g = pos[k] /\ w = pos[k + 1] - pos[k]
  <2>1. PICK k \in 0 .. F - 1 : g = pos[k] /\ w = pos[k + 1] - pos[k]
    BY <1>14
  <2>2. k \in 0 .. F /\ k \in Nat /\ k + 1 \in 0 .. F /\ d \in Nat
    OBVIOUS
  <2>3. d <= k
    <3>1. pos[d] <= pos[k]
      BY <1>2, <1>14, <2>1
    <3> QED
      BY <2>2, <3>1, FrameAfter
  <2>4. CASE k = d
    <3>1. PICK p \in Nat : p = pos[d + 1]
      <4>1. d + 1 \in Nat
        BY <2>2
      <4> QED
        BY FrameFacts
    <3>2. g = c /\ w = p - c
      BY <1>2, <2>1, <2>4, <3>1
    <3>3. p + 2 <= pos[F]
      <4>1. PICK q \in Nat : q = pos[F]
        BY <1>1
      <4>2. c + l + (p - c) <= q
        BY <1>6, <3>2, <4>1
      <4>3. p + 2 <= q
        BY <1>5, <4>2
      <4> QED
        BY <4>1, <4>3
    <3>4. d + 1 # F
      BY <1>1, <3>1, <3>3
    <3>5. d + 1 \in 0 .. F - 1 /\ d \in 0 .. F - 1
      BY <1>7, <3>4
    <3>6. T[p + 2] = SeqCell(num[d + 1], pay[d + 1])
      <4>1. PICK e \in 0 .. F - 1 : e = d + 1
        BY <3>5
      <4>2. T[pos[e] + 2] = SeqCell(num[e], pay[e])
        BY FrameFacts
      <4> QED
        BY <3>1, <4>1, <4>2
    <3>7. Source(c, g, w, 2) = p + 2 /\ c + 2 # a
      <4>1. c + 2 # a
        BY <1>14
      <4>2. c + 2 > g /\ c + 2 + w = p + 2
        BY <3>2
      <4> QED
        BY <4>1, <4>2 DEF Source
    <3>8. S[2][2] = num[d + 1]
      <4>1. S[2] = T[Source(c, g, w, 2)]
        BY <1>10, <3>7
      <4>2. S[2] = SeqCell(num[d + 1], pay[d + 1])
        BY <3>6, <3>7, <4>1
      <4> QED
        BY <4>2, CellFields
    <3>9. num[d + 1] = (num[d] + 1) % SeqMod
      <4>1. FrameNums(num, F)
        BY DEF Framed
      <4> QED
        BY <3>5, <4>1 DEF FrameNums
    <3>10. num[d] \in 0 .. SeqMod - 1
      BY <1>9
    <3> QED
      BY <3>8, <3>9, <3>10, NextDiffers
  <2>5. CASE k # d
    <3>1. d < k
      BY <2>2, <2>3, <2>5
    <3>2. pos[d + 1] <= pos[k]
      BY <2>2, <3>1, FrameAfter
    <3>3. pos[d + 1] = c + 2 + n
      <4>1. d \in 0 .. F - 1
        BY <1>7
      <4>2. pos[d + 1] = pos[d] + 2 + Len(pay[d])
        BY <4>1, FrameEnd
      <4> QED
        BY <1>2, <1>8, <4>2
    <3>4. c + 2 <= g
      BY <2>1, <3>2, <3>3
    <3>5. Source(c, g, w, 1) = c + 1 /\ Source(c, g, w, 2) = c + 2
      BY <3>4 DEF Source
    <3> QED
      BY <1>2, <1>7, <1>8, <1>11, <1>14, <3>4, <3>5
  <2> QED
    BY <2>4, <2>5
<1> QED
  BY <1>3, <1>12, <1>13, <1>14 DEF Kind

\* A payload that passes the checksum is that of frame d.
LEMMA PayloadDecoded ==
  ASSUME NEW T, NEW pay, NEW pos, NEW num, NEW F \in Nat,
         Framed(T, pay, pos, num, F), NEW d \in 0 .. F - 1, NEW S, NEW snd, NEW flt,
         Way(S, T, pos[d] + 2, pos, F, snd, flt),
         NEW n, n = Len(pay[d]), n <= Len(S), \A j \in 1 .. n : S[j] = pay[d][j]
  PROVE  Way(SubSeq(S, n + 1, Len(S)), T, pos[d + 1], pos, F, snd, flt)
<1>1. T \in Seq(Cells) /\ n \in Nat \ {0} /\ pay[d] \in Seq(PayloadCells)
  <2>1. T \in Seq(Cells)
    BY FrameFacts
  <2>2. d \in Nat
    OBVIOUS
  <2>3. pay[d] \in Seq(PayloadCells) /\ Len(pay[d]) \in Nat \ {0}
    BY <2>2, FramePayload
  <2> QED
    BY <2>1, <2>3
<1>2. PICK c \in Nat : c = pos[d] + 2
  BY FrameFacts
<1>3. /\ pos[d + 1] = c + n /\ \A j \in 1 .. n : T[c + j] = pay[d][j]
  BY <1>2, FrameFacts
<1>4. PICK a \in Nat, g \in Nat, w \in Nat :
        /\ Carried(S, T, c, a, g, w) /\ Kind(c, a, g, w, pos, F, flt)
        /\ Alive(snd) => Complete(S, T, c, a, g, w)
  BY <1>2 DEF Way
<1>5. /\ S \in Seq(Cells)
      /\ \A i \in 1 .. Len(S) : /\ c + i # a => S[i] = T[Source(c, g, w, i)]
                                /\ c + i = a => S[i] \in Altered(T[Source(c, g, w, i)])
  BY <1>4 DEF Carried
<1>6. (a = 0 /\ g = 0 /\ w = 0) \/ c + n < a \/ (a = 0 /\ c + n <= g)
  <2>1. CASE a = 0 /\ g = 0 /\ w = 0
    BY <2>1
  <2>2. CASE Faulty(flt) /\ c < a /\ g = 0 /\ w = 0
    <3> SUFFICES ASSUME ~(c + n < a) PROVE FALSE
      OBVIOUS
    <3>1. PICK j \in 1 .. n : c + j = a
      <4>1. a - c \in 1 .. n /\ c + (a - c) = a
        BY <1>1, <2>2
      <4> QED
        BY <4>1
    <3>2. j \in 1 .. Len(S)
      BY <1>1, <1>5
    <3>3. Source(c, g, w, j) = c + j
      BY <2>2 DEF Source
    <3>4. S[j] \in Altered(pay[d][j])
      BY <1>3, <1>5, <3>1, <3>2, <3>3
    <3>5. pay[d][j] \in PayloadCells
      BY <1>1
    <3>6. S[j] # pay[d][j]
      BY <3>4, <3>5, AlteredPayload
    <3> QED
      BY <3>6
  <2>3. CASE /\ Faulty(flt) /\ a = 0 /\ c <= g
             /\ \E k \in 0 .. F - 1 : g = pos[k] /\ w = pos[k + 1] - pos[k]
    <3>1. PICK k \in 0 .. F - 1 : g = pos[k]
      BY <2>3
    <3>2. k \in 0 .. F /\ d \in 0 .. F /\ k \in Nat /\ d \in Nat /\ pos[d] \in Nat
      BY FrameFacts
    <3>3. d <= k
      <4>1. pos[d] <= pos[k]
        BY <1>2, <2>3, <3>1, <3>2
      <4> QED
        BY <3>2, <4>1, FrameAfter
    <3>4. k # d
      BY <1>2, <2>3, <3>1, <3>2
    <3>5. pos[d + 1] <= pos[k]
      BY <3>2, <3>3, <3>4, FrameAfter
    <3> QED
      BY <1>3, <2>3, <3>1, <3>5
  <2> QED
    BY <1>4, <2>1, <2>2, <2>3 DEF Kind
<1> QED
  BY <1>1, <1>3, <1>4, <1>6, WayDrop

\* What the cells of T are.
LEMMA CellKinds ==
  ASSUME NEW T, NEW pay, NEW pos, NEW num, NEW F \in Nat, Framed(T, pay, pos, num, F),
         NEW p \in 1 .. Len(T)
  PROVE  \/ \E f \in 0 .. F - 1 : p = pos[f] + 1 /\ T[p] = LenCell(Len(pay[f]))
         \/ \E f \in 0 .. F - 1 : T[p] = SeqCell(num[f], pay[f])
         \/ T[p] \in PayloadCells
<1>1. PICK f \in 0 .. F - 1 : pos[f] < p /\ p <= pos[f + 1]
  <2>1. FrameCover(pos, F) /\ Len(T) = pos[F]
    BY FrameFacts DEF Framed
  <2> QED
    BY <2>1 DEF FrameCover
<1>2. PICK b \in Nat : b = pos[f]
  BY FrameFacts
<1>3. PICK n \in Nat : n = Len(pay[f]) /\ pay[f] \in Seq(PayloadCells)
  BY FrameFacts
<1>4. /\ p <= b + 2 + n /\ b < p /\ p \in Nat
      /\ T[b + 1] = LenCell(n) /\ T[b + 2] = SeqCell(num[f], pay[f])
      /\ \A j \in 1 .. n : T[b + 2 + j] = pay[f][j]
  <2>1. pos[f + 1] = b + 2 + n
    BY <1>2, <1>3, FrameFacts
  <2>2. /\ T[b + 1] = LenCell(n) /\ T[b + 2] = SeqCell(num[f], pay[f])
        /\ \A j \in 1 .. n : T[b + 2 + j] = pay[f][j]
    BY <1>2, <1>3, FrameFacts
  <2> QED
    BY <1>1, <1>2, <2>1, <2>2
<1>5. CASE p = b + 1
  BY <1>2, <1>3, <1>4, <1>5
<1>6. CASE p = b + 2
  BY <1>4, <1>6
<1>7. CASE p # b + 1 /\ p # b + 2
  <2>1. PICK j \in 1 .. n : p = b + 2 + j
    <3>1. p - b - 2 \in 1 .. n /\ p = b + 2 + (p - b - 2)
      BY <1>4, <1>7
    <3> QED
      BY <3>1
  <2>2. pay[f][j] \in PayloadCells
    BY <1>3
  <2> QED
    BY <1>4, <2>1, <2>2
<1> QED
  BY <1>5, <1>6, <1>7

\* The empty sequence is one of any kind.
LEMMA NothingFacts ==
  ASSUME NEW C
  PROVE  <<>> \in Seq(C)
OBVIOUS

\* An altered cell is a cell.
LEMMA AlteredCell ==
  ASSUME CodecAssumption, NEW v \in Cells, NEW u \in Altered(v)
  PROVE  u \in Cells
<1>1. CASE v \in {"len"} \X Int
  <2>1. PICK n \in Int : v = <<"len", n>>
    BY <1>1
  <2>2. u = <<"len", n + 1>> \/ u = <<"len", n - 1>>
    BY <2>1 DEF Altered
  <2> QED
    BY <2>2 DEF Cells
<1>2. CASE v \in {"seq"} \X Int \X Seq(PayloadCells)
  <2>1. PICK s \in Int, x \in Seq(PayloadCells) : v = <<"seq", s, x>>
    BY <1>2
  <2>2. PICK m \in Int : m = (s + 1) % SeqMod
    <3>1. SeqMod \in Nat /\ SeqMod > 0
      BY DEF CodecAssumption
    <3>2. PICK z \in Int : z = s + 1
      OBVIOUS
    <3>3. z % SeqMod \in Int
      BY <3>1
    <3> QED
      BY <3>2, <3>3
  <2>3. PICK e \in Seq(PayloadCells) : e = <<>>
    BY NothingFacts
  <2>4. u = <<"seq", m, x>> \/ u = <<"seq", s, e>>
    BY <2>1, <2>2, <2>3 DEF Altered
  <2> QED
    BY <2>4 DEF Cells
<1>3. CASE v \in {"id", "byte"} \X Int
  <2>1. PICK t \in {"id", "byte"}, n \in Int : v = <<t, n>>
    BY <1>3
  <2>2. v[1] # "len" /\ v[1] # "seq" /\ v[1] = t
    BY <2>1
  <2>3. u \in {<<v[1], 0>>}
    BY <2>2 DEF Altered
  <2>4. u = <<t, 0>>
    BY <2>2, <2>3
  <2> QED
    BY <2>4 DEF Cells
<1> QED
  BY <1>1, <1>2, <1>3 DEF Cells

\* Without a fault, S is a part of T.
LEMMA WayIntact ==
  ASSUME NEW S, NEW T \in Seq(Cells), NEW c \in Nat, NEW pos, NEW F \in Nat, NEW snd, NEW flt,
         ~Faulty(flt), Way(S, T, c, pos, F, snd, flt)
  PROVE  /\ S \in Seq(Cells) /\ c + Len(S) <= Len(T) /\ \A i \in 1 .. Len(S) : S[i] = T[c + i]
         /\ Alive(snd) => c + Len(S) = Len(T)
<1>1. PICK a \in Nat, g \in Nat, w \in Nat :
        /\ Carried(S, T, c, a, g, w) /\ Kind(c, a, g, w, pos, F, flt)
        /\ Alive(snd) => Complete(S, T, c, a, g, w)
  BY DEF Way
<1>2. a = 0 /\ g = 0 /\ w = 0
  BY <1>1 DEF Kind
<1>3. /\ S \in Seq(Cells) /\ c + Len(S) + 0 <= Len(T)
      /\ \A i \in 1 .. Len(S) : c + i # 0 => S[i] = T[Source(c, 0, 0, i)]
  BY <1>1, <1>2 DEF Carried
<1>4. Len(S) \in Nat /\ \A i \in 1 .. Len(S) : c + i # 0 /\ Source(c, 0, 0, i) = c + i
  BY <1>3 DEF Source
<1>5. ASSUME Alive(snd) PROVE c + Len(S) = Len(T)
  <2>1. c + Len(S) + 0 = Len(T)
    BY <1>1, <1>2, <1>5 DEF Complete
  <2> QED
    BY <1>4, <2>1
<1>6. c + Len(S) + 0 = c + Len(S)
  BY <1>4
<1>7. \A i \in 1 .. Len(S) : S[i] = T[c + i]
  BY <1>3, <1>4
<1> QED
  BY <1>3, <1>5, <1>6, <1>7

\* A cell on its way is altered.
LEMMA WayAltered ==
  ASSUME NEW S, NEW T \in Seq(Cells), NEW c \in Nat, NEW pos, NEW F \in Nat, NEW snd, NEW flt,
         ~Faulty(flt), Way(S, T, c, pos, F, snd, flt), NEW k \in 1 .. Len(S),
         NEW flt2, Faulty(flt2), NEW S2 \in Seq(Cells), Len(S2) = Len(S), S2[k] \in Altered(S[k]),
         \A i \in 1 .. Len(S) : i # k => S2[i] = S[i]
  PROVE  Way(S2, T, c, pos, F, snd, flt2)
<1>1. /\ S \in Seq(Cells) /\ c + Len(S) <= Len(T) /\ \A i \in 1 .. Len(S) : S[i] = T[c + i]
      /\ Alive(snd) => c + Len(S) = Len(T)
  BY WayIntact
<1>2. PICK a \in Nat : a = c + k
  OBVIOUS
<1>3. c < a /\ a <= c + Len(S) /\ Len(S) \in Nat
  BY <1>1, <1>2
<1>4. ASSUME NEW i \in 1 .. Len(S)
      PROVE  /\ c + i # a => S2[i] = T[Source(c, 0, 0, i)]
             /\ c + i = a => S2[i] \in Altered(T[Source(c, 0, 0, i)])
  <2>1. Source(c, 0, 0, i) = c + i
    BY DEF Source
  <2>2. c + i = a <=> i = k
    BY <1>2
  <2>3. S[i] = T[c + i]
    BY <1>1
  <2> QED
    BY <2>1, <2>2, <2>3
<1>5. c + Len(S) + 0 = c + Len(S)
  BY <1>3
<1>6. Carried(S2, T, c, a, 0, 0)
  BY <1>1, <1>4, <1>5 DEF Carried
<1>7. Kind(c, a, 0, 0, pos, F, flt2)
  BY <1>3 DEF Kind
<1>8. Alive(snd) => Complete(S2, T, c, a, 0, 0)
  <2>1. 0 <= c + Len(S)
    BY <1>3
  <2> QED
    BY <1>1, <1>3, <1>5, <2>1 DEF Complete
<1> QED
  BY <1>6, <1>7, <1>8 DEF Way

\* A frame on its way is lost: only the length of a frame is marked as one.
LEMMA WayLost ==
  ASSUME NEW T, NEW pay, NEW pos, NEW num, NEW F \in Nat, Framed(T, pay, pos, num, F),
         NEW c \in Nat, NEW S, NEW snd, NEW flt, ~Faulty(flt), Way(S, T, c, pos, F, snd, flt),
         NEW k \in 0 .. Len(S) - 1, S[k + 1][1] = "len", k + 2 + S[k + 1][2] <= Len(S),
         NEW flt2, Faulty(flt2), NEW S2 \in Seq(Cells), Len(S2) = Len(S) - (2 + S[k + 1][2]),
         \A i \in 1 .. Len(S2) : S2[i] = IF i <= k THEN S[i] ELSE S[i + (2 + S[k + 1][2])]
  PROVE  Way(S2, T, c, pos, F, snd, flt2)
<1>1. T \in Seq(Cells)
  BY FrameFacts
<1>2. /\ S \in Seq(Cells) /\ c + Len(S) <= Len(T) /\ \A i \in 1 .. Len(S) : S[i] = T[c + i]
      /\ Alive(snd) => c + Len(S) = Len(T)
  BY <1>1, WayIntact
<1>3. PICK p \in 1 .. Len(T) : p = c + (k + 1)
  BY <1>1, <1>2
<1>4. S[k + 1] = T[p]
  <2>1. k + 1 \in 1 .. Len(S)
    BY <1>2
  <2> QED
    BY <1>2, <1>3, <2>1
<1>5. PICK f \in 0 .. F - 1 : p = pos[f] + 1 /\ T[p] = LenCell(Len(pay[f]))
  <2>1. T[p][1] = "len"
    BY <1>4
  <2>2. \A s, x : SeqCell(s, x)[1] # "len"
    BY CellFields
  <2>3. \A v \in PayloadCells : v[1] # "len"
    BY DEF PayloadCells
  <2> QED
    BY <2>1, <2>2, <2>3, CellKinds
<1>6. PICK n \in Nat : n = Len(pay[f])
  BY FrameFacts
<1>7. S[k + 1][2] = n
  <2>1. S[k + 1] = LenCell(n)
    BY <1>4, <1>5, <1>6
  <2> QED
    BY <2>1, CellFields
<1>8. PICK g \in Nat : g = pos[f]
  BY FrameFacts
<1>9. PICK w \in Nat : w = 2 + n
  OBVIOUS
<1>10. pos[f + 1] = g + w
  <2>1. pos[f + 1] = g + 2 + n
    <3>1. pos[f + 1] = pos[f] + 2 + Len(pay[f])
      BY FrameEnd
    <3> QED
      BY <1>6, <1>8, <3>1
  <2> QED
    BY <1>9, <2>1
<1>11. PICK l \in Nat : l = Len(S) /\ k \in 0 .. l - 1
  <2>1. Len(S) \in Nat
    BY <1>2
  <2> QED
    BY <2>1
<1>12. /\ g = c + k /\ k + w <= l /\ Len(S2) = l - w /\ k \in Nat
       /\ \A i \in 1 .. Len(S2) : S2[i] = IF i <= k THEN S[i] ELSE S[i + w]
  <2>1. g = c + k
    <3>1. p = g + 1 /\ p = c + (k + 1)
      BY <1>3, <1>5, <1>8
    <3> QED
      BY <3>1
  <2>2. k + 2 + n <= l /\ Len(S2) = l - (2 + n)
    BY <1>7, <1>11
  <2>3. \A i \in 1 .. Len(S2) : S2[i] = IF i <= k THEN S[i] ELSE S[i + w]
    BY <1>7, <1>9
  <2>4. k \in Nat /\ k + w <= l /\ l - (2 + n) = l - w
    BY <1>9, <1>11, <2>2
  <2> QED
    BY <2>1, <2>2, <2>3, <2>4
<1>13. ASSUME NEW i \in 1 .. l - w
       PROVE  c + i # 0 /\ S2[i] = T[Source(c, g, w, i)]
  <2>1. CASE i <= k
    <3>1. i \in 1 .. l /\ Source(c, g, w, i) = c + i
      BY <1>12, <2>1 DEF Source
    <3>2. S[i] = T[c + i] /\ S2[i] = S[i]
      BY <1>2, <1>11, <1>12, <2>1, <3>1
    <3> QED
      BY <3>1, <3>2
  <2>2. CASE ~(i <= k)
    <3>1. i + w \in 1 .. l /\ Source(c, g, w, i) = c + (i + w)
      <4>1. g = c + k /\ k + w <= l /\ k \in Nat
        BY <1>12
      <4>2. i + w \in 1 .. l
        BY <4>1
      <4>3. c + i > g /\ c + i + w = c + (i + w)
        BY <2>2, <4>1
      <4> QED
        BY <4>2, <4>3 DEF Source
    <3>2. S2[i] = S[i + w]
      BY <1>12, <2>2
    <3>3. S[i + w] = T[c + (i + w)]
      BY <1>2, <1>11, <3>1
    <3>4. c + i # 0
      OBVIOUS
    <3>5. S2[i] = T[Source(c, g, w, i)]
      BY <3>1, <3>2, <3>3
    <3> QED
      BY <3>4, <3>5
  <2> QED
    BY <2>1, <2>2
<1>14. c + (l - w) + w = c + l /\ 0 <= c + (l - w) /\ g <= c + (l - w)
  <2>1. g = c + k /\ k + w <= l /\ k \in Nat
    BY <1>12
  <2>2. c + (l - w) + w = c + l
    OBVIOUS
  <2>3. 0 <= c + (l - w) /\ g <= c + (l - w)
    BY <2>1
  <2> QED
    BY <2>2, <2>3
<1>15. Carried(S2, T, c, 0, g, w)
  BY <1>2, <1>11, <1>12, <1>13, <1>14 DEF Carried
<1>16. Kind(c, 0, g, w, pos, F, flt2)
  <2>1. c <= g /\ w = pos[f + 1] - pos[f]
    BY <1>8, <1>10, <1>12
  <2> QED
    BY <1>8, <2>1 DEF Kind
<1>17. Alive(snd) => Complete(S2, T, c, 0, g, w)
  BY <1>2, <1>11, <1>12, <1>14 DEF Complete
<1> QED
  BY <1>15, <1>16, <1>17 DEF Way
-----------------------------------------------------------------------------
(***************************************************************************)
(* The codec, from the encoder to the decoder.                             *)
(***************************************************************************)

\* d of F frames with payloads pay were decoded from a stream of which S is left.
\* snd is the sender, es the next number to send, hd the header that was decoded,
\* ds the next number expected, flt the number of faults.
CodecState(pay, F, d, snd, es, S, hd, ds, flt) ==
  \E T, pos, num :
    /\ F \in Nat /\ d \in 0 .. F /\ Framed(T, pay, pos, num, F) /\ es = num[F]
    /\ \/ hd = <<>> /\ ds = num[d] /\ Way(S, T, pos[d], pos, F, snd, flt)
       \/ /\ d < F /\ hd = <<Len(pay[d]), pay[d]>> /\ ds = num[d + 1]
          /\ Way(S, T, pos[d] + 2, pos, F, snd, flt)
       \/ Faulty(flt) /\ \E n, x : hd = <<n, x>> /\ BadHeader(n, x)

\* A frame is sent.
LEMMA CodecAppend ==
  ASSUME CodecAssumption, NEW pay, NEW F, NEW d, NEW snd, NEW es, NEW S, NEW hd, NEW ds, NEW flt,
         CodecState(pay, F, d, snd, es, S, hd, ds, flt), Alive(snd), NEW x \in Payloads
  PROVE  CodecState([pay EXCEPT ![F] = x], F + 1, d, snd, (es + 1) % SeqMod, S \o Encode(es, x),
                    hd, ds, flt)
<1>1. PICK T, pos, num :
        /\ F \in Nat /\ d \in 0 .. F /\ Framed(T, pay, pos, num, F) /\ es = num[F]
        /\ \/ hd = <<>> /\ ds = num[d] /\ Way(S, T, pos[d], pos, F, snd, flt)
           \/ /\ d < F /\ hd = <<Len(pay[d]), pay[d]>> /\ ds = num[d + 1]
              /\ Way(S, T, pos[d] + 2, pos, F, snd, flt)
           \/ Faulty(flt) /\ \E n, y : hd = <<n, y>> /\ BadHeader(n, y)
  BY DEF CodecState
<1>2. F \in Nat /\ d \in 0 .. F /\ Framed(T, pay, pos, num, F) /\ es = num[F]
  BY <1>1
<1>3. T \in Seq(Cells) /\ es \in 0 .. SeqMod - 1 /\ es \in Int
  <2>1. T \in Seq(Cells) /\ num[F] \in 0 .. SeqMod - 1
    BY <1>2, FrameFacts
  <2> QED
    BY <1>2, <2>1 DEF CodecAssumption
<1>4. PICK E : E = Encode(es, x)
  OBVIOUS
<1>5. E \in Seq(Cells)
  BY <1>3, <1>4, EncodeFacts
<1>6. PICK pay2 : pay2 = [pay EXCEPT ![F] = x]
  OBVIOUS
<1>7. PICK pos2, num2 :
        /\ Framed(T \o E, pay2, pos2, num2, F + 1)
        /\ \A f \in 0 .. F : pos2[f] = pos[f] /\ num2[f] = num[f]
        /\ num2[F + 1] = (es + 1) % SeqMod
  <2>1. F \in Nat
    BY <1>2
  <2>2. Framed(T, pay, pos, num, F)
    BY <1>2
  <2>3. \E pos2, num2 :
          /\ Framed(T \o Encode(num[F], x), [pay EXCEPT ![F] = x], pos2, num2, F + 1)
          /\ \A f \in 0 .. F : pos2[f] = pos[f] /\ num2[f] = num[f]
          /\ num2[F + 1] = (num[F] + 1) % SeqMod
    BY <2>1, <2>2, FramedAppend
  <2>4. es = num[F]
    BY <1>2
  <2> QED
    BY <1>4, <1>6, <2>3, <2>4
<1>8. F + 1 \in Nat /\ d \in 0 .. F + 1 /\ pos2[d] = pos[d] /\ num2[d] = num[d]
  BY <1>2, <1>7
<1>9. pos[d] \in Nat
  <2>1. d \in Nat
    BY <1>2
  <2> QED
    BY <1>2, <2>1, FrameFacts
<1>10. ASSUME NEW c \in Nat, Way(S, T, c, pos, F, snd, flt)
       PROVE  Way(S \o E, T \o E, c, pos2, F + 1, snd, flt)
  <2>1. \A f \in 0 .. F : pos2[f] = pos[f]
    BY <1>7
  <2> QED
    BY <1>2, <1>3, <1>5, <1>10, <2>1, WayAppend
<1>11. CASE hd = <<>> /\ ds = num[d] /\ Way(S, T, pos[d], pos, F, snd, flt)
  <2>1. Way(S \o E, T \o E, pos2[d], pos2, F + 1, snd, flt) /\ ds = num2[d]
    BY <1>8, <1>9, <1>10, <1>11
  <2>2. CodecState(pay2, F + 1, d, snd, (es + 1) % SeqMod, S \o E, hd, ds, flt)
    BY <1>7, <1>8, <1>11, <2>1 DEF CodecState
  <2> QED
    BY <1>4, <1>6, <2>2
<1>12. CASE /\ d < F /\ hd = <<Len(pay[d]), pay[d]>> /\ ds = num[d + 1]
            /\ Way(S, T, pos[d] + 2, pos, F, snd, flt)
  <2>1. d + 1 \in 0 .. F /\ d \in Nat /\ d # F /\ pos[d] + 2 \in Nat /\ d < F + 1
    BY <1>2, <1>9, <1>12
  <2>2. Way(S \o E, T \o E, pos2[d] + 2, pos2, F + 1, snd, flt) /\ ds = num2[d + 1]
    BY <1>7, <1>8, <1>10, <1>12, <2>1
  <2>3. pay2[d] = pay[d]
    <3>1. pay \in [Nat -> Payloads]
      BY <1>2 DEF Framed, FrameType
    <3> QED
      BY <1>2, <1>6, <2>1, <3>1, ExceptFacts
  <2>4. hd = <<Len(pay2[d]), pay2[d]>>
    BY <1>12, <2>3
  <2>5. CodecState(pay2, F + 1, d, snd, (es + 1) % SeqMod, S \o E, hd, ds, flt)
    BY <1>7, <1>8, <2>1, <2>2, <2>4 DEF CodecState
  <2> QED
    BY <1>4, <1>6, <2>5
<1>13. CASE Faulty(flt) /\ \E n, y : hd = <<n, y>> /\ BadHeader(n, y)
  <2>1. CodecState(pay2, F + 1, d, snd, (es + 1) % SeqMod, S \o E, hd, ds, flt)
    BY <1>7, <1>8, <1>13 DEF CodecState
  <2> QED
    BY <1>4, <1>6, <2>1
<1> QED
  BY <1>1, <1>11, <1>12, <1>13

\* The sending task ends: what was not sent is dropped.
LEMMA CodecCut ==
  ASSUME NEW pay, NEW F, NEW d, NEW snd, NEW es, NEW S, NEW hd, NEW ds, NEW flt,
         CodecState(pay, F, d, snd, es, S, hd, ds, flt), NEW snd2, ~Alive(snd2),
         NEW S2 \in Seq(Cells), Len(S2) <= Len(S), \A i \in 1 .. Len(S2) : S2[i] = S[i]
  PROVE  CodecState(pay, F, d, snd2, es, S2, hd, ds, flt)
<1>1. PICK T, pos, num :
        /\ F \in Nat /\ d \in 0 .. F /\ Framed(T, pay, pos, num, F) /\ es = num[F]
        /\ \/ hd = <<>> /\ ds = num[d] /\ Way(S, T, pos[d], pos, F, snd, flt)
           \/ /\ d < F /\ hd = <<Len(pay[d]), pay[d]>> /\ ds = num[d + 1]
              /\ Way(S, T, pos[d] + 2, pos, F, snd, flt)
           \/ Faulty(flt) /\ \E n, y : hd = <<n, y>> /\ BadHeader(n, y)
  BY DEF CodecState
<1>2. T \in Seq(Cells) /\ pos[d] \in Nat /\ pos[d] + 2 \in Nat
  <2>1. d \in Nat
    BY <1>1
  <2>2. T \in Seq(Cells) /\ pos[d] \in Nat
    BY <1>1, <2>1, FrameFacts
  <2> QED
    BY <2>2
<1>3. ASSUME NEW c \in Nat, Way(S, T, c, pos, F, snd, flt)
      PROVE  Way(S2, T, c, pos, F, snd2, flt)
  <2>1. F \in Nat
    BY <1>1
  <2> QED
    BY <1>2, <1>3, <2>1, WayCut
<1> QED
  BY <1>1, <1>2, <1>3 DEF CodecState

\* A cell is altered.
LEMMA CodecAltered ==
  ASSUME NEW pay, NEW F, NEW d, NEW snd, NEW es, NEW S, NEW hd, NEW ds, NEW flt,
         CodecState(pay, F, d, snd, es, S, hd, ds, flt), ~Faulty(flt), NEW flt2, Faulty(flt2),
         NEW k \in 1 .. Len(S), NEW S2 \in Seq(Cells), Len(S2) = Len(S), S2[k] \in Altered(S[k]),
         \A i \in 1 .. Len(S) : i # k => S2[i] = S[i]
  PROVE  CodecState(pay, F, d, snd, es, S2, hd, ds, flt2)
<1>1. PICK T, pos, num :
        /\ F \in Nat /\ d \in 0 .. F /\ Framed(T, pay, pos, num, F) /\ es = num[F]
        /\ \/ hd = <<>> /\ ds = num[d] /\ Way(S, T, pos[d], pos, F, snd, flt)
           \/ /\ d < F /\ hd = <<Len(pay[d]), pay[d]>> /\ ds = num[d + 1]
              /\ Way(S, T, pos[d] + 2, pos, F, snd, flt)
  BY DEF CodecState
<1>2. T \in Seq(Cells) /\ pos[d] \in Nat /\ pos[d] + 2 \in Nat
  <2>1. d \in Nat
    BY <1>1
  <2>2. T \in Seq(Cells) /\ pos[d] \in Nat
    BY <1>1, <2>1, FrameFacts
  <2> QED
    BY <2>2
<1>3. ASSUME NEW c \in Nat, Way(S, T, c, pos, F, snd, flt)
      PROVE  Way(S2, T, c, pos, F, snd, flt2)
  <2>1. F \in Nat
    BY <1>1
  <2> QED
    BY <1>2, <1>3, <2>1, WayAltered
<1> QED
  BY <1>1, <1>2, <1>3 DEF CodecState

\* A frame is lost.
LEMMA CodecLost ==
  ASSUME NEW pay, NEW F, NEW d, NEW snd, NEW es, NEW S, NEW hd, NEW ds, NEW flt,
         CodecState(pay, F, d, snd, es, S, hd, ds, flt), ~Faulty(flt), NEW flt2, Faulty(flt2),
         NEW k \in 0 .. Len(S) - 1, S[k + 1][1] = "len", k + 2 + S[k + 1][2] <= Len(S),
         NEW S2 \in Seq(Cells), Len(S2) = Len(S) - (2 + S[k + 1][2]),
         \A i \in 1 .. Len(S2) : S2[i] = IF i <= k THEN S[i] ELSE S[i + (2 + S[k + 1][2])]
  PROVE  CodecState(pay, F, d, snd, es, S2, hd, ds, flt2)
<1>1. PICK T, pos, num :
        /\ F \in Nat /\ d \in 0 .. F /\ Framed(T, pay, pos, num, F) /\ es = num[F]
        /\ \/ hd = <<>> /\ ds = num[d] /\ Way(S, T, pos[d], pos, F, snd, flt)
           \/ /\ d < F /\ hd = <<Len(pay[d]), pay[d]>> /\ ds = num[d + 1]
              /\ Way(S, T, pos[d] + 2, pos, F, snd, flt)
  BY DEF CodecState
<1>2. pos[d] \in Nat /\ pos[d] + 2 \in Nat
  <2>1. d \in Nat
    BY <1>1
  <2>2. pos[d] \in Nat
    BY <1>1, <2>1, FrameFacts
  <2> QED
    BY <2>2
<1>3. ASSUME NEW c \in Nat, Way(S, T, c, pos, F, snd, flt)
      PROVE  Way(S2, T, c, pos, F, snd, flt2)
  <2>1. F \in Nat /\ Framed(T, pay, pos, num, F)
    BY <1>1
  <2> QED
    BY <1>3, <2>1, WayLost
<1> QED
  BY <1>1, <1>2, <1>3 DEF CodecState

\* A header is accepted.
LEMMA CodecHeader ==
  ASSUME CodecAssumption, NEW pay, NEW F, NEW d, NEW snd, NEW es, NEW S, NEW ds, NEW flt,
         CodecState(pay, F, d, snd, es, S, <<>>, ds, flt), Len(S) >= 2, S[2][2] = ds
  PROVE  CodecState(pay, F, d, snd, es, SubSeq(S, 3, Len(S)), <<S[1][2], S[2][3]>>,
                    (ds + 1) % SeqMod, flt)
<1>1. \A n, x : <<n, x>> # <<>>
  OBVIOUS
<1>2. PICK T, pos, num :
        /\ F \in Nat /\ d \in 0 .. F /\ Framed(T, pay, pos, num, F) /\ es = num[F]
        /\ ds = num[d] /\ Way(S, T, pos[d], pos, F, snd, flt)
  BY <1>1 DEF CodecState
<1>3. /\ d < F
      /\ \/ /\ S[1] = LenCell(Len(pay[d])) /\ S[2] = SeqCell(num[d], pay[d])
            /\ Way(SubSeq(S, 3, Len(S)), T, pos[d] + 2, pos, F, snd, flt)
         \/ Faulty(flt) /\ BadHeader(S[1][2], S[2][3])
  <2>1. F \in Nat
    BY <1>2
  <2>2. d \in 0 .. F /\ Framed(T, pay, pos, num, F)
    BY <1>2
  <2>3. Way(S, T, pos[d], pos, F, snd, flt)
    BY <1>2
  <2>4. S[2][2] = num[d]
    BY <1>2
  <2>5. HeaderNext(S, T, pay, pos, num, F, d, snd, flt)
    BY <2>1, <2>2, <2>3, <2>4, HeaderDecoded
  <2> QED
    BY <2>1, <2>2, <2>3, <2>5, HeaderDecoded DEF HeaderNext
<1>4. num[d + 1] = (ds + 1) % SeqMod
  <2>1. FrameNums(num, F) /\ d \in 0 .. F - 1
    BY <1>2, <1>3 DEF Framed
  <2> QED
    BY <1>2, <2>1 DEF FrameNums
<1>5. PICK R : R = SubSeq(S, 3, Len(S))
  OBVIOUS
<1>6. CASE /\ S[1] = LenCell(Len(pay[d])) /\ S[2] = SeqCell(num[d], pay[d])
           /\ Way(SubSeq(S, 3, Len(S)), T, pos[d] + 2, pos, F, snd, flt)
  <2>1. S[1][2] = Len(pay[d]) /\ S[2][3] = pay[d]
    BY <1>6, CellFields
  <2>2. Way(R, T, pos[d] + 2, pos, F, snd, flt)
    BY <1>5, <1>6
  <2>3. CodecState(pay, F, d, snd, es, R, <<S[1][2], S[2][3]>>, num[d + 1], flt)
    BY <1>2, <1>3, <2>1, <2>2 DEF CodecState
  <2> QED
    BY <1>4, <1>5, <2>3
<1>7. CASE Faulty(flt) /\ BadHeader(S[1][2], S[2][3])
  <2>1. CodecState(pay, F, d, snd, es, R, <<S[1][2], S[2][3]>>, num[d + 1], flt)
    BY <1>2, <1>7 DEF CodecState
  <2> QED
    BY <1>4, <1>5, <2>1
<1> QED
  BY <1>3, <1>6, <1>7

\* A payload passes the checksum.
LEMMA CodecPayload ==
  ASSUME NEW pay, NEW F, NEW d, NEW snd, NEW es, NEW S \in Seq(Cells), NEW hd, NEW ds, NEW flt,
         CodecState(pay, F, d, snd, es, S, hd, ds, flt), hd # <<>>,
         hd[1] <= Len(S), SubSeq(S, 1, hd[1]) = hd[2]
  PROVE  /\ d \in 0 .. F - 1 /\ F \in Nat /\ hd[2] = pay[d] /\ hd[1] \in Nat
         /\ CodecState(pay, F, d + 1, snd, es, SubSeq(S, hd[1] + 1, Len(S)), <<>>, ds, flt)
<1>1. PICK T, pos, num :
        /\ F \in Nat /\ d \in 0 .. F /\ Framed(T, pay, pos, num, F) /\ es = num[F]
        /\ \/ /\ d < F /\ hd = <<Len(pay[d]), pay[d]>> /\ ds = num[d + 1]
              /\ Way(S, T, pos[d] + 2, pos, F, snd, flt)
           \/ Faulty(flt) /\ \E n, y : hd = <<n, y>> /\ BadHeader(n, y)
  BY DEF CodecState
<1>2. ASSUME NEW n, NEW y, hd = <<n, y>>, BadHeader(n, y) PROVE FALSE
  <2>1. hd[1] = n /\ hd[2] = y
    BY <1>2
  <2>2. n \in Nat /\ n # Len(y)
    BY <1>2 DEF BadHeader
  <2>3. n <= Len(S) /\ SubSeq(S, 1, n) = y
    BY <2>1
  <2>4. Len(SubSeq(S, 1, n)) = n
    BY <2>2, <2>3
  <2> QED
    BY <2>2, <2>3, <2>4
<1>3. /\ d < F /\ hd = <<Len(pay[d]), pay[d]>> /\ ds = num[d + 1]
      /\ Way(S, T, pos[d] + 2, pos, F, snd, flt)
  BY <1>1, <1>2
<1>4. hd[1] = Len(pay[d]) /\ hd[2] = pay[d]
  BY <1>3
<1>5. d \in 0 .. F - 1 /\ d + 1 \in 0 .. F /\ d \in Nat
  BY <1>1, <1>3
<1>6. PICK n \in Nat : n = Len(pay[d])
  BY <1>1, <1>5, FrameFacts
<1>7. n <= Len(S) /\ SubSeq(S, 1, n) = pay[d] /\ hd[1] = n
  BY <1>4, <1>6
<1>8. \A j \in 1 .. n : S[j] = pay[d][j]
  <2>1. Len(S) \in Nat
    OBVIOUS
  <2>2. \A j \in 1 .. n : SubSeq(S, 1, n)[j] = S[j]
    BY <1>7, <2>1
  <2> QED
    BY <1>7, <2>2
<1>9. Way(SubSeq(S, n + 1, Len(S)), T, pos[d + 1], pos, F, snd, flt)
  <2>1. F \in Nat /\ Framed(T, pay, pos, num, F)
    BY <1>1
  <2> QED
    BY <1>3, <1>5, <1>6, <1>7, <1>8, <2>1, PayloadDecoded
<1>10. PICK R : R = SubSeq(S, n + 1, Len(S))
  OBVIOUS
<1>11. Way(R, T, pos[d + 1], pos, F, snd, flt)
  BY <1>9, <1>10
<1>12. CodecState(pay, F, d + 1, snd, es, R, <<>>, ds, flt)
  BY <1>1, <1>3, <1>5, <1>11 DEF CodecState
<1> QED
  BY <1>1, <1>4, <1>5, <1>7, <1>10, <1>12
-----------------------------------------------------------------------------
(***************************************************************************)
(* The requests that wait, and the bytes they carry.                       *)
(***************************************************************************)

\* The bytes behind the first x up to byte y.
Span(x, y) == [j \in 1 .. y - x |-> x + j]

\* A packet of the bytes from x to y, or a flush request.
PendItem(r, x, y) == (r = Flush /\ x = y) \/ (x < y /\ r = Span(x, y))

\* The requests of q carry the bytes from lo to hi.
PendAt(q, lo, hi, off) ==
  /\ off \in [Nat -> Nat] /\ off[0] = lo /\ off[Len(q)] = hi
  /\ \A i \in 1 .. Len(q) : PendItem(q[i], off[i - 1], off[i])
  /\ \A i \in 0 .. Len(q) : off[i] <= hi
Pending(q, lo, hi) == \E off : PendAt(q, lo, hi, off)

\* So do the peeked request and those of q behind it.
Waiting(pk, q, lo, hi) ==
  \/ pk = <<>> /\ Pending(q, lo, hi)
  \/ \E r, mid : /\ pk = <<r>> /\ PendItem(r, lo, mid) /\ mid \in Nat /\ mid <= hi
                 /\ Pending(q, mid, hi)

\* Nothing is requested.
LEMMA PendingEmpty ==
  ASSUME NEW lo \in Nat, NEW hi
  PROVE  Pending(<<>>, lo, hi) <=> lo = hi
<1>1. Len(<<>>) = 0
  OBVIOUS
<1>2. ASSUME Pending(<<>>, lo, hi) PROVE lo = hi
  BY <1>1, <1>2 DEF Pending, PendAt
<1>3. ASSUME lo = hi PROVE Pending(<<>>, lo, hi)
  <2>1. PICK off : off = [i \in Nat |-> lo]
    OBVIOUS
  <2>2. off \in [Nat -> Nat] /\ off[0] = lo
    BY <2>1
  <2>3. \A i \in 0 .. 0 : off[i] <= hi
    BY <1>3, <2>2
  <2>4. PendAt(<<>>, lo, hi, off)
    BY <1>1, <1>3, <2>2, <2>3 DEF PendAt
  <2> QED
    BY <2>4 DEF Pending
<1> QED
  BY <1>2, <1>3

\* A request is added.
LEMMA PendingAppend ==
  ASSUME NEW q \in Seq(Requests), NEW r, r \in Requests, NEW lo, NEW hi, hi \in Nat,
         NEW hi2, hi2 \in Nat, Pending(q, lo, hi), PendItem(r, hi, hi2)
  PROVE  Pending(Append(q, r), lo, hi2)
<1>1. PICK off : PendAt(q, lo, hi, off)
  BY DEF Pending
<1>2. PICK n \in Nat : n = Len(q)
  OBVIOUS
<1>3. /\ off \in [Nat -> Nat] /\ off[0] = lo /\ off[n] = hi
      /\ \A i \in 1 .. n : PendItem(q[i], off[i - 1], off[i])
      /\ \A i \in 0 .. n : off[i] <= hi
  BY <1>1, <1>2 DEF PendAt
<1>4. PICK K \in Nat : K = n + 1
  OBVIOUS
<1>5. PICK off2 : off2 = [off EXCEPT ![K] = hi2]
  OBVIOUS
<1>6. Sets(off2, off, K, hi2, Nat)
  BY <1>3, <1>5, ExceptFacts DEF Sets
<1>7. off2 \in [Nat -> Nat] /\ off2[K] = hi2 /\ \A i \in 0 .. n : off2[i] = off[i]
  <2>1. \A i \in 0 .. n : i \in Nat /\ i # K
    BY <1>4
  <2> QED
    BY <1>6, <2>1 DEF Sets
<1>8. PICK q2 : q2 = Append(q, r)
  OBVIOUS
<1>9. Len(q2) = K /\ q2[K] = r /\ \A i \in 1 .. n : q2[i] = q[i]
  BY <1>2, <1>4, <1>8
<1>10. hi <= hi2
  BY DEF PendItem
<1>11. ASSUME NEW i \in 1 .. K PROVE PendItem(q2[i], off2[i - 1], off2[i])
  <2>1. CASE i = K
    <3>1. i - 1 = n /\ n \in 0 .. n
      BY <1>4, <2>1
    <3>2. off2[i - 1] = hi
      BY <1>3, <1>7, <3>1
    <3> QED
      BY <1>7, <1>9, <2>1, <3>2
  <2>2. CASE i # K
    <3>1. i \in 1 .. n /\ i - 1 \in 0 .. n /\ i \in 0 .. n
      BY <1>4, <2>2
    <3> QED
      BY <1>3, <1>7, <1>9, <3>1
  <2> QED
    BY <2>1, <2>2
<1>12. ASSUME NEW i \in 0 .. K PROVE off2[i] <= hi2
  <2>1. CASE i = K
    BY <1>7, <2>1
  <2>2. CASE i # K
    <3>1. i \in 0 .. n /\ i \in Nat
      BY <1>4, <2>2
    <3>2. off2[i] = off[i] /\ off[i] <= hi
      BY <1>3, <1>7, <3>1
    <3>3. off[i] \in Nat
      BY <1>3, <3>1
    <3> QED
      BY <1>10, <3>2, <3>3
  <2> QED
    BY <2>1, <2>2
<1>13. off2[0] = lo
  BY <1>3, <1>7
<1>14. PendAt(q2, lo, hi2, off2)
  BY <1>7, <1>9, <1>11, <1>12, <1>13 DEF PendAt
<1> QED
  BY <1>8, <1>14 DEF Pending

\* The first request is taken.
LEMMA PendingHead ==
  ASSUME NEW q \in Seq(Requests), q # <<>>, NEW lo, NEW hi, hi \in Nat, Pending(q, lo, hi)
  PROVE  \E mid \in Nat : PendItem(Head(q), lo, mid) /\ mid <= hi /\ Pending(Tail(q), mid, hi)
<1>1. PICK off : PendAt(q, lo, hi, off)
  BY DEF Pending
<1>2. PICK t : t = Tail(q)
  OBVIOUS
<1>3. PICK n \in Nat : n = Len(t)
  BY <1>2
<1>4. Len(q) = n + 1 /\ Head(q) = q[1] /\ \A i \in 1 .. n : t[i] = q[i + 1]
  BY <1>2, <1>3
<1>5. /\ off \in [Nat -> Nat] /\ off[0] = lo /\ off[n + 1] = hi
      /\ \A i \in 1 .. n + 1 : PendItem(q[i], off[i - 1], off[i])
      /\ \A i \in 0 .. n + 1 : off[i] <= hi
  BY <1>1, <1>4 DEF PendAt
<1>6. PICK off2 : off2 = [i \in Nat |-> off[i + 1]]
  OBVIOUS
<1>7. off2 \in [Nat -> Nat] /\ \A i \in Nat : off2[i] = off[i + 1]
  <2>1. off \in [Nat -> Nat]
    BY <1>5
  <2>2. \A i \in Nat : i + 1 \in Nat
    OBVIOUS
  <2>3. \A i \in Nat : off[i + 1] \in Nat
    BY <2>1, <2>2
  <2> QED
    BY <1>6, <2>3
<1>8. PICK mid \in Nat : mid = off[1]
  BY <1>5
<1>9. off2[0] = mid /\ off2[n] = hi
  <2>1. off2[0] = off[1]
    <3>1. off2[0] = off[0 + 1]
      BY <1>7
    <3> QED
      BY <3>1
  <2>2. off2[n] = off[n + 1]
    BY <1>7
  <2> QED
    BY <1>5, <1>8, <2>1, <2>2
<1>10. ASSUME NEW i \in 1 .. n PROVE PendItem(t[i], off2[i - 1], off2[i])
  <2>1. i - 1 \in Nat /\ (i - 1) + 1 = i /\ i \in Nat /\ i + 1 \in 1 .. n + 1 /\ (i + 1) - 1 = i
    OBVIOUS
  <2>2. off2[i - 1] = off[i] /\ off2[i] = off[i + 1] /\ t[i] = q[i + 1]
    BY <1>4, <1>7, <2>1
  <2>3. PendItem(q[i + 1], off[i], off[i + 1])
    BY <1>5, <2>1
  <2> QED
    BY <2>2, <2>3
<1>11. ASSUME NEW i \in 0 .. n PROVE off2[i] <= hi
  <2>1. i \in Nat /\ i + 1 \in 0 .. n + 1
    OBVIOUS
  <2> QED
    BY <1>5, <1>7, <2>1
<1>12. PendAt(t, mid, hi, off2)
  BY <1>3, <1>7, <1>9, <1>10, <1>11 DEF PendAt
<1>13. PendItem(Head(q), lo, mid) /\ mid <= hi
  <2>1. 1 \in 1 .. n + 1 /\ 1 \in 0 .. n + 1 /\ 1 - 1 = 0
    OBVIOUS
  <2> QED
    BY <1>4, <1>5, <1>8, <2>1
<1> QED
  BY <1>2, <1>12, <1>13 DEF Pending

\* A packet is not taken for a flush.
LEMMA SpanFacts ==
  ASSUME NEW x \in Nat, NEW y \in Nat, x < y
  PROVE  /\ Span(x, y) \in Requests /\ Span(x, y) # Flush /\ Span(x, y) \in Seq(Nat \ {0})
         /\ Len(Span(x, y)) = y - x /\ Span(x, y) # <<>>
<1>1. PICK n \in Nat : n = y - x /\ n > 0
  OBVIOUS
<1>2. PICK d : d = [j \in 1 .. n |-> x + j]
  OBVIOUS
<1>3. d = Span(x, y)
  BY <1>1, <1>2 DEF Span
<1>4. d \in Requests /\ d # Flush
  BY <1>2, DataFacts
<1>5. d \in Seq(Nat \ {0}) /\ Len(d) = n /\ d # <<>>
  <2>1. \A j \in 1 .. n : x + j \in Nat \ {0}
    OBVIOUS
  <2>2. d \in [1 .. n -> Nat \ {0}] /\ DOMAIN d = 1 .. n
    BY <1>2, <2>1
  <2>3. d \in Seq(Nat \ {0}) /\ Len(d) = n
    BY <2>2
  <2> QED
    BY <1>1, <2>3
<1> QED
  BY <1>1, <1>3, <1>4, <1>5

\* A request is queued behind the others: it carries the bytes behind theirs.
LEMMA WaitingAppend ==
  ASSUME NEW pk, NEW q \in Seq(Requests), NEW r, r \in Requests, NEW lo, NEW hi, hi \in Nat,
         NEW hi2, hi2 \in Nat, Waiting(pk, q, lo, hi), PendItem(r, hi, hi2)
  PROVE  Waiting(pk, Append(q, r), lo, hi2)
<1>1. CASE pk = <<>> /\ Pending(q, lo, hi)
  <2>1. Pending(Append(q, r), lo, hi2)
    BY <1>1, PendingAppend
  <2> QED
    BY <1>1, <2>1 DEF Waiting
<1>2. ASSUME NEW p, NEW mid, pk = <<p>>, PendItem(p, lo, mid), mid \in Nat, mid <= hi, Pending(q, mid, hi)
      PROVE  Waiting(pk, Append(q, r), lo, hi2)
  <2>1. Pending(Append(q, r), mid, hi2)
    BY <1>2, PendingAppend
  <2>2. hi <= hi2
    BY DEF PendItem
  <2>3. mid <= hi2
    BY <1>2, <2>2
  <2> QED
    BY <1>2, <2>1, <2>3 DEF Waiting
<1> QED
  BY <1>1, <1>2 DEF Waiting

\* The first request is peeked: the order stays.
LEMMA WaitingPeek ==
  ASSUME NEW q \in Seq(Requests), q # <<>>, NEW lo, NEW hi, hi \in Nat, Waiting(<<>>, q, lo, hi)
  PROVE  Waiting(<<Head(q)>>, Tail(q), lo, hi)
<1>1. \A r : <<>> # <<r>>
  OBVIOUS
<1>2. Pending(q, lo, hi)
  BY <1>1 DEF Waiting
<1>3. PICK mid \in Nat : PendItem(Head(q), lo, mid) /\ mid <= hi /\ Pending(Tail(q), mid, hi)
  BY <1>2, PendingHead
<1> QED
  BY <1>3 DEF Waiting

\* The peeked request is taken.
LEMMA WaitingTake ==
  ASSUME NEW r, NEW q, NEW lo, NEW hi, Waiting(<<r>>, q, lo, hi)
  PROVE  \E mid \in Nat : PendItem(r, lo, mid) /\ mid <= hi /\ Waiting(<<>>, q, mid, hi)
<1>1. <<r>> # <<>> /\ \A p : <<p>> = <<r>> => p = r
  OBVIOUS
<1>2. PICK mid : PendItem(r, lo, mid) /\ mid \in Nat /\ mid <= hi /\ Pending(q, mid, hi)
  BY <1>1 DEF Waiting
<1> QED
  BY <1>2 DEF Waiting
-----------------------------------------------------------------------------
(***************************************************************************)
(* What was passed on and read.                                            *)
(***************************************************************************)

\* The bytes of a span.
LEMMA SpanBytes ==
  ASSUME NEW x \in Nat, NEW y \in Nat, x <= y
  PROVE  /\ Span(x, y) \in Seq(Nat) /\ Len(Span(x, y)) = y - x
         /\ \A j \in 1 .. y - x : Span(x, y)[j] = x + j
<1>1. PICK n \in Nat : n = y - x
  OBVIOUS
<1>2. PICK d : d = [j \in 1 .. n |-> x + j]
  OBVIOUS
<1>3. d = Span(x, y)
  BY <1>1, <1>2 DEF Span
<1>4. d \in Seq(Nat) /\ Len(d) = n /\ \A j \in 1 .. n : d[j] = x + j
  <2>1. \A j \in 1 .. n : x + j \in Nat
    OBVIOUS
  <2>2. d \in [1 .. n -> Nat] /\ DOMAIN d = 1 .. n
    BY <1>2, <2>1
  <2> QED
    BY <1>2, <2>2
<1> QED
  BY <1>1, <1>3, <1>4

\* The first n bytes of a span and the rest of it are spans.
Divided(x, y, n) ==
  /\ SubSeq(Span(x, y), 1, n) = Span(x, x + n)
  /\ SubSeq(Span(x, y), n + 1, y - x) = Span(x + n, y)

\* A part of a span is taken off its front.
LEMMA SpanSplit ==
  ASSUME NEW x \in Nat, NEW y \in Nat, NEW n \in Nat, x + n <= y
  PROVE  Divided(x, y, n)
<1>1. PICK z \in Nat : z = x + n
  OBVIOUS
<1>2. PICK l \in Nat : l = y - x
  OBVIOUS
<1>3. PICK d : d = Span(x, y)
  OBVIOUS
<1>4. d \in Seq(Nat) /\ Len(d) = l /\ \A j \in 1 .. l : d[j] = x + j
  <2>1. x <= y
    OBVIOUS
  <2>2. Span(x, y) \in Seq(Nat) /\ Len(Span(x, y)) = y - x
    BY <2>1, SpanBytes
  <2>3. \A j \in 1 .. y - x : Span(x, y)[j] = x + j
    BY <2>1, SpanBytes
  <2> QED
    BY <1>2, <1>3, <2>2, <2>3
<1>5. n \in 0 .. l /\ y - z = l - n
  BY <1>1, <1>2
<1>6. SubSeq(d, 1, n) = Span(x, z)
  <2>1. PICK u : u = SubSeq(d, 1, n)
    OBVIOUS
  <2>2. u \in Seq(Nat) /\ Len(u) = n /\ \A i \in 1 .. n : u[i] = d[i]
    BY <1>4, <1>5, <2>1
  <2>3. Span(x, z) \in Seq(Nat) /\ Len(Span(x, z)) = n /\ \A i \in 1 .. n : Span(x, z)[i] = x + i
    <3>1. x <= z /\ z - x = n
      BY <1>1
    <3> QED
      BY <3>1, SpanBytes
  <2>4. \A i \in 1 .. n : i \in 1 .. l
    BY <1>5
  <2>5. \A i \in 1 .. Len(u) : u[i] = Span(x, z)[i]
    BY <1>4, <2>2, <2>3, <2>4
  <2> QED
    BY <2>1, <2>2, <2>3, <2>5, SeqEqual
<1>7. SubSeq(d, n + 1, l) = Span(z, y)
  <2>1. PICK u : u = SubSeq(d, n + 1, l)
    OBVIOUS
  <2>2. u \in Seq(Nat) /\ Len(u) = l - n /\ \A i \in 1 .. l - n : u[i] = d[n + i]
    BY <1>4, <1>5, <2>1, DropFacts
  <2>3. /\ Span(z, y) \in Seq(Nat) /\ Len(Span(z, y)) = l - n
        /\ \A i \in 1 .. l - n : Span(z, y)[i] = z + i
    <3>1. z <= y
      BY <1>1
    <3> QED
      BY <1>5, <3>1, SpanBytes
  <2>4. \A i \in 1 .. l - n : n + i \in 1 .. l /\ x + (n + i) = z + i
    BY <1>1, <1>5
  <2>5. \A i \in 1 .. Len(u) : u[i] = Span(z, y)[i]
    BY <1>4, <2>2, <2>3, <2>4
  <2> QED
    BY <2>1, <2>2, <2>3, <2>5, SeqEqual
<1> QED
  BY <1>1, <1>2, <1>3, <1>6, <1>7 DEF Divided

\* Spans that meet are joined.
LEMMA SpanJoin ==
  ASSUME NEW x \in Nat, NEW z \in Nat, x <= z
  PROVE  Span(0, x) \o Span(x, z) = Span(0, z)
<1>1. Span(0, x) \in Seq(Nat) /\ Len(Span(0, x)) = x /\ \A j \in 1 .. x : Span(0, x)[j] = j
  <2>1. 0 <= x /\ x - 0 = x /\ \A j \in 1 .. x : 0 + j = j
    OBVIOUS
  <2> QED
    BY <2>1, SpanBytes
<1>2. Span(0, z) \in Seq(Nat) /\ Len(Span(0, z)) = z /\ \A j \in 1 .. z : Span(0, z)[j] = j
  <2>1. 0 <= z /\ z - 0 = z /\ \A j \in 1 .. z : 0 + j = j
    OBVIOUS
  <2> QED
    BY <2>1, SpanBytes
<1>3. PICK n \in Nat : n = z - x
  OBVIOUS
<1>4. Span(x, z) \in Seq(Nat) /\ Len(Span(x, z)) = n /\ \A j \in 1 .. n : Span(x, z)[j] = x + j
  BY <1>3, SpanBytes
<1>5. PICK s : s = Span(0, x)
  OBVIOUS
<1>6. PICK t : t = Span(x, z)
  OBVIOUS
<1>7. /\ s \o t \in Seq(Nat) /\ Len(s \o t) = x + n
      /\ \A i \in 1 .. x : (s \o t)[i] = s[i]
      /\ \A i \in 1 .. n : (s \o t)[x + i] = t[i]
  <2>1. s \in Seq(Nat) /\ t \in Seq(Nat) /\ Len(s) = x /\ Len(t) = n
    BY <1>1, <1>4, <1>5, <1>6
  <2>2. s \o t \in Seq(Nat) /\ Len(s \o t) = Len(s) + Len(t)
    <3>1. s \in Seq(Nat) /\ t \in Seq(Nat)
      BY <2>1
    <3> QED
      BY <3>1, ConcatProperties
  <2>3. ASSUME NEW i \in 1 .. Len(s) PROVE (s \o t)[i] = s[i]
    BY <2>1
  <2>4. ASSUME NEW i \in 1 .. Len(t) PROVE (s \o t)[Len(s) + i] = t[i]
    BY <2>1
  <2> QED
    BY <2>1, <2>2, <2>3, <2>4
<1>8. ASSUME NEW i \in 1 .. z PROVE (s \o t)[i] = i
  <2>1. CASE i <= x
    BY <1>1, <1>5, <1>7, <2>1
  <2>2. CASE ~(i <= x)
    <3>1. PICK j \in 1 .. n : i = x + j
      <4>1. i - x \in 1 .. n /\ i = x + (i - x)
        BY <1>3, <2>2
      <4> QED
        BY <4>1
    <3> QED
      BY <1>4, <1>6, <1>7, <3>1
  <2> QED
    BY <2>1, <2>2
<1>9. x + n = z
  BY <1>3
<1>10. s \o t = Span(0, z)
  <2>1. \A i \in 1 .. Len(s \o t) : (s \o t)[i] = Span(0, z)[i]
    BY <1>2, <1>7, <1>8, <1>9
  <2> QED
    BY <1>2, <1>7, <1>9, <2>1, SeqEqual
<1> QED
  BY <1>5, <1>6, <1>10

\* Of m packets, packet i the bytes up to st[i], the first k have left the
\* queue rcvd; r bytes have been read, the rest of these k is in bf.
Delivered(st, k, m, rcvd, bf, rd, r) ==
  /\ st \in [Nat -> Nat] /\ k \in Nat /\ m \in Nat /\ r \in Nat
  /\ rcvd \in Seq(Data) /\ k + Len(rcvd) = m
  /\ \A i \in 1 .. Len(rcvd) : rcvd[i] = Span(st[k + i - 1], st[k + i])
  /\ r <= st[k] /\ rd = Span(0, r) /\ bf = Span(r, st[k])
  /\ FrameOrder(st, m)

\* What has been read.
LEMMA DeliveredFacts ==
  ASSUME NEW st, NEW k, NEW m, NEW rcvd, NEW bf, NEW rd, NEW r, Delivered(st, k, m, rcvd, bf, rd, r)
  PROVE  /\ Len(rd) = r /\ rd = Span(0, r) /\ r \in Nat /\ st[m] \in Nat /\ r <= st[m]
         /\ bf = <<>> <=> r = st[k]
         /\ rcvd = <<>> => k = m
<1>1. /\ st \in [Nat -> Nat] /\ k \in Nat /\ m \in Nat /\ r \in Nat
      /\ rcvd \in Seq(Data) /\ k + Len(rcvd) = m
      /\ r <= st[k] /\ rd = Span(0, r) /\ bf = Span(r, st[k])
      /\ FrameOrder(st, m)
  BY DEF Delivered
<1>2. PICK z \in Nat : z = st[k]
  BY <1>1
<1>3. st[m] \in Nat
  BY <1>1
<1>4. k \in 0 .. m /\ m \in 0 .. m
  <2>1. Len(rcvd) \in Nat
    BY <1>1
  <2> QED
    BY <1>1, <2>1
<1>5. z <= st[m]
  <2>1. CASE k = m
    BY <1>2, <1>3, <2>1
  <2>2. CASE k # m
    <3>1. k < m
      BY <1>4, <2>2
    <3>2. st[k] < st[m]
      BY <1>1, <1>4, <3>1 DEF FrameOrder
    <3> QED
      BY <1>2, <1>3, <3>2
  <2> QED
    BY <2>1, <2>2
<1>6. r <= st[m]
  BY <1>1, <1>2, <1>3, <1>5
<1>7. Len(rd) = r
  <2>1. r \in Nat /\ rd = Span(0, r) /\ 0 <= r /\ r - 0 = r
    BY <1>1
  <2> QED
    BY <2>1, SpanBytes
<1>8. bf = <<>> <=> r = st[k]
  <2>1. r \in Nat /\ r <= z /\ bf = Span(r, z)
    BY <1>1, <1>2
  <2>2. bf \in Seq(Nat) /\ Len(bf) = z - r
    BY <2>1, SpanBytes
  <2>3. bf = <<>> <=> Len(bf) = 0
    BY <2>2
  <2> QED
    BY <1>2, <2>1, <2>2, <2>3
<1>9. rcvd = <<>> => k = m
  BY <1>1
<1> QED
  BY <1>1, <1>3, <1>6, <1>7, <1>8, <1>9

\* A packet is passed on to the Receiver.
LEMMA DeliveredAppend ==
  ASSUME NEW st, NEW k, NEW m, NEW rcvd, NEW bf, NEW rd, NEW r, Delivered(st, k, m, rcvd, bf, rd, r),
         NEW K, K = m + 1, FrameOrder(st, K), NEW d, d = Span(st[m], st[K])
  PROVE  Delivered(st, k, K, Append(rcvd, d), bf, rd, r)
<1>1. /\ st \in [Nat -> Nat] /\ k \in Nat /\ m \in Nat /\ r \in Nat
      /\ rcvd \in Seq(Data) /\ k + Len(rcvd) = m
      /\ \A i \in 1 .. Len(rcvd) : rcvd[i] = Span(st[k + i - 1], st[k + i])
      /\ r <= st[k] /\ rd = Span(0, r) /\ bf = Span(r, st[k])
  BY DEF Delivered
<1>2. d \in Data
  <2>1. m \in 0 .. K /\ K \in 0 .. K /\ m < K /\ K \in Nat
    BY <1>1
  <2>2. st[m] < st[K]
    BY <2>1 DEF FrameOrder
  <2>3. st[m] \in Nat /\ st[K] \in Nat
    BY <1>1, <2>1
  <2> QED
    BY <2>2, <2>3, SpanFacts DEF Data
<1>3. PICK n \in Nat : n = Len(rcvd)
  BY <1>1
<1>4. PICK q : q = Append(rcvd, d)
  OBVIOUS
<1>5. q \in Seq(Data) /\ Len(q) = n + 1 /\ q[n + 1] = d /\ \A i \in 1 .. n : q[i] = rcvd[i]
  BY <1>1, <1>2, <1>3, <1>4
<1>6. k \in Nat /\ m = k + n /\ k + (n + 1) = K /\ K \in Nat
  <2>1. k \in Nat /\ m \in Nat
    BY <1>1
  <2>2. m = k + n
    BY <1>1, <1>3
  <2> QED
    BY <2>1, <2>2
<1>7. ASSUME NEW i \in 1 .. n + 1 PROVE q[i] = Span(st[k + i - 1], st[k + i])
  <2>1. CASE i = n + 1
    <3>1. k + i - 1 = m /\ k + i = K
      BY <1>6, <2>1
    <3> QED
      BY <1>5, <2>1, <3>1
  <2>2. CASE i # n + 1
    <3>1. i \in 1 .. n
      BY <2>2
    <3> QED
      BY <1>1, <1>3, <1>5, <3>1
  <2> QED
    BY <2>1, <2>2
<1>8. Delivered(st, k, K, q, bf, rd, r)
  BY <1>1, <1>5, <1>6, <1>7 DEF Delivered
<1> QED
  BY <1>4, <1>8

\* The next packet is taken.
LEMMA DeliveredNext ==
  ASSUME NEW st, NEW k, NEW m, NEW rcvd, NEW bf, NEW rd, NEW r, Delivered(st, k, m, rcvd, bf, rd, r),
         bf = <<>>, rcvd # <<>>
  PROVE  Delivered(st, k + 1, m, Tail(rcvd), Head(rcvd), rd, r) /\ Head(rcvd) # <<>>
<1>1. /\ st \in [Nat -> Nat] /\ k \in Nat /\ m \in Nat /\ r \in Nat
      /\ rcvd \in Seq(Data) /\ k + Len(rcvd) = m
      /\ \A i \in 1 .. Len(rcvd) : rcvd[i] = Span(st[k + i - 1], st[k + i])
      /\ rd = Span(0, r) /\ FrameOrder(st, m)
  BY DEF Delivered
<1>2. r = st[k]
  BY DeliveredFacts
<1>3. PICK K \in Nat : K = k + 1
  BY <1>1
<1>4. PICK q : q = Tail(rcvd)
  OBVIOUS
<1>5. PICK n \in Nat : n = Len(q)
  <2>1. rcvd \in Seq(Data) /\ rcvd # <<>>
    BY <1>1
  <2>2. q \in Seq(Data)
    BY <1>4, <2>1
  <2> QED
    BY <2>2
<1>6. /\ q \in Seq(Data) /\ Len(rcvd) = n + 1 /\ Head(rcvd) = rcvd[1]
      /\ \A i \in 1 .. n : q[i] = rcvd[i + 1]
  BY <1>1, <1>4, <1>5
<1>7. K + n = m
  BY <1>1, <1>3, <1>5, <1>6
<1>8. Head(rcvd) = Span(st[k], st[K])
  <2>1. 1 \in 1 .. n + 1 /\ k + 1 - 1 = k /\ k + 1 = K
    BY <1>1, <1>3
  <2>2. rcvd[1] = Span(st[k + 1 - 1], st[k + 1])
    BY <1>1, <1>6, <2>1
  <2> QED
    BY <1>6, <2>1, <2>2
<1>9. st[k] < st[K] /\ st[K] \in Nat /\ st[k] \in Nat
  <2>1. k \in 0 .. m /\ K \in 0 .. m /\ k < K
    BY <1>1, <1>3, <1>5, <1>7
  <2>2. st[k] < st[K]
    BY <1>1, <2>1 DEF FrameOrder
  <2> QED
    BY <1>1, <1>3, <2>2
<1>10. Head(rcvd) # <<>>
  BY <1>8, <1>9, SpanFacts
<1>11. ASSUME NEW i \in 1 .. n PROVE q[i] = Span(st[K + i - 1], st[K + i])
  <2>1. i + 1 \in 1 .. n + 1 /\ k + (i + 1) - 1 = K + i - 1 /\ k + (i + 1) = K + i
    BY <1>1, <1>3
  <2>2. rcvd[i + 1] = Span(st[k + (i + 1) - 1], st[k + (i + 1)])
    BY <1>1, <1>6, <2>1
  <2> QED
    BY <1>6, <2>1, <2>2
<1>12. r <= st[K] /\ Head(rcvd) = Span(r, st[K])
  BY <1>2, <1>8, <1>9
<1>13. Delivered(st, K, m, q, Head(rcvd), rd, r)
  BY <1>1, <1>5, <1>6, <1>7, <1>11, <1>12 DEF Delivered
<1> QED
  BY <1>3, <1>4, <1>10, <1>13

\* Bytes of the buffered packet are read.
LEMMA DeliveredPart ==
  ASSUME NEW st, NEW k, NEW m, NEW rcvd, NEW bf, NEW rd, NEW r, Delivered(st, k, m, rcvd, bf, rd, r),
         bf # <<>>, NEW n \in Nat \ {0}, NEW l, l = Smaller(n, Len(bf))
  PROVE  /\ l # 0
         /\ \E r2 : Delivered(st, k, m, rcvd, SubSeq(bf, l + 1, Len(bf)), rd \o SubSeq(bf, 1, l), r2)
<1>1. /\ st \in [Nat -> Nat] /\ k \in Nat /\ m \in Nat /\ r \in Nat
      /\ rcvd \in Seq(Data) /\ k + Len(rcvd) = m
      /\ \A i \in 1 .. Len(rcvd) : rcvd[i] = Span(st[k + i - 1], st[k + i])
      /\ r <= st[k] /\ rd = Span(0, r) /\ bf = Span(r, st[k]) /\ FrameOrder(st, m)
  BY DEF Delivered
<1>2. PICK z \in Nat : z = st[k]
  BY <1>1
<1>3. r # z
  BY <1>2, DeliveredFacts
<1>4. r \in Nat /\ r < z /\ bf = Span(r, z) /\ rd = Span(0, r)
  <2>1. r \in Nat /\ r <= z
    BY <1>1, <1>2
  <2>2. r < z
    BY <1>3, <2>1
  <2>3. bf = Span(r, z) /\ rd = Span(0, r)
    BY <1>1, <1>2
  <2> QED
    BY <2>1, <2>2, <2>3
<1>5. Len(bf) = z - r
  <2>1. r <= z
    BY <1>4
  <2>2. Len(Span(r, z)) = z - r
    BY <1>4, <2>1, SpanBytes
  <2> QED
    BY <1>4, <2>2
<1>6. l \in Nat /\ l # 0 /\ r + l <= z /\ l + 1 \in Nat
  <2>1. CASE n <= z - r
    <3>1. l = n
      BY <1>5, <2>1 DEF Smaller
    <3> QED
      BY <1>4, <2>1, <3>1
  <2>2. CASE ~(n <= z - r)
    <3>1. l = z - r
      BY <1>5, <2>2 DEF Smaller
    <3> QED
      BY <1>4, <3>1
  <2> QED
    BY <2>1, <2>2
<1>7. PICK r2 \in Nat : r2 = r + l
  BY <1>4, <1>6
<1>8. SubSeq(bf, 1, l) = Span(r, r2) /\ SubSeq(bf, l + 1, Len(bf)) = Span(r2, z)
  <2>1. r \in Nat /\ l \in Nat /\ r + l <= z
    BY <1>4, <1>6
  <2>2. Divided(r, z, l)
    BY <2>1, SpanSplit
  <2>3. bf = Span(r, z)
    BY <1>4
  <2> QED
    BY <1>5, <1>7, <2>2, <2>3 DEF Divided
<1>9. rd \o SubSeq(bf, 1, l) = Span(0, r2)
  <2>1. r <= r2
    BY <1>4, <1>6, <1>7
  <2> QED
    BY <1>4, <1>8, <2>1, SpanJoin
<1>10. r2 <= z
  BY <1>6, <1>7
<1>11. Delivered(st, k, m, rcvd, Span(r2, z), Span(0, r2), r2)
  BY <1>1, <1>2, <1>7, <1>10 DEF Delivered
<1> QED
  BY <1>6, <1>8, <1>9, <1>11

\* Only the first m packets matter.
LEMMA DeliveredSame ==
  ASSUME NEW st, NEW k, NEW m, NEW rcvd, NEW bf, NEW rd, NEW r, Delivered(st, k, m, rcvd, bf, rd, r),
         NEW st2, st2 \in [Nat -> Nat], \A i \in 0 .. m : st2[i] = st[i]
  PROVE  Delivered(st2, k, m, rcvd, bf, rd, r)
<1>1. /\ k \in Nat /\ m \in Nat /\ r \in Nat
      /\ rcvd \in Seq(Data) /\ k + Len(rcvd) = m
      /\ \A i \in 1 .. Len(rcvd) : rcvd[i] = Span(st[k + i - 1], st[k + i])
      /\ r <= st[k] /\ rd = Span(0, r) /\ bf = Span(r, st[k]) /\ FrameOrder(st, m)
  BY DEF Delivered
<1>2. PICK n \in Nat : n = Len(rcvd)
  BY <1>1
<1>3. k \in 0 .. m /\ \A i \in 1 .. n : k + i - 1 \in 0 .. m /\ k + i \in 0 .. m
  BY <1>1, <1>2
<1>4. r <= st2[k] /\ bf = Span(r, st2[k])
  BY <1>1, <1>3
<1>5. \A i \in 1 .. n : rcvd[i] = Span(st2[k + i - 1], st2[k + i])
  BY <1>1, <1>2, <1>3
<1>6. FrameOrder(st2, m)
  BY <1>1 DEF FrameOrder
<1> QED
  BY <1>1, <1>2, <1>4, <1>5, <1>6 DEF Delivered
-----------------------------------------------------------------------------
(***************************************************************************)
(* Payloads: announcements, packets and the end.                           *)
(***************************************************************************)

\* What a payload says.
PayloadContent(p) == [i \in DOMAIN p |-> p[i][2]]

\* A message.
LEMMA MessageFacts ==
  ASSUME NEW n \in Int \ {0}
  PROVE  Message(n) \in Payloads /\ PayloadContent(Message(n)) = <<n>>
<1>1. PICK c : c = <<"id", n>>
  OBVIOUS
<1>2. c \in PayloadCells /\ c[2] = n
  BY <1>1 DEF PayloadCells
<1>3. Message(n) = <<c>>
  BY <1>1 DEF Message
<1>4. <<c>> \in Seq(PayloadCells) /\ <<c>> # <<>>
  BY <1>2
<1>5. PayloadContent(<<c>>) = <<n>>
  BY <1>2 DEF PayloadContent
<1> QED
  BY <1>3, <1>4, <1>5 DEF Payloads

\* The two messages differ.
LEMMA MessagesDiffer ==
  /\ MsgData \in Int \ {0} /\ MsgSendFinish \in Int \ {0}
  /\ <<MsgData>> # <<MsgSendFinish>>
BY DEF MsgData, MsgSendFinish

\* A packet.
LEMMA BytesFacts ==
  ASSUME NEW x \in Nat, NEW y \in Nat, x < y
  PROVE  Bytes(Span(x, y)) \in Payloads /\ PayloadContent(Bytes(Span(x, y))) = Span(x, y)
<1>1. PICK s \in Seq(Nat \ {0}) : s = Span(x, y) /\ s # <<>>
  BY SpanFacts
<1>2. PICK n \in Nat : n = Len(s) /\ n # 0 /\ DOMAIN s = 1 .. n /\ s \in [1 .. n -> Nat \ {0}]
  BY <1>1
<1>3. PICK p : p = [i \in 1 .. n |-> <<"byte", s[i]>>]
  OBVIOUS
<1>4. Bytes(s) = p
  BY <1>2, <1>3 DEF Bytes
<1>5. \A i \in 1 .. n : <<"byte", s[i]>> \in PayloadCells /\ <<"byte", s[i]>>[2] = s[i]
  BY <1>2 DEF PayloadCells
<1>6. p \in [1 .. n -> PayloadCells] /\ DOMAIN p = 1 .. n /\ \A i \in 1 .. n : p[i][2] = s[i]
  BY <1>3, <1>5
<1>7. p \in Payloads
  <2>1. p \in Seq(PayloadCells)
    BY <1>6
  <2>2. p # <<>>
    <3>1. Len(p) = n
      BY <1>6, <2>1
    <3> QED
      BY <1>2, <3>1
  <2> QED
    BY <2>1, <2>2 DEF Payloads
<1>8. PayloadContent(p) = s
  <2>1. PayloadContent(p) = [i \in 1 .. n |-> p[i][2]]
    BY <1>6 DEF PayloadContent
  <2>2. s = [i \in 1 .. n |-> s[i]]
    BY <1>2
  <2> QED
    BY <1>6, <2>1, <2>2
<1> QED
  BY <1>1, <1>4, <1>7, <1>8

\* The F payloads are M packets, the bytes up to st[1], ..., st[M], each with its
\* announcement, and perhaps the end.
PacketPairs(pay, st, M) ==
  \A i \in 0 .. M - 1 : pay[2 * i] = Message(MsgData) /\ pay[2 * i + 1] = Bytes(Span(st[i], st[i + 1]))
Packets(pay, F, st, M) ==
  /\ st \in [Nat -> Nat] /\ M \in Nat /\ FrameOrder(st, M) /\ PacketPairs(pay, st, M)
  /\ F = 2 * M \/ (F = 2 * M + 1 /\ pay[2 * M] = Message(MsgSendFinish))

\* A packet is added.
LEMMA PacketsMore ==
  ASSUME NEW pay, NEW F, NEW st, NEW M, Packets(pay, F, st, M), F = 2 * M,
         NEW pay2, NEW K, K = M + 1, NEW st2, Sets(st2, st, K, st2[K], Nat), st[M] < st2[K],
         \A f \in 0 .. F - 1 : pay2[f] = pay[f],
         pay2[F] = Message(MsgData), pay2[F + 1] = Bytes(Span(st[M], st2[K]))
  PROVE  Packets(pay2, F + 2, st2, K)
<1>1. st \in [Nat -> Nat] /\ M \in Nat /\ FrameOrder(st, M) /\ PacketPairs(pay, st, M)
  BY DEF Packets
<1>2. M \in Nat /\ K \in Nat /\ K = M + 1 /\ F \in Nat /\ F = 2 * M /\ F + 2 = 2 * K
  BY <1>1
<1>3. st2 \in [Nat -> Nat] /\ \A i \in 0 .. M : st2[i] = st[i]
  <2>1. \A i \in 0 .. M : i \in Nat /\ i # K
    BY <1>2
  <2> QED
    BY <2>1 DEF Sets
<1>4. PICK v \in Nat : v = st2[K] /\ st[M] < v
  BY <1>2, <1>3
<1>5. ASSUME NEW f \in 0 .. K, NEW h \in 0 .. K, f < h PROVE st2[f] < st2[h]
  <2>1. f \in 0 .. M
    BY <1>2, <1>5
  <2>2. M \in 0 .. M
    BY <1>2
  <2>3. CASE h = K
    <3>1. st[f] \in Nat /\ st[M] \in Nat
      BY <1>1, <2>1, <2>2
    <3>2. f = M \/ st[f] < st[M]
      <4>1. f = M \/ f < M
        BY <1>2, <2>1
      <4> QED
        BY <1>1, <2>1, <2>2, <4>1 DEF FrameOrder
    <3>3. st[f] < v
      BY <1>4, <3>1, <3>2
    <3> QED
      BY <1>3, <1>4, <2>1, <2>3, <3>3
  <2>4. CASE h # K
    <3>1. h \in 0 .. M
      BY <1>2, <2>4
    <3>2. st[f] < st[h]
      BY <1>1, <1>5, <2>1, <3>1 DEF FrameOrder
    <3> QED
      BY <1>3, <2>1, <3>1, <3>2
  <2> QED
    BY <2>3, <2>4
<1>6. ASSUME NEW i \in 0 .. K - 1
      PROVE  pay2[2 * i] = Message(MsgData) /\ pay2[2 * i + 1] = Bytes(Span(st2[i], st2[i + 1]))
  <2>1. CASE i = M
    <3>1. 2 * i = F /\ 2 * i + 1 = F + 1 /\ i + 1 = K /\ i \in 0 .. M
      BY <1>2, <2>1
    <3>2. st2[i] = st[M] /\ st2[i + 1] = st2[K]
      BY <1>3, <2>1, <3>1
    <3> QED
      BY <3>1, <3>2
  <2>2. CASE i # M
    <3>1. i \in 0 .. M - 1 /\ i \in 0 .. M /\ i + 1 \in 0 .. M
      BY <1>2, <2>2
    <3>2. 2 * i \in 0 .. F - 1 /\ 2 * i + 1 \in 0 .. F - 1
      BY <1>2, <2>2
    <3>3. pay[2 * i] = Message(MsgData) /\ pay[2 * i + 1] = Bytes(Span(st[i], st[i + 1]))
      BY <1>1, <3>1 DEF PacketPairs
    <3> QED
      BY <1>3, <3>1, <3>2, <3>3
  <2> QED
    BY <2>1, <2>2
<1>7. FrameOrder(st2, K) /\ PacketPairs(pay2, st2, K)
  BY <1>5, <1>6 DEF FrameOrder, PacketPairs
<1> QED
  BY <1>2, <1>3, <1>7 DEF Packets

\* The end is added.
LEMMA PacketsEnd ==
  ASSUME NEW pay, NEW F, NEW st, NEW M, Packets(pay, F, st, M), F = 2 * M,
         NEW pay2, \A f \in 0 .. F - 1 : pay2[f] = pay[f], pay2[F] = Message(MsgSendFinish)
  PROVE  Packets(pay2, F + 1, st, M)
<1>1. st \in [Nat -> Nat] /\ M \in Nat /\ FrameOrder(st, M) /\ PacketPairs(pay, st, M)
  BY DEF Packets
<1>2. M \in Nat /\ F = 2 * M /\ F + 1 = 2 * M + 1
  BY <1>1
<1>3. ASSUME NEW i \in 0 .. M - 1
      PROVE  pay2[2 * i] = pay[2 * i] /\ pay2[2 * i + 1] = pay[2 * i + 1]
  <2>1. 2 * i \in 0 .. F - 1 /\ 2 * i + 1 \in 0 .. F - 1
    BY <1>2
  <2> QED
    BY <2>1
<1>4. PacketPairs(pay2, st, M)
  BY <1>1, <1>3 DEF PacketPairs
<1> QED
  BY <1>1, <1>2, <1>4 DEF Packets

\* An announced packet is next.
LEMMA PacketNext ==
  ASSUME NEW pay, NEW F, NEW st, NEW M, Packets(pay, F, st, M), NEW m, m \in Nat, m < M
  PROVE  /\ pay[2 * m + 1] = Bytes(Span(st[m], st[m + 1])) /\ FrameOrder(st, m + 1)
         /\ st[m] \in Nat /\ st[m + 1] \in Nat /\ st[m] < st[m + 1] /\ st[m + 1] <= st[M] /\ st[M] \in Nat
<1>1. st \in [Nat -> Nat] /\ M \in Nat /\ FrameOrder(st, M) /\ PacketPairs(pay, st, M)
  BY DEF Packets
<1>2. PICK K \in Nat : K = m + 1 /\ K <= M
  BY <1>1
<1>3. m \in 0 .. M - 1 /\ m \in 0 .. M /\ K \in 0 .. M /\ M \in 0 .. M /\ m < K
  BY <1>1, <1>2
<1>4. pay[2 * m + 1] = Bytes(Span(st[m], st[m + 1]))
  BY <1>1, <1>3 DEF PacketPairs
<1>5. FrameOrder(st, K)
  <2>1. \A f \in 0 .. K : f \in 0 .. M
    BY <1>1, <1>2
  <2> QED
    BY <1>1, <2>1 DEF FrameOrder
<1>6. st[m] \in Nat /\ st[K] \in Nat /\ st[M] \in Nat
  BY <1>1, <1>2
<1>7. st[m] < st[K]
  BY <1>1, <1>3 DEF FrameOrder
<1>8. st[K] <= st[M]
  <2>1. CASE K = M
    BY <1>6, <2>1
  <2>2. CASE K # M
    <3>1. K < M
      BY <1>1, <1>2, <2>2
    <3>2. st[K] < st[M]
      BY <1>1, <1>3, <3>1 DEF FrameOrder
    <3> QED
      BY <1>6, <3>2
  <2> QED
    BY <2>1, <2>2
<1> QED
  BY <1>2, <1>4, <1>5, <1>6, <1>7, <1>8

\* A message is next.
LEMMA MessageNext ==
  ASSUME NEW pay, NEW F, NEW st, NEW M, Packets(pay, F, st, M), NEW m, m \in Nat, m <= M,
         NEW d, d = 2 * m, d < F
  PROVE  (m < M /\ pay[d] = Message(MsgData)) \/ (m = M /\ F # 2 * M /\ pay[d] = Message(MsgSendFinish))
<1>1. M \in Nat /\ PacketPairs(pay, st, M)
  BY DEF Packets
<1>2. CASE m < M
  <2>1. m \in 0 .. M - 1
    BY <1>1, <1>2
  <2> QED
    BY <1>1, <1>2, <2>1 DEF PacketPairs
<1>3. CASE ~(m < M)
  <2>1. m = M
    BY <1>1, <1>3
  <2>2. F # 2 * M
    BY <1>1, <2>1
  <2> QED
    BY <2>1, <2>2 DEF Packets
<1> QED
  BY <1>2, <1>3
-----------------------------------------------------------------------------
(***************************************************************************)
(* What is left: received, in flight and in the transmit buffers.          *)
(***************************************************************************)

\* Cells are joined in any order.
LEMMA Associates ==
  ASSUME NEW s \in Seq(Cells), NEW t \in Seq(Cells), NEW u \in Seq(Cells)
  PROVE  (s \o t) \o u = s \o (t \o u)
BY ConcatAssociative, SMT

\* The first part of a sequence.
LEMMA TakeFacts ==
  ASSUME NEW C, NEW s \in Seq(C), NEW n \in 1 .. Len(s)
  PROVE  SubSeq(s, 1, n) \in Seq(C)
OBVIOUS

\* The cells that were sent and not consumed.
Left(i, w, o) == i \o (w \o o)

\* More in the transmit buffers is more at the end.
Extends(i, w, o, E) == o \o E \in Seq(Cells) /\ Left(i, w, o \o E) = Left(i, w, o) \o E

\* More is put into the transmit buffers.
LEMMA LeftMore ==
  ASSUME NEW i \in Seq(Cells), NEW w \in Seq(Cells), NEW o \in Seq(Cells), NEW E \in Seq(Cells)
  PROVE  Extends(i, w, o, E)
<1>1. o \o E \in Seq(Cells) /\ w \o o \in Seq(Cells)
  BY ConcatFacts
<1>2. w \o (o \o E) = (w \o o) \o E
  BY Associates, ZenonT(30)
<1>3. PICK t \in Seq(Cells) : t = w \o o
  BY <1>1
<1>4. i \o (t \o E) = (i \o t) \o E
  <2>1. t \in Seq(Cells)
    BY <1>3
  <2> QED
    BY <2>1, Associates, ZenonT(30)
<1> QED
  BY <1>1, <1>2, <1>3, <1>4 DEF Left, Extends

\* They are written to the stream.
LEMMA LeftTransmit ==
  ASSUME NEW i \in Seq(Cells), NEW w \in Seq(Cells), NEW o \in Seq(Cells)
  PROVE  w \o o \in Seq(Cells) /\ Left(i, w \o o, <<>>) = Left(i, w, o) /\ Left(i, w, o) \in Seq(Cells)
<1>1. PICK t \in Seq(Cells) : t = w \o o
  BY ConcatFacts
<1>2. t \o <<>> = t
  BY ConcatEmptySeq
<1>3. i \o t \in Seq(Cells)
  BY ConcatFacts
<1> QED
  BY <1>1, <1>2, <1>3 DEF Left

\* They arrive.
LEMMA LeftDeliver ==
  ASSUME NEW i \in Seq(Cells), NEW w \in Seq(Cells), NEW o \in Seq(Cells), NEW n \in 1 .. Len(w)
  PROVE  /\ i \o SubSeq(w, 1, n) \in Seq(Cells) /\ SubSeq(w, n + 1, Len(w)) \in Seq(Cells)
         /\ Left(i \o SubSeq(w, 1, n), SubSeq(w, n + 1, Len(w)), o) = Left(i, w, o)
<1>1. PICK a \in Seq(Cells) : a = SubSeq(w, 1, n)
  BY TakeFacts
<1>2. PICK b \in Seq(Cells) : b = SubSeq(w, n + 1, Len(w))
  <2>1. n \in 0 .. Len(w)
    OBVIOUS
  <2> QED
    BY <2>1, DropFacts
<1>3. a \o b = w
  <2>1. PICK l \in Nat : l = Len(w)
    OBVIOUS
  <2>2. 1 \in 1 .. Len(w) + 1 /\ n \in 1 - 1 .. Len(w) /\ l \in n .. Len(w)
    BY <2>1
  <2>3. SubSeq(w, 1, n) \o SubSeq(w, n + 1, l) = SubSeq(w, 1, l)
    BY <2>2, ConcatAdjacentSubSeq
  <2>4. SubSeq(w, 1, l) = w
    BY <2>1, SubSeqFull
  <2> QED
    BY <1>1, <1>2, <2>1, <2>3, <2>4
<1>4. i \o a \in Seq(Cells) /\ b \o o \in Seq(Cells)
  BY <1>1, <1>2, ConcatFacts
<1>5. PICK t \in Seq(Cells) : t = b \o o
  BY <1>4
<1>6. (i \o a) \o t = i \o (a \o t)
  <2>1. a \in Seq(Cells)
    BY <1>1
  <2>2. \A u \in Seq(Cells) : (i \o a) \o u = i \o (a \o u)
    BY <2>1, Associates, ZenonT(30)
  <2>3. t \in Seq(Cells)
    BY <1>5
  <2> QED
    BY <2>2, <2>3
<1>7. (a \o b) \o o = a \o (b \o o)
  <2>1. a \in Seq(Cells) /\ b \in Seq(Cells)
    BY <1>1, <1>2
  <2> QED
    BY <2>1, Associates, ZenonT(30)
<1> QED
  BY <1>1, <1>2, <1>3, <1>4, <1>5, <1>6, <1>7 DEF Left

\* What is in the transmit buffers is dropped.
LEMMA LeftCut ==
  ASSUME NEW i \in Seq(Cells), NEW w \in Seq(Cells), NEW o \in Seq(Cells)
  PROVE  /\ Left(i, w, <<>>) \in Seq(Cells) /\ Len(Left(i, w, <<>>)) <= Len(Left(i, w, o))
         /\ \A j \in 1 .. Len(Left(i, w, <<>>)) : Left(i, w, <<>>)[j] = Left(i, w, o)[j]
<1>1. w \o <<>> = w
  BY ConcatEmptySeq
<1>2. PICK s \in Seq(Cells) : s = i \o w
  BY ConcatFacts
<1>3. (i \o w) \o o = i \o (w \o o)
  BY ConcatAssociative
<1>4. Left(i, w, o) = s \o o /\ Left(i, w, <<>>) = s
  BY <1>1, <1>2, <1>3 DEF Left
<1>5. Len(s \o o) = Len(s) + Len(o) /\ Len(s) \in Nat /\ Len(o) \in Nat /\ \A j \in 1 .. Len(s) : (s \o o)[j] = s[j]
  BY ConcatFacts
<1>6. Len(s) <= Len(s \o o)
  BY <1>5
<1> QED
  BY <1>4, <1>5, <1>6

\* The first n cells are those received.
Received(i, w, o, n) ==
  /\ Left(i, w, o) \in Seq(Cells) /\ n <= Len(Left(i, w, o))
  /\ SubSeq(Left(i, w, o), 1, n) = SubSeq(i, 1, n)
  /\ SubSeq(Left(i, w, o), n + 1, Len(Left(i, w, o))) = Left(SubSeq(i, n + 1, Len(i)), w, o)
  /\ SubSeq(i, n + 1, Len(i)) \in Seq(Cells)
  /\ \A j \in 1 .. n : Left(i, w, o)[j] = i[j]

\* The first of them are those received.
LEMMA LeftTake ==
  ASSUME NEW i \in Seq(Cells), NEW w \in Seq(Cells), NEW o \in Seq(Cells), NEW n \in Nat, n <= Len(i)
  PROVE  Received(i, w, o, n)
<1>1. PICK t \in Seq(Cells) : t = w \o o
  BY ConcatFacts
<1>2. PICK S : S = i \o t
  OBVIOUS
<1>3. PICK a \in Nat : a = Len(i) /\ n <= a
  OBVIOUS
<1>4. PICK b \in Nat : b = Len(t)
  OBVIOUS
<1>5. /\ S \in Seq(Cells) /\ Len(S) = a + b /\ \A j \in 1 .. a : S[j] = i[j]
      /\ \A j \in 1 .. b : S[a + j] = t[j]
  BY <1>2, <1>3, <1>4, ConcatFacts
<1>6. n <= Len(S) /\ n \in 0 .. a /\ n \in 0 .. Len(S) /\ \A j \in 1 .. n : S[j] = i[j]
  BY <1>3, <1>5
<1>7. SubSeq(S, 1, n) = SubSeq(i, 1, n)
  <2>1. PICK u : u = SubSeq(S, 1, n)
    OBVIOUS
  <2>2. PICK v : v = SubSeq(i, 1, n)
    OBVIOUS
  <2>3. u \in Seq(Cells) /\ Len(u) = n /\ \A j \in 1 .. n : u[j] = S[j]
    BY <1>5, <1>6, <2>1
  <2>4. v \in Seq(Cells) /\ Len(v) = n /\ \A j \in 1 .. n : v[j] = i[j]
    BY <1>3, <1>6, <2>2
  <2>5. \A j \in 1 .. Len(u) : u[j] = v[j]
    BY <1>6, <2>3, <2>4
  <2> QED
    BY <2>1, <2>2, <2>3, <2>4, <2>5, SeqEqual
<1>8. PICK r : r = SubSeq(i, n + 1, Len(i))
  OBVIOUS
<1>9. PICK c \in Nat : c = a - n
  <2>1. \A x, y \in Nat : y <= x => x - y \in Nat
    OBVIOUS
  <2> QED
    BY <1>3, <2>1
<1>10. r \in Seq(Cells) /\ Len(r) = c /\ \A j \in 1 .. c : r[j] = i[n + j]
  <2>1. n \in 0 .. Len(i)
    BY <1>3
  <2> QED
    BY <1>3, <1>8, <1>9, <2>1, DropFacts
<1>11. PICK R : R = SubSeq(S, n + 1, Len(S))
  OBVIOUS
<1>12. R \in Seq(Cells) /\ Len(R) = c + b /\ \A j \in 1 .. c + b : R[j] = S[n + j]
  <2>1. Len(S) - n = c + b
    BY <1>5, <1>9
  <2> QED
    BY <1>5, <1>6, <1>11, <2>1, DropFacts
<1>13. /\ r \o t \in Seq(Cells) /\ Len(r \o t) = c + b /\ \A j \in 1 .. c : (r \o t)[j] = r[j]
       /\ \A j \in 1 .. b : (r \o t)[c + j] = t[j]
  <2>1. r \in Seq(Cells) /\ t \in Seq(Cells)
    BY <1>1, <1>10
  <2>2. /\ r \o t \in Seq(Cells) /\ Len(r \o t) = Len(r) + Len(t)
        /\ \A j \in 1 .. Len(r) : (r \o t)[j] = r[j]
        /\ \A j \in 1 .. Len(t) : (r \o t)[Len(r) + j] = t[j]
    BY <2>1, ConcatFacts
  <2> QED
    BY <1>4, <1>10, <2>2
<1>14. ASSUME NEW j \in 1 .. c + b PROVE R[j] = (r \o t)[j]
  <2>1. CASE j <= c
    <3>1. j \in 1 .. c /\ n + j \in 1 .. a
      BY <1>9, <2>1
    <3> QED
      BY <1>5, <1>10, <1>12, <1>13, <3>1
  <2>2. CASE ~(j <= c)
    <3>1. PICK h \in 1 .. b : j = c + h
      <4>1. j - c \in 1 .. b /\ j = c + (j - c)
        BY <2>2
      <4> QED
        BY <4>1
    <3>2. n + j = a + h
      BY <1>9, <3>1
    <3> QED
      BY <1>5, <1>12, <1>13, <3>1, <3>2
  <2> QED
    BY <2>1, <2>2
<1>15. R = r \o t
  <2>1. \A j \in 1 .. Len(R) : R[j] = (r \o t)[j]
    BY <1>12, <1>14
  <2> QED
    BY <1>12, <1>13, <2>1, SeqEqual
<1>16. Left(i, w, o) = S /\ Left(r, w, o) = r \o t
  BY <1>1, <1>2 DEF Left
<1> QED
  BY <1>5, <1>6, <1>7, <1>8, <1>10, <1>11, <1>15, <1>16 DEF Received

\* S2 is S but for one cell, c in the place of u.
OneAltered(S2, S, u, c) ==
  \E k \in 1 .. Len(S) :
    /\ S[k] = u /\ S2 \in Seq(Cells) /\ Len(S2) = Len(S) /\ S2[k] = c
    /\ \A j \in 1 .. Len(S) : j # k => S2[j] = S[j]

\* The first cell in flight is another one.
LEMMA LeftAltered ==
  ASSUME NEW i \in Seq(Cells), NEW w \in Seq(Cells), NEW o \in Seq(Cells), w # <<>>, NEW c \in Cells
  PROVE  /\ <<c>> \o Tail(w) \in Seq(Cells)
         /\ OneAltered(Left(i, <<c>> \o Tail(w), o), Left(i, w, o), Head(w), c)
<1>1. PICK a \in Nat : a = Len(i)
  OBVIOUS
<1>2. PICK l \in Nat : l = Len(w) /\ l # 0
  OBVIOUS
<1>3. PICK b \in Nat : b = Len(o)
  OBVIOUS
<1>4. PICK t : t = Tail(w)
  OBVIOUS
<1>5. t \in Seq(Cells) /\ Len(t) = l - 1 /\ (\A j \in 1 .. l - 1 : t[j] = w[j + 1]) /\ Head(w) = w[1]
  BY <1>2, <1>4
<1>6. PICK h : h = <<c>>
  OBVIOUS
<1>7. h \in Seq(Cells) /\ Len(h) = 1 /\ h[1] = c
  BY <1>6
<1>8. PICK v : v = h \o t
  OBVIOUS
<1>9. v \in Seq(Cells) /\ Len(v) = l /\ v[1] = c /\ \A j \in 2 .. l : v[j] = w[j]
  <2>1. /\ v \in Seq(Cells) /\ Len(v) = 1 + (l - 1) /\ \A j \in 1 .. 1 : v[j] = h[j]
        /\ \A j \in 1 .. l - 1 : v[1 + j] = t[j]
    <3>1. /\ h \o t \in Seq(Cells) /\ Len(h \o t) = Len(h) + Len(t)
          /\ \A j \in 1 .. Len(h) : (h \o t)[j] = h[j]
          /\ \A j \in 1 .. Len(t) : (h \o t)[Len(h) + j] = t[j]
      <4>1. h \in Seq(Cells) /\ t \in Seq(Cells)
        BY <1>5, <1>7
      <4> QED
        BY <4>1, ConcatFacts
    <3> QED
      BY <1>5, <1>7, <1>8, <3>1
  <2>2. 1 + (l - 1) = l /\ 1 \in 1 .. 1
    OBVIOUS
  <2>3. ASSUME NEW j \in 2 .. l PROVE v[j] = w[j]
    <3>1. PICK n \in 1 .. l - 1 : j = 1 + n /\ j = n + 1
      <4>1. j - 1 \in 1 .. l - 1 /\ j = 1 + (j - 1) /\ j = (j - 1) + 1
        OBVIOUS
      <4> QED
        BY <4>1
    <3>2. v[1 + n] = t[n] /\ t[n] = w[n + 1]
      BY <1>5, <2>1, <3>1
    <3> QED
      BY <3>1, <3>2
  <2> QED
    BY <1>7, <2>1, <2>2, <2>3
<1>10. PICK S : S = Left(i, w, o)
  OBVIOUS
<1>11. PICK S2 : S2 = Left(i, v, o)
  OBVIOUS
<1>12. ASSUME NEW x \in Seq(Cells), Len(x) = l
       PROVE  /\ Left(i, x, o) \in Seq(Cells) /\ Len(Left(i, x, o)) = a + (l + b)
              /\ \A j \in 1 .. a : Left(i, x, o)[j] = i[j]
              /\ \A j \in 1 .. l : Left(i, x, o)[a + j] = x[j]
              /\ \A j \in 1 .. b : Left(i, x, o)[a + (l + j)] = o[j]
  <2>1. PICK y : y = x \o o
    OBVIOUS
  <2>2. /\ y \in Seq(Cells) /\ Len(y) = l + b /\ \A j \in 1 .. l : y[j] = x[j]
        /\ \A j \in 1 .. b : y[l + j] = o[j]
    <3>1. /\ x \o o \in Seq(Cells) /\ Len(x \o o) = Len(x) + Len(o)
          /\ \A j \in 1 .. Len(x) : (x \o o)[j] = x[j]
          /\ \A j \in 1 .. Len(o) : (x \o o)[Len(x) + j] = o[j]
      BY ConcatFacts
    <3> QED
      BY <1>3, <1>12, <2>1, <3>1
  <2>3. PICK z : z = i \o y
    OBVIOUS
  <2>4. /\ z \in Seq(Cells) /\ Len(z) = a + (l + b) /\ \A j \in 1 .. a : z[j] = i[j]
        /\ \A j \in 1 .. l + b : z[a + j] = y[j]
    <3>1. /\ i \o y \in Seq(Cells) /\ Len(i \o y) = Len(i) + Len(y)
          /\ \A j \in 1 .. Len(i) : (i \o y)[j] = i[j]
          /\ \A j \in 1 .. Len(y) : (i \o y)[Len(i) + j] = y[j]
      <4>1. y \in Seq(Cells)
        BY <2>2
      <4> QED
        BY <4>1, ConcatFacts
    <3> QED
      BY <1>1, <2>2, <2>3, <3>1
  <2>5. /\ \A j \in 1 .. l : j \in 1 .. l + b
        /\ \A j \in 1 .. b : l + j \in 1 .. l + b
    OBVIOUS
  <2>6. z = Left(i, x, o)
    BY <2>1, <2>3 DEF Left
  <2> QED
    BY <2>2, <2>4, <2>5, <2>6
<1>13. /\ S \in Seq(Cells) /\ Len(S) = a + (l + b)
       /\ \A j \in 1 .. a : S[j] = i[j]
       /\ \A j \in 1 .. l : S[a + j] = w[j]
       /\ \A j \in 1 .. b : S[a + (l + j)] = o[j]
  BY <1>2, <1>10, <1>12
<1>14. /\ S2 \in Seq(Cells) /\ Len(S2) = a + (l + b)
       /\ \A j \in 1 .. a : S2[j] = i[j]
       /\ \A j \in 1 .. l : S2[a + j] = v[j]
       /\ \A j \in 1 .. b : S2[a + (l + j)] = o[j]
  BY <1>9, <1>11, <1>12
<1>15. PICK k \in Nat : k = a + 1
  OBVIOUS
<1>16. k \in 1 .. Len(S) /\ S[k] = Head(w) /\ S2[k] = c
  <2>1. 1 \in 1 .. l /\ k \in 1 .. a + (l + b)
    BY <1>2, <1>15
  <2> QED
    BY <1>5, <1>9, <1>13, <1>14, <1>15, <2>1
<1>17. ASSUME NEW j \in 1 .. a + (l + b), j # k PROVE S2[j] = S[j]
  <2>1. CASE j <= a
    BY <1>13, <1>14, <2>1
  <2>2. CASE a < j /\ j <= a + l
    <3>1. PICK n \in 2 .. l : j = a + n
      <4>1. j - a \in 2 .. l /\ j = a + (j - a)
        BY <1>15, <1>17, <2>2
      <4> QED
        BY <4>1
    <3>2. n \in 1 .. l
      BY <3>1
    <3> QED
      BY <1>9, <1>13, <1>14, <3>1, <3>2
  <2>3. CASE a + l < j
    <3>1. PICK n \in 1 .. b : j = a + (l + n)
      <4>1. j - a - l \in 1 .. b /\ j = a + (l + (j - a - l))
        BY <2>3
      <4> QED
        BY <4>1
    <3> QED
      BY <1>13, <1>14, <3>1
  <2> QED
    BY <2>1, <2>2, <2>3
<1>18. <<c>> \o Tail(w) = v
  BY <1>4, <1>6, <1>8
<1>19. /\ S[k] = Head(w) /\ v \in Seq(Cells) /\ S2 \in Seq(Cells) /\ Len(S2) = Len(S) /\ S2[k] = c
       /\ \A j \in 1 .. Len(S) : j # k => S2[j] = S[j]
  BY <1>9, <1>13, <1>14, <1>16, <1>17
<1>20. OneAltered(S2, S, Head(w), c)
  BY <1>16, <1>19 DEF OneAltered
<1> QED
  BY <1>10, <1>11, <1>18, <1>19, <1>20

\* S2 is S without n cells, of which u is the first.
FrontLost(S2, S, u, n) ==
  /\ S2 \in Seq(Cells)
  /\ \E k \in 0 .. Len(S) - 1 :
       /\ S[k + 1] = u /\ k + n <= Len(S) /\ Len(S2) = Len(S) - n
       /\ \A j \in 1 .. Len(S2) : S2[j] = IF j <= k THEN S[j] ELSE S[j + n]

\* The first cells in flight are lost.
LEMMA LeftLost ==
  ASSUME NEW i \in Seq(Cells), NEW w \in Seq(Cells), NEW o \in Seq(Cells), NEW n \in Nat, n <= Len(w),
         w # <<>>
  PROVE  /\ SubSeq(w, n + 1, Len(w)) \in Seq(Cells)
         /\ FrontLost(Left(i, SubSeq(w, n + 1, Len(w)), o), Left(i, w, o), w[1], n)
<1>1. PICK v : v = SubSeq(w, n + 1, Len(w))
  OBVIOUS
<1>2. PICK S : S = Left(i, w, o)
  OBVIOUS
<1>3. PICK S2 : S2 = Left(i, v, o)
  OBVIOUS
<1>4. PICK a \in Nat : a = Len(i)
  OBVIOUS
<1>5. PICK l \in Nat : l = Len(w) /\ l # 0
  OBVIOUS
<1>6. PICK b \in Nat : b = Len(o)
  OBVIOUS
<1>7. n <= l
  BY <1>5
<1>8. PICK m \in Nat : m = l - n
  <2>1. \A x, y \in Nat : y <= x => x - y \in Nat
    OBVIOUS
  <2> QED
    BY <1>7, <2>1
<1>9. v \in Seq(Cells) /\ Len(v) = m /\ \A j \in 1 .. m : v[j] = w[n + j]
  <2>1. n \in 0 .. Len(w)
    BY <1>5, <1>7
  <2>2. /\ SubSeq(w, n + 1, Len(w)) \in Seq(Cells) /\ Len(SubSeq(w, n + 1, Len(w))) = Len(w) - n
        /\ \A j \in 1 .. Len(w) - n : SubSeq(w, n + 1, Len(w))[j] = w[n + j]
    BY <2>1, DropFacts
  <2> QED
    BY <1>1, <1>5, <1>8, <2>2
<1>10. ASSUME NEW x \in Seq(Cells), NEW y \in Nat, Len(x) = y
       PROVE  /\ Left(i, x, o) \in Seq(Cells) /\ Len(Left(i, x, o)) = a + (y + b)
              /\ \A j \in 1 .. a : Left(i, x, o)[j] = i[j]
              /\ \A j \in 1 .. y : Left(i, x, o)[a + j] = x[j]
              /\ \A j \in 1 .. b : Left(i, x, o)[a + (y + j)] = o[j]
  <2>1. PICK u : u = x \o o
    OBVIOUS
  <2>2. /\ u \in Seq(Cells) /\ Len(u) = y + b /\ \A j \in 1 .. y : u[j] = x[j]
        /\ \A j \in 1 .. b : u[y + j] = o[j]
    <3>1. /\ x \o o \in Seq(Cells) /\ Len(x \o o) = Len(x) + Len(o)
          /\ \A j \in 1 .. Len(x) : (x \o o)[j] = x[j]
          /\ \A j \in 1 .. Len(o) : (x \o o)[Len(x) + j] = o[j]
      BY ConcatFacts
    <3> QED
      BY <1>6, <1>10, <2>1, <3>1
  <2>3. PICK z : z = i \o u
    OBVIOUS
  <2>4. /\ z \in Seq(Cells) /\ Len(z) = a + (y + b) /\ \A j \in 1 .. a : z[j] = i[j]
        /\ \A j \in 1 .. y + b : z[a + j] = u[j]
    <3>1. /\ i \o u \in Seq(Cells) /\ Len(i \o u) = Len(i) + Len(u)
          /\ \A j \in 1 .. Len(i) : (i \o u)[j] = i[j]
          /\ \A j \in 1 .. Len(u) : (i \o u)[Len(i) + j] = u[j]
      <4>1. u \in Seq(Cells)
        BY <2>2
      <4> QED
        BY <4>1, ConcatFacts
    <3> QED
      BY <1>4, <2>2, <2>3, <3>1
  <2>5. /\ \A j \in 1 .. y : j \in 1 .. y + b
        /\ \A j \in 1 .. b : y + j \in 1 .. y + b
    OBVIOUS
  <2>6. z = Left(i, x, o)
    BY <2>1, <2>3 DEF Left
  <2> QED
    BY <2>2, <2>4, <2>5, <2>6
<1>11. /\ S \in Seq(Cells) /\ Len(S) = a + (l + b)
       /\ \A j \in 1 .. a : S[j] = i[j]
       /\ \A j \in 1 .. l : S[a + j] = w[j]
       /\ \A j \in 1 .. b : S[a + (l + j)] = o[j]
  BY <1>2, <1>5, <1>10
<1>12. /\ S2 \in Seq(Cells) /\ Len(S2) = a + (m + b)
       /\ \A j \in 1 .. a : S2[j] = i[j]
       /\ \A j \in 1 .. m : S2[a + j] = v[j]
       /\ \A j \in 1 .. b : S2[a + (m + j)] = o[j]
  <2>1. v \in Seq(Cells) /\ Len(v) = m
    BY <1>9
  <2>2. /\ Left(i, v, o) \in Seq(Cells) /\ Len(Left(i, v, o)) = a + (m + b)
        /\ \A j \in 1 .. a : Left(i, v, o)[j] = i[j]
        /\ \A j \in 1 .. m : Left(i, v, o)[a + j] = v[j]
        /\ \A j \in 1 .. b : Left(i, v, o)[a + (m + j)] = o[j]
    BY <1>10, <2>1
  <2> QED
    BY <1>3, <2>2
<1>13. /\ a + (l + b) - n = a + (m + b) /\ a + n <= a + (l + b) /\ a \in 0 .. a + (l + b) - 1
       /\ 1 \in 1 .. l
  BY <1>5, <1>7, <1>8
<1>14. ASSUME NEW j \in 1 .. a + (m + b) PROVE S2[j] = IF j <= a THEN S[j] ELSE S[j + n]
  <2>1. CASE j <= a
    BY <1>11, <1>12, <2>1
  <2>2. CASE a < j /\ j <= a + m
    <3>1. PICK h \in 1 .. m : j = a + h
      <4>1. j - a \in 1 .. m /\ j = a + (j - a)
        BY <2>2
      <4> QED
        BY <4>1
    <3>2. n + h \in 1 .. l /\ j + n = a + (n + h)
      BY <1>8, <3>1
    <3>3. S2[j] = w[n + h]
      BY <1>9, <1>12, <3>1
    <3>4. S[j + n] = w[n + h]
      BY <1>11, <3>2
    <3> QED
      BY <2>2, <3>3, <3>4
  <2>3. CASE a + m < j
    <3>1. PICK h \in 1 .. b : j = a + (m + h)
      <4>1. j - a - m \in 1 .. b /\ j = a + (m + (j - a - m))
        BY <2>3
      <4> QED
        BY <4>1
    <3>2. j + n = a + (l + h) /\ ~(j <= a)
      BY <1>8, <3>1
    <3> QED
      BY <1>11, <1>12, <3>1, <3>2
  <2> QED
    BY <2>1, <2>2, <2>3
<1>15. S[a + 1] = w[1]
  BY <1>11, <1>13
<1>16. a \in 0 .. Len(S) - 1 /\ a + n <= Len(S) /\ Len(S2) = Len(S) - n
  <2>1. Len(S) = a + (l + b) /\ Len(S2) = a + (m + b)
    BY <1>11, <1>12
  <2> QED
    BY <1>13, <2>1
<1>17. \A j \in 1 .. Len(S2) : S2[j] = IF j <= a THEN S[j] ELSE S[j + n]
  BY <1>12, <1>14
<1>18. v \in Seq(Cells) /\ S2 \in Seq(Cells)
  BY <1>9, <1>12
<1>19. FrontLost(S2, S, w[1], n)
  BY <1>15, <1>16, <1>17, <1>18 DEF FrontLost
<1> QED
  BY <1>1, <1>2, <1>3, <1>18, <1>19

\* An unaltered length is one.
LEMMA WayLength ==
  ASSUME NEW T, NEW pay, NEW pos, NEW num, NEW F \in Nat, Framed(T, pay, pos, num, F),
         NEW c \in Nat, NEW S, NEW snd, NEW flt, ~Faulty(flt), Way(S, T, c, pos, F, snd, flt),
         NEW k \in 1 .. Len(S), S[k][1] = "len"
  PROVE  S[k][2] \in Nat
<1>1. T \in Seq(Cells)
  BY FrameFacts
<1>2. /\ S \in Seq(Cells) /\ c + Len(S) <= Len(T) /\ \A i \in 1 .. Len(S) : S[i] = T[c + i]
  BY <1>1, WayIntact
<1>3. PICK p \in 1 .. Len(T) : p = c + k
  BY <1>1, <1>2
<1>4. S[k] = T[p]
  BY <1>2, <1>3
<1>5. PICK f \in 0 .. F - 1 : T[p] = LenCell(Len(pay[f]))
  <2>1. T[p][1] = "len"
    BY <1>4
  <2>2. \A s, x : SeqCell(s, x)[1] # "len"
    BY CellFields
  <2>3. \A v \in PayloadCells : v[1] # "len"
    BY DEF PayloadCells
  <2> QED
    BY <2>1, <2>2, <2>3, CellKinds
<1>6. PICK n \in Nat : n = Len(pay[f])
  BY FrameFacts
<1>7. S[k] = LenCell(n)
  BY <1>4, <1>5, <1>6
<1> QED
  BY <1>6, <1>7, CellFields

\* What is known of a state of the codec.
LEMMA CodecFacts ==
  ASSUME NEW pay, NEW F, NEW d, NEW snd, NEW es, NEW S, NEW hd, NEW ds, NEW flt,
         CodecState(pay, F, d, snd, es, S, hd, ds, flt)
  PROVE  /\ F \in Nat /\ d \in 0 .. F /\ pay \in [Nat -> Payloads] /\ es \in 0 .. SeqMod - 1
         /\ hd # <<>> => hd[1] \in Nat
<1>1. PICK T, pos, num :
        /\ F \in Nat /\ d \in 0 .. F /\ Framed(T, pay, pos, num, F) /\ es = num[F]
        /\ \/ hd = <<>> /\ ds = num[d] /\ Way(S, T, pos[d], pos, F, snd, flt)
           \/ /\ d < F /\ hd = <<Len(pay[d]), pay[d]>> /\ ds = num[d + 1]
              /\ Way(S, T, pos[d] + 2, pos, F, snd, flt)
           \/ Faulty(flt) /\ \E n, y : hd = <<n, y>> /\ BadHeader(n, y)
  BY DEF CodecState
<1>2. F \in Nat /\ d \in 0 .. F
  BY <1>1
<1>3. pay \in [Nat -> Payloads]
  BY <1>1 DEF Framed, FrameType
<1>4. es \in 0 .. SeqMod - 1
  <2>1. num[F] \in 0 .. SeqMod - 1
    BY <1>1, FrameFacts
  <2> QED
    BY <1>1, <2>1
<1>5. ASSUME hd # <<>> PROVE hd[1] \in Nat
  <2>1. CASE hd = <<Len(pay[d]), pay[d]>>
    <3>1. Len(pay[d]) \in Nat
      <4>1. d \in Nat /\ Framed(T, pay, pos, num, F)
        BY <1>1
      <4> QED
        BY <4>1, FrameFacts
    <3> QED
      BY <2>1, <3>1
  <2>2. CASE \E n, y : hd = <<n, y>> /\ BadHeader(n, y)
    <3>1. PICK n, y : hd = <<n, y>> /\ BadHeader(n, y)
      BY <2>2
    <3> QED
      BY <3>1 DEF BadHeader
  <2> QED
    BY <1>1, <1>5, <2>1, <2>2
<1> QED
  BY <1>2, <1>3, <1>4, <1>5

\* The first cell in flight, when it is a length.
LEMMA CodecLength ==
  ASSUME NEW pay, NEW F, NEW d, NEW snd, NEW es, NEW S, NEW hd, NEW ds, NEW flt,
         CodecState(pay, F, d, snd, es, S, hd, ds, flt), ~Faulty(flt),
         NEW k \in 1 .. Len(S), S[k][1] = "len"
  PROVE  S[k][2] \in Nat
<1>1. PICK T, pos, num :
        /\ F \in Nat /\ d \in 0 .. F /\ Framed(T, pay, pos, num, F) /\ es = num[F]
        /\ \/ hd = <<>> /\ ds = num[d] /\ Way(S, T, pos[d], pos, F, snd, flt)
           \/ /\ d < F /\ hd = <<Len(pay[d]), pay[d]>> /\ ds = num[d + 1]
              /\ Way(S, T, pos[d] + 2, pos, F, snd, flt)
  BY DEF CodecState
<1>2. pos[d] \in Nat /\ pos[d] + 2 \in Nat
  <2>1. d \in Nat
    BY <1>1
  <2>2. pos[d] \in Nat
    BY <1>1, <2>1, FrameFacts
  <2> QED
    BY <2>2
<1>3. PICK c \in Nat : Way(S, T, c, pos, F, snd, flt)
  BY <1>1, <1>2
<1>4. F \in Nat /\ Framed(T, pay, pos, num, F)
  BY <1>1
<1> QED
  BY <1>3, <1>4, WayLength

\* Only a lost link counts.
LEMMA CodecSender ==
  ASSUME NEW pay, NEW F, NEW d, NEW snd, NEW es, NEW S, NEW hd, NEW ds, NEW flt,
         CodecState(pay, F, d, snd, es, S, hd, ds, flt), Alive(snd), NEW snd2
  PROVE  CodecState(pay, F, d, snd2, es, S, hd, ds, flt)
<1>1. ASSUME NEW T, NEW c, NEW pos, Way(S, T, c, pos, F, snd, flt)
      PROVE  Way(S, T, c, pos, F, snd2, flt)
  BY <1>1 DEF Way
<1>2. PICK T, pos, num :
        /\ F \in Nat /\ d \in 0 .. F /\ Framed(T, pay, pos, num, F) /\ es = num[F]
        /\ \/ hd = <<>> /\ ds = num[d] /\ Way(S, T, pos[d], pos, F, snd, flt)
           \/ /\ d < F /\ hd = <<Len(pay[d]), pay[d]>> /\ ds = num[d + 1]
              /\ Way(S, T, pos[d] + 2, pos, F, snd, flt)
           \/ Faulty(flt) /\ \E n, y : hd = <<n, y>> /\ BadHeader(n, y)
  BY DEF CodecState
<1> QED
  BY <1>1, <1>2 DEF CodecState

\* Nothing was sent.
LEMMA CodecInit ==
  ASSUME CodecAssumption, NEW pay, pay \in [Nat -> Payloads], NEW snd, NEW flt
  PROVE  CodecState(pay, 0, 0, snd, 0, <<>>, <<>>, 0, flt)
<1>1. PICK z : z = [i \in Nat |-> 0]
  OBVIOUS
<1>2. 0 \in 0 .. SeqMod - 1
  BY DEF CodecAssumption
<1>3. z \in [Nat -> Nat] /\ z \in [Nat -> 0 .. SeqMod - 1] /\ z[0] = 0
  BY <1>1, <1>2
<1>4. <<>> \in Seq(Cells) /\ Len(<<>>) = 0
  OBVIOUS
<1>5. \A f \in 0 .. 0 - 1 : FALSE
  OBVIOUS
<1>6. \A f \in 1 .. 0 : FALSE
  OBVIOUS
<1>7. FrameType(<<>>, pay, z, z, 0)
  BY <1>3, <1>4 DEF FrameType
<1>8. FrameNums(z, 0) /\ FrameEnds(pay, z, 0) /\ FrameCells(<<>>, pay, z, z, 0)
  BY <1>5 DEF FrameNums, FrameEnds, FrameCells
<1>9. FrameOrder(z, 0)
  BY DEF FrameOrder
<1>10. FrameCover(z, 0)
  BY <1>3, <1>6 DEF FrameCover
<1>11. Framed(<<>>, pay, z, z, 0)
  BY <1>7, <1>8, <1>9, <1>10 DEF Framed
<1>12. Way(<<>>, <<>>, 0, z, 0, snd, flt)
  <2>1. Carried(<<>>, <<>>, 0, 0, 0, 0)
    BY <1>4, <1>6 DEF Carried
  <2>2. Kind(0, 0, 0, 0, z, 0, flt) /\ Complete(<<>>, <<>>, 0, 0, 0, 0)
    BY <1>4 DEF Kind, Complete
  <2> QED
    BY <2>1, <2>2 DEF Way
<1> QED
  BY <1>3, <1>11, <1>12 DEF CodecState
-----------------------------------------------------------------------------
(***************************************************************************)
(* The inductive invariant of the stream.                                  *)
(***************************************************************************)

\* What the theorems assume: at most one fault of the byte stream, which is what
\* the numbers and checksums are made for, and no empty packet, which the reader
\* would take for the end.
StreamBounds ==
  /\ MaxFaults \in {0, 1} /\ SeqMod \in Nat /\ SeqMod > 1
  /\ 0 \notin WriteSizes /\ 0 \notin ItemSizes /\ IoWriteSize # 0 /\ RecvBuffer # 0
  /\ ReadSize \in Nat \ {0} /\ MaxBytes \in Nat \ {0}

\* What is on its way.
CellTypes == in \in Seq(Cells) /\ wire \in Seq(Cells) /\ out \in Seq(Cells)

\* The receiving task has decoded d payloads: m packets and perhaps the
\* announcement of another one.
Decoding(d, m, M) ==
  /\ m \in Nat
  /\ (~isData /\ d = 2 * m /\ m <= M) \/ (isData /\ d = 2 * m + 1 /\ m < M)

\* M packets were sent, and the end when all of them were and the sink is closed.
Sending(F, M, st) ==
  /\ st[M] <= written
  /\ sender = "open" => F = 2 * M /\ Waiting(peeked, queue, st[M], written)
  /\ F # 2 * M => sender # "open" /\ st[M] = written /\ sink = "closed"

\* Both ends of an open link.
Talk(st, m) ==
  \E pay, F, d, M :
    /\ CodecState(pay, F, d, sender, encodeSeq, Left(in, wire, out), header, decodeSeq, faults)
    /\ Packets(pay, F, st, M) /\ Decoding(d, m, M) /\ Sending(F, M, st)

\* k of m packets were taken by the reader, who has read r bytes; packet i ends
\* with byte st[i].
StreamInv ==
  /\ receiver \in {"open", "finished", "failed"} /\ faults \in Nat
  /\ receiver = "open" => CellTypes
  /\ \E st, k, m, r :
       /\ Delivered(st, k, m, received, buf, read, r) /\ st[m] <= written
       /\ receiver = "finished" => st[m] = written /\ sink = "closed"
       /\ receiver = "open" => Talk(st, m)
  /\ reader = "eof" => sink = "closed" /\ Len(read) = written

\* The link stays open, with the packets that were delivered.
TalkGoesOn(st, m) ==
  /\ CellTypes'
  /\ \E st2 : st2 \in [Nat -> Nat] /\ (\A i \in 0 .. m : st2[i] = st[i]) /\ Talk(st2, m)'

\* It does, when the codec and both ends go on.
LEMMA TalkOn ==
  ASSUME NEW st, NEW m, NEW st2, st2 \in [Nat -> Nat], \A i \in 0 .. m : st2[i] = st[i], CellTypes',
         NEW pay, NEW F, NEW d, NEW M,
         CodecState(pay, F, d, sender', encodeSeq', Left(in', wire', out'), header', decodeSeq', faults'),
         Packets(pay, F, st2, M), Decoding(d, m, M)', Sending(F, M, st2)'
  PROVE  TalkGoesOn(st, m)
<1>1. Talk(st2, m)'
  BY DEF Talk
<1> QED
  BY <1>1 DEF TalkGoesOn

\* The ends of a link that stays open.
LEMMA LinkOpen ==
  ASSUME StreamInv, UNCHANGED <<received, receiver, buf, read, reader>>, faults' \in Nat,
         written \in Nat, written' \in Nat,
         written' = written \/ (written <= written' /\ sink = "open"),
         sink = "closed" => sink' = "closed",
         \A st, m : receiver = "open" /\ CellTypes /\ Talk(st, m) => TalkGoesOn(st, m)
  PROVE  StreamInv'
<1>1. PICK st, k, m, r :
       /\ Delivered(st, k, m, received, buf, read, r) /\ st[m] <= written
       /\ receiver = "finished" => st[m] = written /\ sink = "closed"
       /\ receiver = "open" => Talk(st, m)
  BY DEF StreamInv
<1>2. written' = written \/ sink # "closed"
  OBVIOUS
<1>3. (reader = "eof" => sink = "closed" /\ Len(read) = written)'
  BY <1>2 DEF StreamInv
<1>4. st[m] \in Nat /\ st[m] <= written'
  <2>1. st[m] \in Nat
    BY <1>1, DeliveredFacts
  <2> QED
    BY <1>1, <2>1
<1>5. CASE receiver = "open"
  <2>1. TalkGoesOn(st, m)
    BY <1>1, <1>5 DEF StreamInv
  <2>2. PICK st2 : st2 \in [Nat -> Nat] /\ (\A i \in 0 .. m : st2[i] = st[i]) /\ Talk(st2, m)'
    BY <2>1 DEF TalkGoesOn
  <2>3. Delivered(st2, k, m, received, buf, read, r)
    BY <1>1, <2>2, DeliveredSame
  <2>4. st2[m] = st[m]
    <3>1. m \in 0 .. m
      BY <1>1 DEF Delivered
    <3> QED
      BY <2>2, <3>1
  <2>5. CellTypes'
    BY <2>1 DEF TalkGoesOn
  <2> QED
    BY <1>3, <1>4, <1>5, <2>2, <2>3, <2>4, <2>5 DEF StreamInv
<1>6. CASE receiver # "open"
  BY <1>1, <1>2, <1>3, <1>4, <1>6 DEF StreamInv
<1> QED
  BY <1>5, <1>6
-----------------------------------------------------------------------------
(***************************************************************************)
(* The steps of the sink and the sending task.                             *)
(***************************************************************************)

\* StartSend: the bytes accepted follow those that were waiting.
LEMMA StartSendTalk ==
  ASSUME FlushInv, NEW st, NEW m, CellTypes, Talk(st, m), NEW n \in Nat \ {0}, StartSend(n)
  PROVE  TalkGoesOn(st, m)
<1>1. PICK pay, F, d, M :
        /\ CodecState(pay, F, d, sender, encodeSeq, Left(in, wire, out), header, decodeSeq, faults)
        /\ Packets(pay, F, st, M) /\ Decoding(d, m, M) /\ Sending(F, M, st)
  BY DEF Talk
<1>2. /\ sender = "open" /\ queue' = Append(queue, [i \in 1 .. n |-> written + i]) /\ written' = written + n
      /\ UNCHANGED <<sink, peeked, sender, encodeSeq, in, wire, out, header, decodeSeq, isData, faults>>
  BY DEF StartSend, PollReady, SinkReady, linkVars, decodeVars
<1>3. st \in [Nat -> Nat] /\ M \in Nat /\ st[M] \in Nat
  BY <1>1 DEF Packets
<1>4. queue \in Seq(Requests) /\ written \in Nat
  BY DEF FlushInv, FlushType
<1>5. PICK v \in Nat : v = written + n /\ written < v /\ v - written = n
  BY <1>4
<1>6. PICK r : r = Span(written, v)
  OBVIOUS
<1>7. r \in Requests /\ PendItem(r, written, v) /\ queue' = Append(queue, r)
  <2>1. r \in Requests
    BY <1>4, <1>5, <1>6, SpanFacts
  <2>2. r = [i \in 1 .. n |-> written + i]
    BY <1>5, <1>6 DEF Span
  <2> QED
    BY <1>2, <1>5, <1>6, <2>1, <2>2 DEF PendItem
<1>8. F = 2 * M /\ Waiting(peeked, queue, st[M], written) /\ st[M] <= written
  BY <1>1, <1>2 DEF Sending
<1>9. Waiting(peeked, Append(queue, r), st[M], v)
  BY <1>4, <1>5, <1>7, <1>8, WaitingAppend
<1>10. st[M] <= v
  BY <1>3, <1>4, <1>5, <1>8
<1>11. Sending(F, M, st)'
  BY <1>2, <1>5, <1>7, <1>8, <1>9, <1>10 DEF Sending
<1>12. Decoding(d, m, M)'
  BY <1>1, <1>2 DEF Decoding
<1>13. CellTypes'
  BY <1>2 DEF CellTypes
<1> QED
  BY <1>1, <1>2, <1>3, <1>11, <1>12, <1>13, TalkOn

\* StartFlush: a flush request carries no bytes.
LEMMA StartFlushTalk ==
  ASSUME FlushInv, NEW st, NEW m, CellTypes, Talk(st, m), StartFlush
  PROVE  TalkGoesOn(st, m)
<1>1. PICK pay, F, d, M :
        /\ CodecState(pay, F, d, sender, encodeSeq, Left(in, wire, out), header, decodeSeq, faults)
        /\ Packets(pay, F, st, M) /\ Decoding(d, m, M) /\ Sending(F, M, st)
  BY DEF Talk
<1>2. /\ sender = "open" /\ queue' = Append(queue, Flush)
      /\ UNCHANGED <<written, sink, peeked, sender, encodeSeq, in, wire, out, header, decodeSeq, isData,
                     faults>>
  BY DEF StartFlush, SinkReady, linkVars, decodeVars
<1>3. st \in [Nat -> Nat]
  BY <1>1 DEF Packets
<1>4. queue \in Seq(Requests) /\ written \in Nat /\ Flush \in Requests
  BY DEF FlushInv, FlushType, Requests
<1>5. PendItem(Flush, written, written)
  BY DEF PendItem
<1>6. F = 2 * M /\ Waiting(peeked, queue, st[M], written) /\ st[M] <= written
  BY <1>1, <1>2 DEF Sending
<1>7. Waiting(peeked, Append(queue, Flush), st[M], written)
  BY <1>4, <1>5, <1>6, WaitingAppend
<1>8. Sending(F, M, st)'
  BY <1>2, <1>6, <1>7 DEF Sending
<1>9. Decoding(d, m, M)' /\ CellTypes'
  BY <1>1, <1>2 DEF Decoding, CellTypes
<1> QED
  BY <1>1, <1>2, <1>3, <1>8, <1>9, TalkOn

\* StartClose, PollClose, FlushReturns, SinkFails and Flushed send nothing.
LEMMA SinkTalk ==
  ASSUME NEW st, NEW m, CellTypes, Talk(st, m), sink = "closed" => sink' = "closed",
         UNCHANGED <<written, queue, peeked, sender, encodeSeq, in, wire, out, header, decodeSeq, isData,
                     faults>>
  PROVE  TalkGoesOn(st, m)
<1>1. PICK pay, F, d, M :
        /\ CodecState(pay, F, d, sender, encodeSeq, Left(in, wire, out), header, decodeSeq, faults)
        /\ Packets(pay, F, st, M) /\ Decoding(d, m, M) /\ Sending(F, M, st)
  BY DEF Talk
<1>2. st \in [Nat -> Nat]
  BY <1>1 DEF Packets
<1>3. Sending(F, M, st)'
  BY <1>1 DEF Sending
<1>4. Decoding(d, m, M)' /\ CellTypes'
  BY <1>1 DEF Decoding, CellTypes
<1> QED
  BY <1>1, <1>2, <1>3, <1>4, TalkOn

\* TryPeek: the peeked request is still the next one.
LEMMA TryPeekTalk ==
  ASSUME FlushInv, NEW st, NEW m, CellTypes, Talk(st, m), TryPeek
  PROVE  TalkGoesOn(st, m)
<1>1. PICK pay, F, d, M :
        /\ CodecState(pay, F, d, sender, encodeSeq, Left(in, wire, out), header, decodeSeq, faults)
        /\ Packets(pay, F, st, M) /\ Decoding(d, m, M) /\ Sending(F, M, st)
  BY DEF Talk
<1>2. /\ sender = "open" /\ peeked = <<>> /\ queue # <<>>
      /\ peeked' = <<Head(queue)>> /\ queue' = Tail(queue)
      /\ UNCHANGED <<written, sink, sender, encodeSeq, in, wire, out, header, decodeSeq, isData, faults>>
  BY DEF TryPeek, sinkVars, linkVars, decodeVars
<1>3. st \in [Nat -> Nat]
  BY <1>1 DEF Packets
<1>4. queue \in Seq(Requests) /\ written \in Nat
  BY DEF FlushInv, FlushType
<1>5. F = 2 * M /\ Waiting(<<>>, queue, st[M], written) /\ st[M] <= written
  BY <1>1, <1>2 DEF Sending
<1>6. Waiting(<<Head(queue)>>, Tail(queue), st[M], written)
  BY <1>2, <1>4, <1>5, WaitingPeek
<1>7. Sending(F, M, st)'
  BY <1>2, <1>5, <1>6 DEF Sending
<1>8. Decoding(d, m, M)' /\ CellTypes'
  BY <1>1, <1>2 DEF Decoding, CellTypes
<1> QED
  BY <1>1, <1>2, <1>3, <1>7, <1>8, TalkOn

\* TakeFlush: the next bytes are those of the queue.
LEMMA TakeFlushTalk ==
  ASSUME FlushInv, NEW st, NEW m, CellTypes, Talk(st, m), TakeFlush
  PROVE  TalkGoesOn(st, m)
<1>1. PICK pay, F, d, M :
        /\ CodecState(pay, F, d, sender, encodeSeq, Left(in, wire, out), header, decodeSeq, faults)
        /\ Packets(pay, F, st, M) /\ Decoding(d, m, M) /\ Sending(F, M, st)
  BY DEF Talk
<1>2. /\ sender = "open" /\ peeked # <<>> /\ Head(peeked) = Flush /\ peeked' = <<>>
      /\ UNCHANGED <<written, sink, queue, sender, encodeSeq, in, wire, out, header, decodeSeq, isData,
                     faults>>
  BY DEF TakeFlush, sinkVars, linkVars, decodeVars
<1>3. st \in [Nat -> Nat]
  BY <1>1 DEF Packets
<1>4. peeked = <<Flush>>
  BY <1>2 DEF FlushInv, FlushType
<1>5. F = 2 * M /\ Waiting(<<Flush>>, queue, st[M], written) /\ st[M] <= written
  BY <1>1, <1>2, <1>4 DEF Sending
<1>6. PICK mid \in Nat : PendItem(Flush, st[M], mid) /\ mid <= written /\ Waiting(<<>>, queue, mid, written)
  BY <1>5, WaitingTake
<1>7. mid = st[M]
  <2>1. M \in Nat /\ st[M] \in Nat
    BY <1>1 DEF Packets
  <2>2. st[M] < mid => Span(st[M], mid) # Flush
    BY <2>1, SpanFacts
  <2> QED
    BY <1>6, <2>2 DEF PendItem
<1>8. Sending(F, M, st)'
  BY <1>2, <1>5, <1>6, <1>7 DEF Sending
<1>9. Decoding(d, m, M)' /\ CellTypes'
  BY <1>1, <1>2 DEF Decoding, CellTypes
<1> QED
  BY <1>1, <1>2, <1>3, <1>8, <1>9, TalkOn

\* EncodeFails and SenderFails: what was not transmitted is lost, and no more
\* follows.
LEMMA SenderEndsTalk ==
  ASSUME NEW st, NEW m, CellTypes, Talk(st, m), SenderEnds,
         UNCHANGED <<in, wire, header, decodeSeq, isData, faults>>
  PROVE  TalkGoesOn(st, m)
<1>1. PICK pay, F, d, M :
        /\ CodecState(pay, F, d, sender, encodeSeq, Left(in, wire, out), header, decodeSeq, faults)
        /\ Packets(pay, F, st, M) /\ Decoding(d, m, M) /\ Sending(F, M, st)
  BY DEF Talk
<1>2. sender' = "failed" /\ out' = <<>> /\ UNCHANGED <<written, sink, encodeSeq>>
  BY DEF SenderEnds
<1>3. st \in [Nat -> Nat]
  BY <1>1 DEF Packets
<1>4. in \in Seq(Cells) /\ wire \in Seq(Cells) /\ out \in Seq(Cells) /\ <<>> \in Seq(Cells)
  BY DEF CellTypes
<1>5. ~Alive("failed")
  BY DEF Alive
<1>6. CodecState(pay, F, d, "failed", encodeSeq, Left(in, wire, <<>>), header, decodeSeq, faults)
  <2>1. /\ Left(in, wire, <<>>) \in Seq(Cells) /\ Len(Left(in, wire, <<>>)) <= Len(Left(in, wire, out))
        /\ \A j \in 1 .. Len(Left(in, wire, <<>>)) : Left(in, wire, <<>>)[j] = Left(in, wire, out)[j]
    BY <1>4, LeftCut
  <2>2. CodecState(pay, F, d, sender, encodeSeq, Left(in, wire, out), header, decodeSeq, faults)
    BY <1>1
  <2> QED
    BY <1>5, <2>1, <2>2, CodecCut
<1>7. Sending(F, M, st)'
  BY <1>1, <1>2 DEF Sending
<1>8. Decoding(d, m, M)' /\ CellTypes'
  BY <1>1, <1>2, <1>4 DEF Decoding, CellTypes
<1> QED
  BY <1>2, <1>1, <1>3, <1>6, <1>7, <1>8, TalkOn

\* The numbers of two frames.
LEMMA TwoNumbers ==
  ASSUME CodecAssumption, NEW s, s \in 0 .. SeqMod - 1
  PROVE  (s + 2) % SeqMod = (((s + 1) % SeqMod) + 1) % SeqMod
<1>1. PICK q \in Nat : q = SeqMod /\ q > 1
  BY DEF CodecAssumption
<1>2. PICK t \in 0 .. q - 1 : t = s
  BY <1>1
<1>3. CASE t + 1 < q
  <2>1. (t + 1) % q = t + 1
    BY <1>1, <1>3
  <2>2. (t + 1) + 1 = t + 2
    BY <1>2
  <2> QED
    BY <1>1, <1>2, <2>1, <2>2
<1>4. CASE ~(t + 1 < q)
  <2>1. t + 1 = q /\ t + 2 = q + 1
    BY <1>1, <1>2, <1>4
  <2>2. q % q = 0 /\ (q + 1) % q = 1 /\ (0 + 1) % q = 1
    BY <1>1
  <2> QED
    BY <1>1, <1>2, <2>1, <2>2
<1> QED
  BY <1>3, <1>4

\* Two payloads are put behind F others.
PayTwo(pay2, pay, F, x, y) ==
  /\ \A f \in 0 .. F - 1 : pay2[f] = pay[f]
  /\ pay2[F] = x /\ pay2[F + 1] = y

\* A message and a packet are sent.
LEMMA CodecTwo ==
  ASSUME CodecAssumption, NEW pay, NEW F, NEW d, NEW snd, NEW es, NEW S, NEW hd, NEW ds, NEW flt,
         CodecState(pay, F, d, snd, es, S, hd, ds, flt), Alive(snd),
         NEW x, x \in Payloads, NEW y, y \in Payloads, NEW es2, es2 = (es + 1) % SeqMod
  PROVE  \E pay2 :
           /\ CodecState(pay2, F + 2, d, snd, (es + 2) % SeqMod,
                         (S \o Encode(es, x)) \o Encode(es2, y), hd, ds, flt)
           /\ PayTwo(pay2, pay, F, x, y)
<1>1. F \in Nat /\ pay \in [Nat -> Payloads] /\ es \in 0 .. SeqMod - 1
  BY CodecFacts
<1>2. PICK S1 : S1 = S \o Encode(es, x)
  OBVIOUS
<1>3. PICK S2 : S2 = S1 \o Encode(es2, y)
  OBVIOUS
<1>4. PICK pay1 : pay1 = [pay EXCEPT ![F] = x]
  OBVIOUS
<1>5. PICK K \in Nat : K = F + 1 /\ K + 1 = F + 2
  BY <1>1
<1>6. PICK pay2 : pay2 = [pay1 EXCEPT ![K] = y]
  OBVIOUS
<1>7. CodecState(pay1, K, d, snd, es2, S1, hd, ds, flt)
  <2>1. CodecState([pay EXCEPT ![F] = x], F + 1, d, snd, (es + 1) % SeqMod, S \o Encode(es, x),
                   hd, ds, flt)
    BY CodecAppend
  <2> QED
    BY <1>2, <1>4, <1>5, <2>1
<1>8. CodecState(pay2, K + 1, d, snd, (es2 + 1) % SeqMod, S2, hd, ds, flt)
  <2>1. CodecState([pay1 EXCEPT ![K] = y], K + 1, d, snd, (es2 + 1) % SeqMod, S1 \o Encode(es2, y),
                   hd, ds, flt)
    BY <1>7, CodecAppend
  <2> QED
    BY <1>3, <1>6, <2>1
<1>9. (es2 + 1) % SeqMod = (es + 2) % SeqMod
  BY <1>1, TwoNumbers
<1>10. Sets(pay1, pay, F, x, Payloads)
  BY <1>1, <1>4, ExceptFacts DEF Sets
<1>11. Sets(pay2, pay1, K, y, Payloads)
  <2>1. pay1 \in [Nat -> Payloads]
    BY <1>10 DEF Sets
  <2> QED
    BY <1>5, <1>6, <2>1, ExceptFacts DEF Sets
<1>12. PayTwo(pay2, pay, F, x, y)
  <2>1. \A f \in 0 .. F - 1 : f \in Nat /\ f # F /\ f # K
    BY <1>1, <1>5
  <2>2. F \in Nat /\ F # K
    BY <1>1, <1>5
  <2>3. \A f \in 0 .. F - 1 : pay2[f] = pay[f]
    BY <1>10, <1>11, <2>1 DEF Sets
  <2>4. pay2[F] = x /\ pay2[K] = y
    BY <1>10, <1>11, <2>2 DEF Sets
  <2> QED
    BY <1>5, <2>3, <2>4 DEF PayTwo
<1> QED
  BY <1>2, <1>3, <1>5, <1>8, <1>9, <1>12

\* SendData: the two frames of the next packet are encoded.
LEMMA SendDataTalk ==
  ASSUME CodecAssumption, FlushInv, NEW st, NEW m, CellTypes, Talk(st, m), SendData
  PROVE  TalkGoesOn(st, m)
<1>1. PICK pay, F, d, M :
        /\ CodecState(pay, F, d, sender, encodeSeq, Left(in, wire, out), header, decodeSeq, faults)
        /\ Packets(pay, F, st, M) /\ Decoding(d, m, M) /\ Sending(F, M, st)
  BY DEF Talk
<1>2. /\ sender = "open" /\ peeked # <<>> /\ Head(peeked) # Flush /\ peeked' = <<>>
      /\ out' = (out \o Encode(encodeSeq, Message(MsgData)))
                  \o Encode((encodeSeq + 1) % SeqMod, Bytes(Head(peeked)))
      /\ encodeSeq' = (encodeSeq + 2) % SeqMod
      /\ UNCHANGED <<written, sink, queue, sender, in, wire, header, decodeSeq, isData, faults>>
  BY DEF SendData, sinkVars, decodeVars
<1>3. st \in [Nat -> Nat] /\ M \in Nat /\ st[M] \in Nat
  BY <1>1 DEF Packets
<1>4. PICK r : peeked = <<r>> /\ Head(peeked) = r /\ r # Flush
  <2>1. PICK r : peeked = <<r>>
    BY <1>2 DEF FlushInv, FlushType
  <2> QED
    BY <1>2, <2>1
<1>5. F = 2 * M /\ Waiting(<<r>>, queue, st[M], written)
  BY <1>1, <1>2, <1>4 DEF Sending
<1>6. PICK mid \in Nat : PendItem(r, st[M], mid) /\ mid <= written /\ Waiting(<<>>, queue, mid, written)
  BY <1>5, WaitingTake
<1>7. st[M] < mid /\ r = Span(st[M], mid)
  BY <1>4, <1>6 DEF PendItem
<1>8. PICK x \in Payloads : x = Message(MsgData)
  BY MessageFacts, MessagesDiffer
<1>9. PICK y \in Payloads : y = Bytes(r)
  BY <1>3, <1>7, BytesFacts
<1>10. Alive(sender)
  BY <1>2 DEF Alive
<1>11. PICK es2 : es2 = (encodeSeq + 1) % SeqMod
  OBVIOUS
<1>12. PICK pay2 :
        /\ CodecState(pay2, F + 2, d, sender, (encodeSeq + 2) % SeqMod,
                      (Left(in, wire, out) \o Encode(encodeSeq, x)) \o Encode(es2, y),
                      header, decodeSeq, faults)
        /\ PayTwo(pay2, pay, F, x, y)
  <2>1. CodecState(pay, F, d, sender, encodeSeq, Left(in, wire, out), header, decodeSeq, faults)
    BY <1>1
  <2>2. x \in Payloads /\ y \in Payloads
    BY <1>8, <1>9
  <2> QED
    BY <1>10, <1>11, <2>1, <2>2, CodecTwo
<1>13. Encode(encodeSeq, x) \in Seq(Cells) /\ Encode(es2, y) \in Seq(Cells)
  <2>1. encodeSeq \in 0 .. SeqMod - 1
    BY <1>1, CodecFacts
  <2>2. encodeSeq \in Int /\ encodeSeq + 1 \in Int /\ SeqMod \in Nat \ {0}
    BY <2>1 DEF CodecAssumption
  <2>3. es2 \in Int
    BY <1>11, <2>2
  <2>4. x \in Payloads /\ y \in Payloads
    BY <1>8, <1>9
  <2> QED
    BY <2>2, <2>3, <2>4, EncodeFacts
<1>14. in \in Seq(Cells) /\ wire \in Seq(Cells) /\ out \in Seq(Cells)
  BY DEF CellTypes
<1>15. PICK o1 : o1 = out \o Encode(encodeSeq, x)
  OBVIOUS
<1>16. o1 \in Seq(Cells) /\ Left(in, wire, o1) = Left(in, wire, out) \o Encode(encodeSeq, x)
  <2>1. PICK E : E = Encode(encodeSeq, x)
    OBVIOUS
  <2>2. E \in Seq(Cells)
    BY <1>13, <2>1
  <2>3. Extends(in, wire, out, E)
    BY <1>14, <2>2, LeftMore
  <2> QED
    BY <1>15, <2>1, <2>3 DEF Extends
<1>17. /\ o1 \o Encode(es2, y) \in Seq(Cells)
       /\ Left(in, wire, o1 \o Encode(es2, y)) = Left(in, wire, o1) \o Encode(es2, y)
  <2>1. PICK E : E = Encode(es2, y)
    OBVIOUS
  <2>2. E \in Seq(Cells)
    BY <1>13, <2>1
  <2>3. o1 \in Seq(Cells)
    BY <1>16
  <2>4. Extends(in, wire, o1, E)
    BY <1>14, <2>2, <2>3, LeftMore
  <2> QED
    BY <2>1, <2>4 DEF Extends
<1>18. out' = o1 \o Encode(es2, y)
  BY <1>2, <1>4, <1>8, <1>9, <1>11, <1>15
<1>19. CodecState(pay2, F + 2, d, sender', encodeSeq', Left(in', wire', out'), header', decodeSeq', faults')
  BY <1>2, <1>12, <1>16, <1>17, <1>18
<1>20. CellTypes'
  BY <1>2, <1>14, <1>17, <1>18 DEF CellTypes
<1>21. PICK K \in Nat : K = M + 1
  BY <1>3
<1>22. PICK st2 : st2 = [st EXCEPT ![K] = mid]
  OBVIOUS
<1>23. Sets(st2, st, K, mid, Nat) /\ st2[K] = mid /\ st2 \in [Nat -> Nat]
  BY <1>3, <1>22, ExceptFacts DEF Sets
<1>24. Packets(pay2, F + 2, st2, K)
  <2>1. Packets(pay, F, st, M) /\ F = 2 * M
    BY <1>1, <1>5
  <2>2. Sets(st2, st, K, st2[K], Nat) /\ st[M] < st2[K]
    BY <1>7, <1>23
  <2>3. /\ \A f \in 0 .. F - 1 : pay2[f] = pay[f]
        /\ pay2[F] = Message(MsgData) /\ pay2[F + 1] = Bytes(Span(st[M], st2[K]))
    BY <1>7, <1>8, <1>9, <1>12, <1>23 DEF PayTwo
  <2> QED
    BY <1>21, <2>1, <2>2, <2>3, PacketsMore
<1>25. m \in Nat /\ m <= M
  BY <1>1, <1>3 DEF Decoding
<1>26. \A i \in 0 .. m : st2[i] = st[i]
  <2>1. \A i \in 0 .. m : i \in Nat /\ i # K
    BY <1>3, <1>21, <1>25
  <2> QED
    BY <1>23, <2>1 DEF Sets
<1>27. Decoding(d, m, K)'
  <2>1. m <= K /\ (m < M => m < K)
    BY <1>3, <1>21, <1>25
  <2> QED
    BY <1>1, <1>2, <2>1 DEF Decoding
<1>28. Sending(F + 2, K, st2)'
  <2>1. F + 2 = 2 * K
    BY <1>3, <1>5, <1>21
  <2> QED
    BY <1>2, <1>6, <1>23, <2>1 DEF Sending
<1> QED
  BY <1>19, <1>20, <1>23, <1>24, <1>26, <1>27, <1>28, TalkOn

\* WriteEnd: the end is encoded behind all packets.
LEMMA WriteEndTalk ==
  ASSUME CodecAssumption, FlushInv, NEW st, NEW m, CellTypes, Talk(st, m), WriteEnd
  PROVE  TalkGoesOn(st, m)
<1>1. PICK pay, F, d, M :
        /\ CodecState(pay, F, d, sender, encodeSeq, Left(in, wire, out), header, decodeSeq, faults)
        /\ Packets(pay, F, st, M) /\ Decoding(d, m, M) /\ Sending(F, M, st)
  BY DEF Talk
<1>2. /\ sender = "open" /\ sink = "closed" /\ queue = <<>> /\ peeked = <<>> /\ sender' = "finished"
      /\ out' = out \o Encode(encodeSeq, Message(MsgSendFinish))
      /\ encodeSeq' = (encodeSeq + 1) % SeqMod
      /\ UNCHANGED <<written, sink, queue, peeked, in, wire, header, decodeSeq, isData, faults>>
  BY DEF WriteEnd, sinkVars, decodeVars
<1>3. st \in [Nat -> Nat] /\ M \in Nat /\ st[M] \in Nat
  BY <1>1 DEF Packets
<1>4. F = 2 * M /\ st[M] = written
  <2>1. F = 2 * M /\ Waiting(<<>>, <<>>, st[M], written)
    BY <1>1, <1>2 DEF Sending
  <2>2. \A r : <<>> # <<r>>
    OBVIOUS
  <2>3. Pending(<<>>, st[M], written)
    BY <2>1, <2>2 DEF Waiting
  <2> QED
    BY <1>3, <2>1, <2>3, PendingEmpty
<1>5. PICK x \in Payloads : x = Message(MsgSendFinish)
  BY MessageFacts, MessagesDiffer
<1>6. Alive(sender) /\ encodeSeq \in 0 .. SeqMod - 1 /\ F \in Nat /\ pay \in [Nat -> Payloads]
  <2>1. Alive(sender)
    BY <1>2 DEF Alive
  <2>2. CodecState(pay, F, d, sender, encodeSeq, Left(in, wire, out), header, decodeSeq, faults)
    BY <1>1
  <2> QED
    BY <2>1, <2>2, CodecFacts
<1>7. PICK pay2 : pay2 = [pay EXCEPT ![F] = x]
  OBVIOUS
<1>8. CodecState(pay2, F + 1, d, sender, (encodeSeq + 1) % SeqMod,
                 Left(in, wire, out) \o Encode(encodeSeq, x), header, decodeSeq, faults)
  <2>1. CodecState(pay, F, d, sender, encodeSeq, Left(in, wire, out), header, decodeSeq, faults)
    BY <1>1
  <2>2. x \in Payloads
    BY <1>5
  <2>3. CodecState([pay EXCEPT ![F] = x], F + 1, d, sender, (encodeSeq + 1) % SeqMod,
                   Left(in, wire, out) \o Encode(encodeSeq, x), header, decodeSeq, faults)
    BY <1>6, <2>1, <2>2, CodecAppend
  <2> QED
    BY <1>7, <2>3
<1>9. in \in Seq(Cells) /\ wire \in Seq(Cells) /\ out \in Seq(Cells) /\ Encode(encodeSeq, x) \in Seq(Cells)
  <2>1. encodeSeq \in Int /\ x \in Payloads
    BY <1>5, <1>6 DEF CodecAssumption
  <2> QED
    BY <2>1, EncodeFacts DEF CellTypes
<1>10. /\ out' \in Seq(Cells)
       /\ Left(in, wire, out') = Left(in, wire, out) \o Encode(encodeSeq, x)
  <2>1. PICK E : E = Encode(encodeSeq, x)
    OBVIOUS
  <2>2. E \in Seq(Cells) /\ in \in Seq(Cells) /\ wire \in Seq(Cells) /\ out \in Seq(Cells)
    BY <1>9, <2>1
  <2>3. Extends(in, wire, out, E)
    BY <2>2, LeftMore
  <2> QED
    BY <1>2, <1>5, <2>1, <2>3 DEF Extends
<1>11. CodecState(pay2, F + 1, d, sender', encodeSeq', Left(in', wire', out'), header', decodeSeq', faults')
  <2>1. CodecState(pay2, F + 1, d, sender', (encodeSeq + 1) % SeqMod,
                   Left(in, wire, out) \o Encode(encodeSeq, x), header, decodeSeq, faults)
    BY <1>6, <1>8, CodecSender
  <2> QED
    BY <1>2, <1>10, <2>1
<1>12. CellTypes'
  BY <1>2, <1>9, <1>10 DEF CellTypes
<1>13. Packets(pay2, F + 1, st, M)
  <2>1. Sets(pay2, pay, F, x, Payloads)
    BY <1>5, <1>6, <1>7, ExceptFacts DEF Sets
  <2>2. \A f \in 0 .. F - 1 : f \in Nat /\ f # F
    BY <1>6
  <2>3. /\ \A f \in 0 .. F - 1 : pay2[f] = pay[f]
        /\ pay2[F] = Message(MsgSendFinish)
    BY <1>5, <2>1, <2>2 DEF Sets
  <2> QED
    BY <1>1, <1>4, <2>3, PacketsEnd
<1>14. Decoding(d, m, M)'
  BY <1>1, <1>2 DEF Decoding
<1>15. Sending(F + 1, M, st)'
  <2>1. st[M] <= written
    BY <1>1 DEF Sending
  <2> QED
    BY <1>2, <1>4, <2>1 DEF Sending
<1> QED
  BY <1>3, <1>11, <1>12, <1>13, <1>14, <1>15, TalkOn
-----------------------------------------------------------------------------
(***************************************************************************)
(* The steps of the link.                                                  *)
(***************************************************************************)

\* The stream below and the decoder leave the sending task alone.
LEMMA BelowOn ==
  ASSUME NEW st, NEW m, NEW pay, NEW F, NEW d, NEW M,
         Packets(pay, F, st, M), Decoding(d, m, M), Sending(F, M, st),
         UNCHANGED <<written, sink, queue, peeked, sender, isData>>, CellTypes',
         CodecState(pay, F, d, sender', encodeSeq', Left(in', wire', out'), header', decodeSeq', faults')
  PROVE  TalkGoesOn(st, m)
<1>1. st \in [Nat -> Nat]
  BY DEF Packets
<1>2. Sending(F, M, st)'
  BY DEF Sending
<1>3. Decoding(d, m, M)'
  BY DEF Decoding
<1> QED
  BY <1>1, <1>2, <1>3, TalkOn

\* Transmit: what was encoded is on its way.
LEMMA TransmitTalk ==
  ASSUME receiver = "open", NEW st, NEW m, CellTypes, Talk(st, m), Transmit
  PROVE  TalkGoesOn(st, m)
<1>1. PICK pay, F, d, M :
        /\ CodecState(pay, F, d, sender, encodeSeq, Left(in, wire, out), header, decodeSeq, faults)
        /\ Packets(pay, F, st, M) /\ Decoding(d, m, M) /\ Sending(F, M, st)
  BY DEF Talk
<1>2. /\ wire' = wire \o out /\ out' = <<>>
      /\ UNCHANGED <<written, sink, queue, peeked, sender, encodeSeq, in, header, decodeSeq, isData, faults>>
  BY DEF Transmit, sinkVars, taskVars, decodeVars
<1>3. in \in Seq(Cells) /\ wire \in Seq(Cells) /\ out \in Seq(Cells) /\ <<>> \in Seq(Cells)
  BY DEF CellTypes
<1>4. wire \o out \in Seq(Cells) /\ Left(in, wire \o out, <<>>) = Left(in, wire, out)
  BY <1>3, LeftTransmit
<1>5. CellTypes'
  BY <1>2, <1>3, <1>4 DEF CellTypes
<1>6. CodecState(pay, F, d, sender', encodeSeq', Left(in', wire', out'), header', decodeSeq', faults')
  BY <1>1, <1>2, <1>4
<1> QED
  BY <1>1, <1>2, <1>5, <1>6, BelowOn

\* Deliver: a part of it arrives.
LEMMA DeliverTalk ==
  ASSUME NEW st, NEW m, CellTypes, Talk(st, m), NEW n \in 1 .. Len(wire), Deliver(n)
  PROVE  TalkGoesOn(st, m)
<1>1. PICK pay, F, d, M :
        /\ CodecState(pay, F, d, sender, encodeSeq, Left(in, wire, out), header, decodeSeq, faults)
        /\ Packets(pay, F, st, M) /\ Decoding(d, m, M) /\ Sending(F, M, st)
  BY DEF Talk
<1>2. /\ in' = in \o SubSeq(wire, 1, n) /\ wire' = SubSeq(wire, n + 1, Len(wire))
      /\ UNCHANGED <<written, sink, queue, peeked, sender, encodeSeq, out, header, decodeSeq, isData, faults>>
  BY DEF Deliver, sinkVars, taskVars, linkVars
<1>3. in \in Seq(Cells) /\ wire \in Seq(Cells) /\ out \in Seq(Cells)
  BY DEF CellTypes
<1>4. /\ in \o SubSeq(wire, 1, n) \in Seq(Cells) /\ SubSeq(wire, n + 1, Len(wire)) \in Seq(Cells)
      /\ Left(in \o SubSeq(wire, 1, n), SubSeq(wire, n + 1, Len(wire)), out) = Left(in, wire, out)
  BY <1>3, LeftDeliver
<1>5. CellTypes'
  BY <1>2, <1>3, <1>4 DEF CellTypes
<1>6. CodecState(pay, F, d, sender', encodeSeq', Left(in', wire', out'), header', decodeSeq', faults')
  BY <1>1, <1>2, <1>4
<1> QED
  BY <1>1, <1>2, <1>5, <1>6, BelowOn

\* DecodeHeader: the header accepted is that of the next frame, or one that no
\* payload fits.
LEMMA DecodeHeaderTalk ==
  ASSUME CodecAssumption, NEW st, NEW m, CellTypes, Talk(st, m), DecodeHeader, HeaderOk
  PROVE  TalkGoesOn(st, m)
<1>1. PICK pay, F, d, M :
        /\ CodecState(pay, F, d, sender, encodeSeq, Left(in, wire, out), header, decodeSeq, faults)
        /\ Packets(pay, F, st, M) /\ Decoding(d, m, M) /\ Sending(F, M, st)
  BY DEF Talk
<1>2. /\ header = <<>> /\ Len(in) >= 2 /\ in[2][2] = decodeSeq
      /\ header' = <<in[1][2], in[2][3]>> /\ in' = SubSeq(in, 3, Len(in))
      /\ decodeSeq' = (decodeSeq + 1) % SeqMod
      /\ UNCHANGED <<written, sink, queue, peeked, sender, encodeSeq, wire, out, isData, faults>>
  BY DEF DecodeHeader, HeaderOk, sinkVars, taskVars, linkVars
<1>3. in \in Seq(Cells) /\ wire \in Seq(Cells) /\ out \in Seq(Cells)
  BY DEF CellTypes
<1>4. PICK S : S = Left(in, wire, out)
  OBVIOUS
<1>5. /\ S \in Seq(Cells) /\ 2 <= Len(S) /\ \A j \in 1 .. 2 : S[j] = in[j]
      /\ SubSeq(S, 2 + 1, Len(S)) = Left(SubSeq(in, 2 + 1, Len(in)), wire, out)
      /\ SubSeq(in, 2 + 1, Len(in)) \in Seq(Cells)
  <2>1. 2 \in Nat /\ 2 <= Len(in)
    <3>1. Len(in) \in Nat /\ Len(in) >= 2
      BY <1>2, <1>3
    <3> QED
      BY <3>1
  <2>2. Received(in, wire, out, 2)
    BY <1>3, <2>1, LeftTake
  <2> QED
    BY <1>4, <2>2 DEF Received
<1>6. S[1] = in[1] /\ S[2] = in[2] /\ Len(S) >= 2
  <2>1. Len(S) \in Nat
    BY <1>5
  <2> QED
    BY <1>5, <2>1
<1>7. CodecState(pay, F, d, sender, encodeSeq, S, <<>>, decodeSeq, faults)
  BY <1>1, <1>2, <1>4
<1>8. CodecState(pay, F, d, sender, encodeSeq, SubSeq(S, 3, Len(S)), <<S[1][2], S[2][3]>>,
                 (decodeSeq + 1) % SeqMod, faults)
  BY <1>2, <1>6, <1>7, CodecHeader
<1>9. SubSeq(S, 3, Len(S)) = Left(in', wire, out) /\ in' \in Seq(Cells)
  BY <1>2, <1>5
<1>10. CellTypes'
  BY <1>2, <1>3, <1>9 DEF CellTypes
<1>11. CodecState(pay, F, d, sender', encodeSeq', Left(in', wire', out'), header', decodeSeq', faults')
  BY <1>2, <1>6, <1>8, <1>9
<1> QED
  BY <1>1, <1>2, <1>10, <1>11, BelowOn

\* The only fault.
LEMMA FaultFacts ==
  ASSUME StreamBounds, faults \in Nat, faults < MaxFaults
  PROVE  ~Faulty(faults) /\ Faulty(faults + 1)
BY DEF StreamBounds, Faulty

\* Corrupt: one cell differs.
LEMMA CorruptTalk ==
  ASSUME StreamBounds, faults \in Nat, NEW st, NEW m, CellTypes, Talk(st, m), Corrupt
  PROVE  TalkGoesOn(st, m)
<1>1. PICK pay, F, d, M :
        /\ CodecState(pay, F, d, sender, encodeSeq, Left(in, wire, out), header, decodeSeq, faults)
        /\ Packets(pay, F, st, M) /\ Decoding(d, m, M) /\ Sending(F, M, st)
  BY DEF Talk
<1>2. PICK c \in Altered(Head(wire)) : wire' = <<c>> \o Tail(wire)
  BY DEF Corrupt
<1>3. /\ wire # <<>> /\ faults < MaxFaults /\ faults' = faults + 1
      /\ UNCHANGED <<written, sink, queue, peeked, sender, encodeSeq, in, out, header, decodeSeq, isData>>
  BY DEF Corrupt, sinkVars, taskVars, linkVars, decodeVars
<1>4. in \in Seq(Cells) /\ wire \in Seq(Cells) /\ out \in Seq(Cells)
  BY DEF CellTypes
<1>5. c \in Cells
  <2>1. Head(wire) \in Cells
    BY <1>3, <1>4
  <2>2. CodecAssumption
    BY DEF StreamBounds, CodecAssumption
  <2> QED
    BY <1>2, <2>1, <2>2, AlteredCell
<1>6. ~Faulty(faults) /\ Faulty(faults')
  <2>1. Faulty(faults + 1) /\ ~Faulty(faults)
    BY <1>3, FaultFacts
  <2> QED
    BY <1>3, <2>1
<1>7. PICK S : S = Left(in, wire, out)
  OBVIOUS
<1>8. PICK S2 : S2 = Left(in, wire', out)
  OBVIOUS
<1>9. wire' \in Seq(Cells) /\ OneAltered(S2, S, Head(wire), c)
  <2>1. /\ <<c>> \o Tail(wire) \in Seq(Cells)
        /\ OneAltered(Left(in, <<c>> \o Tail(wire), out), Left(in, wire, out), Head(wire), c)
    BY <1>3, <1>4, <1>5, LeftAltered
  <2> QED
    BY <1>2, <1>7, <1>8, <2>1
<1>10. PICK k \in 1 .. Len(S) :
        /\ S[k] = Head(wire) /\ S2 \in Seq(Cells) /\ Len(S2) = Len(S)
        /\ S2[k] = c /\ \A j \in 1 .. Len(S) : j # k => S2[j] = S[j]
  BY <1>9 DEF OneAltered
<1>11. CodecState(pay, F, d, sender, encodeSeq, S, header, decodeSeq, faults)
  BY <1>1, <1>7
<1>12. CodecState(pay, F, d, sender, encodeSeq, S2, header, decodeSeq, faults')
  <2>1. S2[k] \in Altered(S[k])
    BY <1>2, <1>10
  <2> QED
    BY <1>6, <1>10, <1>11, <2>1, CodecAltered
<1>13. CodecState(pay, F, d, sender', encodeSeq', Left(in', wire', out'), header', decodeSeq', faults')
  BY <1>3, <1>8, <1>12
<1>14. CellTypes'
  BY <1>3, <1>4, <1>9 DEF CellTypes
<1> QED
  BY <1>1, <1>3, <1>13, <1>14, BelowOn

\* LoseFrame: one frame is left out.
LEMMA LoseFrameTalk ==
  ASSUME StreamBounds, faults \in Nat, NEW st, NEW m, CellTypes, Talk(st, m), LoseFrame
  PROVE  TalkGoesOn(st, m)
<1>1. PICK pay, F, d, M :
        /\ CodecState(pay, F, d, sender, encodeSeq, Left(in, wire, out), header, decodeSeq, faults)
        /\ Packets(pay, F, st, M) /\ Decoding(d, m, M) /\ Sending(F, M, st)
  BY DEF Talk
<1>2. /\ wire # <<>> /\ faults < MaxFaults /\ faults' = faults + 1
      /\ wire[1][1] = "len" /\ Len(wire) >= 2 + wire[1][2] /\ wire' = SubSeq(wire, 3 + wire[1][2], Len(wire))
      /\ UNCHANGED <<written, sink, queue, peeked, sender, encodeSeq, in, out, header, decodeSeq, isData>>
  BY DEF LoseFrame, sinkVars, taskVars, linkVars, decodeVars
<1>3. in \in Seq(Cells) /\ wire \in Seq(Cells) /\ out \in Seq(Cells)
  BY DEF CellTypes
<1>4. ~Faulty(faults) /\ Faulty(faults')
  <2>1. Faulty(faults + 1) /\ ~Faulty(faults)
    BY <1>2, FaultFacts
  <2> QED
    BY <1>2, <2>1
<1>5. PICK S : S = Left(in, wire, out)
  OBVIOUS
<1>6. CodecState(pay, F, d, sender, encodeSeq, S, header, decodeSeq, faults)
  BY <1>1, <1>5
<1>7. PICK u : u = wire[1]
  OBVIOUS
<1>8. u[2] \in Nat
  <2>1. FrontLost(Left(in, SubSeq(wire, 0 + 1, Len(wire)), out), Left(in, wire, out), wire[1], 0)
    <3>1. 0 \in Nat /\ 0 <= Len(wire)
      BY <1>3
    <3> QED
      BY <1>2, <1>3, <3>1, LeftLost
  <2>2. PICK k \in 0 .. Len(S) - 1 : S[k + 1] = u
    BY <1>5, <1>7, <2>1 DEF FrontLost
  <2>3. PICK h \in 1 .. Len(S) : S[h] = u
    <3>1. k + 1 \in 1 .. Len(S)
      <4>1. S \in Seq(Cells)
        BY <1>3, <1>5, LeftTransmit
      <4>2. Len(S) \in Nat
        BY <4>1
      <4> QED
        BY <4>2
    <3> QED
      BY <2>2, <3>1
  <2>4. S[h][1] = "len"
    BY <1>2, <1>7, <2>3
  <2>5. S[h][2] \in Nat
    BY <1>4, <1>6, <2>4, CodecLength
  <2> QED
    BY <2>3, <2>5
<1>9. PICK n \in Nat : n = 2 + u[2] /\ n + 1 = 3 + u[2]
  BY <1>8
<1>10. PICK v : v = SubSeq(wire, n + 1, Len(wire))
  OBVIOUS
<1>11. wire' = v /\ n <= Len(wire)
  <2>1. Len(wire) \in Nat
    BY <1>3
  <2> QED
    BY <1>2, <1>7, <1>9, <1>10, <2>1
<1>12. PICK S2 : S2 = Left(in, v, out)
  OBVIOUS
<1>13. v \in Seq(Cells) /\ FrontLost(S2, S, u, n)
  <2>1. /\ SubSeq(wire, n + 1, Len(wire)) \in Seq(Cells)
        /\ FrontLost(Left(in, SubSeq(wire, n + 1, Len(wire)), out), Left(in, wire, out), wire[1], n)
    BY <1>2, <1>3, <1>11, LeftLost
  <2> QED
    BY <1>5, <1>7, <1>10, <1>12, <2>1
<1>14. PICK k \in 0 .. Len(S) - 1 :
       /\ S[k + 1] = u /\ k + n <= Len(S) /\ Len(S2) = Len(S) - n /\ S2 \in Seq(Cells)
       /\ \A j \in 1 .. Len(S2) : S2[j] = IF j <= k THEN S[j] ELSE S[j + n]
  BY <1>13 DEF FrontLost
<1>15. CodecState(pay, F, d, sender, encodeSeq, S2, header, decodeSeq, faults')
  <2>1. S[k + 1][1] = "len"
    BY <1>2, <1>7, <1>14
  <2>2. 2 + S[k + 1][2] = n
    BY <1>9, <1>14
  <2>3. k + 2 + S[k + 1][2] <= Len(S)
    <3>1. k \in Nat
      <4>1. \A x, y : x \in 0 .. y => x \in Nat
        OBVIOUS
      <4> QED
        BY <4>1
    <3>2. S[k + 1][2] \in Nat
      BY <1>8, <1>14
    <3>3. k + 2 + S[k + 1][2] = k + n
      BY <2>2, <3>1, <3>2
    <3> QED
      BY <1>14, <3>3
  <2>4. Len(S2) = Len(S) - (2 + S[k + 1][2])
    BY <1>14, <2>2
  <2>5. \A j \in 1 .. Len(S2) : S2[j] = IF j <= k THEN S[j] ELSE S[j + (2 + S[k + 1][2])]
    BY <1>14, <2>2
  <2>6. S2 \in Seq(Cells)
    BY <1>14
  <2> QED
    BY <1>4, <1>6, <2>1, <2>3, <2>4, <2>5, <2>6, CodecLost
<1>16. CodecState(pay, F, d, sender', encodeSeq', Left(in', wire', out'), header', decodeSeq', faults')
  BY <1>2, <1>11, <1>12, <1>15
<1>17. CellTypes'
  BY <1>2, <1>3, <1>11, <1>13 DEF CellTypes
<1> QED
  BY <1>1, <1>2, <1>16, <1>17, BelowOn
-----------------------------------------------------------------------------
(***************************************************************************)
(* The steps of the receiving task and the reader.                         *)
(***************************************************************************)

\* The reader's steps change nothing of the link.
LEMMA TalkSame ==
  ASSUME NEW st, NEW m, Talk(st, m),
         UNCHANGED <<written, sink, queue, peeked, sender, encodeSeq, in, wire, out, header, decodeSeq,
                     isData, faults>>
  PROVE  Talk(st, m)'
<1>1. PICK pay, F, d, M :
        /\ CodecState(pay, F, d, sender, encodeSeq, Left(in, wire, out), header, decodeSeq, faults)
        /\ Packets(pay, F, st, M) /\ Decoding(d, m, M) /\ Sending(F, M, st)
  BY DEF Talk
<1>2. Sending(F, M, st)' /\ Decoding(d, m, M)'
  BY <1>1 DEF Sending, Decoding
<1>3. CodecState(pay, F, d, sender', encodeSeq', Left(in', wire', out'), header', decodeSeq', faults')
  BY <1>1
<1> QED
  BY <1>1, <1>2, <1>3 DEF Talk

\* Break, ReceiverFails and a decoder that fails: what was passed on stays.
LEMMA ReceiverEndsStep ==
  ASSUME StreamInv, ReceiverEnds, written' = written, sink' = sink, faults' \in Nat
  PROVE  StreamInv'
<1>1. receiver' = "failed" /\ UNCHANGED <<received, buf, read, reader>>
  BY DEF ReceiverEnds
<1>2. PICK st, k, m, r : Delivered(st, k, m, received, buf, read, r) /\ st[m] <= written
  BY DEF StreamInv
<1>3. (reader = "eof" => sink = "closed" /\ Len(read) = written)'
  BY <1>1 DEF StreamInv
<1> QED
  BY <1>1, <1>2, <1>3 DEF StreamInv

\* DecodeData: a payload that passes the checksum is that of the next frame: an
\* announcement, the packet announced, or the end.
LEMMA DecodeDataStep ==
  ASSUME FlushInv, StreamInv, DecodeData, ChecksumOk
  PROVE  StreamInv'
<1>1. /\ receiver = "open" /\ header # <<>> /\ Len(in) >= header[1] /\ header' = <<>>
      /\ in' = SubSeq(in, header[1] + 1, Len(in))
      /\ isData' = (~isData /\ Content = <<MsgData>>)
      /\ received' = IF isData THEN Append(received, Content) ELSE received
      /\ receiver' = IF ~isData /\ Content = <<MsgSendFinish>> THEN "finished" ELSE receiver
      /\ UNCHANGED <<written, sink, queue, peeked, sender, encodeSeq, wire, out, decodeSeq, buf, read, reader,
                     faults>>
  BY DEF DecodeData, HasPayload, sinkVars, linkVars
<1>2. PICK st, k, m, r :
        Delivered(st, k, m, received, buf, read, r) /\ st[m] <= written /\ Talk(st, m)
  BY <1>1 DEF StreamInv
<1>3. PICK pay, F, d, M :
        /\ CodecState(pay, F, d, sender, encodeSeq, Left(in, wire, out), header, decodeSeq, faults)
        /\ Packets(pay, F, st, M) /\ Decoding(d, m, M) /\ Sending(F, M, st)
  BY <1>2 DEF Talk
<1>4. in \in Seq(Cells) /\ wire \in Seq(Cells) /\ out \in Seq(Cells) /\ faults \in Nat
  BY <1>1 DEF StreamInv, CellTypes
<1>5. PICK n \in Nat : n = header[1]
  <2>1. header[1] \in Nat
    BY <1>1, <1>3, CodecFacts
  <2> QED
    BY <2>1
<1>6. Received(in, wire, out, n)
  <2>1. n <= Len(in)
    <3>1. Len(in) \in Nat /\ Len(in) >= n
      BY <1>1, <1>4, <1>5
    <3> QED
      BY <3>1
  <2> QED
    BY <1>4, <2>1, LeftTake
<1>7. PICK S : S = Left(in, wire, out)
  OBVIOUS
<1>8. /\ S \in Seq(Cells) /\ n <= Len(S) /\ SubSeq(S, 1, n) = SubSeq(in, 1, n)
      /\ SubSeq(S, n + 1, Len(S)) = Left(in', wire, out) /\ in' \in Seq(Cells)
  BY <1>1, <1>5, <1>6, <1>7 DEF Received
<1>9. Payload = SubSeq(in, 1, n) /\ Payload = header[2]
  BY <1>5 DEF Payload, ChecksumOk
<1>10. /\ d \in 0 .. F - 1 /\ F \in Nat /\ header[2] = pay[d]
       /\ CodecState(pay, F, d + 1, sender, encodeSeq, SubSeq(S, header[1] + 1, Len(S)), <<>>, decodeSeq, faults)
  <2>1. header[1] <= Len(S) /\ SubSeq(S, 1, header[1]) = header[2] /\ S \in Seq(Cells)
    BY <1>5, <1>8, <1>9
  <2>2. CodecState(pay, F, d, sender, encodeSeq, S, header, decodeSeq, faults)
    BY <1>3, <1>7
  <2> QED
    BY <1>1, <2>1, <2>2, CodecPayload
<1>11. CodecState(pay, F, d + 1, sender', encodeSeq', Left(in', wire', out'), header', decodeSeq', faults')
  BY <1>1, <1>5, <1>8, <1>10
<1>12. Content = PayloadContent(pay[d])
  BY <1>9, <1>10 DEF Content, PayloadContent
<1>13. Sending(F, M, st)'
  BY <1>1, <1>3 DEF Sending
<1>14. CellTypes'
  BY <1>1, <1>4, <1>8 DEF CellTypes
<1>15. (reader = "eof" => sink = "closed" /\ Len(read) = written)'
  BY <1>1 DEF StreamInv
<1>16. d \in Nat /\ d < F /\ m \in Nat /\ M \in Nat /\ written \in Nat
  <2>1. d \in Nat /\ d < F
    BY <1>10
  <2>2. m \in Nat /\ M \in Nat
    BY <1>3 DEF Decoding, Packets
  <2> QED
    BY <2>1, <2>2 DEF FlushInv, FlushType
<1>17. PICK D \in Nat : D = d + 1
  BY <1>16
<1>18. CASE isData
  <2>1. d = 2 * m + 1 /\ m < M
    BY <1>3, <1>18 DEF Decoding
  <2>2. PICK K \in Nat : K = m + 1
    BY <1>16
  <2>3. /\ pay[2 * m + 1] = Bytes(Span(st[m], st[K])) /\ FrameOrder(st, K)
        /\ st[m] \in Nat /\ st[K] \in Nat /\ st[m] < st[K] /\ st[K] <= st[M] /\ st[M] \in Nat
    BY <1>3, <1>16, <2>1, <2>2, PacketNext
  <2>4. Content = Span(st[m], st[K])
    <3>1. pay[d] = Bytes(Span(st[m], st[K]))
      BY <2>1, <2>3
    <3>2. PayloadContent(Bytes(Span(st[m], st[K]))) = Span(st[m], st[K])
      BY <2>3, BytesFacts
    <3> QED
      BY <1>12, <3>1, <3>2
  <2>5. ~isData' /\ received' = Append(received, Content) /\ receiver' = "open"
    BY <1>1, <1>18
  <2>6. Delivered(st, k, K, received', buf', read', r)
    <3>1. Delivered(st, k, K, Append(received, Content), buf, read, r)
      BY <1>2, <2>2, <2>3, <2>4, DeliveredAppend
    <3> QED
      BY <1>1, <2>5, <3>1
  <2>7. Decoding(D, K, M)'
    <3>1. D = 2 * K /\ K <= M
      BY <1>16, <1>17, <2>1, <2>2
    <3> QED
      BY <2>5, <3>1 DEF Decoding
  <2>8. Talk(st, K)'
    BY <1>3, <1>11, <1>13, <1>17, <2>7 DEF Talk
  <2>9. st[K] <= written'
    <3>1. st[M] <= written
      BY <1>3 DEF Sending
    <3> QED
      BY <1>1, <1>16, <2>3, <3>1
  <2> QED
    BY <1>1, <1>4, <1>14, <1>15, <2>5, <2>6, <2>8, <2>9 DEF StreamInv
<1>19. CASE ~isData
  <2>1. d = 2 * m /\ m <= M
    BY <1>3, <1>19 DEF Decoding
  <2>2. \/ m < M /\ pay[d] = Message(MsgData)
        \/ m = M /\ F # 2 * M /\ pay[d] = Message(MsgSendFinish)
    BY <1>3, <1>16, <2>1, MessageNext
  <2>3. received' = received
    BY <1>1, <1>19
  <2>4. CASE m < M /\ pay[d] = Message(MsgData)
    <3>1. Content = <<MsgData>>
      BY <1>12, <2>4, MessageFacts, MessagesDiffer
    <3>2. isData' /\ receiver' = "open"
      BY <1>1, <1>19, <3>1, MessagesDiffer
    <3>3. Decoding(D, m, M)'
      <4>1. D = 2 * m + 1
        BY <1>17, <2>1
      <4> QED
        BY <1>16, <2>4, <3>2, <4>1 DEF Decoding
    <3>4. Talk(st, m)'
      BY <1>3, <1>11, <1>13, <1>17, <3>3 DEF Talk
    <3> QED
      BY <1>1, <1>2, <1>4, <1>14, <1>15, <2>3, <3>2, <3>4 DEF StreamInv
  <2>5. CASE m = M /\ F # 2 * M /\ pay[d] = Message(MsgSendFinish)
    <3>1. Content = <<MsgSendFinish>>
      BY <1>12, <2>5, MessageFacts, MessagesDiffer
    <3>2. receiver' = "finished"
      BY <1>1, <1>19, <3>1
    <3>3. st[m] = written /\ sink = "closed"
      BY <1>3, <2>5 DEF Sending
    <3> QED
      BY <1>1, <1>2, <1>4, <1>15, <2>3, <3>2, <3>3 DEF StreamInv
  <2> QED
    BY <2>2, <2>4, <2>5
<1> QED
  BY <1>18, <1>19

\* PollRead and PollNext hand out the bytes that follow those read, and at least
\* one.
LEMMA ReadBytesStep ==
  ASSUME StreamInv, NEW n \in Nat \ {0}, ReadBytes(n)
  PROVE  StreamInv'
<1>1. PICK data : data = IF buf = <<>> THEN Head(received) ELSE buf
  OBVIOUS
<1>2. PICK l : l = Smaller(n, Len(data))
  OBVIOUS
<1>3. /\ reader = "open" /\ (buf # <<>> \/ received # <<>>)
      /\ received' = IF buf = <<>> THEN Tail(received) ELSE received
      /\ read' = read \o SubSeq(data, 1, l) /\ buf' = SubSeq(data, l + 1, Len(data))
      /\ reader' = IF l = 0 THEN "eof" ELSE reader
      /\ UNCHANGED <<written, sink, queue, peeked, sender, encodeSeq, in, wire, out, header, decodeSeq, isData,
                     receiver, faults>>
  BY <1>1, <1>2 DEF ReadBytes, readUnchanged, sinkVars, taskVars, linkVars, decodeVars
<1>4. PICK st, k, m, r :
       /\ Delivered(st, k, m, received, buf, read, r) /\ st[m] <= written
       /\ receiver = "finished" => st[m] = written /\ sink = "closed"
       /\ receiver = "open" => Talk(st, m)
  BY DEF StreamInv
<1>5. PICK k2 : Delivered(st, k2, m, received', data, read, r) /\ data # <<>>
  <2>1. CASE buf = <<>>
    <3>1. Delivered(st, k + 1, m, Tail(received), Head(received), read, r) /\ Head(received) # <<>>
      BY <1>3, <1>4, <2>1, DeliveredNext
    <3> QED
      BY <1>1, <1>3, <2>1, <3>1
  <2>2. CASE buf # <<>>
    BY <1>1, <1>3, <1>4, <2>2
  <2> QED
    BY <2>1, <2>2
<1>6. l # 0 /\ \E r2 : Delivered(st, k2, m, received', buf', read', r2)
  <2>1. Delivered(st, k2, m, received', data, read, r) /\ data # <<>>
    BY <1>5
  <2>2. l # 0 /\ \E r2 : Delivered(st, k2, m, received', SubSeq(data, l + 1, Len(data)), read \o SubSeq(data, 1, l), r2)
    BY <1>2, <2>1, DeliveredPart
  <2> QED
    BY <1>3, <2>2
<1>7. PICK r2 : Delivered(st, k2, m, received', buf', read', r2)
  BY <1>6
<1>8. reader' = "open"
  BY <1>3, <1>6
<1>9. receiver = "open" => Talk(st, m)'
  BY <1>3, <1>4, TalkSame
<1>10. (receiver = "open" => CellTypes)'
  BY <1>3 DEF StreamInv, CellTypes
<1> QED
  BY <1>3, <1>4, <1>7, <1>8, <1>9, <1>10 DEF StreamInv

\* ReadEnd: all packets were read; the end of a finished receiving task is that
\* of the sink.
LEMMA ReadEndStep ==
  ASSUME FlushInv, StreamInv, ReadEnd
  PROVE  StreamInv'
<1>1. /\ reader = "open" /\ buf = <<>> /\ received = <<>> /\ receiver # "open"
      /\ reader' = IF receiver = "failed" THEN "error" ELSE "eof"
      /\ UNCHANGED <<written, sink, received, buf, read, receiver, faults>>
  BY DEF ReadEnd, EndOrError, readUnchanged, sinkVars
<1>2. PICK st, k, m, r :
       /\ Delivered(st, k, m, received, buf, read, r) /\ st[m] <= written
       /\ receiver = "finished" => st[m] = written /\ sink = "closed"
  BY DEF StreamInv
<1>3. Len(read) = st[m]
  <2>1. Len(read) = r /\ r = st[k] /\ k = m
    BY <1>1, <1>2, DeliveredFacts
  <2> QED
    BY <2>1
<1>4. (reader = "eof" => sink = "closed" /\ Len(read) = written)'
  BY <1>1, <1>2, <1>3 DEF StreamInv
<1> QED
  BY <1>1, <1>2, <1>4 DEF StreamInv
-----------------------------------------------------------------------------
(***************************************************************************)
(* All steps, and the theorems.                                            *)
(***************************************************************************)

\* Nothing was written or sent yet.
LEMMA StreamInvInit ==
  ASSUME StreamBounds, Init
  PROVE  StreamInv
<1>1. /\ written = 0 /\ sink = "open" /\ queue = <<>> /\ peeked = <<>> /\ sender = "open" /\ encodeSeq = 0
      /\ out = <<>> /\ wire = <<>> /\ in = <<>> /\ header = <<>> /\ decodeSeq = 0 /\ isData = FALSE
      /\ received = <<>> /\ receiver = "open" /\ buf = <<>> /\ read = <<>> /\ reader = "open" /\ faults = 0
  BY DEF Init
<1>2. PICK st : st = [i \in Nat |-> 0]
  OBVIOUS
<1>3. PICK pay : pay = [i \in Nat |-> Message(MsgData)]
  OBVIOUS
<1>4. st \in [Nat -> Nat] /\ st[0] = 0
  BY <1>2
<1>5. FrameOrder(st, 0)
  BY DEF FrameOrder
<1>6. Span(0, 0) = <<>>
  <2>1. Span(0, 0) \in Seq(Nat) /\ Len(Span(0, 0)) = 0
    BY SpanBytes
  <2> QED
    BY <2>1
<1>7. Delivered(st, 0, 0, <<>>, <<>>, <<>>, 0)
  <2>1. <<>> \in Seq(Data) /\ Len(<<>>) = 0 /\ 0 + Len(<<>>) = 0
    OBVIOUS
  <2> QED
    BY <1>4, <1>5, <1>6, <2>1 DEF Delivered
<1>8. CodecAssumption
  BY DEF StreamBounds, CodecAssumption
<1>9. Left(<<>>, <<>>, <<>>) = <<>>
  BY DEF Left
<1>10. CodecState(pay, 0, 0, "open", 0, Left(<<>>, <<>>, <<>>), <<>>, 0, 0)
  <2>1. Message(MsgData) \in Payloads
    <3>1. MsgData \in Int \ {0}
      BY DEF MsgData
    <3> QED
      BY <3>1, MessageFacts
  <2>2. pay \in [Nat -> Payloads]
    BY <1>3, <2>1
  <2> QED
    BY <1>8, <1>9, <2>2, CodecInit
<1>11. Packets(pay, 0, st, 0)
  <2>1. PacketPairs(pay, st, 0)
    BY DEF PacketPairs
  <2> QED
    BY <1>4, <1>5, <2>1 DEF Packets
<1>12. Decoding(0, 0, 0)
  BY <1>1 DEF Decoding
<1>13. Sending(0, 0, st)
  <2>1. Pending(<<>>, 0, 0)
    BY PendingEmpty
  <2>2. Waiting(peeked, queue, st[0], written)
    BY <1>1, <1>4, <2>1 DEF Waiting
  <2> QED
    BY <1>1, <1>4, <2>2 DEF Sending
<1>14. Talk(st, 0)
  BY <1>1, <1>10, <1>11, <1>12, <1>13 DEF Talk
<1>15. CellTypes
  BY <1>1 DEF CellTypes
<1>16. Delivered(st, 0, 0, received, buf, read, 0) /\ st[0] <= written
  BY <1>1, <1>4, <1>7
<1> QED
  BY <1>1, <1>14, <1>15, <1>16 DEF StreamInv

\* The bytes of an item or a buffer.
LEMMA StartSendKeeps ==
  ASSUME FlushInv, FlushInv', StreamInv, NEW n \in Nat \ {0}, StartSend(n)
  PROVE  StreamInv'
<1>1. \A st, m : receiver = "open" /\ CellTypes /\ Talk(st, m) => TalkGoesOn(st, m)
  BY StartSendTalk
<1>2. /\ written' = written + n /\ sink = "open" /\ sink' = sink
      /\ UNCHANGED <<received, receiver, buf, read, reader, faults>>
  BY DEF StartSend, PollReady, readVars
<1>3. written \in Nat /\ written' \in Nat
  BY DEF FlushInv, FlushType
<1>4. written <= written'
  BY <1>2, <1>3
<1>5. faults' \in Nat
  BY <1>2 DEF StreamInv
<1> QED
  BY <1>1, <1>2, <1>3, <1>4, <1>5, LinkOpen

\* A step of the link that leaves what the sink has accepted and what the
\* receiving task has passed on.
LEMMA LinkKeeps ==
  ASSUME FlushInv, StreamInv, UNCHANGED <<written, received, receiver, buf, read, reader>>,
         faults' \in Nat, sink = "closed" => sink' = "closed",
         \A st, m : receiver = "open" /\ CellTypes /\ Talk(st, m) => TalkGoesOn(st, m)
  PROVE  StreamInv'
<1>1. written \in Nat /\ written' \in Nat
  BY DEF FlushInv, FlushType
<1> QED
  BY <1>1, LinkOpen

\* The sink's own state.
LEMMA SinkKeeps ==
  ASSUME FlushInv, StreamInv, sink = "closed" => sink' = "closed",
         UNCHANGED <<written, queue, peeked, sender, encodeSeq, in, wire, out, header, decodeSeq, isData,
                     readVars, faults>>
  PROVE  StreamInv'
<1>1. \A st, m : receiver = "open" /\ CellTypes /\ Talk(st, m) => TalkGoesOn(st, m)
  BY SinkTalk
<1>2. UNCHANGED <<written, received, receiver, buf, read, reader>>
  BY DEF readVars
<1>3. faults' \in Nat
  BY DEF StreamInv
<1> QED
  BY <1>1, <1>2, <1>3, LinkKeeps

\* The sending task ends.
LEMMA SenderEndsKeeps ==
  ASSUME FlushInv, StreamInv, SenderEnds, UNCHANGED <<wire, decodeVars, readVars, faults>>
  PROVE  StreamInv'
<1>1. UNCHANGED <<in, wire, header, decodeSeq, isData, faults>>
  BY DEF decodeVars
<1>2. \A st, m : receiver = "open" /\ CellTypes /\ Talk(st, m) => TalkGoesOn(st, m)
  BY <1>1, SenderEndsTalk
<1>3. UNCHANGED <<written, received, receiver, buf, read, reader>> /\ sink' = sink
  BY DEF SenderEnds, readVars
<1>4. faults' \in Nat
  BY DEF StreamInv
<1> QED
  BY <1>2, <1>3, <1>4, LinkKeeps

\* The steps of the sink.
LEMMA StreamSinkStep ==
  ASSUME StreamBounds, FlushInv, FlushInv', StreamInv, Sink
  PROVE  StreamInv'
<1>1. ASSUME NEW n \in WriteSizes, PollWrite(n) PROVE StreamInv'
  <2>1. PICK k : k = Smaller(n, Smaller(IoWriteSize, RecvBuffer))
    OBVIOUS
  <2>2. k \in Nat \ {0}
    <3>1. n \in Nat \ {0} /\ IoWriteSize \in Nat \ {0} /\ RecvBuffer \in Nat \ {0}
      BY StreamAssumption DEF StreamBounds
    <3> QED
      BY <2>1, <3>1 DEF Smaller
  <2>3. StartSend(k)
    BY <1>1, <2>1 DEF PollWrite
  <2> QED
    BY <2>2, <2>3, StartSendKeeps
<1>2. ASSUME NEW n \in ItemSizes, StartSend(n) PROVE StreamInv'
  <2>1. n \in Nat \ {0}
    BY StreamAssumption DEF StreamBounds
  <2> QED
    BY <1>2, <2>1, StartSendKeeps
<1>3. CASE StartFlush
  <2>1. /\ UNCHANGED <<written, received, receiver, buf, read, reader>> /\ sink' = sink /\ faults' = faults
    BY <1>3 DEF StartFlush, readVars
  <2>2. \A st, m : receiver = "open" /\ CellTypes /\ Talk(st, m) => TalkGoesOn(st, m)
    BY <1>3, StartFlushTalk
  <2>3. faults' \in Nat
    BY <2>1 DEF StreamInv
  <2> QED
    BY <2>1, <2>2, <2>3, LinkKeeps
<1>4. CASE FlushReturns \/ StartClose \/ PollClose \/ SinkFails
  <2>1. /\ sink = "closed" => sink' = "closed"
        /\ UNCHANGED <<written, queue, peeked, sender, encodeSeq, in, wire, out, header, decodeSeq, isData,
                       readVars, faults>>
    BY <1>4 DEF FlushReturns, StartClose, PollClose, SinkFails, taskVars, linkVars, decodeVars
  <2> QED
    BY <2>1, SinkKeeps
<1> QED
  BY <1>1, <1>2, <1>3, <1>4 DEF Sink

\* The steps of the sending task.
LEMMA StreamTaskStep ==
  ASSUME StreamBounds, FlushInv, StreamInv, Task
  PROVE  StreamInv'
<1>1. CodecAssumption
  BY DEF StreamBounds, CodecAssumption
<1>2. CASE EncodeFails
  BY <1>2, SenderEndsKeeps DEF EncodeFails
<1>3. CASE Flushed
  <2>1. UNCHANGED <<sink, written, queue, peeked, sender, encodeSeq, in, wire, out, header, decodeSeq, isData,
                    readVars, faults>>
    BY <1>3 DEF Flushed, linkVars, decodeVars
  <2> QED
    BY <2>1, SinkKeeps
<1>4. ASSUME TryPeek \/ SendData \/ TakeFlush \/ WriteEnd PROVE StreamInv'
  <2>1. UNCHANGED <<written, sink, received, receiver, buf, read, reader, faults>>
    BY <1>4 DEF TryPeek, SendData, TakeFlush, WriteEnd, sinkVars, readVars
  <2>2. \A st, m : receiver = "open" /\ CellTypes /\ Talk(st, m) => TalkGoesOn(st, m)
    BY <1>1, <1>4, TryPeekTalk, SendDataTalk, TakeFlushTalk, WriteEndTalk
  <2>3. faults' \in Nat
    BY <2>1 DEF StreamInv
  <2> QED
    BY <2>1, <2>2, <2>3, LinkKeeps
<1> QED
  BY <1>2, <1>3, <1>4 DEF Task

\* What is in flight, and the faults of the byte stream.
LEMMA StreamWireStep ==
  ASSUME StreamBounds, FlushInv, StreamInv,
         Transmit \/ Fault \/ \E n \in 1 .. Len(wire) : Deliver(n)
  PROVE  StreamInv'
<1>1. faults \in Nat /\ faults + 1 \in Nat
  BY DEF StreamInv
<1>2. CASE Transmit
  <2>1. UNCHANGED <<written, sink, received, receiver, buf, read, reader, faults>>
    BY <1>2 DEF Transmit, sinkVars, readVars
  <2>2. \A st, m : receiver = "open" /\ CellTypes /\ Talk(st, m) => TalkGoesOn(st, m)
    BY <1>2, TransmitTalk
  <2> QED
    BY <1>1, <2>1, <2>2, LinkKeeps
<1>3. ASSUME NEW n \in 1 .. Len(wire), Deliver(n) PROVE StreamInv'
  <2>1. UNCHANGED <<written, sink, received, receiver, buf, read, reader, faults>>
    BY <1>3 DEF Deliver, sinkVars, readVars
  <2>2. \A st, m : receiver = "open" /\ CellTypes /\ Talk(st, m) => TalkGoesOn(st, m)
    BY <1>3, DeliverTalk
  <2> QED
    BY <1>1, <2>1, <2>2, LinkKeeps
<1>4. CASE Corrupt \/ LoseFrame
  <2>1. UNCHANGED <<written, sink, received, receiver, buf, read, reader>> /\ faults' = faults + 1
    BY <1>4 DEF Corrupt, LoseFrame, sinkVars, readVars
  <2>2. \A st, m : receiver = "open" /\ CellTypes /\ Talk(st, m) => TalkGoesOn(st, m)
    BY <1>1, <1>4, CorruptTalk, LoseFrameTalk
  <2> QED
    BY <1>1, <2>1, <2>2, LinkKeeps
<1>5. CASE Break
  <2>1. ReceiverEnds /\ written' = written /\ sink' = sink /\ faults' = faults + 1
    BY <1>5 DEF Break, sinkVars
  <2> QED
    BY <1>1, <2>1, ReceiverEndsStep
<1> QED
  BY <1>2, <1>3, <1>4, <1>5 DEF Fault

\* The receiving link and task.
LEMMA StreamDecodeStep ==
  ASSUME StreamBounds, FlushInv, StreamInv, Decode \/ ReceiverFails
  PROVE  StreamInv'
<1>1. CodecAssumption /\ faults \in Nat
  BY DEF StreamBounds, CodecAssumption, StreamInv
<1>2. CASE DecodeFails \/ ReceiverFails
  <2>1. ReceiverEnds /\ written' = written /\ sink' = sink /\ faults' = faults
    BY <1>2 DEF DecodeFails, ReceiverFails, sinkVars
  <2> QED
    BY <1>1, <2>1, ReceiverEndsStep
<1>3. CASE DecodeHeader /\ HeaderOk
  <2>1. UNCHANGED <<written, sink, received, receiver, buf, read, reader, faults>>
    BY <1>3 DEF DecodeHeader, sinkVars, readVars
  <2>2. \A st, m : receiver = "open" /\ CellTypes /\ Talk(st, m) => TalkGoesOn(st, m)
    BY <1>1, <1>3, DecodeHeaderTalk
  <2> QED
    BY <1>1, <2>1, <2>2, LinkKeeps
<1>4. CASE DecodeData /\ ChecksumOk
  BY <1>4, DecodeDataStep
<1>5. DecodeHeader => HeaderOk \/ DecodeFails
  BY DEF DecodeHeader
<1>6. DecodeData => ChecksumOk \/ DecodeFails
  BY DEF DecodeData
<1> QED
  BY <1>2, <1>3, <1>4, <1>5, <1>6 DEF Decode

\* Every step of the stream.
LEMMA StreamInvStep ==
  ASSUME StreamBounds, FlushInv, FlushInv', StreamInv, [Next]_vars
  PROVE  StreamInv'
<1>1. CASE UNCHANGED vars
  <2>1. UNCHANGED <<sink, written, queue, peeked, sender, encodeSeq, in, wire, out, header, decodeSeq, isData,
                    readVars, faults>>
    BY <1>1 DEF vars, sinkVars, taskVars, linkVars, decodeVars
  <2> QED
    BY <2>1, SinkKeeps
<1>2. CASE Read
  <2>1. ReadSize \in Nat \ {0} /\ MaxBytes \in Nat \ {0}
    BY DEF StreamBounds
  <2> QED
    BY <1>2, <2>1, ReadBytesStep, ReadEndStep DEF Read, PollRead, PollNext
<1>3. CASE SenderFails
  BY <1>3, SenderEndsKeeps DEF SenderFails
<1> QED
  BY <1>1, <1>2, <1>3, StreamSinkStep, StreamTaskStep, StreamWireStep, StreamDecodeStep DEF Next

\* What was read is what was written from its beginning, and all of it when the
\* reader was told of the end.
LEMMA StreamInvMeans ==
  ASSUME FlushInv, StreamInv
  PROVE  ReadIntact /\ EofMeansAll
<1>1. PICK st, k, m, r : Delivered(st, k, m, received, buf, read, r) /\ st[m] <= written
  BY DEF StreamInv
<1>2. Len(read) = r /\ read = Span(0, r) /\ r \in Nat /\ st[m] \in Nat /\ r <= st[m]
  BY <1>1, DeliveredFacts
<1>3. written \in Nat
  BY DEF FlushInv, FlushType
<1>4. Len(read) <= written
  BY <1>1, <1>2, <1>3
<1>5. read = [i \in 1 .. Len(read) |-> i]
  <2>1. Span(0, r) = [i \in 1 .. r |-> i]
    <3>1. r - 0 = r /\ \A i \in 1 .. r : 0 + i = i
      BY <1>2
    <3> QED
      BY <3>1 DEF Span
  <2> QED
    BY <1>2, <2>1
<1> QED
  BY <1>4, <1>5 DEF ReadIntact, EofMeansAll, StreamInv

\* With at most one fault the reader's end of the stream is in step with the
\* sender's, for any sizes of buffers, queues, packets and frames.
THEOREM StreamInvariant ==
  ASSUME StreamBounds
  PROVE  Spec => []StreamInv
<1>1. Init => StreamInv
  BY StreamInvInit
<1>2. FlushInv /\ FlushInv' /\ StreamInv /\ [Next]_vars => StreamInv'
  BY StreamInvStep
<1> QED
  BY <1>1, <1>2, FlushInvariant, PTL DEF Spec

\* The reader gets the bytes that were written, in order and unaltered.
THEOREM ReadAlwaysIntact ==
  ASSUME StreamBounds
  PROVE  Spec => []ReadIntact
<1>1. FlushInv /\ StreamInv => ReadIntact
  BY StreamInvMeans
<1> QED
  BY <1>1, FlushInvariant, StreamInvariant, PTL

\* The reader is told of the end only when it has read everything.
THEOREM EofAlwaysMeansAll ==
  ASSUME StreamBounds
  PROVE  Spec => []EofMeansAll
<1>1. FlushInv /\ StreamInv => EofMeansAll
  BY StreamInvMeans
<1> QED
  BY <1>1, FlushInvariant, StreamInvariant, PTL
=============================================================================
