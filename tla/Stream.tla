------------------------------- MODULE Stream -------------------------------
(***************************************************************************)
(* A byte stream over a connection with one stream-based link: SenderSink  *)
(* cuts what is written into packets, the task sends them over the link,   *)
(* IoTx with the IntegrityCodec turns messages into a stream of bytes, the *)
(* other end decodes them, and ReceiverStream hands out bytes.             *)
(*                                                                         *)
(* The bytes written are numbered 1, 2, ... .  A byte stream is a sequence *)
(* of cells: the two parts of a frame header (length; sequence number and  *)
(* checksum, for which the payload itself stands, so that every change of  *)
(* it is detected), message ids and data bytes.  Transmit buffers are one: *)
(* what they hold may leave at any time and leaves when flushed.  Resends, *)
(* flow control and several links are the subject of Transfer.             *)
(***************************************************************************)
EXTENDS Integers, Sequences

CONSTANTS
  WriteSizes,    \* sizes of the buffers the application writes
  ItemSizes,     \* sizes of the items the application sends through the Sink
  MaxBytes,      \* bound: bytes written
  ReadSize,      \* size of the buffer the application reads into
  IoWriteSize,   \* Cfg::io_write_size
  RecvBuffer,    \* recv_buffer of the remote endpoint
  SendBuffer,    \* Cfg::send_buffer
  SendQueue,     \* Cfg::send_queue
  MaxFrameLen,   \* max_frame_len of the codec
  SeqMod,        \* modulus of the codec's sequence numbers (2^16)
  MaxFlushes,    \* bound: flush requests
  MaxFaults      \* bound: faults of the byte stream

ASSUME StreamAssumption ==
  /\ WriteSizes \subseteq Nat /\ ItemSizes \subseteq Nat
  /\ IoWriteSize \in Nat /\ RecvBuffer \in Nat

VARIABLES
  written,    \* bytes accepted by poll_write
  flushedRx,  \* SenderSink::flushed_rx: "none", "waiting", "done", "dropped"
  sink,       \* SenderSink: "open", "closing" (close called), "closed", "failed"
  queue,      \* requests in the channel to the task
  peeked,     \* PeekableReceiver::peeked: a sequence of at most one request
  sender,     \* sending task: "open", "finished" (SendFinish sent), "failed"
  flushing,   \* the task flushes its link for a flush request
  unacked,    \* bytes sent and not acknowledged
  encodeSeq,  \* IntegrityCodec::encode_seq
  out,        \* cells in the transmit buffers of the link
  wire,       \* cells in flight
  in,         \* cells in the receive buffer of FramedRead
  header,     \* DecodeState: <<>>, or the header <<length, checksum>>
  decodeSeq,  \* IntegrityCodec::decode_seq
  isData,     \* the last message was Data: a data packet follows
  received,   \* packets in the channel to the Receiver
  receiver,   \* receiving task: "open", "finished", "failed"
  buf,        \* ReceiverStream::buf
  read,       \* bytes handed to the reader
  reader,     \* what the reader was told: "open", "eof" or "error"
  flushes, faults

sinkVars == <<written, flushedRx, sink, flushes>>
taskVars == <<queue, peeked, sender, flushing, unacked>>
linkVars == <<encodeSeq, out>>
decodeVars == <<in, header, decodeSeq, isData>>
readVars == <<received, receiver, buf, read, reader>>
vars == <<sinkVars, taskVars, linkVars, wire, decodeVars, readVars, faults>>

Init ==
  /\ written = 0 /\ flushedRx = "none" /\ sink = "open"
  /\ queue = <<>> /\ peeked = <<>> /\ sender = "open" /\ flushing = FALSE
  /\ unacked = 0
  /\ encodeSeq = 0 /\ out = <<>> /\ wire = <<>>
  /\ in = <<>> /\ header = <<>> /\ decodeSeq = 0 /\ isData = FALSE
  /\ received = <<>> /\ receiver = "open" /\ buf = <<>> /\ read = <<>>
  /\ reader = "open" /\ flushes = 0 /\ faults = 0

Smaller(a, b) == IF a <= b THEN a ELSE b
Larger(a, b) == IF a >= b THEN a ELSE b

(***************************************************************************)
(* SenderSink.                                                             *)
(***************************************************************************)
Flush == <<0>>  \* SendReq::Flush; any other sequence is SendReq::Send
MaxSize == Larger(RecvBuffer \div 2, 2) - 1

\* Room in the channel, which the task has not dropped.
SinkReady == sender = "open" /\ Len(queue) < SendQueue

\* Mutant: a flush that was given up is not awaited.
ReadyAtOnce == sink = "open" /\ SinkReady

\* poll_ready: a flush that was requested before and given up is awaited.
PollReady == sink = "open" /\ flushedRx \in {"none", "done"} /\ SinkReady

\* start_send of the next n bytes: too large an item is an error.
StartSend(n) ==
  /\ PollReady /\ written + n <= MaxBytes
  /\ flushedRx' = IF flushedRx = "done" THEN "none" ELSE flushedRx
  /\ n <= MaxSize
  /\ queue' = Append(queue, [i \in 1..n |-> written + i])
  /\ written' = written + n
  /\ UNCHANGED <<sink, flushes, peeked, sender, flushing, unacked, linkVars,
                 wire, decodeVars, readVars, faults>>

\* poll_write of a buffer of n bytes sends a part of it.
PollWrite(n) == StartSend(Smaller(n, Smaller(IoWriteSize, RecvBuffer)))

\* poll_flush, first part: the request is queued unless one is pending.
StartFlush ==
  /\ sink \in {"open", "closing"} /\ flushedRx = "none" /\ SinkReady
  /\ sink = "closing" \/ flushes < MaxFlushes
  /\ flushes' = IF sink = "closing" THEN flushes ELSE flushes + 1
  /\ queue' = Append(queue, Flush)
  /\ flushedRx' = "waiting"
  /\ UNCHANGED <<written, sink, peeked, sender, flushing, unacked, linkVars,
                 wire, decodeVars, readVars, faults>>

\* poll_close: first everything is flushed, then the channel is closed.
StartClose ==
  /\ sink = "open"
  /\ sink' = "closing"
  /\ UNCHANGED <<written, flushedRx, flushes, taskVars, linkVars, wire,
                 decodeVars, readVars, faults>>

PollClose ==
  /\ sink = "closing" /\ flushedRx = "done"
  /\ sink' = "closed" /\ flushedRx' = "none"
  /\ UNCHANGED <<written, flushes, taskVars, linkVars, wire, decodeVars,
                 readVars, faults>>

\* poll_flush, second part: the answer is returned.
FlushReturns ==
  /\ sink = "open" /\ flushedRx = "done"
  /\ flushedRx' = "none"
  /\ UNCHANGED <<written, sink, flushes, taskVars, linkVars, wire, decodeVars,
                 readVars, faults>>

\* Any of them when the task has ended: the error is returned.
SinkFails ==
  /\ sink \in {"open", "closing"} /\ sender = "failed"
  /\ sink' = "failed" /\ flushedRx' = "none"
  /\ UNCHANGED <<written, flushes, taskVars, linkVars, wire,
                 decodeVars, readVars, faults>>

(***************************************************************************)
(* The sending task, its link and the codec.                               *)
(***************************************************************************)

\* PeekableReceiver: a request is taken out of the channel to look at it,
\* which frees its place there.
TryPeek ==
  /\ sender = "open" /\ peeked = <<>> /\ queue # <<>>
  /\ peeked' = <<Head(queue)>> /\ queue' = Tail(queue)
  /\ UNCHANGED <<sinkVars, sender, flushing, unacked, linkVars, wire,
                 decodeVars, readVars, faults>>

\* IntegrityCodec::encode.
Bytes(data) == [i \in DOMAIN data |-> <<"byte", data[i]>>]
Encode(seq, payload) ==
  <<<<"len", Len(payload)>>, <<"seq", seq, payload>>>> \o payload
MsgData == -1
MsgSendFinish == -2
Message(id) == <<<<"id", id>>>>

\* A packet that fits the send buffer is sent as a message and its data.
SendData ==
  /\ sender = "open" /\ peeked # <<>> /\ Head(peeked) # Flush
  /\ Len(Head(peeked)) <= SendBuffer - unacked
  /\ Len(Head(peeked)) <= MaxFrameLen
  /\ out' = out \o Encode(encodeSeq, Message(MsgData))
                \o Encode((encodeSeq + 1) % SeqMod, Bytes(Head(peeked)))
  /\ encodeSeq' = (encodeSeq + 2) % SeqMod
  /\ unacked' = unacked + Len(Head(peeked))
  /\ peeked' = <<>>
  /\ UNCHANGED <<sinkVars, queue, sender, flushing, wire, decodeVars,
                 readVars, faults>>

\* The sending task ends with AllLinksFailed: what it held is dropped, and the
\* sink learns it from its channels.
SenderEnds ==
  /\ sender' = "failed"
  /\ queue' = <<>> /\ peeked' = <<>> /\ flushing' = FALSE /\ unacked' = 0
  /\ out' = <<>>
  /\ flushedRx' = IF flushedRx = "waiting" THEN "dropped" ELSE flushedRx
  /\ UNCHANGED <<written, sink, flushes, encodeSeq>>

\* The receiving task does; what it has passed on can still be read.
ReceiverEnds ==
  /\ receiver' = "failed"
  /\ wire' = <<>> /\ in' = <<>> /\ header' = <<>> /\ isData' = FALSE
  /\ UNCHANGED <<decodeSeq, received, buf, read, reader>>

\* The codec refuses the packet; no link of this kind can carry it, and the
\* connection loses its last one.
EncodeFails ==
  /\ sender = "open" /\ peeked # <<>> /\ Head(peeked) # Flush
  /\ Len(Head(peeked)) <= SendBuffer - unacked
  /\ Len(Head(peeked)) > MaxFrameLen
  /\ SenderEnds
  /\ UNCHANGED <<wire, decodeVars, readVars, faults>>

\* TaskEvent::Flush.  The code takes it only while a sequence number is available
\* and nothing waits to be resent; here it may be taken earlier.
TakeFlush ==
  /\ sender = "open" /\ peeked # <<>> /\ Head(peeked) = Flush
  /\ flushing' = TRUE
  /\ peeked' = <<>>
  /\ UNCHANGED <<sinkVars, queue, sender, unacked, linkVars, wire, decodeVars,
                 readVars, faults>>

\* The link is flushed: nothing is left in its transmit buffers.
LinkFlushed == out = <<>>

\* The link has been flushed: the request is answered.
Flushed ==
  /\ sender # "failed" /\ flushing /\ LinkFlushed
  /\ flushing' = FALSE
  /\ flushedRx' = IF flushedRx = "waiting" THEN "done" ELSE flushedRx
  /\ UNCHANGED <<written, sink, flushes, queue, peeked, sender,
                 unacked, linkVars, wire, decodeVars, readVars, faults>>

\* TaskEvent::WriteEnd: the channel is closed and empty.
WriteEnd ==
  /\ sender = "open" /\ sink = "closed" /\ queue = <<>> /\ peeked = <<>>
  /\ sender' = "finished"
  /\ out' = out \o Encode(encodeSeq, Message(MsgSendFinish))
  /\ encodeSeq' = (encodeSeq + 1) % SeqMod
  /\ UNCHANGED <<sinkVars, queue, peeked, flushing, unacked, wire,
                 decodeVars, readVars, faults>>

\* The transmit buffers are written to the stream.
Transmit ==
  /\ sender # "failed" /\ out # <<>>
  /\ wire' = IF receiver = "open" THEN wire \o out ELSE wire
  /\ out' = <<>>
  /\ UNCHANGED <<sinkVars, taskVars, encodeSeq, decodeVars, readVars, faults>>

\* Mutant: the last byte of a packet is waited for once more.
MoreThanPayload == Len(in) > header[1]

\* What decode_data looks at.
HasPayload == Len(in) >= header[1]
Payload == SubSeq(in, 1, header[1])
ChecksumOk == Payload = header[2]
Content == [i \in DOMAIN Payload |-> Payload[i][2]]

(***************************************************************************)
(* The byte stream.                                                        *)
(***************************************************************************)

\* The codec needs more: FramedRead reads some of what is in flight.
NeedsMore == IF header = <<>> THEN Len(in) < 2 ELSE ~HasPayload
Deliver(n) ==
  /\ receiver = "open" /\ NeedsMore
  /\ in' = in \o SubSeq(wire, 1, n)
  /\ wire' = SubSeq(wire, n + 1, Len(wire))
  /\ UNCHANGED <<sinkVars, taskVars, linkVars, header, decodeSeq, isData,
                 readVars, faults>>

Altered(cell) ==
  CASE cell[1] = "len"  -> {<<"len", cell[2] + 1>>, <<"len", cell[2] - 1>>}
    [] cell[1] = "seq"  -> {<<"seq", (cell[2] + 1) % SeqMod, cell[3]>>,
                            <<"seq", cell[2], <<>>>>}
    [] OTHER            -> {<<cell[1], 0>>}

\* A cell in flight is altered.
Corrupt ==
  /\ faults < MaxFaults /\ wire # <<>>
  /\ \E c \in Altered(Head(wire)) : wire' = <<c>> \o Tail(wire)
  /\ faults' = faults + 1
  /\ UNCHANGED <<sinkVars, taskVars, linkVars, decodeVars, readVars>>

\* A whole frame in flight is lost.
LoseFrame ==
  /\ faults < MaxFaults /\ wire # <<>> /\ wire[1][1] = "len"
  /\ Len(wire) >= 2 + wire[1][2]
  /\ wire' = SubSeq(wire, 3 + wire[1][2], Len(wire))
  /\ faults' = faults + 1
  /\ UNCHANGED <<sinkVars, taskVars, linkVars, decodeVars, readVars>>

\* The stream breaks: what is in flight is lost, the receiver sees its end.
Break ==
  /\ faults < MaxFaults /\ receiver = "open"
  /\ ReceiverEnds
  /\ faults' = faults + 1
  /\ UNCHANGED <<sinkVars, taskVars, linkVars>>

\* The link is lost and was the last one.  After a fault both tasks notice it,
\* at the latest when messages stay unanswered.
SenderFails ==
  /\ sender # "failed"
  /\ faults > 0 \/ receiver = "failed"
  /\ SenderEnds
  /\ UNCHANGED <<wire, decodeVars, readVars, faults>>

ReceiverFails ==
  /\ receiver = "open"
  /\ faults > 0 \/ sender = "failed"
  /\ ReceiverEnds
  /\ UNCHANGED <<sinkVars, taskVars, linkVars, faults>>

(***************************************************************************)
(* The receiving link and task.                                            *)
(***************************************************************************)

\* decode fails: the link is lost and with it the connection.
DecodeFails == ReceiverEnds /\ UNCHANGED <<sinkVars, taskVars, linkVars, faults>>

\* Mutant: the sequence number is not compared.
AnySeq == in[1][2] <= MaxFrameLen

\* IntegrityCodec::decode_header.
HeaderOk == in[1][2] <= MaxFrameLen /\ in[2][2] = decodeSeq
DecodeHeader ==
  /\ receiver = "open" /\ header = <<>> /\ Len(in) >= 2
  /\ IF HeaderOk
     THEN /\ header' = <<in[1][2], in[2][3]>>
          /\ in' = SubSeq(in, 3, Len(in))
          /\ decodeSeq' = (decodeSeq + 1) % SeqMod
          /\ UNCHANGED <<sinkVars, taskVars, linkVars, wire, isData, readVars,
                         faults>>
     ELSE DecodeFails

\* IntegrityCodec::decode_data, and what the task does with the message: a
\* Data message announces a data packet, which is acknowledged and passed on,
\* SendFinish ends the channel to the Receiver.
DecodeData ==
  /\ receiver = "open" /\ header # <<>> /\ HasPayload
  /\ IF ChecksumOk
     THEN /\ header' = <<>>
          /\ in' = SubSeq(in, header[1] + 1, Len(in))
          /\ isData' = (~isData /\ Content = <<MsgData>>)
          /\ received' = IF isData THEN Append(received, Content) ELSE received
          /\ unacked' = IF isData /\ sender # "failed"
                        THEN unacked - Len(Content) ELSE unacked
          /\ receiver' = IF ~isData /\ Content = <<MsgSendFinish>>
                         THEN "finished" ELSE receiver
          /\ UNCHANGED <<sinkVars, queue, peeked, sender, flushing, linkVars,
                         wire, decodeSeq, buf, read, reader, faults>>
     ELSE DecodeFails

(***************************************************************************)
(* ReceiverStream.                                                         *)
(***************************************************************************)
readUnchanged ==
  UNCHANGED <<sinkVars, taskVars, linkVars, wire, decodeVars, receiver, faults>>

\* poll_read: at most n bytes of the buffered packet or, if there is none, of
\* the next one.  No byte at all tells the reader that the stream has ended.
ReadBytes(n) ==
  LET data == IF buf = <<>> THEN Head(received) ELSE buf
      len == Smaller(n, Len(data))
  IN  /\ reader = "open" /\ (buf # <<>> \/ received # <<>>)
      /\ received' = IF buf = <<>> THEN Tail(received) ELSE received
      /\ read' = read \o SubSeq(data, 1, len)
      /\ buf' = SubSeq(data, len + 1, Len(data))
      /\ reader' = IF len = 0 THEN "eof" ELSE reader
      /\ readUnchanged
PollRead == ReadBytes(ReadSize)

\* poll_next: all of the buffered packet, or the next one.
PollNext == ReadBytes(MaxBytes)

\* Mutant: the reason the channel was closed for is ignored.
AlwaysEof == "eof"

\* Receiver::poll_recv on a closed, empty channel: the error, or the end.
EndOrError == IF receiver = "failed" THEN "error" ELSE "eof"

ReadEnd ==
  /\ reader = "open" /\ buf = <<>> /\ received = <<>> /\ receiver # "open"
  /\ reader' = EndOrError
  /\ UNCHANGED <<received, buf, read>>
  /\ readUnchanged

Sink ==
  \/ \E n \in WriteSizes : PollWrite(n)
  \/ \E n \in ItemSizes : StartSend(n)
  \/ StartFlush \/ FlushReturns \/ StartClose \/ PollClose \/ SinkFails
Task == TryPeek \/ SendData \/ EncodeFails \/ TakeFlush \/ Flushed \/ WriteEnd
Decode == DecodeHeader \/ DecodeData
Read == PollRead \/ PollNext \/ ReadEnd
Fault == Corrupt \/ LoseFrame \/ Break

Next ==
  \/ Sink \/ Task \/ Decode \/ Read \/ Fault \/ SenderFails \/ ReceiverFails
  \/ Transmit
  \/ \E n \in 1..Len(wire) : Deliver(n)

Spec == Init /\ [][Next]_vars

(***************************************************************************)
(* Fairness: tasks that are ready run, buffers are flushed after the flush *)
(* delay, the stream delivers, a lost link is noticed, the application     *)
(* completes a close it has begun and keeps reading.                       *)
(***************************************************************************)
FairSpec ==
  /\ Spec
  /\ WF_vars(sink = "closing" /\ Sink) /\ WF_vars(Task) /\ WF_vars(Decode)
  /\ WF_vars(Read) /\ WF_vars(Transmit) /\ WF_vars(Deliver(Len(wire)))
  /\ WF_vars(SenderFails) /\ WF_vars(ReceiverFails)

(***************************************************************************)
(* Properties.                                                             *)
(***************************************************************************)

\* The reader gets the bytes that were written, in order and unaltered, also
\* when the stream below alters bytes or loses frames.
ReadIntact == read = [i \in 1..Len(read) |-> i] /\ Len(read) <= written

\* The reader is told that the stream has ended only when the writer has
\* closed it and every byte has been read; a lost link is an error instead.
EofMeansAll == reader = "eof" => sink = "closed" /\ Len(read) = written

\* When a flush is answered, every byte written before has left the queue and
\* the transmit buffers of the link, also when an earlier flush was given up
\* and the application went on writing.
FlushCovers ==
  flushedRx = "done" =>
    /\ queue = <<>> /\ peeked = <<>>
    /\ \A i \in DOMAIN out : out[i][1] # "byte"

\* Once the writer has begun to close, the reader is eventually told the end
\* or an error.
CloseReachesReader == (sink = "closing") ~> (reader # "open")

\* An item that SenderSink and Sender accept (at most max_size, documented as
\* "Maximum data size.") does not by itself cost the connection its links.
AcceptedCarried == sink = "failed" => faults > 0
=============================================================================
