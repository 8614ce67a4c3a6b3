# A formal model of aggligator

Aggligator combines several unreliable *links* (TCP, WebSocket, USB, Bluetooth
streams) between two endpoints into one reliable, ordered, flow-controlled
connection. This directory models its core in TLA+, model-checks small
instances with TLC and proves its central guarantees with TLAPS. Paths below
are relative to `src/aggligator/src/` unless they start with `src/`.

## 1. Inventory

### Components

| Component | State it keeps | Operations | Modelled by |
|---|---|---|---|
| Connection task (`agg/task.rs`, `Task`) | sent packets and their status, resend queue, sequence numbers, receive slots, byte counters, closing flags, links | one iteration of `run` per event: link ready, link received, data from the user, consumption, timeouts, closing | `Transfer` |
| Aggregated channel (`alc/`) | queue to the task, read side, stored errors | `send`, `recv`, `close`, drop, flush | `Pipe` (promise), `Transfer` (user actions) |
| Sequence numbers (`seq.rs`) | 32-bit word | wrapping arithmetic, comparison, window | `SeqNum` |
| Link internals and scheduling (`agg/link_int.rs`, `agg/task.rs`) | confirmation, test, ping, idle list, polling, ack queue, blocking, disconnecting | `start_send_msg`, `unconfirm_link`, `link_testing_step`, TxReady ladder, Goodbye | `LinkSched` |
| Link limits (`adjust_link_tx_limits`, `check_link_limits`) | unacked limit of each link, when it was changed, overrun state | grow, shrink, reset, `is_sendable`, ack of the marked number | `Limits` |
| Server and connection table (`connect.rs`, `id.rs`) | connections by id, dropped ids, Listener and its queue | `listen`, `add_incoming`, accept, refuse, clean up | `Server` |
| Link setup, control handle (`control.rs`) | remote server id, connected flag, error channel | both ends of the handshake of `Control::add`; block, disconnect | `Server`; blocking and disconnection in `LinkSched` |
| Transport connector (`transport/connector.rs`) | tags, connecting tags, rejected tags, disabled tags, list of links | add and remove a transport, connect, reconnect, filter | `Connector` |
| Transport acceptor (`transport/acceptor.rs`) | active transports, accepting tasks, presence of transports | add and remove a transport, accept, filter | `Acceptor` |
| Stream adapters, codec (`io/`, `alc/`) | packets cut from writes, partial frames, frame numbers | `poll_write`, `poll_flush`, `poll_close`, encode, decode, `poll_read` | `Stream` |
| Peekable channel (`peekable_mpsc.rs`) | one peeked element | `recv_if`, `try_peek` | `Stream`; a FIFO queue in `Transfer` |
| Executor for the web (`exec/js/`), transports, monitor, command line tools | – | platform and user-interface I/O | not modelled |

### Interactions

A user talks to its task through bounded channels (`write_rx`, `read_tx`,
`read_closed_rx`, a flush reply) and shared atomics (blocking of a link). The
two tasks talk over the links only. Each link is an ordered stream in each
direction; two links have no order between them. `Control::add` and the server
hand finished handshakes to the task through `link_rx`. The task is a single
loop: it takes snapshots (`is_consume_ack_required`, `resending`,
`links_idling`, ...), runs checks that may change links, waits for one event
and handles it.

### What is hard

* **Interleaving of links.** A packet may be on several links at once; copies
  and acks arrive in any order, also after the link was unconfirmed, tested and
  confirmed again.
* **Failure.** A link may be slow, silent or dead at any step, the last one too.
* **Closing.** Each direction closes on its own with `SendFinish`,
  `ReceiveClose`, `ReceiveFinish`, while data is being resent.
* **Snapshots.** What the loop computed at its top can be stale when used.
* **Readiness.** A link that is not polled is only looked at again if some
  handler makes it ready: every handler must remember to.
* **Limits and wrap-around.** Windows, buffers and 32-bit numbers at their edge.

`PROJECT.json` lists each hazard at its line with the properties that cover it.

### Properties that make each part correct

* Task: prefix delivery, no false acknowledgement, every unacked packet has a
  way forward, flow control, end of stream and success only after everything
  was consumed, eventual delivery and termination.
* Sequence numbers: wrapped numbers answer as unbounded counts would.
* Link: sound idle list, no lost wake-up, no lost pong, ordered handshake and
  goodbye, agreement on blocking, recovery after a failed test.
* Limits: a link blocked by its limit becomes sendable again.
* Server: a living connection is the one its table entry leads to, a client is
  told `Closed` only of a connection that ended, shows its id to one server only,
  and every incoming link is answered.
* Connector: a tag is dialled at most once, is not forgotten, comes back after
  a loss, and disabled tags and removed transports leave no link.
* Acceptor: a link is accepted only with the consent of all listening
  transports, a removed transport leaves no link, and `accept` does not hang.
* Streams: bytes read are the bytes written in spite of alteration and loss,
  end of stream is not premature, and flush and close keep their promise.

## 2. Modules

| Module | Contents |
|---|---|
| `Pipe` | abstract specification of a connection: two independent pipes |
| `Transfer` | the two tasks and their links, properties, refinement of `Pipe`, fairness |
| `MCTransfer` | constants of the `Transfer` runs: a client, a server, two links |
| `TransferProofs` | theorems about `Transfer`: delivery, acknowledgement, end of stream, refinement |
| `FlowProofs` | theorems about `Transfer`: packets, byte counters, how a connection ends |
| `SeqNum` | wrapping sequence numbers and their three uses, properties |
| `SeqProofs` | theorems about `SeqNum` |
| `LinkSched` | the life of one link between two tasks, properties, fairness |
| `MCLink` | constants of the `LinkSched` runs |
| `LinkProofs` | theorems about `LinkSched` |
| `Limits`, `MCLimits` | unacked limits of several links of one sending task |
| `Server`, `MCServer` | links finding their connection, client and servers, fairness |
| `ServerProofs` | theorems about `Server` |
| `Connector`, `MCConnector` | one connecting transport and the connection above it, fairness |
| `ConnectorProofs` | theorems about `Connector` |
| `Acceptor`, `MCAcceptor` | listening transports, accepting tasks, callers of `accept`, fairness |
| `AcceptorProofs` | a theorem about `Acceptor` |
| `Stream` | bytes from `SenderSink` through codec and link to `ReceiverStream`, fairness |
| `StreamProofs` | theorems about `Stream` |

### Transfer

Variables carry the names of the fields of `Task`. Both endpoints run the same
code, so every variable is a function on `EP`.

* A reliable message is its sequence number; `log[e][s]` holds what it carries
  (kind, position in the user's stream, length). Content of user data does not
  influence the code.
* `txed_packets` maps unswiped numbers to `SentReliableStatus`; `resend_queue`,
  `rxed_reliable` and `consumable` are sorted in the code and are sets here.
* `link_state` is the task's view of a link: absent, unconfirmed, confirmed,
  leaving (disconnecting), gone. *When* a link is tested, pinged or blocked is
  left open here; `LinkSched` models it.
* `sendable` are the links below their unacked limit (`is_sendable`), decided anew
  in every iteration, as `adjust_link_tx_limits` does; it guards sending and
  resending of data. How the limits move is left open (`Limits` models it): any
  confirmed link of `MayLimit` may be found at its limit in any iteration.
* One action is one event handled by `run`, with everything the handler does:
  `SendAck` ... `SendData` are the rungs of the TxReady ladder (and their
  idle-link counterparts `SendConsumed`, `WriteRx`, `Resend`), with the ladder's
  priorities as guards; `ReceiveAck` is `handle_ack`; `ReceiveNew`,
  `ReceiveDuplicate`, `ReceiveInvalid` are `handle_received_reliable_msg`;
  `Exit` is everything after the loop.
* The snapshot `resending` is a variable, because `check_link_limits` changes the
  resend queue after it was taken (`Limits`). The other snapshots are
  recomputed, as nothing changes what they depend on before they are used.
  `links_idling` is the exception and belongs to `LinkSched`.
* A channel loses its content when the receiving task drops the link; the
  sending side notices later (`RemoveLink` with the peer gone).

### SeqNum

One direction with its counts (`tx`, `front`, `rx`) beside the numbers the code
has. `M` is the size of the number space, 2^32 in the code. Copies and acks may
arrive late, as long as fewer than `Horizon` messages were sent meanwhile; the
code bounds that age only through timeouts. `SendControl` may overrun the window
by `Slack`, as the code's control messages do.

### LinkSched

One link, from the handshake to its removal, seen by both tasks. `link[e]` is
the part of `LinkInt` that decides what happens. An action handles one event and
then does what the loop does before it waits again: snapshot of `links_idling`,
`check_link_limits` (may find the link slow), `link_testing_step`. That order is
the point of the module. `Pending` is the TxReady ladder. Durations are left
open: a timeout may elapse whenever its condition holds.

### Limits

`Iterate` is the top of the loop: `adjust_link_tx_limits` and
`check_link_limits`; one event follows. A link that is below its limit and has
nothing to send is idle and used by `UseIdle`; a busy one becomes ready by
`TxReady`. The sizes are scaled down and round-trip times are a few values;
percentages and least limits are the code's formulas over them.

### Server

Each link is set up by two functions that talk over it; `cpc` and `spc` say where
they are. The table is locked for single look-ups only, so that every other step
may fall between a look-up and what is done with its result; this is the point of
the module. A connection at the server is an *instance*, numbered by the channel
links reach it by, so that two connections of the same id are told apart.
`OwnedConnId` is the report of the id when the connection is dropped
(`DropChannel`, `DropConnId`).

### Connector

The transport task is one future: while it runs its loop body, its connect tasks
stand still (`pc`). The connection task runs beside it and publishes the list of
links *after* it told the connect task that its link is gone, so that the list is
stale in between. Watch channels are a value with an unseen mark, because a
change consumed by the wrong reader is a lost wake-up.

### Acceptor

The acceptor task polls its transport and accepting tasks; while it waits for the
lock of `active_transports` (`task = "lock"`) none of them moves, and a link filter
holds that lock for reading across the answers of all transports. `listed` is the
set the filter goes through and `asked` those it has asked. The end of the filter is the
moment of admission: it releases the lock and `add_link` follows in the same poll, so
that both are one step. `add_incoming` is one
step here, as `Server` models it.

### Stream

Bytes are numbered, so that loss, order and alteration show. A frame is made
of cells: length, number with checksum, content; the checksum is the payload
itself, i.e. collisions are left out. Faults alter a cell, lose a frame or cut the
stream. `peeked` and `queue` are the peekable channel; whether the task takes
the next item depends on its size and the space left in the send buffer
(`agg/task.rs:1311`).

## 3. Runs

| Run | Question | Result |
|---|---|---|
| `transfer` | Two messages of length 0 or 1, receive buffer 1, send buffer 2, two links, one fault, the surviving link at its limit now and then. Delivery in order, no false ack, packet states, no packet forgotten, flow control, no protocol error; if the limit does not stop that link for ever, every message is eventually consumed. | holds |
| `links` | Starting without links, two are added, one fault, both Senders may be dropped. End of stream, and an end because everything was transferred (`ok`), mean that every byte was consumed; refinement of `Pipe`. | holds |
| `ending` | Liveness: both Senders dropped, one Receiver closed, a window that control messages overrun so that a task may end early and take the links with it, `no_link_timeout`; both tasks end. | holds |
| `abandon` | Liveness: one user drops both halves with a message of length 0 or 1 under way, perhaps after `close`; both tasks end. | holds |
| `seqnum` | Wrapped numbers over more than two wrap-arounds. | holds |
| `link` | All safety properties of a link, both ends may disconnect, one may block and one pings, one fault. | holds |
| `link_progress` | Liveness of disconnection, blocking and retest with two faults. | holds |
| `server` | Two links to the same or to different servers, connections made by the server and by clients, Listeners that come and go. The table is sound, `Closed` is true, one server per client; liveness: every incoming link is answered. | holds |
| `connector` | Three tags, one of them foreign, two sharing a path; the tags change once, the disabled tags twice; two faults. One link per tag, nothing missed; liveness of disabling, reconnection and removal. | holds |
| `acceptor` | Two transports, two streams of one connection, a caller of `accept`, one fault. The filter asks everybody; liveness of removal and of `accept`. | holds |
| `stream` | Three bytes written in pieces of one or three, cut into packets of two, one fault of the byte stream, one flush. Integrity, end of stream, flush; liveness of close. | holds |
| `limit_stall` | `cfg.rs:147-148`: a link blocked by its limit gets a greater limit when no other link can send. | violated |

Deadlock is not checked in any passing run: an idle connection has nothing to do, a
finished one has ended, and the bounds stop the users.

Four further configurations are kept to reproduce observations of section 5;
TLC reports a violation for each: `idle_pop.cfg` (`MCLink`), `close_promise.cfg`
(`MCTransfer`), `one_session.cfg` (`MCServer`), `max_size.cfg` (`Stream`).

### Bounds, and why they are enough

* *Two endpoints* are the system. *Two links* suffice for every race between
  links: a packet is resent over a link other than its last one, so a third link
  repeats what the other did. Where links are interchangeable, symmetry is used.
* *Messages.* Two messages give reordering, gaps, duplicates of a consumed and
  of a buffered message, and a queue of two in `resend_queue`. With a receive
  buffer of 1 a second message of length 1 has to wait for `Consumed`, so flow
  control is at its limit; a length of 0 is always accepted, so that both messages
  are under way together.
* *Faults.* `MaxFaults` counts unconfirmations, disconnections and failures of a
  link. One is enough for data to move to the other link while copies of it are
  still under way on the first.
* *Window.* `UsableInterval = 0` (`ending`) puts the window at its limit with the
  first message, so that every control message overruns it; 100 keeps it away.
* *Limits in `transfer`.* `MayLimit` lets the client's link `l1` be at its limit: it is
  the link that survives, so it is the one whose limit can stop everything.
  `EventuallyConsumed` also holds when both links of the client are limited, or `l1` at
  both endpoints; that takes three to five minutes and is no run of its own. The
  other runs have `MayLimit` empty: `links` asks for safety, which the theorems give
  for every `MayLimit`; in `ending` there is no data, and in `abandon` one link and a
  first message of at most one byte, which no limit holds up.
* `GiveUp` lets `no_link_timeout` and `termination_timeout` elapse at any time
  and `link_rx` close; it is off where the question is what happens without them.
* *SeqNum* needs several wrap-arounds, not a wide word: the proofs cover every
  width.
* *LinkSched* allows one data message and one consume report, since what matters
  is whether something is queued; two changes of blocking let the second one race
  the first.

* *Limits*: two links are the least for one to hold up the other; two data
  packets and one control message let a link hold only a control message when
  the overrun is noticed, which is where the limit becomes zero.
* *Server*: two links race for one connection or lead to two; three instances
  let the connection of an id end and begin anew; two servers stand for a server
  and its restart; a queue of one is full with one connection.
* *Connector*: two own tags with the same path make the filter choose; a third
  has another transport's name; two faults let a connect fail and the link that
  follows be lost.
* *Acceptor*: two transports let one be added or removed while the other's link is
  filtered; two streams of one connection make the second a further link of it.
* *Stream*: a frame limit equal to the packet size puts the codec at its limit;
  `SeqMod = 3` makes frame numbers wrap; a write larger than a packet is cut.

### Fairness, and why the code justifies it

`select!` polls all event sources in random order and every handler returns, so
an event that stays ready is handled: weak fairness of the events of a task.
A link that has not failed delivers what was put on it. `Transfer` needs less: as
long as a task has work that no limit forbids (`Work`), it does some of it.

Sending and resending data needs a link below its unacked limit, and `Transfer` takes
the limits as they come. Two things are said about them. *Fairness:* `run` looks for
a sendable link in every iteration (`agg/task.rs:599-625`, `847-877`) and `select!`
chooses at random, so data that may be sent again and again is sent: strong fairness.
*Hypothesis:* `EventuallyConsumed` is claimed under `LimitsRecover` only: every limited
link that is not gone is again and again sendable. The code does not guarantee that;
finding 1 is a link that stays at limit zero after the other one was lost. Without the
hypothesis TLC refutes `EventuallyConsumed` in a few steps: a link reaches its limit,
the other is lost, and nothing is sent any more. That a link survives is therefore
not enough for delivery.

In `Transfer`, an unconfirmed link without outstanding ack eventually passes its test
(`ConfirmLink`); `link_progress` shows this of the test procedure itself once the
link is fast enough. `retest_interval` elapses. Nothing is assumed about users,
faults, pings and new links. `transfer`, `ending` and `abandon` keep one
link (`StableLinks`) alive unless the users' task gives up; a task without links
is ended by `no_link_timeout` where `GiveUp` allows it.

*Limits*: a working link that has something to send becomes ready again and its
acks arrive (strong, as `select!` chooses at random among what is ready).
*Server*: each call of `add_incoming` is driven by its own task and gives up after
`ping_timeout`; the user of a Listener deals with what it is given; a full channel
serves its waiters in order, hence strong fairness of `Reserve` and `Join`.
*Connector*: the tasks run, connecting ends, delays elapse, a requested
disconnection completes (`DisconnectEnds` of `LinkSched`). *Acceptor*: `select!`
is random, so the acceptor task's events are strongly fair; the mutex around the
listener is fair; filters return. *Stream*: the task flushes after
`flush_delay`, the byte stream delivers, the reader keeps reading.

## 4. What is proved

Every safety property of a passing run is a theorem.

Assumptions, all evaluated by TLC:

* `Transfer`: `EndpointAssumption`, `SizeAssumption`, `BoundAssumption` (two
  endpoints, naturals as sizes and bounds; any links, buffers and window);
* `SeqNum`: `SeqAssumption` (window, slack and horizon fit in a quarter of the
  number space);
* `LinkSched`: `LinkAssumption` (two endpoints, naturals as bounds);
* `Server`: `ServerAssumption` (there are a connection and a home server, the queue
  of a Listener has room for one);
* `Connector`, `Acceptor`, `Stream`: `ConnectorAssumption`, `AcceptorAssumption`,
  `StreamAssumption` (types of the constants).

Two of the theorems about `Stream` have a hypothesis about constants as well
(`StreamBounds`, below).

The bounds of a model (`MaxFaults`, `MaxSend`, `MaxInst`, ...) are arbitrary
in the proofs, except that `StreamBounds` has at most one fault of the byte stream.
`TypeOK`, `TransferInv`, `FlowInv` and `SeqInv` are proved and are no part of a run;
each inductive invariant was checked with TLC before it was proved, except
`StreamInv`, which says that there are functions on all naturals. What it implies
is checked by the run `stream`.

**TransferProofs.** For any links, buffers, window, lengths and bounds:

* `TypeCorrect`, `TransferInvariant`;
* `Delivery`: the Receiver gets exactly a prefix of what was sent;
* `Acknowledgement`: nothing is released before the peer has it;
* `EndOfStream`: end of stream only after everything was consumed;
* `Refinement`: `Transfer` implements `Pipe`.

None of the three safety properties is inductive. Delivery needs to know that
user messages were numbered in order (`LogInv`), that the consumable data is
exactly what was received below the first gap and not handed out (`RxInv`,
`ConsumeInv`), and how `delivered` follows it (`DeliveredInv`).
Acknowledgement needs that each ack on a link, or queued for one, is for a
message its sender has received (`LinkInv`). End of stream needs that
`SendFinish` is numbered after all data, which rests on the sending side being
closed only when the Sender is dropped and its queue drained (`DrainedInv`,
`FinishInv`, `EofInv`). `TransferInv` is their conjunction. The proof has one
lemma per action (`...Core`), and frame lemmas for the parts an action leaves
alone. The refinement maps every action but the users' and `ConsumeReceived` to a
stutter; `LogInv` and `ConsumeInv` give that the front of `consumable` is the
next message.

**FlowProofs.** For any links, buffers, window, lengths and bounds:

* `PacketsAlwaysConsistent`: the resend queue holds exactly the packets in state
  ResendQueued, and those in state Sent name a confirmed link;
* `PacketsAlwaysTracked`: a packet in state Sent, or its ack, is under way over its
  link unless the peer has given the link up;
* `FlowAlwaysControlled`: no byte counter falls below zero and no receive buffer
  holds more than its size;
* `OkAlwaysMeansConsumed`: a task that ends because everything was transferred has
  had every byte it sent consumed;
* `NoErrorWithinWindow`: `Spec /\ []SeqWindow => []NoProtocolError`;
* `AcksAlwaysFinal`: no step numbers a message anew, changes a numbered message or
  brings an acknowledged packet back into use;
* `ReceiptsAlwaysFinal`: no step forgets that a message was received.

The last two are action properties, about what a step may never do. `AckFinal`
needs `QueueOK` of `PacketInv` (what is resent is in state ResendQueued, hence not
acknowledged); `GotFinal` needs the shape of the reorder buffer, `RxInv`. They are no
part of a run. TLC agrees with both on the configuration `transfer` (the naturals in
`GotKept` cut at 9), and `AckFinal` fails there when `unconfirm_link` does not look at
the state of a packet.

`FlowInv` is inductive beside `TransferInv` and has three parts. `PacketInv`, the
conjunction of the first two properties, is inductive only as a whole: that
unconfirming a link leaves no packet behind needs that packets in state Sent are on
confirmed links, and that an ack which is ignored loses nothing needs that it
arrived over another link than the packet's last one. `BytesInv` says what each
counter counts: `rxed_reliable_size` the data received and not consumed,
`txed_unacked` the data of packets not acknowledged, and `txed_unconsumed` the sum of
what is on its way, held, consumed but not reported, and reported in messages that
have not arrived; the flow control of the two tasks rests on this balance, which
involves both of them and every message under way. `EndInv` says that data
messages carry the user's data, that `ReceiveFinish` means a dropped Receiver, and
that a sending side is closed because there is nothing, or nobody, left to send
to.

A sum over messages is stated by a witness: `IsSum(w, n, x)` says that there is a
sequence of partial sums of `w` that leads from 0 to `x`. A step changes one term or
adds one, so the old witness yields the new one (`SumChange`, `SumExtend`) and no
induction over data is needed.

`NoErrorWithinWindow` has a hypothesis because the code does not guarantee it:
`tx_seq_avail` keeps data within the window, control messages ignore it (section
5). Of the three errors a receiver may report, the two about buffers are excluded
without it (`MessageFits`).

**LinkProofs.** For any limit and any numbers of messages, faults and changes of
blocking: `LinkTyped`, `IdleAlwaysReady`, `NothingEverWaits`, `PingAlwaysTracked`,
`AcceptedAlwaysFirst`. An iteration of the loop applies several functions to the
record of a link, so most of `LinkInv` is a predicate of one record (`Good`) that is
followed through them: a link in the idle list can send, one that is not polled
has nothing to send, only an unconfirmed one is tested, one that is not up is as
new. The type itself is not inductive: that every ack meets a packet needs the
count of messages and acks under way (`AckInv`). `AcceptInv` says that what a
connecting task sees first is `Accepted`.

**ServerProofs.** For any links, servers, connections and Listeners:
`TableAlwaysSound`, `ClosedAlwaysTrue`, `OneServer`. The table is unlocked between
look-ups, so `ServerInv` says what remains true meanwhile: the entry of a connection
stays until its id was reported as dropped, and an id is reported only while it has
an entry (`TableInv`); the instance a link joins or starts belongs to its
connection, and nobody else touches one that is being started (`TargetInv`);
what is queued for a Listener is queued once (`ListenInv`); links in an instance
belong to it (`MemberInv`).

**ConnectorProofs.** For any tags and any reports and disabled sets:
`OneLinkPerTagAlways`, `NothingMissedAlways`. Every link has the connect task that
made it (`OwnerInv`); the published list is right except until the publication that
follows a removal (`ListInv`); what the transport task read at the top of its loop
and what it decided from it is still so, or a wake-up is pending (`SeenInv`,
`DecidedInv`).

**AcceptorProofs.** `FilterAlwaysComplete`, for any transports, streams and callers: a
filter holds the lock from the moment it takes its list, so no transport that it
does not go through has started to listen (`ActiveInv`, `ListedInv`).

**StreamProofs.** `FlushAlwaysCovers`, for any sizes and faults: there is at most one
flush request, and where it is (queue, peeked, carried out, answered) decides
what is still in front of it. That a request is the last in the queue holds also
when an earlier flush was given up, because `poll_flush` keeps its receiver and
`poll_ready` waits for it before anything else is written.

`ReadAlwaysIntact` and `EofAlwaysMeansAll` say that the reader gets what was written,
and the end only after all of it, for any sizes, buffers, queues and frame limits
and for any modulus of the frame numbers above one, under `StreamBounds`:

* at most one fault of the byte stream. The number and the checksum of a frame
  are made for one: the number wraps, so that losing exactly as many frames as there
  are numbers goes unnoticed, and in the model, where the payload stands for its
  checksum, a length and a checksum may be altered so that they fit each other;
* no empty packet, which `poll_read` would take for the end (section 5):
  `io_write_size` and `recv_buffer` are `NonZero` types (`cfg.rs:53` and `65`);
* the reader asks for at least one byte.

The inductive invariant `StreamInv` remembers, under existential quantifiers, what
the state has forgotten: the payload, position and number of every frame that was
ever encoded (`Framed`), and after which byte each packet ends (`Packets`,
`Delivered`). What is on its way is then the rest of that sequence of cells behind
the position of the decoder, with one cell altered or one frame left out
(`Way`), and cut where the sending task ended. From this follow, one step of the
decoder at a time, that a header which passes is that of the next frame
(`HeaderDecoded`), or has a length that its checksum does not fit (`BadHeader`), so that the
payload fails; that a payload which passes is that of the next frame
(`PayloadDecoded`); that payloads alternate between announcements and packets; and
that the bytes read, buffered, passed on, on their way, peeked and queued are those
written (`Waiting`, `Divided`). A step adds one frame or takes one, so the old
witnesses yield the new ones and no induction over data is needed.

**SeqProofs.** For every width `M`: `Ordering`, `Acking`, `Receiving` and
`Underflow`. The inductive invariant `SeqInv` says that the number of message
`k` lags `tx_seq` by `tx - k`, that `rx_seq` does so by `tx - rx`, that the window
is bounded, that what left it was received, and that slots hold their messages.
The lemmas `Differences` and `Ages` carry the arithmetic: within a quarter of the
space, wrapped differences and comparisons are exact.

### Only model-checked

Liveness (`EventuallyConsumed`, `EventuallyEnds`, `AbandonedEnds`,
`DisconnectEnds`, `BlockingAgrees`, `Reconfirmed`, `IncomingHandled`,
`DisabledDisconnects`, `Reconnects`, `RemovedLeavesNothing`, `TransportEnds`,
`AcceptReturns`, `CloseReachesReader`): fairness and `ENABLED` are out of the prover's reach.
`BlockedLimitIncreases` is refuted, not proved.

## 5. Findings

1. **A link stays blocked by its limit (`agg/task.rs:1426`, run `limit_stall`).**
   On an overrun the limit of the link with the oldest packet becomes a share of
   what is unacknowledged on it, which is zero when that is a control message. The
   next increase waits for the ack of `coming_seq`, which is sent only once a link
   is sendable. When the other links are lost, the link carries nothing any more.

### Observations

With a configuration that reproduces them:

* **Stale `links_idling` (`agg/task.rs:997`, `idle_pop.cfg`).** The snapshot is
  taken at line 445, `check_link_limits` at line 507 may unconfirm the only idle
  link, and `SendConsumed` then unwraps the pop of an empty list. It takes
  another confirmed link that is fast and busy.
* **`Receiver::close` does not stop the sender (`agg/task.rs:2101`,
  `close_promise.cfg`).** `write_closed` is set but never read, although
  `alc/receiver.rs:103-104` says that no further messages are sent.
* **A second session (`one_session.cfg`).** A link that was set up with
  `existing_connection = false` and arrives after the first session of its
  connection ended starts another one, so that links the client's task was given
  belong to two tasks at the server.
* **Sizes that do not fit (`alc/sender.rs:80`, `max_size.cfg`).** `max_size` follows
  from the remote receive buffer, about 67 MB by default, and the codec takes
  frames of 8 MiB: a message between the two is accepted and ends every
  stream-based link it is tried on. One larger than the local send buffer is
  accepted and never taken from the queue.

Found by proofs that failed:

* `agg/task.rs:2099-2104`: a `ReceiveClose` that arrives after `ReceiveFinish`,
  over another link, turns the stored `SendError::Dropped` into `Closed`.
  `write_error` therefore does not tell whether the peer's Receiver was dropped, and
  `OkMeansConsumed` speaks of the Receiver itself. Data of length zero need not be
  consumed when a task ends with everything transferred, since the exit check
  counts bytes.
* `LinkTestingStep` of `LinkSched` had two cases that overlapped; they are now told
  apart in the order of the code.

By reading:

* `agg/task.rs`: control messages ignore the window of `seq.rs:11-12`, and the
  receiver answers an overrun by ending the connection. `TestData` and `Pong` may
  follow `Goodbye` on a link, against `msg.rs:154-155` (lines 803, 808, 1844).
  Queued acks are dropped when the peer disconnects a link, against the comment at
  815-816. When both ends disconnect at once, the comment at 2021-2022 need not
  hold.
* `connect.rs`: the `unwrap` of `try_send` at line 561 panics when other links
  have filled the queue meanwhile and leaves the table entry; an `Incoming` made for
  a Listener that was dropped between reserving and sending is handled by nobody,
  and links that join it wait. Both are in `Server` (`panicked`, `orphan`). A first
  link whose handshake fails leaves its server id in `remote_server_id`.
* `transport/connector.rs`: a rejection recorded after the list of rejected tags was
  cleared blocks its tag until the next clearing; a change of tags consumed by
  `borrow_and_update` elsewhere is published late; the list of links keeps its
  last value when the connection task ends.
* `transport/acceptor.rs`: a slow link filter holds the read lock and thereby stalls
  all transports while one is being added; the timeout of `accept` starts when the
  listener is locked, so concurrent callers time out one after the other.
* `alc/`: a packet of length zero is an end of stream to `poll_read`; `poll_write`
  clamps to the receive buffer and not to `max_size`; a concurrent `Sender::flush`
  overwrites `flushed_tx` of the first.

## 6. Not modelled

* Forceful termination (`terminate_connection`) by the peer or on request: it ends
  both tasks at once and keeps no state. The transport's link filter is in
  `Connector` and `Acceptor`, fatal connect errors are in `Server`.
* `IoTx` with `ignore_flush`, and several concurrent flush requests.
* Statistics, configuration objects, and the encryption of connection ids.
* Time itself: timeouts are nondeterministic, so properties that depend on
  durations are out. This includes the age of copies against the number space.
* `Outgoing` and the `connect` functions, which only wrap `Control`.
* Platform code: transports (except that the TCP transport's tags and link filter
  are the source of those in `Connector`), executor for the web, monitor, tools.

## 7. Plan

What can be modelled faithfully and keeps state of its own is modelled, and every
safety property of the runs is proved. What is left is to state and prove of
`Limits` that unacked bytes and limits are never negative, with the sums of
`FlowProofs`.
