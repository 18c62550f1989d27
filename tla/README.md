# TLA+ verification of boardcommd

boardcommd is a message daemon for boards: local processes publish and subscribe
over a Unix socket (or a shared-memory ring), and the daemon forwards messages to
other boards over UDP, UDP-KCP, TCP or UART. This directory holds TLA+ models of
it, the TLC runs that check them and the TLAPS proofs about them.

## The system

| Component (source) | State | Operations | What is hard |
|---|---|---|---|
| Client manager (`src/src/daemon/client_manager.c`) | list of clients, each with `rx_buf`, `tx_buf`, epoll mask | accept, read and frame, flush, `resume_pending_publishers`, close | backpressure: a publish waits in its publisher's buffer until some other client drains; clients disappear in the middle |
| Message bus (`message_bus.c`) | table of subscriptions, sequence number | subscribe, publish, deliver, forward, inbound, ACK | one delivery of several fails; QoS 1 |
| Router, topic match (`router.c`, `topic_match.c`) | channels and routes (constant) | choose a transport | wildcards, default channel |
| Reactor (`reactor.c`) | registered descriptors | `epoll_wait`, callbacks | one thread; callbacks close what others refer to |
| Receive loop (`main.c`) | `rx_buf` of each transport | read, cut into frames, hand to the bus | the buffer outlives connections |
| Protocol (`protocol.c`) | none | encode, frame length, decode | torn and garbled frames |
| TCP transport (`tcp_transport.c`) | connection, send queue, retry timer | connect, accept, send, flush, receive, drop, back off | partial writes, resets, reconnects, replaced connections |
| Fragmentation (`fragment.c`) | 16 slots | split, feed | lost and duplicated fragments, sequence numbers used again |
| File transfer (`src/api/bc_file.c`) | expected chunk, cache of 256 chunks | START, DATA, END, NACK, DONE | loss, reordering, timeouts on both sides |
| Shared-memory ring (`src/src/shm/bc_shm.c`) | bytes of the ring, 32-bit `head` and `tail` | write, peek, read | two processes without a lock, wrap-around of ring and counters |
| UART transport (`uart_transport.c`) | device, send queue, DE pin, retry timer | open, send, flush, receive, lose and reopen the device, close | half duplex, device lost in mid-frame, partial writes |
| UDP-KCP transport (`udp_kcp_transport.c`) | KCP session, `rx_buf` | send, pump the socket, tick, drain, receive | a full `rx_buf`; `recv` that sends |
| ikcp (`kcp/ikcp.c`) | `snd_queue`, `snd_buf`, `rcv_buf`, `rcv_queue`, windows, acknowledgements | send, recv, input, flush | loss, repetition, late acknowledgements, windows that close |
| UDP transport (`udp_transport.c`) | none | send, receive | - |
| Client SDK (`bc_client.c`) | socket, ring | subscribe, publish, read | framing, SHM set-up |
| Configuration, statistics, log | - | - | parsed once; never read back |

Calls go down from the reactor to one handler (`on_client_event`,
`on_server_event`, `on_transport_event`), from there into the bus, and from the
bus back into the client manager (`deliver_to_client`) or into a transport
(`send`). All of it is one thread, so what interleaves is that thread with the
clients, the kernels and the other boards.

## Modules

* **Router** - `bc_topic_matches` and `bc_router_route` as operators. A topic is a
  sequence of levels.
* **Broker** (EXTENDS Router) - the client manager, the bus and the reactor.
  `pc` is the place in `on_client_event`: `wait` (in `epoll_wait`), `flush`,
  `resume`, `read`, `process`; `crashed` stands for the use of freed memory going
  wrong, and `freed` is set for the rest of a handler that has used such memory.
  Buffers are counted in frames. One action per phase of the handler:

  | Action | Code |
  |---|---|
  | `Accept`, `Close` | `on_server_event`, `close_client` with `bc_message_bus_remove_client` |
  | `ClientEvent` | `epoll_wait` returns a client |
  | `Flush`, `FlushFails` | `flush_client_tx` and what follows it |
  | `Read`, `ReadNothing`, `ReadEof` | the `read` loop |
  | `FrameDone`, `FrameBlocked`, `FrameUnroutable`, `FrameFatal`, `NoFrame` | `process_one_message` by its result, in the handler or in `resume_pending_publishers` |
  | `ResumeEnd` | the end of `resume_pending_publishers` |
  | `Arrive` | `bc_message_bus_handle_inbound` |
  | `Write`, `Take`, `HangUp` | the clients |

  What a transport answers (`SendResults`) is free. The frames of a client are the
  ones the SDK builds: STATS and SHM_SETUP have no topic. `written`, `done`, `owed`,
  `got`, `lastRead`, `netSent`, `conns` and `arrived` are history: properties read
  them, and `written`, `conns` and `arrived` also carry the bounds.
* **MCBroker** - instances of Broker.
* **Framing** - a frame is `Parts` pieces, because kernels take and give any number of
  bytes; what `protocol.c` finds at the head of `rx_buf` (`Whole`, `Bad`).
* **Backoff** - the retry delay of TCP and UART in the width of `int`, and what
  `timerfd_settime` makes of it.
* **TcpTransport** (EXTENDS Framing, Backoff) - two boards joined by
  `tcp_transport.c`, each with the receive
  loop of `main.c`. `step` is the place in `on_transport_event`. `Handshake` and
  `Break` are the network; a connection is recycled once both ends have closed it.
  `tcp_queue_send` writes at `send_len`, which can lie past the end of `send_buf`
  after a partial flush: `SendLater` then goes on or crashes, and the model ends
  with a crash.
* **MCTcp** - instances of TcpTransport.
* **UartTransport** (EXTENDS Framing, Backoff) - one board's serial port in RS-232 or
  RS-485 mode, with the same receive loop. `de` is the code's `de_tx_active`, `pin` what
  the GPIO really is, `out` and `in` what the kernel holds.

  | Action | Code |
  |---|---|
  | `Reopen`, `ReopenFails` | the timer: `uart_try_reopen` |
  | `HangUp` | EPOLLHUP or EPOLLERR: `uart_schedule_reopen` |
  | `Flush`, `FlushRefused` | EPOLLOUT: `uart_flush_send` |
  | `Readable`, `Recv`, `RecvNothing`, `RecvLost` | EPOLLIN and `uart_recv` |
  | `ParseFrame`, `ParseEnds` | `process_transport_frames` |
  | `SendNow`, `SendLater`, `SendFails`, `SendRefused` | `uart_send` |
  | `Stop` | `uart_close` |
  | `DeviceLost`, `DeviceBack`, `Shift`, `Arrives` | the device and the line |

  As in TcpTransport, `SendLater` past the end of `send_buf` goes on or crashes. Faults are
  the loss of the device, a write to the GPIO that fails and a `tcdrain` that ends early, as
  when the SIGINT or SIGTERM that stops the daemon (`main.c:186-187`) interrupts it;
  `uart_rs485_tx_disable` ignores both results (`uart_transport.c:204-206`), as the code does.
  `refused` and `cut` remember, until the driver is let go again, that this happened.
* **MCUart** - an instance of UartTransport.
* **Channel** - an abstract FIFO: messages come out whole, in order, once, and not before
  they went in. The ring and the KCP session implement it.
* **ShmRing** - one ring of `bc_shm.c` in steps of one memory access: `WriteBegins`,
  `Store`, `Publish` are `bc_shm_ring_write`; `Peek`, `LoadHeader`, `CheckLength`, `Load`,
  `Release` are `bc_shm_ring_read` with `bc_shm_ring_peek_len`. `head` and `tail` wrap at
  `Turns * Size`, which stands for 2^32.
* **MCShm** - an instance of ShmRing.
* **Ikcp** - the control block of `ikcp.c` as operators from a control block to the next:
  `Send`, `Recv`, `Input`, `Flushed` with what it sends (`Outgoing`, `Packed`).
* **KcpTransport** (EXTENDS Framing, Network, Ikcp) - two boards with
  `udp_kcp_transport.c` on it: `SendFrame`, `Tick`, `Datagrams`, `RecvFrames`, each with the
  `kcp_update_session` it ends in, and `Disturb`, the network.
* **MCKcp** - an instance of KcpTransport.
* **FileDelivery** - what `bc_file_send` and `bc_file_recv` promise: one sender's
  file accepted, received whole and checked, or an error and no file, and no success for a
  sender before that. Whether the disk has all of an accepted file (`whole`) is left open.
* **FileTransfer** - `bc_file.c`: any number of `send_file_path` and one
  `recv_file_path` on one topic. `down` and `up` hold what the daemons between them
  have under way; a fault loses, repeats or delays one packet, breaks a socket, or is a disk
  that refuses what stdio still holds at the end (`FileClosed`: the result of `fclose` is
  ignored, `bc_file.c:812` and `879`, and the CRC is that of the bytes received).

  | Action | Code |
  |---|---|
  | `SendStart`, `SendData`, `SendEnd` | `send_file_path` up to its END |
  | `SeeDone`, `Resend`, `CannotResend`, `SkipControl` | `sender_handle_controls`, packet by packet |
  | `RoundEnds` | a round of the loop that waits for DONE, whatever is still on its way |
  | `TakeStart`, `TakeChunk`, `TakeLastChunk`, `TakeEnd` | a packet that `recv_file_path` uses |
  | `AskForMissing`, `Ignore` | a chunk that came early; one that is of no use |
  | `ReceiverTimesOut`, `SenderBreaks`, `ReceiverBreaks` | the other returns |
  | `Disturb` | the network |

  A file is counted in chunks, a CRC is the content it was computed from, so that
  equal CRCs mean equal content, and a transfer id is its sender's name. DATA has no
  transfer id: the chunk keeps its sender's name only for the properties.
  `SenderReport`, `ReceiverReport` and `Accepted` map it to FileDelivery.
* **MCFile** - instances of FileTransfer.
* **Network** - what may happen to packets under way: lost, repeated, overtaken.
  FileTransfer, Reassembly and KcpTransport extend it.
* **Reassembly** - `fragment.c`: `Publish` and `PublishBreaks` are
  `bc_fragment_publish`, with a transport that takes all or some of the pieces; `Feed`
  and `FeedRefused` are `bc_reasm_feed` with `find_slot`; `Restart` is a board whose
  `next_seq` begins again. A slot keeps what it held when it is released, as in the
  code. A piece carries the boot it was cut in, for the properties only.
* **MCReassembly** - an instance of Reassembly.
* **BrokerProofs** - theorems about Broker: types, freed memory, what is owed, what is left
  after a close, EPOLLOUT, QoS 1, order.
* **FileProofs**, **ShmProofs**, **ReassemblyProofs**, **UartProofs**, **TcpProofs**,
  **KcpProofs** - theorems about FileTransfer, ShmRing, Reassembly, UartTransport,
  TcpTransport and KcpTransport with Ikcp.
* **FramingProofs** - lemmas about frames and pieces of them, and induction over numbers,
  for UartProofs, TcpProofs and KcpProofs.

These simplifications matter to a reader. `Broker` serves one event per
`epoll_wait`, where the program takes up to 32. `TcpTransport` takes a frame put
together from two connections for bad, as the CRC does when there is a payload;
the CRC does not cover a frame without one. In `FileTransfer` all chunks have one
size, so the bytes received are a number of chunks, and a chunk that happens to begin
with the four bytes of the transfer id, which `recv_file_path` would cut off, does not
occur. `ShmRing` makes stores visible in the order of the program, as x86 does; the code
has no barrier, and the mutant of `Stored` shows what a machine that reorders them does.
`UartTransport` has no second driver on the RS-485 bus: the code does not arbitrate. In
`Ikcp`, round-trip times, clocks and counts of transmissions only decide *when* a segment
is sent again, so `Flush` is told which segments are (`again`): any set, at the price of a
fault while an answer may still be on its way. The congestion window is switched off by
`ikcp_nodelay(.., 1)`, stream mode is not used, and sequence numbers do not wrap.

## Runs

| Run | Checks | Shows |
|---|---|---|
| `broker` | `TypeOK`, `FreedOnlyByResume`, `InOrder`, `NoLoss`, `QosOneHandedOver` | publishers and subscribers with `TxCap` 1, missing routes, refused frames, a subscriber that leaves; freed memory is used only where the resume loop closes a client |
| `broker_net` | `InOrder`, `NoLoss`, `NothingSurvivesClose`, `ArmedWhileQueued`, `RetryAfterDrain` | overlapping subscriptions, a descriptor that is used again, messages from other boards; a held-back publish is handled once its subscriber reads |
| `tcp` | `TypeOK`, `StreamIntact`, `OnceInOrder`, `Drains` | partial writes, two faults, two connections |
| `uart` | `TypeOK`, `DriverOn`, `BusReleased`, `LineInOrder`, `OnceInOrder`, `KeepsTrying`, `Drains`, `Hears` | both modes, partial writes and reads, a device that is lost and comes back, a GPIO that refuses, a `tcdrain` cut short |
| `shm` | `TypeOK`, `RingHolds`, `IsChannel`, `AllRead` | two processes byte by byte, records across the end of the ring, counters that wrap; ShmRing implements Channel |
| `kcp` | `TypeOK`, `ForgottenOnlyIfReceived`, `IsChannel`, `OnlyFullBuffersLose`, `AllArrive` | frames of two segments, windows that close, a datagram lost, repeated or overtaken, a timeout that comes early; a session implements Channel |
| `file` | `TypeOK`, `OnlyMixingSpoils`, `Truthful`, `Promise`, `EverybodyReturns` | two senders on one topic, one fault of any kind, timeouts at any moment; FileTransfer implements FileDelivery |
| `reassembly` | `TypeOK`, `Unmixed`, `SlotsAccounted`, `Lossless` | two boards, two slots, two faults, a restart |
| `broker_retry` | `RetryIsComing` **violated** | the full subscriber leaves and nobody retries |
| `tcp_backoff` | `RetryIsArmed` **violated** | the backoff overflows and the client stops trying |
| `uart_idle` | `KeepsDevice` **violated** | a read of an idle line returns 0 and the port is closed though its device is there |
| `file_loss` | `LossIsRepaired` **violated** | the first of two chunks is lost, comes again, and nobody asks for the second |

Three more disagreements were met in Broker and are not kept as runs: a QoS 0 message is
queued again for a subscriber at each retry of a publish that another subscriber holds
back; with `require_route` a publish without a route blocks its publisher instead of being
refused (`src/README.md:279`); and the SHM_SETUP frame has no topic and is
refused, so that no client gets a ring from the daemon.

One bug of `client_manager.c` contradicts no document, so no run is kept for it: when a
frame that `resume_pending_publishers` tries again is fatal, the loop closes its client and
then takes `client->next` from the freed memory (line 311); if it was the client
whose event is being handled, `on_client_event` goes on with it (lines 430 to 456). The
model takes both steps (`FrameFatal`, `ResumeEnd`) and lets the daemon crash or carry on;
`FreedOnlyByResume` says that this is the only way that freed memory is used.

Bounds. Capacities are 1 to 3 frames: the code compares free space with the size of
one frame, so full, nearly full and empty are all met. Three descriptors give two
publishers and a subscriber, or a publisher and two subscribers, which is what it
takes for one delivery of several to fail and for the resume loop to pass over a
client. `MaxWrites` lets a publisher fill a queue and have one frame wait behind it.
`MaxConns` 2 gives a descriptor to a second client. In `tcp`, `SendCap` 3 with
frames of two pieces reaches a full queue, a refused frame and the overrun after a
partial flush; three frames, two connections and two faults let a torn frame of one
connection meet the next. `tcp_backoff` uses the program's own 1000 ms, 30000 ms
and INT_MAX. In `uart`, frames of two pieces, one piece of output and `SendCap` 3 give partial
writes, a full queue and the overrun; two faults lose the device twice, or once with a GPIO
that refuses or a `tcdrain` that is cut short. In `shm`, a ring of 6 bytes with counters modulo 12, lengths of two bytes and six
records of 0 to 3 bytes put every field of a record across the end of the ring and across
the wrap of the counters, with the ring full and empty. In `kcp`, a frame is two segments,
windows are 3 segments, so that two frames close them; `RmtWnd` 2 is a peer's window
that is believed smaller than it is, as 128 is at first; `rx_buf` is 6 or 7 pieces: two frames
exactly, or with something left; three frames go one way (both
ways are beyond TLC) and one fault happens. In `file`,
one fault of any kind happens; a file of three chunks and a window of two put a chunk out of
the cache, the other file is of one chunk, so the senders mix in both ways, and two
rounds are enough for END to be sent again. In `reassembly`, two slots for two boards
are enough without faults and too few after one; `Total` 2 is what `BC_FRAG_CHUNK_MAX`
makes of the longest payload; one of the boards restarts (`Restarting`); the proofs
have no such bound.
Deadlock is not checked where the bounds on what clients write let the
system come to rest, and in `file`, where it ends when all calls have returned.

Fairness. `broker_net`: a handler that started runs to its end (one thread, no
blocking call), epoll returns a descriptor that is ready again and again, and
clients read; nobody has to publish. `tcp`: each board takes its own steps, the
kernel completes handshakes, a timer that is set expires; no fault and no send is
assumed. `uart`: the loop of the reactor turns and a UART sends what it holds; nobody has to
publish and the device need not come back. `shm`: a reader reads again and again, a writer
that has begun ends; nobody has to begin. `kcp`: the reactor serves the timer and the socket
again and again, and the loop of `recv` calls goes on; the formulas are strong fairness of
`FlushTick` and `Datagrams` and weak fairness of `RecvFrames`, with the guards written out,
since TLC cannot evaluate ENABLED of these actions in reasonable time. `file`: each process goes on, and its reads return a packet or time out; no
fault is assumed. `RetryAfterDrain` leaves out a publish that several copies are due of: with
two full subscribers each retry refills the one that drained, and it may wait for
ever.

`StreamIntact` is about connections that began with an empty `rx_buf`: `main.c` does
not reset `rx_len` when a connection is lost, so the first frames of the next one can
be thrown away with the torn one. `OnceInOrder` holds without that condition.

`SlotsAccounted` is the price of having no timeout in `fragment.c`: it says that a slot
is lost only to a fault or to a fragment that found none, and its other side is that it
is lost for good. `Unmixed` is stated for boards that have not restarted; a board that
restarts in the middle of a message has its old piece completed with a new one.

`KeepsTrying` is `RetryIsArmed` for the UART, up to the attempt whose delay is negative.
`DriverOn` finds bytes in the UART with the driver off only after a `tcdrain` that was cut
short, and `BusReleased` a pin left high only by a GPIO that refused to let it fall.

`OnlyFullBuffersLose` states exactly what `kcp_drain_recv` may lose: when a burst
fills `rx_buf` to its last byte, the next turn empties it, although KCP has acknowledged the
frames; with any byte left over it waits. `AllArrive` is about what comes out of the session,
and about what the bus gets where `rx_buf` cannot be filled to the last byte. Where it can, as by
32 frames of 100 bytes, frames are lost without any fault of the network, against "reliable
transport" (`src/README.md:223`).

`OnlyMixingSpoils` says what the check at the end of `recv_file_path` is for: as DATA does not
name its transfer, two senders on a topic can fill one file, and nothing else can make the
check fail. `Truthful` and `Promise` are about the transfer: success means that all of the
file was received and handed to stdio. They do not say that the disk has it: `FileClosed` may
leave `onDisk` at "short", and both sides still report success, which
`src/examples/file_recv.c:54` prints as "saved".

`RetryIsArmed` also fails with `Immediate = {"failed"}`, in a few steps: a `connect` that fails
at once in the timer handler (no route to the host) closes its socket, and its result is
ignored (`tcp_transport.c:638`), so nothing is scheduled again.

`NoLoss` counts a frame once it is handled. What waits in `rx_buf` of a publisher that is
closed is dropped unhandled, and an inbound message for a full subscriber is dropped at once; the
ACK, which `NoLoss` covers, is then not sent.

## Theorems

They hold for every value of the constants that satisfies the assumption of the module
(`ReopeningIsComing` has one hypothesis more):
those about `Broker` for every set of clients, every capacity, menu and routing table;
about `FileTransfer` for every set of senders, sizes of files, window, number of rounds and
set of faults; about `ShmRing` for every size of the ring, width of the counters, encoding
of lengths and set of records; about `UartTransport` for frames of any number of pieces and
buffers of any size; about `TcpTransport` for any number of connections, frames and faults,
frames of any number of pieces and buffers of any size; about `KcpTransport` for windows,
segments, frames and `rx_buf` of any size, any number of frames in both directions, any set
and number of faults; about `Reassembly` for any number of boards, slots, fragments, restarts
and faults. None uses fairness. The bounds on what the environment does (`MaxWrites`,
`MaxSent`, `MaxFaults` and the like) are constants too, so they limit nothing.

Broker:

* `BuffersBounded`: `Spec => []TypeOK`. `TypeOK` alone is not inductive: `Flush`
  needs the client being served, and `Current` the head of `todo`. `Lists` adds
  where `me` is a client and that the list of clients and what is left of it have no
  duplicates and hold open clients only; `Types` proves the two together.
* `FreedMemoryOnlyAfterResume`: `Spec => []FreedOnlyByResume`, from the same invariant, which
  therefore also says that a daemon that is down, or will go on after the loop with a client
  that was closed, has used freed memory. The step that matters is `FrameFatal` in the resume
  loop: what is left of the list does not contain the client just closed, because the list has
  no duplicates.
* `NothingIsLost`: `Spec => []NoLoss`. `NoLoss` relates ids that are done to ids that
  are owed, so a fresh id must be new: `Numbered` says that
  nothing owed, done or waiting carries a number beyond the last one its source has
  used, so that the next number is fresh. `Meant` says that whoever is owed a waiting frame still has a matching
  subscription, since only closing removes one and it removes what is owed too. Then
  a publish that returns OK found room for every copy, `PublishResult` being "NOMEM"
  whenever one did not fit.
* `DescriptorsStartAfresh`: `Spec => []NothingSurvivesClose`: no subscription, no byte in
  either direction and no watch for EPOLLOUT. A step that gives somebody
  something gives it to a client that is connected, which `Lists` knows of the one being
  served, of those in `todo` and of those with a subscription; only `Close` disconnects, and
  it clears everything. `Blanks` is that part alone.
* `WatchedWhileQueued`: `Spec => []ArmedWhileQueued`, inductive together with the types.
* `QosOneIsHandedOver`: `Spec => QosOneHandedOver`, an action property: only `FrameDone`
  finishes a frame, and the result it follows is `PublishResult`.
* `MessagesStayInOrder`: `Spec => []InOrder`. `InOrder` compares what is on its way
  to a client with what it has read; a retry sends an *old* frame, so the invariant `Orderly`
  must also say what is still behind: `Increasing` (the frames a client has not
  finished grow), `Ahead` (nothing a subscriber has seen of a source is later than any frame that
  source still has to have handled) and `Sorted` (every path to a client is in order). A copy
  that is queued again is then no earlier than all that went before it. It rests on
  `Numbered` and `Meant` of NoLoss.

FileTransfer:

* `FileTypes`: `Spec => []TypeOK` of FileTransfer. `DisturbedHoldsNoOther` is the
  lemma it rests on: a fault makes no packet that was not there.
* `OnlyMixingIsRefused`: `Spec => OnlyMixingSpoils`, an action property. If all that was appended
  and the packet that arrives are the transfer's own, the file is that sender's: `Honest`
  (below) says that END carries the CRC of that sender's file, the lemma `ChunksInSequence` that the
  chunks are numbered without gap, and `OwnChunksAreTheFile` puts the two together.
* `ReportsAreTrue`: `Spec => []Truthful`, which says nothing of the disk. `Truthful` speaks of calls that have
  returned; `Honest` adds what is still under way: a DONE in `up`, however late or
  repeated, and `doneSeen` are only there once the receiver has that very transfer, and
  `endCrc` is the CRC of the file whose START was taken. `Controls` is the set of
  packets that are true in the present state; it only grows, because a receiver that
  has returned takes no more steps, so `up` stays a sequence over it.
* `ImplementsDelivery`: `Spec => Promise`, step by step from `Honest`: a receiver's step
  is `Accept`, `GiveUp` or a stutter, a sender's is `Confirm`, `Abandon` or a stutter.

ShmRing:

* `NeverOverrun`: `Spec => []TypeOK` of ShmRing, whose last conjunct says that what is
  unread and what is being written never exceed the ring. It is not inductive: `Release`
  moves `tail` by the length it read from the ring, so the bytes there must be right. `Ring`
  adds `Layout` (where each record begins: the unread ones follow each other from `tail` to
  `head`), `Contents` (the cells of each unread record are its encoding), `WriterHas` and
  `ReaderHas` (how far each process is with its record). A `Store` leaves all unread cells
  alone because two positions less than `Size` apart are different cells
  (`DistinctCells`), also when the counters wrap, since `Wrap` is a multiple of `Size`.
* `ImplementsChannel`: `Spec => IsChannel`. `Publish` is `Put`; `Release` is `Get`, because by
  `ReaderHas` what was loaded is the next record; all other steps stutter.
* `RecordsInRing`: `Spec => []RingHolds`. `Ring` says record by record what `RingHolds` says of
  all bytes between `tail` and `head` at once. The step from one to the other goes
  over the number of unread records (`Flattening`, `InRing`): `FlattenSeq` of one more
  record is what it was, followed by that record.

UartTransport:

* `BuffersKeepTheirSize`: `Spec => []TypeOK`, which bounds what is unsent and unread, not where
  `uart_send` writes: that can be past the end of `send_buf` (`SendLater`). `Typed` adds that `process_transport_frames`
  leaves less than a frame behind when the loop goes idle, which is why the next `recv` has room. The
  proof needs `Parts <= SendCap` (`send_buf` is eight frames): a first `write` that
  takes nothing queues a whole frame without looking at the room.
* `DriverOnWhileSending`, `BusIsReleased`: `DriverOn` and `BusReleased` are inductive only
  together (`Driven`), with `cut` and `refused` as their only excuses: `SendNow` may rely on the driver being on from an earlier send because
  the board claims the bus exactly while something is queued.
* `SentInOrder`: `Spec => []LineInOrder`. `Sending` says it of `Stream`, all that went out, is
  in the UART and waits; `StreamStep` says that every action leaves the stream as it is, adds
  one frame at its end, cuts out what the UART held (the device is lost) or drops the queue
  (the daemon stops), and each of these keeps it rising. `Carries` is how the concatenation of
  frames is written without recursion.
* `GivenOnceInOrder`: `Spec => []OnceInOrder`. `Receiving`: whatever is in `rx_buf` and in the
  kernel rises and comes after all that was given, also when `rx_buf` holds half a frame
  from before the device was lost.
* `ReopeningIsComing`: `Spec => []KeepsTrying`, under the hypothesis `ShiftsFit` that `DelayInit`
  shifted left 21 times is still an `int`. The shifts are a recursive function, so that each is
  twice the one before (`NextShift`), and `DelaysPositive` follows: up to the 22nd attempt no
  shift overflows and the delay is positive, so `timerfd_settime` arms the timer instead of
  disarming it. 1000 ms in 32 bits satisfies `ShiftsFit`; with a first delay that does not, the
  property is false.

TcpTransport:

* `TcpBuffersBounded`: `Spec => []TypeOK`, which bounds the unsent bytes: `tcp_queue_send` still
  writes past the end of `send_buf` (`SendLater`). As for the UART, `Typed` adds that less than a frame
  is left in `rx_buf` when the event is over, and `Parts <= SendCap` is needed because a first
  `send` that takes nothing queues a whole frame.
* `TcpStreamIntact`: `Spec => []StreamIntact`. `StreamIntact` looks at a connection through the
  two ends that use it; it is not inductive, since an end may not have accepted yet, or have
  closed. `Flows` states the same for every connection and side: what an end that
  never joined or has left contributes is empty, and what was sent on a
  connection is what was received of it, is in the kernel, or waits. `Waiting` adds
  that the connections not yet accepted are different ones, established, and none of them is
  the one the server uses. `FlowBegins`, `FlowEnds` and `FlowOnOne` are the three ways a step
  disturbs it: a connection is opened, closed, or something moves along one.
* `TcpOnceInOrder`: `Spec => OnceInOrder`, for the whole run and not for one connection. `Sorted`
  lines up `rx_buf` and all connections from which a board may still read, the one it uses first
  and the ones in its backlog after it: their pieces rise, the frames of a later connection are
  later, and all come after the last frame handed on. `Ends` says that the client's
  connection is the newest, so that what it sends next comes last.

Reassembly:

* `SlotsStaySound` and `NoForeignPieces`: `Spec => []TypeOK`, `Spec => []Unmixed`, both from
  `Slotted`, which says of every active slot what the properties say of the results: it holds
  pieces of its own message in their places, and of no other slot's message. That a
  full counter means a full bitmap is a fact about cardinalities (`StoredSlot`).
* `CompleteWithoutFaults`: `Spec => []Lossless`. `Lossless` speaks of an empty network;
  `InStep` of any moment: `Progress` counts how many pieces of the next message were taken,
  the slot holds exactly these, and the pieces under way continue from there. So the
  piece that arrives is the one that is missing, by the uniqueness of quotient and
  remainder (`Unique`), it is no duplicate, and no second slot of the board is active.
* `StrandedSlotsAccounted`: `Spec => []SlotsAccounted`. A stranded slot is found out long
  after the fault that caused it, so the invariant `Accounted` counts messages and not slots.
  A message, that is a board and a sequence number, is `Tidy` when its pieces under way follow each
  other from some index `h` to the last one (`Chain`, also through several rounds of the same
  number after restarts) and its slot holds exactly the pieces before `h` (`Holding`). No
  more messages are untidy than there were faults and refusals: `FeedTidy` is
  `bc_reasm_feed` taking the piece with index `h`; a fault or a refusal upsets the message
  of the one piece it hits (`DisturbTidy`, `RefusedTidy`, `PublishOthers`) and no step any
  other (`OthersTidy`). A slot of a tidy message misses only what is on its way
  (`StrandedUntidy`), and no two slots are of one message.

KcpTransport. All four theorems follow from one inductive invariant, `Inv`
(`Invariance`), which has two halves for each board, over counters instead of history:

* `Session` is about the two control blocks and what is on its way to one of them. `Sends`:
  what waits in `snd_buf` and `snd_queue` are the segments of the frames that were put, from
  `snd_una` on, and `snd_nxt` is where the queue continues. `Receives`: what is in `rcv_buf`
  and `rcv_queue` are segments the other has sent, each within the window, and every pending
  acknowledgement is for one that was received. `Remembers` is `ForgottenOnlyIfReceived`,
  which is not inductive: an ACK or a `una` that is still on its way, however late, would remove a
  segment, so `Packets` says that all that is under way is true of its sender - `una` at
  most its `rcv_nxt`, an ACK for a segment it has, a PUSH with what `Carried` says that
  number carries. What a board has received only grows, so a packet once true stays true, and
  losing, repeating and delaying make no new ones (`Disturbed`).
* `Delivered` is about what `kcp_drain_recv` does with what comes out: the frames that came
  out are 1, 2, 3, ...; the first `n` were handed on or thrown away, and `rx_buf` holds
  exactly the others, whole.

One lemma per function of `ikcp.c` says what it does to these (`SentFrame`, `UnaParsed`,
`AckParsed`, `PushParsed`, `MovedReady`, `MessageTaken`, `FlushedIs`, `OutgoingIs`).
`Ikcp` runs over packets, segments and frames with folds; a lemma for a fold goes by
induction on its length, the set of lengths for which it holds being all of `Nat`
(`Induct`, from the well-foundedness of `<`; `Folded` and `StaysIn` are the general forms).

* `NothingForgotten`: `Spec => []ForgottenOnlyIfReceived`, which is `Remembers` for all boards.
* `SessionIsChannel`: `Spec => IsChannel`, from board a to board b; both run the same code.
  `SendFrame` is `Put`, a
  turn of the drain that calls `ikcp_recv` with success is `Get`, everything else stutters. `Get`
  takes the next frame because what came out is an initial stretch of what was put, and it
  was put already because `rcv_nxt` is behind the other's `snd_nxt` (`Behind`).
* `LossesAccounted`: `Spec => []OnlyFullBuffersLose`, from `Delivered`: `rx_buf` can be full to
  the last byte only if its size is a whole number of frames.
* `WindowsKept`: `Spec => []TypeOK`. Segments with different numbers in a stretch as long as
  the window are no more than the window (`Spread`); that each is a piece of a frame that was
  put is `ShareOf`.

Only model-checked:

* Every invariant and action property of a run that passes is proved. Liveness (`RetryAfterDrain`, `Drains`, `Hears`, `AllRead`, `AllArrive`, `EverybodyReturns`)
  stays with TLC: the prover does not handle
  fairness.

## Plan

1. Broker, TcpTransport, FileTransfer and Reassembly, with the first proofs: done.
2. ShmRing with its refinement and its proofs, UartTransport, Ikcp and KcpTransport: done.
3. The rest of Broker's safety, UartTransport, Reassembly and TcpTransport proved: done.
4. KcpTransport proved, with its refinement: done.
5. **Bridge**: several boards, forwarding, ACKs, loops; the batch of 32 events of the
   reactor in Broker; a board that restarts in the middle of a KCP session.

## Not modelled

* The configuration parser: run once; its result is the constants of Router and Broker.
* Statistics and log: nothing in the daemon reads them.
* The plain UDP transport: no state between calls; it is the lossy network that Reassembly
  and FileTransfer run over.
* The set-up and tear-down of sessions, sockets and GPIOs, which is straight-line code; the
  daemon's side of a shared-memory session, which no client can reach (see above).
* The examples.
