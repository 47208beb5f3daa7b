# A verification of the UDT library

TLA+ models, TLC runs and TLAPS proofs for the UDP-based data transfer library in
`src/src` (UDT 4: `core.cpp`, `buffer.cpp`, `list.cpp`, `queue.cpp`, `api.cpp` and their
helpers) that the server and client in `src/app` are built on. File and line references
below are to `src/src` unless a path says otherwise.

Contents: [the system](#the-system) - [the modules](#the-modules) -
[how state and actions correspond to the code](#correspondence) - [the runs](#the-runs) -
[fairness](#fairness) - [what is proved](#what-is-proved) -
[disagreements found](#disagreements-found) - [abstractions](#abstractions) -
[not modelled](#not-modelled) - [the plan](#the-plan).

## The system

UDT gives an application a reliable connection over UDP. A process has one `CUDTUnited`
with its sockets; sockets bound to the same port share a multiplexer: one `CSndQueue` and
one `CRcvQueue`, each with a worker thread. A connection is therefore served by four or
more threads on each host: the application threads calling `send`, `recv` and `close`, the
sending worker, the receiving worker, and the garbage collector. They share the state of
`CUDT` through a few locks and, in many places, without one.

| component | state | operations | what must hold |
|---|---|---|---|
| sending side of `CUDT` (`core.cpp`) | `m_iSndLastAck`, `m_iSndLastDataAck`, `m_iSndCurrSeqNo`, `m_iFlowWindowSize`, EXP timer and count | `send`, `packData`, `processCtrl` (ACK, light ACK, NAK), `checkTimers` | nothing is freed before the peer has it; a retransmission carries the block its number stands for; no window is exceeded; lost data is sent again |
| receiving side of `CUDT` | `m_iRcvLastAck`, `m_iRcvLastAckAck`, `m_iRcvCurrSeqNo`, ACK sequence number | `processData`, `sendCtrl` (ACK, NAK), `processCtrl` (ACK2), `recv` | nothing is acknowledged before it is there; an ACK is repeated until it was heard |
| `CSndBuffer` | ring of blocks, first / current / last, `m_iCount` | `addBuffer`, `readData` (new, lost), `ackData`, `increase` | blocks and sequence numbers stay aligned; a block is not refilled while it may be needed |
| `CRcvBuffer` | ring of units, `m_iStartPos`, `m_iLastAckPos`, `m_iMaxPos`, `m_iNotch` | `addData`, `ackData`, `readBuffer`, `readMsg`, `dropMsg` | no two packets share a slot; no hole among acknowledged units |
| `CSndLossList`, `CRcvLossList` (`list.cpp`) | ranges of circular numbers in static arrays, linked by index | `insert`, `remove`, `getLostSeq`, `getFirstLostSeq` | they are sets of sequence numbers |
| `CACKWindow` (`window.cpp`) | ring of ACK numbers and the data ACKs sent with them | `store`, `acknowledge` | an ACK2 is matched with its own ACK |
| `CSeqNo`, `CAckNo`, `CMsgNo` (`common.h`) | none | compare, offset, length, step | arithmetic on a circle agrees with the unwrapped numbers |
| `CSndUList`, `CSndQueue` (`queue.cpp`) | heap of sockets by due time, the worker, its timer | `insert`, `update`, `pop`, `remove`; `CTimer::sleepto`, `interrupt` | a socket with work is served, in order of time; no wake-up is lost |
| `CRcvQueue`, `CRcvUList`, `CHash`, `CUnitQueue` | sockets by id, list by time, pending connection packets, unit pool | dispatch, `checkTimers` of idle sockets, `getNextAvailUnit` | a unit is never handed out twice; timers of idle sockets run |
| connection set-up (`CUDT::connect`, `listen`, `CRendezvousQueue`, `CHandShake`) | handshake request and response, cookie, TTL | both `connect`s of the caller, `listen`, `newConnection`, `updateConnStatus` | both sides agree on the connection or both give up; one socket for a repeated request |
| socket life cycle (`CUDTUnited`) | maps of live and closed sockets, accept queues, multiplexers with reference counts | `newSocket`, `bind`, `listen`, `accept`, `close`, `checkBrokenSockets`, `removeSocket` | no socket is freed while a thread uses it; every closed socket is freed in the end |
| `CEPoll` | watched and ready sets of each poll | `add_usock`, `remove_usock`, `wait`, `update_events` | a ready socket is reported; none is lost between a test and its update |
| congestion control (`CCC`, `CUDTCC`) | window, sending period, loss state | `onACK`, `onLoss`, `onTimeout` | window and period stay in range; slow start ends |
| `CCache<CInfoBlock>` | list with a hash index | `lookup`, `update`, `clear` | index and list agree |
| `CPktTimeWindow`, `CPacket`, `CChannel`, `CTimer`, `CGuard`, `md5` | | | rate estimates, bit layout, system calls |
| `src/app`: `appserver`, `appclient`, `comm/taskqueue.hpp`, `threadpool.hpp`, `lockcond.cpp` | task queue, threads | `push`, `pop`, `post`, `wait` | a posted task is run |

How they interact: `send` fills the send buffer and puts the socket on the sending list;
the sending worker pops it, calls back `packData` under the list's lock, and sends the
packet after releasing it. The receiving worker takes a UDP packet, dispatches it by socket
id to `processCtrl` or `processData`, and calls `checkTimers`, which sends ACKs, and resends
on an EXP timeout; it frees blocks of the send buffer, adds to the loss lists, puts the
socket back on the sending list and wakes the application. `recv` takes units from the
receive buffer on the application's thread while the receiving worker fills it. `close` and
the garbage collector take a socket apart while the workers may still hold it.

The hard behaviours are listed, each at its line, under `hazards` in `PROJECT.json`. They
are of four kinds: interleavings of the application with the two workers on shared fields
(blocks freed and refilled while `sendto` reads them; the flow window and the ACK cursor
read separately; readiness tested, then cleared); an unreliable network (every control
packet may be lost, late, repeated or overtaken); boundaries (numbers that wrap, rings
that are full, ranges one too long); and progress that rests on timers.

## The modules

| module | what it is |
|---|---|
| `Transfer` | the core: one direction of an established stream connection, both hosts, all their threads and the network between them |
| `ReliableStream` | the abstract specification of a connection: data is accepted, received, and only then released and delivered, once and in order |
| `TransferProofs` | type correctness, the inductive invariant and every safety property of `Transfer`, and the refinement of the safety part of `ReliableStream` |
| `HandshakeProofs` | the invariant of `Handshake`, what its packets may say, and its safety properties |
| `LifecycleProofs` | the invariant of `SocketLifecycle` and its safety properties |
| `ReceiverProofs` | `AckWindow`, `UnitQueue` and `RcvQueue` for rings, pools and lists of any size |
| `WaitingProofs` | `EPoll` and `FileTransfer` for buffers of any size |
| `MessagesProofs` | the invariant of `Messages` and its two safety properties, for messages of any lengths and windows and buffers of any size |
| `SenderProofs` | `Congestion`: how far a period may be lengthened; `SndQueue` for any number of sockets; `PeerCache` for any addresses and size |
| `Messages` | message mode: life times, drop requests, and the search of the receive buffer for a message |
| `FileTransfer` | `sendfile` and `recvfile`: when each waits and what wakes it |
| `Handshake` | connection set-up: callers, a listener with cookies and a backlog, and rendezvous |
| `SocketLifecycle` | the sockets of a process from `newSocket` to `removeSocket`, with the collector and the receiving workers |
| `SndQueue` | the sending schedule: heap, worker and timer |
| `RcvQueue` | the receiving worker's round over its list, its hash table and the new entries |
| `UnitQueue` | the pool of packet units and its counter |
| `EPoll` | event polling, with the threads that set and clear events |
| `Congestion` | `CUDTCC` |
| `PeerCache` | `CCache<CInfoBlock>` |
| `SeqNo` | `CSeqNo` |
| `LossSet` | the abstract specification of both loss lists: a set with an answer to every call |
| `SndLossList`, `RcvLossList` | the two lists on their static arrays, over a wrap of the sequence numbers |
| `LossListProofs` | `CSeqNo` agrees with unwrapped arithmetic for numbers closer than the threshold, which is what lets `Transfer` count without wrapping; and both loss lists are their sets |
| `AckWindow` | the ring that pairs ACK2s with ACKs |
| `MCContainers` | model-checking module: eleven parts that share no state, one per behaviour. It extends them all, with their constants' assumptions and their properties |
| `MCMessages`, `MCHandshake` | model-checking modules: values of constants that a cfg cannot write |

How they fit together. `Transfer` uses sets for the loss lists and lets an ACK2 carry the
data ACK it answers; the two loss-list modules and `AckWindow` discharge these two
idealisations. `Transfer` has one socket on the sending list and treats the list's lock and
`pop` as the code does; `SndQueue` has many sockets and no data. What `Transfer` shows of
ACKs and NAKs, `Messages` and `FileTransfer` take as one step each. `Handshake` ends where
`Transfer` begins. `SocketLifecycle` has all threads that may hold a `CUDT`, and no data;
it relies on `m_bOnList`, which `RcvQueue` shows to be true exactly as long as the receiving
worker can reach the socket. `MCContainers` composes nothing: its variable `which` picks one
part and the others stay as they start. One run is enough to check parts that cannot
disturb one another, and its states are the sum of theirs, not the product.

<a name="correspondence"></a>
## How state and actions correspond to the code

**Transfer.** Fields of `CUDT`, `CSndBuffer` and `CRcvBuffer` keep their names
(`sndLastAck` is `m_iSndLastAck`, `firstBlock` the index of `m_pFirstBlock`, ...); the
program counters `appPc`, `sndPc` and `ctrlPc` stand where a thread can be overtaken by
another:

- `send()`: `AddBuffer` (publish the blocks), `AddCount` (`m_iCount` under its lock),
  `AppUpdate` (`CSndUList::update`).
- sending worker: `Pop` (off the heap, first lost number), then either `PackLost` (offset
  from `m_iSndLastDataAck`, under `m_AckLock`; the socket goes back on the heap, or is
  dropped from it if the number is already acknowledged) or `ReadWindow` and `PackNew` (the
  flow window is read before `m_iSndLastAck`, with no lock), then `SendTo`, which reads the
  payload out of the send buffer when no lock is held: `Payloads` gives what a refilled
  block may contain by then. The heap is locked from `Pop` to the end of packing, which is
  why `AppUpdate` and `CtrlUpdate` wait for `ListFree`.
- receiving worker of the sending host: `RecvAck` (everything before `m_AckLock`) and
  `CommitAck` (under it), `RecvLiteAck`, `RecvNak`, `RecvOther` (any packet of the peer's
  own stream), `CtrlUpdate` (back on the heap), `ExpTick`, `ExpTimeout`, `ExpResend`.
- receiving host: `RecvData`, `SendAck`, `SendLiteAck`, `RecvAck2`; and `recv()` as
  `ReadBegin`, `ReadUnit` for each unit and `ReadEnd`, because the receiving worker fills and
  acknowledges the same ring without a lock.
- network: `net` is the set of packets sent. With `Duplicates` a packet stays there for
  ever: it may arrive any number of times, in any order, or never. Without, each packet
  arrives once unless `Lose` takes it, at most `MaxLoss` times.

**SndLossList, RcvLossList.** `insert`, `remove` and `getLostSeq` are operators from list to
list with the slot arithmetic, the searches and the coalescing of the code, field by field. The
sender's `head`, `length`, `lastInsertPos`, `data1`, `data2` and `next` are `m_iHead`, `m_iLength`,
`m_iLastInsertPos`, `m_piData1`, `m_piData2` and `m_piNext`. What the branches of `sndInsert` share
has a name: `NewNode`, `Extend` (a range that starts in a node), and `Coalesce`, the closing loop,
whose round `Absorb` takes the next node in; `sndRemove` and `getLostSeq` are `SplitAt` (what a
node has beyond a number becomes a node in the next slot) and `PopTo` (nodes leave at the head).
The loops are tables with as many rounds as the list has slots, and a round that has nothing to do
changes nothing. The receiver's list has `tail` and `prior` too (`m_iTail`, `m_piPrior`), and
`remove` cuts out nodes, moves the head's slot on and splits ranges by the same assignments
(`RemoveNode`, `CutNode` and those beside them). The links of a free slot, which nobody reads, are
-1. The actions are the calls `core.cpp` makes. On the sender's list: `InsertLoss`, a NAK clipped to
outstanding numbers or the EXP resend; `AckArrives` and `ForgetAcked`, the two stretches of an ACK,
between which the sending worker already counts its window from the new cursor; `TakeLost`, and
after it `DropMessage`, when the message of the number taken has expired: `packData` removes all up
to `seqpair[1]`, one past the message and perhaps past `m_iSndCurrSeqNo`, and moves that on
whatever the window, while `m_iSndLastDataAck` stays (`core.cpp:2291-2300`). The one
argument left out is one as far past `m_iSndLastDataAck` as the list is long, twice the flow
window: numbers would share slots. It takes an expired message, or several in a row, of about as
many packets as the window has, 8192 by default (`core.cpp:825`). On the receiver's: a packet
filling a gap and a message drop request. `sndCall` and `rcvCall` record the call and its answer,
which `LossSet` must match.

**AckWindow.** `seqNo`, `ack`, `head` and `tail` are the fields; `Store` is the ACK branch of
`sendCtrl`, `Acknowledge` the ACK2 branch of `processCtrl`, for any ACK ever sent.

**Messages.** The send buffer is an array of blocks `b`, the `b`-th ever added; `snd` holds
`m_pFirstBlock`, `m_pCurrBlock`, `m_iCount`, `m_iSndLastAck` and `m_iSndCurrSeqNo`, so that a
sequence number and a block may drift apart as they do in the code. `packLost` is
`packData`'s retransmission with `readData(offset)`: the same block again, or a drop request
from the lost number to one past the end of its message. `RecvDrop` is `dropMsg` and
`remove(seqno1, seqno2)`; `Heads`, `Good`, `Skipped` and `Finds` are the two passes of
`scanMsg`. An ACK and a NAK are one step each. An ACK grants the free places of the receive
buffer (`AvailBufSize`), and two when there are fewer, as `sendCtrl` does "to break potential
deadlock" (`core.cpp:1811-1814`); `snd.window` is `m_iFlowWindowSize`, at first the whole buffer.

**FileTransfer.** `sender.at` and `receiver.at` say whether a call is at the top of its loop,
waits, was woken or has a block to move; `bells` are the signals under way. `sender.count` is
`m_iCount`, which `addBufferFromFile` raises by what it was asked for, `sender.blocks` what
the buffer really got.

**Handshake.** One action per place where a thread acts: `Connect`, `Resend`
(`updateConnStatus`, and the loop of a blocking `connect`), `Expire`, `TakeStored` and
`SyncTimeout` (the blocking loop), and for each packet delivered `Respond` (asynchronous),
`storePkt` (blocking) or `Rehandshake` (connected). The listener's are `SynCookie` and
`NewConnection` with its four outcomes: the answer repeated, a broken earlier connection
replaced, a refusal, a new socket. `connectResponse` is `CUDT::connect(response)`, and
`Outcome` what it returns. `net` is the set of packets sent: each may arrive at any later
time, any number of times, or never.

**SocketLifecycle.** Flags keep their names (`"broken"` is `m_bBroken`). `call[s]` is where the
`close()` on `s` is, in the four stretches between which another thread may step in; `worker[m]`
where the receiving worker of multiplexer `m` is, inside `newConnection` or `connect`; `gc`
where `checkBrokenSockets` is, with the sockets it still has to remove. `ControlFree` says that
nobody holds `m_ControlLock` across steps: only the collector does. The removal of one socket,
with the second `close()` that `delete` leads to, is `removeSocket`, and the destructor that
waits for the worker `JoinWorker`.

**SndQueue, RcvQueue, UnitQueue.** The heap is a sequence of time stamps: a socket is the
place its node points at. The loops that sift are paths: `Up` and `Down` say where an entry
goes from each place, to itself where the loop stops; `Path` is the places it passes, and
`Sifted` moves what stood there one step the other way, as the exchanges do. `ringing` is the stretch in which `insert_` signals with the list
locked. `RcvQueue` has the worker in three stretches (take new entries, receive one packet,
check the list), and what `setNewEntry` and a breaking connection do in between. In
`UnitQueue`, `adding` and `freeing` are the two halves of `++ m_iCount` and `-- m_iCount`,
which no lock protects; the compiled read and write are steps of their own.

**EPoll.** Of each direction the `taker` (`recv` or `send`) reads, tests and then clears the
event, the `giver` (the receiving worker) adds and then sets it, and `third` adds and removes
the socket in the steps `addEPoll` has between its locks.

**Congestion.** `onACK`, `onLoss` and `onTimeout`; the sending period is in microseconds, and
what an ACK makes of it, a computation from rates, is any shorter one.

**PeerCache.** A node of `m_StorageList` is the number of the update that made it, so a stale
or dangling iterator can be told from a good one. What the code does with a dangling one is
undefined, and no behaviour of the model goes on from there. `Renew`, `InsertNew` and `Overflow`
are the three ways through `update`; `spoiled` are the buckets that `item_list =
m_vHashPtr[last_key]`, which copies one over another, has mixed up.

## The runs

| run | what it asks |
|---|---|
| `transfer_faults` | types; the "attack or bug" checks never fire against an honest peer; the receiver stops repeating an ACK only when the sender has acted on it; blocks and numbers stay aligned; no cursor goes back |
| `transfer_stream` | `recv` returns the stream in order; a packet sent out of a refilled block is always one the receiver discards; no hole, no slot used twice, every gap on the loss list; refinement of the safety part of `ReliableStream` |
| `transfer_live` | refinement of `ReliableStream` with its fairness: everything accepted is received, freed and delivered |
| `containers` | what each of the eleven parts promises, see below |
| `lifecycle` | nothing is deleted while a list or a worker holds it; the counts of the multiplexers are right; queued connections are alive |
| `lifecycle_live` | every closed or broken socket is deleted in the end; no `accept()` waits for ever |
| `connect` | both ends of a connection agree; a request is served by one socket; packets fit; `connect` reports the truth; both kinds of set-up end |
| `tail_loss`, `rcv_loss_wrap`, `late_request`, `msg_drop`, `late_cookie` | five statements of the repository that the code does not meet, see below |

The properties of `containers`:

- `SndListIsSet`, `RcvListIsSet`: both loss lists refine `LossSet`, and what they rely on in
  their arrays always holds (`SndListShape`, a part of `SndListIsSet`, and `RcvListShape`).
  `RightAnswer`: an ACK2 is matched with its own ACK.
- `DeliveredWhole`: a message is read whole or not at all, once, and in order if so sent.
  `NothingForgotten`: one the sender has released was delivered, waits whole, or was dropped.
- `FirstIsEarliest`, `WorkerAwake`: the sending worker serves sockets in the order of their
  times, and neither waits nor sleeps past the first.
- `ListServed`: no socket's timers go unchecked for longer than the interval; a broken one leaves
  the list; `m_bOnList`, the list and the hash table agree.
- `SkipsOnce`: the unit pool skips no two packets in a row while it has room, whatever the
  unprotected counter says.
- `EventsAgree`: `epoll` reports what `select` would. `FileMoves`: a waiting `sendfile` or
  `recvfile` has something coming that will wake it, and the send buffer's count is right.
- `HalvedAtMost`: one congestion period at most doubles the sending period.
  `CacheAnswers`: the cache holds the peers updated last, with their latest values.

Several of these hold but for a case in which the code does something else, and then the
property names the case, so that it says exactly how far the code can be relied on:
`FirstIsEarliest` after a removal from the depth of a heap of six (`remove_` sifts down only),
`WorkerAwake` after an interrupt just before `sleepto`, `EventsAgree` for an event set between
a call's test and its clear and for a peer's shutdown, `FileMoves` for sockets that are not
synchronous, for a peer's disk error and for a short file, `FreedUnused` for an expired connect
and an expired linger, `PacketsFit` for the third handshake of a rendezvous, `SuccessConnected`
for an answer that comes as the time runs out and for data that overtakes it, `Served` for a
caller that goes on with the cookie of an earlier minute (which `late_cookie` shows is never
answered),
`DeliveredWhole` and `NothingForgotten` after drop requests that reach too far, and
`CacheAnswers` for the two buckets that an overflow mixes up. All are hazards in
`PROJECT.json`, at their lines.

Bounds, and why they suffice to make the interesting cases happen:

- `transfer_faults`: two packets' worth of data, sent in calls of 1 or 2, a flow window of
  2, a receive buffer of 3 (2 usable), congestion windows 1 and 2, one expiration before a
  silent peer may be given up. Everything the network and the timers can do is on: with
  `Duplicates` every packet ever sent can arrive again at any later moment, so two data
  packets already give ACKs that cross, old NAKs, an EXP racing an ACK, and the loss of
  either or both.
- `transfer_stream`: three packets and a send buffer and ring of 2, so that block 2
  refills the place of block 0 while it may still be in `sendto`, and the receive ring of 3
  is used beyond its end. Light ACKs, peer traffic and the timeout are off here (the other
  run has them): they do not reach the payload.
- `transfer_live`: two packets and a receive buffer of two units, of which one is usable, so that
  an ACK would grant no window without the minimum of 2, and the transfer would stop (its mutant).
  Each packet arrives once but one is lost, whichever it is: data, ACK, ACK2 or NAK. `losses` is finite because progress needs losses to stop. The EXP timer
  waits until the host has nothing else to do (it is at least 300 ms long).
- `containers`, the lists: sequence numbers 0 .. 21 with threshold 10 and calls from 20 to 24
  for the sender's list and from 18 to 25 for the receiver's, so that lists span the wrap; a
  flow window of 2 (a list of 4 slots, which a dropped message fills beyond the window) and a
  receive list of 6 slots, both of which the numbers also go around; ACK numbers 0 .. 6 in a ring of 3, 9 ACKs, so that both ring
  and numbers wrap. The ranges inserted are all those possible inside the window. A message
  drop request is kept from spanning the wrap there, because that case is `rcv_loss_wrap`.
- `containers`, the rest: a message of three packets that may expire and two of one, the last
  of them ordered, in a window of five and a receive ring of six; six sockets on the heap, the
  fewest for which a removal can break its order, and three instants; three sockets, two of them
  in one bucket, an interval of 1 and a clock of 4, so that a socket can be overdue while
  another was just served; two blocks of four units, so that the pool grows once and is full
  once, with the counter at most three off; two units of room in each direction of a socket;
  three packets and seven loss reports, enough for the five cuts of a period and the spaced
  ones; files of seven blocks through buffers of three; five addresses of which three share a
  bucket, two entries in the cache, seven updates.
- `lifecycle`: three sockets: a listener, a connection it accepts and a connection that replaces
  it, or two connections at once; every order of the application's calls. `lifecycle_live`: two
  sockets, which may be a listener with its connection, or a client on a multiplexer of
  another; the safety run has the third.
- `connect`: two callers behind one address with the same initial number and a listener with room
  for one and three sockets to give, so that requests can be repeated, broken, refused and
  confused; one caller alone while the minute turns; two rendezvous sockets. Blocking and
  asynchronous callers and different packet sizes are among them. A caller keeps one packet of
  the code's seventeen: the second only repeats what the first showed.
- `connect` writes 1 << 30 as `Shift30` = 2, so that `PeerKey` overlaps as the code's does, and
  its callers have different keys.
- `late_request`, `msg_drop` and `late_cookie` are the smallest instances that show the
  disagreement.

Deadlock checking is off where the system may stop: a transfer that ends with everything
delivered or broken and no packet left, sockets that are all deleted, a connection that is
set up, and the bounded numbers, clocks and updates of `containers`.

Every property has a mutant in `PROJECT.json`: a plausible bug in one definition (an offset
from the wrong cursor, a gap that starts one late, a window one too large, an ACK point
that ignores the loss list, a tail that does not move, a wake-up that is not given, a socket
that is not counted) that the run must catch.

## Fairness

`LiveSpec` assumes no more than that threads run and the network is not cut:

- weak fairness of each thread's steps: the application in `send()` and in `recv()` (it keeps
  calling them), the sending worker, the receiving worker finishing what it began, the EXP
  timer (a step of `checkTimers`, which the receiving worker calls after every packet and
  every timeout of its `recvfrom`), and `SendAck` (another);
- each data packet that is in the network and not lost is received;
- an ACK is answered by an ACK2 infinitely often if ACKs arrive infinitely often (strong
  fairness): the code sends an ACK2 at most once per SYN interval (10 ms), and the
  receiver repeats an ACK at longer intervals than that; an ACK2 that is not lost is received.

`SocketLifecycle`'s fairness is that of threads that run: weak for a thread inside a call, for
the collector and for the removal it has begun; strong for the worker looking at its lists,
which it does in every round whatever packets come, and for the passing of time. Nothing is
assumed of the application's calls or of what peers send. `Handshake` assumes that a request
is repeated, as `updateConnStatus` does every 250 ms, and (strong, since the network loses
and repeats) that an answer that takes the caller further arrives in the end; the listener
serves each caller's requests. `Served` and `RendezvousEnds` except a caller whose time is out,
and `Served` one whose cookie is of an earlier minute: fairness does not help that one, which is
finding 5.

In `Transfer` nothing is assumed of `Lose`, `RecvNak`, `RecvLiteAck`, `RecvOther` or the duplicated
packets. The liveness statement does not depend on NAKs: EXP alone recovers, as the code's
comment says.

## What is proved

`TransferProofs` proves, for all sizes of data, buffers and windows, any set of send sizes
and congestion windows, and every setting of the fault switches:

- `TypeCorrect`: `[]TypeOK`;
- `Invariance`: `[]IInv`, with `IInv == TypeOK /\ SenderInv /\ ReceiverInv /\ ChannelInv`;
- from it `InOrderAlways`, `GarbledAlwaysOld`, `NoHoleAlways`, `LossAlwaysAccounted`,
  `RingAlwaysFits`, `AckAckAlwaysKnown`, `HonestPeerAlwaysKept`, `SeqAlwaysMatchesBlock`;
- `CursorsAlwaysAdvance`: no step takes a cursor back;
- `StreamAlwaysSafe`: `Transfer` implements the safety part of `ReliableStream` under the
  mapping accepted = last block, received = `m_iRcvLastAck`, released = first block.

None of the properties is inductive. `InOrder`, for instance, needs that the unit at a slot
is the packet expected there; that needs the range of numbers in the ring to be shorter
than the ring, the loss list to be exactly the complement of the buffer, and every data
packet in the network, however old, to carry its own block or be one already acknowledged.
That last needs the sender to free only what the receiver acknowledged, so every ACK still
in the network must tell the truth. `SenderInv` and `ReceiverInv` are what each host knows of
itself, `ChannelInv` what each may believe of the other and what any packet may still say.
The proof goes: a packet stays true while the cursors advance (`PacketKept`), so an action
only has to show that the cursors advance and that the packets it sends are true.

`LossListProofs` begins with sequence numbers: `seqcmp`, `seqoff`, `seqlen`, `incseq` and
`decseq` of wrapped numbers are the comparison, difference, length and steps of the unwrapped
ones, as long as these are less than `SeqNoTH` apart (`seqlen`: less than a circle), for every
threshold. Then it proves of the receiver's loss list, for any size, window, first number and circle, `AlwaysShape` (`RcvListShape`) and `ListIsSet` (`RcvListIsSet`, the refinement of
`LossSet`). `Rep(l, S, o)` says that the arrays and links of `l` stand for the set `S`:
number `s` of `S` begins a range if its predecessor is not in `S`, and then it is in slot
`(o + s) % RlSize`, with the range's end beside it and links to the ranges before and
after. `InsertRight`, `RemoveRight` and `RangeRight` take a list that stands for `S` through every
branch of the code to one that stands for what `S` should become; two starts never share
a slot because the numbers lie in a window no longer than the array (`RlInv`). A number beyond
all on the list may share the slot of another, and removing it does no harm (`RemoveBeyond`).
`remove(seqno1, seqno2)` is a recursive function of the numbers left, and the least one for
which it could go wrong gives the contradiction. The shape holds also when a dropped range
spans the wrap; that the list is the set then is what `rcv_loss_wrap` refutes.

Of the sender's loss list it proves, for any flow window, first number and circle,
`AlwaysSndShape` (`SndListShape`) and `SndIsSet` (`SndListIsSet`). This list is inserted into anywhere,
and its ranges may touch, so that a set of numbers does not say which nodes there are:
`Stands(l, H, E, o)` has them as data, the first numbers `H` and the last one `E[a]` of each, apart
from one another, number `s` in slot `(o + s) % SlSize`; `Holds(l, C, o)` says that the nodes
cover `C`. `SlInv` is that the list holds some of the outstanding numbers, all less than its size
from `m_iSndLastDataAck`, so that numbers compared are near and no two nodes meet in a slot:
what an ACK has not reached fits in the list (`SlWindow`), also when an expired message was
skipped past the flow window, and what comes beyond while an ACK is under way is inserted only
after it. Two
walks have to arrive: the one along `m_piNext` (`WalkRight`), which may start at
`m_iLastInsertPos` only because that is still a node, and the pops of `remove` (`PopToRight`). In
the middle of an insertion the new or longer range may reach over those that follow, and
`m_iLength` counts it as if it did not: `Loose` says so, and `AbsorbRight` that a round of the
closing loop keeps it, or finds nothing left to take in (`CoalesceRight`). Each loop's table
moves to another first number every round, and there are no more of them than slots.

`LifecycleProofs` proves for any number of sockets and any backlog `AlwaysTyped`,
`AlwaysCounted` (`MuxCounted`), `AlwaysQueuedLive` (`QueuedLive`) and, when requests do not
come seconds too late, `AlwaysUnused` (`FreedUnused`). That nothing freed is still held is the
work of `m_bOnList` and of the second of delay, and the invariant says how: for every socket,
which lists may have it given its flags and where its `close()` is (`Untried`, `Connects`,
`Lists`, `Closes`); that a socket whose timer ran out is in no call and in no worker
(`Ages`, `Held`); that a socket `newConnection` is making belongs to one worker and nobody
else (`Makes`, `Holds`); what queues and multiplexers hold (`Queues`, `Listens`); and that the
collector's candidates are off the lists (`Collects`). `MuxCounted` needs a count of its own
over each step (`Invariance` gives which socket joins or leaves).

`HandshakeProofs` proves for any number of callers, accepted sockets and minutes
`AlwaysTyped`, `AlwaysOneConnection`, `AlwaysMet` (`RendezvousAgree`), `AlwaysFit`
(`PacketsFit`), `AlwaysSucceeded` (`SuccessConnected`), and, under `DistinctKeys`, `AlwaysAgree`
(`BothEndsAgree`). As in `TransferProofs` the work is done by what each packet in the network
may still say, however old: an answer names a socket that serves the caller it goes to, with
the size that socket took; a handshake of a rendezvous carries what its sender had heard.

`ReceiverProofs` proves `AlwaysRight` (`RightAnswer`): the places from `m_iTail` to `m_iHead`
hold the ACKs after the newest one answered, in order, and no more than a circle of numbers
apart, so that a number names one of them; and `AlwaysSkipsOnce` (`SkipsOnce`): a scan that
finds nothing leaves `m_pAvailUnit` at the first unit of its block, from where the next one
meets every unit but the last of each block. The last ones are never used, so the units in use
are never as many as the pool has, and the test at `queue.cpp:199` never ends the scan early
whatever `m_iCount` is. For any sockets, hash table and interval it also proves
`AlwaysListServed` (`ListServed`): the worker stops its check at the first socket that is in
time, which is enough because `CRcvUList` stays sorted by its time stamps, whoever is served,
taken in or dropped (`ByStamp`); `CHash` holds just the sockets of the list (`HashInv`), and a
socket waits in `m_vNewEntry` or is on the list, once, as long as its `m_bOnList` is set
(`OnListInv`).

`WaitingProofs` proves `AlwaysAgree` (`EventsAgree`): what is ready is reported, or the worker
or `epoll_add_usock` is about to set it, or the event was lost in one of the ways the property
names (`Told`); and `AlwaysMoves` (`FileMoves`): a full buffer holds data that is not
acknowledged unless the file failed (`Counts`), and then `sendfile` does not wait; a
synchronous call that waits is rung for before its reason to wait is gone (`SenderRings`,
`ReceiverRings`).

`MessagesProofs` proves, for messages of any lengths, any of them mortal or ordered, any
congestion window and any receive buffer, `AlwaysDeliveredWhole` (`DeliveredWhole`) and
`AlwaysNothingForgotten` (`NothingForgotten`). `MsgInv` is `CoreInv` and, as long as the sender's
numbers and blocks agree (`Aligned`), `AlignedInv`. The first is what holds whatever
happens: the order of the cursors on both hosts and the range of each loss list. The second says which packet each number
is: every data packet on the way carries the message and the place in it that its number says,
and every drop request a message whose life was over; the unit at the place of a number in
the ring is that packet's; and a number before the receiver's last one is on its loss list,
in the buffer, was read, or belongs to a message that was dropped or whose first packet a
drop request named. The two properties follow from what `scanMsg` finds: the
units from the first to the last of a message are next to each other, so that they are one
message whole. `ImmortalDelivered` proves what `t-msg.htm` says, and `msg_drop` violates, for the
case that no message has a life time: then the sender never skips a number (`Immortal`).

`SenderProofs` proves of `Congestion` `AlwaysHalved` (`HalvedAtMost`): `m_iDecCount` counts the
cuts since the period began, the first included, and five cuts by an eighth, rounded up to a
microsecond, at most double a period of 12 or more (`FiveCuts`; for 11 it is false).

Of `SndQueue`, for any number of sockets, it proves `AlwaysEarliest` (`FirstIsEarliest`) and
`AlwaysAwake` (`WorkerAwake`). `SqInv` adds that the heap is in order unless `skewed`
(`InHeapOrder`), and that the time the worker has read, while it is about to sleep to it, is
not past the first entry (`DueFirst`). `InsertedIs` and `RemovedIs` are the heap's own
lemmas: sifting up keeps the order, and so does moving the last entry to a hole and sifting
it down, unless the hole is the fourth place or a later one of six or more (`Risky`): only
there can the entry be earlier than its new parent. The root never gets earlier by a removal,
even so.

Of `PeerCache`, for any set of addresses, any size of the cache and any number of updates, it
proves `AlwaysAnswers` (`CacheAnswers`). `PcInv` says that the list holds numbers of updates, the
newest first (`StorageInv`); that a bucket no overflow has mixed up holds just the nodes of
its key (`BucketInv`), and that these are the latest of their addresses (`LatestInv`); and that
what the list has lost is older than all it holds, which is then full (`LeftInv`). The
count of the later addresses comes from the places before an address in the list, or, for
one that was lost, from the whole list.

The assumptions are those the modules name: `SizeAssumption` and `SwitchAssumption` (the
constants have their types, and the receive buffer holds two units or more),
`GarbledAssumption` (a half-refilled block is no packet's worth of data), `SeqNoAssumption`
(the circle has an even number of elements and the threshold is half of it less one, as
2^31 - 1 and 2^30 - 1 are), `AckWindowAssumption` (the circle of ACK numbers is at least twice
the ring: 2^31 - 1 and 1024), `HandshakeAssumption`, `LifecycleAssumption`,
`RcvLossListAssumption` (the receive buffer is no larger than `m_iFlightFlagSize`, and that is
less than the threshold less two: 25600 by default), `SndLossListAssumption` (twice the flow window, the
size of the list, is at most the threshold), `MessagesAssumption` (a receive buffer of two units or
more, a window of one or more, messages of one packet or more), `SndQueueAssumption`, `PeerCacheAssumption` (`MaxSize` is two or more: 1024
in the code) and those of the other small modules (sizes are positive). Five theorems have a hypothesis of their own:

- `AlwaysUnused`: `LateRequests = FALSE`. A request that reaches a listener as it is removed
  is the hazard of `late_request`; then a worker holds what the collector deletes.
- `HandshakeProofs!AlwaysAgree`: `DistinctKeys`, no two callers behind one address with one key
  in `m_PeerRec`. The code does not see to it: the key is computed in 32 bits (`api.cpp:420`, `1160`)
  before it is widened, so that two bits of the socket number are left and overlap the sequence
  number's highest, and a caller with another's key would be answered with that one's socket.
  It rests on chance there: sequence numbers are random, and two callers with independent ones
  have the same key with the odds of about one in 2^32.
- `ListIsSet`: `WrapInRange = FALSE`, no message drop request spans the wrap of the numbers.
- `ImmortalDelivered`: `Mortal = {}`, no message has a life time; `msg_drop` shows what one that has
  does to the next.
- `AlwaysHalved`: `Enough >= 12`, the least period the property speaks of.

The attempts to prove found faults in the models, which were mended to follow the code, and
one in the code. `Untouched` let a removal timer run out for a socket that the sending worker
would still pop, and no invariant could rule out that it was then deleted on the list.
`SameRequest` compared the peer's number and sequence number, where the code compares a key
made of both: `BothEndsAgree` could not be proved without assuming that keys are distinct. `RepeatAnswer` answered with the request's sequence number where the
code takes that of the socket it found. `UnitQueue` picks the first free unit by `\E`
and not by `CHOOSE`, whose value nothing ties to the next state's. `RcvQueue` takes a node out
at its place and not by a filter, whose effect only induction could tell.
`Messages` gave the sender a fixed flow window. Then a drop request, which moves
`m_iRcvCurrSeqNo` without a test of the space left (`core.cpp:2233-2236`), could move it further past the ACK
point than the receive buffer has places, and no invariant held of the ring: in the code it
cannot, because the sender never runs further ahead than the window the receiver granted.
The model now grants it as the code does.

`SndLossList` kept its nodes in a sequence and had no `m_piNext`; it has the links now, without
which there was no saying what the search and the closing loop do.

Only model-checked is liveness (`StreamImplemented`, `Collected`, `AcceptEnds`, `RendezvousEnds`,
`Served`): TLAPS handles neither fairness with `ENABLED` nor the well-founded arguments. Every
other property of a passing run has its theorem.

## Disagreements found

Each is a run TLC must find violated.

1. `tail_loss`. `core.cpp:2565` says of the missing repeated NAK that it is left to "the
   sender's EXP for retransmission". But every packet from the peer restarts EXP
   (`core.cpp:1956-1960`, `2389-2393`). If the last packet of a stream is lost no NAK is sent
   for it, and while the peer sends data of its own at intervals shorter than the timeout it
   is never sent again: `AllDelivered` fails with all the fairness above.
2. `rcv_loss_wrap`. `list.h:137` says `remove` drops "all packets between seqno1 and seqno2";
   across the wrap the loop of `list.cpp:640` stops before `m_iMaxSeqNo`, which stays on the
   list, and the ACK point stays with it.
3. `late_request`. `api.cpp:851` says "the socket will be removed after approximately 1 second".
   The collector keeps a closed listener for three more seconds (`api.cpp:1191`) so that no
   request finds it gone, but a request that comes just then still reaches `newConnection`,
   which waits for `m_ControlLock` while `removeSocket` holds it and, if the listener was the
   last socket of its multiplexer, joins that very worker (`queue.cpp:906`). From then on
   nothing is collected and every call that takes the lock waits.
4. `msg_drop`. `src/doc/doc/t-msg.htm:30` says that a message without a life time "will always be
   delivered". A drop request names one number too many (`core.cpp:2292`): the receiver takes the
   first packet of the message behind the dropped one off its loss list, or moves
   `m_iRcvCurrSeqNo` past it (`core.cpp:2234-2241`), and acknowledges it unread. The run has it
   sent and not received: the sender frees it, and the message is lost.
5. `late_cookie`. `listen` means to accept the cookie of the last minute too
   (`core.cpp:2484-2488`), but appends to `cookiestr`, which still holds this minute's text, and
   so the second hash is of both and matches no cookie. A caller that got its cookie just before the
   minute turned never asks for another, and is ignored until its time is out, while
   `src/draft-gg-udt-xx.txt:522` says that the server "must send back response packet as long as it
   receives any further handshakes from the same client": `ServedLate` fails.

Three smaller remarks, not runs. What an overflow does to the cache (`cache.h:186`) contradicts
no text of the repository: `CacheAnswers` excepts it. `core.cpp:2008` says the flow window must
be updated "before and together with m_iSndLastAck", but `packData` reads the window first and
the cursor after it in another thread without `m_AckLock` (`core.cpp:2315-2316`), so that an ACK
in between makes it count the old window from the new cursor and send beyond what was granted;
`Transfer` has both reads as steps, and the receiver discards what does not fit: `RingFits`
and `InOrder` hold all the same, and are proved. The comment at `core.cpp:2589` says "greater
than 10 seconds" and the test on the next line compares with 5,000,000 microseconds.

## Abstractions

- Sequence numbers in `Transfer` start at 0 and do not wrap (`LossListProofs`, and `SndLossList`
  and `RcvLossList` where wrapping matters). Numbers compared are less than the threshold apart because a
  flow window is far smaller than 2^30.
- A payload is the index of its block; `recv` takes whole packets (`m_iNotch`, the offset
  into a unit, is left out). A refilled block is `Garbled`: old bytes, new bytes or a mix.
- The ring of send blocks grows by `increase`; `BlockRing` is its initial size, and a block
  may be refilled as soon as the initial ring allows it, which is never later than in the code.
- The congestion window is any member of `CongWindows` at any time.
- Timers have no durations. `EagerTimer` lets EXP fire while threads are busy; without it
  EXP waits for the host to be idle. `MayDie` lets a connection be given up once the count is
  reached. An ACK of nothing new may be repeated at any time.
- An ACK changes `m_iRcvLastAck` and `m_iLastAckPos` in one step, and the sender's
  `m_iFlowWindowSize` and `m_iSndLastAck` in one step; the reads in `packData` are two steps.
- `broken` and the timeout stop a connection; `close` and shutdown are in `SocketLifecycle`.
- Calls under one lock are one step, unless they wait or signal inside it; a test that the code
  makes without the lock is a step of its own (`EPoll`, `UnitQueue`, `SocketLifecycle`).
- Durations are orders: the collector's second, a caller's deadline and the listener's three
  seconds may be over at any time after they began. The one exception is `LateRequests`: in
  `lifecycle_live` no request comes for a listener that has been closed for four seconds, and
  `late_request` shows what happens if one does.
- `Messages` does not wrap its sequence numbers, and a packet that was sent may arrive at any
  time and any number of times. It stops where the sender's numbers and blocks have drifted
  apart (`Aligned`), except in `msg_drop`.
- `Handshake` has a cookie that is the minute it was made in; the hash is taken to be injective.
  Versions, socket types and the flow window of a request are left out: a mismatch is a refusal.
- `FileTransfer`'s connection lasts: the exits of `sendfile` and `recvfile` on `m_bBroken` and
  `m_bClosing` after their waits (`core.cpp:1468-1471`, `1555-1558`) are left out. So is, in
  `SocketLifecycle`, the delay of a broken socket with unread data (`m_iBrokenCounter`,
  `api.cpp:1197-1201`): the collector takes it in its next pass.
- `Messages` leaves out the last branch of `scanMsg` (`buffer.cpp:644-649`): `readMsg`, whose loop
  ends where that branch has it begin, then takes nothing, as if no message were found.
- `Congestion` rounds periods to microseconds, and the random spacing of cuts is any value that
  `rand()` may give.
- Once an exception leaves a function declared `throw()` (`api.cpp:797`) the process ends:
  `aborted` in `SocketLifecycle`.
- In both loss lists the links of a free slot, which the code leaves as they were and nobody
  reads, are -1.
- `CACKWindow`'s time stamps and RTT are left out.

## Not modelled

- `CPktTimeWindow` and the RTT: floating estimates that only feed congestion control.
- The bit layout of packets, system calls (`CChannel`, most of `CTimer`, `CGuard`), `md5`, and the
  Windows branches.
- Options (`setOpt`, `getOpt`), statistics (`sample`), and the interface functions of `api.cpp`
  from line 1497 on, which only catch exceptions; their order with the calls modelled matters
  in one place, the hazard at `core.cpp:764`.
- `startup` and `cleanup` of the library, and the timeouts of `send`, `recv` and `sendmsg`.
- `CSndBuffer::increase` and the destructors, which allocate and free.
- System sockets in `CEPoll` and the exception set, which nothing ever fills.
- `src/app`: programs that use the library and share no state with it.

## The plan

Every component that keeps state of its own is now modelled; what remains is depth.

1. **Abstract specifications**: of message mode (a message is pending, delivered or dropped), and
   of the socket life cycle (a socket is open, closed, deleted), to be implemented by `Messages`
   up to its named exceptions and by `SocketLifecycle`.
2. **Composition**: `SndQueue` with two sockets of `Transfer`, to show that pacing starves neither;
   `Transfer` with `close` and linger.
