# Formal models of hscp

hscp 0.9.21 is scp with two channels: the records and replies of the scp protocol go through ssh (a pair of pipes), the
files' contents go over UDP, by the reliable transport UDT that is in the tree (`udt4/`). This directory holds TLA+
models of the parts that carry the program's logic, TLC configurations that check them on small instances, and TLAPS
proofs that hold for every value of the constants.

| Module | Models | Checked by | Proved in |
|---|---|---|---|
| `ReliableStream` | what a UDT stream connection promises | – | – |
| `UdtTransfer` | the UDT data path (`core.cpp`, with buffers, loss lists and one socket's place on the send list) | `UdtTransferSafety.cfg`, `UdtTransferLive.cfg` | `UdtTransferProofs` |
| `SeqNo`, `SeqWindow` | the circular sequence numbers (`common.h`), and the sender's window run on them | `SeqWindow.cfg` | `SeqWindowProofs` |
| `UdtReceiver` | the receiver's ring and loss list as they are stored (`buffer.cpp`, `list.cpp`) | `UdtReceiver.cfg` | `UdtReceiverProofs` |
| `UdtSender` | the sender's circle of blocks and loss list as they are stored | `UdtSender.cfg` | – |
| `UdtMessages` | messages, their TTL, the ring and the units they share (`sendmsg`, `recvmsg`, `CUnitQueue`) | `MCUdtMessages` with `UdtMessages.cfg` | – |
| `UdtFlow` | options, handshake, windows and the history of ACKs (`setOpt`, `ccc.cpp`, `window.cpp`) | `MCUdtFlow` with `UdtFlow.cfg` | `UdtFlowProofs` |
| `UdtSendList` | the heap of the send list and the thread that sleeps on it (`queue.cpp`, `common.cpp`) | `MCUdtSendList` with `UdtSendList.cfg` | – |
| `UdtBlocking` | calls that block, and a close that ends them (`core.cpp`) | `UdtBlocking.cfg` | `UdtBlockingProofs` |
| `UdtConnect` | the handshake, the socket table and its collector (`core.cpp`, `queue.cpp`, `api.cpp`) | `UdtConnect.cfg` | `UdtConnectProofs` |
| `HscpSession` | the copy protocol of `hscp.cpp` with the file transfer of `udtscp.cpp` | `MCHscpSession` with `HscpSession.cfg` | `HscpSessionProofs` |
| `HscpLaunch` | a command from its first ssh to its exit status, with the stall monitor | `HscpLaunch.cfg` | `HscpLaunchProofs` |

Run `tlc -config X.cfg M.tla` for the models and `tlapm M.tla` for the proofs.

## 1. Inventory

| Part | State it keeps | Operations | Hard to get right |
|---|---|---|---|
| `hscp.cpp` source, rsource, sink, response, run_err | nested calls, pending times (`setimes`), `errs`; nothing that relates a reply to a record | announce, refuse, send, answer, finish | each failure, on either side, must cost exactly one reply; two channels must not drift apart |
| `hscp.cpp` main, toremote, tolocal, do_cmd, response_v | `remin`, `remout`, `do_cmd_pid`, `hscp_protocol` | fork ssh, read the P line, exit status | several sources share statics; only the last ssh's status is looked at |
| `udtscp.cpp` UDTScp | a UDT handle, port range, the display state | listen, accept, connect, sendfile, recvfile, monitors | size taken again in protocol 0; SIGTERM on a stall |
| `udt4` CUDT (`core.cpp`) | sequence numbers on both sides, windows, timers, flags | sendfile, recvfile, sendmsg, recvmsg, packData, processData, processCtrl, sendCtrl, checkTimers, connect, close | five threads; loss, duplication, reordering; windows updated in two places; calls that block |
| CSndBuffer, CRcvBuffer (`buffer.cpp`) | list of blocks, ring of slots | add, read, ack, scan, drop | full against empty ring; read without a lock |
| CSndLossList, CRcvLossList (`list.cpp`) | ranges of numbers in circular arrays | insert, remove, first | overlapping ranges, wrap, size of the array |
| CSndUList, CSndQueue, CTimer (`queue.cpp`, `common.cpp`) | heap of sockets by time, time slept for | update, pop, remove, sleep, interrupt | a socket that leaves the heap and is not put back; a signal between test and wait |
| CRcvQueue, CUnitQueue (`queue.cpp`) | hash, list, new entries, pool of units | worker, storePkt, recvfrom, increase | order of handling; units counted without a lock |
| CACKWindow (`window.cpp`) | ring of ACK numbers | store, acknowledge | forgets the oldest |
| CSeqNo, CAckNo, CMsgNo (`common.h`) | none | compare, length, offset, increment | wrap at 2^31 |
| CUDTUnited (`api.cpp`) | sockets, accept queues, multiplexers | bind, listen, accept, close, garbage collection | collector against application calls and worker |
| CCC, CUDTCC (`ccc.cpp`) | rate and window (floating point) | onACK, onLoss, onTimeout | a window that never opens |
| CCache (`cache.cpp`) | two indexes of one set of entries | lookup, update | entries deleted in one index and kept in the other |
| CPacket, CChannel, CMD5 | none | encoding, socket I/O | – |

How they interact. `main` starts hscp on the other host through ssh, and the two talk by `remin`/`remout`. The server side
prints its UDP port; the client connects with UDT. From then on source and sink exchange records and replies on the
pipes and contents on the UDT connection. UDT has, per process, a thread that sends (`CSndQueue::worker`), one that
receives and runs the timers (`CRcvQueue::worker`), a garbage collector, and the application's own thread. They share
the sender's state under `AckLock`, `ListLock` and `BufLock`, sleep and wake each other under `WindowLock`,
`SendBlockLock` and `RecvDataLock`, and in places share state without a lock.

What makes each part correct: the data path delivers the stream, in order, once, and does not stop (`IsReliableStream`,
`AllDelivered`); the buffers never lose or mix blocks (`RingHasRoom`; as they are stored, `RingIsStream`,
`ReadsTheNextByte`, `RoomNeverOverstated`, `BlocksAreStream`, `RetransmitsRightBlock`); the loss lists neither forget nor
invent a number (`LossIsScheduled`; as they are stored, `ListIsHoles`, `LossListIsLost`); messages stay whole and in
order (`WholeMessages`, `OrderKept`); the circular arithmetic is arithmetic (`OrderIsAge`, `CountIsHeld`); what is
sent was granted, and what was granted has room (`NeverOverruns`); each socket on the send list can be found there and no thread
sleeps through its signal (`LocIsPlace`, `NoLostWakeup`, `NoSignalMissed`, `CallsReturn`, `CloseReturns`); a peer has one
connection, and what is closed is given back once nothing points to it (`OneSocketPerRequest`, `NoDangling`,
`BrokenAreFreed`); the copy protocol keeps the two sides in step, puts contents and times where they
belong, tells failures honestly and ends (`InStep`, `RightContents`, `SuccessIsComplete`, `Termination`), and so does
the command around it (`ProtocolAgreed`, `ExitTellsFailure`, `EveryoneEnds`). The list of what is hard to test, line by
line, is under "hazards" in `PROJECT.json`.

How the modules fit together. `UdtTransfer` implements `ReliableStream`; `HscpSession` takes its connection to be such a
stream, and `HscpLaunch` takes a session to be a source that is copied or refused. Below `UdtTransfer`, `SeqWindow`
justifies numbers that do not wrap, `UdtSender` and `UdtReceiver` have the containers, `UdtFlow` has the sizes and
windows that `UdtTransfer` takes as constants, `UdtSendList` has the list on which `UdtTransfer` has one socket, and
`UdtConnect` and `UdtBlocking` have what happens before and after the transfer.

## 2. The UDT data path: `UdtTransfer`

One direction of an established stream connection. The state has the names of the code (`sndLastAck` for
`m_iSndLastAck`, and so on). Each action is a handler, or the part of one between two locks:

| Actor | Actions | Code |
|---|---|---|
| sending application | `SendBlock`, `AppUpdate` | the loop of `CUDT::sendfile`, `addBufferFromFile`, `CSndUList::update` |
| send-queue thread | `PopBroken`, `PopLost` then `Retransmit`, `PopNew` then `PackNew` | `CSndUList::pop` with `packData` |
| sender's receive thread | `ProcessLiteAck`, `ProcessAck` then `FreeAcked`, `ProcessNak`, `RcvUpdate`, `ExpTimer`, `SndGivesUp` | `processCtrl`, `checkTimers` |
| receiver's receive thread | `AcceptData`, `DiscardData`, `ProcessAck2`, `AckTimer`, `LiteAckTimer`, `NakTimer`, `RcvGivesUp` | `processData`, `processCtrl`, `sendCtrl`, `checkTimers` |
| receiving application | `RecvRead` | `recvfile`, `readBufferToFile`, `ackData` |
| UDP | `Lose`, and the choice in `Reply` | external: loss, duplication; reordering because `net` is a set |

`packData` is two actions because it takes a number from the loss list (or reads the windows) before it takes
`AckLock`; `processCtrl` of an ACK is two because it sets the window before it takes it, and a third, `RcvUpdate`,
because `update` waits while `pop` holds `ListLock`.

Abstractions. Numbers count from the ISN and do not wrap (section 3 says why that is sound). A payload is its position.
Loss lists are sets and buffers are positions; section 4 has the arrays, the ring and the circle of blocks that hold them.
There are no clocks: a timer may fire whenever the code could let it, which covers every timing. A congestion window is any of `CWnds` at any moment, which covers every controller.
An ACK2 carries the number that `CACKWindow` would look up. A NAK from the timer carries one range: a longer report is
several of them. `NetCap` bounds the datagrams in flight; when it is exceeded, any of the older ones is lost, so the
bound takes away no loss. Messages are in section 5, what ends a connection in sections 7 and 8; keep-alive is not modelled.
A file that ends early makes `addBufferFromFile` count blocks it did not fill (`CountAdded`, section 11).

### Runs

- `UdtTransferSafety.cfg` (1,012,968 states, about 40 s): three packets, blocks of two, a send buffer of two, a ring of
  three slots, windows 1 and 3, two datagrams in flight. Enough for a gap with a packet behind it, a retransmission that
  races an acknowledgement, a light ACK between two full ones, a full ring and a full send buffer, duplicated and
  overtaken ACKs. The ring never overruns (`RingHasRoom`); no ACK or NAK of an honest peer is taken for an
  attack (`NeverSuspectsPeer`); what is lost is in a loss list and the socket on the send list (`LossIsScheduled`);
  acknowledgements never retreat, and the whole implements `ReliableStream`.
- `UdtTransferLive.cfg` (106,187 states, about 50 s): two packets and a ring that holds one, under `FairSpec`: the file
  arrives. With the minimum window of 2 taken out it does not. `NetCap` is 3 because the bound drops datagrams too: with
  2 the receiver's own repeated ACKs could push every data packet out, which is no behaviour of UDP.

Fairness. The threads run and are never disabled for good (weak fairness on the applications, `update`, `FreeAcked`
and the send thread as a whole). The ACK timer fires every 10 ms while the receive thread runs (weak). The EXP timer's
guard comes and goes with each datagram, and its deadline passes again and again as long as data is unacknowledged
(strong). A datagram that is sent again and again is received at some time: strong fairness per datagram, the usual
fair-lossy channel, and what the code's retransmission relies on. No end gives up in `FairSpec`: giving up after ten
silent seconds is what the code does when that assumption does not hold. No fairness is asked of NAK and light ACK,
which are optimisations: EXP alone suffices.

### Proofs (`UdtTransferProofs`)

For every file length, block size, buffer sizes, congestion windows and network bound that `TransferAssumption` allows,
`TypeOK`, `RingHasRoom`, `NeverSuspectsPeer`, `AcksNeverRetreat` and `IsReliableStream` are theorems of `Spec`, and so
are four facts that no run names because they are steps of the argument: the sender frees only what was received
(`FreesOnlyReceived`), the receiver's loss list is the set of holes (`LossListIsHoles`), a readable slot is filled
(`ReadableIsStored`), a packet sent again carries the block of its number (`RetransmitsRightBlock`). The argument is the invariant `IInv`, proved in `Invariance` action by action. The conjuncts the runs do not
name are why it is inductive:

- `Positions` orders the numbers of both sides: what was delivered, what is acknowledged, `rcvCurrSeqNo`, `sndCurrSeqNo`,
  `written`; it ties `sndFirst` to `sndLastDataAck` and `sndNext` to `sndCurrSeqNo`;
- `RightContents`: a slot of the receiver holds the packet of its number; `LossWasSent`: whatever is in a loss list was
  sent;
- a truthful network: every datagram there, however old or duplicated, says something that was true when it was sent
  and stays true, because positions only advance (a full ACK names data that is acknowledged in the receiver's buffer, a
  light ACK only data that is stored). This is what makes late and repeated
  datagrams harmless, and it is the heart of the proof.

With these, `NeverSuspectsPeer` says that the code's "attack or bug" branches cannot be reached between two honest
ends, and `ImplementsStream` maps each step to a step of `ReliableStream` or a stutter. `LossNeverStranded` proves
`LossIsScheduled` from a second invariant, `Scheduled`. The difficult moment is a number that the send thread has taken
from the loss list and then drops, leaving the socket off the send list, because an acknowledgement came in between. It
is harmless because the acknowledging thread owes an `update` as long as that can happen, and for that `Scheduled` says that a
number in the loss list is never below `sndLastDataAck` and a number taken was not either, unless the thread is at its
`update`. `AllDelivered` is liveness and out of the prover's reach.

## 3. Sequence numbers: `SeqNo`, `SeqWindow`

`SeqNo` has the six operators of `CSeqNo` on a circle of `MaxSeqNo + 1` numbers. `SeqWindow` runs the sender's window
with them, from every initial number, beside ghosts that count without wrapping (`flight`, `lag`, `old`), and says that
the two agree as long as the numbers in use, late ACKs included, span less than `SeqNoTH`. The code's values are 2^31 - 1
and 2^30 - 1 with buffers of some thousand packets.

- `SeqWindow.cfg` (672 states): a circle of 16, a window of 3, a send buffer of 4, ACKs up to 2 packets late. 4 + 2 is
  just below 7, the largest that the assumption allows, and the window crosses the end of the circle at every offset.
  `CountIsHeld`: as many blocks are freed as packets were acknowledged. `OrderIsAge`: comparison and offset order the
  numbers in use by age.
- `SeqWindowProofs` proves these for every circle, window and buffer that the assumptions allow, and with them the type
  invariant, that no ACK the receiver sent looks like one of a number not sent (`NeverSuspectsAck`), that `seqlen` counts what is in flight within the flow window (`LengthIsFlight`), and that `incseq` and
  `decseq` walk along the numbers in use (`StepsFollowCircle`). This is the ground for counting without wrapping in
  `UdtTransfer`. The inductive invariant ties each number to its ghost count; from there everything is arithmetic of `%`.

## 4. The containers: `UdtReceiver`, `UdtSender`

`UdtTransfer` says what the threads do with the buffers and the loss lists; these two modules have the containers themselves,
each under the calls that `CUDT` makes to it. Both count on the circle of `SeqNo`, so that the wrap of the numbers, the wrap
of the ring and the wrap of the arrays meet at every offset.

A loss list is a linked list whose nodes sit in arrays at the distance of their first number from the head. Insertion and
removal (`LossInsert`, `LossUnlink`, `LossShift`, `LossCut`, `LossSplit`, `LossTake`, `LossRemove`) are the branches of
`insert`, `remove` and `getLostSeq`. The arrays keep in an emptied node the links it had, which nobody may follow: the
models set them to `Unset`, which is no node, so that following one stops TLC with an error, and `LinksAreOrder`
requires that no other node keeps such a link.

| Actor | Actions | Code |
|---|---|---|
| receiver's receive thread | `DataArrives` then `DataHandled`; `SendAck` | `processData` with `getRcvDataSize`, `addData`, `insert`, `remove`; `sendCtrl` with `ackData` |
| receiving application | `ReadStart`, `ReadUnit`, `ReadEnd` | `readBuffer`, `readBufferToFile` |
| sending application | `AddBuffer` then `AddCount`; `AddBufferFromFile` | `addBuffer`, `addBufferFromFile`, `increase` |
| send-queue thread | `PackNew`; `PackLost` then `PackRead` | `packData` with `getLostSeq`, `readData` |
| sender's receive thread | `Acknowledge`, `ReportLost` | `processCtrl` (ACK, NAK) with `ackData`, `remove`, `insert` |

The receiver's ring has no lock. `getRcvDataSize` reads `m_iStartPos` twice, the application frees units one by one and
moves `m_iStartPos` when it is done; the actions break there, and `RoomNeverOverstated` says what a torn read may
cost: room that is there but not seen, never the reverse. In the sender, `addBuffer` fills blocks and moves
`m_pLastBlock` before it takes `BufLock` to count them, while the others send and free what it filled: `count` may be
below 0 for that time, and `BlocksAreStream` has the sum that is right. These models take the accesses to shared
variables in the order of the code (sequential consistency), although the variables are not atomic.

- `UdtReceiver.cfg` (795,296 states, about 80 s): a ring and a list of six, a circle of 24. Arrivals run from one packet
  behind the last acknowledged one to six ahead, which is beyond the ring, so that a range of lost numbers lies before,
  between or after others and is split, cut, shortened and unlinked in each place, with the arrays going round. The
  application reads less than a packet at a time and more than one, so that the notch and a second unit both occur, while
  the other thread stores and hands over. One branch of `insert` is never taken, and cannot be: it lengthens the last
  range of the list, which ends before the newest packet while new losses begin after it.
- `UdtSender.cfg` (173,306 states): blocks in buffers of two, three such buffers, writes of two packets into a send buffer
  of three, so that the circle grows while it is in use and at every position of its end; four packets in flight and
  lists of eight, the code's ratio, on a circle of 16. Any range in flight may be reported lost again and again, any
  number acknowledged, in between the two steps of a retransmission too.

The ISN is 0 in both: the numbers go round the circle, and every number is met as the first one. Messages are in
section 5; there the receiver's list is a set, and the array form of the removal of a range, whose only caller is a drop
request, is not modelled. `find` has no caller.

`UdtReceiverProofs` proves `TypeOK` and the four invariants of `UdtReceiver.cfg`, for every circle, ring, list and packet length
that `ReceiverAssumption` allows (it requires now that `NULL` is no packet, without which an empty slot could not be told),
for any ISN, any order of arrival and any division of a read. All is counted in distances from `m_iRcvLastAck`, of which the
assumption makes sure that they are less than half of the circle, so that `SeqOff`, `SeqCmp` and `SeqLen` are subtraction,
order and length there (`OffShift`). The argument has two layers:

- The list. `ListIsHoles` says what must be true of the list as a whole, by comparing all its nodes; `IsChain` says the same
  node by node, which is what a branch of the code changes: each node is a longest run of missing numbers (so `insert` has no two runs to join),
  two nodes are as far apart in the arrays, going round, as their first numbers are on the circle (`AreInPlace`), the links lead to
  the next and back, and nothing missing lies between. What each branch does to such a chain is a lemma: take a node out
  (`ChainUnlink`), move its start (`ChainShift`), its end (`ChainCut`), split it (`ChainSplit`), append one (`ChainAppend`). The
  place that a branch writes to is free because a node that would be there would start with that number (`PlaceIsFree`).
  Hence the theorems on the operators of `list.cpp`: `insert` is a union (`InsertIsUnion`), `remove` a difference
  (`RemoveIsDifference`), `getFirstLostSeq` the least number (`FirstIsLeast`), and an acknowledgement, which moves the number that all distances
  are counted from, leaves the list right (`ListMoves`).
- The ring and the two threads. `WindowOK`: what is unread and what has come beyond it fit in the ring, counted from where the
  application reads (`Begin`) and from where the other thread sees it begin (`m_iStartPos`), which lags behind during a read;
  `HeldOK` which numbers have come; `RingIsStream` that they are in their slots; `NotchOK` how far the first unit is read;
  `PacketOK` that the comparison of positions made at the first read of `m_iStartPos` still means something at the second:
  the application only ever moves it towards `m_iLastAckPos`. From these follow `ReadsTheNextByte` and `RoomNeverOverstated`.

The bounds `Ahead`, `Late` and `Unread` are any numbers in the proofs, `Ahead` and `Late` less than half of the circle.
`UdtSender` has the same lists with `insert` in the middle, where runs are joined; its invariants are model-checked only.

## 5. Messages: `UdtMessages`

`sendmsg` and `recvmsg`, which hscp does not call but UDT promises. The ring holds units of the receiving queue's pool
(`CUnitQueue`), and each unit has a flag (free, in use, read, dropped) that the reader and the worker change without a
lock.

| Actor | Actions | Code |
|---|---|---|
| sender | `SendMsg`, `PackNew`, `Resend`, `Expire`, `TakeAck` | `sendmsg`, `packData` with both `readData`, `processCtrl` |
| worker | `TakesNext`, drop requests, `AckTimer`, `AckShrinks`, `AckSignals` | `CRcvQueue::worker` with `getNextAvailUnit` and `increase`, `addData`, `dropMsg`, `sendCtrl` with `ackData` |
| reader | one round of a loop for each action | `recvmsg`, `scanMsg`, `readMsg` |

- `UdtMessages.cfg` (532,577 states, about 3 minutes): messages of one, one and three packets, the second sent in order,
  the third with a TTL that may be over at any time; a ring of five, so that a message of three packets goes round its
  end; a pool of three units that grows to six. `WholeMessages`: what `recvmsg` returns is a whole message, and none
  comes twice. `OrderKept`: a message sent in order comes after all earlier ones. `AllDelivered`: unless one was dropped,
  all are delivered. Only the last message may expire: section 11 says what an earlier one does.

Fairness: the threads run (weak); a packet that is sent again and again arrives, and who waits for `m_RecvDataLock` gets
it in the end (strong: the lock comes and goes with each round of the reader). Deadlock is not checked, since all three
actors stop when all is delivered, and the worker can hang in `dropMsg` (section 11).

## 6. Options, windows and the history of ACKs: `UdtFlow`

From the lines of `hscp.conf` to the windows of a running connection. `ReadConfig` sets the options in the order in which
`setoption` sets them, each as `setOpt` cuts it down with what the others are at that moment; the handshake settles MSS
and windows; then the receiver grants room in its ACKs, `CUDTCC` opens its window, and `CACKWindow` remembers which ACK
stood for which number.

- `UdtFlow.cfg` (3,796,379 states, about 1.5 minutes): a client's configuration that gives a value twice and a packet size
  above a UDP buffer, a server's with a UDP buffer below the packet size and a ring of four slots under a window of five,
  so that the first answer announces four packets and a repeated one five; five packets, a least window of four and a
  first congestion window of three; a history of three slots (so two entries) with three ACKs, which overflows; two ACKs
  and two ACK2s in flight that are lost and overtake each other. `PacketsFit`: what a side packs fits the UDP buffers of
  both. `NeverOverruns`: what is sent has a slot in the ring, but for the two packets of the least window and for what the
  handshake announced, which the sender takes for granted until the first full ACK (section 11). `AckAckIsKnown`: what the
  receiver takes for known to the sender has been processed there, with late ACK2s and with ACKs that were overwritten
  in the history. Safety only; deadlock is not checked since the bounds end the run.

All three are theorems of `UdtFlowProofs`, for every pair of configurations, every history size and any number of packets
and ACKs (`FlowAssumption` asks for the order that the code's constants have, and that a new socket's packet fits its own UDP
buffers). Of the invariant `IInv`:

- `Window` is about the end of the sender's window and not about what was sent: it lies within the ring, or the window is
  the least one, or its end is within what the handshake announced. A light ACK moves the begin of the window and shrinks
  it by as much, so the end stays; that is why the third case outlasts any number of light ACKs. `NeverOverruns` follows
  at each packet, and stays because the reader only frees more;
- `Grants` says the same of the full ACKs on their way, however old: a late grant is smaller than the room there is now,
  because `read` has only moved on;
- `Confirmed` ties each slot of the history to the ACK that was sent under its number. ACK numbers are never used again, so
  a slot that was overwritten no longer has the number of a late ACK2, and one that has it stands for an ACK that the
  sender processed before it answered;
- `Agreed` follows the MSS through `setOpt` and the handshake: whichever answer arrives carries the server's.

## 7. Connections and sockets: `UdtConnect`

Clients that connect, a network that loses, repeats and reorders, and one server process in which the program, the
receiving queue's thread and the collector of `CUDTUnited` work on the same sockets. An action is what a thread does
between two acquisitions of a lock it may have to wait for.

| Actor | Actions | Code |
|---|---|---|
| client | `Connect`, `ClientReceives`, `ConnectTimesOut`, `ClientStores`, `ClientHearsShutdown`, `ClientCloses` | `CUDT::connect`, `recvfrom`, `storePkt`, `processCtrl`, `close` |
| worker | `TakeNewEntry`, `TakeRequest`, `Listen`, `FindConnection`, `MakeConnection`, `PublishSocket`, `QueueSocket`, `TakeData`, `TakeShutdown`, `PeerSilent`, `Release`, `DropFromList` | `CRcvQueue::worker`, `CUDT::listen`, `CUDTUnited::newConnection`, `releaseSynch` |
| program | `AcceptPops` … `CleanupReturns` | `UDTScp::listen`, `accept`, `disconnect`, `CUDTUnited::accept`, `close`, `cleanup` |
| collector | `CheckBrokenSockets`, `JoinWorker`, `CleanupStarts` … `CollectorEnds` | `garbageCollect`, `checkBrokenSockets`, `removeSocket` |

A message stays in the network once sent, so every repetition and delay is there. A second passes for a closed socket
(`SecondPasses`) when no thread that could go on is inside it: that is the assumption on which the collector's delay
rests, and threads that wait for a lock are let overstay it.

- `UdtConnect.cfg` (284,343 states, about 2.5 minutes): one client that connects once, as `UDTScp::connect` does with each
  socket; up to two sockets made for its requests; a program that closes its listener after the accept, as udtscp does,
  or leaves it to cleanup. `OneSocketPerRequest`: a request that is repeated does not get a second connection while the
  first stands. `NoDangling`: until cleanup begins, nothing that hash, list or a thread still refer to is deleted.
  `RefCountIsSockets`: the multiplexer goes with the last socket. `CleanupEnds`: cleanup returns to a program that closed
  its listener first. `BrokenAreFreed`: a broken connection is given back.

`UdtConnectProofs` proves the three invariants and `TypeOK`, for any number of clients, of calls of connect by each, and of
sockets (at least one). The invariant `IInv` says where a socket can be while a thread is at a given line:

- `Born`: sockets are made in order, and the worker is asked for one only while there is room; `RefCountIsSockets` then
  is inductive: `newSocket` and `removeSocket` are the only steps that change the set of sockets and the count;
- `Unique`: every live connection is in the accept queue, with the program or in the worker's hands (`LiveAreTracked`), no
  two of them answer the same request (`NoTwins`), and when the worker makes a socket none answers the request it has in hand
  (`NoneAnswers`). The search and the making are steps of one thread under different locks, so the last must survive
  everything that the program and the collector do in between: they only end connections;
- `Followed`: as long as the program serves, the socket in the hands of the worker or the program is not yet `old` enough to be
  removed, because a second passes only when no thread is inside it, and the collector shuts everything down only after
  `cleanup` was called. Together with `Sane`, that a socket on the receiving list or in the hash is one that exists, this gives
  `NoDangling`.

Each action has its lemmas, one for each part that it can disturb. `CleanupEnds` and `BrokenAreFreed` are liveness.

Fairness: the worker's, the program's and the collector's steps (weak) and the seconds that pass. `DropFromList` is
strong: the worker looks at its timers after every packet, so packets that keep coming do not keep it from a socket.
Nothing obliges a client or the network. Deadlock is not checked: a client may stop for good. The crash of `accept` and the
hang of cleanup (section 11) are behaviours of the model, and the properties make the exceptions they name.

## 8. Calls that block: `UdtBlocking`; the send list: `UdtSendList`

`UdtBlocking` has a call that waits for room, one that waits for data, the receiving thread, and threads that close the
socket, with every lock they take: `m_SendLock` and `m_RecvLock` for a call, `m_SendBlockLock` and `m_RecvDataLock` for
a wait, `m_ConnectionLock` for a close. A call tests, locks, tests again and waits, as `send`, `sendfile`, `recv` and
`recvfile` do; `Releases` is `releaseSynch`, which the worker too goes through when the connection breaks.

- `UdtBlocking.cfg` (74,767 states, about 30 s): two blocks through a send buffer of one, one packet of data for a call that
  waits for two, one closing thread. `NoSignalMissed`: who waits though it need not is about to be signalled.
  `LingerKeepsData`: when a close says goodbye with the connection intact and patience left, what was written before it
  is acknowledged. `NothingAfterClose`: after a close no call touches the buffers, which the collector deletes a second
  later. `CallsReturn`, `CloseReturns`: calls, close and worker end, although each waits for others.

Fairness: the threads run, and what is sent is acknowledged while the connection stands; nobody has to close or break it.
Deadlock is not checked because all end.

`UdtBlockingProofs` proves the three safety properties and `TypeOK`, for any amounts of data, any size of the send buffer
and any number of closing threads. `IInv` has who holds which lock at which line (`LocksHeld`); that what a call has
tested is still so where it acts on it (`Tested`), since nobody else takes away room or data and `Down` is for good;
`NoSignalMissed` extended to the moment between the last test and the wait (`SignalComes`), which is safe because the
signal is given under the lock that the call holds from the test on; what a lingering close has seen (`LingerSaw`);
and that a socket that is not open has no call past its tests and lets none get there (`Shut`), from which
`NothingAfterClose`, an action property, follows.

`UdtSendList` has the heap of `CSndUList` as an array with `m_iHeapLoc` and `m_llTimeStamp` of each node, the thread
`CSndQueue::worker` with its sleep (`sleepto`), its wait (`m_WindowCond`) and its end, and the calls of `update` and
`remove` that come from the other threads. Times are relative to the present and 0 is due.

- `UdtSendList.cfg` (254,572 states, 20 s): four interchangeable sockets and six updates. `LocIsPlace`: whatever order
  of removals from the middle and of insertions, each node is in the heap at the place it knows, once: `update` and
  `remove` go by it alone. `NoLostWakeup`: while the list is not empty, the worker does not wait without someone about
  to signal it. `MaxLate` is 0: the worker is in time, or time stands still for it; lateness does not change the order in
  which the heap is used. That the first entry is the earliest, and that an update restarts transmission at once, does not
  hold (section 11).

## 9. The copy protocol: `HscpSession`

The source walks a tree (`Walk`: files, starts and ends of directories, in the order of the walk), writes a record for
each item, waits for the reply, sends the contents on the UDT connection and a NUL on the pipe, and waits for the final
reply. The sink is a stack of nested calls. Nothing in a reply or in the data says what it belongs to; the names they
carry in the model are ghosts that no guard reads.

| Code | Actions |
|---|---|
| `source`, `rsource` | `SourceFails`, `AnnounceFile`, `AnnounceDir`, `LeaveDir`, `SourceResponse`, `SendDone`, `SourceEnds` |
| `UDTScp::sendfile`, `CUDT::sendfile` | `OpenFile`, `SendUnit`, `FileEndsEarly` |
| `sink` | `SinkHearsError`, `SinkTakesTimes`, `SinkRefuses`, `SinkEntersDir`, `SinkOpensFile`, `SinkEndsDir`, `SinkMeetsEnd`, `SinkScrewsUp`, `SinkFinishesFile` |
| `UDTScp::recvfile`, `CUDT::recvfile` | `RecvSize`, `RecvUnit`, `RecvDone` |
| `response` in the sink, `lostconn`, `killchild`, SIGTERM | `SinkMisreads`, `SourceLosesSink`, `SinkLosesSource`, `SourceKilled`, `SinkKilled` |

The failures, each named by a string in `Faults`, are what the code answers to: `open` (a source file cannot be read),
`create` (a target cannot be made), `chmod`, `utimes`, `dirtimes` (times of a directory), `resize` and `gone` (the file
changed, or cannot be opened, when it is opened again), `shrink` (it ends while it is sent), `kill`. `MaxFaults` bounds
how many happen in a session.

Abstractions. The session starts where the two are connected: the port, the protocol number and the accept are left out,
as are several arguments, the check that the target is a directory, wrong names, bandwidth limits and the build that
sends contents on the pipe (`SCPXFER`). Contents are a few units. UDT is the reliable stream of section 2, with buffers
that never block the sender: source and sink never wait for room in this direction, since the sink reads all the
time while it receives.

- `HscpSession.cfg` (62,276 states, 10 s): a tree of eight items (a directory with a file, an empty directory and an empty
  file; two more files of one size), with and without `-p`, in both protocols, with the client on either side, and any
  two failures of the nine kinds. Two failures are what it takes for pending times or a refused item to meet a second
  irregularity; two files of equal size are what it takes for one to be stored in the place of the other unnoticed.
  `InStep`: the replies on their way answer what the source waits for next; not so after `dirtimes`. `RightContents`: a
  file taken for whole holds its own contents and times; not so after `dirtimes`, nor with `gone`, where an empty file is
  stored for whole. `SuccessIsComplete`: exit status 0 means that all was copied, with every failure. `Termination`:
  both processes end, but for `shrink`, which stops both for ever (section 11); deadlock is not checked for that reason.

Fairness: both processes run (weak fairness of each side's steps as a whole, since each is one thread).

`HscpSessionProofs` proves `TypeOK`, `InStep`, `RightContents` and `SuccessIsComplete`, for every tree that `SessionAssumption`
allows, either protocol, and any number of any of the failures. The records and replies say nothing of what they belong to, so the
invariant has to say, for every place where either side can be, what is on the two pipes:

- `InStepInv`, as long as no `dirtimes` failed: `Replies` lists what may be on its way to the source (at most two replies, the
  second only behind that to a file's record), `Records` what may be on its way to the sink (errors, that nobody waits
  for; one record, the last; a NUL, only to a sink that waits for one), `Turns` whose move it is, `Pending` that the times
  that each frame of the stack keeps are those of its own directory or file. The proof that each step keeps them is where a
  failure that cost no reply, or two, would show; with `dirtimes` it does;
- `ContentsInv`, as long as no file was `gone` either: `Stream` and `Sent` count the units of the file that is being received,
  which arrived, are on their way or are still with the source; `Wholes` says of what is stored as a whole that it has
  the contents of its original;
- `CopiedInv`, as long as neither side has counted an error: all that the source has passed is copied, or is a directory the
  sink is still in. `Marks` adds that every failure is counted on the side that met it, which gives `SuccessIsComplete`.
  It holds with every failure, since the two exceptions above leave their mark too.

## 10. The command: `HscpLaunch`

`main`, `toremote` and `tolocal` with an ssh and a server process for each host, the line `P<port> <version>` and the
answer to it, connect and accept with their time-outs, error lines, `run_err`'s static `FILE`, the exit statuses, and
the stall monitor beside each transfer. Sources are local or remote in any mixture; servers may be of the older version,
whose line has no number; up to `MaxKills` processes die of themselves, at any time, and any connection may fail.

- `HscpLaunch.cfg` (450,785 states, 45 s): three sources, so that a later one follows one that failed and one that
  succeeded; both versions, two blocks of data, a stall limit of three seconds, two deaths. `ProtocolAgreed`: client and server
  use the same protocol in a session. `ExitTellsFailure`: status 0 means that no source failed, but for the case named in
  the definition, a host that is not the last and whose ssh died quietly. `EveryoneEnds`: client and servers end.
  All three leave out a client that read the version from behind an older server's line (`misread`): what follows is then
  whatever those bytes say.

Fairness: the client's, the monitors' and each server's steps (weak). That data moves is not assumed: the stall monitor is
what ends a client whose peer is silent, and the closed pipe ends the server. Deadlock is not checked, since all end.

`HscpLaunchProofs` proves `TypeOK`, `ProtocolAgreed` and `ExitTellsFailure` for any number of sources, of blocks and of
processes that die, in both directions. The invariant follows the words on the pipes of each server and the sources passed:

- `Said` and `Greeting`: a server says at most a NUL, which only toremote is told and which only a client in `greet` has not
  read, then its line, which has a number only if the server knows one. So the client never takes one for the other;
- `Untold` and `Unheard`: until the client has read the line it has said nothing, and a server that has ended by then failed;
- `Answers`: from then on the answer is the first word on the way to the server, or the server has taken it, and the protocol
  it has is the client's. What the client says next, the sink's NUL or an error line, comes behind it and cannot be read for
  the answer. `ProtocolAgreed` follows;
- `Passed`: a source that the client has passed was copied or has left a mark, and `Deaths`: a server that died ended with
  1, and is the last that was started when its source is the last. With them status 0 can only come from a client
  without errors whose last server ended well, which is `ExitTellsFailure`.

`OneByOne` is what makes this local: toremote has one server, and in `tolocal` the earlier ones have ended.

## 11. What the models show about the code

Where a statement of the documents, or what one would expect, does not hold, the models have the behaviour and the properties
name the exception:

- A directory whose times cannot be set makes the sink write two replies to one `E` record (`hscp.cpp:1511`). The source
  takes the second for the reply to its next record: that file is left out, and every reply from then on is one record
  late. The exit status does report an error.
- A file that shrinks between its record and its contents makes both sides wait for ever (`hscp.cpp:1187`): the source sends
  what there is and the NUL, the sink waits for the announced size. `addBufferFromFile` moreover counts the blocks it was
  asked for (`buffer.cpp:198`), so that `m_iCount`, "number of used blocks" (`buffer.h:153`), never returns to 0.
- With several remote sources in `tolocal`, only the last ssh's status is looked at (`hscp.cpp:732`), and error replies go to
  the pipe of the first (`hscp.cpp:1773`).
- cleanup may hang when the program did not close its listener: the collector holds the control lock and waits for the
  listener's connection lock (`api.cpp:1352-1355`, `core.cpp:853`), which the worker may hold in `newConnection` while it
  waits for the control lock. `cleanup.htm:25` says that it always succeeds. udtscp closes its listener and is not exposed.
- `accept` uses the result of a second `locate` unchecked (`api.cpp:676`), and `removeSocket` uses `m_Sockets[*q]`
  unchecked (`api.cpp:1136`): a collector that came first leaves NULL there.
- A message given up for its age takes one number too many with it (`core.cpp:2020`, and `2027-2028` skip one more): numbers and
  blocks no longer go together, a message after it may be delivered twice, and an ordered one before an earlier one that
  is neither delivered nor discarded, against `t-msg.htm:32`. The run shows neither, as only the last message expires there.
- A drop request that comes before any data makes the loop of `dropMsg` endless (`buffer.cpp:489`, `m_iMaxPos` is -1).
- `CSndUList::remove_` puts the last entry into the gap and lets it sink but not rise (`queue.cpp:401-425`): with six entries one
  that is due can stay below a later first one, so `getNextProcTime` need not give "the next scheduled processing time"
  (`queue.h:192`).
- `sleepto` overwrites the scheduled time (`common.cpp:166`): an interrupt given between `getNextProcTime` (`queue.cpp:512`)
  and `sleepto` (`queue.cpp:520`) is lost, and an update that is to "immediately restart transmission" (`core.cpp:2341`)
  waits for the old time.

- A server's answer to a request that comes again announces `m_iFlightFlagSize` (`api.cpp:331`, `core.cpp:1944`), which may be
  more than the ring has slots; only the first answer and the client's request take the smaller of the two (`core.cpp:745`, `core.cpp:549`).
  The sender relies on it until the first full ACK, and light ACKs move it along. In the code the first congestion window
  of 16 packets is smaller than any ring, and a light ACK takes 64 packets since the last full one, so it shows only if
  repetitions make up that count before the first full ACK; the model has no such count. A packet without a slot is dropped and
  sent again: nothing is lost by it.
- The sender's loss list has twice as many nodes as packets were announced (`core.cpp:689`), while later grants come from the size
  of the ring.

Read in the code and not in a model: `update` and `pop` use `insert_`, which does not let the heap's array grow
(`queue.cpp:282-331`); the last unit of each entry of the unit queue is never used (`queue.cpp:206`); a range removed from
`CRcvLossList` across the largest number misses that number (`list.cpp:647`); the shuffle of the ports may index one past
its array (`udtscp.cpp:269`); the cache of hosts orders by time alone, so that entries of one time replace each other
(`cache.cpp:72-75`).

## 12. What is proved, what is checked, what is left

Proved for every value of the constants: what the runs of sections 2, 3, 6, 7, 9, 10, of `UdtReceiver` (section 4) and of
`UdtBlocking` (section 8) check of safety, refinement and action properties included. Only model-checked: all liveness; the
invariants of `UdtSender`, `UdtMessages` and `UdtSendList`. Liveness under fairness and facts by induction over data are beyond
this prover; `UdtSendList`, with its recursive `Rise` and `Sink`, cannot be proved about as it is written.

Each inductive invariant was checked by TLC before it was proved, on its run's constants or larger ones (two closing threads
and three blocks in `UdtBlocking`, three failures in `HscpSession`, two calls of connect in `UdtConnect`, three deaths in
`HscpLaunch`; that of `UdtReceiver` on all states of its run). This and the proofs corrected the models: `FlowAssumption` had left out that a new socket's packet fits its
buffers, and `NeverOverruns` the window that a repeated handshake announces, for which the run's configurations were too small;
two cases of `CheckBrokenSockets` overlapped; `ReceiverAssumption` did not keep `NULL` apart from the packets.

Next, in this order: proofs of `LossListIsLost` and `BlocksAreStream` of `UdtSender`, for which the chain of
`UdtReceiverProofs` needs a case that joins runs, and of `WholeMessages` of `UdtMessages`. To model: several calls of connect on one socket,
rendezvous connections, keep-alive, both directions of a connection at once.

## 13. Not modelled

`PROJECT.json` lists every part with its reason: vendored OpenSSH code, encoding and socket I/O, MD5, the floating-point rate
control, the cache of hosts (a hint for first rates), select, thread-local errors, builds and samples are left out on
purpose; the parts in section 12 are not modelled yet.
