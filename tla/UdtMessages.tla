----------------------------- MODULE UdtMessages -----------------------------
(***************************************************************************)
(* Messages on a UDT connection: CUDT::sendmsg and recvmsg, the ring of    *)
(* CRcvBuffer in which messages are looked for while it is filled (readMsg,*)
(* scanMsg), the units it shares with CUnitQueue, and the requests to drop *)
(* a message that is too old (packData, processCtrl, dropMsg).             *)
(*                                                                         *)
(*   sender    sendmsg, the sending thread, ACKs that arrive               *)
(*   worker    the receiver's thread: takes packets into units, acknowledges *)
(*   reader    the application in recvmsg                                  *)
(*                                                                         *)
(* Worker and reader share ring and units without a lock: an action of the *)
(* reader is one round of a loop of scanMsg or readMsg.  m_RecvDataLock is *)
(* held by the reader but for its wait, and taken by the worker to signal. *)
(*                                                                         *)
(* Abstractions.  Blocks are numbered in the order in which messages are   *)
(* sent; a packet is its sequence number and its block.  Numbers count     *)
(* from 1 and do not wrap.  A packet once sent may arrive at any time, and *)
(* any number of Lost that is not acknowledged may be in the sender's loss *)
(* list at any time (NAK, EXP); what the receiver has of it already would be       *)
(* dropped there, so the network forgets it and it is not sent again.  A   *)
(* time to live may be over at any time.  A block that was never filled    *)
(* (number 0) is of no message.                                            *)
(***************************************************************************)
EXTENDS Integers, Sequences, FiniteSets

CONSTANTS
    Length,         \* of each message, in packets
    Ordered,        \* messages sent with inorder
    Expiring,       \* messages with a ttl > 0
    Window,         \* packets that may be in flight
    SndBufSize,     \* m_iSndBufSize
    RingSize,       \* m_iSize of the receiver's buffer
    QueueSize,      \* units of one CQEntry (32)
    FullNum, FullDen,   \* the part in use at which it grows (9, 10)
    MaxUnits,       \* bound: where the memory ends
    Lost,           \* bound: the numbers that ever enter the sender's loss list
    MaxDrops        \* bound: messages that are given up

Messages == 1..Len(Length)

ASSUME MessagesAssumption ==
    /\ Length \in Seq(Nat \ {0})
    /\ Ordered \subseteq Messages /\ Expiring \subseteq Messages
    /\ {Window, SndBufSize, FullNum, FullDen} \subseteq Nat \ {0}
    /\ RingSize \in Nat /\ RingSize >= 2
    /\ \A m \in Messages : Length[m] < RingSize - 1 /\ Length[m] <= SndBufSize
    /\ QueueSize \in Nat /\ QueueSize >= 2
    /\ (QueueSize - 1) * FullDen >= QueueSize * FullNum
    /\ MaxUnits \in Nat /\ MaxUnits % QueueSize = 0 /\ MaxUnits >= QueueSize
    /\ Lost \subseteq Nat /\ MaxDrops \in Nat

VARIABLES
    \* the sender
    written,        \* messages in the send buffer, or through it
    first, next,    \* m_pFirstBlock, m_pCurrBlock
    curr, lastAck,  \* m_iSndCurrSeqNo, m_iSndLastDataAck
    \* the network
    sent, requests,
    expired,        \* messages for which a request was ever made (history)
    \* the receiver's buffer
    ring, start, ackPos, maxPos,    \* m_pUnit, m_iStartPos, m_iLastAckPos, m_iMaxPos
    rcvCurr, rcvAck, rcvLoss,       \* m_iRcvCurrSeqNo, m_iRcvLastAck, m_pRcvLossList
    \* the units
    flag, holds,    \* m_iFlag and the block of each
    queue,          \* the rest of CUnitQueue
    \* the threads
    worker, reader,
    delivered       \* what recvmsg returned

sender == <<written, first, next, curr, lastAck>>
net    == <<sent, requests, expired>>
numbers == <<rcvCurr, rcvAck, rcvLoss>>
units  == <<flag, holds, queue>>
buffer == <<ring, start, ackPos, maxPos>>
vars   == <<sender, net, buffer, numbers, units, worker, reader, delivered>>

-----------------------------------------------------------------------------
(***************************************************************************)
(* The blocks of the messages (CSndBuffer::addBuffer).                     *)
(***************************************************************************)
FirstOf[m \in 1..(Len(Length) + 1)] ==
    IF m = 1 THEN 1 ELSE FirstOf[m - 1] + Length[m - 1]

LastOf(m) == FirstOf[m + 1] - 1
Packets == [m \in Messages |-> [i \in 1..Length[m] |-> FirstOf[m] + i - 1]]
MsgOf(b) == {m \in Messages : b \in FirstOf[m]..LastOf(m)}

Heads == {FirstOf[m] : m \in Messages}
Tails == {LastOf(m) : m \in Messages}
IsHead(b) == b \in Heads
IsTail(b) == b \in Tails

LastBlock == FirstOf[written + 1] - 1

Max2(a, b) == IF a > b THEN a ELSE b
Least(S) == CHOOSE x \in S : \A y \in S : x <= y

Slots == 0..(RingSize - 1)
Units == 1..MaxUnits
None == 0           \* no unit
Idle == -100        \* no decrement of m_iCount under way

-----------------------------------------------------------------------------
(* The queue begins with one entry of free units.                          *)
NewQueue == [size |-> QueueSize, count |-> 0, avail |-> 1]

Init ==
    /\ written = 0 /\ first = 1 /\ next = 1 /\ curr = 0 /\ lastAck = 1
    /\ sent = {} /\ requests = {} /\ expired = {}
    /\ ring = [i \in Slots |-> None] /\ start = 0 /\ ackPos = 0 /\ maxPos = -1
    /\ rcvCurr = 0 /\ rcvAck = 1 /\ rcvLoss = {}
    /\ flag = [u \in Units |-> 0] /\ holds = [u \in Units |-> 0]
    /\ queue = NewQueue
    /\ worker = [pc |-> "ready", len |-> 0]
    /\ reader = [pc |-> "out", p |-> -1, q |-> 0, pass |-> FALSE, left |-> 0,
                 out |-> <<>>, val |-> Idle]
    /\ delivered = <<>>

(***************************************************************************)
(* The sender.                                                             *)
(***************************************************************************)
(* sendmsg waits until the whole message has room.                         *)
SendMsg ==
    /\ written < Len(Length)
    /\ SndBufSize - (LastBlock + 1 - first) >= Length[written + 1]
    /\ written' = written + 1
    /\ UNCHANGED <<first, next, curr, lastAck, net, buffer, numbers, units, worker, reader,
                   delivered>>

PackNew ==
    /\ next <= LastBlock /\ Window >= (curr + 1) - lastAck + 1
    /\ curr' = curr + 1 /\ next' = next + 1
    /\ sent' = sent \cup {[seq |-> curr + 1, blk |-> next]}
    /\ UNCHANGED <<written, first, lastAck, requests, expired, buffer, numbers, units, worker, reader,
                   delivered>>

(* readData with an offset from the first block.                           *)
BlockAt(s) == LET b == first + (s - lastAck) IN IF b <= LastBlock THEN b ELSE 0

Missing(s) == s - rcvAck \in 0..(RingSize - 1) /\ ring[(ackPos + s - rcvAck) % RingSize] = None

Resend(s) ==
    /\ s \in Lost /\ s \in lastAck..curr /\ Missing(s)
    /\ sent' = sent \cup {[seq |-> s, blk |-> BlockAt(s)]}
    /\ UNCHANGED <<sender, requests, expired, buffer, numbers, units, worker, reader, delivered>>

(* The message of a lost packet is too old: the rest of it is skipped, and *)
(* the receiver is asked to drop it.  The numbers that are dropped and     *)
(* skipped are one and two more than the blocks.  Bound: one request for a *)
(* message.                                                                *)
Expire(s) ==
    /\ s \in Lost /\ s \in lastAck..curr /\ Cardinality(expired) < MaxDrops
    /\ \E m \in (MsgOf(BlockAt(s)) \cap Expiring) \ expired :
         LET b == BlockAt(s)
             to == s + (LastOf(m) - b + 1)      \* seqpair[1]
         IN  /\ requests' = requests \cup {[msg |-> m, from |-> s, to |-> to]}
             /\ expired' = expired \cup {m}
             /\ curr' = Max2(curr, to + 1)
             /\ next' = IF next \in (b + 1)..LastOf(m) THEN LastOf(m) + 1 ELSE next
    /\ UNCHANGED <<written, first, lastAck, sent, buffer, numbers, units, worker, reader,
                   delivered>>

TakeAck ==
    /\ rcvAck > lastAck
    /\ first' = first + (rcvAck - lastAck) /\ lastAck' = rcvAck
    /\ UNCHANGED <<written, next, curr, net, buffer, numbers, units, worker, reader, delivered>>

-----------------------------------------------------------------------------
(***************************************************************************)
(* CUnitQueue.  Unit u is in the entry (u - 1) \div QueueSize; the last    *)
(* one of each entry, the sentinel, is never given.                        *)
(***************************************************************************)
InUse(q) == Cardinality({u \in 1..q.size : flag[u] # 0})
EntryOf(u) == (u - 1) \div QueueSize
EntryStart(e) == e * QueueSize + 1

Increase(q) ==
    LET r == [q EXCEPT !.count = InUse(q)]
    IN  IF r.count * FullDen < r.size * FullNum \/ r.size = MaxUnits THEN r
        ELSE [r EXCEPT !.size = @ + QueueSize]

(* The order in which the units are looked at, from m_pAvailUnit on: those *)
(* behind it in its entry, the first of the entry, the other entries.      *)
Rank(q, u) ==
    LET entries == q.size \div QueueSize
        behind == (EntryOf(u) + entries - EntryOf(q.avail)) % entries
    IN  IF behind > 0 THEN (behind + 1) * QueueSize + (u - EntryStart(EntryOf(u)))
        ELSE IF u >= q.avail THEN u - q.avail ELSE QueueSize

LookedAt(q) ==
    {u \in 1..q.size :
        /\ u % QueueSize # 0
        /\ EntryOf(u) = EntryOf(q.avail) => u >= q.avail \/ u = EntryStart(EntryOf(u))}

IsFree(u) == flag[u] = 0

Grown == IF queue.count * FullDen > queue.size * FullNum THEN Increase(queue) ELSE queue

NextAvailUnit(q) ==
    LET free == {u \in LookedAt(q) : IsFree(u)}
        u == CHOOSE x \in free : \A y \in free : Rank(q, x) <= Rank(q, y)
    IN  IF q.count >= q.size THEN [unit |-> None, queue |-> q]
        ELSE IF free = {}
             THEN [unit |-> None,
                   queue |-> Increase([q EXCEPT !.avail = EntryStart(EntryOf(@))])]
             ELSE [unit |-> u, queue |-> [q EXCEPT !.avail = u]]

-----------------------------------------------------------------------------
(***************************************************************************)
(* The worker.                                                             *)
(***************************************************************************)
DataSize == (ackPos + RingSize - start) % RingSize
Room == RingSize - DataSize - 1

(* ++ m_iCount, while the reader may be in the middle of -- m_iCount: the  *)
(* one or the other is lost, or neither.                                   *)
Counted(q) ==
    /\ queue' = [q EXCEPT !.count = @ + 1]
    /\ IF reader.val = Idle THEN UNCHANGED reader
       ELSE \E v \in {reader.val, q.count + 1, q.count + 2} :
               reader' = [reader EXCEPT !.val = v]

SlotOf(offset) == (ackPos + offset) % RingSize

(* A packet that is early, late or there already is dropped, as is any that*)
(* finds no unit.                                                          *)
TakeData(d) ==
    LET offset == d.seq - rcvAck IN
    /\ worker.pc = "ready" /\ d \in sent
    /\ \E q \in {Grown} : \E got \in {NextAvailUnit(q)} :
       IF got.unit = None \/ offset \notin 0..(Room - 1) \/ ring[SlotOf(offset)] # None
       THEN /\ queue' = got.queue
            /\ UNCHANGED <<sent, ring, maxPos, rcvCurr, rcvLoss, flag, holds, reader>>
       ELSE /\ ring' = [ring EXCEPT ![SlotOf(offset)] = got.unit]
            /\ maxPos' = Max2(maxPos, offset)
            /\ flag' = [flag EXCEPT ![got.unit] = 1]
            /\ holds' = [holds EXCEPT ![got.unit] = d.blk]
            /\ Counted(got.queue)
            /\ sent' = {x \in sent : x.seq # d.seq}
            /\ rcvCurr' = Max2(rcvCurr, d.seq)
            /\ rcvLoss' = (rcvLoss \cup ((rcvCurr + 1)..(d.seq - 1))) \ {d.seq}
    /\ UNCHANGED <<sender, requests, expired, start, ackPos, rcvAck, worker, delivered>>

AckPoint == IF rcvLoss = {} THEN rcvCurr + 1 ELSE Least(rcvLoss)

(* ackData moves the end of what is acknowledged, then m_iMaxPos.          *)
AckTimer ==
    /\ worker.pc = "ready" /\ AckPoint > rcvAck
    /\ rcvAck' = AckPoint
    /\ ackPos' = SlotOf(AckPoint - rcvAck)
    /\ worker' = [pc |-> "shrink", len |-> AckPoint - rcvAck]
    /\ sent' = {x \in sent : x.seq >= AckPoint}
    /\ UNCHANGED <<sender, requests, expired, ring, start, maxPos, rcvCurr, rcvLoss, units, reader, delivered>>

AckShrinks ==
    /\ worker.pc = "shrink"
    /\ maxPos' = Max2(maxPos - worker.len, 0)
    /\ worker' = [worker EXCEPT !.pc = "signal"]
    /\ UNCHANGED <<sender, net, ring, start, ackPos, numbers, units, reader, delivered>>

(* The reader has m_RecvDataLock from its look at the buffer to its wait.  *)
NoLock == TRUE                          \* mutant: signals without the lock
LockIsFree == reader.pc \in {"out", "wait"}

AckSignals ==
    /\ worker.pc = "signal" /\ LockIsFree
    /\ worker' = [pc |-> "ready", len |-> 0]
    /\ reader' = IF reader.pc = "wait" THEN [reader EXCEPT !.pc = "out"] ELSE reader
    /\ UNCHANGED <<sender, net, buffer, numbers, units, delivered>>

(* dropMsg compares the whole word, in which only a packet in the middle   *)
(* of a message without inorder is the bare number.  Before the first      *)
(* packet its loop has no end: m_iMaxPos is -1.                            *)
Matches(m) ==
    {ring[(start + k) % RingSize] : k \in 0..(((DataSize + maxPos) % RingSize) - 1)}
        \cap {u \in Units : ~IsHead(holds[u]) /\ ~IsTail(holds[u])
                           /\ m \notin Ordered /\ MsgOf(holds[u]) = {m}}

TakeRequest(r) ==
    /\ worker.pc = "ready" /\ r \in requests /\ requests' = requests \ {r}
    /\ IF maxPos = -1
       THEN /\ worker' = [worker EXCEPT !.pc = "hung"]
            /\ UNCHANGED <<flag, rcvLoss, rcvCurr>>
       ELSE /\ flag' = [u \in Units |-> IF u \in Matches(r.msg) THEN 3 ELSE flag[u]]
            /\ rcvLoss' = rcvLoss \ (r.from..r.to)
            /\ rcvCurr' = IF r.from <= rcvCurr + 1 THEN Max2(rcvCurr, r.to) ELSE rcvCurr
            /\ UNCHANGED worker
    /\ UNCHANGED <<sender, sent, expired, buffer, rcvAck, holds, queue, reader, delivered>>

-----------------------------------------------------------------------------
(***************************************************************************)
(* The reader: recvmsg, readMsg, scanMsg.                                  *)
(***************************************************************************)
After(i) == (i + 1) % RingSize
At(pc) == reader.pc = pc /\ reader.val = Idle

(* A unit is given back: its count is read, and written a step later.      *)
Free(i) ==
    /\ ring' = [ring EXCEPT ![i] = None]
    /\ flag' = [flag EXCEPT ![ring[i]] = 0]
    /\ holds' = [holds EXCEPT ![ring[i]] = 0]

WritesCount ==
    /\ reader.val # Idle
    /\ queue' = [queue EXCEPT !.count = reader.val - 1]
    /\ reader' = [reader EXCEPT !.val = Idle]
    /\ UNCHANGED <<sender, net, buffer, numbers, flag, holds, worker, delivered>>

Valid(i) == ring[i] # None /\ flag[ring[i]] = 1

(* No hole from the first slot to the end of its message, or to the last   *)
(* acknowledged one.                                                       *)
WholeSoFar ==
    LET at(k) == (start + k) % RingSize
        tails == {k \in 0..(DataSize - 1) : Valid(at(k)) /\ IsTail(holds[ring[at(k)]])}
        end == IF tails = {} THEN DataSize - 1 ELSE Least(tails)
    IN  \A k \in 0..end : Valid(at(k))

(* recvmsg takes m_RecvDataLock and looks; it waits if the buffer is empty.*)
RecvMsg ==
    /\ At("out")
    /\ reader' = [reader EXCEPT !.pc = IF start = ackPos /\ maxPos = 0 THEN "wait" ELSE "skip"]
    /\ UNCHANGED <<sender, net, buffer, numbers, units, worker, delivered>>

(* Skip what cannot be read any more, one slot at a time.                  *)
Skips ==
    /\ At("skip") /\ start # ackPos
    /\ ~(Valid(start) /\ IsHead(holds[ring[start]]) /\ WholeSoFar)
    /\ start' = After(start)
    /\ IF ring[start] = None THEN UNCHANGED <<ring, flag, holds, reader>>
       ELSE Free(start) /\ reader' = [reader EXCEPT !.val = queue.count]
    /\ UNCHANGED <<sender, net, ackPos, maxPos, numbers, queue, worker, delivered>>

StartsScan ==
    /\ At("skip")
    /\ start = ackPos \/ (Valid(start) /\ IsHead(holds[ring[start]]) /\ WholeSoFar)
    /\ reader' = [reader EXCEPT !.pc = "scan", !.p = -1, !.q = start, !.pass = start = ackPos,
                                !.left = maxPos + DataSize]
    /\ UNCHANGED <<sender, net, buffer, numbers, units, worker, delivered>>

(* A round of the search for the first message.  p is its head; a message  *)
(* that is not acknowledged may be read only if it is not ordered.         *)
HeadAt(q, p) == IF ~Valid(q) THEN -1 ELSE IF IsHead(holds[ring[q]]) THEN q ELSE p
PassesAll(b) == TRUE                    \* mutant: getMsgOrderFlag is not asked
MayPass(b) == MsgOf(b) \cap Ordered = {}

Complete ==
    /\ Valid(reader.q) /\ IsTail(holds[ring[reader.q]])
    /\ HeadAt(reader.q, reader.p) # -1
    /\ ~reader.pass \/ MayPass(holds[ring[reader.q]])

Scans ==
    /\ At("scan") /\ reader.left >= 0 /\ ~Complete
    /\ LET q == After(reader.q)
       IN  reader' = [reader EXCEPT !.p = HeadAt(reader.q, @), !.q = q, !.left = @ - 1,
                                    !.pass = @ \/ q = ackPos]
    /\ UNCHANGED <<sender, net, buffer, numbers, units, worker, delivered>>

Finds ==
    /\ At("scan") /\ reader.left >= 0 /\ Complete
    /\ reader' = [reader EXCEPT !.pc = "copy", !.p = HeadAt(reader.q, @)]
    /\ UNCHANGED <<sender, net, buffer, numbers, units, worker, delivered>>

(* Nothing found, or a ring full of one message, of which readMsg then     *)
(* copies nothing: recvmsg waits.                                          *)
FindsNothing ==
    /\ At("scan") /\ reader.left < 0
    /\ reader' = [reader EXCEPT !.pc = "wait"]
    /\ start' = IF reader.p # -1 /\ After(reader.q) = reader.p /\ ~reader.pass THEN reader.p
                ELSE start
    /\ UNCHANGED <<sender, net, ring, ackPos, maxPos, numbers, units, worker, delivered>>

LeavesFlag(u) == flag                   \* mutant: a message read out of order stays valid
SetRead(u) == [flag EXCEPT ![u] = 2]

Copies ==
    /\ At("copy") /\ reader.p # After(reader.q)
    /\ LET r == [reader EXCEPT !.out = Append(@, holds[ring[reader.p]]), !.p = After(@)]
       IN \/ /\ ~reader.pass
             /\ Free(reader.p) /\ reader' = [r EXCEPT !.val = queue.count]
          \/ /\ reader.pass
             /\ flag' = SetRead(ring[reader.p])
             /\ reader' = r /\ UNCHANGED <<ring, holds>>
    /\ UNCHANGED <<sender, net, start, ackPos, maxPos, numbers, queue, worker, delivered>>

Returns ==
    /\ At("copy") /\ reader.p = After(reader.q)
    /\ start' = IF reader.pass THEN start ELSE After(reader.q)
    /\ delivered' = Append(delivered, reader.out)
    /\ reader' = [reader EXCEPT !.pc = "out", !.p = -1, !.q = 0, !.pass = FALSE, !.left = 0,
                                !.out = <<>>]
    /\ UNCHANGED <<sender, net, ring, ackPos, maxPos, numbers, units, worker>>

-----------------------------------------------------------------------------
SenderNext == SendMsg \/ PackNew \/ TakeAck \/ (\E s \in lastAck..curr : Resend(s) \/ Expire(s))

WorkerNext ==
    \/ \E d \in sent : TakeData(d)
    \/ AckTimer \/ AckShrinks \/ AckSignals
    \/ \E r \in requests : TakeRequest(r)

ReaderNext ==
    \/ RecvMsg \/ Skips \/ StartsScan \/ Scans \/ Finds \/ FindsNothing
    \/ Copies \/ Returns \/ WritesCount

Next == SenderNext \/ WorkerNext \/ ReaderNext

(* A packet that is next in order is taken.                                *)
TakesNext == \E d \in sent : d.seq = rcvAck /\ TakeData(d)

(* The threads run (of the sender's some one), a packet that is sent again *)
(* and again arrives, and who waits for m_RecvDataLock gets it in the end. *)
Fairness ==
    /\ WF_vars(SendMsg \/ PackNew \/ TakeAck)
    /\ SF_vars(TakesNext) /\ WF_vars(AckTimer \/ AckShrinks) /\ SF_vars(AckSignals)
    /\ WF_vars(ReaderNext)

Spec == Init /\ [][Next]_vars /\ Fairness

-----------------------------------------------------------------------------
(* Every variable has its type.                                            *)
TypeOK ==
    /\ written \in 0..Len(Length) /\ {first, next, curr, lastAck} \subseteq Nat
    /\ sent \subseteq [seq : Nat, blk : Nat] /\ requests \subseteq [msg : Messages, from : Nat, to : Nat]
    /\ expired \subseteq Expiring
    /\ ring \in [Slots -> Units \cup {None}] /\ {start, ackPos} \subseteq Slots
    /\ maxPos \in -1..(RingSize - 1)
    /\ {rcvCurr, rcvAck} \subseteq Nat /\ rcvLoss \subseteq Nat
    /\ flag \in [Units -> 0..3] /\ holds \in [Units -> Nat]
    /\ queue.size \in 1..MaxUnits /\ queue.avail \in Units
    /\ worker.pc \in {"ready", "shrink", "signal", "hung"}
    /\ reader.pc \in {"out", "skip", "scan", "copy", "wait"}

DeliveredAt(m) == {i \in DOMAIN delivered : delivered[i] = Packets[m]}

(* No message before m was given up.  Behind one that was, the numbers of  *)
(* blocks no longer go together (Expire; core.cpp:2020, 2027-2028): a      *)
(* number may be sent again with another block than it had.                *)
Undisturbed(m) == \A k \in 1..(m - 1) : k \notin expired

(* What recvmsg returns is a message, all of it, and no message twice;     *)
(* except behind a message that was given up, whose successors may come in *)
(* part and again.                                                         *)
WholeMessages ==
    /\ \A i \in DOMAIN delivered :
          \/ \E m \in Messages : i \in DeliveredAt(m)
          \/ \A j \in DOMAIN delivered[i] : \E k \in expired : delivered[i][j] > LastOf(k)
    /\ \A m \in Messages : Undisturbed(m) => Cardinality(DeliveredAt(m)) <= 1

(* An ordered message comes after all earlier ones, up to the first that   *)
(* was given up; it may pass those behind that, against t-msg.htm:32.      *)
OrderKept ==
    \A m \in Ordered : \A i \in DeliveredAt(m) :
        \A k \in 1..(m - 1) :
            Undisturbed(k + 1) => \E j \in DeliveredAt(k) : j < i

(* As long as none is dropped every message is delivered.                  *)
AllDelivered == <>(expired # {} \/ \A m \in Messages : DeliveredAt(m) # {})

=============================================================================
