---------------------------- MODULE UdtReceiver ----------------------------
(***************************************************************************)
(* The receiver's two containers, as they are stored: the ring of units of *)
(* CRcvBuffer (udt4/src/buffer.cpp) and the list of lost numbers of        *)
(* CRcvLossList (list.cpp), a linked list whose nodes sit in arrays at the *)
(* distance of their first number from the head.  UdtTransfer has a        *)
(* function of numbers and a set in their place.                           *)
(*                                                                         *)
(*   receive-queue thread   processData, sendCtrl (ACK)                    *)
(*   application            recv: readBuffer, and recvfile:                *)
(*                          readBufferToFile, unit by unit                 *)
(*                                                                         *)
(* The two threads share the ring without a lock.  The application frees   *)
(* units while it reads and moves m_iStartPos when it is done; the other   *)
(* thread computes the room left from m_iStartPos, which it reads twice.   *)
(* Sequence numbers are those of the circle.                               *)
(***************************************************************************)
EXTENDS SeqNo, FiniteSets

CONSTANTS
    RcvBufSize,     \* m_iRcvBufSize: slots of the ring
    LossListSize,   \* m_iFlightFlagSize: nodes of the loss list
    ISNs,           \* initial sequence numbers of the peer
    Lens,           \* bytes of a packet
    ReadSizes,      \* bytes the application asks for at once
    Ahead,          \* bound: packets after m_iRcvLastAck that may arrive
    Late,           \* bound: how old, in packets, an arriving one may be
    Unread,         \* bound: packets handed over and not yet read when the
                    \* next are handed over (RcvBufSize is no bound)
    NULL            \* an empty slot

ASSUME ReceiverAssumption ==
    /\ RcvBufSize \in Nat /\ RcvBufSize >= 2
    /\ LossListSize \in Nat /\ LossListSize >= RcvBufSize
    /\ ISNs \subseteq SeqNos /\ NULL \notin [seq : SeqNos, len : Lens]
    /\ Lens \subseteq Nat \ {0} /\ ReadSizes \subseteq Nat \ {0}
    /\ Ahead \in Nat /\ Late \in Nat /\ Unread \in Nat
    /\ RcvBufSize <= SeqNoTH /\ Ahead + 1 < SeqNoTH /\ Late < SeqNoTH

VARIABLES
    rcvLastAck, rcvCurrSeqNo,
    unit,           \* m_pUnit
    startPos,       \* m_iStartPos
    lastAckPos,     \* m_iLastAckPos
    maxPos,         \* m_iMaxPos
    notch,          \* m_iNotch: bytes read of the first unit
    loss,           \* the CRcvLossList
    \* receive-queue thread
    rcvPc,          \* "room": inside getRcvDataSize, between its two reads of
                    \* m_iStartPos; else "idle"
    packet,         \* the data packet it handles
    ahead,          \* m_iLastAckPos >= m_iStartPos at the first read
    \* application
    readPc,         \* "reading": in the loop of readBuffer; else "idle"
    p, lastack, rs, \* its local variables
    \* ghosts
    held,           \* packets stored and not yet freed by the application
    nextRead,       \* the packet the application is to read next
    readFrom        \* its byte that is to be read next

rcvVars  == <<rcvLastAck, rcvCurrSeqNo, lastAckPos, maxPos, loss>>
thrVars  == <<rcvPc, packet, ahead>>
readVars == <<startPos, notch, readPc, p, lastack, rs, nextRead, readFrom>>
vars == <<rcvVars, thrVars, readVars, unit, held>>

Slots == 0..(RcvBufSize - 1)
Nodes == 0..(LossListSize - 1)

(* The number d places after s (before it, if d is negative).              *)
Shift(s, d) == (s + d) % (MaxSeqNo + 1)

-----------------------------------------------------------------------------
(***************************************************************************)
(* CRcvLossList.  A node i holds data1[i]..data2[i], or data1[i] alone     *)
(* when data2[i] is -1; data1[i] = -1 says that it is empty.  The links of *)
(* an empty node are Unset: what the code leaves in them (or never wrote)  *)
(* must not be followed, and following Unset, which is no node, is an      *)
(* error of the model.                                                     *)
(***************************************************************************)
Unset == -2

EmptyLoss ==
    [data1 |-> [i \in Nodes |-> -1], data2 |-> [i \in Nodes |-> -1],
     next |-> [i \in Nodes |-> Unset], prior |-> [i \in Nodes |-> Unset],
     head |-> -1, tail |-> -1, length |-> 0]

LossPos(L, seq) == (L.head + SeqOff(L.data1[L.head], seq)) % LossListSize

(* insert(seqno1, seqno2): the numbers follow all those of the list.       *)
LossInsert(L, seq1, seq2) ==
    LET loc == LossPos(L, seq1)
        Put(i, M) == [M EXCEPT !.data1[i] = seq1, !.next[i] = -1, !.tail = i,
                               !.data2[i] = IF seq2 # seq1 THEN seq2 ELSE @,
                               !.length = @ + SeqLen(seq1, seq2)]
    IN
    IF L.length = 0
    THEN Put(0, [L EXCEPT !.head = 0, !.prior[0] = -1])
    ELSE IF L.data2[L.tail] # -1 /\ IncSeq(L.data2[L.tail]) = seq1
    THEN [L EXCEPT !.data2[L.tail] = seq2, !.length = @ + SeqLen(seq1, seq2)]
    ELSE Put(loc, [L EXCEPT !.next[L.tail] = loc, !.prior[loc] = L.tail])

LossUnlinkKeepsTail(L, i) ==    \* mutant: m_iTail stays at a removed node
    LET before == L.prior[i]
        after == L.next[i]
        M == [L EXCEPT !.data1[i] = -1, !.next[i] = Unset, !.prior[i] = Unset,
                       !.length = @ - 1]
    IN
    IF L.head = i
    THEN [M EXCEPT !.head = after,
                   !.prior = IF after # -1 THEN [@ EXCEPT ![after] = -1] ELSE @]
    ELSE [M EXCEPT !.next[before] = after,
                   !.prior = IF after # -1 THEN [@ EXCEPT ![after] = before] ELSE @]

(* The node at i is the single number to remove.                           *)
LossUnlink(L, i) ==
    LET before == L.prior[i]
        after == L.next[i]
        M == [L EXCEPT !.data1[i] = -1, !.next[i] = Unset, !.prior[i] = Unset,
                       !.length = @ - 1]
    IN
    IF L.head = i
    THEN [M EXCEPT !.head = after,
                   !.prior = IF after # -1 THEN [@ EXCEPT ![after] = -1] ELSE @]
    ELSE [M EXCEPT !.next[before] = after,
                   !.prior = IF after # -1 THEN [@ EXCEPT ![after] = before] ELSE @,
                   !.tail = IF after = -1 THEN before ELSE @]

(* The node at i starts with the number to remove: its rest moves on.      *)
LossShift(L, i) ==
    LET j == (i + 1) % LossListSize
        rest == IncSeq(L.data1[i])
        M == [L EXCEPT
                !.data1 = [@ EXCEPT ![j] = rest, ![i] = -1],
                !.data2 = [@ EXCEPT ![j] = IF SeqCmp(L.data2[i], rest) > 0
                                           THEN L.data2[i] ELSE L.data2[j],
                                    ![i] = -1],
                !.next = [@ EXCEPT ![j] = L.next[i], ![i] = Unset],
                !.prior = [@ EXCEPT ![j] = L.prior[i], ![i] = Unset],
                !.length = @ - 1]
        H == IF L.head = i THEN [M EXCEPT !.head = j]
             ELSE [M EXCEPT !.next[L.prior[i]] = j]
    IN  IF L.tail = i THEN [H EXCEPT !.tail = j]
        ELSE [H EXCEPT !.prior[L.next[i]] = j]

(* The number is the last one, or in the middle, of the node at i.         *)
LossCut(L, i, seq) ==
    [L EXCEPT !.data2[i] = IF seq = IncSeq(L.data1[i]) THEN -1 ELSE DecSeq(seq),
              !.length = @ - 1]

LossSplit(L, i, seq) ==
    LET j == (LossPos(L, seq) + 1) % LossListSize
        rest == IncSeq(seq)
        C == LossCut(L, i, seq)
        M == [C EXCEPT !.data1[j] = rest,
                       !.data2[j] = IF SeqCmp(L.data2[i], rest) > 0
                                    THEN L.data2[i] ELSE @,
                       !.next = [@ EXCEPT ![j] = L.next[i], ![i] = j],
                       !.prior[j] = i]
    IN  IF L.tail = i THEN [M EXCEPT !.tail = j]
        ELSE [M EXCEPT !.prior[L.next[i]] = j]

(* The closest node at or before loc that is not empty.                    *)
NodeBefore(L, loc) ==
    LET back(i) == (loc - i) % LossListSize
    IN  CHOOSE i \in Nodes :
            /\ L.data1[i] # -1
            /\ \A j \in Nodes : L.data1[j] # -1 => back(i) <= back(j)

(* remove(seqno)                                                           *)
LossRemove(L, seq) ==
    LET loc == LossPos(L, seq)
        i == NodeBefore(L, loc)
    IN
    IF L.length = 0 THEN L
    ELSE IF SeqOff(L.data1[L.head], seq) < 0 THEN L
    ELSE IF L.data1[loc] = seq
    THEN IF L.data2[loc] = -1 THEN LossUnlink(L, loc) ELSE LossShift(L, loc)
    ELSE IF L.data2[i] = -1 \/ SeqCmp(seq, L.data2[i]) > 0 THEN L
    ELSE IF seq = L.data2[i] THEN LossCut(L, i, seq)
    ELSE LossSplit(L, i, seq)

FirstLostSeq(L) == IF L.length = 0 THEN -1 ELSE L.data1[L.head]

-----------------------------------------------------------------------------
(***************************************************************************)
(* The connection as connect leaves it.                                    *)
(***************************************************************************)
Init ==
    /\ rcvLastAck \in ISNs /\ rcvCurrSeqNo = rcvLastAck - 1
    /\ unit = [i \in Slots |-> NULL]
    /\ startPos = 0 /\ lastAckPos = 0 /\ maxPos = -1 /\ notch = 0
    /\ loss = EmptyLoss
    /\ rcvPc = "idle" /\ packet = NULL /\ ahead = TRUE
    /\ readPc = "idle" /\ p = 0 /\ lastack = 0 /\ rs = 0
    /\ held = {} /\ nextRead = rcvLastAck /\ readFrom = 0

(***************************************************************************)
(* The receive-queue thread.                                               *)
(***************************************************************************)
(* processData: a packet older than m_iRcvLastAck is dropped; for another  *)
(* one getRcvDataSize compares the two positions.                          *)
DataArrives(pkt) ==
    /\ rcvPc = "idle"
    /\ SeqOff(rcvLastAck, pkt.seq) >= 0
    /\ rcvPc' = "room" /\ packet' = pkt
    /\ ahead' = (lastAckPos >= startPos)
    /\ UNCHANGED <<rcvVars, readVars, unit, held>>

DataSizeNoWrap == lastAckPos - startPos \* mutant: the wrapped branch forgotten

(* getRcvDataSize after its second read, getAvailBufSize.                  *)
DataSize == IF ahead THEN lastAckPos - startPos
            ELSE RcvBufSize + lastAckPos - startPos
AvailBufSize == RcvBufSize - DataSize - 1

SlotFromStart(offset) ==        \* mutant: counted from the packet to read
    (startPos + offset) % RcvBufSize

(* The slot of a packet that comes offset packets after m_iRcvLastAck.     *)
SlotOf(offset) == (lastAckPos + offset) % RcvBufSize

(* ... addData; then loss detection: the numbers skipped are lost, a       *)
(* number that is not the newest is found again.                           *)
DataHandled ==
    LET seq == packet.seq
        offset == SeqOff(rcvLastAck, seq)
        pos == SlotOf(offset)
        stored == offset < AvailBufSize /\ unit[pos] = NULL
        skipped == SeqCmp(seq, IncSeq(rcvCurrSeqNo)) > 0
        newest == SeqCmp(seq, rcvCurrSeqNo) > 0
        noticed == IF skipped
                   THEN LossInsert(loss, IncSeq(rcvCurrSeqNo), DecSeq(seq)) ELSE loss
    IN
    /\ rcvPc = "room"
    /\ rcvPc' = "idle" /\ packet' = NULL /\ ahead' = TRUE
    /\ maxPos' = IF offset < AvailBufSize /\ offset > maxPos THEN offset ELSE maxPos
    /\ IF stored
       THEN /\ unit' = [unit EXCEPT ![pos] = packet]
            /\ held' = held \cup {seq}
            /\ rcvCurrSeqNo' = IF newest THEN seq ELSE rcvCurrSeqNo
            /\ loss' = IF newest THEN noticed ELSE LossRemove(noticed, seq)
       ELSE UNCHANGED <<unit, held, rcvCurrSeqNo, loss>>
    /\ UNCHANGED <<rcvLastAck, lastAckPos, readVars>>

AckedPos(acksize) == (lastAckPos + acksize) % RcvBufSize

(* sendCtrl(2), a full ACK: what has come without a gap is handed over to  *)
(* the application (ackData).                                              *)
SendAck ==
    LET ack == IF loss.length = 0 THEN IncSeq(rcvCurrSeqNo) ELSE FirstLostSeq(loss)
        acksize == SeqOff(rcvLastAck, ack)
    IN
    /\ rcvPc = "idle"
    /\ SeqCmp(ack, rcvLastAck) > 0
    /\ SeqOff(nextRead, rcvLastAck) <= Unread
    /\ rcvLastAck' = ack
    /\ lastAckPos' = AckedPos(acksize)
    /\ maxPos' = IF maxPos - acksize < 0 THEN 0 ELSE maxPos - acksize
    /\ UNCHANGED <<rcvCurrSeqNo, loss, thrVars, readVars, unit, held>>

(***************************************************************************)
(* The application: readBuffer and readBufferToFile.                       *)
(***************************************************************************)
ReadStart(len) ==
    /\ readPc = "idle" /\ startPos # lastAckPos
    /\ readPc' = "reading"
    /\ p' = startPos /\ lastack' = lastAckPos /\ rs' = len
    /\ UNCHANGED <<rcvVars, thrVars, startPos, notch, nextRead, readFrom, unit, held>>

Reading == readPc = "reading" /\ p # lastack /\ rs > 0

NotchKept(ended) == IF ended THEN notch ELSE notch + rs \* mutant: not reset

NotchAfter(ended) == IF ended THEN 0 ELSE notch + rs

(* One turn of the loop: the unit is freed when it has been read to its    *)
(* end.                                                                    *)
ReadUnit ==
    LET left == unit[p].len - notch
        unitsize == IF left > rs THEN rs ELSE left
        ended == rs > unitsize \/ rs = left
    IN
    /\ Reading
    /\ IF ended
       THEN /\ unit' = [unit EXCEPT ![p] = NULL]
            /\ p' = IF p + 1 = RcvBufSize THEN 0 ELSE p + 1
            /\ held' = held \ {nextRead}
            /\ nextRead' = Shift(nextRead, 1) /\ readFrom' = 0
       ELSE /\ readFrom' = readFrom + unitsize
            /\ UNCHANGED <<unit, p, held, nextRead>>
    /\ notch' = NotchAfter(ended)
    /\ rs' = rs - unitsize
    /\ UNCHANGED <<rcvVars, thrVars, startPos, readPc, lastack>>

ReadEnd ==
    /\ readPc = "reading" /\ ~Reading
    /\ startPos' = p
    /\ readPc' = "idle" /\ p' = 0 /\ lastack' = 0 /\ rs' = 0
    /\ UNCHANGED <<rcvVars, thrVars, notch, nextRead, readFrom, unit, held>>

Arrivals == [seq : {Shift(rcvLastAck, d) : d \in (-Late)..Ahead}, len : Lens]

Next ==
    \/ \E pkt \in Arrivals : DataArrives(pkt)
    \/ DataHandled
    \/ SendAck
    \/ \E len \in ReadSizes : ReadStart(len)
    \/ ReadUnit
    \/ ReadEnd

Spec == Init /\ [][Next]_vars

-----------------------------------------------------------------------------
(* Numbers are on the circle, positions in the ring, nodes in the list.    *)
TypeOK ==
    /\ rcvLastAck \in SeqNos /\ rcvCurrSeqNo \in -1..MaxSeqNo
    /\ unit \in [Slots -> [seq : SeqNos, len : Lens] \cup {NULL}]
    /\ startPos \in Slots /\ lastAckPos \in Slots /\ p \in Slots /\ lastack \in Slots
    /\ maxPos \in -1..(RcvBufSize - 1) /\ notch \in Nat
    /\ loss.data1 \in [Nodes -> SeqNos \cup {-1}]
    /\ loss.data2 \in [Nodes -> SeqNos \cup {-1}]
    /\ loss.next \in [Nodes -> Nodes \cup {-1, Unset}]
    /\ loss.prior \in [Nodes -> Nodes \cup {-1, Unset}]
    /\ loss.head \in Nodes \cup {-1} /\ loss.tail \in Nodes \cup {-1}
    /\ loss.length \in 0..RcvBufSize
    /\ rcvPc \in {"idle", "room"} /\ ahead \in BOOLEAN
    /\ packet \in [seq : SeqNos, len : Lens] \cup {NULL}
    /\ readPc \in {"idle", "reading"} /\ rs \in Nat
    /\ held \subseteq SeqNos /\ nextRead \in SeqNos /\ readFrom \in Nat

(* How many packets s comes after the last acknowledged one.               *)
Off(s) == SeqOff(rcvLastAck, s)

(* What is missing between the last acknowledged and the newest packet.    *)
Holes == {s \in SeqNos : Off(s) \in 0..Off(rcvCurrSeqNo) /\ s \notin held}

Used == {i \in Nodes : loss.data1[i] # -1}
LastOf(i) == IF loss.data2[i] = -1 THEN loss.data1[i] ELSE loss.data2[i]
Covers(i) == {s \in SeqNos : Off(loss.data1[i]) <= Off(s) /\ Off(s) <= Off(LastOf(i))}
Precedes(i, j) == Off(LastOf(i)) < Off(loss.data1[j])

(* The links run through the nodes in the order of their numbers, both     *)
(* ways, each node is where the next insert or remove will look for it,    *)
(* and a node that is not in use is clear.                                 *)
LinksAreOrder ==
    /\ \A i \in Nodes \ Used :
        loss.data2[i] = -1 /\ loss.next[i] = Unset /\ loss.prior[i] = Unset
    /\ loss.length > 0 => loss.head \in Used /\ loss.tail \in Used
    /\ \A i \in Used :
        LET after  == {j \in Used : Precedes(i, j)}
            before == {j \in Used : Precedes(j, i)}
        IN
        /\ i = LossPos(loss, loss.data1[i])
        /\ IF after = {} THEN i = loss.tail /\ loss.next[i] = -1
           ELSE loss.next[i] \in after
                /\ \A j \in after : j = loss.next[i] \/ Precedes(loss.next[i], j)
        /\ IF before = {} THEN i = loss.head /\ loss.prior[i] = -1
           ELSE loss.prior[i] \in before /\ loss.next[loss.prior[i]] = i

(* In whatever order packets arrive, the nodes of the loss list hold the   *)
(* missing numbers, each once, in order, and the length counts them; NAKs  *)
(* and ACKs are made from both.                                            *)
ListIsHoles ==
    /\ UNION {Covers(i) : i \in Used} = Holes
    /\ \A i, j \in Used : i # j => Precedes(i, j) \/ Precedes(j, i)
    /\ loss.length = Cardinality(Holes)
    /\ LinksAreOrder

(* Every packet that was taken and not yet read is in the ring, where its  *)
(* distance from the packet to read puts it, and nothing else is: nothing  *)
(* was overwritten or put over an unread one while the ring went round.    *)
RingIsStream ==
    LET first == IF readPc = "reading" THEN p ELSE startPos
        At(d) == (first + d) % RcvBufSize
    IN  \A d \in 0..(RcvBufSize - 1) :
            LET s == Shift(nextRead, d)
            IN  IF s \in held THEN unit[At(d)] # NULL /\ unit[At(d)].seq = s
                ELSE unit[At(d)] = NULL

(* The application reads the bytes of the stream in their order: when it   *)
(* goes on there is a unit, it is the next one, and its first byte not yet *)
(* read is the next one.                                                   *)
ReadsTheNextByte ==
    Reading => /\ unit[p] # NULL /\ unit[p].seq = nextRead
               /\ notch = readFrom /\ notch < unit[p].len

(* While the application frees and moves, the other thread's two reads of  *)
(* m_iStartPos never make it see more room than there is.                  *)
RoomNeverOverstated ==
    rcvPc = "room" => AvailBufSize <= RcvBufSize - 1 - SeqOff(nextRead, rcvLastAck)

=============================================================================
