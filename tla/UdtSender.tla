----------------------------- MODULE UdtSender -----------------------------
(***************************************************************************)
(* The sender's two containers, as they are stored: the circular list of   *)
(* blocks of CSndBuffer (udt4/src/buffer.cpp), which grows, and the list   *)
(* of lost numbers of CSndLossList (list.cpp), a linked list whose nodes   *)
(* sit in arrays at the distance of their first number from the head.      *)
(* UdtTransfer has two positions and a set in their place.                 *)
(*                                                                         *)
(*   application            send: addBuffer                                *)
(*   send-queue thread      packData                                       *)
(*   receive-queue thread   processCtrl (ACK, NAK), checkTimers (EXP)      *)
(*                                                                         *)
(* addBuffer fills blocks, moves m_pLastBlock and then counts, while the   *)
(* others send and free what it filled.  Sequence numbers are those of the *)
(* circle; a block's payload is the number of its packet.                  *)
(***************************************************************************)
EXTENDS SeqNo, FiniteSets

CONSTANTS
    UnitSize,       \* blocks of the first buffer and of each that is added
    MaxBlocks,      \* bound: blocks there are to allocate
    SndBufSize,     \* m_iSndBufSize
    Chunks,         \* packets in one call of send
    Window,         \* packets in flight at most
    LossListSize,   \* nodes of the loss list: twice the flow window
    ISNs,           \* initial sequence numbers
    NULL            \* a block not filled yet

ASSUME SenderAssumption ==
    /\ UnitSize \in Nat /\ UnitSize >= 1
    /\ SndBufSize \in Nat /\ SndBufSize >= 1
    /\ Chunks \subseteq 1..SndBufSize
    /\ MaxBlocks \in Nat /\ MaxBlocks >= UnitSize
    /\ Window \in Nat /\ Window >= 1
    /\ LossListSize = 2 * Window
    /\ 2 * SndBufSize < SeqNoTH
    /\ ISNs \subseteq SeqNos

VARIABLES
    \* CSndBuffer
    next,           \* m_pNext of each block
    payload,        \* what each block holds
    size,           \* m_iSize: blocks in the circle
    first, curr, last,  \* m_pFirstBlock, m_pCurrBlock, m_pLastBlock
    count,          \* m_iCount
    toCount,        \* blocks filled by addBuffer and not counted yet
    \* CUDT
    sndLastDataAck, sndCurrSeqNo,
    loss,           \* the CSndLossList
    packArg,        \* the number packData took from the loss list, or -1
    \* ghosts
    lost,           \* the numbers reported lost and not sent again
    written,        \* the number of the next packet to be written
    unfilled        \* blocks counted for a file that had no more data for them

bufVars  == <<next, payload, size, first, curr, last, count, toCount, written, unfilled>>
lossVars == <<loss, lost>>
vars == <<bufVars, lossVars, sndLastDataAck, sndCurrSeqNo, packArg>>

Blocks == 1..MaxBlocks
Nodes  == 0..(LossListSize - 1)

Shift(s, d) == (s + d) % (MaxSeqNo + 1)

-----------------------------------------------------------------------------
(***************************************************************************)
(* CSndLossList.  A node i holds data1[i]..data2[i], or data1[i] alone     *)
(* when data2[i] is -1; data1[i] = -1 says that it is empty.  The link of  *)
(* an empty node is Unset: what the code leaves there (or never wrote)     *)
(* must not be followed, and Unset is no node.                             *)
(***************************************************************************)
Unset == -2

EmptyLoss ==
    [data1 |-> [i \in Nodes |-> -1], data2 |-> [i \in Nodes |-> -1],
     next |-> [i \in Nodes |-> Unset],
     head |-> -1, length |-> 0, lastInsertPos |-> -1]

LossPos(L, seq) ==
    (L.head + SeqOff(L.data1[L.head], seq) + LossListSize) % LossListSize

(* The node where the search from i for a place for seq ends: the last one *)
(* on the way whose successor does not start before seq.                   *)
SearchFrom(L, i, seq) ==
    LET at[k \in 0..LossListSize] ==
            IF k = 0 THEN i
            ELSE LET j == at[k - 1]
                 IN  IF L.next[j] # -1 /\ SeqCmp(L.data1[L.next[j]], seq) < 0
                     THEN L.next[j] ELSE j
    IN  at[LossListSize]

(* A new node for seq1..seq2 at loc.                                       *)
NewNode(L, loc, seq1, seq2) ==
    [L EXCEPT !.data1[loc] = seq1,
              !.data2[loc] = IF seq2 # seq1 THEN seq2 ELSE @,
              !.lastInsertPos = loc,
              !.length = @ + SeqLen(seq1, seq2)]

(* The node at i, which holds seq1, is to reach up to seq2.                *)
Extend(L, i, seq2) ==
    LET end == IF L.data2[i] = -1 THEN L.data1[i] ELSE L.data2[i]
    IN  [L EXCEPT !.data2[i] = seq2, !.length = @ + SeqLen(end, seq2) - 1]

(* Whether the node at i reaches as far as seq2 already.                   *)
Reaches(L, i, seq2) ==
    IF L.data2[i] = -1 THEN seq2 = L.data1[i] ELSE SeqCmp(seq2, L.data2[i]) <= 0

(* The node at loc absorbs its successors as far as they overlap with it.  *)
Coalesce(L, loc) ==
    LET Meets(M) ==
            /\ M.next[loc] # -1 /\ M.data2[loc] # -1
            /\ SeqCmp(M.data1[M.next[loc]], IncSeq(M.data2[loc])) <= 0
        Absorb(M) ==
            LET i == M.next[loc]
                end == M.data2[loc]
                both ==     \* numbers that the two nodes have in common
                    IF M.data2[i] # -1
                    THEN IF SeqCmp(M.data2[i], end) > 0
                         THEN IF SeqCmp(end, M.data1[i]) >= 0
                              THEN SeqLen(M.data1[i], end) ELSE 0
                         ELSE SeqLen(M.data1[i], M.data2[i])
                    ELSE IF M.data1[i] = IncSeq(end) THEN 0 ELSE 1
                newEnd ==
                    IF M.data2[i] # -1
                    THEN IF SeqCmp(M.data2[i], end) > 0 THEN M.data2[i] ELSE end
                    ELSE IF M.data1[i] = IncSeq(end) THEN M.data1[i] ELSE end
            IN  [M EXCEPT !.data1[i] = -1,
                          !.data2 = [@ EXCEPT ![loc] = newEnd, ![i] = -1],
                          !.next = [@ EXCEPT ![loc] = M.next[i], ![i] = Unset],
                          !.length = @ - both]
        merged[k \in 0..LossListSize] ==
            IF k = 0 THEN L
            ELSE LET M == merged[k - 1] IN IF Meets(M) THEN Absorb(M) ELSE M
    IN  merged[LossListSize]

(* insert(seqno1, seqno2)                                                  *)
LossInsert(L, seq1, seq2) ==
    LET offset == SeqOff(L.data1[L.head], seq1)
        loc == LossPos(L, seq1)
        start == IF L.lastInsertPos # -1 /\ SeqCmp(L.data1[L.lastInsertPos], seq1) < 0
                 THEN L.lastInsertPos ELSE L.head
        i == SearchFrom(L, start, seq1)
        At(j) == [L EXCEPT !.lastInsertPos = j]
        Into(j) ==      \* the numbers belong to the node at j
            IF Reaches(L, j, seq2) THEN At(j) ELSE Coalesce(Extend(At(j), j, seq2), j)
    IN
    IF L.length = 0
    THEN [NewNode(L, 0, seq1, seq2) EXCEPT !.head = 0, !.next[0] = -1]
    ELSE IF offset < 0
    THEN Coalesce([NewNode(L, loc, seq1, seq2) EXCEPT !.next[loc] = L.head, !.head = loc], loc)
    ELSE IF L.data1[loc] = seq1 THEN Into(loc)
    ELSE IF L.data2[i] = -1 \/ SeqCmp(L.data2[i], seq1) < 0
    THEN Coalesce([NewNode(L, loc, seq1, seq2) EXCEPT
                      !.next = [@ EXCEPT ![loc] = L.next[i], ![i] = loc]], loc)
    ELSE Into(i)

(* The node at i moves its numbers after seq to the next place.            *)
MoveRest(L, i, seq) ==
    LET j == (i + 1) % LossListSize
        rest == IncSeq(seq)
    IN  [L EXCEPT !.data1[j] = rest,
                  !.data2[j] = IF SeqCmp(L.data2[i], rest) > 0 THEN L.data2[i] ELSE @,
                  !.next[j] = L.next[i]]

Clear(L, i) ==
    [L EXCEPT !.data1[i] = -1, !.data2[i] = -1, !.next[i] = Unset]

(* getLostSeq: the first number leaves the list.                           *)
FirstLost(L) == IF L.length = 0 THEN -1 ELSE L.data1[L.head]

LossTakeKeepsHint(L) ==         \* mutant: m_iLastInsertPos stays at the head
    LET h == L.head
        M == [L EXCEPT !.length = @ - 1]
    IN  IF L.data2[h] = -1
        THEN Clear([M EXCEPT !.head = L.next[h]], h)
        ELSE Clear([MoveRest(M, h, L.data1[h]) EXCEPT !.head = (h + 1) % LossListSize], h)

LossTake(L) ==
    LET h == L.head
        M == [L EXCEPT !.length = @ - 1,
                       !.lastInsertPos = IF @ = h THEN -1 ELSE @]
    IN  IF L.data2[h] = -1
        THEN Clear([M EXCEPT !.head = L.next[h]], h)
        ELSE Clear([MoveRest(M, h, L.data1[h]) EXCEPT !.head = (h + 1) % LossListSize], h)

(* The nodes from the head to the node at stop, without it, are removed.   *)
ClearUpTo(L, stop) ==
    LET left[k \in 0..LossListSize] ==      \* <<node, list>> after k nodes
            IF k = 0 THEN <<L.head, L>>
            ELSE LET before == left[k - 1]
                     h == before[1]
                     M == before[2]
                     n == IF M.data2[h] = -1 THEN 1 ELSE SeqLen(M.data1[h], M.data2[h])
                 IN  IF h = stop THEN before
                     ELSE <<M.next[h],
                            [Clear(M, h) EXCEPT
                               !.length = @ - n,
                               !.lastInsertPos = IF @ = h THEN -1 ELSE @]>>
    IN  [left[LossListSize][2] EXCEPT !.head = stop]

(* remove(seqno): all numbers up to seqno leave the list.                  *)
LossRemove(L, seq) ==
    LET offset == SeqOff(L.data1[L.head], seq)
        loc == LossPos(L, seq)
        after == (loc + 1) % LossListSize
        i == SearchFrom(L, L.head, seq)
        \* [3, 7] at loc becomes [] at loc, which is removed, and [4, 7]
        Started == [MoveRest(L, loc, seq) EXCEPT !.data2[loc] = -1, !.next[loc] = after]
        \* [3, 7] at i is cut in two after seq
        Middle == [L EXCEPT
                     !.data1[after] = IncSeq(seq),
                     !.data2 = [@ EXCEPT ![after] = IF SeqCmp(L.data2[i], IncSeq(seq)) > 0
                                                    THEN L.data2[i] ELSE @,
                                         ![i] = seq],
                     !.next = [@ EXCEPT ![after] = L.next[i], ![i] = after]]
    IN
    IF L.length = 0 \/ offset < 0 THEN L
    ELSE IF offset = 0 THEN LossTake(L)
    ELSE IF L.data1[loc] = seq
    THEN IF L.data2[loc] = -1 THEN ClearUpTo(L, L.next[loc]) ELSE ClearUpTo(Started, after)
    ELSE IF L.data2[i] # -1 /\ SeqCmp(L.data2[i], seq) > 0
    THEN ClearUpTo(Middle, after)
    ELSE ClearUpTo(L, L.next[i])

-----------------------------------------------------------------------------
(***************************************************************************)
(* CSndBuffer: the circle of blocks.                                       *)
(***************************************************************************)
(* The block d places after b.                                             *)
WalkIn(nxt, b, d) ==
    LET at[k \in 0..d] == IF k = 0 THEN b ELSE nxt[at[k - 1]]
    IN  at[d]

Walk(b, d) == WalkIn(next, b, d)

UnitsToAddLate(n) ==            \* mutant: increase only when there are more
    CHOOSE k \in 0..MaxBlocks :
        /\ n + count <= size + k * UnitSize
        /\ k = 0 \/ n + count > size + (k - 1) * UnitSize

(* The units that addBuffer adds, one increase after the other, to have    *)
(* more blocks than are counted with n more.                               *)
UnitsToAdd(n) ==
    CHOOSE k \in 0..MaxBlocks :
        /\ n + count < size + k * UnitSize
        /\ k = 0 \/ n + count >= size + (k - 1) * UnitSize

(* increase: each unit is put in right after m_pLastBlock.                 *)
Increased(k) ==
    LET head(u) == size + (u - 1) * UnitSize + 1
        tail(u) == size + u * UnitSize
    IN  [b \in Blocks |->
            IF k = 0 THEN next[b]
            ELSE IF b = last THEN head(k)
            ELSE IF b \in (size + 1)..tail(k)
            THEN IF b = tail(1) THEN next[last]
                 ELSE IF \E u \in 2..k : b = tail(u)
                 THEN head(CHOOSE u \in 1..k : b = tail(u + 1))
                 ELSE b + 1
            ELSE next[b]]

(* There is to be room for n packets, and m of them are copied to the      *)
(* blocks from m_pLastBlock on.                                            *)
Fill(n, m) ==
    LET k == UnitsToAdd(n)
        nxt == Increased(k)
        filled == [d \in 0..m |-> WalkIn(nxt, last, d)]
    IN
    /\ size + k * UnitSize <= MaxBlocks
    /\ next' = nxt
    /\ size' = size + k * UnitSize
    /\ payload' = [b \in Blocks |->
                      IF \E d \in 0..(m - 1) : filled[d] = b
                      THEN Shift(written, CHOOSE d \in 0..(m - 1) : filled[d] = b)
                      ELSE payload[b]]
    /\ last' = filled[m]
    /\ written' = Shift(written, m)

-----------------------------------------------------------------------------
(* The connection as connect leaves it.                                    *)
Init ==
    /\ sndLastDataAck \in ISNs /\ sndCurrSeqNo = sndLastDataAck - 1
    /\ next = [b \in Blocks |-> IF b < UnitSize THEN b + 1 ELSE IF b = UnitSize THEN 1 ELSE b]
    /\ payload = [b \in Blocks |-> NULL]
    /\ size = UnitSize /\ first = 1 /\ curr = 1 /\ last = 1
    /\ count = 0 /\ toCount = 0
    /\ loss = EmptyLoss /\ packArg = -1
    /\ lost = {} /\ written = sndLastDataAck /\ unfilled = 0

(***************************************************************************)
(* The application.                                                        *)
(***************************************************************************)
(* send: what there is room for; addBuffer counts it after m_pLastBlock    *)
(* has moved.                                                              *)
AddBuffer(n) ==
    /\ toCount = 0 /\ n <= SndBufSize - count
    /\ Fill(n, n)
    /\ toCount' = n
    /\ UNCHANGED <<first, curr, count, unfilled, lossVars, sndLastDataAck, sndCurrSeqNo,
                   packArg>>

AddCount ==
    /\ toCount > 0
    /\ count' = count + toCount /\ toCount' = 0
    /\ UNCHANGED <<next, payload, size, first, curr, last, written, unfilled, lossVars,
                   sndLastDataAck, sndCurrSeqNo, packArg>>

(* sendfile: a whole chunk when there is any room; addBufferFromFile moves *)
(* m_pLastBlock and counts under BufLock.  When the file ends early it     *)
(* fills m blocks only, and counts n.                                      *)
AddBufferFromFile(n, m) ==
    /\ toCount = 0 /\ count < SndBufSize
    /\ Fill(n, m)
    /\ count' = count + n
    /\ unfilled' = unfilled + (n - m)
    /\ UNCHANGED <<first, curr, toCount, lossVars, sndLastDataAck, sndCurrSeqNo, packArg>>

(***************************************************************************)
(* The send-queue thread: packData.                                        *)
(***************************************************************************)
PackNew ==
    /\ packArg = -1 /\ FirstLost(loss) = -1
    /\ SeqLen(sndLastDataAck, IncSeq(sndCurrSeqNo)) <= Window
    /\ curr # last
    /\ curr' = next[curr]
    /\ sndCurrSeqNo' = IncSeq(sndCurrSeqNo)
    /\ UNCHANGED <<next, payload, size, first, last, count, toCount, written, unfilled,
                   lossVars, sndLastDataAck, packArg>>

(* A lost number is taken before AckLock is,                               *)
PackLost ==
    /\ packArg = -1 /\ FirstLost(loss) # -1
    /\ packArg' = FirstLost(loss)
    /\ loss' = LossTake(loss)
    /\ lost' = lost \ {FirstLost(loss)}
    /\ UNCHANGED <<bufVars, sndLastDataAck, sndCurrSeqNo>>

(* and its block is read under it, unless it has been acknowledged.        *)
PackRead ==
    /\ packArg # -1
    /\ packArg' = -1
    /\ UNCHANGED <<bufVars, lossVars, sndLastDataAck, sndCurrSeqNo>>

(***************************************************************************)
(* The receive-queue thread.                                               *)
(***************************************************************************)
Sent == {Shift(sndLastDataAck, d) : d \in 0..(SeqOff(sndLastDataAck, sndCurrSeqNo))}

FreeOneLess(offset) ==          \* mutant: the last block acknowledged stays first
    Walk(first, IF offset > 0 THEN offset - 1 ELSE 0)

FreeTo(offset) == Walk(first, offset)

(* A full ACK of a number not acknowledged yet, under AckLock: ackData,    *)
(* and remove of all numbers before ack.                                   *)
Acknowledge(ack) ==
    LET offset == SeqOff(sndLastDataAck, ack)
        before == {s \in Sent : SeqCmp(s, ack) < 0}
    IN
    /\ offset > 0
    /\ first' = FreeTo(offset)
    /\ count' = count - offset
    /\ sndLastDataAck' = ack
    /\ loss' = LossRemove(loss, DecSeq(ack))
    /\ lost' = lost \ before
    /\ UNCHANGED <<next, payload, size, curr, last, toCount, written, unfilled,
                   sndCurrSeqNo, packArg>>

(* One node of a NAK, or all that was sent, when the EXP timer fires.      *)
ReportLost(seq1, seq2) ==
    /\ SeqCmp(seq1, seq2) <= 0
    /\ loss' = LossInsert(loss, seq1, seq2)
    /\ lost' = lost \cup {s \in Sent : SeqCmp(seq1, s) <= 0 /\ SeqCmp(s, seq2) <= 0}
    /\ UNCHANGED <<bufVars, sndLastDataAck, sndCurrSeqNo, packArg>>

Next ==
    \/ \E n \in Chunks : AddBuffer(n)
    \/ AddCount
    \/ \E n \in Chunks : \E m \in 0..n : AddBufferFromFile(n, m)
    \/ PackNew
    \/ PackLost
    \/ PackRead
    \/ \E s \in Sent : Acknowledge(IncSeq(s))
    \/ \E s, t \in Sent : ReportLost(s, t)

Spec == Init /\ [][Next]_vars

-----------------------------------------------------------------------------
(* Numbers are on the circle, blocks in the buffer, nodes in the list; the *)
(* count falls below 0 by what addBuffer has still to count, at most.      *)
TypeOK ==
    /\ next \in [Blocks -> Blocks] /\ payload \in [Blocks -> SeqNos \cup {NULL}]
    /\ size \in UnitSize..MaxBlocks
    /\ first \in Blocks /\ curr \in Blocks /\ last \in Blocks
    /\ toCount \in 0..SndBufSize /\ count \in -toCount..MaxBlocks
    /\ sndLastDataAck \in SeqNos /\ sndCurrSeqNo \in -1..MaxSeqNo
    /\ loss.data1 \in [Nodes -> SeqNos \cup {-1}]
    /\ loss.data2 \in [Nodes -> SeqNos \cup {-1}]
    /\ loss.next \in [Nodes -> Nodes \cup {-1, Unset}]
    /\ loss.head \in Nodes \cup {-1} /\ loss.lastInsertPos \in Nodes \cup {-1}
    /\ loss.length \in 0..Window
    /\ packArg \in SeqNos \cup {-1}
    /\ lost \subseteq SeqNos /\ written \in SeqNos
    /\ unfilled \in 0..MaxBlocks

Off(s) == SeqOff(sndLastDataAck, s)

Used == {i \in Nodes : loss.data1[i] # -1}
LastOf(i) == IF loss.data2[i] = -1 THEN loss.data1[i] ELSE loss.data2[i]
Covers(i) == {s \in SeqNos : Off(loss.data1[i]) <= Off(s) /\ Off(s) <= Off(LastOf(i))}
Precedes(i, j) == Off(LastOf(i)) < Off(loss.data1[j])

(* The links run through the nodes in the order of their numbers, the      *)
(* search may start at m_iLastInsertPos, each node is where the next call  *)
(* will look for it, and a node that is not in use is clear.               *)
LinksAreOrder ==
    /\ \A i \in Nodes \ Used : loss.data2[i] = -1 /\ loss.next[i] = Unset
    /\ loss.lastInsertPos \in Used \cup {-1}
    /\ loss.length > 0 => loss.head \in Used /\ \A i \in Used : ~Precedes(i, loss.head)
    /\ \A i \in Used :
        LET after == {j \in Used : Precedes(i, j)}
        IN
        /\ i = LossPos(loss, loss.data1[i])
        /\ IF after = {} THEN loss.next[i] = -1
           ELSE loss.next[i] \in after
                /\ \A j \in after : j = loss.next[i] \/ Precedes(loss.next[i], j)

(* Whatever order NAKs, timeouts, retransmissions and ACKs come in, the    *)
(* loss list holds exactly the numbers that were reported lost and neither *)
(* sent again nor acknowledged since, each once, in order, and the length  *)
(* counts them: packData takes new data only when it is 0.                 *)
LossListIsLost ==
    /\ UNION {Covers(i) : i \in Used} = lost
    /\ \A i, j \in Used : i # j => Precedes(i, j) \/ Precedes(j, i)
    /\ loss.length = Cardinality(lost)
    /\ LinksAreOrder

(* The packets sent and not freed, and those filled.                       *)
InFlight == Off(sndCurrSeqNo) + 1
Held == SeqOff(sndLastDataAck, written)

(* However the circle of blocks grew, it is one circle, and from           *)
(* m_pFirstBlock on it holds the packets that are not acknowledged, then   *)
(* (from m_pCurrBlock on) those not sent, up to m_pLastBlock, which is     *)
(* never met from behind: no packet is overwritten.  m_iCount, with what   *)
(* addBuffer has still to count, is "number of used blocks" (buffer.h:153) *)
(* and no less; it is more, for good, by the blocks that were counted for  *)
(* a file that ended before it had filled them.                            *)
BlocksAreStream ==
    /\ {Walk(first, d) : d \in 0..(size - 1)} = 1..size
    /\ Walk(first, size) = first
    /\ Held < size
    /\ \A d \in 0..(Held - 1) : payload[Walk(first, d)] = Shift(sndLastDataAck, d)
    /\ curr = Walk(first, InFlight)
    /\ last = Walk(first, Held)
    /\ count + toCount = Held + unfilled

(* A lost number that packData took before AckLock is either acknowledged  *)
(* when it looks, or its block still holds that packet.                    *)
RetransmitsRightBlock ==
    packArg # -1 /\ Off(packArg) >= 0 =>
        /\ Off(packArg) < InFlight
        /\ payload[Walk(first, Off(packArg))] = packArg

=============================================================================
