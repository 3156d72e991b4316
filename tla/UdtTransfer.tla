---------------------------- MODULE UdtTransfer ----------------------------
(***************************************************************************)
(* One direction of an established UDT stream connection: the data path of *)
(* udt4/src/core.cpp with the buffers and the send list it uses.           *)
(*                                                                         *)
(*   sending application   CUDT::sendfile (and CUDT::send)                 *)
(*   send-queue thread     CSndQueue::worker -> CSndUList::pop             *)
(*                         -> CUDT::packData                               *)
(*   sender's rcv thread   CUDT::processCtrl (ACK, NAK), checkTimers (EXP) *)
(*   receiver's rcv thread CUDT::processData, processCtrl (ACK2),          *)
(*                         checkTimers (ACK, light ACK, NAK)               *)
(*   receiving application CUDT::recvfile (and CUDT::recv)                 *)
(*                                                                         *)
(* Between the two sides is UDP: a datagram may be lost, duplicated,       *)
(* delayed and reordered.  The threads of the sender interleave at the     *)
(* locks of the code: packData takes a number from the loss list before it *)
(* takes AckLock, and CSndUList::update waits while pop holds ListLock.    *)
(*                                                                         *)
(* Abstractions.  Sequence numbers are counted from the ISN and do not     *)
(* wrap (SeqWindow shows why circular comparison agrees with this as long  *)
(* as a window is less than half the circle).  A packet's payload is its   *)
(* position in the stream.  The loss lists are sets; UdtSender and         *)
(* UdtReceiver have their arrays.  Clocks are left out: a timer may fire at*)
(* any moment the code could let it.  An ACK2 carries the acknowledged     *)
(* number that CACKWindow would look up for it.                            *)
(***************************************************************************)
EXTENDS Integers, Sequences, FiniteSets

CONSTANTS
    N,              \* packets of the file, as its size was announced
    FileBlocks,     \* packets the file really holds when it is read
    Chunk,          \* packets in one block of sendfile
    SndBufSize,     \* m_iSndBufSize
    RcvBufSize,     \* m_iRcvBufSize: slots of the receiver's buffer
    CWnds,          \* congestion windows the controller may set
    NetCap,         \* bound: datagrams in flight at once
    NULL            \* an empty slot of the receiver's buffer

ASSUME TransferAssumption ==
    /\ N \in Nat /\ N >= 1
    /\ FileBlocks \in 0..N
    /\ Chunk \in Nat /\ Chunk >= 1
    /\ SndBufSize \in Nat /\ SndBufSize >= 1
    /\ RcvBufSize \in Nat /\ RcvBufSize >= 2
    /\ CWnds \subseteq Nat /\ CWnds # {} /\ 0 \notin CWnds
    /\ NetCap \in Nat /\ NetCap >= 1
    /\ NULL \notin Nat

VARIABLES
    \* sending application
    written,        \* packets read from the file into the send buffer (m_pLastBlock)
    ifsEof,         \* the file stream has come to its end
    appUpd,         \* sendfile is about to call CSndUList::update
    \* send buffer and sender state
    sndCount,       \* CSndBuffer::m_iCount
    sndFirst,       \* m_pFirstBlock, as a position in the stream
    sndNext,        \* m_pCurrBlock, as a position in the stream
    sndCurrSeqNo, sndLastAck, sndLastDataAck,
    flowWindow,     \* m_iFlowWindowSize
    sndLossList,
    sndBroken,      \* "no", or what set m_bBroken: "ack", "nak", "exp"
    \* send-queue thread
    onSndUList,     \* the socket's m_iHeapLoc >= 0
    sndPc,          \* inside pop, holding ListLock: "lost" or "new"; else "idle"
    packArg,        \* the number taken from the loss list, or the window read
    \* sender's receive-queue thread
    rcvPc,          \* "ack": about to free acknowledged blocks under AckLock,
                    \* "update": about to call CSndUList::update; else "idle"
    ackArg,         \* the acknowledged number it frees up to
    \* receiver
    rcvCurrSeqNo, rcvLastAck, rcvLastAckAck,
    rcvLossList,
    rcvBuf,         \* the slots, by the sequence number stored in them
    rcvBroken,      \* m_bBroken of the receiver, set by its EXP timer
    \* receiving application, network
    delivered,      \* packets read, in order (m_iStartPos is its length)
    net

appVars == <<written, ifsEof>>
bufVars == <<sndCount, sndFirst>>
ackVars == <<sndLastAck, sndLastDataAck, flowWindow>>
sndVars == <<sndCount, sndFirst, sndNext, sndCurrSeqNo, sndLastAck,
             sndLastDataAck, flowWindow, sndLossList, sndBroken>>
lstVars == <<onSndUList, sndPc, packArg, appUpd, rcvPc, ackArg>>
rcvVars == <<rcvCurrSeqNo, rcvLastAck, rcvLastAckAck, rcvLossList, rcvBuf,
             rcvBroken>>
vars == <<appVars, sndVars, lstVars, rcvVars, delivered, net>>

Seqs   == 0..(N - 1)
Min2(a, b) == IF a < b THEN a ELSE b
Max2(a, b) == IF a > b THEN a ELSE b

Least(S) == CHOOSE x \in S : \A y \in S : x <= y

(* The longest runs of consecutive numbers of S: the nodes of a loss list. *)
Runs(S) ==
    {r \in S \X S :
        /\ r[1] <= r[2]
        /\ r[1]..r[2] \subseteq S
        /\ r[1] - 1 \notin S /\ r[2] + 1 \notin S}

(***************************************************************************)
(* Datagrams                                                               *)
(***************************************************************************)
Data(s, b) == [type |-> "data", seq |-> s, arg |-> b]
Ack(a, w)  == [type |-> "ack", seq |-> a, arg |-> w]
Lite(a)    == [type |-> "lite", seq |-> a, arg |-> 0]
Ack2(a)    == [type |-> "ack2", seq |-> a, arg |-> 0]
Nak(l, h)  == [type |-> "nak", seq |-> l, arg |-> h]

Message == [type : {"data", "ack", "lite", "ack2", "nak"}, seq : Nat, arg : Nat]

(* What the network may hold after M is sent into n0: all of it, or, when  *)
(* NetCap is exceeded, M and as much as fits of what was there.            *)
After(n0, M) ==
    IF Cardinality(n0 \cup M) <= NetCap THEN {n0 \cup M}
    ELSE {n \in SUBSET (n0 \cup M) : M \subseteq n /\ Cardinality(n) = NetCap}

Send(M) == net' \in After(net, M)

(* m is received and M is sent in answer; a datagram that UDP duplicated   *)
(* stays in the network.                                                   *)
Reply(m, M) == net' \in After(net, M) \cup After(net \ {m}, M)

-----------------------------------------------------------------------------
(***************************************************************************)
(* The connection as connect leaves it.                                    *)
(***************************************************************************)
Init ==
    /\ written = 0 /\ ifsEof = FALSE /\ appUpd = FALSE
    /\ sndCount = 0 /\ sndFirst = 0 /\ sndNext = 0
    /\ sndCurrSeqNo = -1 /\ sndLastAck = 0 /\ sndLastDataAck = 0
    /\ flowWindow = RcvBufSize
    /\ sndLossList = {} /\ sndBroken = "no"
    /\ onSndUList = FALSE /\ sndPc = "idle" /\ packArg = 0
    /\ rcvPc = "idle" /\ ackArg = 0
    /\ rcvCurrSeqNo = -1 /\ rcvLastAck = 0 /\ rcvLastAckAck = 0
    /\ rcvLossList = {} /\ rcvBuf = [s \in Seqs |-> NULL] /\ rcvBroken = FALSE
    /\ delivered = <<>> /\ net = {}

(***************************************************************************)
(* The sending application: one turn of the loop of sendfile.              *)
(***************************************************************************)
(* addBufferFromFile: it counts the packets it was asked for, and adds the *)
(* packets the file still had.                                             *)
CountAdded(ask, got) == ask

SendBlock ==
    LET ask == Min2(Chunk, N - written)
        got == Min2(ask, FileBlocks - written)
    IN
    /\ written < N /\ ~ifsEof /\ ~appUpd
    /\ sndBroken = "no"
    /\ sndCount < SndBufSize
    /\ written' = written + got
    /\ ifsEof' = (got < ask)
    /\ sndCount' = sndCount + CountAdded(ask, got)
    /\ appUpd' = TRUE
    /\ UNCHANGED <<sndFirst, sndNext, sndCurrSeqNo, ackVars, sndLossList, sndBroken,
                   onSndUList, sndPc, packArg, rcvPc, ackArg, rcvVars, delivered, net>>

(***************************************************************************)
(* CSndUList::update, called by the application and by the receive-queue   *)
(* thread: the socket is on the list afterwards.  It waits for ListLock.   *)
(***************************************************************************)
AppUpdate ==
    /\ appUpd /\ sndPc = "idle"
    /\ appUpd' = FALSE /\ onSndUList' = TRUE
    /\ UNCHANGED <<appVars, sndVars, sndPc, packArg, rcvPc, ackArg, rcvVars, delivered, net>>

RcvUpdate ==
    /\ rcvPc = "update" /\ sndPc = "idle"
    /\ rcvPc' = "idle" /\ onSndUList' = TRUE
    /\ UNCHANGED <<appVars, sndVars, sndPc, packArg, appUpd, ackArg, rcvVars, delivered, net>>

(***************************************************************************)
(* The send-queue thread: CSndUList::pop, with packData inside it.  The    *)
(* socket leaves the list; it is put back when a packet was packed.        *)
(***************************************************************************)
PopBroken ==
    /\ onSndUList /\ sndPc = "idle" /\ sndBroken # "no"
    /\ onSndUList' = FALSE
    /\ UNCHANGED <<appVars, sndVars, sndPc, packArg, appUpd, rcvPc, ackArg, rcvVars,
                   delivered, net>>

(* getLostSeq: the smallest lost number is taken, before AckLock is.       *)
PopLost ==
    /\ onSndUList /\ sndPc = "idle" /\ sndBroken = "no"
    /\ sndLossList # {}
    /\ packArg' = Least(sndLossList)
    /\ sndLossList' = sndLossList \ {packArg'}
    /\ sndPc' = "lost" /\ onSndUList' = FALSE
    /\ UNCHANGED <<appVars, sndCount, sndFirst, sndNext, sndCurrSeqNo, ackVars,
                   sndBroken, appUpd, rcvPc, ackArg, rcvVars, delivered, net>>

(* Nothing is lost: the congestion and flow windows are read.              *)
PopNew ==
    /\ onSndUList /\ sndPc = "idle" /\ sndBroken = "no"
    /\ sndLossList = {}
    /\ \E cw \in CWnds : packArg' = Min2(flowWindow, cw)
    /\ sndPc' = "new" /\ onSndUList' = FALSE
    /\ UNCHANGED <<appVars, sndVars, appUpd, rcvPc, ackArg, rcvVars, delivered, net>>

(* Under AckLock: a number that was acknowledged meanwhile is dropped.     *)
StillUnacked(s) == s - sndLastDataAck >= 0

(* readData(offset): the block offset places after m_pFirstBlock.          *)
BlockFromIsn(s) == sndFirst + s         \* mutant: offset from the wrong base
BlockAt(s) == sndFirst + Max2(0, s - sndLastDataAck)

(* pop puts the socket back at the time of its next packet.                *)
ForgetsSocket == UNCHANGED onSndUList   \* mutant: insert_ is left out
PutBack == onSndUList' = TRUE

Retransmit ==
    /\ sndPc = "lost"
    /\ sndPc' = "idle" /\ packArg' = 0
    /\ IF StillUnacked(packArg)
       THEN PutBack /\ Send({Data(packArg, BlockAt(packArg))})
       ELSE UNCHANGED <<onSndUList, net>>
    /\ UNCHANGED <<appVars, sndVars, appUpd, rcvPc, ackArg, rcvVars, delivered>>

(* Room in the window that was read, and a block the buffer has not sent.  *)
WindowAllows == packArg >= (sndCurrSeqNo + 1) - sndLastAck + 1

PackNew ==
    /\ sndPc = "new"
    /\ sndPc' = "idle" /\ packArg' = 0
    /\ IF WindowAllows /\ sndNext # written
       THEN /\ sndCurrSeqNo' = sndCurrSeqNo + 1
            /\ sndNext' = sndNext + 1
            /\ PutBack
            /\ Send({Data(sndCurrSeqNo', sndNext)})
       ELSE UNCHANGED <<sndCurrSeqNo, sndNext, onSndUList, net>>
    /\ UNCHANGED <<appVars, sndCount, sndFirst, ackVars, sndLossList, sndBroken,
                   appUpd, rcvPc, ackArg, rcvVars, delivered>>

(***************************************************************************)
(* The sender's receive-queue thread: processCtrl and the EXP timer.  One  *)
(* datagram or timer at a time, and none while it waits in update.         *)
(***************************************************************************)
SndListens == sndBroken = "no" /\ rcvPc = "idle"

(* A light ACK moves m_iSndLastAck and shrinks the window by as much.      *)
ProcessLiteAck(m) ==
    /\ SndListens /\ m.type = "lite"
    /\ IF m.seq >= sndLastAck
       THEN /\ flowWindow' = flowWindow - (m.seq - sndLastAck)
            /\ sndLastAck' = m.seq
       ELSE UNCHANGED <<flowWindow, sndLastAck>>
    /\ Reply(m, {})
    /\ UNCHANGED <<appVars, bufVars, sndNext, sndCurrSeqNo, sndLastDataAck, sndLossList,
                   sndBroken, lstVars, rcvVars, delivered>>

(* m_pSndLossList->remove: every number before the acknowledged one.       *)
LossAfterAck(L, a) == {s \in L : s >= a}

(* The ACK is answered by an ACK2 when the last one was not just sent; the *)
(* window and m_iSndLastAck are set before AckLock is taken.               *)
ProcessAck(m) ==
    /\ SndListens /\ m.type = "ack"
    /\ \E M \in {{}, {Ack2(m.seq)}} : Reply(m, M)
    /\ IF m.seq > sndCurrSeqNo + 1
       THEN sndBroken' = "ack" /\ UNCHANGED <<flowWindow, sndLastAck, rcvPc, ackArg>>
       ELSE /\ rcvPc' = "ack" /\ ackArg' = m.seq
            /\ IF m.seq >= sndLastAck
               THEN flowWindow' = m.arg /\ sndLastAck' = m.seq
               ELSE UNCHANGED <<flowWindow, sndLastAck>>
            /\ UNCHANGED sndBroken
    /\ UNCHANGED <<appVars, bufVars, sndNext, sndCurrSeqNo, sndLastDataAck, sndLossList,
                   onSndUList, sndPc, packArg, appUpd, rcvVars, delivered>>

(* Under AckLock: the acknowledged blocks leave the send buffer.  A        *)
(* repeated ACK frees nothing.                                             *)
FreeAcked ==
    /\ rcvPc = "ack"
    /\ ackArg' = 0
    /\ IF ackArg > sndLastDataAck
       THEN /\ sndFirst' = sndFirst + (ackArg - sndLastDataAck)
            /\ sndCount' = sndCount - (ackArg - sndLastDataAck)
            /\ sndLastDataAck' = ackArg
            /\ sndLossList' = LossAfterAck(sndLossList, ackArg)
            /\ rcvPc' = "update"
       ELSE /\ rcvPc' = "idle"
            /\ UNCHANGED <<bufVars, sndLastDataAck, sndLossList>>
    /\ UNCHANGED <<appVars, sndNext, sndCurrSeqNo, sndLastAck, flowWindow, sndBroken,
                   onSndUList, sndPc, packArg, appUpd, rcvVars, delivered, net>>

(* A loss report names m.seq..m.arg; the numbers already acknowledged are  *)
(* left out, and a number never sent means the peer cannot be trusted.     *)
BelievableNak(m) == m.seq <= m.arg /\ m.arg <= sndCurrSeqNo

ProcessNak(m) ==
    /\ SndListens /\ m.type = "nak"
    /\ Reply(m, {})
    /\ IF ~BelievableNak(m) /\ (m.seq # m.arg \/ m.seq >= sndLastAck)
       THEN sndBroken' = "nak" /\ UNCHANGED <<sndLossList, rcvPc>>
       ELSE /\ sndLossList' = sndLossList \cup (Max2(m.seq, sndLastAck)..m.arg)
            /\ rcvPc' = "update"
            /\ UNCHANGED sndBroken
    /\ UNCHANGED <<appVars, bufVars, sndNext, sndCurrSeqNo, ackVars,
                   onSndUList, sndPc, packArg, appUpd, ackArg, rcvVars, delivered>>

(* Nothing was heard: all that is in flight is lost, and sending restarts. *)
ExpTimer ==
    /\ SndListens
    /\ sndCount > 0
    /\ sndLossList' = sndLossList \cup (sndLastAck..sndCurrSeqNo)
    /\ rcvPc' = "update"
    /\ UNCHANGED <<appVars, bufVars, sndNext, sndCurrSeqNo, ackVars, sndBroken,
                   onSndUList, sndPc, packArg, appUpd, ackArg, rcvVars, delivered, net>>

(* Nothing was heard for ten seconds and sixteen expirations.              *)
SndGivesUp ==
    /\ SndListens
    /\ sndBroken' = "exp" /\ rcvPc' = "update"
    /\ UNCHANGED <<appVars, bufVars, sndNext, sndCurrSeqNo, ackVars, sndLossList,
                   onSndUList, sndPc, packArg, appUpd, ackArg, rcvVars, delivered, net>>

-----------------------------------------------------------------------------
(***************************************************************************)
(* The receiver's receive-queue thread.                                    *)
(***************************************************************************)
(* getAvailBufSize when the data is acknowledged up to a: one slot stays   *)
(* empty.                                                                  *)
NoEmptySlot(a) == RcvBufSize - (a - Len(delivered))     \* mutant: every slot used
AvailBufSize(a) == RcvBufSize - (a - Len(delivered)) - 1

(* processData keeps a packet inside the free part of the buffer, in a     *)
(* slot that is free (addData).                                            *)
Acceptable(s) ==
    /\ s - rcvLastAck >= 0
    /\ s - rcvLastAck < AvailBufSize(rcvLastAck)
    /\ rcvBuf[s] = NULL

(* A packet ahead of the next one expected leaves a gap behind it.         *)
Gap(s) == (rcvCurrSeqNo + 1)..(s - 1)

DiscardData(m) ==
    /\ ~rcvBroken /\ m.type = "data"
    /\ ~Acceptable(m.seq)
    /\ Reply(m, {})
    /\ UNCHANGED <<appVars, sndVars, lstVars, rcvVars, delivered>>

AcceptData(m) ==
    /\ ~rcvBroken /\ m.type = "data"
    /\ Acceptable(m.seq)
    /\ rcvBuf' = [rcvBuf EXCEPT ![m.seq] = m.arg]
    /\ IF m.seq > rcvCurrSeqNo
       THEN /\ rcvLossList' = rcvLossList \cup Gap(m.seq)
            /\ rcvCurrSeqNo' = m.seq
       ELSE /\ rcvLossList' = rcvLossList \ {m.seq}
            /\ UNCHANGED rcvCurrSeqNo
    /\ Reply(m, IF m.seq > rcvCurrSeqNo + 1
                THEN {Nak(rcvCurrSeqNo + 1, m.seq - 1)} ELSE {})
    /\ UNCHANGED <<appVars, sndVars, lstVars, rcvLastAck, rcvLastAckAck, rcvBroken,
                   delivered>>

(* ACK2: the sender is known to have the acknowledgement up to m.seq.      *)
LastAck2(a) == a                        \* mutant: a late ACK2 is believed
NewestAck2(a) == Max2(rcvLastAckAck, a)

ProcessAck2(m) ==
    /\ ~rcvBroken /\ m.type = "ack2"
    /\ rcvLastAckAck' = NewestAck2(m.seq)
    /\ Reply(m, {})
    /\ UNCHANGED <<appVars, sndVars, lstVars, rcvCurrSeqNo, rcvLastAck, rcvLossList,
                   rcvBuf, rcvBroken, delivered>>

(* The number an acknowledgement carries: the first one missing.           *)
AckNotYetReceived == rcvCurrSeqNo + 2   \* mutant: off by one
AckPoint == IF rcvLossList = {} THEN rcvCurrSeqNo + 1 ELSE Least(rcvLossList)

(* The window an ACK advertises: at least 2, even if the buffer is full.   *)
BareWindow(a) == Max2(0, AvailBufSize(a))       \* mutant: the minimum is dropped
AdvertisedWindow(a) == Max2(2, AvailBufSize(a))

(* sendCtrl(2): new data becomes readable, and the ACK is sent until the   *)
(* sender is known to have it.                                             *)
AckTimer ==
    /\ ~rcvBroken
    /\ AckPoint # rcvLastAckAck
    /\ AckPoint >= rcvLastAck
    /\ rcvLastAck' = AckPoint
    /\ IF AckPoint > rcvLastAckAck
       THEN Send({Ack(AckPoint, AdvertisedWindow(AckPoint))})
       ELSE UNCHANGED net
    /\ UNCHANGED <<appVars, sndVars, lstVars, rcvCurrSeqNo, rcvLastAckAck, rcvLossList,
                   rcvBuf, rcvBroken, delivered>>

LiteAckTimer ==
    /\ ~rcvBroken
    /\ AckPoint # rcvLastAckAck
    /\ Send({Lite(AckPoint)})
    /\ UNCHANGED <<appVars, sndVars, lstVars, rcvVars, delivered>>

(* sendCtrl(3) from the timer: each node of the loss list whose last       *)
(* report is old enough.                                                   *)
NakTimer ==
    /\ ~rcvBroken
    /\ \E r \in Runs(rcvLossList) : Send({Nak(r[1], r[2])})
    /\ UNCHANGED <<appVars, sndVars, lstVars, rcvVars, delivered>>

RcvGivesUp ==
    /\ ~rcvBroken /\ rcvBroken' = TRUE
    /\ UNCHANGED <<appVars, sndVars, lstVars, rcvCurrSeqNo, rcvLastAck, rcvLastAckAck,
                   rcvLossList, rcvBuf, delivered, net>>

(***************************************************************************)
(* The receiving application: recvfile takes acknowledged packets out of   *)
(* the buffer (readBufferToFile); it may still do so once broken.          *)
(***************************************************************************)
ReadUpTo == rcvLastAck

RecvRead ==
    /\ Len(delivered) < ReadUpTo
    /\ delivered' = Append(delivered, rcvBuf[Len(delivered)])
    /\ rcvBuf' = [rcvBuf EXCEPT ![Len(delivered)] = NULL]
    /\ UNCHANGED <<appVars, sndVars, lstVars, rcvCurrSeqNo, rcvLastAck, rcvLastAckAck,
                   rcvLossList, rcvBroken, net>>

(* A datagram is lost.  When that happens cannot be told from outside, and *)
(* is put at the moment its addressee could have received it.              *)
Lose(m) ==
    /\ IF m.type \in {"data", "ack2"} THEN ~rcvBroken ELSE SndListens
    /\ net' = net \ {m}
    /\ UNCHANGED <<appVars, sndVars, lstVars, rcvVars, delivered>>

(* All is read, or an end has given up: the system may rest.               *)
AtRest ==
    /\ \/ Len(delivered) = written /\ (written = N \/ ifsEof)
       \/ rcvBroken \/ sndBroken # "no"
    /\ UNCHANGED vars

-----------------------------------------------------------------------------
Receive(m) ==
    \/ ProcessLiteAck(m) \/ ProcessAck(m) \/ ProcessNak(m)
    \/ DiscardData(m) \/ AcceptData(m) \/ ProcessAck2(m)

SendThread == PopBroken \/ PopLost \/ PopNew \/ Retransmit \/ PackNew

NextWhileUp ==
    \/ SendBlock \/ AppUpdate \/ RcvUpdate
    \/ PopBroken \/ PopLost \/ PopNew \/ Retransmit \/ PackNew
    \/ FreeAcked \/ ExpTimer
    \/ AckTimer \/ LiteAckTimer \/ NakTimer
    \/ RecvRead
    \/ \E m \in net : Receive(m)
    \/ \E m \in net : Lose(m)
    \/ AtRest

Next == NextWhileUp \/ SndGivesUp \/ RcvGivesUp

Spec == Init /\ [][Next]_vars

-----------------------------------------------------------------------------
(***************************************************************************)
(* Fairness.  The threads run; sendfile and recvfile are called until they *)
(* are done; a datagram sent again and again arrives; the EXP timer goes   *)
(* off again and again as long as something is unacknowledged.             *)
(***************************************************************************)
ReceiveFrom(M) == \E m \in net \cap M : Receive(m)

Fairness ==
    /\ WF_vars(SendBlock) /\ WF_vars(RecvRead)
    /\ WF_vars(AppUpdate) /\ WF_vars(RcvUpdate) /\ WF_vars(FreeAcked)
    /\ WF_vars(SendThread)
    /\ SF_vars(ExpTimer) /\ WF_vars(AckTimer)
    /\ \A s \in Seqs : SF_vars(ReceiveFrom({Data(s, s)}))
    /\ \A a \in 1..N : SF_vars(ReceiveFrom({Ack(a, w) : w \in 0..Max2(2, RcvBufSize)}))

(* The specification for liveness: no end gives up.                        *)
FairSpec == Init /\ [][NextWhileUp]_vars /\ Fairness

-----------------------------------------------------------------------------
(***************************************************************************)
(* Properties                                                              *)
(***************************************************************************)
(* Every variable has a value of its type.                                 *)
TypeOK ==
    /\ written \in 0..N /\ ifsEof \in BOOLEAN /\ appUpd \in BOOLEAN
    /\ sndCount \in Int /\ sndFirst \in Nat /\ sndNext \in Nat
    /\ sndCurrSeqNo \in Int /\ sndLastAck \in Nat /\ sndLastDataAck \in Nat
    /\ flowWindow \in Int
    /\ sndLossList \subseteq Nat /\ sndBroken \in {"no", "ack", "nak", "exp"}
    /\ onSndUList \in BOOLEAN /\ sndPc \in {"idle", "lost", "new"}
    /\ packArg \in Int
    /\ rcvPc \in {"idle", "ack", "update"} /\ ackArg \in Nat
    /\ rcvCurrSeqNo \in Int /\ rcvLastAck \in Nat /\ rcvLastAckAck \in Nat
    /\ rcvLossList \subseteq Seqs /\ rcvBuf \in [Seqs -> Seqs \cup {NULL}]
    /\ rcvBroken \in BOOLEAN
    /\ delivered \in Seq(Seqs)
    /\ net \subseteq Message

(* The receiver has packet s, or had it and gave it to the application.    *)
Received(s) == s < rcvLastAck \/ rcvBuf[s] # NULL

(* The sender releases a block of its buffer (and lets its window slide    *)
(* past a number) only when the receiver has that packet; what was freed   *)
(* is even acknowledged in the receiver's buffer.                          *)
FreesOnlyReceived ==
    /\ \A s \in Seqs : s < sndLastAck => Received(s)
    /\ sndFirst <= rcvLastAck

(* The receiver's loss list names exactly the holes of its buffer between  *)
(* the acknowledged data and the highest number received: no hole is       *)
(* forgotten (it would never be reported) and none is reported in vain.    *)
LossListIsHoles ==
    rcvLossList = {s \in Seqs : rcvLastAck <= s /\ s <= rcvCurrSeqNo /\ rcvBuf[s] = NULL}

(* recvfile never meets an empty slot (a NULL m_pUnit) in the part of the  *)
(* buffer it was told is readable.                                         *)
ReadableIsStored ==
    \A s \in Seqs : Len(delivered) <= s /\ s < rcvLastAck => rcvBuf[s] # NULL

(* The stored packets fit in the ring with one slot to spare, so that no   *)
(* two of them share a slot and a full ring differs from an empty one.     *)
RingHasRoom ==
    \A s \in Seqs : rcvBuf[s] # NULL =>
        Len(delivered) <= s /\ s < Len(delivered) + RcvBufSize - 1

(* A retransmission finds the block of its number: what the loss list or   *)
(* the send thread holds was sent, and block and number run in step, so    *)
(* that every packet on its way carries the data of its number.            *)
RetransmitsRightBlock ==
    /\ \A s \in sndLossList : s <= sndCurrSeqNo
    /\ sndPc = "lost" => packArg <= sndCurrSeqNo
    /\ \A m \in net : m.type = "data" => m.arg = m.seq

(* "this should not happen: attack or bug": with no attacker and every     *)
(* reordering of the network, no ACK and no NAK is ever found invalid.     *)
NeverSuspectsPeer == sndBroken \in {"no", "exp"}

(* A lost packet is never stranded: while the loss list holds a number,    *)
(* the socket is on the send list, or the send thread is packing for it,   *)
(* or a thread is about to put it on the list.                             *)
LossIsScheduled ==
    sndLossList # {} /\ sndBroken = "no" =>
        onSndUList \/ rcvPc = "update" \/ appUpd \/ sndPc = "lost"

(* No acknowledgement number ever moves back, on either side.              *)
AcksNeverRetreat ==
    [][/\ sndLastAck' >= sndLastAck /\ sndLastDataAck' >= sndLastDataAck
       /\ rcvLastAck' >= rcvLastAck /\ rcvLastAckAck' >= rcvLastAckAck]_vars

(* The connection is a reliable stream: every step of it puts packets in,  *)
(* takes the next one out, or is invisible to the applications.            *)
Stream == INSTANCE ReliableStream
             WITH N <- N, Chunk <- Chunk, written <- written, delivered <- delivered
IsReliableStream == Stream!Spec

(* The whole file arrives, in spite of loss, duplication, reordering and   *)
(* of a receive buffer that fills up.                                      *)
AllDelivered == <>(Len(delivered) = N)

=============================================================================
