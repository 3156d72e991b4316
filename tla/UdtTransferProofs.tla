------------------------- MODULE UdtTransferProofs -------------------------
(***************************************************************************)
(* Proofs about UdtTransfer, for every file size, buffer size, congestion  *)
(* window and network capacity: the inductive invariant IInv, the safety   *)
(* properties that follow from it, and that the connection implements      *)
(* ReliableStream.                                                         *)
(***************************************************************************)
EXTENDS UdtTransfer, WellFoundedInduction, TLAPS

(* The order of the positions of the two sides in the stream.  What is     *)
(* about to be freed is acknowledged at the receiver.                      *)
Positions ==
    /\ -1 <= rcvCurrSeqNo
    /\ Len(delivered) <= rcvLastAck /\ rcvLastAck <= rcvCurrSeqNo + 1
    /\ rcvLastAckAck <= rcvLastAck /\ ackArg <= rcvLastAck
    /\ rcvCurrSeqNo <= sndCurrSeqNo
    /\ sndNext = sndCurrSeqNo + 1 /\ sndNext <= written /\ written <= FileBlocks
    /\ sndFirst = sndLastDataAck

(* What is stored or was delivered is the block of its number.             *)
RightContents ==
    /\ \A s \in Seqs : rcvBuf[s] # NULL => rcvBuf[s] = s /\ s <= rcvCurrSeqNo
    /\ \A i \in 1..Len(delivered) : delivered[i] = i - 1

(* A number in the loss list, or taken from it, was sent.                  *)
LossWasSent ==
    /\ \A s \in sndLossList : s <= sndCurrSeqNo
    /\ sndPc = "lost" => packArg \in Nat /\ packArg <= sndCurrSeqNo

(* What each datagram in flight says is true, and stays true.              *)
Truthful(m) ==
    /\ m.type = "data" => m.seq <= sndCurrSeqNo /\ m.arg = m.seq
    /\ m.type \in {"ack", "ack2"} => m.seq <= rcvLastAck
    /\ m.type = "lite" => \A s \in Seqs : s < m.seq => Received(s)
    /\ m.type = "nak" => m.seq <= m.arg /\ m.arg <= rcvCurrSeqNo

IInv ==
    /\ TypeOK
    /\ Positions
    /\ FreesOnlyReceived
    /\ LossListIsHoles
    /\ ReadableIsStored
    /\ RingHasRoom
    /\ RightContents
    /\ LossWasSent
    /\ \A m \in net : Truthful(m)
    /\ NeverSuspectsPeer

-----------------------------------------------------------------------------
(* Sending loses datagrams but invents none.                               *)
LEMMA AfterAddsOnly ==
    ASSUME NEW n0, NEW M, NEW n \in After(n0, M)
    PROVE  n \subseteq n0 \cup M
  BY DEF After

(* A reply adds to the network only what is sent.                          *)
LEMMA ReplyAddsOnly ==
    ASSUME NEW m, NEW M, Reply(m, M)
    PROVE  net' \subseteq net \cup M
  BY AfterAddsOnly DEF Reply

LEMMA SendAddsOnly ==
    ASSUME NEW M, Send(M)
    PROVE  net' \subseteq net \cup M
  BY AfterAddsOnly DEF Send

(* A set of numbers that is not empty has a least element.                 *)
LEMMA LeastProperty ==
    ASSUME NEW S, S \subseteq Nat, S # {}
    PROVE  Least(S) \in S /\ \A y \in S : Least(S) <= y
  <1>. DEFINE Less == {ss \in Nat \X Nat : ss[1] < ss[2]}
  <1>1. OpToRel(<, Nat) = Less
    BY DEF OpToRel
  <1>2. \E x \in S : \A y \in S : ~ (<<y, x>> \in Less)
    BY <1>1, NatLessThanWellFounded, WFMin
  <1>3. PICK x \in S : \A y \in S : ~ (<<y, x>> \in Less)
    BY <1>2
  <1>4. ASSUME NEW y \in S, y < x PROVE FALSE
    <2>1. <<y, x>> \in Nat \X Nat /\ <<y, x>>[1] < <<y, x>>[2]
      BY <1>4
    <2>2. <<y, x>> \in Less
      BY <2>1
    <2>. QED  BY <1>3, <2>2
  <1>5. \A y \in S : x <= y
    BY <1>4
  <1>. QED  BY <1>5 DEF Least

(* The acknowledged number is the first one that the receiver misses.      *)
LEMMA AckPointProperty ==
    ASSUME IInv
    PROVE  /\ AckPoint \in Nat
           /\ rcvLastAck <= AckPoint /\ AckPoint <= rcvCurrSeqNo + 1
           /\ \A s \in Seqs : s < AckPoint => Received(s)
  <1>1. CASE rcvLossList = {}
    BY <1>1 DEF IInv, TypeOK, Positions, LossListIsHoles, AckPoint, Received, Seqs
  <1>2. CASE rcvLossList # {}
    <2>1. rcvLossList \subseteq Nat
      BY DEF IInv, TypeOK, Seqs
    <2>2. Least(rcvLossList) \in rcvLossList /\ \A y \in rcvLossList : Least(rcvLossList) <= y
      BY <1>2, <2>1, LeastProperty
    <2>. QED
      BY <1>2, <2>1, <2>2
         DEF IInv, TypeOK, Positions, LossListIsHoles, AckPoint, Received, Seqs
  <1>. QED  BY <1>1, <1>2

(* A datagram stays truthful: what it says of the receiver and the sender  *)
(* is not undone by a step that only moves their positions forward.        *)
LEMMA NetStaysTruthful ==
    ASSUME IInv, TypeOK',
           sndCurrSeqNo <= sndCurrSeqNo', rcvCurrSeqNo <= rcvCurrSeqNo',
           rcvLastAck <= rcvLastAck',
           \A s \in Seqs : Received(s) => Received(s)',
           \A k \in net' : k \in net \/ Truthful(k)'
    PROVE  (\A k \in net : Truthful(k))'
  <1>1. ASSUME NEW k \in net', k \in net PROVE Truthful(k)'
    <2>1. k.seq \in Nat /\ k.arg \in Nat /\ Truthful(k)
      BY <1>1 DEF IInv, TypeOK, Message
    <2>2. k.type = "lite" => \A s \in Seqs : s < k.seq => Received(s)'
      BY <2>1, Zenon DEF Truthful
    <2>3. /\ sndCurrSeqNo \in Int /\ sndCurrSeqNo' \in Int
          /\ rcvCurrSeqNo \in Int /\ rcvCurrSeqNo' \in Int
          /\ rcvLastAck \in Nat /\ rcvLastAck' \in Nat
      BY DEF IInv, TypeOK
    <2>4. (k.type = "data" => k.seq <= sndCurrSeqNo /\ k.arg = k.seq)'
      BY <2>1, <2>3 DEF Truthful
    <2>5. (k.type \in {"ack", "ack2"} => k.seq <= rcvLastAck)'
      BY <2>1, <2>3 DEF Truthful
    <2>6. (k.type = "nak" => k.seq <= k.arg /\ k.arg <= rcvCurrSeqNo)'
      BY <2>1, <2>3 DEF Truthful
    <2>. QED  BY <2>2, <2>4, <2>5, <2>6, Zenon DEF Truthful
  <1>. QED  BY <1>1

-----------------------------------------------------------------------------
(* The connection starts in the invariant.                                 *)
LEMMA InitEstablishes == Init => IInv
  <1>. SUFFICES ASSUME Init PROVE IInv
    OBVIOUS
  <1>. USE TransferAssumption DEF Init
  <1>1. TypeOK
    <2>1. delivered \in Seq(Seqs)
      OBVIOUS
    <2>2. rcvBuf \in [Seqs -> Seqs \cup {NULL}]
      OBVIOUS
    <2>3. written \in 0..N /\ flowWindow \in Int
      OBVIOUS
    <2>4. ifsEof \in BOOLEAN /\ appUpd \in BOOLEAN /\ onSndUList \in BOOLEAN
          /\ rcvBroken \in BOOLEAN
      OBVIOUS
    <2>5. sndCurrSeqNo \in Int /\ rcvCurrSeqNo \in Int /\ sndCount \in Int /\ packArg \in Int
      OBVIOUS
    <2>6. sndFirst \in Nat /\ sndNext \in Nat /\ sndLastAck \in Nat /\ ackArg \in Nat
          /\ sndLastDataAck \in Nat /\ rcvLastAck \in Nat /\ rcvLastAckAck \in Nat
      OBVIOUS
    <2>7. sndLossList \subseteq Nat /\ rcvLossList \subseteq Seqs /\ net \subseteq Message
      OBVIOUS
    <2>8. sndBroken \in {"no", "ack", "nak", "exp"} /\ sndPc \in {"idle", "lost", "new"}
          /\ rcvPc \in {"idle", "ack", "update"}
      OBVIOUS
    <2>. QED  BY ONLY <2>1, <2>2, <2>3, <2>4, <2>5, <2>6, <2>7, <2>8 DEF TypeOK
  <1>2. Positions /\ FreesOnlyReceived /\ LossListIsHoles /\ ReadableIsStored
    BY DEF Positions, FreesOnlyReceived, LossListIsHoles, ReadableIsStored, Received, Seqs
  <1>3. RingHasRoom /\ RightContents /\ LossWasSent /\ NeverSuspectsPeer
    BY DEF RingHasRoom, RightContents, LossWasSent, NeverSuspectsPeer, Seqs
  <1>. QED  BY <1>1, <1>2, <1>3 DEF IInv

-----------------------------------------------------------------------------
(* The tuples of variables are expanded in every proof below.              *)
USE DEF appVars, bufVars, ackVars, sndVars, lstVars, rcvVars

(* What holds of the receiver's buffer is not disturbed by a step of the   *)
(* sender, of the network, or by an ACK2.                                  *)
LEMMA ReceiverKept ==
    ASSUME IInv, UNCHANGED <<rcvCurrSeqNo, rcvLastAck, rcvLossList, rcvBuf, delivered>>
    PROVE  /\ LossListIsHoles' /\ ReadableIsStored' /\ RingHasRoom' /\ RightContents'
           /\ \A s \in Seqs : Received(s) => Received(s)'
  BY DEF IInv, LossListIsHoles, ReadableIsStored, RingHasRoom, RightContents, Received

(* A step that moves no position of the two sides preserves the invariant  *)
(* when it respects the types and what it adds to the sender's loss list   *)
(* and to the network is right.                                            *)
LEMMA QuietStep ==
    ASSUME IInv, TypeOK', LossWasSent', UNCHANGED written, sndBroken' \in {sndBroken, "exp"},
           UNCHANGED <<sndFirst, sndNext, sndCurrSeqNo, sndLastAck, sndLastDataAck>>,
           UNCHANGED <<ackArg, rcvCurrSeqNo, rcvLastAck, rcvLastAckAck>>,
           UNCHANGED <<rcvLossList, rcvBuf, delivered>>,
           \A k \in net' : k \in net \/ Truthful(k)'
    PROVE  IInv'
  <1>1. Positions' /\ NeverSuspectsPeer'
    BY DEF IInv, Positions, NeverSuspectsPeer
  <1>2. FreesOnlyReceived'
    BY DEF IInv, FreesOnlyReceived, Received
  <1>3. (\A k \in net : Truthful(k))'
    <2>1. /\ sndCurrSeqNo <= sndCurrSeqNo' /\ rcvCurrSeqNo <= rcvCurrSeqNo'
          /\ rcvLastAck <= rcvLastAck'
      BY DEF IInv, TypeOK
    <2>. QED  BY <2>1, ReceiverKept, NetStaysTruthful
  <1>. QED  BY <1>1, <1>2, <1>3, ReceiverKept DEF IInv

(* The steps that only move a socket on or off the send list, break an     *)
(* end, or change nothing.                                                 *)
LEMMA SchedulingStep ==
    ASSUME IInv,
           AppUpdate \/ RcvUpdate \/ PopBroken \/ SndGivesUp \/ RcvGivesUp \/ UNCHANGED vars
    PROVE  IInv'
  <1>1. CASE AppUpdate
    BY <1>1, QuietStep DEF IInv, TypeOK, LossWasSent, AppUpdate
  <1>2. CASE RcvUpdate
    BY <1>2, QuietStep DEF IInv, TypeOK, LossWasSent, RcvUpdate
  <1>3. CASE PopBroken
    BY <1>3, QuietStep DEF IInv, TypeOK, LossWasSent, PopBroken
  <1>4. CASE SndGivesUp
    BY <1>4, QuietStep DEF IInv, TypeOK, LossWasSent, SndGivesUp
  <1>5. CASE RcvGivesUp
    BY <1>5, QuietStep DEF IInv, TypeOK, LossWasSent, RcvGivesUp
  <1>6. CASE UNCHANGED vars
    BY <1>6, QuietStep DEF IInv, TypeOK, LossWasSent, vars
  <1>. QED  BY <1>1, <1>2, <1>3, <1>4, <1>5, <1>6

(* A block of the file enters the send buffer.                             *)
LEMMA SendBlockStep ==
    ASSUME IInv, SendBlock
    PROVE  IInv'
  <1>1. TypeOK'
    BY TransferAssumption DEF IInv, SendBlock, TypeOK, Positions, Min2, CountAdded, Seqs
  <1>2. Positions'
    BY TransferAssumption DEF IInv, SendBlock, TypeOK, Positions, Min2
  <1>3. FreesOnlyReceived'
    BY TransferAssumption
       DEF IInv, SendBlock, TypeOK, Positions, FreesOnlyReceived, Received, Seqs
  <1>4. (LossListIsHoles /\ ReadableIsStored /\ RingHasRoom /\ RightContents)'
    BY DEF IInv, SendBlock, LossListIsHoles, ReadableIsStored, RingHasRoom, RightContents
  <1>5. LossWasSent'
    BY TransferAssumption DEF IInv, SendBlock, TypeOK, Positions, LossWasSent
  <1>6. NeverSuspectsPeer'
    BY DEF IInv, SendBlock, NeverSuspectsPeer
  <1>7. (\A k \in net : Truthful(k))'
    BY DEF IInv, SendBlock, Truthful, Received
  <1>. QED  BY <1>1, <1>2, <1>3, <1>4, <1>5, <1>6, <1>7 DEF IInv

(* The least lost number is taken from the loss list.                      *)
LEMMA PopLostStep ==
    ASSUME IInv, PopLost
    PROVE  IInv'
  <1>0. Least(sndLossList) \in sndLossList
    BY LeastProperty DEF IInv, TypeOK, PopLost
  <1>0a. packArg' \in Nat /\ packArg' <= sndCurrSeqNo /\ sndLossList' \subseteq sndLossList
    BY <1>0 DEF IInv, TypeOK, LossWasSent, PopLost
  <1>1. TypeOK'
    <2>1. sndLossList' \subseteq Nat /\ packArg' \in Int
      BY <1>0a DEF IInv, TypeOK
    <2>. QED  BY <2>1 DEF IInv, PopLost, TypeOK, Seqs
  <1>2. LossWasSent'
    BY <1>0a DEF IInv, PopLost, LossWasSent
  <1>. QED  BY <1>1, <1>2, QuietStep DEF PopLost

(* The window is read.                                                     *)
LEMMA PopNewStep ==
    ASSUME IInv, PopNew
    PROVE  IInv'
  <1>0. packArg' \in Int
    BY TransferAssumption DEF IInv, TypeOK, PopNew, Min2
  <1>1. TypeOK'
    BY <1>0 DEF IInv, PopNew, TypeOK, Seqs
  <1>2. LossWasSent'
    BY DEF IInv, PopNew, LossWasSent
  <1>. QED  BY <1>1, <1>2, <1>0, QuietStep DEF PopNew

(* A lost packet is sent again, with the block of its number.              *)
LEMMA RetransmitStep ==
    ASSUME IInv, Retransmit
    PROVE  IInv'
  <1>0. \A k \in net' : k \in net \/ (k \in Message /\ Truthful(k)')
    <2>. SUFFICES ASSUME NEW k \in net', k \notin net PROVE k \in Message /\ Truthful(k)'
      OBVIOUS
    <2>1. StillUnacked(packArg) /\ k = Data(packArg, BlockAt(packArg))
      BY SendAddsOnly DEF Retransmit
    <2>2. k \in Message /\ k.type = "data" /\ k.seq = packArg /\ k.arg = packArg
      BY <2>1
         DEF IInv, TypeOK, Positions, LossWasSent, Retransmit, BlockAt, StillUnacked, Max2, Data, Message
    <2>. QED  BY <2>2 DEF IInv, LossWasSent, Retransmit, Truthful
  <1>1. TypeOK'
    <2>1. net' \subseteq Message
      BY <1>0 DEF IInv, TypeOK
    <2>2. (onSndUList \in BOOLEAN)'
      BY DEF IInv, Retransmit, TypeOK, Positions, PutBack
    <2>. QED  BY <2>1, <2>2 DEF IInv, Retransmit, TypeOK, Seqs
  <1>2. LossWasSent'
    BY DEF IInv, Retransmit, LossWasSent
  <1>. QED  BY <1>1, <1>2, <1>0, QuietStep DEF Retransmit

(* A new packet is sent, with the block that comes next.                   *)
LEMMA PackNewStep ==
    ASSUME IInv, PackNew
    PROVE  IInv'
  <1>0. \A k \in net' : k \in net \/ (k \in Message /\ Truthful(k)')
    <2>. SUFFICES ASSUME NEW k \in net', k \notin net PROVE k \in Message /\ Truthful(k)'
      OBVIOUS
    <2>1. WindowAllows /\ sndNext # written /\ k = Data(sndCurrSeqNo', sndNext)
      BY SendAddsOnly DEF PackNew
    <2>2. k \in Message /\ k.type = "data" /\ k.seq = sndCurrSeqNo' /\ k.arg = k.seq
      BY <2>1 DEF IInv, TypeOK, Positions, PackNew, Data, Message
    <2>. QED  BY <2>2 DEF IInv, TypeOK, Positions, PackNew, Truthful
  <1>1. TypeOK'
    <2>1. net' \subseteq Message
      BY <1>0 DEF IInv, TypeOK
    <2>2. onSndUList' \in BOOLEAN
      BY DEF IInv, PackNew, TypeOK, PutBack
    <2>3. sndCurrSeqNo' \in Int
      BY DEF IInv, PackNew, TypeOK
    <2>4. sndNext' \in Nat
      BY DEF IInv, PackNew, TypeOK
    <2>. QED  BY <2>1, <2>2, <2>3, <2>4 DEF IInv, PackNew, TypeOK, Seqs
  <1>2. Positions'
    BY TransferAssumption DEF IInv, PackNew, TypeOK, Positions
  <1>3. FreesOnlyReceived'
    BY TransferAssumption
       DEF IInv, PackNew, TypeOK, Positions, FreesOnlyReceived, Received, Seqs
  <1>4. LossListIsHoles' /\ ReadableIsStored' /\ RingHasRoom' /\ RightContents'
    BY ReceiverKept DEF PackNew
  <1>5. LossWasSent'
    BY DEF IInv, PackNew, TypeOK, Positions, LossWasSent
  <1>6. NeverSuspectsPeer'
    BY DEF IInv, PackNew, NeverSuspectsPeer
  <1>7. (\A k \in net : Truthful(k))'
    <2>1. \A s \in Seqs : Received(s) => Received(s)'
      BY ReceiverKept DEF PackNew
    <2>2. /\ sndCurrSeqNo <= sndCurrSeqNo' /\ rcvCurrSeqNo <= rcvCurrSeqNo'
          /\ rcvLastAck <= rcvLastAck'
      BY DEF IInv, TypeOK, PackNew
    <2>. QED  BY <1>0, <1>1, <2>1, <2>2, NetStaysTruthful
  <1>. QED  BY <1>1, <1>2, <1>3, <1>4, <1>5, <1>6, <1>7 DEF IInv

(* A light ACK moves m_iSndLastAck to what the receiver has.               *)
LEMMA ProcessLiteAckStep ==
    ASSUME IInv, NEW m \in net, ProcessLiteAck(m)
    PROVE  IInv'
  <1>0. \A k \in net' : k \in net \/ (k \in Message /\ Truthful(k)')
    BY ReplyAddsOnly DEF ProcessLiteAck
  <1>0a. m \in Message /\ Truthful(m)
    BY DEF IInv, TypeOK
  <1>1. TypeOK'
    <2>1. net' \subseteq Message
      BY <1>0 DEF IInv, TypeOK
    <2>. QED  BY <1>0a, <2>1 DEF IInv, ProcessLiteAck, TypeOK, Message, Seqs
  <1>2. Positions'
    BY TransferAssumption DEF IInv, ProcessLiteAck, TypeOK, Positions
  <1>3. FreesOnlyReceived'
    BY <1>0a
       DEF IInv, ProcessLiteAck, TypeOK, Positions, FreesOnlyReceived, Received, Truthful
  <1>4. LossListIsHoles' /\ ReadableIsStored' /\ RingHasRoom' /\ RightContents'
    BY ReceiverKept DEF ProcessLiteAck
  <1>5. LossWasSent'
    BY TransferAssumption DEF IInv, ProcessLiteAck, TypeOK, Positions, LossWasSent
  <1>6. NeverSuspectsPeer'
    BY DEF IInv, ProcessLiteAck, NeverSuspectsPeer
  <1>7. (\A k \in net : Truthful(k))'
    <2>1. \A s \in Seqs : Received(s) => Received(s)'
      BY ReceiverKept DEF ProcessLiteAck
    <2>2. /\ sndCurrSeqNo <= sndCurrSeqNo' /\ rcvCurrSeqNo <= rcvCurrSeqNo'
          /\ rcvLastAck <= rcvLastAck'
      BY DEF IInv, TypeOK, ProcessLiteAck
    <2>. QED  BY <1>0, <1>1, <2>1, <2>2, NetStaysTruthful
  <1>. QED  BY <1>1, <1>2, <1>3, <1>4, <1>5, <1>6, <1>7 DEF IInv

(* A full ACK names what is acknowledged at the receiver.                  *)
LEMMA ProcessAckStep ==
    ASSUME IInv, NEW m \in net, ProcessAck(m)
    PROVE  IInv'
  <1>0a. m \in Message /\ m.seq \in Nat /\ m.arg \in Nat /\ m.seq <= rcvLastAck
    BY DEF IInv, TypeOK, Message, Truthful, ProcessAck
  <1>0. \A k \in net' : k \in net \/ (k \in Message /\ Truthful(k)')
    <2>. SUFFICES ASSUME NEW k \in net', k \notin net PROVE k \in Message /\ Truthful(k)'
      OBVIOUS
    <2>1. k = Ack2(m.seq)
      BY ReplyAddsOnly DEF ProcessAck
    <2>2. k \in Message /\ k.type = "ack2" /\ k.seq = m.seq
      BY <1>0a, <2>1 DEF Ack2, Message
    <2>. QED  BY <1>0a, <2>2 DEF ProcessAck, Truthful
  <1>0b. m.seq <= sndCurrSeqNo + 1 /\ UNCHANGED sndBroken
    BY <1>0a DEF IInv, TypeOK, Positions, ProcessAck
  <1>1. TypeOK'
    <2>1. net' \subseteq Message
      BY <1>0 DEF IInv, TypeOK
    <2>2. (flowWindow \in Int /\ sndLastAck \in Nat)'
      BY <1>0a, <1>0b DEF IInv, ProcessAck, TypeOK
    <2>. QED  BY <1>0a, <1>0b, <2>1, <2>2 DEF IInv, ProcessAck, TypeOK, Seqs
  <1>2. Positions'
    BY <1>0a, <1>0b DEF IInv, ProcessAck, TypeOK, Positions, FreesOnlyReceived
  <1>3. FreesOnlyReceived'
    BY <1>0a, <1>0b DEF IInv, ProcessAck, TypeOK, FreesOnlyReceived, Received, Seqs
  <1>4. LossListIsHoles' /\ ReadableIsStored' /\ RingHasRoom' /\ RightContents'
    BY ReceiverKept DEF ProcessAck
  <1>5. LossWasSent'
    BY DEF IInv, ProcessAck, LossWasSent
  <1>6. NeverSuspectsPeer'
    BY <1>0b DEF IInv, NeverSuspectsPeer
  <1>7. (\A k \in net : Truthful(k))'
    <2>1. \A s \in Seqs : Received(s) => Received(s)'
      BY ReceiverKept DEF ProcessAck
    <2>2. /\ sndCurrSeqNo <= sndCurrSeqNo' /\ rcvCurrSeqNo <= rcvCurrSeqNo'
          /\ rcvLastAck <= rcvLastAck'
      BY DEF IInv, TypeOK, ProcessAck
    <2>. QED  BY <1>0, <1>1, <2>1, <2>2, NetStaysTruthful
  <1>. QED  BY <1>1, <1>2, <1>3, <1>4, <1>5, <1>6, <1>7 DEF IInv

(* What is freed is acknowledged at the receiver.                          *)
LEMMA FreeAckedStep ==
    ASSUME IInv, FreeAcked
    PROVE  IInv'
  <1>1. TypeOK'
    <2>1. (sndFirst \in Nat /\ sndCount \in Int /\ sndLastDataAck \in Nat)'
      BY DEF IInv, FreeAcked, TypeOK
    <2>2. (sndLossList \subseteq Nat /\ rcvPc \in {"idle", "ack", "update"} /\ ackArg \in Nat)'
      BY DEF IInv, FreeAcked, TypeOK, LossAfterAck
    <2>. QED  BY <2>1, <2>2 DEF IInv, FreeAcked, TypeOK, Seqs
  <1>2. Positions' /\ sndFirst' <= rcvLastAck'
    BY DEF IInv, FreeAcked, TypeOK, Positions, FreesOnlyReceived
  <1>3. FreesOnlyReceived'
    BY <1>2 DEF IInv, FreeAcked, FreesOnlyReceived, Received
  <1>4. LossListIsHoles' /\ ReadableIsStored' /\ RingHasRoom' /\ RightContents'
    BY ReceiverKept DEF FreeAcked
  <1>5. LossWasSent' /\ NeverSuspectsPeer'
    BY DEF IInv, FreeAcked, LossWasSent, LossAfterAck, NeverSuspectsPeer
  <1>6. (\A k \in net : Truthful(k))'
    BY DEF IInv, FreeAcked, Truthful, Received
  <1>. QED  BY <1>1, <1>2, <1>3, <1>4, <1>5, <1>6 DEF IInv

(* A loss report names only numbers that were sent.                        *)
LEMMA ProcessNakStep ==
    ASSUME IInv, NEW m \in net, ProcessNak(m)
    PROVE  IInv'
  <1>0. \A k \in net' : k \in net \/ (k \in Message /\ Truthful(k)')
    BY ReplyAddsOnly DEF ProcessNak
  <1>0a. m \in Message /\ m.seq \in Nat /\ m.arg \in Nat /\ m.seq <= m.arg /\ m.arg <= sndCurrSeqNo
    BY DEF IInv, TypeOK, Positions, Message, Truthful, ProcessNak
  <1>0b. UNCHANGED sndBroken /\ sndLossList' = sndLossList \cup (Max2(m.seq, sndLastAck)..m.arg)
    BY <1>0a DEF ProcessNak, BelievableNak
  <1>1. TypeOK'
    <2>1. net' \subseteq Message
      BY <1>0 DEF IInv, TypeOK
    <2>2. Max2(m.seq, sndLastAck)..m.arg \subseteq Nat /\ sndLossList \subseteq Nat
      BY <1>0a DEF IInv, TypeOK, Max2
    <2>3. sndLossList' \subseteq Nat
      BY <1>0a, <1>0b, <2>2
    <2>. QED  BY <1>0b, <2>1, <2>3 DEF IInv, ProcessNak, TypeOK, Seqs
  <1>2. LossWasSent'
    BY <1>0a, <1>0b DEF IInv, TypeOK, Positions, ProcessNak, LossWasSent, Max2
  <1>. QED  BY <1>1, <1>2, <1>0, <1>0b, QuietStep DEF ProcessNak

(* What is in flight was sent.                                             *)
LEMMA ExpTimerStep ==
    ASSUME IInv, ExpTimer
    PROVE  IInv'
  <1>1. TypeOK'
    BY TransferAssumption DEF IInv, ExpTimer, TypeOK, Positions, Seqs
  <1>2. LossWasSent'
    BY DEF IInv, ExpTimer, LossWasSent
  <1>. QED  BY <1>1, <1>2, QuietStep DEF ExpTimer

(* A packet outside the window or received before changes nothing.         *)
LEMMA DiscardDataStep ==
    ASSUME IInv, NEW m \in net, DiscardData(m)
    PROVE  IInv'
  <1>0. \A k \in net' : k \in net \/ (k \in Message /\ Truthful(k)')
    BY ReplyAddsOnly DEF DiscardData
  <1>1. TypeOK'
    <2>1. net' \subseteq Message
      BY <1>0 DEF IInv, TypeOK
    <2>. QED  BY <2>1 DEF IInv, DiscardData, TypeOK, Seqs
  <1>2. LossWasSent'
    BY DEF IInv, DiscardData, LossWasSent
  <1>. QED  BY <1>1, <1>2, <1>0, QuietStep DEF DiscardData

(* Nothing but the network changes.                                        *)
LEMMA LoseStep ==
    ASSUME IInv, NEW m \in net, Lose(m)
    PROVE  IInv'
  <1>0. \A k \in net' : k \in net \/ (k \in Message /\ Truthful(k)')
    BY DEF Lose
  <1>1. TypeOK'
    <2>1. net' \subseteq Message
      BY <1>0 DEF IInv, TypeOK
    <2>. QED  BY <2>1 DEF IInv, Lose, TypeOK, Seqs
  <1>2. LossWasSent'
    BY DEF IInv, Lose, LossWasSent
  <1>. QED  BY <1>1, <1>2, <1>0, QuietStep DEF Lose

(* A light ACK names the first number the receiver misses.                 *)
LEMMA LiteAckTimerStep ==
    ASSUME IInv, LiteAckTimer
    PROVE  IInv'
  <1>0. \A k \in net' : k \in net \/ (k \in Message /\ Truthful(k)')
    <2>. SUFFICES ASSUME NEW k \in net', k \notin net PROVE k \in Message /\ Truthful(k)'
      OBVIOUS
    <2>1. k = Lite(AckPoint)
      BY SendAddsOnly DEF LiteAckTimer
    <2>2. k \in Message /\ k.type = "lite" /\ \A s \in Seqs : s < k.seq => Received(s)
      BY <2>1, AckPointProperty DEF Lite, Message
    <2>. QED  BY <2>2 DEF LiteAckTimer, Truthful, Received
  <1>1. TypeOK'
    <2>1. net' \subseteq Message
      BY <1>0 DEF IInv, TypeOK
    <2>. QED  BY <2>1 DEF IInv, LiteAckTimer, TypeOK, Seqs
  <1>2. LossWasSent'
    BY DEF IInv, LiteAckTimer, LossWasSent
  <1>. QED  BY <1>1, <1>2, <1>0, QuietStep DEF LiteAckTimer

(* highest number received.                                                *)
LEMMA NakTimerStep ==
    ASSUME IInv, NakTimer
    PROVE  IInv'
  <1>0. \A k \in net' : k \in net \/ (k \in Message /\ Truthful(k)')
    <2>. SUFFICES ASSUME NEW k \in net', k \notin net PROVE k \in Message /\ Truthful(k)'
      OBVIOUS
    <2>1. PICK r \in Runs(rcvLossList) : k = Nak(r[1], r[2])
      BY SendAddsOnly DEF NakTimer
    <2>2. r[1] \in Nat /\ r[2] \in Nat /\ r[1] <= r[2] /\ r[2] <= rcvCurrSeqNo
      BY DEF IInv, TypeOK, LossListIsHoles, Runs, Seqs
    <2>3. k \in Message /\ k.type = "nak" /\ k.seq = r[1] /\ k.arg = r[2]
      BY <2>1, <2>2 DEF Nak, Message
    <2>. QED  BY <2>2, <2>3 DEF NakTimer, Truthful
  <1>1. TypeOK'
    <2>1. net' \subseteq Message
      BY <1>0 DEF IInv, TypeOK
    <2>. QED  BY <2>1 DEF IInv, NakTimer, TypeOK, Seqs
  <1>2. LossWasSent'
    BY DEF IInv, NakTimer, LossWasSent
  <1>. QED  BY <1>1, <1>2, <1>0, QuietStep DEF NakTimer

(* An ACK2 names an acknowledgement that was sent.                         *)
LEMMA ProcessAck2Step ==
    ASSUME IInv, NEW m \in net, ProcessAck2(m)
    PROVE  IInv'
  <1>0. \A k \in net' : k \in net \/ (k \in Message /\ Truthful(k)')
    BY ReplyAddsOnly DEF ProcessAck2
  <1>0a. m.seq \in Nat /\ m.seq <= rcvLastAck
    BY DEF IInv, TypeOK, Message, Truthful, ProcessAck2
  <1>1. TypeOK'
    <2>1. net' \subseteq Message
      BY <1>0 DEF IInv, TypeOK
    <2>2. rcvLastAckAck' \in Nat
      BY <1>0a DEF IInv, TypeOK, ProcessAck2, NewestAck2, Max2
    <2>. QED  BY <2>1, <2>2 DEF IInv, ProcessAck2, TypeOK, Seqs
  <1>2. Positions'
    BY <1>0a DEF IInv, ProcessAck2, TypeOK, Positions, NewestAck2, Max2
  <1>3. FreesOnlyReceived'
    BY TransferAssumption
       DEF IInv, ProcessAck2, TypeOK, Positions, FreesOnlyReceived, Received, Seqs
  <1>4. LossListIsHoles' /\ ReadableIsStored' /\ RingHasRoom' /\ RightContents'
    BY ReceiverKept DEF ProcessAck2
  <1>5. LossWasSent'
    BY TransferAssumption DEF IInv, ProcessAck2, TypeOK, Positions, LossWasSent
  <1>6. NeverSuspectsPeer'
    BY DEF IInv, ProcessAck2, NeverSuspectsPeer
  <1>7. (\A k \in net : Truthful(k))'
    <2>1. \A s \in Seqs : Received(s) => Received(s)'
      BY ReceiverKept DEF ProcessAck2
    <2>2. /\ sndCurrSeqNo <= sndCurrSeqNo' /\ rcvCurrSeqNo <= rcvCurrSeqNo'
          /\ rcvLastAck <= rcvLastAck'
      BY DEF IInv, TypeOK, ProcessAck2
    <2>. QED  BY <1>0, <1>1, <2>1, <2>2, NetStaysTruthful
  <1>. QED  BY <1>1, <1>2, <1>3, <1>4, <1>5, <1>6, <1>7 DEF IInv

(* An ACK makes readable what was received without a hole.                 *)
LEMMA AckTimerStep ==
    ASSUME IInv, AckTimer
    PROVE  IInv'
  <1>a. /\ AckPoint \in Nat /\ rcvLastAck <= AckPoint /\ AckPoint <= rcvCurrSeqNo + 1
        /\ \A s \in Seqs : s < AckPoint => Received(s)
    BY AckPointProperty
  <1>b. rcvLastAck' = AckPoint
    BY DEF AckTimer
  <1>0. \A k \in net' : k \in net \/ (k \in Message /\ Truthful(k)')
    <2>. SUFFICES ASSUME NEW k \in net', k \notin net PROVE k \in Message /\ Truthful(k)'
      OBVIOUS
    <2>1. k = Ack(AckPoint, AdvertisedWindow(AckPoint))
      BY SendAddsOnly DEF AckTimer
    <2>2. AdvertisedWindow(AckPoint) \in Nat
      BY <1>a, TransferAssumption DEF IInv, TypeOK, AdvertisedWindow, AvailBufSize, Max2
    <2>3. k \in Message /\ k.type = "ack" /\ k.seq = AckPoint
      BY <1>a, <2>1, <2>2 DEF Ack, Message
    <2>. QED  BY <1>a, <1>b, <2>3 DEF Truthful
  <1>1. TypeOK'
    <2>1. net' \subseteq Message
      BY <1>0 DEF IInv, TypeOK
    <2>. QED  BY <1>a, <1>b, <2>1 DEF IInv, AckTimer, TypeOK, Seqs
  <1>2. Positions'
    BY <1>a, <1>b DEF IInv, AckTimer, TypeOK, Positions
  <1>3. FreesOnlyReceived'
    BY <1>a, <1>b DEF IInv, AckTimer, TypeOK, FreesOnlyReceived, Received, Seqs
  <1>4a. LossListIsHoles'
    <2>1. \A s \in Seqs : s < AckPoint /\ rcvLastAck <= s => rcvBuf[s] # NULL
      BY <1>a DEF IInv, TypeOK, Received, Seqs
    <2>. QED  BY <1>a, <1>b, <2>1 DEF IInv, AckTimer, TypeOK, LossListIsHoles, Seqs
  <1>4b. ReadableIsStored'
    BY <1>a, <1>b DEF IInv, AckTimer, TypeOK, ReadableIsStored, Received, Seqs
  <1>4c. (RingHasRoom /\ RightContents)'
    BY DEF IInv, AckTimer, RingHasRoom, RightContents
  <1>5. LossWasSent'
    BY TransferAssumption DEF IInv, AckTimer, TypeOK, Positions, LossWasSent
  <1>6. NeverSuspectsPeer'
    BY DEF IInv, AckTimer, NeverSuspectsPeer
  <1>7. (\A k \in net : Truthful(k))'
    <2>1. \A s \in Seqs : Received(s) => Received(s)'
      BY <1>a, <1>b DEF IInv, TypeOK, AckTimer, Received, Seqs
    <2>2. /\ sndCurrSeqNo <= sndCurrSeqNo' /\ rcvCurrSeqNo <= rcvCurrSeqNo'
          /\ rcvLastAck <= rcvLastAck'
      BY <1>a, <1>b DEF IInv, TypeOK, AckTimer
    <2>. QED  BY <1>0, <1>1, <2>1, <2>2, NetStaysTruthful
  <1>. QED  BY <1>1, <1>2, <1>3, <1>4a, <1>4b, <1>4c, <1>5, <1>6, <1>7 DEF IInv

(* The next packet, which is stored, is given to the application.          *)
LEMMA RecvReadStep ==
    ASSUME IInv, RecvRead
    PROVE  IInv'
  <1>0. \A k \in net' : k \in net \/ (k \in Message /\ Truthful(k)')
    BY DEF RecvRead
  <1>a. /\ Len(delivered) \in Seqs /\ Len(delivered) < rcvLastAck
        /\ rcvBuf[Len(delivered)] = Len(delivered)
    BY TransferAssumption
       DEF IInv, TypeOK, Positions, ReadableIsStored, RightContents, RecvRead, ReadUpTo, Seqs
  <1>b. /\ delivered' \in Seq(Seqs) /\ Len(delivered') = Len(delivered) + 1
        /\ \A i \in 1..Len(delivered') :
              delivered'[i] = IF i <= Len(delivered) THEN delivered[i] ELSE Len(delivered)
    BY <1>a DEF IInv, TypeOK, RecvRead
  <1>c. /\ rcvBuf' \in [Seqs -> Seqs \cup {NULL}]
        /\ \A s \in Seqs : rcvBuf'[s] = IF s = Len(delivered) THEN NULL ELSE rcvBuf[s]
    BY <1>a DEF IInv, TypeOK, RecvRead
  <1>1. TypeOK'
    BY <1>b, <1>c DEF IInv, RecvRead, TypeOK
  <1>2. Positions'
    BY <1>a, <1>b DEF IInv, RecvRead, TypeOK, Positions
  <1>3. FreesOnlyReceived'
    BY <1>a, <1>c DEF IInv, RecvRead, TypeOK, FreesOnlyReceived, Received, Seqs
  <1>4a. LossListIsHoles'
    BY <1>a, <1>c DEF IInv, RecvRead, TypeOK, LossListIsHoles, Seqs
  <1>4b. ReadableIsStored'
    BY <1>a, <1>b, <1>c DEF IInv, RecvRead, TypeOK, ReadableIsStored, Seqs
  <1>4c. RingHasRoom'
    BY <1>a, <1>b, <1>c, TransferAssumption DEF IInv, RecvRead, TypeOK, RingHasRoom, Seqs
  <1>4d. RightContents'
    BY <1>a, <1>b, <1>c DEF IInv, RecvRead, TypeOK, RightContents, Seqs
  <1>5. LossWasSent'
    BY TransferAssumption DEF IInv, RecvRead, TypeOK, Positions, LossWasSent
  <1>6. NeverSuspectsPeer'
    BY DEF IInv, RecvRead, NeverSuspectsPeer
  <1>7. (\A k \in net : Truthful(k))'
    <2>1. \A s \in Seqs : Received(s) => Received(s)'
      BY <1>a, <1>c DEF IInv, TypeOK, RecvRead, Received, Seqs
    <2>2. /\ sndCurrSeqNo <= sndCurrSeqNo' /\ rcvCurrSeqNo <= rcvCurrSeqNo'
          /\ rcvLastAck <= rcvLastAck'
      BY DEF IInv, TypeOK, RecvRead
    <2>. QED  BY <1>0, <1>1, <2>1, <2>2, NetStaysTruthful
  <1>. QED  BY <1>1, <1>2, <1>3, <1>4a, <1>4b, <1>4c, <1>4d, <1>5, <1>6, <1>7 DEF IInv

(* A packet is stored; the numbers it skips become holes.                  *)
LEMMA AcceptDataStep ==
    ASSUME IInv, NEW m \in net, AcceptData(m)
    PROVE  IInv'
  <1>a. /\ m \in Message /\ m.seq \in Seqs /\ m.arg = m.seq /\ m.seq <= sndCurrSeqNo
        /\ rcvLastAck <= m.seq /\ rcvBuf[m.seq] = NULL
        /\ m.seq < Len(delivered) + RcvBufSize - 1
    BY TransferAssumption
       DEF IInv, TypeOK, Positions, Message, Truthful, AcceptData, Acceptable, AvailBufSize, Seqs
  <1>b. /\ rcvBuf' \in [Seqs -> Seqs \cup {NULL}]
        /\ \A s \in Seqs : rcvBuf'[s] = IF s = m.seq THEN m.seq ELSE rcvBuf[s]
    BY <1>a DEF IInv, TypeOK, AcceptData
  <1>c. rcvCurrSeqNo' = IF m.seq > rcvCurrSeqNo THEN m.seq ELSE rcvCurrSeqNo
    BY DEF AcceptData
  <1>d. m.seq # NULL /\ \A s \in Seqs : s # NULL
    BY <1>a, TransferAssumption DEF Seqs
  <1>e. Gap(m.seq) = {s \in Seqs : rcvCurrSeqNo < s /\ s < m.seq}
    <2>1. /\ rcvCurrSeqNo \in Int /\ -1 <= rcvCurrSeqNo /\ N \in Nat
          /\ m.seq \in Nat /\ m.seq <= N - 1
      BY <1>a, TransferAssumption DEF IInv, TypeOK, Positions, Seqs
    <2>2. ASSUME NEW s PROVE s \in (rcvCurrSeqNo + 1)..(m.seq - 1)
                         <=> s \in 0..(N - 1) /\ rcvCurrSeqNo < s /\ s < m.seq
      BY <2>1
    <2>. QED  BY <2>2, Zenon DEF Gap, Seqs
  <1>0. \A k \in net' : k \in net \/ (k \in Message /\ Truthful(k)')
    <2>. SUFFICES ASSUME NEW k \in net', k \notin net PROVE k \in Message /\ Truthful(k)'
      OBVIOUS
    <2>1. m.seq > rcvCurrSeqNo + 1 /\ k = Nak(rcvCurrSeqNo + 1, m.seq - 1)
      BY ReplyAddsOnly DEF AcceptData
    <2>2. k \in Message /\ k.type = "nak" /\ k.seq <= k.arg /\ k.arg <= rcvCurrSeqNo'
      BY <1>a, <1>c, <2>1 DEF IInv, TypeOK, Positions, Nak, Message, Seqs
    <2>. QED  BY <2>2 DEF Truthful
  <1>1. TypeOK'
    <2>1. net' \subseteq Message
      BY <1>0 DEF IInv, TypeOK
    <2>2. rcvLossList' \subseteq Seqs
      BY <1>e DEF IInv, AcceptData, TypeOK
    <2>3. rcvCurrSeqNo' \in Int
      BY <1>a, <1>c DEF IInv, TypeOK, Seqs
    <2>. QED  BY <1>b, <2>1, <2>2, <2>3 DEF IInv, AcceptData, TypeOK
  <1>2. Positions'
    BY <1>a, <1>c DEF IInv, AcceptData, TypeOK, Positions, Seqs
  <1>3. FreesOnlyReceived'
    BY <1>a, <1>b, <1>d DEF IInv, AcceptData, TypeOK, FreesOnlyReceived, Received, Seqs
  <1>4a. LossListIsHoles'
    <2>1. CASE m.seq > rcvCurrSeqNo
      <3>1. rcvLossList' = rcvLossList \cup Gap(m.seq)
        BY <2>1 DEF AcceptData
      <3>2. \A s \in Seqs : s > rcvCurrSeqNo => rcvBuf[s] = NULL
        BY DEF IInv, TypeOK, RightContents, Seqs
      <3>. QED  BY <1>a, <1>b, <1>c, <1>d, <1>e, <2>1, <3>1, <3>2
         DEF IInv, AcceptData, TypeOK, Positions, LossListIsHoles, Seqs
    <2>2. CASE ~(m.seq > rcvCurrSeqNo)
      <3>1. rcvLossList' = rcvLossList \ {m.seq}
        BY <2>2 DEF AcceptData
      <3>. QED  BY <1>a, <1>b, <1>c, <1>d, <2>2, <3>1
         DEF IInv, AcceptData, TypeOK, LossListIsHoles, Seqs
    <2>. QED  BY <2>1, <2>2
  <1>4b. ReadableIsStored'
    BY <1>a, <1>b, <1>d DEF IInv, AcceptData, TypeOK, ReadableIsStored, Seqs
  <1>4c. RingHasRoom'
    BY <1>a, <1>b DEF IInv, AcceptData, TypeOK, Positions, RingHasRoom, Seqs
  <1>4d. RightContents'
    BY <1>a, <1>b, <1>c DEF IInv, AcceptData, TypeOK, RightContents, Seqs
  <1>5. LossWasSent'
    BY TransferAssumption DEF IInv, AcceptData, TypeOK, Positions, LossWasSent
  <1>6. NeverSuspectsPeer'
    BY DEF IInv, AcceptData, NeverSuspectsPeer
  <1>7. (\A k \in net : Truthful(k))'
    <2>1. \A s \in Seqs : Received(s) => Received(s)'
      BY <1>a, <1>b, <1>d DEF IInv, TypeOK, AcceptData, Received, Seqs
    <2>2. /\ sndCurrSeqNo <= sndCurrSeqNo' /\ rcvCurrSeqNo <= rcvCurrSeqNo'
          /\ rcvLastAck <= rcvLastAck'
      BY <1>a, <1>c DEF IInv, TypeOK, AcceptData, Seqs
    <2>. QED  BY <1>0, <1>1, <2>1, <2>2, NetStaysTruthful
  <1>. QED  BY <1>1, <1>2, <1>3, <1>4a, <1>4b, <1>4c, <1>4d, <1>5, <1>6, <1>7 DEF IInv

-----------------------------------------------------------------------------
(* Every step of the connection preserves the invariant.                   *)
LEMMA NextPreserves == IInv /\ [Next]_vars => IInv'
  <1>. SUFFICES ASSUME IInv, [Next]_vars PROVE IInv'
    OBVIOUS
  <1>1. CASE \/ AppUpdate \/ RcvUpdate \/ PopBroken \/ SndGivesUp \/ RcvGivesUp
             \/ AtRest \/ UNCHANGED vars
    BY <1>1, SchedulingStep DEF AtRest
  <1>2. CASE SendBlock
    BY <1>2, SendBlockStep
  <1>3. CASE PopLost
    BY <1>3, PopLostStep
  <1>4. CASE PopNew
    BY <1>4, PopNewStep
  <1>5. CASE Retransmit
    BY <1>5, RetransmitStep
  <1>6. CASE PackNew
    BY <1>6, PackNewStep
  <1>7. CASE ExpTimer
    BY <1>7, ExpTimerStep
  <1>8. CASE AckTimer \/ LiteAckTimer \/ NakTimer
    BY <1>8, AckTimerStep, LiteAckTimerStep, NakTimerStep
  <1>9. CASE RecvRead
    BY <1>9, RecvReadStep
  <1>10. ASSUME NEW m \in net, Receive(m) PROVE IInv'
    BY <1>10, ProcessLiteAckStep, ProcessAckStep, ProcessNakStep,
       DiscardDataStep, AcceptDataStep, ProcessAck2Step DEF Receive
  <1>11. ASSUME NEW m \in net, Lose(m) PROVE IInv'
    BY <1>11, LoseStep
  <1>12. CASE FreeAcked
    BY <1>12, FreeAckedStep
  <1>. QED
    BY <1>1, <1>2, <1>3, <1>4, <1>5, <1>6, <1>7, <1>8, <1>9, <1>10, <1>11, <1>12
    DEF Next, NextWhileUp

(* The inductive invariant holds in every reachable state.                 *)
THEOREM Invariance == Spec => []IInv
  BY InitEstablishes, NextPreserves, PTL DEF Spec

(* Every variable of the connection always has a value of its type; in     *)
(* particular no position leaves the file and no buffered packet is of     *)
(* another stream.                                                         *)
THEOREM TypeCorrect == Spec => []TypeOK
  <1>1. IInv => TypeOK
    BY DEF IInv
  <1>. QED  BY <1>1, Invariance, PTL

(* A block leaves the send buffer only when the receiver has its packet.   *)
THEOREM FreedWasReceived == Spec => []FreesOnlyReceived
  <1>1. IInv => FreesOnlyReceived
    BY DEF IInv
  <1>. QED  BY <1>1, Invariance, PTL

(* The receiver's loss list names exactly the holes of its buffer.         *)
THEOREM LossListCorrect == Spec => []LossListIsHoles
  <1>1. IInv => LossListIsHoles
    BY DEF IInv
  <1>. QED  BY <1>1, Invariance, PTL

(* What recvfile may read is stored.                                       *)
THEOREM ReadableStored == Spec => []ReadableIsStored
  <1>1. IInv => ReadableIsStored
    BY DEF IInv
  <1>. QED  BY <1>1, Invariance, PTL

(* Two stored packets never share a slot of the ring.                      *)
THEOREM RingNeverOverruns == Spec => []RingHasRoom
  <1>1. IInv => RingHasRoom
    BY DEF IInv
  <1>. QED  BY <1>1, Invariance, PTL

(* Every data packet in flight, retransmitted or not, carries the block of *)
(* its number.                                                             *)
THEOREM RightBlocks == Spec => []RetransmitsRightBlock
  <1>1. IInv => RetransmitsRightBlock
    BY DEF IInv, LossWasSent, Truthful, RetransmitsRightBlock
  <1>. QED  BY <1>1, Invariance, PTL

(* Without an attacker the "attack or bug" branches of processCtrl are     *)
(* never taken, whatever the network loses, repeats or reorders.           *)
THEOREM PeerNeverSuspected == Spec => []NeverSuspectsPeer
  <1>1. IInv => NeverSuspectsPeer
    BY DEF IInv
  <1>. QED  BY <1>1, Invariance, PTL

(* No acknowledgement number ever moves back.                              *)
THEOREM AcksAdvance == Spec => AcksNeverRetreat
  <1>. DEFINE Advance ==
         /\ sndLastAck' >= sndLastAck /\ sndLastDataAck' >= sndLastDataAck
         /\ rcvLastAck' >= rcvLastAck /\ rcvLastAckAck' >= rcvLastAckAck
  <1>1. ASSUME IInv, [Next]_vars PROVE Advance
    <2>1. /\ sndLastAck \in Nat /\ sndLastDataAck \in Nat
          /\ rcvLastAck \in Nat /\ rcvLastAckAck \in Nat
      BY <1>1 DEF IInv, TypeOK
    <2>2. ASSUME NEW m \in net, Receive(m) PROVE Advance
      <3>1. m.seq \in Nat
        BY <1>1 DEF IInv, TypeOK, Message
      <3>. QED
        BY <2>1, <2>2, <3>1 DEF Receive, ProcessLiteAck, ProcessAck, ProcessNak,
           DiscardData, AcceptData, ProcessAck2, NewestAck2, Max2
    <2>3. CASE AckTimer
      BY <1>1, <2>1, <2>3, AckPointProperty DEF AckTimer
    <2>4. CASE FreeAcked
      BY <1>1, <2>1, <2>4 DEF IInv, TypeOK, FreeAcked
    <2>5. CASE ~AckTimer /\ ~FreeAcked /\ ~ \E m \in net : Receive(m)
      BY <1>1, <2>1, <2>5 DEF Next, NextWhileUp, SendBlock, AppUpdate, RcvUpdate, PopBroken,
         PopLost, PopNew, Retransmit, PackNew, ExpTimer, LiteAckTimer, NakTimer, RecvRead,
         Lose, AtRest, SndGivesUp, RcvGivesUp, vars
    <2>. QED  BY <2>2, <2>3, <2>4, <2>5
  <1>2. IInv /\ [Next]_vars => [Advance]_vars
    BY <1>1
  <1>. QED  BY <1>2, Invariance, PTL DEF Spec, AcksNeverRetreat

(* The connection implements ReliableStream: SendBlock puts packets in,    *)
(* RecvRead takes the next one out, and every other step is a stutter.     *)
THEOREM ImplementsStream == Spec => IsReliableStream
  <1>1. Init => Stream!Init
    BY DEF Init, Stream!Init
  <1>2. ASSUME IInv, [Next]_vars PROVE [Stream!Next]_<<written, delivered>>
    <2>1. CASE SendBlock
      <3>. DEFINE got == Min2(Min2(Chunk, N - written), FileBlocks - written)
      <3>1. /\ written' = written + got /\ UNCHANGED delivered
            /\ written \in Nat /\ got \in Int /\ got <= Chunk
            /\ 0 <= got /\ written + got <= N
        BY <1>2, <2>1, TransferAssumption DEF IInv, TypeOK, Positions, SendBlock, Min2
      <3>. HIDE DEF got
      <3>2. CASE got = 0
        BY <3>1, <3>2
      <3>3. CASE got # 0
        <4>1. got \in 1..Chunk
          BY <3>1, <3>3, TransferAssumption
        <4>. QED  BY <3>1, <4>1 DEF Stream!Next, Stream!Put
      <3>. QED  BY <3>2, <3>3
    <2>2. CASE RecvRead
      <3>1. Len(delivered) < written /\ rcvBuf[Len(delivered)] = Len(delivered)
        BY <1>2, <2>2, TransferAssumption
       
           DEF IInv, TypeOK, Positions, ReadableIsStored, RightContents, RecvRead, ReadUpTo, Seqs
      <3>. QED  BY <2>2, <3>1 DEF RecvRead, Stream!Next, Stream!Take
    <2>3. CASE ~SendBlock /\ ~RecvRead
      BY <1>2, <2>3 DEF Next, NextWhileUp, AppUpdate, RcvUpdate, PopBroken,
         PopLost, PopNew, Retransmit, PackNew, FreeAcked, ExpTimer, AckTimer, LiteAckTimer, NakTimer,
         Receive, ProcessLiteAck, ProcessAck, ProcessNak, DiscardData, AcceptData, ProcessAck2,
         Lose, AtRest, SndGivesUp, RcvGivesUp, vars
    <2>. QED  BY <2>1, <2>2, <2>3
  <1>. QED  BY <1>1, <1>2, Invariance, PTL DEF Spec, IsReliableStream, Stream!Spec
-----------------------------------------------------------------------------
(* Why no lost packet is stranded.  Scheduled strengthens LossIsScheduled: *)
(* the number that the send thread took was not acknowledged when it was   *)
(* taken, so that it is dropped only when FreeAcked came in between; and   *)
(* then the update that FreeAcked owes is still to come, for it waits for  *)
(* the send thread to leave pop.                                           *)
Scheduled ==
    /\ LossIsScheduled
    /\ \A s \in sndLossList : s >= sndLastDataAck
    /\ sndLastDataAck <= sndLastAck /\ ackArg <= sndLastAck
    /\ sndPc = "lost" => packArg >= sndLastDataAck \/ rcvPc = "update"

LEMMA InitScheduled == Init => Scheduled
  BY DEF Init, Scheduled, LossIsScheduled

LEMMA NextScheduled == IInv /\ Scheduled /\ [Next]_vars => Scheduled'
  <1> SUFFICES ASSUME IInv, Scheduled, [Next]_vars PROVE Scheduled'
    OBVIOUS
  <1>0. /\ sndLastAck \in Nat /\ sndLastDataAck \in Nat /\ ackArg \in Nat /\ packArg \in Int
        /\ sndLossList \subseteq Nat
    BY DEF IInv, TypeOK
  <1> USE DEF Scheduled, LossIsScheduled
  \* the steps that touch none of it
  <1>1. ASSUME UNCHANGED <<sndLossList, sndLastAck, sndLastDataAck, ackArg, sndPc, packArg,
                           sndBroken, onSndUList, rcvPc>>,
               appUpd => appUpd'
        PROVE  Scheduled'
    BY <1>1
  <1>2. CASE SendBlock
    BY <1>2, <1>1 DEF SendBlock
  <1>3. CASE AppUpdate
    BY <1>3 DEF AppUpdate
  <1>4. CASE RcvUpdate
    BY <1>4 DEF RcvUpdate
  <1>5. CASE PopBroken
    BY <1>5 DEF PopBroken
  <1>6. CASE PopLost
    <2>1. Least(sndLossList) \in sndLossList
      BY <1>0, <1>6, LeastProperty DEF PopLost
    <2> QED
      BY <1>6, <2>1 DEF PopLost
  <1>7. CASE PopNew
    BY <1>7 DEF PopNew
  <1>8. CASE Retransmit
    <2>1. CASE StillUnacked(packArg)
      BY <1>8, <2>1 DEF Retransmit, PutBack
    <2>2. CASE ~StillUnacked(packArg)
      <3>1. rcvPc = "update"
        BY <1>0, <1>8, <2>2 DEF Retransmit, StillUnacked
      <3> QED
        BY <1>8, <3>1 DEF Retransmit
    <2> QED
      BY <2>1, <2>2
  <1>9. CASE PackNew
    <2>1. sndPc = "new" /\ sndPc' = "idle" /\ (onSndUList => onSndUList')
          /\ (appUpd => appUpd')
      BY <1>9 DEF PackNew, PutBack
    <2>2. UNCHANGED <<sndLossList, sndLastAck, sndLastDataAck, ackArg, sndBroken, rcvPc>>
      BY <1>9 DEF PackNew
    <2> QED
      BY <2>1, <2>2
  <1>10. CASE FreeAcked
    <2>1. /\ rcvPc = "ack" /\ ackArg' = 0
          /\ UNCHANGED <<sndLastAck, sndBroken, sndPc, packArg>>
          /\ (onSndUList => onSndUList') /\ (appUpd => appUpd')
      BY <1>10 DEF FreeAcked
    <2>2. CASE ackArg > sndLastDataAck
      <3>1. /\ sndLastDataAck' = ackArg /\ rcvPc' = "update"
            /\ sndLossList' = {s \in sndLossList : s >= ackArg}
        BY <1>10, <2>2 DEF FreeAcked, LossAfterAck
      <3> QED
        BY <1>0, <2>1, <3>1
    <2>3. CASE ~(ackArg > sndLastDataAck)
      <3>1. rcvPc' = "idle" /\ UNCHANGED <<sndLastDataAck, sndLossList>>
        BY <1>10, <2>3 DEF FreeAcked
      <3> QED
        BY <1>0, <2>1, <3>1
    <2> QED
      BY <2>2, <2>3
  <1>11. CASE ExpTimer
    BY <1>0, <1>11 DEF ExpTimer, IInv, TypeOK
  <1>12. CASE SndGivesUp
    BY <1>12 DEF SndGivesUp
  <1>13. CASE AckTimer \/ LiteAckTimer \/ NakTimer \/ RecvRead \/ RcvGivesUp \/ AtRest \/ UNCHANGED vars
    BY <1>1, <1>13 DEF AckTimer, LiteAckTimer, NakTimer, RecvRead, RcvGivesUp, AtRest, vars
  <1>14. CASE \E m \in net : Lose(m)
    BY <1>1, <1>14 DEF Lose
  <1>15. ASSUME NEW m \in net, Receive(m) PROVE Scheduled'
    <2>0. m.seq \in Nat /\ m.arg \in Nat
      BY DEF IInv, TypeOK, Message
    <2>1. CASE ProcessLiteAck(m)
      BY <1>0, <2>0, <2>1 DEF ProcessLiteAck
    <2>2. CASE ProcessAck(m)
      BY <1>0, <2>0, <2>2 DEF ProcessAck, SndListens
    <2>3. CASE ProcessNak(m)
      <3>1. \A s \in Max2(m.seq, sndLastAck)..m.arg : s >= sndLastDataAck
        BY <1>0, <2>0 DEF Max2
      <3>2. UNCHANGED <<sndLastAck, sndLastDataAck, ackArg, sndPc, packArg, onSndUList, appUpd>>
        BY <2>3 DEF ProcessNak
      <3>3. CASE sndLossList' = sndLossList \cup (Max2(m.seq, sndLastAck)..m.arg) /\ rcvPc' = "update"
        BY <3>1, <3>2, <3>3
      <3>4. CASE sndBroken' = "nak" /\ UNCHANGED <<sndLossList, rcvPc>>
        BY <3>2, <3>4
      <3> QED
        BY <2>3, <3>3, <3>4 DEF ProcessNak
    <2>4. CASE DiscardData(m) \/ AcceptData(m) \/ ProcessAck2(m)
      BY <1>1, <2>4 DEF DiscardData, AcceptData, ProcessAck2
    <2> QED
      BY <1>15, <2>1, <2>2, <2>3, <2>4 DEF Receive
  <1> QED
    BY <1>2, <1>3, <1>4, <1>5, <1>6, <1>7, <1>8, <1>9, <1>10, <1>11, <1>12, <1>13, <1>14,
       <1>15 DEF Next, NextWhileUp

(* A lost packet is never stranded: while the loss list holds a number,    *)
(* the socket is on the send list, or a thread is about to put it there.   *)
THEOREM LossNeverStranded == Spec => []LossIsScheduled
  <1>1. Scheduled => LossIsScheduled
    BY DEF Scheduled
  <1> QED
    BY <1>1, InitScheduled, NextScheduled, Invariance, PTL DEF Spec

=============================================================================
