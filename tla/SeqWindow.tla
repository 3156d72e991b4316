----------------------------- MODULE SeqWindow -----------------------------
(***************************************************************************)
(* The sender's window on the circle of sequence numbers.  UdtTransfer     *)
(* counts packets from the ISN without end; the code has 31-bit numbers    *)
(* that wrap.  This module runs the sender's window arithmetic with the    *)
(* circular operators of SeqNo, from every initial sequence number, beside *)
(* ghost variables that count without wrapping, and states that the two    *)
(* agree as long as the numbers in use span less than half of the circle.  *)
(*                                                                         *)
(* What is sent: packData.  What is received: a light ACK, a full ACK      *)
(* (perhaps delayed: it may name a number up to Delay packets older than   *)
(* the last one acknowledged) and the numbers of retransmissions.          *)
(***************************************************************************)
EXTENDS SeqNo

CONSTANTS
    Window,         \* the largest flow window
    SndBufSize,     \* blocks the send buffer holds at most
    Delay           \* bound: how old, in packets, a late ACK may be

ASSUME WindowAssumption ==
    /\ Window \in Nat /\ SndBufSize \in Nat /\ Delay \in Nat
    /\ Delay + SndBufSize < SeqNoTH

VARIABLES
    sndCurrSeqNo, sndLastAck, sndLastDataAck,   \* as in CUDT
    sndCount,       \* blocks sent and not freed
    sndBroken,
    \* ghosts: distances on the unwrapped line of packets
    flight,         \* packets sent after sndLastAck
    lag,            \* packets from sndLastDataAck to sndLastAck
    old             \* how far before sndLastDataAck a late ACK may name

vars == <<sndCurrSeqNo, sndLastAck, sndLastDataAck, sndCount, sndBroken,
          flight, lag, old>>

(* The number d places after s (before it, if d is negative).              *)
Shift(s, d) ==
    IF s + d > MaxSeqNo THEN s + d - MaxSeqNo - 1
    ELSE IF s + d < 0 THEN s + d + MaxSeqNo + 1
    ELSE s + d

Pos(d) == Shift(sndLastDataAck, d)
InUse == (-old)..(lag + flight)

(* connect: any ISN; m_iSndCurrSeqNo = ISN - 1, which is -1 for ISN 0.     *)
Init ==
    /\ sndLastAck \in SeqNos
    /\ sndLastDataAck = sndLastAck
    /\ sndCurrSeqNo = sndLastAck - 1
    /\ sndCount = 0 /\ sndBroken = FALSE
    /\ flight = 0 /\ lag = 0 /\ old = 0

PackNew ==
    /\ ~sndBroken
    /\ sndCount < SndBufSize
    /\ \E cwnd \in 0..Window : cwnd >= SeqLen(sndLastAck, IncSeq(sndCurrSeqNo))
    /\ sndCurrSeqNo' = IncSeq(sndCurrSeqNo)
    /\ sndCount' = sndCount + 1
    /\ flight' = flight + 1
    /\ UNCHANGED <<sndLastAck, sndLastDataAck, sndBroken, lag, old>>

LiteAck(d) ==
    /\ ~sndBroken
    /\ IF SeqCmp(Pos(d), sndLastAck) >= 0
       THEN /\ sndLastAck' = Pos(d)
            /\ lag' = d /\ flight' = lag + flight - d
       ELSE UNCHANGED <<sndLastAck, lag, flight>>
    /\ UNCHANGED <<sndCurrSeqNo, sndLastDataAck, sndCount, sndBroken, old>>

(* An ACK of a number not sent yet breaks the connection; one that is not  *)
(* newer than the last frees nothing.                                      *)
FullAck(d) ==
    LET newer == SeqCmp(Pos(d), sndLastAck) >= 0
        offset == SeqOff(sndLastDataAck, Pos(d))
        last == IF newer THEN d ELSE lag
        freed == IF offset > 0 THEN d ELSE 0
    IN
    /\ ~sndBroken
    /\ IF SeqCmp(Pos(d), IncSeq(sndCurrSeqNo)) > 0
       THEN sndBroken' = TRUE
            /\ UNCHANGED <<sndLastAck, sndLastDataAck, sndCount, flight, lag, old>>
       ELSE /\ sndLastAck' = IF newer THEN Pos(d) ELSE sndLastAck
            /\ sndLastDataAck' = IF offset > 0 THEN Pos(d) ELSE sndLastDataAck
            /\ sndCount' = IF offset > 0 THEN sndCount - offset ELSE sndCount
            /\ flight' = lag + flight - last
            /\ lag' = last - freed
            /\ old' = IF old + freed < Delay THEN old + freed ELSE Delay
            /\ UNCHANGED sndBroken
    /\ UNCHANGED sndCurrSeqNo

Next ==
    \/ PackNew
    \/ \E d \in InUse : LiteAck(d)
    \/ \E d \in InUse : FullAck(d)

Spec == Init /\ [][Next]_vars

-----------------------------------------------------------------------------
(* The numbers are numbers of the circle (m_iSndCurrSeqNo may start at -1) *)
(* and the ghosts are within their bounds.                                 *)
TypeOK ==
    /\ sndCurrSeqNo \in -1..MaxSeqNo
    /\ sndLastAck \in SeqNos /\ sndLastDataAck \in SeqNos
    /\ sndCount \in Int /\ sndBroken \in BOOLEAN
    /\ flight \in Nat /\ lag \in Nat /\ old \in 0..Delay

(* seqlen, as packData uses it, is the number of packets in flight and the *)
(* one to come, so that the flow window bounds what is in flight even when *)
(* it contains the end of the circle.                                      *)
LengthIsFlight ==
    /\ SeqLen(sndLastAck, IncSeq(sndCurrSeqNo)) = flight + 1
    /\ flight <= Window

(* seqoff, as processCtrl uses it, frees as many blocks as packets were    *)
(* acknowledged: the send buffer holds what is not acknowledged, exactly.  *)
CountIsHeld == sndCount = lag + flight

(* seqcmp and seqoff order the numbers in use (from the oldest late ACK to *)
(* the next packet to send) by age, wherever the circle ends; packData     *)
(* finds the block of a lost number by this, and tells one that is gone.   *)
OrderIsAge ==
    \A d, e \in InUse :
        /\ SeqOff(Pos(d), Pos(e)) = e - d
        /\ SeqCmp(Pos(d), Pos(e)) > 0 <=> d > e

(* incseq, decseq and the incseq of two arguments walk along the numbers   *)
(* in use.                                                                 *)
StepsFollowCircle ==
    \A d, e \in InUse :
        d < e => /\ IncSeq(Pos(d)) = Pos(d + 1) /\ DecSeq(Pos(d + 1)) = Pos(d)
                 /\ IncSeqBy(Pos(d), e - d) = Pos(e)

(* No ACK that the receiver sent is ever taken for an attack.              *)
NeverSuspectsAck == ~sndBroken

=============================================================================
