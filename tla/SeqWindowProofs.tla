-------------------------- MODULE SeqWindowProofs --------------------------
(***************************************************************************)
(* Proofs about SeqWindow, for a circle of any size: as long as the        *)
(* numbers in use span less than SeqNoTH, the circular operators compute   *)
(* what plain subtraction would on numbers that never wrap.                *)
(***************************************************************************)
EXTENDS SeqWindow, TLAPS

(* The two ends of the window, and the bounds on what is in use.           *)
IInv ==
    /\ TypeOK
    /\ IncSeq(sndCurrSeqNo) = Pos(lag + flight)
    /\ sndLastAck = Pos(lag)
    /\ sndCount = lag + flight /\ sndCount <= SndBufSize
    /\ flight <= Window
    /\ ~sndBroken

-----------------------------------------------------------------------------
(* A number shifted by less than half of the circle is a number.           *)
LEMMA ShiftType ==
    ASSUME NEW s \in SeqNos, NEW d \in Int, -SeqNoTH <= d, d <= SeqNoTH
    PROVE  Shift(s, d) \in SeqNos
  BY SeqNoAssumption DEF Shift, SeqNos

(* Shifts add up.                                                          *)
LEMMA ShiftShift ==
    ASSUME NEW s \in SeqNos, NEW d \in Int, NEW e \in Int,
           -SeqNoTH <= d, d <= SeqNoTH, -SeqNoTH <= e, e <= SeqNoTH,
           -SeqNoTH <= d + e, d + e <= SeqNoTH
    PROVE  Shift(Shift(s, d), e) = Shift(s, d + e)
  BY SeqNoAssumption DEF Shift, SeqNos

(* seqoff is the distance on the unwrapped line, with its sign.            *)
LEMMA SeqOffIsDistance ==
    ASSUME NEW s \in SeqNos, NEW d \in Int, NEW e \in Int,
           -SeqNoTH <= d, d <= SeqNoTH, -SeqNoTH <= e, e <= SeqNoTH,
           -SeqNoTH < e - d, e - d < SeqNoTH
    PROVE  SeqOff(Shift(s, d), Shift(s, e)) = e - d
  BY SeqNoAssumption DEF Shift, SeqNos, SeqOff, Abs

(* seqcmp orders numbers as they are ordered on the unwrapped line.        *)
LEMMA SeqCmpIsOrder ==
    ASSUME NEW s \in SeqNos, NEW d \in Int, NEW e \in Int,
           -SeqNoTH <= d, d <= SeqNoTH, -SeqNoTH <= e, e <= SeqNoTH,
           -SeqNoTH < e - d, e - d < SeqNoTH
    PROVE  /\ SeqCmp(Shift(s, d), Shift(s, e)) > 0 <=> d > e
           /\ SeqCmp(Shift(s, d), Shift(s, e)) >= 0 <=> d >= e
  BY SeqNoAssumption DEF Shift, SeqNos, SeqCmp, Abs

(* seqlen counts both ends.                                                *)
LEMMA SeqLenIsLength ==
    ASSUME NEW s \in SeqNos, NEW d \in Int, NEW e \in Int,
           -SeqNoTH <= d, d <= e, e <= SeqNoTH, e - d < SeqNoTH
    PROVE  SeqLen(Shift(s, d), Shift(s, e)) = e - d + 1
  BY SeqNoAssumption DEF Shift, SeqNos, SeqLen

(* incseq, decseq and the incseq of two arguments are shifts.              *)
LEMMA StepsAreShifts ==
    ASSUME NEW s \in SeqNos
    PROVE  /\ IncSeq(s) = Shift(s, 1) /\ DecSeq(s) = Shift(s, -1)
           /\ \A n \in 0..SeqNoTH : IncSeqBy(s, n) = Shift(s, n)
  BY SeqNoAssumption DEF Shift, SeqNos, IncSeq, DecSeq, IncSeqBy

-----------------------------------------------------------------------------
(* The numbers in use span less than half of the circle.                   *)
LEMMA InUseSpan ==
    ASSUME IInv
    PROVE  /\ sndLastDataAck \in SeqNos /\ SeqNoTH \in Nat /\ SeqNoTH >= 1
           /\ MaxSeqNo \in Nat /\ lag \in Nat /\ flight \in Nat /\ old \in Nat
           /\ old + lag + flight < SeqNoTH
           /\ \A d \in InUse : d \in Int /\ -old <= d /\ d <= lag + flight
  BY SeqNoAssumption, WindowAssumption DEF IInv, TypeOK, InUse

(* Every connection starts in the invariant, ISN 0 included, for which     *)
(* m_iSndCurrSeqNo is -1.                                                  *)
LEMMA InitEstablishes == Init => IInv
  <1>. SUFFICES ASSUME Init PROVE IInv
    OBVIOUS
  <1>1. TypeOK
    <2>1. sndCurrSeqNo \in -1..MaxSeqNo
      BY SeqNoAssumption DEF Init, SeqNos
    <2>2. old \in 0..Delay
      BY WindowAssumption DEF Init
    <2>3. sndCount \in Int /\ flight \in Nat /\ lag \in Nat
      BY DEF Init
    <2>4. sndLastAck \in SeqNos /\ sndLastDataAck \in SeqNos /\ sndBroken \in BOOLEAN
      BY Zenon DEF Init
    <2>. QED  BY <2>1, <2>2, <2>3, <2>4 DEF TypeOK
  <1>2. sndLastAck = Pos(lag) /\ IncSeq(sndCurrSeqNo) = Pos(lag + flight)
    BY SeqNoAssumption DEF Init, Pos, Shift, IncSeq, SeqNos
  <1>. QED  BY <1>1, <1>2, WindowAssumption DEF Init, IInv

(* A packet is sent at the end of the window.                              *)
LEMMA PackNewStep ==
    ASSUME IInv, PackNew
    PROVE  IInv'
  <1>1. SeqLen(sndLastAck, IncSeq(sndCurrSeqNo)) = flight + 1
    BY InUseSpan, SeqLenIsLength DEF IInv, Pos
  <1>2. flight + 1 <= Window
    BY <1>1, WindowAssumption DEF PackNew, IInv, TypeOK
  <1>3. IncSeq(sndCurrSeqNo) \in SeqNos
    BY InUseSpan, ShiftType DEF IInv, Pos
  <1>4. IncSeq(IncSeq(sndCurrSeqNo)) = Pos(lag + flight + 1)
    BY <1>3, InUseSpan, StepsAreShifts, ShiftShift DEF IInv, Pos
  <1>5. TypeOK'
    BY <1>3 DEF PackNew, IInv, TypeOK, SeqNos
  <1>6. sndCount' = (lag + flight)' /\ sndCount' <= SndBufSize
    BY WindowAssumption DEF PackNew, IInv, TypeOK
  <1>7. (IncSeq(sndCurrSeqNo) = Pos(lag + flight) /\ sndLastAck = Pos(lag))'
    BY <1>4, InUseSpan DEF PackNew, IInv, Pos
  <1>. QED  BY <1>2, <1>5, <1>6, <1>7 DEF PackNew, IInv

(* A light ACK moves the start of the window, forward only.                *)
LEMMA LiteAckStep ==
    ASSUME IInv, NEW d \in InUse, LiteAck(d)
    PROVE  IInv'
  <1>1. SeqCmp(Pos(d), sndLastAck) >= 0 <=> d >= lag
    BY InUseSpan, SeqCmpIsOrder DEF IInv, Pos
  <1>2. CASE d >= lag
    <2>1. /\ sndLastAck' = Pos(d) /\ lag' = d /\ flight' = lag + flight - d
          /\ UNCHANGED <<sndCurrSeqNo, sndLastDataAck, sndCount, sndBroken, old>>
      BY <1>1, <1>2 DEF LiteAck
    <2>2. lag' \in Nat /\ flight' \in Nat /\ lag' + flight' = lag + flight /\ flight' <= flight
      BY <1>2, <2>1, InUseSpan
    <2>3. Pos(d) \in SeqNos
      BY InUseSpan, ShiftType DEF Pos
    <2>4. TypeOK'
      BY <2>1, <2>2, <2>3 DEF IInv, TypeOK
    <2>. QED  BY <2>1, <2>2, <2>4, WindowAssumption DEF IInv, TypeOK, Pos
  <1>3. CASE ~(d >= lag)
    <2>1. UNCHANGED vars
      BY <1>1, <1>3 DEF LiteAck, vars
    <2>. QED  BY <2>1 DEF IInv, TypeOK, Pos, vars
  <1>. QED  BY <1>2, <1>3

(* A full ACK frees as many blocks as packets it acknowledges anew.        *)
LEMMA FullAckStep ==
    ASSUME IInv, NEW d \in InUse, FullAck(d)
    PROVE  IInv'
  <1>0. d \in Int /\ -old <= d /\ d <= lag + flight
    BY InUseSpan
  <1>1. /\ SeqCmp(Pos(d), sndLastAck) >= 0 <=> d >= lag
        /\ ~(SeqCmp(Pos(d), IncSeq(sndCurrSeqNo)) > 0)
    BY <1>0, InUseSpan, SeqCmpIsOrder DEF IInv, Pos
  <1>2. sndLastDataAck = Pos(0)
    BY InUseSpan DEF Pos, Shift, SeqNos
  <1>3. SeqOff(sndLastDataAck, Pos(d)) = d
    BY <1>0, InUseSpan, SeqOffIsDistance, <1>2 DEF Pos
  <1>. DEFINE last == IF d >= lag THEN d ELSE lag
              freed == IF d > 0 THEN d ELSE 0
  <1>4. /\ sndLastAck' = Pos(last)
        /\ sndLastDataAck' = Pos(freed)
        /\ sndCount' = sndCount - freed
        /\ flight' = lag + flight - last
        /\ lag' = last - freed
        /\ old' = IF old + freed < Delay THEN old + freed ELSE Delay
        /\ UNCHANGED <<sndCurrSeqNo, sndBroken>>
    <2>1. CASE d > 0
      BY <1>0, <1>1, <1>3, <2>1 DEF FullAck, IInv, TypeOK
    <2>2. CASE ~(d > 0)
      BY <1>0, <1>1, <1>2, <1>3, <2>2 DEF FullAck, IInv, TypeOK
    <2>. QED  BY <2>1, <2>2
  <1>5. /\ last \in Nat /\ freed \in Nat /\ freed <= last /\ lag <= last
        /\ last <= lag + flight /\ freed <= lag + flight
    <2>1. d \in Int /\ lag \in Nat /\ flight \in Nat
      BY <1>0, InUseSpan
    <2>. QED  BY <1>0, <2>1
  <1>. HIDE DEF last, freed
  <1>6. Pos(last) \in SeqNos /\ Pos(freed) \in SeqNos
    BY <1>5, InUseSpan, ShiftType DEF Pos
  <1>7. TypeOK'
    BY <1>4, <1>5, <1>6, InUseSpan, WindowAssumption DEF IInv, TypeOK
  <1>8. /\ Shift(Pos(freed), last - freed) = Pos(last)
        /\ Shift(Pos(freed), lag + flight - freed) = Pos(lag + flight)
    <2>1. /\ last - freed \in Nat /\ lag + flight - freed \in Nat
          /\ freed + (last - freed) = last
          /\ freed + (lag + flight - freed) = lag + flight
          /\ lag + flight <= SeqNoTH
      BY <1>5, InUseSpan
    <2>2. Shift(Pos(freed), last - freed) = Pos(freed + (last - freed))
      BY <1>5, <2>1, InUseSpan, ShiftShift DEF Pos
    <2>3. Shift(Pos(freed), lag + flight - freed) = Pos(freed + (lag + flight - freed))
      BY <1>5, <2>1, InUseSpan, ShiftShift DEF Pos
    <2>. QED  BY <2>1, <2>2, <2>3
  <1>9. sndLastAck' = Shift(sndLastDataAck', lag')
    BY <1>4, <1>8
  <1>10. IncSeq(sndCurrSeqNo') = Shift(sndLastDataAck', lag' + flight')
    <2>1. lag' + flight' = lag + flight - freed
      BY <1>4, <1>5, InUseSpan
    <2>. QED  BY <1>4, <1>8, <2>1 DEF IInv
  <1>11. /\ sndCount' = lag' + flight' /\ sndCount' <= SndBufSize
         /\ flight' <= Window
    BY <1>4, <1>5, InUseSpan, WindowAssumption DEF IInv, TypeOK
  <1>. QED  BY <1>4, <1>7, <1>9, <1>10, <1>11 DEF IInv, Pos

(* The invariant holds in every reachable state.                           *)
THEOREM Invariance == Spec => []IInv
  <1>1. IInv /\ [Next]_vars => IInv'
    <2>. SUFFICES ASSUME IInv, [Next]_vars PROVE IInv'
      OBVIOUS
    <2>1. CASE UNCHANGED vars
      BY <2>1 DEF vars, IInv, TypeOK, Pos
    <2>. QED  BY <2>1, PackNewStep, LiteAckStep, FullAckStep DEF Next
  <1>. QED  BY InitEstablishes, <1>1, PTL DEF Spec

(* The numbers are numbers of the circle, from every ISN.                  *)
THEOREM TypeCorrect == Spec => []TypeOK
  <1>1. IInv => TypeOK
    BY DEF IInv
  <1>. QED  BY <1>1, Invariance, PTL

(* For every circle and every ISN, the flow window bounds the packets in   *)
(* flight: seqlen is not deceived by the end of the circle.                *)
THEOREM FlowWindowHolds == Spec => []LengthIsFlight
  <1>1. IInv => LengthIsFlight
    BY InUseSpan, SeqLenIsLength DEF IInv, Pos, LengthIsFlight
  <1>. QED  BY <1>1, Invariance, PTL

(* The send buffer holds exactly what is not acknowledged.                 *)
THEOREM BlocksAreCounted == Spec => []CountIsHeld
  <1>1. IInv => CountIsHeld
    BY DEF IInv, CountIsHeld
  <1>. QED  BY <1>1, Invariance, PTL

(* Circular comparison and distance agree with the unwrapped line on every *)
(* two numbers in use: this is what lets UdtTransfer count without end.    *)
THEOREM ComparisonIsAge == Spec => []OrderIsAge
  <1>1. IInv => OrderIsAge
    BY InUseSpan, SeqOffIsDistance, SeqCmpIsOrder DEF Pos, OrderIsAge
  <1>. QED  BY <1>1, Invariance, PTL

(* The increments and the decrement stay on the circle.                    *)
THEOREM StepsStayOnCircle == Spec => []StepsFollowCircle
  <1>1. ASSUME IInv, NEW d \in InUse, NEW e \in InUse, d < e
        PROVE  /\ IncSeq(Pos(d)) = Pos(d + 1) /\ DecSeq(Pos(d + 1)) = Pos(d)
               /\ IncSeqBy(Pos(d), e - d) = Pos(e)
    <2>1. /\ d \in Int /\ e \in Int /\ -SeqNoTH <= d /\ d + 1 <= SeqNoTH
          /\ -SeqNoTH <= e /\ e <= SeqNoTH /\ e - d \in 0..SeqNoTH
          /\ d + (e - d) = e /\ (d + 1) + (-1) = d
          /\ SeqNoTH >= 1 /\ SeqNoTH \in Nat
      BY <1>1, InUseSpan
    <2>2. Pos(d) \in SeqNos /\ Pos(d + 1) \in SeqNos
      BY <1>1, <2>1, InUseSpan, ShiftType DEF Pos
    <2>3. Shift(Pos(d), 1) = Pos(d + 1)
      BY <1>1, <2>1, InUseSpan, ShiftShift DEF Pos
    <2>4. Shift(Pos(d + 1), -1) = Pos(d)
      BY <1>1, <2>1, InUseSpan, ShiftShift DEF Pos
    <2>5. Shift(Pos(d), e - d) = Pos(e)
      BY <1>1, <2>1, InUseSpan, ShiftShift DEF Pos
    <2>. QED  BY <2>1, <2>2, <2>3, <2>4, <2>5, StepsAreShifts
  <1>2. IInv => StepsFollowCircle
    BY <1>1 DEF StepsFollowCircle
  <1>. QED  BY <1>2, Invariance, PTL

(* A late ACK, however old within the bound, is never found invalid.       *)
THEOREM AckNeverSuspected == Spec => []NeverSuspectsAck
  <1>1. IInv => NeverSuspectsAck
    BY DEF IInv, NeverSuspectsAck
  <1>. QED  BY <1>1, Invariance, PTL

=============================================================================
