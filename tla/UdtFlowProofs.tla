--------------------------- MODULE UdtFlowProofs ---------------------------
(***************************************************************************)
(* Proofs about UdtFlow, for all hscp.conf files, all limits of the code   *)
(* and any number of packets and ACKs: what the two sockets agree on, what *)
(* the sender sends is what was granted, and what an ACK2 confirms.        *)
(***************************************************************************)
EXTENDS UdtFlow, WellFoundedInduction, TLAPS

Options == [mss : Nat, fc : Nat, rcv : Nat, udpSnd : Nat, udpRcv : Nat]
Windows == [slow : BOOLEAN, cwnd : Int, max : Int, lastAck : Int]
Histories == [no : [Slots -> Int], data : [Slots -> Int], head : Slots, tail : Slots]

(* The types, each side with its own.                                      *)
OptionsOK ==
    /\ cli \in Options /\ srv \in Options
    /\ up \in [cli : BOOLEAN, srv : BOOLEAN]
    /\ answers \subseteq [mss : Nat, flight : Nat]
SenderOK ==
    /\ curr \in Int /\ ack \in Int /\ dataAck \in Int /\ flow \in Int /\ sndLossSize \in Int
    /\ cc \in Windows
ReceiverOK ==
    /\ got \subseteq Int /\ rcvCurr \in Nat /\ lastAck \in Nat /\ lastAckAck \in Int
    /\ read \in Int /\ ackNo \in Nat /\ history \in Histories
NetOK == acks \subseteq [no : Nat, ack : Int, room : Int] /\ ack2s \subseteq Nat \ {0}

(* The options before, between and after the two steps of the handshake.   *)
MssFits(o) == o.mss <= o.udpSnd /\ o.mss <= o.udpRcv
Agreed ==
    /\ MssFits(cli) /\ MssFits(srv)
    /\ up.cli => up.srv /\ cli.mss = srv.mss
    /\ up.srv => srv.mss <= cli.udpSnd /\ srv.mss <= cli.udpRcv
    /\ \A m \in answers : up.srv /\ m.mss = srv.mss
    /\ ~up.cli => curr = 0 /\ ack = 1 /\ acks = {} /\ ack2s = {}
    /\ ~up.cli => got = {} /\ rcvCurr = 0 /\ lastAck = 1 /\ lastAckAck = 1

(* The end of the window the sender may use: within the ring, or the least *)
(* window, or as far as the handshake announced.                           *)
Window ==
    up.cli => \/ ack + flow - 1 <= read + srv.rcv - 2
              \/ flow <= 2
              \/ 2 * (ack + flow - 1) <= sndLossSize

(* A full ACK grants no more than was free; the reader only frees more.    *)
Grants ==
    \A m \in acks : m.no > 0 => m.room <= 2 \/ m.room <= srv.rcv - (m.ack - read) - 1

(* A number that waits in the history stands for the ACK that was sent     *)
(* under it; once the sender has answered it, the sender has it.           *)
Confirmed ==
    /\ \A i \in Slots : history.no[i] <= ackNo
    /\ \A m \in acks : m.no <= ackNo
    /\ \A n \in ack2s : n <= ackNo
    /\ \A m \in acks : \A i \in Slots :
          m.no > 0 /\ history.no[i] = m.no => history.data[i] = m.ack
    /\ \A n \in ack2s : \A i \in Slots : history.no[i] = n => history.data[i] <= dataAck

IInv ==
    /\ OptionsOK /\ SenderOK /\ ReceiverOK /\ NetOK
    /\ Agreed
    /\ Window /\ Grants /\ NeverOverruns
    /\ Confirmed /\ AckAckIsKnown

-----------------------------------------------------------------------------
(* A set of numbers that is not empty has a least element.                 *)
LEMMA LeastNumber ==
    ASSUME NEW S, S \subseteq Nat, S # {}
    PROVE  \E x \in S : \A y \in S : x <= y
  <1>. DEFINE Less == {ss \in Nat \X Nat : ss[1] < ss[2]}
  <1>1. OpToRel(<, Nat) = Less
    BY DEF OpToRel
  <1>2. \E x \in S : \A y \in S : ~ (<<y, x>> \in Less)
    BY <1>1, NatLessThanWellFounded, WFMin
  <1>3. PICK x \in S : \A y \in S : ~ (<<y, x>> \in Less)
    BY <1>2
  <1>4. ASSUME NEW y \in S, y < x PROVE FALSE
    <2>1. <<y, x>> \in Nat \X Nat /\ <<y, x>>[1] < <<y, x>>[2]
      BY <1>4
    <2>2. <<y, x>> \in Less
      BY <2>1
    <2>. QED  BY <1>3, <2>2
  <1>. QED  BY <1>4

(* The last line of a parameter is one of its lines: read_config yields a  *)
(* number of the file.                                                     *)
LEMMA LastLine ==
    ASSUME NEW N \in Nat, NEW S, S \subseteq 1..N, S # {}
    PROVE  (CHOOSE i \in S : \A k \in S : k <= i) \in S
  <1>. DEFINE T == {N - i : i \in S}
  <1>1. T \subseteq Nat /\ T # {}
    <2>1. \A i \in S : i \in 1..N
      OBVIOUS
    <2>2. \A i \in 1..N : N - i \in Nat
      OBVIOUS
    <2>. QED  BY <2>1, <2>2
  <1>2. PICK x \in T : \A y \in T : x <= y
    BY <1>1, LeastNumber
  <1>3. PICK i \in S : x = N - i
    OBVIOUS
  <1>4. ASSUME NEW k \in S PROVE k <= i
    <2>1. x <= N - k
      BY <1>2
    <2>. QED  BY <1>3, <2>1
  <1>. QED  BY <1>4

LEMMA ElementOfSeq ==
    ASSUME NEW R, NEW s \in Seq(R), NEW i \in 1..Len(s)
    PROVE  s[i] \in R
  OBVIOUS

LEMMA ConfigNumbers ==
    ASSUME NEW conf \in Seq([para : STRING, num : Nat])
    PROVE  \A p \in {"UDPSendBufSize", "UDPRecvBufSize", "UDTRecvBufSize",
                     "UDTMaxPktSize", "UDTMaxWinSize"} : ReadConfig(conf)[p] \in Nat
  <1>. SUFFICES ASSUME NEW p \in {"UDPSendBufSize", "UDPRecvBufSize", "UDTRecvBufSize",
                                  "UDTMaxPktSize", "UDTMaxWinSize"}
                PROVE  ReadConfig(conf)[p] \in Nat
    OBVIOUS
  <1>. DEFINE lines == {i \in DOMAIN conf : conf[i].para = p}
  <1>. DEFINE last == CHOOSE i \in lines : \A k \in lines : k <= i
  <1>1. ReadConfig(conf)[p] = IF lines = {} THEN 0 ELSE conf[last].num
    BY DEF ReadConfig
  <1>2. lines \subseteq 1..Len(conf) /\ Len(conf) \in Nat
    OBVIOUS
  <1>3. CASE lines = {}
    BY <1>1, <1>3
  <1>4. CASE lines # {}
    <2>. HIDE DEF lines
    <2>1. last \in lines
      BY <1>2, <1>4, LastLine
    <2>2. last \in 1..Len(conf)
      BY <1>2, <2>1
    <2>. HIDE DEF last
    <2>3. conf[last] \in [para : STRING, num : Nat]
      BY <2>2, ElementOfSeq
    <2>. QED  BY <1>1, <1>4, <2>3
  <1>. QED  BY <1>3, <1>4

LEMMA UdpBuffers ==
    ASSUME NEW o \in Options, MssFits(o), NEW v \in Nat
    PROVE  /\ SetUdpSnd(o, v) \in Options /\ MssFits(SetUdpSnd(o, v))
           /\ SetUdpSnd(o, v).mss = o.mss
           /\ SetUdpRcv(o, v) \in Options /\ MssFits(SetUdpRcv(o, v))
           /\ SetUdpRcv(o, v).mss = o.mss
  <1>. DEFINE m == Max2(v, o.mss)
  <1>1. m \in Nat /\ m >= o.mss
    BY DEF Max2, Options
  <1>2. /\ SetUdpSnd(o, v) = IF v = 0 THEN o ELSE [o EXCEPT !.udpSnd = m]
        /\ SetUdpRcv(o, v) = IF v = 0 THEN o ELSE [o EXCEPT !.udpRcv = m]
    BY DEF SetUdpSnd, SetUdpRcv
  <1>. HIDE DEF m
  <1>3. CASE v = 0
    BY <1>2, <1>3
  <1>4. CASE v # 0
    BY <1>1, <1>2, <1>4 DEF Options, MssFits
  <1>. QED  BY <1>3, <1>4

(* However the file is written, the packet fits into both UDP buffers.     *)
LEMMA ConfiguredFits ==
    ASSUME NEW conf \in Seq([para : STRING, num : Nat])
    PROVE  Configured(conf) \in Options /\ MssFits(Configured(conf))
  <1>. DEFINE num == ReadConfig(conf)
  <1>. DEFINE a == SetUdpSnd(Default, num["UDPSendBufSize"])
  <1>. DEFINE b == SetUdpRcv(a, num["UDPRecvBufSize"])
  <1>. DEFINE c == SetRcv(b, num["UDTRecvBufSize"])
  <1>. DEFINE d == SetMss(c, num["UDTMaxPktSize"])
  <1>. DEFINE Good(o) == o \in Options /\ MssFits(o)
  <1>1. Configured(conf) = SetFc(d, num["UDTMaxWinSize"])
    BY DEF Configured
  <1>2. /\ num["UDPSendBufSize"] \in Nat /\ num["UDPRecvBufSize"] \in Nat
        /\ num["UDTRecvBufSize"] \in Nat /\ num["UDTMaxPktSize"] \in Nat
        /\ num["UDTMaxWinSize"] \in Nat
    BY ConfigNumbers
  <1>. HIDE DEF num
  <1>3. Good(Default) /\ Default.mss - Header \in Nat \ {0}
    BY FlowAssumption DEF Options, MssFits, Min2
  <1>4. Good(a) /\ a.mss = Default.mss
    BY <1>2, <1>3, UdpBuffers DEF a
  <1>. HIDE DEF a
  <1>5. Good(b) /\ b.mss = Default.mss
    BY <1>2, <1>4, UdpBuffers DEF b
  <1>. HIDE DEF b
  <1>6. Good(c)
    <2>. DEFINE v == num["UDTRecvBufSize"]
    <2>. DEFINE payload == b.mss - Header
    <2>. DEFINE packets == IF v > payload * MinWindow THEN v \div payload ELSE MinWindow
    <2>1. payload \in Nat \ {0}
      BY <1>3, <1>5
    <2>2. v \in Nat
      BY <1>2
    <2>3. MinWindow \in Nat
      BY FlowAssumption
    <2>. HIDE DEF payload, v
    <2>4. v \div payload \in Nat
      BY <2>1, <2>2
    <2>5. packets \in Nat
      BY <2>3, <2>4
    <2>6. c = IF v = 0 THEN b ELSE [b EXCEPT !.rcv = Min2(packets, b.fc)]
      BY DEF SetRcv, v, payload
    <2>. HIDE DEF packets, c
    <2>7. Min2(packets, b.fc) \in Nat
      BY <1>5, <2>5 DEF Min2, Options
    <2>. QED  BY <1>5, <2>6, <2>7 DEF Options, MssFits
  <1>. HIDE DEF c
  <1>7. Good(d)
    BY <1>2, <1>6 DEF SetMss, Options, MssFits, Min2
  <1>. HIDE DEF d
  <1>8. MinWindow \in Nat
    BY FlowAssumption
  <1>. QED  BY <1>1, <1>2, <1>7, <1>8 DEF SetFc, Options, MssFits, Max2

-----------------------------------------------------------------------------
(***************************************************************************)
(* What the operators of the receiver and of CUDTCC return.                *)
(***************************************************************************)
LEMMA AckPointIsNumber ==
    ASSUME ReceiverOK
    PROVE  AckPoint \in Nat
  <1>1. CASE Holes = {}
    BY <1>1 DEF AckPoint, ReceiverOK
  <1>2. CASE Holes # {}
    <2>1. Holes \subseteq Nat
      BY DEF Holes, ReceiverOK
    <2>2. \E x \in Holes : \A y \in Holes : x <= y
      BY <1>2, <2>1, LeastNumber
    <2>3. Least(Holes) \in Holes
      BY <2>2 DEF Least
    <2>. QED  BY <1>2, <2>1, <2>3 DEF AckPoint
  <1>. QED  BY <1>1, <1>2

LEMMA NextSlot == \A x \in Int : x % HistorySize \in Slots
  BY FlowAssumption DEF Slots

LEMMA SlotSuccessor == \A i \in Slots : (i + 1) % HistorySize \in Slots
  <1>1. \A i \in Slots : i + 1 \in Int
    BY FlowAssumption DEF Slots
  <1>. QED  BY <1>1, NextSlot

LEMMA StoreKeeps ==
    ASSUME NEW h \in Histories, NEW n \in Int, NEW a \in Int
    PROVE  /\ Store(h, n, a) \in Histories
           /\ \A i \in Slots : \/ Store(h, n, a).no[i] = n /\ Store(h, n, a).data[i] = a
                               \/ /\ Store(h, n, a).no[i] = h.no[i]
                                  /\ Store(h, n, a).data[i] = h.data[i]
  <1>1. (h.head + 1) % HistorySize \in Slots /\ (h.tail + 1) % HistorySize \in Slots
    BY SlotSuccessor DEF Histories
  <1>. DEFINE S == Store(h, n, a)
  <1>2. /\ S.no = [h.no EXCEPT ![h.head] = n] /\ S.data = [h.data EXCEPT ![h.head] = a]
        /\ S.head \in Slots /\ S.tail \in Slots
        /\ S = [no |-> S.no, data |-> S.data, head |-> S.head, tail |-> S.tail]
    BY <1>1 DEF Store, Histories
  <1>3. S.no \in [Slots -> Int] /\ S.data \in [Slots -> Int]
    BY <1>2 DEF Histories
  <1>. HIDE DEF S
  <1>4. S \in Histories
    BY <1>2, <1>3 DEF Histories
  <1>5. \A i \in Slots : \/ S.no[i] = n /\ S.data[i] = a
                         \/ S.no[i] = h.no[i] /\ S.data[i] = h.data[i]
    BY <1>2 DEF Histories
  <1>. QED  BY <1>4, <1>5 DEF S

LEMMA WaitingAreSlots ==
    ASSUME NEW h \in Histories
    PROVE  Waiting(h) \subseteq Slots
  <1>. DEFINE a == h.head
  <1>. DEFINE b == h.tail
  <1>1. a \in 0..(HistorySize - 1) /\ b \in 0..(HistorySize - 1) /\ HistorySize \in Nat
    BY FlowAssumption DEF Histories, Slots
  <1>2. Waiting(h) = IF a >= b THEN b..(a - 1) ELSE {i \in Slots : i >= b \/ i < a}
    BY DEF Waiting
  <1>. HIDE DEF a, b
  <1>3. CASE a >= b
    BY <1>1, <1>2, <1>3 DEF Slots
  <1>4. CASE ~(a >= b)
    BY <1>2, <1>4
  <1>. QED  BY <1>3, <1>4

LEMMA AfterKeeps ==
    ASSUME NEW h \in Histories, NEW i \in Slots
    PROVE  /\ After(h, i) \in Histories
           /\ After(h, i).data = h.data
           /\ \A k \in Slots : After(h, i).no[k] = h.no[k] \/ After(h, i).no[k] = -1
  <1>1. 0 \in Slots
    BY FlowAssumption DEF Slots
  <1>2. (i + 1) % HistorySize \in Slots
    BY SlotSuccessor
  <1>. DEFINE E == Emptied(h)
  <1>. DEFINE F == [h EXCEPT !.tail = (i + 1) % HistorySize]
  <1>3. After(h, i) = E \/ After(h, i) = F
    BY DEF After
  <1>. DEFINE numbers == [h.no EXCEPT ![0] = -1]
  <1>4. E = [h EXCEPT !.no = numbers, !.head = 0, !.tail = 0]
    BY DEF Emptied
  <1>5. /\ numbers \in [Slots -> Int]
        /\ \A k \in Slots : numbers[k] = h.no[k] \/ numbers[k] = -1
    BY <1>1 DEF Histories
  <1>6. F \in Histories /\ F.data = h.data /\ F.no = h.no
    BY <1>2 DEF Histories
  <1>. HIDE DEF E, F, numbers
  <1>7. E \in Histories /\ E.data = h.data /\ E.no = numbers
    BY <1>1, <1>4, <1>5 DEF Histories
  <1>. QED  BY <1>3, <1>5, <1>6, <1>7

LEMMA OnAckType ==
    ASSUME NEW c \in Windows, NEW a \in Int, NEW d \in OnAck(c, a)
    PROVE  d \in Windows
  <1>1. CASE c.slow
    <2>. DEFINE w == Min2(c.cwnd + (a - c.lastAck + 1), Total + 1)
    <2>. DEFINE slow == w <= c.max
    <2>1. c.cwnd + (a - c.lastAck + 1) \in Int /\ Total + 1 \in Int
      <3>1. c.cwnd \in Int /\ c.lastAck \in Int
        BY DEF Windows
      <3>2. Total \in Int
        BY FlowAssumption
      <3>. QED  BY <3>1, <3>2
    <2>2. w \in Int /\ slow \in BOOLEAN
      BY <2>1 DEF Min2
    <2>3. d = c \/ d = [c EXCEPT !.cwnd = w, !.lastAck = a, !.slow = slow]
      BY <1>1 DEF OnAck
    <2>. HIDE DEF w, slow
    <2>. QED  BY <2>2, <2>3 DEF Windows
  <1>2. CASE ~c.slow
    <2>1. d = c \/ \E w \in CwndLater : d = [c EXCEPT !.cwnd = w]
      BY <1>2 DEF OnAck
    <2>2. CwndLater \subseteq Int
      BY FlowAssumption
    <2>. QED  BY <2>1, <2>2 DEF Windows
  <1>. QED  BY <1>1, <1>2

-----------------------------------------------------------------------------
LEMMA InitInv == Init => IInv
  <1>. SUFFICES ASSUME Init PROVE IInv
    OBVIOUS
  <1>1. /\ cli \in Options /\ srv \in Options /\ MssFits(cli) /\ MssFits(srv)
    <2>1. PICK c \in ClientConfs : cli = Configured(c)
      BY DEF Init
    <2>2. PICK d \in ServerConfs : srv = Configured(d)
      BY DEF Init
    <2>3. c \in Seq([para : STRING, num : Nat]) /\ d \in Seq([para : STRING, num : Nat])
      BY FlowAssumption
    <2>. QED  BY <2>1, <2>2, <2>3, ConfiguredFits
  <1>2. OptionsOK
    BY <1>1 DEF Init, OptionsOK
  <1>3. SenderOK
    BY FlowAssumption DEF Init, SenderOK, NewCC, Windows
  <1>4. history \in Histories
    <2>1. 0 \in Slots
      BY FlowAssumption DEF Slots
    <2>. QED  BY <2>1 DEF Init, NoHistory, Histories
  <1>5. ReceiverOK
    BY <1>4 DEF Init, ReceiverOK
  <1>6. NetOK
    BY DEF Init, NetOK
  <1>7. Agreed
    BY <1>1 DEF Init, Agreed
  <1>8. Window /\ Grants /\ AckAckIsKnown
    BY DEF Init, Window, Grants, AckAckIsKnown
  <1>9. NeverOverruns
    BY DEF Init, NeverOverruns
  <1>10. Confirmed
    BY DEF Init, Confirmed, NoHistory
  <1>. QED  BY <1>2, <1>3, <1>5, <1>6, <1>7, <1>8, <1>9, <1>10 DEF IInv

(* The types.                                                              *)
LEMMA NextTypes ==
    ASSUME OptionsOK, SenderOK, ReceiverOK, NetOK, Next
    PROVE  OptionsOK' /\ SenderOK' /\ ReceiverOK' /\ NetOK'
  <1>1. CASE FirstRequest
    <2>1. OptionsOK'
      <3>1. srv.mss \in Nat /\ cli.mss \in Nat /\ srv.rcv \in Nat /\ srv.fc \in Nat
        BY DEF OptionsOK, Options
      <3>2. Min2(cli.mss, srv.mss) \in Nat /\ Announced(srv) \in Nat
        BY <3>1 DEF Min2, Announced
      <3>. DEFINE mss == Min2(cli.mss, srv.mss)
      <3>. DEFINE flight == Announced(srv)
      <3>3. /\ srv' = [srv EXCEPT !.mss = mss] /\ cli' = cli
            /\ answers' = {[mss |-> mss, flight |-> flight]}
            /\ up' = [up EXCEPT !.srv = TRUE]
        BY <1>1 DEF FirstRequest
      <3>. HIDE DEF mss, flight
      <3>4. srv' \in Options /\ cli' \in Options /\ answers' \subseteq [mss : Nat, flight : Nat]
        BY <3>2, <3>3 DEF OptionsOK, Options, mss, flight
      <3>5. up' \in [cli : BOOLEAN, srv : BOOLEAN]
        BY <3>3 DEF OptionsOK
      <3>. QED  BY <3>4, <3>5 DEF OptionsOK
    <2>. QED  BY <1>1, <2>1 DEF FirstRequest, sender, receiver, net, SenderOK, ReceiverOK, NetOK
  <1>2. CASE RepeatedRequest
    <2>1. OptionsOK'
      BY <1>2 DEF RepeatedRequest, OptionsOK, Options
    <2>. QED  BY <1>2, <2>1
              DEF RepeatedRequest, sender, receiver, net, SenderOK, ReceiverOK, NetOK
  <1>3. ASSUME NEW m \in answers, TakeAnswer(m) PROVE OptionsOK' /\ SenderOK' /\ ReceiverOK' /\ NetOK'
    <2>1. m.mss \in Nat /\ m.flight \in Nat
      BY DEF OptionsOK
    <2>2. OptionsOK'
      BY <1>3, <2>1 DEF TakeAnswer, OptionsOK, Options
    <2>3. SenderOK'
      <3>1. CwndInit \in Int /\ 2 * m.flight \in Int
        BY <2>1, FlowAssumption
      <3>2. NewCC(m.flight, 0) \in Windows
        BY <2>1, <3>1 DEF NewCC, Windows
      <3>. QED  BY <1>3, <2>1, <3>1, <3>2 DEF TakeAnswer, SenderOK
    <2>. QED  BY <1>3, <2>2, <2>3 DEF TakeAnswer, receiver, net, ReceiverOK, NetOK
  <1>4. CASE PackNew
    BY <1>4 DEF PackNew, options, receiver, net, OptionsOK, SenderOK, ReceiverOK, NetOK
  <1>5. ASSUME NEW m \in acks, TakeLightAck(m) \/ TakeAck(m)
        PROVE  OptionsOK' /\ SenderOK' /\ ReceiverOK' /\ NetOK'
    <2>1. m.no \in Nat /\ m.ack \in Int /\ m.room \in Int
      BY DEF NetOK
    <2>2. OptionsOK' /\ ReceiverOK'
      BY <1>5 DEF TakeLightAck, TakeAck, options, receiver, OptionsOK, ReceiverOK
    <2>3. CASE TakeLightAck(m)
      BY <2>1, <2>2, <2>3 DEF TakeLightAck, SenderOK, NetOK
    <2>4. CASE TakeAck(m)
      <3>1. NetOK'
        BY <2>1, <2>4 DEF TakeAck, NetOK
      <3>2. flow' \in Int /\ ack' \in Int /\ dataAck' \in Int
        BY <2>1, <2>4 DEF TakeAck, SenderOK
      <3>3. cc' \in Windows
        BY <2>1, <2>4, OnAckType DEF TakeAck, SenderOK
      <3>4. curr' \in Int /\ sndLossSize' \in Int
        BY <2>4 DEF TakeAck, SenderOK
      <3>. QED  BY <2>2, <3>1, <3>2, <3>3, <3>4 DEF SenderOK
    <2>. QED  BY <1>5, <2>3, <2>4
  <1>6. CASE Loss
    BY <1>6 DEF Loss, OnLoss, options, receiver, net, OptionsOK, SenderOK, ReceiverOK, NetOK, Windows
  <1>7. ASSUME NEW s \in lastAck..curr, TakeData(s)
        PROVE  OptionsOK' /\ SenderOK' /\ ReceiverOK' /\ NetOK'
    <2>1. s \in Nat
      BY DEF ReceiverOK, SenderOK
    <2>2. ReceiverOK'
      BY <1>7, <2>1 DEF TakeData, ReceiverOK, Max2
    <2>. QED  BY <1>7, <2>2 DEF TakeData, options, sender, net, OptionsOK, SenderOK, NetOK
  <1>8. CASE AckTimer
    <2>1. AckPoint \in Nat
      BY AckPointIsNumber
    <2>2. history' \in Histories
      BY <1>8, <2>1, StoreKeeps DEF AckTimer, ReceiverOK
    <2>3. ReceiverOK'
      <3>1. /\ got' = {s \in got : s >= AckPoint} /\ lastAck' = AckPoint /\ ackNo' = ackNo + 1
            /\ UNCHANGED <<rcvCurr, lastAckAck, read>>
        BY <1>8 DEF AckTimer
      <3>2. got' \subseteq Int
        BY <3>1 DEF ReceiverOK
      <3>. QED  BY <2>1, <2>2, <3>1, <3>2 DEF ReceiverOK
    <2>4. RoomAt(AckPoint) \in Int
      BY <2>1 DEF RoomAt, ReceiverOK, OptionsOK, Options
    <2>5. Granted(RoomAt(AckPoint)) \in Int
      BY <2>4 DEF Granted, Max2
    <2>6. ackNo + 1 \in Nat
      BY DEF ReceiverOK
    <2>7. NetOK'
      BY <1>8, <2>1, <2>5, <2>6 DEF AckTimer, NetOK
    <2>. QED  BY <1>8, <2>3, <2>7 DEF AckTimer, options, sender, OptionsOK, SenderOK
  <1>9. CASE LightAckTimer
    <2>1. AckPoint \in Nat
      BY AckPointIsNumber
    <2>. QED  BY <1>9, <2>1
              DEF LightAckTimer, options, sender, receiver, OptionsOK, SenderOK, ReceiverOK, NetOK
  <1>10. ASSUME NEW n \in ack2s, TakeAck2(n)
         PROVE  OptionsOK' /\ SenderOK' /\ ReceiverOK' /\ NetOK'
    <2>1. history' \in Histories /\ lastAckAck' \in Int
      <3>1. CASE UNCHANGED <<history, lastAckAck>>
        BY <3>1 DEF ReceiverOK
      <3>2. ASSUME NEW i \in Found(history, n), history' = After(history, i),
                   lastAckAck' = Max2(lastAckAck, DataOf(history, i))
            PROVE  history' \in Histories /\ lastAckAck' \in Int
        <4>1. i \in Slots
          BY WaitingAreSlots DEF Found, ReceiverOK
        <4>2. history.data[i] \in Int
          BY <4>1 DEF ReceiverOK, Histories
        <4>. QED  BY <3>2, <4>1, <4>2, AfterKeeps DEF ReceiverOK, Max2, DataOf
      <3>. QED  BY <1>10, <3>1, <3>2 DEF TakeAck2
    <2>2. ReceiverOK'
      BY <1>10, <2>1 DEF TakeAck2, ReceiverOK
    <2>. QED  BY <1>10, <2>2 DEF TakeAck2, options, sender, OptionsOK, SenderOK, NetOK
  <1>11. CASE Read
    BY <1>11 DEF Read, options, sender, net, OptionsOK, SenderOK, ReceiverOK, NetOK
  <1>12. CASE Lose
    <2>1. NetOK'
      BY <1>12 DEF Lose, NetOK
    <2>. QED  BY <1>12, <2>1 DEF Lose, options, sender, receiver, OptionsOK, SenderOK, ReceiverOK
  <1>. QED  BY <1>1, <1>2, <1>3, <1>4, <1>5, <1>6, <1>7, <1>8, <1>9, <1>10, <1>11, <1>12 DEF Next

(* The handshake: no data and no ACK travels before the client has its     *)
(* answer, and every answer carries the packet size of the accepted socket.*)
LEMMA NextAgreed ==
    ASSUME OptionsOK, SenderOK, ReceiverOK, NetOK, Agreed, Next
    PROVE  Agreed'
  <1>. USE DEF Agreed
  <1>1. CASE FirstRequest
    <2>. DEFINE mss == Min2(cli.mss, srv.mss)
    <2>1. /\ cli.mss \in Nat /\ cli.udpSnd \in Nat /\ cli.udpRcv \in Nat
          /\ srv.mss \in Nat /\ srv.udpSnd \in Nat /\ srv.udpRcv \in Nat
      BY DEF OptionsOK, Options
    <2>2. mss \in Nat /\ mss <= cli.mss /\ mss <= srv.mss
      BY <2>1 DEF Min2
    <2>3. /\ srv' = [srv EXCEPT !.mss = mss] /\ cli' = cli
          /\ \A m \in answers' : m.mss = mss
          /\ up'.srv /\ up'.cli = up.cli /\ ~up.srv
          /\ UNCHANGED <<curr, ack, acks, ack2s, got, rcvCurr, lastAck, lastAckAck>>
      BY <1>1 DEF FirstRequest, OptionsOK, sender, receiver, net
    <2>. HIDE DEF mss
    <2>4. srv'.mss = mss /\ srv'.udpSnd = srv.udpSnd /\ srv'.udpRcv = srv.udpRcv
      BY <2>3 DEF OptionsOK, Options
    <2>5. MssFits(cli)' /\ MssFits(srv)' /\ mss <= cli.udpSnd /\ mss <= cli.udpRcv
      BY <2>1, <2>2, <2>3, <2>4 DEF MssFits
    <2>. QED  BY <2>3, <2>4, <2>5
  <1>2. CASE RepeatedRequest
    BY <1>2 DEF RepeatedRequest, sender, receiver, net, MssFits
  <1>3. ASSUME NEW m \in answers, TakeAnswer(m) PROVE Agreed'
    <2>1. /\ srv.mss \in Nat /\ cli' = [cli EXCEPT !.mss = srv.mss] /\ up'.srv = up.srv
          /\ srv' = srv /\ answers' = {} /\ up'.cli /\ up.srv
      BY <1>3 DEF TakeAnswer, OptionsOK, Options
    <2>2. cli'.mss = srv.mss /\ cli'.udpSnd = cli.udpSnd /\ cli'.udpRcv = cli.udpRcv
      BY <2>1 DEF OptionsOK, Options
    <2>. QED  BY <2>1, <2>2 DEF MssFits
  <1>4. CASE PackNew
    BY <1>4 DEF PackNew, options, MssFits
  <1>5. ASSUME NEW m \in acks, TakeLightAck(m) \/ TakeAck(m) PROVE Agreed'
    <2>1. up.cli
      OBVIOUS
    <2>. QED  BY <1>5, <2>1 DEF TakeLightAck, TakeAck, options, MssFits
  <1>6. CASE Loss
    BY <1>6 DEF Loss, options, receiver, net, MssFits
  <1>7. ASSUME NEW s \in lastAck..curr, TakeData(s) PROVE Agreed'
    <2>1. up.cli
      <3>1. lastAck <= curr
        BY DEF SenderOK, ReceiverOK
      <3>. QED  BY <3>1
    <2>. QED  BY <1>7, <2>1 DEF TakeData, options, MssFits
  <1>8. CASE AckTimer \/ LightAckTimer
    <2>1. up.cli
      <3>1. SUFFICES ASSUME ~up.cli PROVE FALSE
        OBVIOUS
      <3>2. Holes = {}
        BY <3>1 DEF Holes
      <3>3. AckPoint = lastAckAck
        BY <3>1, <3>2 DEF AckPoint
      <3>. QED  BY <1>8, <3>3 DEF AckTimer, LightAckTimer
    <2>. QED  BY <1>8, <2>1 DEF AckTimer, LightAckTimer, options, MssFits
  <1>9. ASSUME NEW n \in ack2s, TakeAck2(n) PROVE Agreed'
    <2>1. up.cli
      OBVIOUS
    <2>. QED  BY <1>9, <2>1 DEF TakeAck2, options, MssFits
  <1>10. CASE Read
    BY <1>10 DEF Read, options, sender, net, MssFits
  <1>11. CASE Lose
    BY <1>11 DEF Lose, options, sender, receiver, MssFits
  <1>. QED  BY <1>1, <1>2, <1>3, <1>4, <1>5, <1>6, <1>7, <1>8, <1>9, <1>10, <1>11 DEF Next

(* The windows.  What is new is the case of the ACK: a light ACK moves the *)
(* window and shrinks it by as much, a full ACK replaces it by what was    *)
(* granted.                                                                *)
LEMMA NextWindow ==
    ASSUME IInv, Next
    PROVE  Window' /\ Grants' /\ NeverOverruns'
  <1>1. /\ cli \in Options /\ srv \in Options /\ srv.rcv \in Nat /\ cc.cwnd \in Int
        /\ curr \in Int /\ ack \in Int /\ flow \in Int /\ sndLossSize \in Int /\ read \in Int
        /\ \A m \in acks : m.no \in Nat /\ m.ack \in Int /\ m.room \in Int
    BY DEF IInv, OptionsOK, SenderOK, ReceiverOK, NetOK, Options, Windows
  <1>2. Window /\ Grants /\ NeverOverruns /\ (~up.cli => curr = 0 /\ ack = 1 /\ acks = {})
    BY DEF IInv, Agreed
  <1>. DEFINE Quiet == UNCHANGED <<srv, up, curr, ack, flow, sndLossSize, read>>
  <1>3. ASSUME Quiet, acks' \subseteq acks PROVE Window' /\ Grants' /\ NeverOverruns'
    BY <1>2, <1>3 DEF Window, Grants, NeverOverruns
  <1>4. CASE FirstRequest
    <2>1. /\ srv'.rcv = srv.rcv /\ up'.cli = up.cli
          /\ UNCHANGED <<curr, ack, flow, sndLossSize, read, acks>>
      BY <1>1, <1>4 DEF FirstRequest, Options, IInv, OptionsOK, sender, receiver, net
    <2>. QED  BY <1>2, <2>1 DEF Window, Grants, NeverOverruns
  <1>5. CASE RepeatedRequest
    <2>1. Quiet /\ acks' = acks
      BY <1>5 DEF RepeatedRequest, sender, receiver, net
    <2>. QED  BY <1>3, <2>1
  <1>6. ASSUME NEW m \in answers, TakeAnswer(m) PROVE Window' /\ Grants' /\ NeverOverruns'
    <2>1. /\ m.flight \in Nat /\ curr = 0 /\ ack = 1 /\ acks = {}
          /\ flow' = m.flight /\ sndLossSize' = 2 * m.flight
          /\ UNCHANGED <<srv, curr, ack, read, acks>>
      BY <1>2, <1>6 DEF TakeAnswer, IInv, OptionsOK, receiver, net
    <2>. QED  BY <2>1 DEF Window, Grants, NeverOverruns
  <1>7. CASE PackNew
    <2>1. /\ up.cli /\ curr' = curr + 1
          /\ UNCHANGED <<srv, up, ack, flow, sndLossSize, read, acks>>
      BY <1>7 DEF PackNew, options, receiver, net
    <2>2. curr + 1 <= ack + flow - 1
      BY <1>1, <1>7 DEF PackNew, SendWindow, Min2
    <2>. QED  BY <1>1, <1>2, <2>1, <2>2 DEF Window, Grants, NeverOverruns
  <1>8. ASSUME NEW m \in acks, TakeLightAck(m) PROVE Window' /\ Grants' /\ NeverOverruns'
    <2>1. /\ \/ m.ack >= ack /\ flow' = flow - (m.ack - ack) /\ ack' = m.ack
             \/ flow' = flow /\ ack' = ack
          /\ acks' \subseteq acks /\ UNCHANGED <<srv, up, curr, sndLossSize, read>>
      BY <1>8 DEF TakeLightAck, options, receiver
    <2>2. m.ack \in Int
      BY <1>1
    <2>3. Grants'
      BY <1>2, <2>1 DEF Grants
    <2>. QED  BY <1>1, <1>2, <2>1, <2>2, <2>3 DEF Window, NeverOverruns
  <1>9. ASSUME NEW m \in acks, TakeAck(m) PROVE Window' /\ Grants' /\ NeverOverruns'
    <2>1. /\ \/ m.ack >= ack /\ flow' = m.room /\ ack' = m.ack
             \/ flow' = flow /\ ack' = ack
          /\ acks' \subseteq acks /\ m.no > 0 /\ UNCHANGED <<srv, up, curr, sndLossSize, read>>
      BY <1>9 DEF TakeAck, options, receiver
    <2>2. /\ m.ack \in Int /\ m.room \in Int
          /\ m.room <= 2 \/ m.room <= srv.rcv - (m.ack - read) - 1
      BY <1>1, <1>2, <2>1 DEF Grants
    <2>3. Grants'
      BY <1>2, <2>1 DEF Grants
    <2>. QED  BY <1>1, <1>2, <2>1, <2>2, <2>3 DEF Window, NeverOverruns
  <1>10. CASE Loss
    <2>1. Quiet /\ acks' = acks
      BY <1>10 DEF Loss, options, receiver, net
    <2>. QED  BY <1>3, <2>1
  <1>11. ASSUME NEW s \in lastAck..curr, TakeData(s) PROVE Window' /\ Grants' /\ NeverOverruns'
    <2>1. Quiet /\ acks' = acks
      BY <1>11 DEF TakeData, options, sender, net
    <2>. QED  BY <1>3, <2>1
  <1>12. CASE AckTimer
    <2>. DEFINE room == RoomAt(AckPoint)
    <2>. DEFINE new == [no |-> ackNo + 1, ack |-> AckPoint, room |-> Granted(room)]
    <2>1. AckPoint \in Nat
      BY AckPointIsNumber DEF IInv
    <2>2. room \in Int /\ room = srv.rcv - (AckPoint - read) - 1
      BY <1>1, <2>1 DEF RoomAt
    <2>3. Quiet /\ acks' = acks \cup {new}
      BY <1>12 DEF AckTimer, options, sender
    <2>. HIDE DEF room
    <2>4. Granted(room) <= 2 \/ Granted(room) = room
      BY <2>2 DEF Granted, Max2
    <2>5. new.ack = AckPoint /\ new.room = Granted(room)
      OBVIOUS
    <2>. HIDE DEF new
    <2>6. new.room <= 2 \/ new.room <= srv.rcv - (new.ack - read) - 1
      BY <1>1, <2>1, <2>2, <2>4, <2>5
    <2>7. Grants'
      BY <1>2, <2>3, <2>6 DEF Grants
    <2>. QED  BY <1>2, <2>3, <2>7 DEF Window, NeverOverruns
  <1>13. CASE LightAckTimer
    <2>1. Quiet /\ \A m \in acks' : m \in acks \/ m.no = 0
      BY <1>13 DEF LightAckTimer, options, sender, receiver
    <2>2. Grants'
      BY <1>2, <2>1 DEF Grants
    <2>. QED  BY <1>2, <2>1, <2>2 DEF Window, NeverOverruns
  <1>14. ASSUME NEW n \in ack2s, TakeAck2(n) PROVE Window' /\ Grants' /\ NeverOverruns'
    <2>1. Quiet /\ acks' = acks
      BY <1>14 DEF TakeAck2, options, sender
    <2>. QED  BY <1>3, <2>1
  <1>15. CASE Read
    <2>1. /\ read' = read + 1
          /\ UNCHANGED <<srv, up, curr, ack, flow, sndLossSize, acks>>
      BY <1>15 DEF Read, options, sender, net
    <2>2. Grants'
      <3>. SUFFICES ASSUME NEW m \in acks, m.no > 0
                    PROVE  m.room <= 2 \/ m.room <= srv.rcv - (m.ack - read') - 1
        BY <2>1 DEF Grants
      <3>1. m.room <= 2 \/ m.room <= srv.rcv - (m.ack - read) - 1
        BY <1>2 DEF Grants
      <3>2. m.ack \in Int /\ m.room \in Int
        BY <1>1
      <3>. QED  BY <1>1, <2>1, <3>1, <3>2
    <2>. QED  BY <1>1, <1>2, <2>1, <2>2 DEF Window, NeverOverruns
  <1>16. CASE Lose
    <2>1. Quiet /\ acks' \subseteq acks
      BY <1>16 DEF Lose, options, sender, receiver
    <2>. QED  BY <1>3, <2>1
  <1>. QED  BY <1>4, <1>5, <1>6, <1>7, <1>8, <1>9, <1>10, <1>11, <1>12, <1>13, <1>14, <1>15, <1>16
            DEF Next

(* The ACKs and the history of them.                                       *)
LEMMA NextConfirmed ==
    ASSUME OptionsOK, SenderOK, ReceiverOK, NetOK, Confirmed, AckAckIsKnown, Next
    PROVE  Confirmed' /\ AckAckIsKnown'
  <1>1. /\ ackNo \in Nat /\ history \in Histories /\ lastAckAck \in Int /\ dataAck \in Int
        /\ \A m \in acks : m.no \in Nat /\ m.ack \in Int
        /\ \A n \in ack2s : n \in Nat /\ n > 0
        /\ \A i \in Slots : history.no[i] \in Int /\ history.data[i] \in Int
    BY DEF SenderOK, ReceiverOK, NetOK, Histories
  <1>. DEFINE Same == UNCHANGED <<history, ackNo, lastAckAck>>
  <1>2. ASSUME Same, acks' \subseteq acks, ack2s' \subseteq ack2s, dataAck' = dataAck
        PROVE  Confirmed' /\ AckAckIsKnown'
    BY <1>2 DEF Confirmed, AckAckIsKnown
  <1>3. CASE FirstRequest \/ RepeatedRequest
    <2>1. Same /\ UNCHANGED <<acks, ack2s, dataAck>>
      BY <1>3 DEF FirstRequest, RepeatedRequest, sender, receiver, net
    <2>. QED  BY <1>2, <2>1
  <1>4. ASSUME NEW m \in answers, TakeAnswer(m) PROVE Confirmed' /\ AckAckIsKnown'
    <2>1. Same /\ UNCHANGED <<acks, ack2s, dataAck>>
      BY <1>4 DEF TakeAnswer, receiver, net
    <2>. QED  BY <1>2, <2>1
  <1>5. CASE PackNew \/ Loss
    <2>1. Same /\ UNCHANGED <<acks, ack2s, dataAck>>
      BY <1>5 DEF PackNew, Loss, receiver, net
    <2>. QED  BY <1>2, <2>1
  <1>6. ASSUME NEW m \in acks, TakeLightAck(m) PROVE Confirmed' /\ AckAckIsKnown'
    <2>1. Same /\ acks' \subseteq acks /\ UNCHANGED <<ack2s, dataAck>>
      BY <1>6 DEF TakeLightAck, receiver
    <2>. QED  BY <1>2, <2>1
  <1>7. ASSUME NEW m \in acks, TakeAck(m) PROVE Confirmed' /\ AckAckIsKnown'
    <2>1. Same /\ acks' \subseteq acks /\ ack2s' \subseteq ack2s \cup {m.no} /\ m.no > 0
      BY <1>7 DEF TakeAck, receiver
    <2>2. m.ack \in Int /\ m.no \in Nat
      BY <1>1
    <2>3. dataAck' \in Int /\ dataAck' >= dataAck /\ dataAck' >= m.ack
      <3>1. IF m.ack > dataAck THEN dataAck' = m.ack ELSE dataAck' = dataAck
        BY <1>7 DEF TakeAck
      <3>. QED  BY <1>1, <2>2, <3>1
    <2>4. ASSUME NEW n \in ack2s', NEW i \in Slots, history.no[i] = n
          PROVE  history.data[i] <= dataAck'
      <3>1. CASE n \in ack2s
        BY <1>1, <2>3, <2>4, <3>1 DEF Confirmed
      <3>2. CASE n = m.no
        <4>1. history.data[i] = m.ack
          BY <2>1, <2>4, <3>2 DEF Confirmed
        <4>. QED  BY <2>3, <4>1
      <3>. QED  BY <2>1, <3>1, <3>2
    <2>5. \A n \in ack2s' : n <= ackNo
      BY <2>1 DEF Confirmed
    <2>6. Confirmed'
      BY <2>1, <2>4, <2>5 DEF Confirmed
    <2>7. AckAckIsKnown'
      BY <1>1, <2>1, <2>3 DEF AckAckIsKnown
    <2>. QED  BY <2>6, <2>7
  <1>8. ASSUME NEW s \in lastAck..curr, TakeData(s) PROVE Confirmed' /\ AckAckIsKnown'
    <2>1. Same /\ UNCHANGED <<acks, ack2s, dataAck>>
      BY <1>8 DEF TakeData, sender, net
    <2>. QED  BY <1>2, <2>1
  <1>9. CASE AckTimer
    <2>. DEFINE new == [no |-> ackNo + 1, ack |-> AckPoint, room |-> Granted(RoomAt(AckPoint))]
    <2>1. /\ acks' = acks \cup {new} /\ ackNo' = ackNo + 1
          /\ history' = Store(history, ackNo + 1, AckPoint)
          /\ UNCHANGED <<ack2s, dataAck, lastAckAck>>
      BY <1>9 DEF AckTimer, sender
    <2>2. AckPoint \in Nat
      BY AckPointIsNumber
    <2>3. \A i \in Slots :
             \/ history'.no[i] = ackNo + 1 /\ history'.data[i] = AckPoint
             \/ history'.no[i] = history.no[i] /\ history'.data[i] = history.data[i]
      BY <1>1, <2>1, <2>2, StoreKeeps
    <2>4. new.no = ackNo + 1 /\ new.ack = AckPoint
      OBVIOUS
    <2>. HIDE DEF new
    <2>5. \A i \in Slots : history'.no[i] <= ackNo'
      BY <1>1, <2>1, <2>3 DEF Confirmed
    <2>6. /\ \A m \in acks' : m.no <= ackNo'
          /\ \A n \in ack2s' : n <= ackNo'
      BY <1>1, <2>1, <2>4 DEF Confirmed
    <2>7. ASSUME NEW m \in acks', NEW i \in Slots, m.no > 0, history'.no[i] = m.no
          PROVE  history'.data[i] = m.ack
      <3>1. CASE m = new
        BY <1>1, <2>3, <2>4, <2>7, <3>1 DEF Confirmed
      <3>2. CASE m \in acks
        <4>1. m.no <= ackNo
          BY <3>2 DEF Confirmed
        <4>2. history'.no[i] = history.no[i] /\ history'.data[i] = history.data[i]
          BY <1>1, <2>3, <2>7, <4>1
        <4>. QED  BY <2>7, <3>2, <4>2 DEF Confirmed
      <3>. QED  BY <2>1, <3>1, <3>2
    <2>8. ASSUME NEW n \in ack2s', NEW i \in Slots, history'.no[i] = n
          PROVE  history'.data[i] <= dataAck'
      <3>1. n \in ack2s /\ n <= ackNo
        BY <2>1 DEF Confirmed
      <3>2. history'.no[i] = history.no[i] /\ history'.data[i] = history.data[i]
        BY <1>1, <2>3, <2>8, <3>1
      <3>. QED  BY <2>1, <2>8, <3>1, <3>2 DEF Confirmed
    <2>9. Confirmed'
      BY <2>5, <2>6, <2>7, <2>8 DEF Confirmed
    <2>. QED  BY <2>1, <2>9 DEF AckAckIsKnown
  <1>10. CASE LightAckTimer
    <2>1. /\ Same /\ UNCHANGED <<ack2s, dataAck>>
          /\ \A m \in acks' : m \in acks \/ m.no = 0
      BY <1>10 DEF LightAckTimer, sender, receiver
    <2>2. \A m \in acks' : m.no <= ackNo
      BY <1>1, <2>1 DEF Confirmed
    <2>. QED  BY <2>1, <2>2 DEF Confirmed, AckAckIsKnown
  <1>11. ASSUME NEW n \in ack2s, TakeAck2(n) PROVE Confirmed' /\ AckAckIsKnown'
    <2>1. ack2s' \subseteq ack2s /\ UNCHANGED <<acks, dataAck, ackNo>>
      BY <1>11 DEF TakeAck2, sender
    <2>2. CASE UNCHANGED <<history, lastAckAck>>
      BY <1>2, <2>1, <2>2
    <2>3. ASSUME NEW i \in Found(history, n), history' = After(history, i),
                 lastAckAck' = Max2(lastAckAck, DataOf(history, i))
          PROVE  Confirmed' /\ AckAckIsKnown'
      <3>1. i \in Slots /\ history.no[i] = n
        BY <1>1, WaitingAreSlots DEF Found
      <3>2. /\ history'.data = history.data
            /\ \A k \in Slots : history'.no[k] = history.no[k] \/ history'.no[k] = -1
        BY <1>1, <2>3, <3>1, AfterKeeps
      <3>3. history.data[i] <= dataAck /\ history.data[i] \in Int
        BY <1>1, <3>1 DEF Confirmed
      <3>4. AckAckIsKnown'
        BY <1>1, <2>1, <2>3, <3>3 DEF AckAckIsKnown, Max2, DataOf
      <3>5. \A k \in Slots : history'.no[k] <= ackNo
        BY <1>1, <3>2 DEF Confirmed
      <3>6. ASSUME NEW m \in acks, NEW k \in Slots, m.no > 0, history'.no[k] = m.no
            PROVE  history'.data[k] = m.ack
        <4>1. history.no[k] = m.no
          BY <1>1, <3>2, <3>6
        <4>. QED  BY <3>2, <3>6, <4>1 DEF Confirmed
      <3>7. ASSUME NEW l \in ack2s, NEW k \in Slots, history'.no[k] = l
            PROVE  history'.data[k] <= dataAck
        <4>1. history.no[k] = l
          BY <1>1, <3>2, <3>7
        <4>. QED  BY <3>2, <4>1 DEF Confirmed
      <3>8. Confirmed'
        BY <2>1, <3>5, <3>6, <3>7 DEF Confirmed
      <3>. QED  BY <3>4, <3>8
    <2>. QED  BY <1>11, <2>2, <2>3 DEF TakeAck2
  <1>12. CASE Read
    <2>1. Same /\ UNCHANGED <<acks, ack2s, dataAck>>
      BY <1>12 DEF Read, sender, net
    <2>. QED  BY <1>2, <2>1
  <1>13. CASE Lose
    <2>1. Same /\ acks' \subseteq acks /\ ack2s' \subseteq ack2s /\ dataAck' = dataAck
      BY <1>13 DEF Lose, sender, receiver
    <2>. QED  BY <1>2, <2>1
  <1>. QED  BY <1>3, <1>4, <1>5, <1>6, <1>7, <1>8, <1>9, <1>10, <1>11, <1>12, <1>13 DEF Next

-----------------------------------------------------------------------------
(* The inductive invariant.                                                *)
THEOREM Invariance == Spec => []IInv
  <1>1. Init => IInv
    BY InitInv
  <1>2. IInv /\ [Next]_vars => IInv'
    <2>1. CASE UNCHANGED vars
      <3>1. UNCHANGED <<cli, srv, up, answers, curr, ack, dataAck, flow, sndLossSize, cc, got,
                        rcvCurr, lastAck, lastAckAck, read, ackNo, history, acks, ack2s>>
        BY <2>1 DEF vars, options, sender, receiver, net
      <3>. QED  BY <3>1 DEF IInv, OptionsOK, SenderOK, ReceiverOK, NetOK, Agreed, MssFits, Window,
                            Grants, NeverOverruns, Confirmed, AckAckIsKnown
    <2>2. ASSUME IInv, Next PROVE IInv'
      <3>1. OptionsOK' /\ SenderOK' /\ ReceiverOK' /\ NetOK'
        BY <2>2, NextTypes DEF IInv
      <3>2. Agreed'
        BY <2>2, NextAgreed DEF IInv
      <3>3. Window' /\ Grants' /\ NeverOverruns'
        BY <2>2, NextWindow
      <3>4. Confirmed' /\ AckAckIsKnown'
        BY <2>2, NextConfirmed DEF IInv
      <3>. QED  BY <3>1, <3>2, <3>3, <3>4 DEF IInv
    <2>. QED  BY <2>1, <2>2
  <1>. QED  BY <1>1, <1>2, PTL DEF Spec

(* PacketsFit, whatever the two hscp.conf files say and in whichever order *)
(* setoption and the handshakes change the options.                        *)
THEOREM MssIsAgreed == Spec => []PacketsFit
  <1>1. IInv => PacketsFit
    <2>. SUFFICES ASSUME IInv PROVE PacketsFit
      OBVIOUS
    <2>1. cli \in Options /\ srv \in Options /\ Agreed
      BY DEF IInv, OptionsOK
    <2>2. /\ cli.mss \in Nat /\ cli.udpSnd \in Nat /\ cli.udpRcv \in Nat
          /\ srv.mss \in Nat /\ srv.udpSnd \in Nat /\ srv.udpRcv \in Nat
      BY <2>1 DEF Options
    <2>. QED  BY <2>1, <2>2 DEF PacketsFit, Agreed, MssFits, Min2
  <1>. QED  BY <1>1, Invariance, PTL

(* NeverOverruns: of the flow control and of the two exceptions it makes.  *)
THEOREM RingIsNeverOverrun == Spec => []NeverOverruns
  <1>1. IInv => NeverOverruns
    BY DEF IInv
  <1>. QED  BY <1>1, Invariance, PTL

(* AckAckIsKnown: a slot of CACKWindow is used again and again, and still  *)
(* an ACK2 never confirms an ACK that the sender has not processed.        *)
THEOREM Ack2ConfirmsTheAck == Spec => []AckAckIsKnown
  <1>1. IInv => AckAckIsKnown
    BY DEF IInv
  <1>. QED  BY <1>1, Invariance, PTL

=============================================================================
