------------------------------ MODULE UdtFlow ------------------------------
(***************************************************************************)
(* How much may be on its way: from the lines of hscp.conf through the     *)
(* options of the two sockets (udtscp.cpp, CUDT::setOpt) and the handshake *)
(* (CUDT::connect, CUDTUnited::newConnection) to the windows of a running  *)
(* connection - the flow window the receiver grants, the congestion window *)
(* of CUDTCC (ccc.cpp) - and the record of ACKs sent (CACKWindow,          *)
(* window.cpp) by which the receiver learns what the sender knows.         *)
(*                                                                         *)
(* The sizes of the four containers are fixed when a socket is connected,  *)
(* from options that are set one after the other and from numbers of the   *)
(* handshake; the windows are granted later, from other numbers.  The      *)
(* containers themselves are in UdtSender and UdtReceiver, the path of the *)
(* data in UdtTransfer, the life of the sockets in UdtConnect.             *)
(*                                                                         *)
(* The client sends.  Sequence numbers count from the initial one and do   *)
(* not wrap; a packet that was sent may arrive at any time, for it is sent *)
(* again until it is acknowledged; ACKs and ACK2s are lost and reordered.  *)
(* Clocks are left out, and so is the sending period of the congestion     *)
(* control, with the cuts that change only it.                             *)
(***************************************************************************)
EXTENDS Integers, Sequences, FiniteSets

CONSTANTS
    Header,         \* the 28 bytes of IP and UDP headers
    MinMss,         \* the smallest UDT_MSS that setOpt takes
    MinWindow,      \* the 32 packets below which no window or buffer goes
    Default,        \* the options of a new socket: [mss, fc, rcv, udpSnd, udpRcv]
    ClientConfs, ServerConfs,   \* possible hscp.conf files: sequences of [para, num]
    CwndInit,       \* the 16 packets CUDTCC starts with
    CwndLater,      \* windows it may compute from the measured rate
    HistorySize,    \* slots of CACKWindow
    Total,          \* bound: packets sent
    MaxAcks,        \* bound: full ACKs sent
    NetCap          \* bound: ACKs in flight, and ACK2s

Min2(a, b) == IF a < b THEN a ELSE b
Max2(a, b) == IF a > b THEN a ELSE b
Least(S) == CHOOSE x \in S : \A y \in S : x <= y

ASSUME FlowAssumption ==
    /\ {Header, MinMss, MinWindow, CwndInit, Total, MaxAcks, NetCap}
           \subseteq Nat \ {0}
    /\ Header < MinMss /\ CwndInit < MinWindow
    /\ CwndLater \subseteq Nat /\ \A w \in CwndLater : w >= CwndInit
    /\ HistorySize \in Nat /\ HistorySize >= 2
    /\ Default \in [mss : Nat, fc : Nat, rcv : Nat, udpSnd : Nat, udpRcv : Nat]
    /\ Header < Default.mss /\ Default.mss <= Min2(Default.udpSnd, Default.udpRcv)
    /\ ClientConfs \cup ServerConfs \subseteq Seq([para : STRING, num : Nat])

VARIABLES
    cli, srv,       \* the options of the client's and of the accepted socket
    up,             \* [cli, srv]: which of them are connected
    answers,        \* the server's handshakes, on their way
    \* the client: sender
    curr,           \* m_iSndCurrSeqNo, the number last sent
    ack, dataAck,   \* m_iSndLastAck, m_iSndLastDataAck
    flow,           \* m_iFlowWindowSize
    sndLossSize,    \* nodes of its loss list
    cc,             \* the CUDTCC object
    \* the server: receiver
    got,            \* the numbers in the ring that are not acknowledged
    rcvCurr,        \* m_iRcvCurrSeqNo
    lastAck,        \* m_iRcvLastAck
    lastAckAck,     \* m_iRcvLastAckAck
    read,           \* the number the application reads next
    ackNo,          \* m_iAckSeqNo
    history,        \* the CACKWindow
    \* the network
    acks, ack2s

options  == <<cli, srv, up, answers>>
sender   == <<curr, ack, dataAck, flow, sndLossSize, cc>>
receiver == <<got, rcvCurr, lastAck, lastAckAck, read, ackNo, history>>
net      == <<acks, ack2s>>
vars == <<options, sender, receiver, net>>

-----------------------------------------------------------------------------
(***************************************************************************)
(* Options, in the order UDTScp::setoption sets them.  A value that setOpt *)
(* refuses changes nothing; the result is not looked at.                   *)
(***************************************************************************)
SetUdpSnd(o, v) == IF v = 0 THEN o ELSE [o EXCEPT !.udpSnd = Max2(v, o.mss)]
SetUdpRcv(o, v) == IF v = 0 THEN o ELSE [o EXCEPT !.udpRcv = Max2(v, o.mss)]

SetRcv(o, v) ==
    LET payload == o.mss - Header
        packets == IF v > payload * MinWindow THEN v \div payload ELSE MinWindow
    IN  IF v = 0 THEN o ELSE [o EXCEPT !.rcv = Min2(packets, o.fc)]

MssAsAsked(o, v) ==             \* mutant: the UDP buffers are not looked at
    IF v = 0 \/ v < MinMss THEN o ELSE [o EXCEPT !.mss = v]

SetMss(o, v) ==
    IF v = 0 \/ v < MinMss THEN o ELSE [o EXCEPT !.mss = Min2(v, Min2(o.udpSnd, o.udpRcv))]

SetFc(o, v) == IF v = 0 THEN o ELSE [o EXCEPT !.fc = Max2(v, MinWindow)]

(* read_config: the last line of each parameter counts; 0 if there is none.*)
ReadConfig(conf) ==
    [p \in {"UDPSendBufSize", "UDPRecvBufSize", "UDTRecvBufSize", "UDTMaxPktSize", "UDTMaxWinSize"} |->
        LET lines == {i \in DOMAIN conf : conf[i].para = p}
        IN  IF lines = {} THEN 0 ELSE conf[CHOOSE i \in lines : \A k \in lines : k <= i].num]

(* The order of setoption: the window comes last.                          *)
Configured(conf) ==
    LET num == ReadConfig(conf)
        udp == SetUdpRcv(SetUdpSnd(Default, num["UDPSendBufSize"]), num["UDPRecvBufSize"])
    IN  SetFc(SetMss(SetRcv(udp, num["UDTRecvBufSize"]), num["UDTMaxPktSize"]), num["UDTMaxWinSize"])

(* The window that a side announces in its handshake.                      *)
Announced(o) == Min2(o.rcv, o.fc)

-----------------------------------------------------------------------------
(***************************************************************************)
(* CACKWindow.  The slots from tail to before head hold the ACKs that wait *)
(* for their ACK2.                                                         *)
(***************************************************************************)
Slots == 0..(HistorySize - 1)
NoHistory == [no |-> [i \in Slots |-> -1], data |-> [i \in Slots |-> 0], head |-> 0, tail |-> 0]

Waiting(h) ==
    IF h.head >= h.tail THEN h.tail..(h.head - 1)
    ELSE {i \in Slots : i >= h.tail \/ i < h.head}

Store(h, n, a) ==
    LET head == (h.head + 1) % HistorySize
    IN  [no |-> [h.no EXCEPT ![h.head] = n], data |-> [h.data EXCEPT ![h.head] = a],
         head |-> head,
         tail |-> IF head = h.tail THEN (h.tail + 1) % HistorySize ELSE h.tail]

Found(h, n) == {i \in Waiting(h) : h.no[i] = n}

Emptied(h) == [h EXCEPT !.no = [h.no EXCEPT ![0] = -1], !.head = 0, !.tail = 0]

(* What is left when the ACK in slot i is acknowledged.                    *)
After(h, i) ==
    IF (h.head >= h.tail /\ i + 1 = h.head) \/ (h.head < h.tail /\ i = h.head)
    THEN Emptied(h) ELSE [h EXCEPT !.tail = (i + 1) % HistorySize]

NewestData(h, i) == h.data[(h.head + HistorySize - 1) % HistorySize]    \* mutant
DataOf(h, i) == h.data[i]

-----------------------------------------------------------------------------
(***************************************************************************)
(* CUDTCC.                                                                 *)
(***************************************************************************)
NewCC(window, seq) == [slow |-> TRUE, cwnd |-> CwndInit, max |-> window, lastAck |-> seq]

(* onACK: not more often than every 10 ms.                                 *)
OnAck(c, a) ==
    {c} \cup
    IF c.slow
    THEN LET w == Min2(c.cwnd + (a - c.lastAck + 1), Total + 1)
         IN  {[c EXCEPT !.cwnd = w, !.lastAck = a, !.slow = w <= c.max]}
    ELSE {[c EXCEPT !.cwnd = w] : w \in CwndLater}

(* onLoss and onTimeout end the slow start.                                *)
OnLoss(c) == [c EXCEPT !.slow = FALSE]

-----------------------------------------------------------------------------
(* The sockets before the handshake.                                       *)
Init ==
    /\ \E c \in ClientConfs : cli = Configured(c)
    /\ \E s \in ServerConfs : srv = Configured(s)
    /\ up = [cli |-> FALSE, srv |-> FALSE] /\ answers = {}
    /\ curr = 0 /\ ack = 1 /\ dataAck = 1 /\ flow = 0 /\ sndLossSize = 0
    /\ cc = NewCC(0, 0)
    /\ got = {} /\ rcvCurr = 0 /\ lastAck = 1 /\ lastAckAck = 1 /\ read = 1
    /\ ackNo = 0 /\ history = NoHistory
    /\ acks = {} /\ ack2s = {}

(***************************************************************************)
(* The handshake.  The server takes the smaller MSS; a request that comes  *)
(* again (the answer was lost or is late) is answered from the socket that *)
(* exists, and then with the whole of its m_iFlightFlagSize.               *)
(***************************************************************************)
FirstRequest ==
    /\ ~up.srv
    /\ LET mss == Min2(cli.mss, srv.mss)
       IN  /\ srv' = [srv EXCEPT !.mss = mss]
           /\ answers' = {[mss |-> mss, flight |-> Announced(srv)]}
    /\ up' = [up EXCEPT !.srv = TRUE]
    /\ UNCHANGED <<cli, sender, receiver, net>>

RepeatedRequest ==
    /\ up.srv /\ ~up.cli
    /\ answers' = {[mss |-> srv.mss, flight |-> srv.fc]}
    /\ UNCHANGED <<cli, srv, up, sender, receiver, net>>

TakeAnswer(m) ==
    /\ ~up.cli /\ m \in answers
    /\ up' = [up EXCEPT !.cli = TRUE] /\ answers' = {}
    /\ cli' = [cli EXCEPT !.mss = m.mss]
    /\ flow' = m.flight /\ sndLossSize' = 2 * m.flight /\ cc' = NewCC(m.flight, 0)
    /\ UNCHANGED <<srv, curr, ack, dataAck, receiver, net>>

-----------------------------------------------------------------------------
(***************************************************************************)
(* The sender.                                                             *)
(***************************************************************************)
SendWindow == Min2(flow, cc.cwnd)

PackNew ==
    /\ up.cli /\ curr < Total
    /\ SendWindow >= (curr + 1) - ack + 1
    /\ curr' = curr + 1
    /\ UNCHANGED <<options, ack, dataAck, flow, sndLossSize, cc, receiver, net>>

(* A light ACK moves the window and takes what it passes from it.          *)
TakeLightAck(m) ==
    /\ m \in acks /\ m.no = 0
    /\ acks' = acks \ {m}
    /\ IF m.ack >= ack THEN flow' = flow - (m.ack - ack) /\ ack' = m.ack
                       ELSE UNCHANGED <<flow, ack>>
    /\ UNCHANGED <<options, curr, dataAck, sndLossSize, cc, receiver, ack2s>>

(* A full ACK is answered by an ACK2, but for those of the same 10 ms.     *)
TakeAck(m) ==
    /\ m \in acks /\ m.no > 0
    /\ acks' = acks \ {m}
    /\ ack2s' \in {ack2s} \cup IF Cardinality(ack2s) < NetCap THEN {ack2s \cup {m.no}} ELSE {}
    /\ IF m.ack >= ack THEN flow' = m.room /\ ack' = m.ack ELSE UNCHANGED <<flow, ack>>
    /\ IF m.ack > dataAck THEN dataAck' = m.ack /\ cc' \in OnAck(cc, m.ack)
                          ELSE UNCHANGED <<dataAck, cc>>
    /\ UNCHANGED <<options, curr, sndLossSize, receiver>>

(* A NAK, or the EXP timer with data that is not acknowledged.             *)
Loss ==
    /\ up.cli /\ dataAck <= curr /\ cc.slow
    /\ cc' = OnLoss(cc)
    /\ UNCHANGED <<options, curr, ack, dataAck, flow, sndLossSize, receiver, net>>

-----------------------------------------------------------------------------
(***************************************************************************)
(* The receiver.                                                           *)
(***************************************************************************)
RoomNoGap(a) == srv.rcv - (a - read)        \* mutant: every slot is used
RoomAt(a) == srv.rcv - (a - read) - 1
Room == RoomAt(lastAck)

Holes == {s \in lastAck..rcvCurr : s \notin got}
AckPoint == IF Holes = {} THEN rcvCurr + 1 ELSE Least(Holes)

(* processData: a packet that finds no slot in the ring is dropped.        *)
TakeData(s) ==
    /\ s <= curr /\ s \notin got
    /\ s - lastAck \in 0..(Room - 1)
    /\ got' = got \cup {s} /\ rcvCurr' = Max2(rcvCurr, s)
    /\ UNCHANGED <<options, sender, lastAck, lastAckAck, read, ackNo, history, net>>

Granted(room) == Max2(room, 2)

(* A full ACK, unless the sender is known to have this one: the ACK timer  *)
(* has fired, or the same ACK has been without answer for long enough.     *)
AckTimer ==
    /\ ackNo < MaxAcks /\ Cardinality(acks) < NetCap
    /\ AckPoint # lastAckAck /\ AckPoint >= lastAck /\ AckPoint > lastAckAck
    /\ lastAck' = AckPoint
    /\ got' = {s \in got : s >= AckPoint}
    /\ ackNo' = ackNo + 1
    /\ acks' = acks \cup {[no |-> ackNo + 1, ack |-> AckPoint,
                           room |-> Granted(RoomAt(AckPoint))]}
    /\ history' = Store(history, ackNo + 1, AckPoint)
    /\ UNCHANGED <<options, sender, rcvCurr, lastAckAck, read, ack2s>>

LightAckTimer ==
    /\ AckPoint # lastAckAck /\ Cardinality(acks) < NetCap
    /\ acks' = acks \cup {[no |-> 0, ack |-> AckPoint, room |-> 0]}
    /\ UNCHANGED <<options, sender, receiver, ack2s>>

(* An ACK2 that finds its ACK; else it changes nothing.                    *)
TakeAck2(n) ==
    /\ n \in ack2s
    /\ ack2s' = ack2s \ {n}
    /\ \/ /\ Found(history, n) = {}
          /\ UNCHANGED <<history, lastAckAck>>
       \/ \E i \in Found(history, n) :
            /\ history' = After(history, i)
            /\ lastAckAck' = Max2(lastAckAck, DataOf(history, i))
    /\ UNCHANGED <<options, sender, got, rcvCurr, lastAck, read, ackNo, acks>>

Read ==
    /\ read < lastAck
    /\ read' = read + 1
    /\ UNCHANGED <<options, sender, got, rcvCurr, lastAck, lastAckAck, ackNo, history, net>>

(* The network loses a datagram.                                           *)
Lose ==
    /\ \/ \E m \in acks : acks' = acks \ {m} /\ UNCHANGED ack2s
       \/ \E n \in ack2s : ack2s' = ack2s \ {n} /\ UNCHANGED acks
    /\ UNCHANGED <<options, sender, receiver>>

Next ==
    \/ FirstRequest \/ RepeatedRequest
    \/ \E m \in answers : TakeAnswer(m)
    \/ PackNew
    \/ \E m \in acks : TakeLightAck(m) \/ TakeAck(m)
    \/ Loss
    \/ \E s \in lastAck..curr : TakeData(s)
    \/ AckTimer \/ LightAckTimer
    \/ \E n \in ack2s : TakeAck2(n)
    \/ Read
    \/ Lose

Spec == Init /\ [][Next]_vars

-----------------------------------------------------------------------------
(* Both sides cut the file into packets of the same size, which the UDP    *)
(* buffers of both can hold, whichever options each was given in whichever *)
(* of its hscp.conf lines, and whichever answer reached the client.        *)
PacketsFit ==
    up.cli =>
        /\ cli.mss = srv.mss
        /\ srv.mss <= Min2(Min2(cli.udpSnd, cli.udpRcv), Min2(srv.udpSnd, srv.udpRcv))

(* However ACKs and light ACKs are lost, delayed and reordered, what the   *)
(* sender sends has a slot in the ring when it arrives, but for the two    *)
(* packets of the minimum window, which it sends to a full ring too, and   *)
(* for what the handshake announced (half of sndLossSize), which may be    *)
(* more than the ring holds and is taken for granted until the first full  *)
(* ACK comes, whatever light ACKs say before.                              *)
NeverOverruns ==
    \/ curr <= read + srv.rcv - 2
    \/ curr <= ack + 1
    \/ 2 * curr <= sndLossSize

(* The receiver stops sending an ACK only when the sender has it: what an  *)
(* ACK2 is taken to confirm, however late it comes and however many ACKs   *)
(* were sent and forgotten since, has been processed by the sender.        *)
AckAckIsKnown == lastAckAck <= dataAck

=============================================================================
