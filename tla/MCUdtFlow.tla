----------------------------- MODULE MCUdtFlow -----------------------------
(***************************************************************************)
(* UdtFlow on small numbers: payloads of one to three units, windows of    *)
(* four packets and more, and hscp.conf files that tell the cases apart.   *)
(***************************************************************************)
EXTENDS UdtFlow

MCDefault == [mss |-> 3, fc |-> 6, rcv |-> 5, udpSnd |-> 6, udpRcv |-> 12]

Line(para, num) == [para |-> para, num |-> num]

MCClientConfs ==
    {<<Line("UDTMaxPktSize", 5), Line("UDPSendBufSize", 3), Line("UDPSendBufSize", 4)>>}

\* A UDP buffer below the packet size, and a ring of four slots with a window of
\* five: the first answer announces four packets, a repeated one five.
MCServerConfs ==
    {<<Line("UDPRecvBufSize", 1), Line("UDTMaxPktSize", 4), Line("UDTRecvBufSize", 1),
       Line("UDTMaxWinSize", 5)>>}

=============================================================================
