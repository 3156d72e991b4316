---------------------------- MODULE MCUdtSendList ----------------------------
(* UdtSendList on interchangeable sockets: no action names one.            *)
EXTENDS UdtSendList, TLC

Interchangeable == Permutations(Sockets)

==============================================================================
