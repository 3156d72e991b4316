-------------------------- MODULE ReliableStream --------------------------
(***************************************************************************)
(* What a UDT stream connection promises to the two applications that hold *)
(* its ends: the packets the sending application has put in come out at    *)
(* the receiving application once each, in the order of their numbers, and *)
(* never before they were put in.  Packet i of the stream is named i.      *)
(*                                                                         *)
(* This is the abstract specification of UdtTransfer: it knows nothing of  *)
(* buffers, loss lists, acknowledgements or timers.                        *)
(***************************************************************************)
EXTENDS Naturals, Sequences

CONSTANTS
    N,          \* packets in the stream
    Chunk       \* packets one call of the application puts in at most

VARIABLES
    written,    \* packets put in so far: 0 .. written - 1
    delivered   \* packets taken out so far, in the order they came out

Init == written = 0 /\ delivered = <<>>

Put ==
    /\ \E k \in 1..Chunk : written' = written + k
    /\ written' <= N
    /\ UNCHANGED delivered

Take ==
    /\ Len(delivered) < written
    /\ delivered' = Append(delivered, Len(delivered))
    /\ UNCHANGED written

Next == Put \/ Take

Spec == Init /\ [][Next]_<<written, delivered>>
=============================================================================
