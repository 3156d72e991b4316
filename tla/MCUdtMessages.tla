---------------------------- MODULE MCUdtMessages ----------------------------
(* Three messages: the first of three packets, the last ordered; any of    *)
(* them may become too old.                                                *)
EXTENDS UdtMessages

MCLength == <<3, 1, 1>>

=============================================================================
