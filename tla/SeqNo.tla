------------------------------- MODULE SeqNo -------------------------------
(***************************************************************************)
(* CSeqNo (udt4/src/common.h): the circular arithmetic on the 31-bit       *)
(* packet sequence numbers of UDT.  A sequence number is in 0..MaxSeqNo;   *)
(* after MaxSeqNo comes 0.  Two numbers are compared by assuming that they *)
(* are less than SeqNoTH apart on the circle.                              *)
(*                                                                         *)
(* In the code MaxSeqNo = 0x7FFFFFFF and SeqNoTH = 0x3FFFFFFF.             *)
(***************************************************************************)
EXTENDS Integers

CONSTANTS MaxSeqNo, SeqNoTH

(* SeqNoTH is half of the circle, less one.                                *)
ASSUME SeqNoAssumption ==
    /\ MaxSeqNo \in Nat
    /\ SeqNoTH \in Nat
    /\ SeqNoTH >= 1
    /\ MaxSeqNo + 1 = 2 * (SeqNoTH + 1)

SeqNos == 0..MaxSeqNo

Abs(x) == IF x < 0 THEN -x ELSE x

SeqCmpPlain(seq1, seq2) == seq1 - seq2  \* mutant: compared as plain integers

SeqCmp(seq1, seq2) ==
    IF Abs(seq1 - seq2) < SeqNoTH THEN seq1 - seq2 ELSE seq2 - seq1

SeqLen(seq1, seq2) ==
    IF seq1 <= seq2 THEN seq2 - seq1 + 1 ELSE seq2 - seq1 + MaxSeqNo + 2

SeqOffShort(seq1, seq2) ==      \* mutant: the wrapped branch forgets the + 1
    CASE Abs(seq1 - seq2) < SeqNoTH -> seq2 - seq1
      [] Abs(seq1 - seq2) >= SeqNoTH /\ seq1 < seq2 -> seq2 - seq1 - MaxSeqNo - 1
      [] OTHER -> seq2 - seq1 + MaxSeqNo

SeqOff(seq1, seq2) ==
    CASE Abs(seq1 - seq2) < SeqNoTH -> seq2 - seq1
      [] Abs(seq1 - seq2) >= SeqNoTH /\ seq1 < seq2 -> seq2 - seq1 - MaxSeqNo - 1
      [] OTHER -> seq2 - seq1 + MaxSeqNo + 1

IncSeq(seq) == IF seq = MaxSeqNo THEN 0 ELSE seq + 1

DecSeq(seq) == IF seq = 0 THEN MaxSeqNo ELSE seq - 1

(* The two-argument incseq.                                                *)
IncSeqBy(seq, inc) ==
    IF MaxSeqNo - seq >= inc THEN seq + inc ELSE seq - MaxSeqNo + inc - 1

=============================================================================
