------------------------------- MODULE SeqNo -------------------------------
(***************************************************************************)
(* Circular sequence numbers (CSeqNo in common.h): 0 .. MaxSeqNo, compared  *)
(* through the threshold SeqNoTH.  In the code MaxSeqNo is 2^31 - 1 and     *)
(* SeqNoTH 2^30 - 1.  The proofs of LossListProofs tie each operator to the *)
(* unwrapped numbers the other modules count with.                         *)
(***************************************************************************)
EXTENDS Integers

CONSTANTS MaxSeqNo, SeqNoTH

ASSUME SeqNoAssumption ==
  /\ SeqNoTH \in Nat \ {0}
  /\ MaxSeqNo = 2 * SeqNoTH + 1

Distance(a, b) == IF a <= b THEN b - a ELSE a - b

seqcmp(a, b) == IF Distance(a, b) < SeqNoTH THEN a - b ELSE b - a

seqlen(a, b) == IF a <= b THEN b - a + 1 ELSE b - a + MaxSeqNo + 2

seqoff(a, b) ==
  IF Distance(a, b) < SeqNoTH THEN b - a
    ELSE IF a < b THEN b - a - MaxSeqNo - 1 ELSE b - a + MaxSeqNo + 1

incseq(a) == IF a = MaxSeqNo THEN 0 ELSE a + 1
decseq(a) == IF a = 0 THEN MaxSeqNo ELSE a - 1
incseqBy(a, n) == IF MaxSeqNo - a >= n THEN a + n ELSE a - MaxSeqNo + n - 1

(* The circular number that stands for unwrapped number s.                 *)
Wrap(s) == s % (MaxSeqNo + 1)
=============================================================================
