----------------------------- MODULE AckWindow -----------------------------
(***************************************************************************)
(* CACKWindow (window.cpp): which data ACK each ACK number went out with,   *)
(* in a ring that overwrites the oldest.  sendCtrl(2) stores an ACK,        *)
(* processCtrl looks up the ACK2 that answers it; ACK2s may be lost, late,  *)
(* repeated or out of order.  Both run in the receiving worker.            *)
(***************************************************************************)
EXTENDS Integers

CONSTANTS AckSize,      \* m_iSize (1024)
          MaxAckSeqNo,  \* CAckNo::m_iMaxAckSeqNo
          MaxAcks       \* how many ACKs are sent (a bound)

ASSUME AckWindowAssumption ==
  /\ AckSize \in Nat \ {0, 1} /\ MaxAcks \in Nat
  /\ MaxAckSeqNo \in Nat /\ MaxAckSeqNo >= 2 * AckSize

VARIABLES seqNo,    \* m_piACKSeqNo
          ack,      \* m_piACK
          head, tail,
          sent,     \* the ACKs sent so far: m_iAckSeqNo, not reduced
          newest,   \* the newest ACK an ACK2 was found for
          answer    \* the last ACK2 looked up, and what acknowledge returned
vars == <<seqNo, ack, head, tail, sent, newest, answer>>

Places == 0 .. AckSize - 1
incack(n) == IF n = MaxAckSeqNo THEN 0 ELSE n + 1
NextPlace(i) == (i + 1) % AckSize
None == -1

(* The places from m_iTail up to m_iHead, round the end of the arrays.      *)
Held == IF head >= tail THEN tail .. head - 1
                        ELSE (tail .. AckSize - 1) \cup (0 .. head - 1)

Number(k) == k % (MaxAckSeqNo + 1)

Init == /\ seqNo = [i \in Places |-> -1] /\ ack = [i \in Places |-> 0]
        /\ head = 0 /\ tail = 0
        /\ sent = 0 /\ newest = 0
        /\ answer = [k |-> 0, ret |-> None]

(* "overwrite the oldest ACK since it is not likely to be acknowledged".    *)
TailKept(h) == tail
TailAfterStore(h) == IF h = tail THEN NextPlace(tail) ELSE tail

(* Every ACK carries a data ACK of its own here, the number of the ACK      *)
(* before reduction, so that no mix-up can pass for the right answer.       *)
Store ==
  /\ sent < MaxAcks
  /\ sent' = sent + 1
  /\ seqNo' = [seqNo EXCEPT ![head] = incack(Number(sent))]
  /\ ack' = [ack EXCEPT ![head] = sent']
  /\ head' = NextPlace(head)
  /\ tail' = TailAfterStore(head')
  /\ UNCHANGED <<newest, answer>>

(* acknowledge: everything up to the ACK found is forgotten.                *)
Acknowledge(k) ==
  /\ UNCHANGED <<ack, sent>>
  /\ \/ \E i \in Held :
          /\ seqNo[i] = Number(k)
          /\ answer' = [k |-> k, ret |-> ack[i]]
          /\ newest' = k
          /\ IF head >= tail /\ i + 1 = head
               THEN head' = 0 /\ tail' = 0 /\ seqNo' = [seqNo EXCEPT ![0] = -1]
               ELSE tail' = NextPlace(i) /\ UNCHANGED <<head, seqNo>>
     \/ /\ \A i \in Held : seqNo[i] # Number(k)
        /\ answer' = [k |-> k, ret |-> None]
        /\ UNCHANGED <<seqNo, head, tail, newest>>

Next == \/ Store
        \/ \E k \in 1 .. sent : sent - k < MaxAckSeqNo /\ Acknowledge(k)

Spec == Init /\ [][Next]_vars

-----------------------------------------------------------------------------
(* acknowledge returns the data ACK that this very ACK carried, if the ACK   *)
(* is newer than every one answered so far and among the last AckSize - 1   *)
(* sent, and nothing otherwise: never that of another ACK, though the ring  *)
(* keeps old numbers beyond its ends and the numbers themselves wrap.  With *)
(* a wrong one m_iRcvLastAckAck would pass an ACK the sender never heard.   *)
Recent(k) == k > newest /\ k > sent - AckSize + 1
RightAnswer ==
  [][answer' # answer =>
       answer'.ret = IF Recent(answer'.k) THEN answer'.k ELSE None]_vars
=============================================================================
