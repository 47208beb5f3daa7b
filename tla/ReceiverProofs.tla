--------------------------- MODULE ReceiverProofs ---------------------------
(***************************************************************************)
(* The receiver: the window of the ACKs sent, in a ring of places and on a  *)
(* circle of ACK numbers; the pool of units, in a ring of blocks; and the   *)
(* lists of the receiving worker.  acknowledge is right for a ring of any   *)
(* size, any number of ACKs and any circle at least twice the ring; the     *)
(* scan for a unit skips at most once while there is room, for a pool of    *)
(* any size; and the lists agree, sorted, for any sockets and intervals.    *)
(***************************************************************************)
EXTENDS AckWindow, UnitQueue, RcvQueue, FiniteSetTheorems, TLAPS

(* Division with remainder, for a divisor that is a constant.              *)
LEMMA Division ==
  ASSUME NEW a \in Int, NEW r \in Int, r >= 1
  PROVE  /\ a = r * (a \div r) + (a % r) /\ 0 <= a % r /\ a % r < r
         /\ a \div r \in Int /\ a % r \in Int
  OBVIOUS

(* A remainder is the only number below r that differs by a multiple of r.  *)
LEMMA OneRemainder ==
  ASSUME NEW r \in Int, r >= 1, NEW p \in Int, NEW q \in Int, NEW m \in Int, NEW n \in Int,
         0 <= m, m < r, 0 <= n, n < r, r * p + m = r * q + n
  PROVE  p = q /\ m = n
  <1>1. r * (p - q) = n - m
    OBVIOUS
  <1>2. CASE p - q >= 1
    <2>1. r * (p - q) >= r
      BY <1>2
    <2>2. QED
      BY <1>1, <2>1
  <1>3. CASE p - q <= -1
    <2>1. r * (p - q) <= -r
      BY <1>3
    <2>2. QED
      BY <1>1, <2>1
  <1>4. CASE p = q
    BY <1>1, <1>4
  <1>5. QED
    BY <1>2, <1>3, <1>4

-----------------------------------------------------------------------------
(* The ACK window.                                                         *)

(* The ACKs that the ring still knows: those after the newest one answered, *)
(* and no more than all places but one.                                    *)
Known == IF sent - newest < AckSize - 1 THEN sent - newest ELSE AckSize - 1

(* How far place i is from m_iTail, round the end of the arrays.            *)
Ahead(i) == IF i >= tail THEN i - tail ELSE i - tail + AckSize

(* The ring, and how many ACKs were sent.                                   *)
AckTypeInv ==
  /\ seqNo \in [Places -> Int] /\ ack \in [Places -> Int]
  /\ head \in Places /\ tail \in Places
  /\ sent \in Nat /\ newest \in 0 .. sent

(* The places from m_iTail hold the ACKs that the ring knows, in order.     *)
AckInv ==
  /\ AckTypeInv
  /\ Ahead(head) = Known
  /\ \A i \in Places :
       Ahead(i) < Known =>
         /\ ack[i] = sent - Known + 1 + Ahead(i)
         /\ seqNo[i] = Number(ack[i])

(* The next ACK number is incack's, though numbers wrap.                    *)
LEMMA NextNumber ==
  ASSUME NEW k \in Nat
  PROVE  incack(Number(k)) = Number(k + 1)
  <1> DEFINE r == MaxAckSeqNo + 1
             p == k \div r
             m == k % r
             q == (k + 1) \div r
             n == (k + 1) % r
  <1>1. r \in Int /\ r >= 1 /\ MaxAckSeqNo = r - 1
    BY AckWindowAssumption
  <1> HIDE DEF r
  <1>2. k = r * p + m /\ 0 <= m /\ m < r /\ p \in Int /\ m \in Int
    BY <1>1, Division
  <1>3. k + 1 = r * q + n /\ 0 <= n /\ n < r /\ q \in Int /\ n \in Int
    BY <1>1, Division
  <1> HIDE DEF p, q, m, n
  <1>4. CASE m = r - 1
    <2>1. r * (p + 1) + 0 = r * q + n
      BY <1>1, <1>2, <1>3, <1>4
    <2>2. n = 0
      BY <1>1, <1>2, <1>3, <2>1, OneRemainder
    <2>3. QED
      BY <1>1, <1>4, <2>2 DEF incack, Number, m, n, r
  <1>5. CASE m # r - 1
    <2>1. r * p + (m + 1) = r * q + n /\ m + 1 < r
      BY <1>1, <1>2, <1>3, <1>5
    <2>2. n = m + 1
      BY <1>1, <1>2, <1>3, <2>1, OneRemainder
    <2>3. QED
      BY <1>1, <1>5, <2>2 DEF incack, Number, m, n, r
  <1>6. QED
    BY <1>4, <1>5

(* Two ACKs less than a circle apart have different numbers.                *)
LEMMA DistinctNumbers ==
  ASSUME NEW j \in Int, NEW k \in Int, j - k <= MaxAckSeqNo, k - j <= MaxAckSeqNo,
         Number(j) = Number(k)
  PROVE  j = k
  <1> DEFINE r == MaxAckSeqNo + 1
             p == j \div r
             q == k \div r
             m == j % r
             n == k % r
  <1>1. r \in Int /\ r >= 1 /\ MaxAckSeqNo = r - 1
    BY AckWindowAssumption
  <1>2. j = r * p + m /\ k = r * q + n /\ p \in Int /\ q \in Int /\ m \in Int /\ n \in Int
    BY <1>1, Division
  <1>3. m = n
    BY DEF Number
  <1> HIDE DEF p, q, m, n, r
  <1>4. r * (p - q) = j - k
    BY <1>1, <1>2, <1>3
  <1>5. p - q >= 1 => r * (p - q) >= r
    BY <1>1, <1>2
  <1>6. p - q <= -1 => r * (p - q) <= -r
    BY <1>1, <1>2
  <1>7. p = q
    BY <1>1, <1>2, <1>4, <1>5, <1>6
  <1>8. QED
    BY <1>2, <1>3, <1>7

(* The next place.                                                         *)
LEMMA NextPlaceIs ==
  ASSUME NEW i \in Places
  PROVE  NextPlace(i) = IF i = AckSize - 1 THEN 0 ELSE i + 1
  <1>1. AckSize \in Int /\ AckSize >= 2 /\ i \in 0 .. AckSize - 1
    BY AckWindowAssumption DEF Places
  <1> DEFINE r == AckSize
             q == (i + 1) \div r
             n == (i + 1) % r
  <1>2. i + 1 = r * q + n /\ 0 <= n /\ n < r /\ q \in Int /\ n \in Int
    BY <1>1, Division
  <1> HIDE DEF q, n
  <1>3. CASE i = r - 1
    <2>1. r * 1 + 0 = r * q + n
      BY <1>1, <1>2, <1>3
    <2>2. n = 0
      BY <1>1, <1>2, <2>1, OneRemainder
    <2>3. QED
      BY <1>3, <2>2 DEF NextPlace, n
  <1>4. CASE i # r - 1
    <2>1. r * 0 + (i + 1) = r * q + n
      BY <1>1, <1>2
    <2>2. n = i + 1
      BY <1>1, <1>2, <1>4, <2>1, OneRemainder
    <2>3. QED
      BY <1>4, <2>2 DEF NextPlace, n
  <1>5. QED
    BY <1>3, <1>4

(* The places that acknowledge searches are those of the ACKs it knows.     *)
LEMMA HeldPlaces ==
  ASSUME AckInv
  PROVE  \A i : i \in Held <=> i \in Places /\ Ahead(i) < Known
  <1>1. /\ head \in 0 .. AckSize - 1 /\ tail \in 0 .. AckSize - 1 /\ AckSize \in Int
        /\ Ahead(head) = Known
    BY AckWindowAssumption DEF AckInv, AckTypeInv, Places
  <1>2. CASE head >= tail
    <2>1. Held = tail .. head - 1 /\ Known = head - tail
      BY <1>1, <1>2 DEF Held, Ahead
    <2>2. QED
      BY <1>1, <1>2, <2>1 DEF Ahead, Places
  <1>3. CASE head < tail
    <2>1. /\ Held = (tail .. AckSize - 1) \cup (0 .. head - 1)
          /\ Known = head - tail + AckSize
      BY <1>1, <1>3 DEF Held, Ahead
    <2>2. QED
      BY <1>1, <1>3, <2>1 DEF Ahead, Places
  <1>4. QED
    BY <1>1, <1>2, <1>3

(* AckFacts of a state that the steps below use.                              *)
LEMMA AckFacts ==
  ASSUME AckInv
  PROVE  /\ AckSize \in Int /\ AckSize >= 2 /\ sent \in Int /\ newest \in Int
         /\ 0 <= newest /\ newest <= sent
         /\ head \in 0 .. AckSize - 1 /\ tail \in 0 .. AckSize - 1
         /\ Known \in Int /\ 0 <= Known /\ Known <= AckSize - 1 /\ Known <= sent - newest
         /\ Ahead(head) = Known
  BY AckWindowAssumption DEF AckInv, AckTypeInv, Known, Places

(* An ACK stored is the newest of the ring, and the oldest is overwritten   *)
(* when there is no place but one left.                                    *)
LEMMA StoreStep ==
  ASSUME AckInv, Store
  PROVE  AckInv'
  <1>1. /\ sent' = sent + 1 /\ newest' = newest
        /\ seqNo' = [seqNo EXCEPT ![head] = Number(sent + 1)]
        /\ ack' = [ack EXCEPT ![head] = sent + 1]
        /\ head' = (IF head = AckSize - 1 THEN 0 ELSE head + 1)
        /\ tail' = IF head' = tail THEN (IF tail = AckSize - 1 THEN 0 ELSE tail + 1) ELSE tail
    BY NextNumber, NextPlaceIs DEF AckInv, AckTypeInv, Store, TailAfterStore
  <1>2. AckTypeInv'
    <2>1. Number(sent + 1) \in Int
      BY AckWindowAssumption DEF AckInv, AckTypeInv, Number
    <2>2. QED
      BY <1>1, <2>1, AckWindowAssumption DEF AckInv, AckTypeInv, Places
  <1>3. /\ Known' = (IF head' = tail THEN Known ELSE Known + 1)
        /\ head' = tail <=> Known = AckSize - 1
    BY <1>1, AckFacts DEF Ahead, Known
  <1>4. \A i \in Places : (Ahead(i))' =
           IF head' = tail THEN (IF i = tail THEN AckSize - 1 ELSE Ahead(i) - 1) ELSE Ahead(i)
    BY <1>1, AckFacts DEF Ahead, Places
  <1>5. (Ahead(head))' = Known'
    BY <1>1, <1>3, AckFacts DEF Ahead
  <1>6. ASSUME NEW i \in Places, (Ahead(i))' < Known'
        PROVE  ack'[i] = sent' - Known' + 1 + (Ahead(i))' /\ seqNo'[i] = Number(ack'[i])
    <2>1. Ahead(i) \in Int /\ 0 <= Ahead(i) /\ Ahead(i) < AckSize
      BY AckFacts DEF Ahead, Places
    <2>2. CASE i = head
      <3>1. ack'[i] = sent + 1 /\ seqNo'[i] = Number(sent + 1)
        BY <1>1, <2>2 DEF AckInv, AckTypeInv
      <3>2. (Ahead(i))' = Known' - 1
        BY <1>1, <1>3, <1>4, <2>2, AckFacts
      <3>3. QED
        BY <1>1, <1>3, <3>1, <3>2, AckFacts
    <2>3. CASE i # head
      <3>1. ack'[i] = ack[i] /\ seqNo'[i] = seqNo[i]
        BY <1>1, <2>3 DEF AckInv, AckTypeInv
      <3>2. Ahead(i) < Known
        BY <1>3, <1>4, <1>6, <2>1, <2>3, AckFacts DEF Ahead, Places
      <3>3. ack[i] = sent - Known + 1 + Ahead(i) /\ seqNo[i] = Number(ack[i])
        BY <3>2 DEF AckInv
      <3>4. QED
        BY <1>1, <1>3, <1>4, <1>6, <2>1, <3>1, <3>3, AckFacts
    <2>4. QED
      BY <2>2, <2>3
  <1>7. QED
    BY <1>2, <1>5, <1>6 DEF AckInv

(* acknowledge finds the ACK that the ACK2 answers, or finds nothing        *)
(* because it was answered or overwritten.                                 *)
LEMMA Search ==
  ASSUME AckInv, NEW k \in 1 .. sent, sent - k < MaxAckSeqNo
  PROVE  /\ \A i \in Held : seqNo[i] = Number(k) => ack[i] = k /\ k = sent - Known + 1 + Ahead(i)
         /\ (\E i \in Held : seqNo[i] = Number(k)) <=> Recent(k)
  <1>1. MaxAckSeqNo \in Int /\ MaxAckSeqNo >= 2 * AckSize /\ k \in Int
    BY AckWindowAssumption
  <1>2. ASSUME NEW i \in Held
        PROVE  /\ i \in Places /\ Ahead(i) \in Int /\ 0 <= Ahead(i) /\ Ahead(i) < Known
               /\ ack[i] = sent - Known + 1 + Ahead(i) /\ seqNo[i] = Number(ack[i])
    <2>1. i \in Places /\ Ahead(i) < Known
      BY HeldPlaces
    <2>2. QED
      BY <2>1, AckFacts DEF AckInv, Ahead, Places
  <1>3. ASSUME NEW i \in Held, seqNo[i] = Number(k)
        PROVE  ack[i] = k /\ k = sent - Known + 1 + Ahead(i) /\ Recent(k)
    <2>1. ack[i] \in Int /\ ack[i] - k <= MaxAckSeqNo /\ k - ack[i] <= MaxAckSeqNo
      BY <1>1, <1>2, AckFacts
    <2>2. ack[i] = k
      BY <1>1, <1>2, <1>3, <2>1, DistinctNumbers
    <2>3. QED
      BY <1>1, <1>2, <2>2, AckFacts DEF Recent
  <1>4. ASSUME Recent(k)
        PROVE  \E i \in Held : seqNo[i] = Number(k)
    <2> DEFINE d == k - (sent - Known + 1)
               i == IF tail + d < AckSize THEN tail + d ELSE tail + d - AckSize
    <2>1. d \in Int /\ 0 <= d /\ d < Known
      BY <1>1, <1>4, AckFacts DEF Recent, Known
    <2>2. i \in Places /\ Ahead(i) = d
      BY <2>1, AckFacts DEF Ahead, Places
    <2>3. i \in Held
      BY <2>1, <2>2, HeldPlaces
    <2>4. ack[i] = k
      BY <1>1, <2>1, <2>2, <2>3, AckFacts, <1>2
    <2>5. QED
      BY <2>3, <2>4, <1>2
  <1>5. QED
    BY <1>3, <1>4

(* An ACK found leaves those after it; nothing found changes nothing.       *)
LEMMA AcknowledgeStep ==
  ASSUME AckInv, NEW k \in 1 .. sent, sent - k < MaxAckSeqNo, Acknowledge(k)
  PROVE  AckInv' /\ answer' = [k |-> k, ret |-> IF Recent(k) THEN k ELSE None]
  <1>1. k \in Int /\ 1 <= k /\ k <= sent
    OBVIOUS
  <1>2. ASSUME \A i \in Held : seqNo[i] # Number(k),
               answer' = [k |-> k, ret |-> None],
               UNCHANGED <<seqNo, head, tail, newest>>
        PROVE  AckInv' /\ answer' = [k |-> k, ret |-> IF Recent(k) THEN k ELSE None]
    <2>1. AckInv'
      BY <1>2 DEF AckInv, AckTypeInv, Ahead, Known, Acknowledge
    <2>2. ~Recent(k)
      BY <1>2, Search
    <2>3. QED
      BY <1>2, <2>1, <2>2
  <1>3. ASSUME NEW i \in Held, seqNo[i] = Number(k),
               answer' = [k |-> k, ret |-> ack[i]], newest' = k,
               IF head >= tail /\ i + 1 = head
                 THEN head' = 0 /\ tail' = 0 /\ seqNo' = [seqNo EXCEPT ![0] = -1]
                 ELSE tail' = NextPlace(i) /\ UNCHANGED <<head, seqNo>>
        PROVE  AckInv' /\ answer' = [k |-> k, ret |-> IF Recent(k) THEN k ELSE None]
    <2>1. ack[i] = k /\ k = sent - Known + 1 + Ahead(i) /\ Recent(k)
      BY <1>3, Search
    <2>2. i \in 0 .. AckSize - 1 /\ Ahead(i) < Known
      BY HeldPlaces DEF Places
    <2>3. sent' = sent /\ ack' = ack /\ newest' = k
      BY <1>3 DEF Acknowledge
    <2>4. Known' = Known - 1 - Ahead(i) /\ Ahead(i) \in Int /\ 0 <= Ahead(i)
      BY <2>1, <2>2, <2>3, AckFacts DEF Known, Ahead
    <2>5. CASE head >= tail /\ i + 1 = head
      <3>1. head' = 0 /\ tail' = 0 /\ seqNo' = [seqNo EXCEPT ![0] = -1]
        BY <1>3, <2>5
      <3>2. AckTypeInv'
        BY <1>1, <2>3, <3>1, AckFacts DEF AckInv, AckTypeInv, Places
      <3>3. Known' = 0
        BY <2>2, <2>4, <2>5, AckFacts DEF Ahead
      <3>4. \A j \in Places : (Ahead(j))' = j
        BY <3>1 DEF Ahead, Places
      <3>5. QED
        BY <1>3, <2>1, <3>1, <3>2, <3>3, <3>4, AckFacts DEF AckInv, Places
    <2>6. CASE ~(head >= tail /\ i + 1 = head)
      <3>1. tail' = (IF i = AckSize - 1 THEN 0 ELSE i + 1) /\ head' = head /\ seqNo' = seqNo
        BY <1>3, <2>2, <2>6, NextPlaceIs DEF Places
      <3>2. AckTypeInv'
        <4>1. tail' \in 0 .. AckSize - 1 /\ newest' \in 0 .. sent'
          BY <1>1, <2>2, <2>3, <3>1, AckFacts
        <4>2. QED
          BY <2>3, <3>1, <4>1 DEF AckInv, AckTypeInv, Places
      <3>3. \A j \in Places : (Ahead(j))' =
               IF Ahead(j) > Ahead(i) THEN Ahead(j) - Ahead(i) - 1
                                      ELSE Ahead(j) - Ahead(i) - 1 + AckSize
        BY <2>2, <3>1, AckFacts DEF Ahead, Places
      <3>4. (Ahead(head))' = Known'
        BY <2>2, <2>4, <3>1, <3>3, AckFacts DEF Places
      <3>5. ASSUME NEW j \in Places, (Ahead(j))' < Known'
            PROVE  ack'[j] = sent' - Known' + 1 + (Ahead(j))' /\ seqNo'[j] = Number(ack'[j])
        <4>1. Ahead(j) \in Int /\ 0 <= Ahead(j)
          BY AckFacts DEF Ahead, Places
        <4>2. Ahead(j) < Known /\ (Ahead(j))' = Ahead(j) - Ahead(i) - 1
          BY <2>2, <2>4, <3>3, <3>5, <4>1, AckFacts
        <4>3. ack[j] = sent - Known + 1 + Ahead(j) /\ seqNo[j] = Number(ack[j])
          BY <4>2 DEF AckInv
        <4>4. QED
          BY <2>3, <2>4, <3>1, <4>1, <4>2, <4>3, AckFacts
      <3>6. QED
        BY <1>3, <2>1, <3>2, <3>4, <3>5 DEF AckInv
    <2>7. QED
      BY <2>5, <2>6
  <1>4. QED
    BY <1>2, <1>3 DEF Acknowledge

-----------------------------------------------------------------------------
(* The ring is empty at first.                                             *)
LEMMA AckInitInv == Init => AckInv
  <1> SUFFICES ASSUME Init PROVE AckInv
    OBVIOUS
  <1>1. AckTypeInv
    BY AckWindowAssumption DEF Init, AckTypeInv, Places
  <1>2. Known = 0 /\ \A i \in Places : Ahead(i) = i
    BY AckWindowAssumption DEF Init, Known, Ahead, Places
  <1>3. QED
    BY <1>1, <1>2, AckWindowAssumption DEF Init, AckInv, Places

(* Every step keeps it.                                                    *)
LEMMA AckStepInv == AckInv /\ [Next]_vars => AckInv'
  <1>1. ASSUME AckInv, UNCHANGED vars PROVE AckInv'
    BY <1>1 DEF AckInv, AckTypeInv, Ahead, Known, vars
  <1>2. QED
    BY <1>1, StoreStep, AcknowledgeStep DEF Next

(* The inductive invariant holds in every reachable state.                  *)
THEOREM AckInvariance == Spec => []AckInv
  BY AckInitInv, AckStepInv, PTL DEF Spec

(* RightAnswer: an ACK2 is answered with the data ACK of the very ACK it    *)
(* names, if that is newer than every one answered and was not overwritten, *)
(* and with nothing otherwise.                                             *)
THEOREM AlwaysRight == Spec => RightAnswer
  <1>1. AckInv /\ [Next]_vars => [answer' # answer =>
            answer'.ret = IF Recent(answer'.k) THEN answer'.k ELSE None]_vars
    <2> SUFFICES ASSUME AckInv, Next, answer' # answer
                 PROVE  answer'.ret = IF Recent(answer'.k) THEN answer'.k ELSE None
      BY DEF vars
    <2>1. PICK k \in 1 .. sent : sent - k < MaxAckSeqNo /\ Acknowledge(k)
      BY DEF Next, Store
    <2>2. QED
      BY <2>1, AcknowledgeStep
  <1>2. QED
    BY <1>1, AckInvariance, PTL DEF Spec, RightAnswer

-----------------------------------------------------------------------------
(* The pool of units.                                                      *)

(* The units of n blocks that getNextAvailUnit may hand out.               *)
Usable(n) == {i \in 0 .. n * BlockSize - 1 : ~IsLast(i)}

(* The last unit of a block is never in use; m_iCount may be any number.    *)
UqTypeInv ==
  /\ blocks \in 1 .. MaxBlocks /\ used \subseteq Usable(blocks) /\ avail \in Nat
  /\ count \in Int /\ adding \in Int /\ freeing \in Int
  /\ skips \in 0 .. 2 /\ hadRoom \in BOOLEAN

(* After a packet was skipped the next scan starts with a whole block.      *)
ScansAll == skips > 0 => avail = First(BlockOf(avail))

(* The inductive invariant: SkipsOnce needs to know where the next scan     *)
(* starts.                                                                  *)
UqInv == UqTypeInv /\ ScansAll /\ SkipsOnce

(* Where blocks start. *)
LEMMA BlockStarts ==
  /\ \A i \in Nat : BlockOf(i) \in Nat /\ First(BlockOf(i)) \in Nat /\ First(BlockOf(i)) <= i
  /\ \A b \in Nat : BlockOf(First(b)) = b
  <1>1. BlockSize \in Nat /\ BlockSize >= 2
    BY UnitQueueAssumption
  <1>2. ASSUME NEW i \in Nat
        PROVE  BlockOf(i) \in Nat /\ First(BlockOf(i)) \in Nat /\ First(BlockOf(i)) <= i
    <2> DEFINE q == i \div BlockSize
    <2>1. i = BlockSize * q + (i % BlockSize) /\ 0 <= i % BlockSize /\ i % BlockSize < BlockSize
          /\ q \in Int /\ i % BlockSize \in Int
      BY <1>1, Division
    <2> HIDE DEF q
    <2>2. q >= 0
      <3>1. SUFFICES ASSUME q <= -1 PROVE FALSE
        BY <2>1
      <3>2. BlockSize * q <= -BlockSize
        BY <1>1, <2>1, <3>1
      <3>3. QED
        BY <1>1, <2>1, <3>2
    <2>3. BlockSize * q \in Nat /\ BlockSize * q <= i
      <3>1. BlockSize * q \in Int
        BY <1>1, <2>1
      <3>2. BlockSize * q >= 0
        BY <1>1, <2>1, <2>2
      <3>3. QED
        BY <2>1, <3>1, <3>2
    <2>4. QED
      BY <2>1, <2>2, <2>3 DEF BlockOf, First, q
  <1>3. ASSUME NEW b \in Nat PROVE BlockOf(First(b)) = b
    <2> DEFINE i == BlockSize * b
               q == i \div BlockSize
               m == i % BlockSize
    <2>1. i \in Int
      BY <1>1
    <2>2. i = BlockSize * b + 0
      BY <1>1
    <2> HIDE DEF i
    <2>3. i = BlockSize * q + m /\ 0 <= m /\ m < BlockSize /\ q \in Int /\ m \in Int
      BY <1>1, <2>1, Division
    <2> HIDE DEF q, m
    <2>4. BlockSize * q + m = BlockSize * b + 0
      BY <2>2, <2>3
    <2>5. q = b
      BY <1>1, <2>3, <2>4, OneRemainder
    <2>6. QED
      BY <2>5 DEF q, i, BlockOf, First
  <1>4. QED
    BY <1>2, <1>3

(* The last unit of the last block is never in use. *)
LEMMA NeverFull ==
  ASSUME NEW n \in Nat, n >= 1, NEW T, T \subseteq Usable(n)
  PROVE  Cardinality(T) \in Nat /\ Cardinality(T) < n * BlockSize
  <1> DEFINE last == n * BlockSize - 1
  <1>1. BlockSize \in Nat /\ BlockSize >= 2
    BY UnitQueueAssumption
  <1>2. n * BlockSize \in Nat /\ n * BlockSize >= 1
    BY <1>1
  <1>3. last \in Nat /\ IsLast(last)
    <2> DEFINE q == last \div BlockSize
               m == last % BlockSize
    <2> DEFINE k == n - 1
               e == BlockSize - 1
    <2>1. last = BlockSize * q + m /\ 0 <= m /\ m < BlockSize /\ q \in Int /\ m \in Int
      BY <1>1, <1>2, Division
    <2> HIDE DEF q, m
    <2>2. BlockSize * q + m = BlockSize * k + e
      BY <1>1, <2>1
    <2>3. k \in Int /\ e \in Int /\ 0 <= e /\ e < BlockSize
      BY <1>1
    <2> HIDE DEF last, k, e
    <2>4. m = e
      BY <1>1, <2>1, <2>2, <2>3, OneRemainder
    <2>5. QED
      BY <1>2, <2>4 DEF m, e, last, IsLast
  <1>4. T \subseteq 0 .. last - 1
    BY <1>2, <1>3 DEF Usable
  <1>5. IsFiniteSet(0 .. last - 1) /\ Cardinality(0 .. last - 1) = last
    <2> DEFINE top == last - 1
    <2>1. top \in Int /\ 0 \in Int /\ top >= 0 - 1 /\ top = last - 1
      BY <1>3
    <2> HIDE DEF top
    <2>2. /\ IsFiniteSet(0 .. top)
          /\ Cardinality(0 .. top) = IF 0 > top THEN 0 ELSE top - 0 + 1
      BY <2>1, FS_Interval
    <2> HIDE DEF last
    <2>3. QED
      BY <1>3, <2>1, <2>2
  <1>6. IsFiniteSet(T) /\ Cardinality(T) <= Cardinality(0 .. last - 1)
    BY <1>4, <1>5, FS_Subset
  <1>7. Cardinality(T) \in Nat
    BY <1>6, FS_CardinalityType
  <1>8. QED
    BY <1>2, <1>3, <1>5, <1>6, <1>7

(* More blocks, more units. *)
LEMMA MoreUsable ==
  ASSUME NEW n \in Nat, NEW k \in Nat, n <= k
  PROVE  Usable(n) \subseteq Usable(k) /\ n * BlockSize <= k * BlockSize
  <1>1. BlockSize \in Nat
    BY UnitQueueAssumption
  <1>2. (k - n) * BlockSize >= 0
    BY <1>1
  <1>3. n * BlockSize <= k * BlockSize
    BY <1>1, <1>2
  <1>4. n * BlockSize \in Nat /\ k * BlockSize \in Nat
    BY <1>1
  <1>5. QED
    BY <1>3, <1>4 DEF Usable

(* increase() adds a block, or there is no memory for one.                  *)
LEMMA GrownBlocks ==
  ASSUME blocks \in 1 .. MaxBlocks
  PROVE  Grown \in 1 .. MaxBlocks /\ blocks <= Grown
  BY UnitQueueAssumption DEF Grown

(* What a large count of units promises to getNextAvailUnit: there is room. *)
LEMMA RoomLeft ==
  ASSUME NEW c \in Int, NEW size \in Nat, size >= 1, ~(c * Den > size * Num)
  PROVE  c < size
  <1>1. Num \in Nat /\ Den \in Nat /\ Num < Den
    BY UnitQueueAssumption
  <1>2. SUFFICES ASSUME c >= size PROVE FALSE
    OBVIOUS
  <1>3. (c - size) * Den >= 0
    BY <1>1, <1>2
  <1>4. size * (Den - Num) >= 1
    BY <1>1
  <1>5. c * Den = (c - size) * Den + size * Den /\ size * Den = size * (Den - Num) + size * Num
    BY <1>1
  <1>6. /\ size * Den \in Int /\ size * Num \in Int /\ c * Den \in Int
        /\ (c - size) * Den \in Int /\ size * (Den - Num) \in Int
    BY <1>1
  <1>7. ASSUME NEW u \in Int, NEW v \in Int, NEW w \in Int, NEW y \in Int, NEW z \in Int,
               y >= 0, z >= 1, u = y + v, v = z + w
        PROVE  u > w
    BY <1>7
  <1>8. c * Den > size * Num
    BY <1>3, <1>4, <1>5, <1>6, <1>7
  <1>9. QED
    BY <1>8

(* The pool starts empty.                                                   *)
LEMMA UqInitInv ==
  ASSUME UqInit
  PROVE  UqInv
  <1>1. NoRead \in Int
    BY UnitQueueAssumption DEF NoRead
  <1>2. UqTypeInv
    <2>1. skips \in 0 .. 2
      BY DEF UqInit
    <2>2. hadRoom \in BOOLEAN
      BY DEF UqInit
    <2>3. blocks \in 1 .. MaxBlocks /\ avail \in Nat /\ used \subseteq Usable(blocks)
      BY UnitQueueAssumption DEF UqInit
    <2>4. count \in Int /\ adding \in Int /\ freeing \in Int
      BY <1>1 DEF UqInit
    <2>5. QED
      BY <2>1, <2>2, <2>3, <2>4 DEF UqTypeInv
  <1>3. ScansAll /\ SkipsOnce
    BY DEF UqInit, ScansAll, SkipsOnce
  <1>4. QED
    BY <1>2, <1>3 DEF UqInv

(* The scan for a unit.  It always looks, and when it finds nothing it     *)
(* starts the next time at the first unit of its block.                    *)
LEMMA ScanStep ==
  ASSUME UqInv, getNextAvailUnit
  PROVE  UqInv'
  <1> DEFINE crowded == count * Den > blocks * BlockSize * Num
             n       == IF crowded THEN Grown ELSE blocks
             c       == IF crowded THEN Cardinality(used) ELSE count
             free    == {i \in 0 .. n * BlockSize - 1 : i \notin used /\ Scanned(i)}
             skip    == /\ skips' = (IF skips = 0 THEN 1 ELSE 2)
                        /\ hadRoom' = (\E i \in 0 .. n * BlockSize - 1 :
                                         i \notin used /\ ~IsLast(i))
                        /\ UNCHANGED <<used, adding>>
  <1>1. n \in 1 .. MaxBlocks /\ blocks <= n /\ n \in Nat /\ blocks \in Nat /\ blocks >= 1
    BY GrownBlocks, UnitQueueAssumption DEF UqInv, UqTypeInv
  <1>2. blocks * BlockSize \in Nat /\ blocks * BlockSize >= 1
    BY <1>1, UnitQueueAssumption
  <1>3. Cardinality(used) \in Nat /\ Cardinality(used) < blocks * BlockSize
    BY <1>1, NeverFull DEF UqInv, UqTypeInv
  <1>4. c \in Int /\ ~(c >= n * BlockSize)
    <2>1. n * BlockSize \in Nat /\ blocks * BlockSize <= n * BlockSize
      BY <1>1, MoreUsable, UnitQueueAssumption
    <2>2. c < blocks * BlockSize /\ c \in Int
      <3>1. CASE crowded
        BY <1>3, <3>1
      <3>2. CASE ~crowded
        BY <1>2, <3>2, RoomLeft DEF UqInv, UqTypeInv
      <3>3. QED
        BY <3>1, <3>2
    <2> HIDE DEF n, c
    <2>3. QED
      BY <1>2, <2>1, <2>2
  <1>5. used \subseteq Usable(n)
    BY <1>1, MoreUsable DEF UqInv, UqTypeInv
  <1>6. UNCHANGED freeing /\
        \/ /\ free = {} /\ skip /\ blocks' = Grown
           /\ count' = Cardinality(used) /\ avail' = Restart
        \/ \E unit \in free :
             /\ blocks' = n /\ count' = c /\ avail' = unit
             /\ skips' = 0 /\ hadRoom' = FALSE
             /\ \/ used' = used \cup {unit} /\ adding' = c
                \/ UNCHANGED <<used, adding>>
    BY <1>4 DEF getNextAvailUnit
  <1> HIDE DEF n, c
  <1>7. CASE /\ free = {} /\ skip /\ blocks' = Grown
             /\ count' = Cardinality(used) /\ avail' = Restart
    <2>1. avail' = First(BlockOf(avail)) /\ avail' \in Nat /\ avail' = First(BlockOf(avail'))
      BY <1>7, BlockStarts DEF UqInv, UqTypeInv, Restart, Rewound
    <2>2. used' \subseteq Usable(blocks') /\ blocks' \in 1 .. MaxBlocks
      BY <1>1, <1>7, GrownBlocks, MoreUsable, UnitQueueAssumption DEF UqInv, UqTypeInv
    <2>3. ASSUME skips # 0, NEW i \in 0 .. n * BlockSize - 1, i \notin used, ~IsLast(i)
          PROVE  FALSE
      <3>1. i \in Nat /\ avail = First(BlockOf(avail))
        BY <1>1, <2>3, UnitQueueAssumption DEF UqInv, UqTypeInv, ScansAll
      <3>2. BlockOf(i) = BlockOf(avail) => i >= avail
        BY <3>1, BlockStarts
      <3>3. i \in free
        BY <2>3, <3>2 DEF Scanned
      <3>4. QED
        BY <1>7, <3>3
    <2>4. SkipsOnce'
      BY <1>7, <2>3 DEF SkipsOnce
    <2>5. UqTypeInv'
      BY <1>3, <1>6, <1>7, <2>1, <2>2 DEF UqInv, UqTypeInv
    <2>6. QED
      BY <2>1, <2>4, <2>5 DEF UqInv, ScansAll
  <1>8. CASE \E unit \in free :
               /\ blocks' = n /\ count' = c /\ avail' = unit
               /\ skips' = 0 /\ hadRoom' = FALSE
               /\ \/ used' = used \cup {unit} /\ adding' = c
                  \/ UNCHANGED <<used, adding>>
    <2>1. PICK unit \in free :
               /\ blocks' = n /\ count' = c /\ avail' = unit
               /\ skips' = 0 /\ hadRoom' = FALSE
               /\ \/ used' = used \cup {unit} /\ adding' = c
                  \/ UNCHANGED <<used, adding>>
      BY <1>8
    <2>2. unit \in Usable(n) /\ unit \in Nat
      BY <1>1, UnitQueueAssumption DEF Scanned, Usable
    <2> HIDE DEF free
    <2>3. used' \subseteq Usable(blocks')
      BY <1>5, <2>1, <2>2
    <2>4. UqTypeInv'
      <3>1. skips' \in 0 .. 2
        BY <2>1
      <3>2. hadRoom' \in BOOLEAN
        BY <2>1
      <3>3. blocks' \in 1 .. MaxBlocks /\ avail' \in Nat
        BY <1>1, <2>1, <2>2
      <3>4. count' \in Int /\ adding' \in Int /\ freeing' \in Int
        BY <1>4, <1>6, <2>1 DEF UqInv, UqTypeInv
      <3>5. QED
        BY <2>3, <3>1, <3>2, <3>3, <3>4 DEF UqTypeInv
    <2>5. ScansAll' /\ SkipsOnce'
      BY <2>1 DEF ScansAll, SkipsOnce
    <2>6. QED
      BY <2>4, <2>5 DEF UqInv
  <1>9. QED
    BY <1>6, <1>7, <1>8

(* Every step keeps the invariant, whatever the two threads do to m_iCount. *)
LEMMA UqStepInv ==
  ASSUME UqInv, [UqNext]_uqVars
  PROVE  UqInv'
  <1>1. NoRead \in Int
    BY UnitQueueAssumption DEF NoRead
  <1>2. CASE UNCHANGED uqVars
    BY <1>2 DEF UqInv, UqTypeInv, ScansAll, SkipsOnce, uqVars
  <1>3. CASE Added
    BY <1>1, <1>3 DEF UqInv, UqTypeInv, ScansAll, SkipsOnce, Added
  <1>4. CASE Freed
    BY <1>1, <1>4 DEF UqInv, UqTypeInv, ScansAll, SkipsOnce, Freed
  <1>5. ASSUME NEW i \in used, Free(i) PROVE UqInv'
    BY <1>5 DEF UqInv, UqTypeInv, ScansAll, SkipsOnce, Free
  <1>6. QED
    BY <1>2, <1>3, <1>4, <1>5, ScanStep DEF UqNext

(* The scan after a skip looks at a whole block, in every pool.             *)
THEOREM UqInvariance == UqSpec => []UqInv
  BY UqInitInv, UqStepInv, PTL DEF UqSpec

(* getNextAvailUnit never skips two packets in a row while a unit other     *)
(* than the last of a block is free.                                        *)
THEOREM AlwaysSkipsOnce == UqSpec => []SkipsOnce
  <1>1. UqInv => SkipsOnce
    BY DEF UqInv
  <1>2. QED
    BY <1>1, UqInvariance, PTL

-----------------------------------------------------------------------------
(* The lists of the receiving worker.                                      *)

(* What the worker's lists hold.                                           *)
RqTypeInv ==
  /\ clock \in Nat /\ currTime \in 0 .. clock
  /\ sockState \in [Ids -> {"new", "up", "dead"}] /\ onList \in [Ids -> BOOLEAN]
  /\ newEntry \in Seq(Ids) /\ uList \in Seq(Ids)
  /\ stamp \in [Ids -> Nat] /\ \A i \in Ids : stamp[i] <= clock
  /\ bucket \in [0 .. HashSize - 1 -> Seq(Ids)]
  /\ rcvPc \in {"take", "receive", "check"}

(* No list holds a socket twice.                                           *)
Once(l) == \A j, k \in 1 .. Len(l) : l[j] = l[k] => j = k

(* m_bOnList is that of a socket that waits to be taken or was taken.       *)
OnListInv ==
  /\ Once(newEntry) /\ Once(uList)
  /\ \A i \in Ids : ~(Contains(newEntry, i) /\ Contains(uList, i))
  /\ \A i \in Ids : onList[i] <=> Contains(newEntry, i) \/ Contains(uList, i)
  /\ \A i \in Ids : sockState[i] = "new" => ~onList[i]

(* The hash table holds the sockets of the list, in their own buckets.      *)
HashInv ==
  \A h \in 0 .. HashSize - 1 :
    /\ Once(bucket[h])
    /\ \A i \in Ids : Contains(bucket[h], i) <=> Contains(uList, i) /\ h = BucketOf(i)

(* l is sorted by the time stamps t.                                       *)
ByStamp(l, t) == \A j, k \in 1 .. Len(l) : j <= k => t[l[j]] <= t[l[k]]

(* No socket of the list waits for longer than the interval.               *)
InTime == \A k \in 1 .. Len(uList) : stamp[uList[k]] >= currTime - Interval

(* The inductive invariant: the list is sorted, so that the first socket    *)
(* that is in time ends the check.                                         *)
RqInv ==
  /\ RqTypeInv /\ OnListInv /\ HashInv
  /\ ByStamp(uList, stamp)
  /\ rcvPc # "check" => InTime

(* The bucket of a socket.                                                 *)
LEMMA BucketRange ==
  ASSUME NEW i \in Ids
  PROVE  BucketOf(i) \in 0 .. HashSize - 1
  <1>1. i \in Int /\ HashSize \in Int /\ HashSize >= 1
    BY RcvQueueAssumption
  <1>2. 0 <= i % HashSize /\ i % HashSize < HashSize /\ i % HashSize \in Int
    BY <1>1
  <1>3. QED
    BY <1>1, <1>2 DEF BucketOf

(* A list after another, place by place.                                   *)
LEMMA Joined ==
  ASSUME NEW S, NEW a \in Seq(S), NEW b \in Seq(S)
  PROVE  /\ a \o b \in Seq(S) /\ Len(a \o b) = Len(a) + Len(b)
         /\ \A k \in 1 .. Len(a) + Len(b) :
              (a \o b)[k] = IF k <= Len(a) THEN a[k] ELSE b[k - Len(a)]
  OBVIOUS

(* A list after another holds what either holds.                            *)
LEMMA JoinedHolds ==
  ASSUME NEW S, NEW a \in Seq(S), NEW b \in Seq(S)
  PROVE  \A x : Contains(a \o b, x) <=> Contains(a, x) \/ Contains(b, x)
  <1>1. /\ Len(a \o b) = Len(a) + Len(b) /\ Len(a) \in Nat /\ Len(b) \in Nat
        /\ \A k \in 1 .. Len(a) + Len(b) :
             (a \o b)[k] = IF k <= Len(a) THEN a[k] ELSE b[k - Len(a)]
    BY Joined
  <1>2. ASSUME NEW k \in 1 .. Len(a) PROVE k \in 1 .. Len(a \o b) /\ (a \o b)[k] = a[k]
    BY <1>1
  <1>3. ASSUME NEW k \in 1 .. Len(b)
        PROVE  Len(a) + k \in 1 .. Len(a \o b) /\ (a \o b)[Len(a) + k] = b[k]
    BY <1>1
  <1>4. ASSUME NEW k \in 1 .. Len(a \o b)
        PROVE  \/ k \in 1 .. Len(a) /\ (a \o b)[k] = a[k]
               \/ k - Len(a) \in 1 .. Len(b) /\ (a \o b)[k] = b[k - Len(a)]
    BY <1>1
  <1>5. QED
    BY <1>2, <1>3, <1>4 DEF Contains

(* What is left of a list, place by place.                                 *)
LEMMA Removal ==
  ASSUME NEW S, NEW l \in Seq(S), NEW i, Contains(l, i)
  PROVE  /\ Without(l, i) \in Seq(S) /\ Len(Without(l, i)) = Len(l) - 1
         /\ \E p \in 1 .. Len(l) :
              /\ l[p] = i
              /\ \A k \in 1 .. Len(l) - 1 : Without(l, i)[k] = IF k < p THEN l[k] ELSE l[k + 1]
  <1> DEFINE p == CHOOSE n \in DOMAIN l : l[n] = i
  <1>1. p \in 1 .. Len(l) /\ l[p] = i
    BY DEF Contains
  <1>2. Without(l, i) = RemoveAt(l, p)
    BY DEF Without
  <1> HIDE DEF p
  <1> DEFINE a == SubSeq(l, 1, p - 1)
             b == SubSeq(l, p + 1, Len(l))
  <1>3. Without(l, i) = a \o b
    BY <1>2 DEF RemoveAt
  <1>4. a \in Seq(S) /\ Len(a) = p - 1 /\ \A k \in 1 .. p - 1 : a[k] = l[k]
    BY <1>1
  <1>5. b \in Seq(S) /\ Len(b) = Len(l) - p /\ \A k \in 1 .. Len(l) - p : b[k] = l[k + p]
    BY <1>1
  <1> HIDE DEF a, b
  <1>6. /\ a \o b \in Seq(S) /\ Len(a \o b) = Len(a) + Len(b)
        /\ \A k \in 1 .. Len(a) + Len(b) :
             (a \o b)[k] = IF k <= Len(a) THEN a[k] ELSE b[k - Len(a)]
    BY <1>4, <1>5, Joined
  <1>7. Len(l) \in Nat /\ Len(a) + Len(b) = Len(l) - 1
    BY <1>1, <1>4, <1>5
  <1>8. ASSUME NEW k \in 1 .. Len(l) - 1
        PROVE  Without(l, i)[k] = IF k < p THEN l[k] ELSE l[k + 1]
    <2>1. CASE k < p
      <3>1. k \in 1 .. p - 1 /\ k <= Len(a) /\ k \in 1 .. Len(a) + Len(b)
        BY <1>1, <1>4, <1>7, <2>1
      <3>2. QED
        BY <1>3, <1>4, <1>6, <2>1, <3>1
    <2>2. CASE ~(k < p)
      <3>1. /\ ~(k <= Len(a)) /\ k \in 1 .. Len(a) + Len(b)
            /\ k - Len(a) \in 1 .. Len(l) - p /\ (k - Len(a)) + p = k + 1
        BY <1>1, <1>4, <1>7, <2>2
      <3>2. QED
        BY <1>3, <1>5, <1>6, <2>2, <3>1
    <2>3. QED
      BY <2>1, <2>2
  <1>9. QED
    BY <1>1, <1>3, <1>6, <1>7, <1>8

(* A list without a socket holds the others, once each.                     *)
LEMMA Removed ==
  ASSUME NEW S, NEW l \in Seq(S), NEW i, Contains(l, i), Once(l)
  PROVE  Once(Without(l, i)) /\ \A x : Contains(Without(l, i), x) <=> Contains(l, x) /\ x # i
  <1> DEFINE m == Without(l, i)
  <1>1. PICK p \in 1 .. Len(l) :
          /\ l[p] = i
          /\ \A k \in 1 .. Len(l) - 1 : m[k] = IF k < p THEN l[k] ELSE l[k + 1]
    BY Removal
  <1>2. Len(m) = Len(l) - 1 /\ Len(l) \in Nat
    BY Removal
  <1> HIDE DEF m
  <1>3. Once(m)
    BY <1>1, <1>2 DEF Once
  <1>4. ASSUME NEW x, Contains(m, x) PROVE Contains(l, x) /\ x # i
    <2>1. PICK k \in 1 .. Len(l) - 1 : m[k] = x
      BY <1>2, <1>4 DEF Contains
    <2>2. PICK n \in 1 .. Len(l) : l[n] = x /\ n # p
      BY <1>1, <1>2, <2>1
    <2>3. QED
      BY <1>1, <2>2 DEF Contains, Once
  <1>5. ASSUME NEW x, Contains(l, x), x # i PROVE Contains(m, x)
    <2>1. PICK k \in 1 .. Len(l) : l[k] = x
      BY <1>5 DEF Contains
    <2>2. k < p \/ k > p
      BY <1>1, <1>5, <2>1
    <2>3. CASE k < p
      BY <1>1, <1>2, <2>1, <2>3 DEF Contains
    <2>4. CASE k > p
      <3>1. m[k - 1] = l[k] /\ k - 1 \in 1 .. Len(m)
        BY <1>1, <1>2, <2>1, <2>4
      <3>2. QED
        BY <2>1, <3>1 DEF Contains
    <2>5. QED
      BY <2>2, <2>3, <2>4
  <1>6. QED
    BY <1>3, <1>4, <1>5 DEF m

(* A socket served goes to the end, and the others keep their order.        *)
LEMMA ToTheEnd ==
  ASSUME NEW S, NEW l \in Seq(S), NEW i \in S, Contains(l, i)
  PROVE  /\ Updated(l, i) \in Seq(S) /\ Len(Updated(l, i)) = Len(l) /\ Len(l) \in Nat
         /\ Len(l) >= 1 /\ Updated(l, i)[Len(l)] = i
         /\ \E p \in 1 .. Len(l) :
              /\ l[p] = i
              /\ \A k \in 1 .. Len(l) - 1 : Updated(l, i)[k] = IF k < p THEN l[k] ELSE l[k + 1]
  <1>1. Len(l) \in Nat /\ Len(l) >= 1
    BY DEF Contains
  <1>2. CASE i = Last(l)
    <2>1. Updated(l, i) = l /\ l[Len(l)] = i
      BY <1>2 DEF Updated, MovedToEnd, Last
    <2>2. QED
      BY <1>1, <2>1
  <1>3. CASE i # Last(l)
    <2>1. Updated(l, i) = Append(Without(l, i), i)
      BY <1>3 DEF Updated, MovedToEnd
    <2>2. Without(l, i) \in Seq(S) /\ Len(Without(l, i)) = Len(l) - 1
      BY Removal
    <2>3. PICK p \in 1 .. Len(l) :
            /\ l[p] = i
            /\ \A k \in 1 .. Len(l) - 1 : Without(l, i)[k] = IF k < p THEN l[k] ELSE l[k + 1]
      BY Removal
    <2>4. /\ Updated(l, i) \in Seq(S) /\ Len(Updated(l, i)) = Len(l)
          /\ Updated(l, i)[Len(l)] = i
          /\ \A k \in 1 .. Len(l) - 1 : Updated(l, i)[k] = Without(l, i)[k]
      BY <1>1, <2>1, <2>2
    <2>5. QED
      BY <1>1, <2>3, <2>4
  <1>4. QED
    BY <1>2, <1>3

(* Serving a socket keeps the list once, sorted by the new stamps.          *)
LEMMA ServedList ==
  ASSUME NEW l \in Seq(Ids), Once(l), NEW i \in Ids, Contains(l, i),
         NEW c \in Nat, NEW t \in [Ids -> Nat], \A x \in Ids : t[x] <= c, ByStamp(l, t)
  PROVE  /\ Updated(l, i) \in Seq(Ids) /\ Once(Updated(l, i))
         /\ \A x : Contains(Updated(l, i), x) <=> Contains(l, x)
         /\ ByStamp(Updated(l, i), [t EXCEPT ![i] = c])
  <1> DEFINE n == Len(l)
             m == Updated(l, i)
             u == [t EXCEPT ![i] = c]
  <1>1. m \in Seq(Ids) /\ Len(m) = n /\ n \in Nat /\ n >= 1 /\ m[n] = i
    BY ToTheEnd
  <1>2. \E p \in 1 .. n :
          /\ l[p] = i
          /\ \A k \in 1 .. n - 1 : m[k] = IF k < p THEN l[k] ELSE l[k + 1]
    BY ToTheEnd
  <1>3. \A x \in Ids : u[x] = IF x = i THEN c ELSE t[x]
    OBVIOUS
  <1>4. \A k \in 1 .. n : l[k] \in Ids /\ m[k] \in Ids
    BY <1>1
  <1>5. \A j, k \in 1 .. n : l[j] = l[k] => j = k
    BY DEF Once
  <1>6. \A j, k \in 1 .. n : j <= k => t[l[j]] <= t[l[k]]
    BY DEF ByStamp
  <1>7. \A x : Contains(l, x) <=> \E k \in 1 .. n : l[k] = x
    BY DEF Contains
  <1>8. \A x : Contains(m, x) <=> \E k \in 1 .. n : m[k] = x
    BY <1>1 DEF Contains
  <1> HIDE DEF n, m, u
  <1>9. PICK p \in 1 .. n :
          /\ l[p] = i
          /\ \A k \in 1 .. n - 1 : m[k] = IF k < p THEN l[k] ELSE l[k + 1]
    BY <1>2
  <1>10. ASSUME NEW k \in 1 .. n - 1
         PROVE  /\ k < p => k \in 1 .. n /\ k # p /\ m[k] = l[k]
                /\ ~(k < p) => k + 1 \in 1 .. n /\ k + 1 # p /\ m[k] = l[k + 1]
    BY <1>1, <1>9
  <1>11. ASSUME NEW k \in 1 .. n - 1 PROVE m[k] # i
    BY <1>1, <1>5, <1>9, <1>10
  <1>12. ASSUME NEW j \in 1 .. n, NEW k \in 1 .. n, m[j] = m[k], j < k PROVE FALSE
    <2>1. j \in 1 .. n - 1
      BY <1>1, <1>12
    <2>2. k # n
      BY <1>1, <1>11, <1>12, <2>1
    <2>3. k \in 1 .. n - 1
      BY <1>1, <2>2
    <2>4. QED
      BY <1>1, <1>5, <1>10, <1>12, <2>1, <2>3
  <1>13. Once(m)
    BY <1>1, <1>12 DEF Once
  <1>14. ASSUME NEW k \in 1 .. n PROVE \E j \in 1 .. n : l[j] = m[k]
    <2>1. CASE k = n
      BY <1>1, <1>9, <2>1
    <2>2. CASE k # n
      <3>1. k \in 1 .. n - 1
        BY <1>1, <2>2
      <3>2. QED
        BY <1>10, <3>1
    <2>3. QED
      BY <2>1, <2>2
  <1>15. ASSUME NEW k \in 1 .. n PROVE \E j \in 1 .. n : m[j] = l[k]
    <2>1. CASE k = p
      <3>1. n \in 1 .. n
        BY <1>1
      <3>2. QED
        BY <1>1, <1>9, <2>1, <3>1
    <2>2. CASE k < p
      <3>1. k \in 1 .. n - 1
        BY <1>1, <2>2
      <3>2. QED
        BY <1>10, <2>2, <3>1
    <2>3. CASE k > p
      <3>1. k - 1 \in 1 .. n - 1 /\ k - 1 \in 1 .. n /\ ~(k - 1 < p) /\ (k - 1) + 1 = k
        BY <1>1, <2>3
      <3>2. m[k - 1] = l[k]
        BY <1>9, <3>1
      <3>3. QED
        BY <3>1, <3>2
    <2>4. QED
      BY <1>1, <2>1, <2>2, <2>3
  <1>16. ASSUME NEW x PROVE Contains(m, x) <=> Contains(l, x)
    BY <1>7, <1>8, <1>14, <1>15
  <1>17. ASSUME NEW j \in 1 .. n, NEW k \in 1 .. n, j <= k PROVE u[m[j]] <= u[m[k]]
    <2>1. CASE k = n
      <3>1. u[m[k]] = c
        BY <1>1, <1>3, <2>1
      <3>2. t[m[j]] <= c /\ u[m[j]] = (IF m[j] = i THEN c ELSE t[m[j]])
        BY <1>3, <1>4
      <3>3. QED
        BY <3>1, <3>2
    <2>2. CASE k # n
      <3>1. j \in 1 .. n - 1 /\ k \in 1 .. n - 1
        BY <1>1, <1>17, <2>2
      <3>2. u[m[j]] = t[m[j]] /\ u[m[k]] = t[m[k]]
        BY <1>3, <1>4, <1>11, <3>1
      <3> DEFINE At(x) == IF x < p THEN x ELSE x + 1
      <3>3. /\ At(j) \in 1 .. n /\ At(k) \in 1 .. n /\ At(j) <= At(k)
            /\ m[j] = l[At(j)] /\ m[k] = l[At(k)]
        BY <1>10, <1>17, <3>1
      <3> HIDE DEF At
      <3>4. t[m[j]] <= t[m[k]]
        BY <1>6, <3>3
      <3>5. QED
        BY <3>2, <3>4
    <2>3. QED
      BY <2>1, <2>2
  <1>18. ByStamp(m, u)
    BY <1>1, <1>17 DEF ByStamp
  <1>19. QED
    BY <1>1, <1>13, <1>16, <1>18 DEF m, u

(* What Update does to the list and its stamps.                            *)
LEMMA Served ==
  ASSUME RqInv, NEW i \in Ids, Contains(uList, i), Update(i)
  PROVE  /\ uList' \in Seq(Ids) /\ Once(uList') /\ stamp' \in [Ids -> Nat]
         /\ \A x : Contains(uList', x) <=> Contains(uList, x)
         /\ ByStamp(uList', stamp')
         /\ \A x \in Ids : stamp'[x] = IF x = i THEN clock ELSE stamp[x]
  <1>1. /\ uList \in Seq(Ids) /\ Once(uList) /\ stamp \in [Ids -> Nat] /\ clock \in Nat
        /\ \A x \in Ids : stamp[x] <= clock
        /\ ByStamp(uList, stamp)
    BY DEF RqInv, RqTypeInv, OnListInv
  <1>2. uList' = Updated(uList, i) /\ stamp' = [stamp EXCEPT ![i] = clock]
    BY DEF Update
  <1>3. QED
    BY <1>1, <1>2, ServedList

(* Serving a socket keeps the invariant when nothing else is touched but    *)
(* the worker's place and time.                                            *)
LEMMA UpdateStep ==
  ASSUME RqInv, NEW i \in Ids, Contains(uList, i), Update(i),
         UNCHANGED <<clock, sockState, newEntry, bucket, onList>>,
         currTime' \in 0 .. clock, rcvPc' = "check"
  PROVE  RqInv'
  <1>1. RqTypeInv'
    <2>1. /\ uList' \in Seq(Ids) /\ stamp' \in [Ids -> Nat]
          /\ \A x \in Ids : stamp'[x] = IF x = i THEN clock ELSE stamp[x]
      BY Served
    <2>2. clock \in Nat /\ \A x \in Ids : stamp[x] <= clock
      BY DEF RqInv, RqTypeInv
    <2>3. \A x \in Ids : stamp'[x] <= clock
      BY <2>1, <2>2
    <2>4. QED
      BY <2>1, <2>3 DEF RqInv, RqTypeInv
  <1>2. OnListInv'
    BY Served DEF RqInv, OnListInv
  <1>3. HashInv'
    BY Served DEF RqInv, HashInv, BucketOf
  <1>4. QED
    BY <1>1, <1>2, <1>3, Served DEF RqInv

(* All lists start empty.                                                  *)
LEMMA RqInitInv ==
  ASSUME RqInit
  PROVE  RqInv
  <1>1. \A x : ~Contains(<<>>, x)
    BY DEF Contains
  <1>2. RqTypeInv
    BY RcvQueueAssumption DEF RqInit, RqTypeInv
  <1>3. OnListInv
    BY <1>1 DEF RqInit, OnListInv, Once
  <1>4. HashInv
    BY <1>1 DEF RqInit, HashInv, Once
  <1>5. ByStamp(uList, stamp) /\ InTime
    BY DEF RqInit, ByStamp, InTime
  <1>6. QED
    BY <1>2, <1>3, <1>4, <1>5 DEF RqInv

(* A list with a socket put at its end or its front.                        *)
LEMMA PutIn ==
  ASSUME NEW S, NEW l \in Seq(S), NEW i \in S, ~Contains(l, i), Once(l)
  PROVE  /\ Append(l, i) \in Seq(S) /\ Once(Append(l, i))
         /\ \A x : Contains(Append(l, i), x) <=> Contains(l, x) \/ x = i
         /\ <<i>> \o l \in Seq(S) /\ Once(<<i>> \o l)
         /\ \A x : Contains(<<i>> \o l, x) <=> Contains(l, x) \/ x = i
  <1> DEFINE a == Append(l, i)
             b == <<i>> \o l
             n == Len(l)
  <1>1. n \in Nat /\ \A k \in 1 .. n : l[k] \in S /\ l[k] # i
    BY DEF Contains
  <1>2. /\ a \in Seq(S) /\ Len(a) = n + 1 /\ a[n + 1] = i
        /\ \A k \in 1 .. n : a[k] = l[k]
    OBVIOUS
  <1>3. b \in Seq(S) /\ Len(b) = n + 1 /\ b[1] = i
    OBVIOUS
  <1>4. \A k \in 2 .. n + 1 : b[k] = l[k - 1]
    OBVIOUS
  <1>5. \A j, k \in 1 .. n : l[j] = l[k] => j = k
    BY DEF Once
  <1>6. \A x : Contains(l, x) <=> \E k \in 1 .. n : l[k] = x
    BY DEF Contains
  <1> HIDE DEF a, b, n
  <1>7. Once(a)
    BY <1>1, <1>2, <1>5 DEF Once
  <1>8. Once(b)
    <2>1. ASSUME NEW j \in 1 .. n + 1, NEW k \in 1 .. n + 1, b[j] = b[k], j < k PROVE FALSE
      <3>1. k \in 2 .. n + 1 /\ k - 1 \in 1 .. n
        BY <1>1, <2>1
      <3>2. j # 1
        BY <1>1, <1>3, <1>4, <2>1, <3>1
      <3>3. j \in 2 .. n + 1 /\ j - 1 \in 1 .. n
        BY <1>1, <2>1, <3>2
      <3>4. j - 1 = k - 1
        BY <1>4, <1>5, <2>1, <3>1, <3>3
      <3>5. QED
        BY <2>1, <3>1, <3>3, <3>4
    <2>2. QED
      BY <1>1, <1>3, <2>1 DEF Once
  <1>9. ASSUME NEW x PROVE Contains(a, x) <=> Contains(l, x) \/ x = i
    <2>1. Contains(a, x) <=> \E k \in 1 .. n + 1 : a[k] = x
      BY <1>2 DEF Contains
    <2>2. QED
      BY <1>1, <1>2, <1>6, <2>1
  <1>10. ASSUME NEW x PROVE Contains(b, x) <=> Contains(l, x) \/ x = i
    <2>1. Contains(b, x) <=> \E k \in 1 .. n + 1 : b[k] = x
      BY <1>3 DEF Contains
    <2>2. ASSUME NEW k \in 1 .. n, l[k] = x PROVE \E j \in 1 .. n + 1 : b[j] = x
      <3>1. k + 1 \in 2 .. n + 1 /\ k + 1 \in 1 .. n + 1 /\ (k + 1) - 1 = k
        BY <1>1
      <3>2. b[k + 1] = x
        BY <1>4, <2>2, <3>1
      <3>3. QED
        BY <3>1, <3>2
    <2>3. ASSUME NEW k \in 1 .. n + 1, b[k] = x, x # i PROVE \E j \in 1 .. n : l[j] = x
      <3>1. k \in 2 .. n + 1 /\ k - 1 \in 1 .. n
        BY <1>1, <1>3, <2>3
      <3>2. QED
        BY <1>4, <2>3, <3>1
    <2>4. 1 \in 1 .. n + 1
      BY <1>1
    <2>5. QED
      BY <1>3, <1>6, <2>1, <2>2, <2>3, <2>4
  <1>11. QED
    BY <1>2, <1>3, <1>7, <1>8, <1>9, <1>10 DEF a, b

(* A list without its first socket.                                        *)
LEMMA TakenFirst ==
  ASSUME NEW S, NEW l \in Seq(S), l # <<>>, Once(l)
  PROVE  /\ Head(l) \in S /\ Contains(l, Head(l)) /\ Tail(l) \in Seq(S) /\ Once(Tail(l))
         /\ \A x : Contains(Tail(l), x) <=> Contains(l, x) /\ x # Head(l)
  <1> DEFINE n == Len(l)
             m == Tail(l)
  <1>1. n \in Nat /\ n >= 1 /\ Head(l) = l[1] /\ l[1] \in S
    OBVIOUS
  <1>2. m \in Seq(S) /\ Len(m) = n - 1 /\ \A k \in 1 .. n - 1 : m[k] = l[k + 1]
    OBVIOUS
  <1>3. \A j, k \in 1 .. n : l[j] = l[k] => j = k
    BY DEF Once
  <1>4. \A x : Contains(l, x) <=> \E k \in 1 .. n : l[k] = x
    BY DEF Contains
  <1>5. \A x : Contains(m, x) <=> \E k \in 1 .. n - 1 : m[k] = x
    BY <1>2 DEF Contains
  <1> HIDE DEF n, m
  <1>6. Once(m)
    <2>1. ASSUME NEW j \in 1 .. n - 1, NEW k \in 1 .. n - 1, m[j] = m[k] PROVE j = k
      <3>1. j + 1 \in 1 .. n /\ k + 1 \in 1 .. n /\ l[j + 1] = l[k + 1]
        BY <1>1, <1>2, <2>1
      <3>2. QED
        BY <1>3, <3>1
    <2>2. QED
      BY <1>2, <2>1 DEF Once
  <1>7. 1 \in 1 .. n
    BY <1>1
  <1>8. ASSUME NEW x PROVE Contains(m, x) <=> Contains(l, x) /\ x # Head(l)
    <2>1. ASSUME NEW k \in 1 .. n - 1, m[k] = x
          PROVE  (\E j \in 1 .. n : l[j] = x) /\ x # l[1]
      <3>1. k + 1 \in 1 .. n /\ k + 1 # 1 /\ l[k + 1] = x
        BY <1>1, <1>2, <2>1
      <3>2. QED
        BY <1>3, <1>7, <3>1
    <2>2. ASSUME NEW k \in 1 .. n, l[k] = x, x # l[1] PROVE \E j \in 1 .. n - 1 : m[j] = x
      <3>1. k - 1 \in 1 .. n - 1 /\ (k - 1) + 1 = k
        BY <1>1, <2>2
      <3>2. m[k - 1] = x
        BY <1>2, <2>2, <3>1
      <3>3. QED
        BY <3>1, <3>2
    <2>3. QED
      BY <1>1, <1>4, <1>5, <2>1, <2>2
  <1>9. QED
    BY <1>1, <1>2, <1>4, <1>6, <1>7, <1>8 DEF m

(* A new socket waits to be taken.                                         *)
LEMMA NewEntryStep ==
  ASSUME RqInv, NEW i \in Ids, setNewEntry(i)
  PROVE  RqInv'
  <1>1. /\ newEntry \in Seq(Ids) /\ Once(newEntry) /\ ~Contains(newEntry, i)
        /\ ~Contains(uList, i) /\ newEntry' = Append(newEntry, i)
    BY DEF setNewEntry, RqInv, RqTypeInv, OnListInv
  <1>2. /\ newEntry' \in Seq(Ids) /\ Once(newEntry')
        /\ \A x : Contains(newEntry', x) <=> Contains(newEntry, x) \/ x = i
    BY <1>1, PutIn
  <1>3. RqTypeInv'
    BY <1>2 DEF setNewEntry, RqInv, RqTypeInv
  <1>4. OnListInv'
    <2>1. ASSUME NEW x \in Ids
          PROVE  /\ ~(Contains(newEntry', x) /\ Contains(uList', x))
                 /\ onList'[x] <=> Contains(newEntry', x) \/ Contains(uList', x)
                 /\ sockState'[x] = "new" => ~onList'[x]
      <3>1. CASE x = i
        <4>1. onList'[x] = TRUE /\ sockState'[x] = "up"
          BY <3>1 DEF setNewEntry, RqInv, RqTypeInv
        <4>2. Contains(newEntry', x) /\ ~Contains(uList', x)
          BY <1>1, <1>2, <3>1 DEF setNewEntry
        <4>3. QED
          BY <4>1, <4>2
      <3>2. CASE x # i
        <4>1. onList'[x] = onList[x] /\ sockState'[x] = sockState[x] /\ uList' = uList
          BY <3>2 DEF setNewEntry, RqInv, RqTypeInv
        <4>2. Contains(newEntry', x) <=> Contains(newEntry, x)
          BY <1>2, <3>2
        <4>3. QED
          BY <4>1, <4>2 DEF RqInv, OnListInv
      <3>3. QED
        BY <3>1, <3>2
    <2>2. QED
      BY <1>2, <2>1 DEF setNewEntry, RqInv, OnListInv
  <1>5. HashInv'
    BY DEF setNewEntry, RqInv, HashInv, BucketOf
  <1>6. QED
    BY <1>3, <1>4, <1>5 DEF setNewEntry, RqInv, ByStamp, InTime

(* The worker takes the first new socket.                                   *)
LEMMA TakeStep ==
  ASSUME RqInv, TakeEntry
  PROVE  RqInv'
  <1> DEFINE i == Head(newEntry)
             b == bucket[BucketOf(i)]
  <1>1. /\ i \in Ids /\ Contains(newEntry, i) /\ newEntry' \in Seq(Ids) /\ Once(newEntry')
        /\ \A x : Contains(newEntry', x) <=> Contains(newEntry, x) /\ x # i
    BY TakenFirst DEF TakeEntry, RqInv, RqTypeInv, OnListInv
  <1>2. /\ uList' = Append(uList, i) /\ stamp' = [stamp EXCEPT ![i] = clock]
        /\ bucket' = [bucket EXCEPT ![BucketOf(i)] = <<i>> \o b]
        /\ UNCHANGED <<clock, sockState, onList, currTime>> /\ rcvPc = "take" /\ rcvPc' = "take"
    BY DEF TakeEntry, Insert, HashInsert
  <1> HIDE DEF i, b
  <1>3. ~Contains(uList, i) /\ BucketOf(i) \in 0 .. HashSize - 1
    BY <1>1, BucketRange DEF RqInv, OnListInv
  <1>4. /\ uList' \in Seq(Ids) /\ Once(uList')
        /\ \A x : Contains(uList', x) <=> Contains(uList, x) \/ x = i
    BY <1>1, <1>2, <1>3, PutIn DEF RqInv, RqTypeInv, OnListInv
  <1>5. b \in Seq(Ids) /\ Once(b) /\ ~Contains(b, i)
    BY <1>1, <1>3 DEF RqInv, RqTypeInv, HashInv, b
  <1>6. /\ <<i>> \o b \in Seq(Ids) /\ Once(<<i>> \o b)
        /\ \A x : Contains(<<i>> \o b, x) <=> Contains(b, x) \/ x = i
    BY <1>1, <1>5, PutIn
  <1>7. /\ stamp' \in [Ids -> Nat]
        /\ \A x \in Ids : stamp'[x] = IF x = i THEN clock ELSE stamp[x]
    BY <1>1, <1>2 DEF RqInv, RqTypeInv
  <1>8. RqTypeInv'
    <2>1. bucket' \in [0 .. HashSize - 1 -> Seq(Ids)]
      BY <1>2, <1>3, <1>6 DEF RqInv, RqTypeInv
    <2>2. clock \in Nat /\ \A x \in Ids : stamp[x] <= clock
      BY DEF RqInv, RqTypeInv
    <2>3. \A x \in Ids : stamp'[x] <= clock
      BY <1>7, <2>2
    <2>4. QED
      BY <1>1, <1>2, <1>4, <1>7, <2>1, <2>3 DEF RqInv, RqTypeInv
  <1>9. OnListInv'
    BY <1>1, <1>2, <1>4 DEF RqInv, OnListInv
  <1>10. HashInv'
    <2>1. ASSUME NEW h \in 0 .. HashSize - 1
          PROVE  /\ Once(bucket'[h])
                 /\ \A x \in Ids :
                      Contains(bucket'[h], x) <=> Contains(uList', x) /\ h = BucketOf(x)
      <3>1. CASE h = BucketOf(i)
        <4>1. bucket'[h] = <<i>> \o b /\ b = bucket[h]
          BY <1>2, <1>3, <3>1 DEF RqInv, RqTypeInv, b
        <4>2. ASSUME NEW x \in Ids
              PROVE  Contains(bucket'[h], x) <=> Contains(uList', x) /\ h = BucketOf(x)
          BY <1>4, <1>6, <3>1, <4>1 DEF RqInv, HashInv
        <4>3. QED
          BY <1>6, <4>1, <4>2
      <3>2. CASE h # BucketOf(i)
        <4>1. bucket'[h] = bucket[h]
          BY <1>2, <3>2 DEF RqInv, RqTypeInv
        <4>2. QED
          BY <1>4, <3>2, <4>1 DEF RqInv, HashInv
      <3>3. QED
        BY <3>1, <3>2
    <2>2. \A x : (BucketOf(x))' = BucketOf(x)
      BY DEF BucketOf
    <2>3. QED
      BY <2>1, <2>2 DEF HashInv
  <1> DEFINE n == Len(uList)
  <1>11. /\ n \in Nat /\ Len(uList') = n + 1 /\ uList'[n + 1] = i
         /\ \A k \in 1 .. n : uList'[k] = uList[k] /\ uList[k] \in Ids /\ uList[k] # i
    <2>1. uList \in Seq(Ids) /\ \A k \in 1 .. n : uList[k] # i
      BY <1>3 DEF RqInv, RqTypeInv, Contains
    <2>2. QED
      BY <1>2, <2>1
  <1>12. \A k \in 1 .. n : stamp'[uList'[k]] = stamp[uList[k]] /\ stamp[uList[k]] <= clock
    BY <1>7, <1>11 DEF RqInv, RqTypeInv
  <1>13. stamp'[uList'[n + 1]] = clock
    BY <1>1, <1>7, <1>11
  <1>14. clock \in Nat /\ currTime \in 0 .. clock /\ Interval \in Nat
    BY RcvQueueAssumption DEF RqInv, RqTypeInv
  <1>15. ByStamp(uList', stamp')
    <2>1. \A j, k \in 1 .. n : j <= k => stamp[uList[j]] <= stamp[uList[k]]
      BY DEF RqInv, ByStamp
    <2> HIDE DEF n
    <2>2. ASSUME NEW j \in 1 .. n + 1, NEW k \in 1 .. n + 1, j <= k
          PROVE  stamp'[uList'[j]] <= stamp'[uList'[k]]
      <3>1. CASE k = n + 1
        BY <1>11, <1>12, <1>13, <1>14, <3>1
      <3>2. CASE k # n + 1
        <4>1. j \in 1 .. n /\ k \in 1 .. n
          BY <1>11, <2>2, <3>2
        <4>2. QED
          BY <1>12, <2>1, <2>2, <4>1
      <3>3. QED
        BY <3>1, <3>2
    <2>3. QED
      BY <1>11, <2>2 DEF ByStamp
  <1>16. InTime'
    <2>1. \A k \in 1 .. n : stamp[uList[k]] >= currTime - Interval
      BY <1>2 DEF RqInv, InTime
    <2> HIDE DEF n
    <2>2. ASSUME NEW k \in 1 .. n + 1 PROVE stamp'[uList'[k]] >= currTime - Interval
      <3>1. CASE k = n + 1
        BY <1>13, <1>14, <3>1
      <3>2. CASE k # n + 1
        <4>1. k \in 1 .. n
          BY <1>11, <3>2
        <4>2. QED
          BY <1>12, <2>1, <4>1
      <3>3. QED
        BY <3>1, <3>2
    <2>3. QED
      BY <1>2, <1>11, <2>2 DEF InTime
  <1>17. QED
    BY <1>8, <1>9, <1>10, <1>15, <1>16 DEF RqInv

(* The worker receives for a socket that the table knows, or for none.      *)
LEMMA ReceiveStep ==
  ASSUME RqInv, Receive
  PROVE  RqInv'
  <1>1. /\ UNCHANGED <<clock, sockState, newEntry, bucket, onList>>
        /\ rcvPc' = "check" /\ currTime' = clock /\ clock \in Nat /\ currTime' \in 0 .. clock
    BY DEF Receive, RqInv, RqTypeInv
  <1>2. CASE Pass
    <2>1. uList' = uList /\ stamp' = stamp
      BY <1>2 DEF Pass
    <2>2. RqTypeInv'
      BY <1>1, <2>1 DEF RqInv, RqTypeInv
    <2>3. QED
      BY <1>1, <2>1, <2>2 DEF RqInv, OnListInv, HashInv, BucketOf, ByStamp
  <1>3. ASSUME NEW i \in Ids, Serve(i) PROVE RqInv'
    <2>1. Contains(uList, i) /\ Update(i)
      BY <1>3, BucketRange DEF Serve, Found, RqInv, HashInv
    <2>2. QED
      BY <1>1, <2>1, UpdateStep
  <1>4. QED
    BY <1>2, <1>3 DEF Receive

(* A broken socket at the head of the list leaves the list and the table.   *)
LEMMA DropStep ==
  ASSUME RqInv, NEW i \in Ids, Contains(uList, i), HashRemove(i), Dropped(i),
         onList' = [onList EXCEPT ![i] = FALSE], sockState[i] # "up", rcvPc = "check",
         UNCHANGED <<stamp, clock, sockState, newEntry, rcvPc, currTime>>
  PROVE  RqInv'
  <1> DEFINE b == bucket[BucketOf(i)]
             n == Len(uList)
  <1>1. uList \in Seq(Ids) /\ Once(uList) /\ uList' = Without(uList, i) /\ n \in Nat
    BY DEF RqInv, RqTypeInv, OnListInv, Dropped
  <1>2. /\ uList' \in Seq(Ids) /\ Once(uList') /\ Len(uList') = n - 1
        /\ \A x : Contains(uList', x) <=> Contains(uList, x) /\ x # i
    BY <1>1, Removal, Removed
  <1>3. BucketOf(i) \in 0 .. HashSize - 1
    BY BucketRange
  <1>4. b \in Seq(Ids) /\ Once(b) /\ Contains(b, i)
    BY <1>3 DEF RqInv, RqTypeInv, HashInv
  <1>5. /\ Without(b, i) \in Seq(Ids) /\ Once(Without(b, i))
        /\ \A x : Contains(Without(b, i), x) <=> Contains(b, x) /\ x # i
    BY <1>4, Removal, Removed
  <1>6. bucket' = [bucket EXCEPT ![BucketOf(i)] = Without(b, i)]
    BY DEF HashRemove
  <1> HIDE DEF b
  <1>7. RqTypeInv'
    <2>1. bucket' \in [0 .. HashSize - 1 -> Seq(Ids)]
      BY <1>3, <1>5, <1>6 DEF RqInv, RqTypeInv
    <2>2. onList' \in [Ids -> BOOLEAN]
      BY DEF RqInv, RqTypeInv
    <2>3. QED
      BY <1>2, <2>1, <2>2 DEF RqInv, RqTypeInv
  <1>8. OnListInv'
    <2>1. ASSUME NEW x \in Ids
          PROVE  /\ ~(Contains(newEntry', x) /\ Contains(uList', x))
                 /\ onList'[x] <=> Contains(newEntry', x) \/ Contains(uList', x)
                 /\ sockState'[x] = "new" => ~onList'[x]
      <3>1. CASE x = i
        <4>1. onList'[x] = FALSE
          BY <3>1 DEF RqInv, RqTypeInv
        <4>2. ~Contains(newEntry', x) /\ ~Contains(uList', x)
          BY <1>2, <3>1 DEF RqInv, OnListInv
        <4>3. QED
          BY <4>1, <4>2
      <3>2. CASE x # i
        <4>1. onList'[x] = onList[x]
          BY <3>2 DEF RqInv, RqTypeInv
        <4>2. Contains(uList', x) <=> Contains(uList, x)
          BY <1>2, <3>2
        <4>3. QED
          BY <4>1, <4>2 DEF RqInv, OnListInv
      <3>3. QED
        BY <3>1, <3>2
    <2>2. QED
      BY <1>2, <2>1 DEF RqInv, OnListInv
  <1>9. HashInv'
    <2>1. ASSUME NEW h \in 0 .. HashSize - 1
          PROVE  /\ Once(bucket'[h])
                 /\ \A x \in Ids :
                      Contains(bucket'[h], x) <=> Contains(uList', x) /\ h = BucketOf(x)
      <3>1. CASE h = BucketOf(i)
        <4>1. bucket'[h] = Without(b, i) /\ b = bucket[h]
          BY <1>3, <1>6, <3>1 DEF RqInv, RqTypeInv, b
        <4>2. ASSUME NEW x \in Ids
              PROVE  Contains(bucket'[h], x) <=> Contains(uList', x) /\ h = BucketOf(x)
          BY <1>2, <1>5, <3>1, <4>1 DEF RqInv, HashInv
        <4>3. QED
          BY <1>5, <4>1, <4>2
      <3>2. CASE h # BucketOf(i)
        <4>1. bucket'[h] = bucket[h]
          BY <1>6, <3>2 DEF RqInv, RqTypeInv
        <4>2. QED
          BY <1>2, <3>2, <4>1 DEF RqInv, HashInv
      <3>3. QED
        BY <3>1, <3>2
    <2>2. \A x : (BucketOf(x))' = BucketOf(x)
      BY DEF BucketOf
    <2>3. QED
      BY <2>1, <2>2 DEF HashInv
  <1> DEFINE m == Without(uList, i)
  <1>10. \E p \in 1 .. n :
           \A k \in 1 .. n - 1 : m[k] = IF k < p THEN uList[k] ELSE uList[k + 1]
    <2>1. \E p \in 1 .. Len(uList) :
            /\ uList[p] = i
            /\ \A k \in 1 .. Len(uList) - 1 :
                 Without(uList, i)[k] = IF k < p THEN uList[k] ELSE uList[k + 1]
      <3> HIDE DEF n
      <3>1. uList \in Seq(Ids) /\ Contains(uList, i)
        BY <1>1
      <3>2. QED
        BY <3>1, Removal
    <2>2. QED
      BY <2>1
  <1> HIDE DEF m
  <1>11. PICK p \in 1 .. n :
           \A k \in 1 .. n - 1 : m[k] = IF k < p THEN uList[k] ELSE uList[k + 1]
    BY <1>10
  <1>12. uList' = m
    BY <1>1 DEF m
  <1>13. \A j, k \in 1 .. n : j <= k => stamp[uList[j]] <= stamp[uList[k]]
    BY DEF RqInv, ByStamp
  <1> HIDE DEF n
  <1>14. ASSUME NEW j \in 1 .. n - 1, NEW k \in 1 .. n - 1, j <= k
         PROVE  stamp[uList'[j]] <= stamp[uList'[k]]
    <2> DEFINE At(x) == IF x < p THEN x ELSE x + 1
    <2>1. At(j) \in 1 .. n /\ At(k) \in 1 .. n /\ At(j) <= At(k)
      BY <1>1, <1>14
    <2>2. uList'[j] = uList[At(j)] /\ uList'[k] = uList[At(k)]
      BY <1>11, <1>12
    <2> HIDE DEF At
    <2>3. QED
      BY <1>13, <2>1, <2>2
  <1>15. ByStamp(uList', stamp')
    BY <1>2, <1>14 DEF ByStamp
  <1>16. QED
    BY <1>7, <1>8, <1>9, <1>15 DEF RqInv

(* The check of the first socket, which is overdue.                         *)
LEMMA CheckStep ==
  ASSUME RqInv, Check
  PROVE  RqInv'
  <1> DEFINE i == Head(uList)
  <1>1. i \in Ids /\ Contains(uList, i)
    BY TakenFirst DEF Check, Overdue, RqInv, RqTypeInv, OnListInv
  <1>2. CASE sockState[i] = "up"
    <2>1. /\ Update(i) /\ UNCHANGED <<clock, sockState, newEntry, bucket, onList>>
          /\ currTime' \in 0 .. clock /\ rcvPc' = "check"
      BY <1>2 DEF Check, RqInv, RqTypeInv
    <2> HIDE DEF i
    <2>2. QED
      BY <1>1, <2>1, UpdateStep
  <1>3. CASE sockState[i] # "up"
    <2>1. /\ HashRemove(i) /\ Dropped(i) /\ onList' = [onList EXCEPT ![i] = FALSE]
          /\ rcvPc = "check"
          /\ UNCHANGED <<stamp, clock, sockState, newEntry, rcvPc, currTime>>
      BY <1>3 DEF Check
    <2> HIDE DEF i
    <2>2. QED
      BY <1>1, <1>3, <2>1, DropStep
  <1>4. QED
    BY <1>2, <1>3

(* The check ends at a socket in time, and then all are.                    *)
LEMMA CheckedStep ==
  ASSUME RqInv, Checked
  PROVE  RqInv'
  <1>1. /\ uList \in Seq(Ids) /\ stamp \in [Ids -> Nat] /\ currTime \in Int /\ Interval \in Int
        /\ \A j, k \in 1 .. Len(uList) : j <= k => stamp[uList[j]] <= stamp[uList[k]]
    BY RcvQueueAssumption DEF RqInv, RqTypeInv, ByStamp
  <1>2. ASSUME NEW k \in 1 .. Len(uList) PROVE stamp[uList[k]] >= currTime - Interval
    <2>1. /\ 1 \in 1 .. Len(uList) /\ 1 <= k /\ uList[k] \in Ids /\ uList[1] \in Ids
          /\ uList # <<>> /\ Head(uList) = uList[1]
      BY <1>1
    <2>2. stamp[uList[1]] >= currTime - Interval
      BY <1>1, <2>1 DEF Checked, Overdue
    <2>3. stamp[uList[1]] <= stamp[uList[k]]
      BY <1>1, <2>1
    <2>4. stamp[uList[1]] \in Int /\ stamp[uList[k]] \in Int
      BY <1>1, <2>1
    <2>5. QED
      BY <1>1, <2>2, <2>3, <2>4
  <1>3. InTime'
    BY <1>2 DEF InTime, Checked
  <1>4. QED
    BY <1>3 DEF Checked, RqInv, RqTypeInv, OnListInv, HashInv, BucketOf, ByStamp

(* Every step keeps the invariant.                                         *)
LEMMA RqStepInv ==
  ASSUME RqInv, [RqNext]_rqVars
  PROVE  RqInv'
  <1>1. CASE UNCHANGED rqVars
    BY <1>1 DEF rqVars, RqInv, RqTypeInv, OnListInv, HashInv, BucketOf, ByStamp, InTime
  <1>2. ASSUME NEW i \in Ids, Break(i) PROVE RqInv'
    BY <1>2 DEF Break, RqInv, RqTypeInv, OnListInv, HashInv, BucketOf, ByStamp, InTime
  <1>3. CASE Tick
    BY <1>3 DEF Tick, RqInv, RqTypeInv, OnListInv, HashInv, BucketOf, ByStamp, InTime
  <1>4. CASE Taken
    BY <1>4 DEF Taken, RqInv, RqTypeInv, OnListInv, HashInv, BucketOf, ByStamp, InTime
  <1>5. QED
    BY <1>1, <1>2, <1>3, <1>4, NewEntryStep, TakeStep, ReceiveStep, CheckStep, CheckedStep
       DEF RqNext

(* The list of the receiving worker is sorted by its time stamps, holds     *)
(* just the sockets of the hash table, and m_bOnList says who is on it or   *)
(* waits to be, for any sockets, hash table and interval.                   *)
THEOREM RqInvariance == RqSpec => []RqInv
  BY RqInitInv, RqStepInv, PTL DEF RqSpec

(* After each round no socket's timers are overdue; m_bOnList, which the    *)
(* collector goes by, and the hash table agree with the list.               *)
THEOREM AlwaysListServed == RqSpec => []ListServed
  <1>1. ASSUME RqInv PROVE ListServed
    <2>1. uList \in Seq(Ids) /\ newEntry \in Seq(Ids)
      BY <1>1 DEF RqInv, RqTypeInv
    <2>2. \A i \in Ids :
            Contains(newEntry \o uList, i) <=> Contains(newEntry, i) \/ Contains(uList, i)
      BY <2>1, JoinedHolds
    <2>3. rcvPc # "check" => \A i \in ToSet(uList) : stamp[i] >= currTime - Interval
      BY <1>1, <2>1 DEF RqInv, InTime, ToSet
    <2>4. \A i \in Ids : onList[i] <=> Contains(newEntry \o uList, i)
      BY <1>1, <2>2 DEF RqInv, OnListInv
    <2>5. \A i \in Ids : Found(i) <=> Contains(uList, i)
      BY <1>1, BucketRange DEF RqInv, HashInv, Found
    <2>6. QED
      BY <2>3, <2>4, <2>5 DEF ListServed
  <1>2. QED
    BY <1>1, RqInvariance, PTL
=============================================================================
