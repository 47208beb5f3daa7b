---------------------------- MODULE RcvLossList ----------------------------
(***************************************************************************)
(* CRcvLossList (list.cpp): the receiver's missing packets, as ranges in    *)
(* static arrays, a range starting at number s in the slot as far from the  *)
(* head's slot as s is from the head's number, linked in both directions.   *)
(*                                                                         *)
(* The calls are those of core.cpp, all from the receiving worker: a packet *)
(* beyond the next one inserts the gap, an older one is removed, a message  *)
(* drop request removes a range, and an ACK asks for the first number.      *)
(***************************************************************************)
EXTENDS SeqNo, FiniteSets

CONSTANTS FlightFlag,   \* m_iFlightFlagSize
          RcvBufSize,   \* m_iRcvBufSize
          FirstSeq,     \* the first sequence number, unwrapped
          LastSeq,      \* the last one used (a bound)
          WrapInRange   \* whether a dropped message may span the wrap

ASSUME RcvLossListAssumption ==
  /\ FlightFlag \in Nat /\ FlightFlag < SeqNoTH - 2
  /\ RcvBufSize \in 2 .. FlightFlag
  /\ FirstSeq \in Nat /\ LastSeq \in Nat /\ WrapInRange \in BOOLEAN

(* CUDT::connect: new CRcvLossList(m_iFlightFlagSize).                      *)
RlSize == FlightFlag

VARIABLES rcvList,   \* [head, tail, length, data1, data2, next, prior]
          rcvBase,   \* m_iRcvLastAck, unwrapped
          rcvTop,    \* m_iRcvCurrSeqNo, unwrapped
          rcvCall    \* the last call and its answer, in unwrapped numbers
rlVars == <<rcvList, rcvBase, rcvTop, rcvCall>>

RlSlots == 0 .. RlSize - 1
Nothing == [i \in RlSlots |-> -1]
Beyond(a, b) == seqcmp(a, b) > 0
HeadSeq(l) == l.data1[l.head]

(* The slot of number s.                                                   *)
RlSlot(l, s) == (l.head + seqoff(HeadSeq(l), s)) % RlSize

(* The end kept of a range that now starts at `first`: one number has none. *)
EndAlways(first, last, old) == last
EndKept(first, last, old)   == IF Beyond(last, first) THEN last ELSE old

(* "Data to be inserted must be larger than all those in the list".         *)
Put(l, i, s1, s2) ==
  [l EXCEPT !.data1[i] = s1, !.data2[i] = IF s2 # s1 THEN s2 ELSE @,
            !.next[i] = -1, !.prior[i] = l.tail, !.tail = i, !.length = @ + seqlen(s1, s2)]

insert(l, s1, s2) ==
  IF l.length = 0
    THEN Put([l EXCEPT !.head = 0, !.tail = -1], 0, s1, s2)
  ELSE IF l.data2[l.tail] # -1 /\ incseq(l.data2[l.tail]) = s1
    THEN [l EXCEPT !.data2[l.tail] = s2, !.length = @ + seqlen(s1, s2)]
  ELSE Put([l EXCEPT !.next[l.tail] = RlSlot(l, s1)], RlSlot(l, s1), s1, s2)

(* The only number of node i goes.  The links of a slot that is free, which *)
(* nobody reads, are -1 here.                                              *)
RemoveNode(l, i) ==
  LET n == l.next[i]
      p == l.prior[i]
  IN  [head   |-> IF l.head = i THEN n ELSE l.head,
       tail   |-> IF l.head # i /\ n = -1 THEN p ELSE l.tail,
       length |-> l.length - 1,
       data1  |-> [l.data1 EXCEPT ![i] = -1],
       data2  |-> l.data2,
       next   |-> [j \in RlSlots |-> IF j = i THEN -1
                                     ELSE IF l.head # i /\ j = p THEN n ELSE l.next[j]],
       prior  |-> [j \in RlSlots |-> IF j = i THEN -1 ELSE IF j = n THEN p ELSE l.prior[j]]]

(* The number that starts node i goes: what is left moves to the next slot. *)
MoveNode(l, i, n) ==
  [head   |-> IF l.head = i THEN n ELSE l.head,
   tail   |-> IF l.tail = i THEN n ELSE l.tail,
   length |-> l.length - 1,
   data1  |-> [l.data1 EXCEPT ![n] = incseq(l.data1[i]), ![i] = -1],
   data2  |-> [l.data2 EXCEPT ![n] = EndKept(incseq(l.data1[i]), l.data2[i], @), ![i] = -1],
   next   |-> [j \in RlSlots |-> IF j = n THEN l.next[i] ELSE IF j = i THEN -1
                                 ELSE IF l.head # i /\ j = l.prior[i] THEN n ELSE l.next[j]],
   prior  |-> [j \in RlSlots |-> IF j = n THEN l.prior[i] ELSE IF j = i THEN -1
                                 ELSE IF l.tail # i /\ j = l.next[i] THEN n ELSE l.prior[j]]]

(* The number s inside node i, or at its end, goes: what is beyond it       *)
(* becomes a node of its own, in the slot after that of s.                  *)
CutNodeKeeps(l, i, s) == [l EXCEPT !.data2[i] = decseq(s), !.length = @ - 1]
CutNode(l, i, s) ==
  [l EXCEPT !.data2[i] = IF s = incseq(l.data1[i]) THEN -1 ELSE decseq(s), !.length = @ - 1]

SplitNode(l, i, n, s) ==
  [CutNode(l, i, s) EXCEPT
     !.data1[n] = incseq(s), !.data2[n] = EndKept(incseq(s), l.data2[i], @),
     !.tail = IF @ = i THEN n ELSE @,
     !.next = [@ EXCEPT ![n] = l.next[i], ![i] = n],
     !.prior = [j \in RlSlots |-> IF j = n THEN i
                                  ELSE IF l.tail # i /\ j = l.next[i] THEN n ELSE l.prior[j]]]

(* The search for the node before slot loc goes back through the slots.     *)
Back(loc, k) == (loc - k + RlSize) % RlSize
NodeBefore(l, loc) ==
  Back(loc, CHOOSE k \in 1 .. RlSize : /\ l.data1[Back(loc, k)] # -1
                                       /\ \A m \in 1 .. k - 1 : l.data1[Back(loc, m)] = -1)

removeAt(l, s, loc) ==
  LET i == NodeBefore(l, loc)
      n == (loc + 1) % RlSize
  IN  IF l.data1[loc] = s
        THEN IF l.data2[loc] = -1 THEN RemoveNode(l, loc) ELSE MoveNode(l, loc, n)
      ELSE IF l.data2[i] = -1 \/ Beyond(s, l.data2[i]) THEN l
      ELSE IF s = l.data2[i] THEN CutNode(l, i, s) ELSE SplitNode(l, i, n, s)

remove(l, s) ==
  IF l.length = 0 THEN l
  ELSE IF seqoff(HeadSeq(l), s) < 0 THEN l ELSE removeAt(l, s, RlSlot(l, s))

(* remove(seqno1, seqno2), one number after the other, as plain integers.   *)
removeEach(l, from, count) ==
  LET m[k \in 0 .. count] == IF k = 0 THEN l ELSE remove(m[k - 1], from + k - 1)
  IN  m[count]

removeRange(l, s1, s2) ==
  IF s1 <= s2 THEN removeEach(l, s1, s2 - s1 + 1)
              ELSE removeEach(removeEach(l, s1, MaxSeqNo - s1), 0, s2 + 1)

-----------------------------------------------------------------------------
RlUnwrapped(n) == rcvBase + seqoff(Wrap(rcvBase), n)
RlCalled(op, lo, hi, ret) == rcvCall' = [op |-> op, lo |-> lo, hi |-> hi, ret |-> ret]

RlInit ==
  /\ rcvList = [head |-> -1, tail |-> -1, length |-> 0,
                data1 |-> Nothing, data2 |-> Nothing, next |-> Nothing, prior |-> Nothing]
  /\ rcvBase = FirstSeq /\ rcvTop = FirstSeq - 1
  /\ rcvCall = [op |-> "none", lo |-> 0, hi |-> 0, ret |-> 0]

(* processData, for a packet beyond the largest one seen.                   *)
ReceiveNew(s) ==
  /\ rcvTop < s /\ s - rcvBase < RcvBufSize - 1
  /\ rcvTop' = s
  /\ IF s > rcvTop + 1
       THEN /\ rcvList' = insert(rcvList, incseq(Wrap(rcvTop)), decseq(Wrap(s)))
            /\ RlCalled("insert", rcvTop + 1, s - 1, 0)
       ELSE UNCHANGED <<rcvList, rcvCall>>
  /\ UNCHANGED rcvBase

(* processData, for an older one whose place in the buffer is free.         *)
ReceiveOld(s) ==
  /\ rcvBase <= s /\ s <= rcvTop
  /\ rcvList' = remove(rcvList, Wrap(s))
  /\ RlCalled("remove", s, s, IF rcvList' # rcvList THEN 1 ELSE 0)
  /\ UNCHANGED <<rcvBase, rcvTop>>

(* processCtrl, message drop request, for numbers that CSeqNo can compare.   *)
DropRequest(lo, hi) ==
  /\ lo <= hi /\ rcvTop - lo < SeqNoTH - 1 /\ hi - rcvBase < SeqNoTH - 1
  /\ WrapInRange \/ Wrap(lo) <= Wrap(hi)
  /\ rcvList' = removeRange(rcvList, Wrap(lo), Wrap(hi))
  /\ RlCalled("removeRange", lo, hi, 1)
  /\ rcvTop' = IF lo <= rcvTop + 1 /\ hi > rcvTop THEN hi ELSE rcvTop
  /\ UNCHANGED rcvBase

(* sendCtrl(2): the ACK is the first missing number.                        *)
AckFirst ==
  LET ack == IF rcvList.length = 0 THEN rcvTop + 1 ELSE RlUnwrapped(HeadSeq(rcvList))
  IN  /\ rcvBase' = IF ack > rcvBase THEN ack ELSE rcvBase
      /\ IF rcvList.length = 0 THEN UNCHANGED rcvCall ELSE RlCalled("getFirst", 0, 0, ack)
      /\ UNCHANGED <<rcvList, rcvTop>>

RlNext == \/ AckFirst
          \/ \E s \in FirstSeq .. LastSeq : ReceiveNew(s) \/ ReceiveOld(s)
          \/ \E lo, hi \in FirstSeq - 1 .. LastSeq : DropRequest(lo, hi)

RlSpec == RlInit /\ [][RlNext]_rlVars

-----------------------------------------------------------------------------
RlNodes  == {i \in RlSlots : rcvList.data1[i] # -1}
RlLo(i)  == RlUnwrapped(rcvList.data1[i])
RlHi(i)  == IF rcvList.data2[i] = -1 THEN RlLo(i) ELSE RlUnwrapped(rcvList.data2[i])
RlLost   == UNION {RlLo(i) .. RlHi(i) : i \in RlNodes}
Adjacent(i, j) == /\ RlLo(i) < RlLo(j)
                  /\ \A k \in RlNodes : RlLo(k) <= RlLo(i) \/ RlLo(j) <= RlLo(k)

(* The shape every branch of insert and remove relies on without a test:    *)
(* the slot of a node is its distance from the head, ranges do not overlap, *)
(* links lead from each to the next in both directions, a slot off the list *)
(* is cleared, and m_iLength counts the numbers.                           *)
RcvListShape ==
  /\ \A i \in RlNodes : /\ rcvList.data1[i] \in 0 .. MaxSeqNo
                        /\ i = RlSlot(rcvList, rcvList.data1[i])
                        /\ RlLo(i) <= RlHi(i)
  /\ \A i \in RlSlots \ RlNodes : rcvList.data2[i] = -1
  /\ \A i, j \in RlNodes :
       /\ RlLo(i) < RlLo(j) => RlHi(i) < RlLo(j)
       /\ rcvList.next[i] = j <=> Adjacent(i, j)
       /\ rcvList.prior[j] = i <=> Adjacent(i, j)
  /\ \A i \in RlNodes : rcvList.next[i] = -1 <=> i = rcvList.tail
  /\ RlNodes # {} => /\ rcvList.head \in RlNodes /\ rcvList.tail \in RlNodes
                     /\ \A i \in RlNodes : RlLo(rcvList.head) <= RlLo(i)
  /\ rcvList.length = Cardinality(RlLost)

(* The list is the set list.h describes: remove tells whether the number    *)
(* was missing, removing a range removes "all packets between seqno1 and    *)
(* seqno2", and the ACK point is the smallest number.                      *)
Set == INSTANCE LossSet
         WITH Numbers <- FirstSeq - 1 .. LastSeq + 1, Counts <- FALSE,
              lost <- RlLost, call <- rcvCall
RcvListIsSet == Set!Spec
=============================================================================
