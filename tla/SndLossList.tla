---------------------------- MODULE SndLossList ----------------------------
(***************************************************************************)
(* CSndLossList (list.cpp): ranges of circular sequence numbers in static   *)
(* arrays, a range starting at number s in the slot as far from the head's  *)
(* slot as s is from the head's number, each leading to the next one.       *)
(*                                                                         *)
(* The calls are those of core.cpp: a NAK or the EXP timer inserts a range  *)
(* of outstanding numbers, an ACK removes what it covers, packData takes    *)
(* the first number and, if the message it belongs to has expired, removes  *)
(* and skips all numbers of that message.  m_ListLock makes each call one   *)
(* step; packData runs in one thread, NAKs, ACKs and EXP in another.        *)
(***************************************************************************)
EXTENDS SeqNo, FiniteSets

CONSTANTS FlowWindow,   \* the initial m_iFlowWindowSize
          FirstSent,    \* the first sequence number, unwrapped
          LastSent      \* the last one used (a bound)

(* Numbers compared are less than SeqNoTH apart.                            *)
ASSUME SndLossListAssumption ==
  /\ FlowWindow \in Nat \ {0} /\ 2 * FlowWindow <= SeqNoTH
  /\ FirstSent \in Nat /\ LastSent \in Nat

(* CUDT::connect: new CSndLossList(m_iFlowWindowSize * 2).                  *)
SlSize == 2 * FlowWindow

VARIABLES sndList,   \* [head, length, lastInsertPos, data1, data2, next]
          sndBase,   \* m_iSndLastDataAck, unwrapped
          sndAck,    \* the ACK being processed: m_iSndLastAck has it already;
                     \* sndBase when there is none
          sndTop,    \* m_iSndCurrSeqNo, unwrapped
          sndTaken,  \* what getLostSeq answered packData last, or -1
          sndCall    \* the last call and its answer, in unwrapped numbers
slVars == <<sndList, sndBase, sndAck, sndTop, sndTaken, sndCall>>

SlSlots == 0 .. SlSize - 1
Cleared == [i \in SlSlots |-> -1]
Greater(a, b) == seqcmp(a, b) > 0
FirstNo(l) == l.data1[l.head]
EndOf(l, i) == IF l.data2[i] = -1 THEN l.data1[i] ELSE l.data2[i]
SlotOf(l, s) == (l.head + seqoff(FirstNo(l), s) + SlSize) % SlSize

(* Slot i becomes the node of s1 .. s2 before node n, and is counted as new. *)
NewNode(l, i, s1, s2, n) ==
  [l EXCEPT !.data1[i] = s1, !.data2[i] = IF s2 # s1 THEN s2 ELSE @, !.next[i] = n,
            !.length = @ + seqlen(s1, s2), !.lastInsertPos = i]

(* How much of range lo .. hi a range that ends at `end` covers already.    *)
OverlapNone(end, lo, hi) == 0
Overlap(end, lo, hi) ==
  IF Greater(hi, end) THEN IF Greater(lo, end) THEN 0 ELSE seqlen(lo, end)
                      ELSE seqlen(lo, hi)

(* One round of the closing loop of insert: the node after node i, if it    *)
(* touches it, is taken into it.  The link of a free slot, which nobody     *)
(* reads, is -1 here.                                                      *)
Absorb(l, i) ==
  LET n   == l.next[i]
      end == l.data2[i]
      hi  == EndOf(l, n)
  IN  IF n = -1 \/ end = -1 THEN l
      ELSE IF Greater(l.data1[n], incseq(end)) THEN l
      ELSE [l EXCEPT !.data1[n] = -1,
                     !.data2 = [@ EXCEPT ![n] = -1, ![i] = IF Greater(hi, end) THEN hi ELSE end],
                     !.next = [@ EXCEPT ![i] = l.next[n], ![n] = -1],
                     !.length = @ - Overlap(end, l.data1[n], hi)]

(* Each loop of the class is followed as often as there are slots.          *)
Coalesce(l, i) ==
  LET m[k \in 0 .. SlSize] == IF k = 0 THEN l ELSE Absorb(m[k - 1], i)
  IN  m[SlSize]

(* Node i, which holds the number before s2 or starts where it does.        *)
Extend(l, i, s2) ==
  IF Greater(s2, EndOf(l, i))
    THEN Coalesce([l EXCEPT !.lastInsertPos = i, !.data2[i] = s2,
                            !.length = @ + seqlen(EndOf(l, i), s2) - 1], i)
    ELSE [l EXCEPT !.lastInsertPos = i]

(* The walk along m_piNext from node i to the last one below s.             *)
Onward(l, i, s) ==
  IF l.next[i] = -1 THEN i
  ELSE IF Greater(s, l.data1[l.next[i]]) THEN l.next[i] ELSE i
Walk(l, i, s) ==
  LET w[k \in 0 .. SlSize] == IF k = 0 THEN i ELSE Onward(l, w[k - 1], s)
  IN  w[SlSize]

(* insert starts it from the node of the last insertion, if that is not     *)
(* beyond s: a slot that must still be on the list.                        *)
WalkStart(l, s) ==
  IF l.lastInsertPos = -1 THEN l.head
  ELSE IF Greater(s, l.data1[l.lastInsertPos]) THEN l.lastInsertPos ELSE l.head

insertAt(l, s1, s2, loc) ==
  LET i == Walk(l, WalkStart(l, s1), s1)
  IN  IF l.data1[loc] = s1 THEN Extend(l, loc, s2)
      ELSE IF l.data2[i] = -1 \/ Greater(s1, l.data2[i])
        THEN Coalesce([NewNode(l, loc, s1, s2, l.next[i]) EXCEPT !.next[i] = loc], loc)
      ELSE Extend(l, i, s2)

sndInsert(l, s1, s2) ==
  LET loc == SlotOf(l, s1)
  IN  IF l.length = 0 THEN [NewNode(l, 0, s1, s2, -1) EXCEPT !.head = 0]
      ELSE IF seqoff(FirstNo(l), s1) < 0
        THEN Coalesce([NewNode(l, loc, s1, s2, l.head) EXCEPT !.head = loc], loc)
      ELSE insertAt(l, s1, s2, loc)

(* What node i has beyond s becomes the node of slot n.                     *)
SplitAt(l, i, n, s) ==
  [l EXCEPT !.data1[n] = incseq(s),
            !.data2 = [@ EXCEPT ![n] = IF Greater(l.data2[i], incseq(s)) THEN l.data2[i]
                                       ELSE l.data2[n],
                                ![i] = IF s = l.data1[i] THEN -1 ELSE s],
            !.next = [@ EXCEPT ![n] = l.next[i], ![i] = n]]

(* The head's node goes.                                                   *)
PopHeadKeeps(l) ==
  [l EXCEPT !.head = l.next[l.head], !.data1[l.head] = -1, !.data2[l.head] = -1,
            !.next[l.head] = -1, !.length = @ - seqlen(FirstNo(l), EndOf(l, l.head))]
PopHead(l) ==
  [PopHeadKeeps(l) EXCEPT !.lastInsertPos = IF @ = l.head THEN -1 ELSE @]

(* All nodes before node i, the new head, go.                               *)
PopBefore(l, i) == IF l.head = i THEN l ELSE PopHead(l)
PopTo(l, i) ==
  LET m[k \in 0 .. SlSize] == IF k = 0 THEN l ELSE PopBefore(m[k - 1], i)
  IN  m[SlSize]

sndRemove(l, s) ==
  LET loc == SlotOf(l, s)
      n   == (loc + 1) % SlSize
      i   == IF l.data1[loc] = s THEN loc ELSE Walk(l, l.head, s)
  IN  IF l.length = 0 THEN l
      ELSE IF seqoff(FirstNo(l), s) < 0 THEN l
      ELSE IF l.data2[i] = -1 THEN PopTo(l, l.next[i])
      ELSE IF Greater(l.data2[i], s) THEN PopTo(SplitAt(l, i, n, s), n)
      ELSE PopTo(l, l.next[i])

getLostSeq(l) ==
  IF l.length = 0 THEN l
  ELSE IF l.data2[l.head] = -1 THEN PopHead(l)
  ELSE PopHead(SplitAt(l, l.head, (l.head + 1) % SlSize, FirstNo(l)))

-----------------------------------------------------------------------------
SlUnwrapped(n) == sndBase + seqoff(Wrap(sndBase), n)
SlCalled(op, lo, hi, ret) == sndCall' = [op |-> op, lo |-> lo, hi |-> hi, ret |-> ret]

SlInit ==
  /\ sndList = [head |-> -1, length |-> 0, lastInsertPos |-> -1,
                data1 |-> Cleared, data2 |-> Cleared, next |-> Cleared]
  /\ sndBase = FirstSent /\ sndAck = sndBase /\ sndTop = FirstSent - 1 /\ sndTaken = -1
  /\ sndCall = [op |-> "none", lo |-> 0, hi |-> 0, ret |-> 0]

(* A new packet.  The flow window is counted from m_iSndLastAck (a light ACK *)
(* moves that and shrinks the window by as much).                          *)
SendNext == /\ sndTop < LastSent /\ sndTop - sndAck + 2 <= FlowWindow
            /\ sndTop' = sndTop + 1 /\ sndTaken' = -1
            /\ UNCHANGED <<sndList, sndBase, sndAck, sndCall>>

(* A NAK, clipped at m_iSndLastAck, or everything outstanding on EXP: from  *)
(* the thread that processes the ACKs.                                     *)
InsertLoss(lo, hi) ==
  /\ sndAck = sndBase
  /\ sndBase <= lo /\ lo <= hi /\ hi <= sndTop
  /\ sndList' = sndInsert(sndList, Wrap(lo), Wrap(hi))
  /\ SlCalled("insert", lo, hi, sndList'.length - sndList.length)
  /\ UNCHANGED <<sndBase, sndAck, sndTop, sndTaken>>

(* An ACK moves m_iSndLastAck first ...                                     *)
AckArrives(ack) ==
  /\ sndAck = sndBase /\ sndBase < ack /\ ack <= sndTop + 1
  /\ sndAck' = ack
  /\ UNCHANGED <<sndList, sndBase, sndTop, sndTaken, sndCall>>

(* ... and then, under m_AckLock, m_iSndLastDataAck:                        *)
(* m_pSndLossList->remove(CSeqNo::decseq(m_iSndLastDataAck)).               *)
ForgetAcked ==
  /\ sndBase < sndAck
  /\ sndList' = sndRemove(sndList, decseq(Wrap(sndAck)))
  /\ sndBase' = sndAck
  /\ SlCalled("removeUpTo", sndAck - 1, sndAck - 1, 0)
  /\ UNCHANGED <<sndAck, sndTop, sndTaken>>

(* packData: the number is sent again, unless an ACK has overtaken it ...   *)
TakeLost ==
  /\ sndList' = getLostSeq(sndList)
  /\ sndTaken' = IF sndList.length = 0 THEN -1 ELSE SlUnwrapped(FirstNo(sndList))
  /\ SlCalled("takeFirst", 0, 0, sndTaken')
  /\ UNCHANGED <<sndBase, sndAck, sndTop>>

(* ... or its message has expired.  `last` is seqpair[1], the number after  *)
(* the message's last one; packets of it that were never sent are skipped,  *)
(* whatever the window.  (The numbers still have to fit in the arrays: a    *)
(* drop that goes as far from m_iSndLastDataAck as the list is long is left *)
(* out.)                                                                   *)
DropMessage(last) ==
  /\ sndBase <= sndTaken /\ sndTaken < last
  /\ last + 1 - sndBase < SlSize
  /\ sndList' = sndRemove(sndList, Wrap(last))
  /\ sndTop' = IF sndTop < last + 1 THEN last + 1 ELSE sndTop
  /\ sndTaken' = -1
  /\ SlCalled("removeUpTo", last, last, 0)
  /\ UNCHANGED <<sndBase, sndAck>>

SlNext == \/ SendNext \/ TakeLost \/ ForgetAcked
          \/ \E ack \in FirstSent + 1 .. LastSent + 1 : AckArrives(ack)
          \/ \E lo, hi \in FirstSent .. LastSent : InsertLoss(lo, hi)
          \/ \E last \in FirstSent + 1 .. LastSent - 1 : DropMessage(last)

SlSpec == SlInit /\ [][SlNext]_slVars

-----------------------------------------------------------------------------
SlNodes == {i \in SlSlots : sndList.data1[i] # -1}
SlLo(i) == SlUnwrapped(sndList.data1[i])
SlHi(i) == SlUnwrapped(EndOf(sndList, i))
SlLost  == UNION {SlLo(i) .. SlHi(i) : i \in SlNodes}

(* The shape every branch of insert and remove relies on without a test:    *)
(* the slot of a node is its distance from the head, ranges do not overlap  *)
(* and each leads to the next, a slot off the list is cleared, m_iLength    *)
(* counts the numbers, and m_iLastInsertPos is a node.                     *)
SndListShape ==
  /\ \A i \in SlNodes : /\ sndList.data1[i] \in 0 .. MaxSeqNo
                        /\ i = SlotOf(sndList, sndList.data1[i])
                        /\ SlLo(i) <= SlHi(i)
  /\ \A i \in SlSlots \ SlNodes : sndList.data2[i] = -1
  /\ \A i, j \in SlNodes :
       /\ SlLo(i) < SlLo(j) => SlHi(i) < SlLo(j)
       /\ sndList.next[i] = j <=> /\ SlLo(i) < SlLo(j)
                                  /\ \A k \in SlNodes : SlLo(k) <= SlLo(i) \/ SlLo(j) <= SlLo(k)
  /\ \A i \in SlNodes : sndList.next[i] = -1 <=> \A j \in SlNodes : SlLo(j) <= SlLo(i)
  /\ IF SlNodes = {} THEN sndList.head = -1
     ELSE sndList.head \in SlNodes /\ \A i \in SlNodes : SlLo(sndList.head) <= SlLo(i)
  /\ sndList.length = Cardinality(SlLost)
  /\ sndList.lastInsertPos \in SlNodes \cup {-1}

(* The list is the set list.h describes: insert answers how many numbers    *)
(* were not there before, getLostSeq takes the smallest, remove drops all   *)
(* that are not greater, across the wrap of the sequence numbers; and every *)
(* call leaves the arrays in shape.                                        *)
SndSet == INSTANCE LossSet
            WITH Numbers <- FirstSent - 1 .. LastSent + 1, Counts <- TRUE,
                 lost <- SlLost, call <- sndCall
SndListIsSet ==
  SndSet!Init /\ [][[SndSet!Next]_(SndSet!vars) /\ SndListShape']_slVars
=============================================================================
