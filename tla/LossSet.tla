------------------------------ MODULE LossSet ------------------------------
(***************************************************************************)
(* What the two loss lists promise, in the words of list.h: a set of        *)
(* sequence numbers, here unwrapped, and the answer to each call.          *)
(***************************************************************************)
EXTENDS Integers, FiniteSets

CONSTANTS Numbers,    \* the numbers in use
          Counts      \* whether insert tells how many numbers were new

VARIABLES lost,       \* the set
          call        \* the last call and its answer
vars == <<lost, call>>

Called(op, lo, hi, ret) == call' = [op |-> op, lo |-> lo, hi |-> hi, ret |-> ret]

First == IF lost = {} THEN -1 ELSE CHOOSE s \in lost : \A t \in lost : s <= t

Init == lost = {} /\ call = [op |-> "none", lo |-> 0, hi |-> 0, ret |-> 0]

Insert(lo, hi) ==
  /\ Called("insert", lo, hi, IF Counts THEN Cardinality((lo .. hi) \ lost) ELSE 0)
  /\ lost' = lost \cup lo .. hi

RemoveUpTo(n) ==
  /\ Called("removeUpTo", n, n, 0)
  /\ lost' = {s \in lost : s > n}

Remove(n) ==
  /\ Called("remove", n, n, IF n \in lost THEN 1 ELSE 0)
  /\ lost' = lost \ {n}

RemoveRange(lo, hi) ==
  /\ Called("removeRange", lo, hi, 1)
  /\ lost' = lost \ (lo .. hi)

TakeFirst ==
  /\ Called("takeFirst", 0, 0, First)
  /\ lost' = lost \ {First}

GetFirst ==
  /\ Called("getFirst", 0, 0, First)
  /\ UNCHANGED lost

(* Whatever else the program does.                                         *)
NoCall == UNCHANGED vars

Next == \/ NoCall \/ TakeFirst \/ GetFirst
        \/ \E n \in Numbers : RemoveUpTo(n) \/ Remove(n)
        \/ \E lo, hi \in Numbers : Insert(lo, hi) \/ RemoveRange(lo, hi)

Spec == Init /\ [][Next]_vars
=============================================================================
