---------------------------- MODULE SenderProofs ----------------------------
(***************************************************************************)
(* What a sending host keeps about when and how fast to send, and to whom:  *)
(* CUDTCC's period, the heap of CSndUList with CSndQueue's worker, and the   *)
(* cache of CInfoBlocks.  Each part has its own variables, invariant and    *)
(* theorems.                                                               *)
(***************************************************************************)
EXTENDS Congestion, SndQueue, PeerCache, FiniteSetTheorems, WellFoundedInduction, TLAPS

-----------------------------------------------------------------------------
(* CUDTCC: five cuts of a period of 12 microseconds or more at most double   *)
(* it, and no schedule of losses, ACKs and time-outs makes a sixth.         *)

(* A period after two cuts.                                                *)
Twice(p)  == Longer(Longer(p))
(* And after three.                                                        *)
Thrice(p) == Longer(Twice(p))

(* What a period may have become after n cuts, the first being one.         *)
Most(p, n) ==
  IF n = 1 THEN Longer(p)
  ELSE IF n = 2 THEN Twice(p)
  ELSE IF n = 3 THEN Thrice(p)
  ELSE IF n = 4 THEN Longer(Thrice(p))
  ELSE Twice(Thrice(p))

(* The values of the variables.                                            *)
CcType ==
  /\ period \in Nat /\ rcvPeriod \in Nat /\ before \in Nat
  /\ dec \in [nak : Nat, count : Nat, random : Nat, avg : Nat]
  /\ slow \in BOOLEAN

(* Slow start is before the first cut.                                     *)
SlowUncut == slow => before = 0

(* m_iDecCount counts at least the cuts since.                             *)
CutsCounted == before > 0 => dec.count > 0 /\ period <= Most(before, dec.count)

(* A period's growth is bounded by the cuts counted.                        *)
CcInv == CcType /\ SlowUncut /\ CutsCounted
-----------------------------------------------------------------------------
(* A longer period is longer, and longer periods of longer ones.            *)
LEMMA LongerGrows ==
  ASSUME NEW p \in Nat, NEW q \in Nat, p <= q
  PROVE  Longer(p) \in Nat /\ p <= Longer(p) /\ Longer(p) <= Longer(q)
  BY DEF Longer

(* One cut more.                                                           *)
LEMMA OneMore ==
  ASSUME NEW b \in Nat, NEW n \in Nat, n > 0
  PROVE  /\ Most(b, n) \in Nat
         /\ Most(b, n) <= Most(b, n + 1)
         /\ n < 5 => Most(b, n + 1) = Longer(Most(b, n))
  <1>1. /\ Longer(b) \in Nat /\ Twice(b) \in Nat /\ Thrice(b) \in Nat
        /\ Longer(Thrice(b)) \in Nat /\ Twice(Thrice(b)) \in Nat
    BY LongerGrows DEF Twice, Thrice
  <1>2. /\ Longer(b) <= Twice(b) /\ Twice(b) <= Thrice(b) /\ Thrice(b) <= Longer(Thrice(b))
        /\ Longer(Thrice(b)) <= Twice(Thrice(b))
    BY <1>1, LongerGrows DEF Twice, Thrice
  <1>3. n \in {1, 2, 3, 4} \/ n >= 5
    OBVIOUS
  <1>4. QED
    BY <1>1, <1>2, <1>3 DEF Most, Twice, Thrice

(* An eighth more, five times, with each period rounded up.                 *)
LEMMA FiveCuts ==
  ASSUME NEW b \in Nat, b >= 12, NEW n \in Nat, n > 0
  PROVE  Most(b, n) <= 2 * b
  <1> DEFINE p1 == Longer(b)
             p2 == Longer(p1)
             p3 == Longer(p2)
             p4 == Longer(p3)
             p5 == Longer(p4)
  <1>1. \A p \in Nat : Longer(p) \in Nat /\ p <= Longer(p) /\ (p > 0 => 8 * Longer(p) <= 9 * p + 7)
    BY DEF Longer
  <1>2. p1 \in Nat /\ b <= p1 /\ 8 * p1 <= 9 * b + 7
    BY <1>1
  <1> HIDE DEF p1
  <1>3. p2 \in Nat /\ p1 <= p2 /\ 8 * p2 <= 9 * p1 + 7
    BY <1>1, <1>2
  <1> HIDE DEF p2
  <1>4. p3 \in Nat /\ p2 <= p3 /\ 8 * p3 <= 9 * p2 + 7
    BY <1>1, <1>2, <1>3
  <1> HIDE DEF p3
  <1>5. p4 \in Nat /\ p3 <= p4 /\ 8 * p4 <= 9 * p3 + 7
    BY <1>1, <1>2, <1>3, <1>4
  <1> HIDE DEF p4
  <1>6. p5 \in Nat /\ p4 <= p5 /\ 8 * p5 <= 9 * p4 + 7
    BY <1>1, <1>2, <1>3, <1>4, <1>5
  <1> HIDE DEF p5
  <1>7. p5 <= 2 * b
    BY <1>2, <1>3, <1>4, <1>5, <1>6
  <1>8. Most(b, n) \in {p1, p2, p3, p4, p5}
    BY DEF Most, Twice, Thrice, p1, p2, p3, p4, p5
  <1>9. QED
    BY <1>2, <1>3, <1>4, <1>5, <1>6, <1>7, <1>8

-----------------------------------------------------------------------------
(* A loss report outside slow start begins a congestion period or cuts the  *)
(* period of the one that runs, at most four more times.                    *)
LEMMA LossStep ==
  ASSUME CcInv, onLoss
  PROVE  CcInv'
  <1> DEFINE p   == IF slow /\ rcvPeriod = 0 THEN 0 ELSE period
             avg == Ceil8(7 * dec.avg + dec.nak)
  <1>1. /\ p \in Nat /\ avg \in Nat /\ before \in Nat /\ rcvPeriod \in Nat
        /\ dec \in [nak : Nat, count : Nat, random : Nat, avg : Nat]
    BY DEF CcInv, CcType, Ceil8
  <1>2. before > 0 => p = period
    BY <1>1 DEF CcInv, SlowUncut
  <1>3. /\ slow' = FALSE /\ rcvPeriod' = rcvPeriod
        /\ \/ slow /\ period' = rcvPeriod /\ UNCHANGED <<dec, before>>
           \/ /\ \E random \in 1 .. (IF avg > 1 THEN avg ELSE 1) :
                   dec' = [nak |-> 1, count |-> 1, random |-> random, avg |-> avg]
              /\ period' = Longer(p) /\ before' = p
           \/ /\ \E nak \in {dec.nak, dec.nak + 1} :
                   dec' = [dec EXCEPT !.nak = nak, !.count = @ + 1]
              /\ before' = before
              /\ period' = p \/ (dec.count < 5 /\ period' = Longer(p))
    BY DEF onLoss, MayCut, CutsLeft
  <1> HIDE DEF p, avg
  <1>4. CASE slow /\ period' = rcvPeriod /\ UNCHANGED <<dec, before>>
    <2>1. CcType' /\ SlowUncut'
      BY <1>1, <1>3, <1>4 DEF CcInv, CcType, SlowUncut
    <2>2. CutsCounted'
      BY <1>1, <1>4 DEF CcInv, SlowUncut, CutsCounted
    <2>3. QED
      BY <2>1, <2>2 DEF CcInv
  <1>5. CASE /\ \E random \in 1 .. (IF avg > 1 THEN avg ELSE 1) :
                  dec' = [nak |-> 1, count |-> 1, random |-> random, avg |-> avg]
             /\ period' = Longer(p) /\ before' = p
    <2>1. dec' \in [nak : Nat, count : Nat, random : Nat, avg : Nat] /\ dec'.count = 1
      BY <1>1, <1>5
    <2>2. Longer(p) \in Nat
      BY <1>1, LongerGrows
    <2>3. CcType' /\ SlowUncut'
      BY <1>1, <1>3, <1>5, <2>1, <2>2 DEF CcType, SlowUncut
    <2>4. CutsCounted'
      BY <1>5, <2>1, <2>2 DEF CutsCounted, Most
    <2>5. QED
      BY <2>3, <2>4 DEF CcInv
  <1>6. CASE /\ \E nak \in {dec.nak, dec.nak + 1} :
                  dec' = [dec EXCEPT !.nak = nak, !.count = @ + 1]
             /\ before' = before
             /\ period' = p \/ (dec.count < 5 /\ period' = Longer(p))
    <2>1. dec' \in [nak : Nat, count : Nat, random : Nat, avg : Nat]
      <3>1. PICK nak \in {dec.nak, dec.nak + 1} :
              dec' = [dec EXCEPT !.nak = nak, !.count = @ + 1]
        BY <1>6
      <3> DEFINE q == [dec EXCEPT !.nak = nak]
      <3>2. dec' = [q EXCEPT !.count = @ + 1]
        BY <3>1
      <3>3. q \in [nak : Nat, count : Nat, random : Nat, avg : Nat]
        BY <1>1
      <3> HIDE DEF q
      <3>4. QED
        BY <3>2, <3>3
    <2>2. dec'.count = dec.count + 1 /\ dec.count \in Nat
      BY <1>1, <1>6
    <2>3. period' \in Nat
      BY <1>1, <1>6, LongerGrows
    <2>4. ASSUME before > 0
          PROVE  period' <= Most(before, dec.count + 1)
      <3> DEFINE m == Most(before, dec.count)
                 n == Most(before, dec.count + 1)
      <3>1. dec.count > 0 /\ p <= m
        BY <1>2, <2>4 DEF CcInv, CutsCounted
      <3>2. m \in Nat /\ n \in Nat /\ m <= n /\ (dec.count < 5 => n = Longer(m))
        <4>1. dec.count + 1 \in Nat /\ dec.count + 1 > 0
          BY <2>2
        <4>2. QED
          BY <1>1, <2>2, <3>1, <4>1, OneMore
      <3> HIDE DEF m, n
      <3>3. CASE period' = p
        BY <1>1, <3>1, <3>2, <3>3 DEF n
      <3>4. CASE dec.count < 5 /\ period' = Longer(p)
        <4>1. Longer(p) <= Longer(m)
          BY <1>1, <3>1, <3>2, LongerGrows
        <4>2. QED
          BY <3>2, <3>4, <4>1 DEF n
      <3>5. QED
        BY <1>6, <3>3, <3>4
    <2>5. CcType' /\ SlowUncut'
      BY <1>1, <1>3, <1>6, <2>1, <2>3 DEF CcType, SlowUncut
    <2>6. CutsCounted'
      BY <1>6, <2>2, <2>4 DEF CutsCounted
    <2>7. QED
      BY <2>5, <2>6 DEF CcInv
  <1>7. QED
    BY <1>3, <1>4, <1>5, <1>6

(* An ACK shortens the period, or ends slow start.                          *)
LEMMA AckStep ==
  ASSUME CcInv, onACK
  PROVE  CcInv'
  <1>1. rcvPeriod' \in Nat /\ slow' \in BOOLEAN
    BY CongestionAssumption DEF CcInv, CcType, onACK
  <1>2. /\ before' = before /\ dec' = dec
        /\ \/ slow' = slow /\ period' = period
           \/ slow /\ slow' = FALSE /\ period' \in 0 .. FromRate(rcvPeriod', Enough)
           \/ slow' = slow /\ period' \in 0 .. period
    BY DEF onACK
  <1>3. FromRate(rcvPeriod', Enough) \in Nat
    BY <1>1, CongestionAssumption DEF FromRate
  <1>4. CcType'
    BY <1>1, <1>2, <1>3 DEF CcInv, CcType
  <1>5. SlowUncut'
    BY <1>2 DEF CcInv, SlowUncut
  <1>6. ASSUME before > 0
        PROVE  dec.count > 0 /\ period' <= Most(before, dec.count)
    <2>1. dec.count > 0 /\ period <= Most(before, dec.count)
      BY <1>6 DEF CcInv, CutsCounted
    <2>2. Most(before, dec.count) \in Nat
      BY <2>1, OneMore DEF CcInv, CcType
    <2>3. ~slow
      BY <1>6 DEF CcInv, CcType, SlowUncut
    <2>4. period' \in Nat /\ period' <= period /\ period \in Nat
      BY <1>2, <2>3 DEF CcInv, CcType
    <2>5. QED
      BY <2>1, <2>2, <2>4
  <1>7. CutsCounted'
    BY <1>2, <1>6 DEF CutsCounted
  <1>8. QED
    BY <1>4, <1>5, <1>7 DEF CcInv

(* A time-out ends slow start.                                             *)
LEMMA TimeoutStep ==
  ASSUME CcInv, onTimeout
  PROVE  CcInv'
  <1>1. before' = 0
    BY DEF CcInv, SlowUncut, onTimeout
  <1>2. CcType'
    BY DEF CcInv, CcType, onTimeout, FromRate
  <1>3. SlowUncut' /\ CutsCounted'
    BY <1>1 DEF SlowUncut, CutsCounted
  <1>4. QED
    BY <1>2, <1>3 DEF CcInv

-----------------------------------------------------------------------------
(* No period has been cut at first.                                        *)
LEMMA CcInitInv == CcInit => CcInv
  <1> SUFFICES ASSUME CcInit PROVE CcInv
    OBVIOUS
  <1>1. CcType
    BY DEF CcInit, CcType
  <1>2. SlowUncut /\ CutsCounted
    BY DEF CcInit, SlowUncut, CutsCounted
  <1>3. QED
    BY <1>1, <1>2 DEF CcInv

(* Every step keeps the invariant.                                         *)
LEMMA CcStepInv == CcInv /\ [CcNext]_ccVars => CcInv'
  <1> SUFFICES ASSUME CcInv, [CcNext]_ccVars PROVE CcInv'
    OBVIOUS
  <1>1. CASE Send \/ IntervalOver \/ UNCHANGED ccVars
    <2>1. UNCHANGED <<period, rcvPeriod, before, dec, slow>>
      BY <1>1 DEF Send, IntervalOver, ccVars
    <2>2. CcType' /\ SlowUncut'
      BY <2>1 DEF CcInv, CcType, SlowUncut
    <2>3. CutsCounted'
      BY <2>1 DEF CcInv, CutsCounted
    <2>4. QED
      BY <2>2, <2>3 DEF CcInv
  <1>2. QED
    BY <1>1, AckStep, LossStep, TimeoutStep DEF CcNext

(* The inductive invariant holds in every reachable state.                  *)
THEOREM CcInvariance == CcSpec => []CcInv
  BY CcInitInv, CcStepInv, PTL DEF CcSpec

(* HalvedAtMost: the sending rate is at most halved within a congestion     *)
(* period, when the period was at least 12 microseconds before it; each cut *)
(* of a shorter one may be rounded up to more than an eighth.               *)
THEOREM AlwaysHalved ==
  ASSUME Enough >= 12
  PROVE  CcSpec => []HalvedAtMost
  <1>1. CcInv => HalvedAtMost
    <2> SUFFICES ASSUME CcInv, before >= Enough PROVE period <= 2 * before
      BY DEF HalvedAtMost
    <2>1. /\ before \in Nat /\ before >= 12 /\ period \in Nat /\ dec.count \in Nat
          /\ before > 0
      BY CongestionAssumption DEF CcInv, CcType
    <2>2. dec.count > 0 /\ period <= Most(before, dec.count)
      BY <2>1 DEF CcInv, CutsCounted
    <2>3. Most(before, dec.count) <= 2 * before /\ Most(before, dec.count) \in Nat
      BY <2>1, <2>2, FiveCuts, OneMore
    <2>4. QED
      BY <2>1, <2>2, <2>3
  <1>2. QED
    BY <1>1, CcInvariance, PTL
-----------------------------------------------------------------------------
(* CSndUList and CSndQueue.                                                *)

(* The heap: no entry is earlier than its parent.                          *)
InHeapOrder(h) == \A p \in 2 .. Len(h) : h[p \div 2] <= h[p]

(* Times of entries.                                                       *)
Times == Nat \ {0}

(* Halves of places.                                                       *)
LEMMA Parents ==
  ASSUME NEW p \in Nat \ {0, 1}
  PROVE  /\ p \div 2 \in Nat /\ p \div 2 >= 1 /\ p \div 2 < p
         /\ p = 2 * (p \div 2) \/ p = 2 * (p \div 2) + 1
  OBVIOUS

(* A path starts at its first place, goes on with next, and comes to no     *)
(* place but from the one before.                                          *)
LEMMA PathIs ==
  ASSUME NEW D, NEW next \in [D -> D], NEW q \in D
  PROVE  /\ Path(next, q) \subseteq D /\ q \in Path(next, q)
         /\ \A r \in Path(next, q) : next[r] \in Path(next, q)
         /\ \A p \in Path(next, q) \ {q} : \E r \in Path(next, q) : r # p /\ next[r] = p
  <1>1. DOMAIN next = D
    OBVIOUS
  <1>2. PICK path : path = Path(next, q)
    OBVIOUS
  <1>3. path = {p \in D : \A P \in SUBSET D :
                  (q \in P /\ \A r \in P : next[r] \in P) => p \in P}
    BY <1>1, <1>2 DEF Path
  <1>4. path \subseteq D /\ q \in path
    BY <1>3
  <1>5. ASSUME NEW r \in path PROVE next[r] \in path
    <2>1. next[r] \in D
      BY <1>4
    <2>2. ASSUME NEW P \in SUBSET D, q \in P, \A x \in P : next[x] \in P PROVE next[r] \in P
      <3>1. r \in P
        BY <1>3, <2>2
      <3>2. QED
        BY <2>2, <3>1
    <2>3. QED
      BY <1>3, <2>1, <2>2
  <1>6. ASSUME NEW p \in path \ {q}, \A r \in path : r = p \/ next[r] # p PROVE FALSE
    <2>1. PICK P \in SUBSET D : P = path \ {p}
      BY <1>4
    <2>2. q \in P
      BY <1>4, <1>6, <2>1
    <2>3. \A x \in P : next[x] \in P
      BY <1>5, <1>6, <2>1
    <2>4. p \in P
      BY <1>3, <2>2, <2>3
    <2>5. QED
      BY <2>1, <2>4
  <1>7. QED
    BY <1>2, <1>4, <1>5, <1>6

(* Sifting keeps the number of entries, and their times are the same ones.  *)
LEMMA SiftedIs ==
  ASSUME NEW n \in Nat, NEW g \in [1 .. n -> Times], NEW next \in [1 .. n -> 1 .. n],
         NEW q \in 1 .. n
  PROVE  /\ Sifted(g, next, q) \in Seq(Times) /\ Len(Sifted(g, next, q)) = n
         /\ \A p \in 1 .. n : Sifted(g, next, q)[p] =
              IF p \notin Path(next, q) THEN g[p] ELSE IF next[p] = p THEN g[q] ELSE g[next[p]]
  <1>1. PICK path : path = Path(next, q)
    OBVIOUS
  <1>2. PICK f : f = [p \in 1 .. n |->
                        IF p \notin path THEN g[p] ELSE IF next[p] = p THEN g[q] ELSE g[next[p]]]
    OBVIOUS
  <1>3. DOMAIN g = 1 .. n
    OBVIOUS
  <1>4. Sifted(g, next, q) = f
    BY <1>1, <1>2, <1>3 DEF Sifted
  <1>5. f \in [1 .. n -> Times]
    BY <1>2
  <1>6. \A S : \A m \in Nat : \A x \in [1 .. m -> S] : x \in Seq(S) /\ Len(x) = m
    OBVIOUS
  <1>7. f \in Seq(Times) /\ Len(f) = n
    BY <1>5, <1>6
  <1>8. \A p \in 1 .. n : f[p] =
          IF p \notin path THEN g[p] ELSE IF next[p] = p THEN g[q] ELSE g[next[p]]
    BY <1>2
  <1>9. QED
    BY <1>1, <1>4, <1>7, <1>8

(* A set of places that is not empty has a least one.                      *)
LEMMA LeastPlace ==
  ASSUME NEW T, T \subseteq Nat, T # {}
  PROVE  \E x \in T : \A y \in T : x <= y
  <1>1. PICK x \in T : \A y \in T : ~(<<y, x>> \in OpToRel(<, Nat))
    BY WFMin, NatLessThanWellFounded
  <1>2. ASSUME NEW y \in T PROVE x <= y
    <2>1. ~(y < x)
      BY <1>1, <1>2 DEF OpToRel
    <2>2. QED
      BY <2>1, <1>2
  <1>3. QED
    BY <1>2

(* The root of an ordered heap is the earliest.                            *)
LEMMA RootIsEarliest ==
  ASSUME NEW h \in Seq(Times), InHeapOrder(h), NEW i \in 1 .. Len(h)
  PROVE  h[1] <= h[i]
  <1>1. PICK n \in Nat : n = Len(h)
    OBVIOUS
  <1>2. \A p \in 1 .. n : h[p] \in Nat
    BY <1>1 DEF Times
  <1>3. SUFFICES ASSUME ~(h[1] <= h[i]) PROVE FALSE
    OBVIOUS
  <1>4. PICK late : late = {p \in 1 .. n : ~(h[1] <= h[p])}
    OBVIOUS
  <1>5. i \in late /\ late \subseteq Nat
    BY <1>1, <1>3, <1>4
  <1>6. PICK p \in late : \A r \in late : p <= r
    BY <1>5, LeastPlace
  <1>7. p \in 1 .. n /\ p \in Nat /\ 1 \in 1 .. n /\ ~(h[1] <= h[p])
    BY <1>4, <1>6
  <1>8. p # 1
    BY <1>2, <1>7
  <1>9. PICK r \in Nat : r = p \div 2 /\ r >= 1 /\ r < p
    BY <1>7, <1>8, Parents
  <1>10. r \in 1 .. n /\ p \in 2 .. n /\ r \notin late
    BY <1>5, <1>6, <1>7, <1>8, <1>9
  <1>11. h[1] <= h[r]
    BY <1>4, <1>10
  <1>12. h[r] <= h[p]
    BY <1>1, <1>9, <1>10 DEF InHeapOrder
  <1>13. QED
    BY <1>2, <1>7, <1>10, <1>11, <1>12

(* A new entry rises to its place.                                         *)
LEMMA InsertedIs ==
  ASSUME NEW h \in Seq(Times), NEW ts \in Times
  PROVE  /\ Inserted(h, ts) \in Seq(Times) /\ Len(Inserted(h, ts)) = Len(h) + 1
         /\ InHeapOrder(h) => InHeapOrder(Inserted(h, ts))
  <1>1. PICK n \in Nat : n = Len(h) + 1
    OBVIOUS
  <1>2. PICK g : g = Append(h, ts)
    OBVIOUS
  <1>3. /\ g \in [1 .. n -> Times] /\ Len(g) = n /\ g[n] = ts /\ n \in 1 .. n
        /\ \A p \in 1 .. n - 1 : g[p] = h[p]
    <2>1. /\ g \in Seq(Times) /\ Len(g) = Len(h) + 1 /\ g[Len(h) + 1] = ts
          /\ \A p \in 1 .. Len(h) : g[p] = h[p]
      BY <1>2
    <2>2. g \in [1 .. Len(g) -> Times]
      BY <2>1
    <2>3. n - 1 = Len(h) /\ Len(g) = n /\ n \in 1 .. n
      BY <1>1, <2>1
    <2>4. QED
      BY <1>1, <2>1, <2>2, <2>3
  <1>4. PICK next : next = Up(g, ts)
    OBVIOUS
  <1>5. next = [p \in 1 .. n |-> IF p > 1 /\ g[p \div 2] > ts THEN p \div 2 ELSE p]
    BY <1>3, <1>4 DEF Up
  <1>6. /\ next \in [1 .. n -> 1 .. n]
        /\ \A p \in 1 .. n : next[p] = IF p > 1 /\ g[p \div 2] > ts THEN p \div 2 ELSE p
    <2>1. \A p \in 1 .. n : p > 1 => p \div 2 \in 1 .. n
      BY Parents
    <2>2. QED
      BY <1>5, <2>1
  <1>7. PICK path : path = Path(next, n)
    OBVIOUS
  <1>8. /\ path \subseteq 1 .. n /\ n \in path
        /\ \A r \in path : next[r] \in path
        /\ \A p \in path \ {n} : \E r \in path : r # p /\ next[r] = p
    <2>1. PICK D : D = 1 .. n
      OBVIOUS
    <2>2. next \in [D -> D] /\ n \in D
      BY <1>3, <1>6, <2>1
    <2>3. QED
      BY <1>7, <2>1, <2>2, PathIs
  <1>9. PICK s : s = Inserted(h, ts)
    OBVIOUS
  <1>10. s = Sifted(g, next, n)
    BY <1>2, <1>3, <1>4, <1>9 DEF Inserted
  <1>11. /\ s \in Seq(Times) /\ Len(s) = n
         /\ \A p \in 1 .. n : s[p] =
              IF p \notin path THEN g[p] ELSE IF next[p] = p THEN g[n] ELSE g[next[p]]
    <2>1. g \in [1 .. n -> Times] /\ next \in [1 .. n -> 1 .. n] /\ n \in 1 .. n
      BY <1>3, <1>6
    <2>2. /\ Sifted(g, next, n) \in Seq(Times) /\ Len(Sifted(g, next, n)) = n
          /\ \A p \in 1 .. n : Sifted(g, next, n)[p] =
               IF p \notin Path(next, n) THEN g[p] ELSE IF next[p] = p THEN g[n] ELSE g[next[p]]
      BY <2>1, SiftedIs
    <2>3. QED
      BY <1>7, <1>10, <2>2
  <1>12. ASSUME InHeapOrder(h), NEW p \in 2 .. n PROVE s[p \div 2] <= s[p]
    <2>1. PICK q \in Nat : q = p \div 2 /\ q >= 1 /\ q < p
      BY Parents
    <2>2. q \in 1 .. n - 1 /\ p \in 1 .. n /\ p \in Nat /\ q # n
      BY <2>1
    <2>3. \A r \in 1 .. n : g[r] \in Nat
      BY <1>3 DEF Times
    <2>4. \A r \in 2 .. n - 1 : g[r \div 2] <= g[r]
      <3>1. \A r \in 2 .. n - 1 : r \div 2 \in 1 .. n - 1 /\ r \in 1 .. n - 1 /\ r \in 2 .. Len(h)
        BY <1>1, Parents
      <3>2. QED
        BY <1>3, <1>12, <3>1 DEF InHeapOrder
    <2>5. ASSUME NEW r \in path \ {n} PROVE g[r] > ts
      <3>1. PICK x \in path : x # r /\ next[x] = r
        BY <1>8, <2>5
      <3>2. x \in 1 .. n
        BY <1>8, <3>1
      <3>3. r = x \div 2 /\ g[x \div 2] > ts
        BY <1>6, <3>1, <3>2
      <3>4. QED
        BY <3>3
    <2>6. next[p] = IF g[q] > ts THEN q ELSE p
      BY <1>6, <2>1, <2>2
    <2>7. CASE p \notin path
      <3>1. p # n /\ s[p] = g[p]
        BY <1>8, <1>11, <2>2, <2>7
      <3>2. g[q] <= g[p]
        BY <2>1, <2>2, <2>4, <3>1
      <3>3. CASE q \notin path
        BY <1>11, <2>1, <2>2, <3>1, <3>2, <3>3
      <3>4. CASE q \in path
        <4>1. g[q] > ts
          BY <2>2, <2>5, <3>4
        <4>2. CASE next[q] = q
          <5>1. s[q] = ts
            BY <1>3, <1>11, <2>2, <3>4, <4>2
          <5>2. QED
            BY <2>1, <2>2, <2>3, <3>1, <3>2, <4>1, <5>1 DEF Times
        <4>3. CASE next[q] # q
          <5>1. q > 1 /\ next[q] = q \div 2
            BY <1>6, <2>2, <4>3
          <5>2. s[q] = g[q \div 2]
            BY <1>11, <2>2, <3>4, <5>1, <4>3
          <5>3. g[q \div 2] <= g[q] /\ q \div 2 \in 1 .. n
            BY <2>2, <2>4, <5>1, Parents
          <5>4. QED
            BY <2>1, <2>2, <2>3, <3>1, <3>2, <5>2, <5>3
        <4>4. QED
          BY <4>2, <4>3
      <3>5. QED
        BY <3>3, <3>4
    <2>8. CASE p \in path /\ g[q] > ts
      <3>1. next[p] = q /\ q \in path /\ s[p] = g[q]
        <4>1. next[p] = q /\ q # p
          BY <2>1, <2>6, <2>8
        <4>2. q \in path
          BY <1>8, <2>8, <4>1
        <4>3. QED
          BY <1>11, <2>2, <2>8, <4>1, <4>2
      <3>2. CASE next[q] = q
        <4>1. s[q] = ts
          BY <1>3, <1>11, <2>2, <3>1, <3>2
        <4>2. QED
          BY <2>1, <2>2, <2>3, <2>8, <3>1, <4>1 DEF Times
      <3>3. CASE next[q] # q
        <4>1. q > 1 /\ next[q] = q \div 2
          BY <1>6, <2>2, <3>3
        <4>2. s[q] = g[q \div 2]
          BY <1>11, <2>2, <3>1, <3>3, <4>1
        <4>3. g[q \div 2] <= g[q]
          BY <2>2, <2>4, <4>1
        <4>4. QED
          BY <2>1, <3>1, <4>2, <4>3
      <3>4. QED
        BY <3>2, <3>3
    <2>9. CASE p \in path /\ ~(g[q] > ts)
      <3>1. next[p] = p /\ s[p] = ts
        BY <1>3, <1>11, <2>2, <2>6, <2>9
      <3>2. q \notin path
        BY <2>2, <2>5, <2>9
      <3>3. s[q] = g[q]
        BY <1>11, <2>2, <3>2
      <3>4. QED
        BY <2>1, <2>2, <2>3, <2>9, <3>1, <3>3 DEF Times
    <2>10. QED
      BY <2>7, <2>8, <2>9
  <1>13. InHeapOrder(h) => InHeapOrder(s)
    BY <1>11, <1>12 DEF InHeapOrder
  <1>14. QED
    BY <1>1, <1>9, <1>11, <1>13

(* The last entry sinks from the place of one that is removed.  The heap is  *)
(* in order then unless it is earlier than the parent of that place, which  *)
(* Risky says; and the first entry is no earlier than the first before.     *)
LEMMA RemovedIs ==
  ASSUME NEW h \in Seq(Times), NEW i \in 1 .. Len(h)
  PROVE  /\ Removed(h, i) \in Seq(Times) /\ Len(Removed(h, i)) = Len(h) - 1
         /\ i > 1 => Removed(h, i)[1] = h[1]
         /\ InHeapOrder(h) /\ ~Risky(h, i) => InHeapOrder(Removed(h, i))
         /\ InHeapOrder(h) /\ Len(h) > 1 => h[1] <= Removed(h, i)[1]
  <1>1. PICK n \in Nat : n = Len(h) - 1
    OBVIOUS
  <1>2. PICK t : t = Shorter(h)
    OBVIOUS
  <1>3. t \in Seq(Times) /\ Len(t) = n /\ \A p \in 1 .. n : t[p] = h[p]
    BY <1>1, <1>2 DEF Shorter
  <1>4. \A p \in 1 .. n + 1 : h[p] \in Nat
    BY <1>1 DEF Times
  <1>5. CASE i = Len(h)
    <2>1. Removed(h, i) = t
      BY <1>2, <1>5 DEF Removed
    <2>2. i > 1 => n >= 1
      BY <1>1, <1>5
    <2>3. ASSUME InHeapOrder(h) PROVE InHeapOrder(t)
      <3>1. \A p \in 2 .. n : p \div 2 \in 1 .. n /\ p \in 1 .. n /\ p \in 2 .. Len(h)
        BY <1>1, Parents
      <3>2. QED
        BY <1>3, <2>3, <3>1 DEF InHeapOrder
    <2>4. Len(h) > 1 => n >= 1
      BY <1>1
    <2>5. QED
      BY <1>1, <1>3, <1>4, <2>1, <2>2, <2>3, <2>4
  <1>6. CASE i # Len(h)
    <2>1. i \in 1 .. n /\ n >= 1 /\ n + 1 = Len(h)
      BY <1>1, <1>6
    <2>2. PICK ts \in Times : ts = h[n + 1]
      BY <1>1
    <2>3. PICK g : g = Refilled(h, i)
      OBVIOUS
    <2>4. /\ g \in [1 .. n -> Times] /\ Len(g) = n
          /\ \A p \in 1 .. n : g[p] = IF p = i THEN ts ELSE h[p]
      <3>1. g = [t EXCEPT ![i] = ts]
        BY <1>2, <2>1, <2>2, <2>3 DEF Refilled
      <3>2. t \in [1 .. n -> Times]
        BY <1>3
      <3>3. g \in [1 .. n -> Times] /\ \A p \in 1 .. n : g[p] = IF p = i THEN ts ELSE h[p]
        BY <1>3, <2>1, <3>1, <3>2
      <3>4. \A m \in Nat : \A x \in [1 .. m -> Times] : Len(x) = m
        OBVIOUS
      <3>5. QED
        BY <3>3, <3>4
    <2>5. PICK next : next = Down(g, ts)
      OBVIOUS
    <2>6. PICK child : child = [p \in 1 .. n |-> Child(g, p)]
      OBVIOUS
    <2>7. \A p \in 1 .. n : p >= 1 /\ p \in Nat
      OBVIOUS
    <2>8. ASSUME NEW p \in 1 .. n
          PROVE  /\ child[p] \in Nat /\ child[p] \div 2 = p /\ child[p] > p
                 /\ 2 * p <= n => /\ child[p] \in 1 .. n
                                  /\ \A x \in 1 .. n : x \div 2 = p => g[child[p]] <= g[x]
      <3>1. p \in Nat /\ p >= 1
        OBVIOUS
      <3>2. child[p] = IF 2 * p + 1 <= n /\ g[2 * p] > g[2 * p + 1] THEN 2 * p + 1 ELSE 2 * p
        BY <2>4, <2>6 DEF Child
      <3>3. (2 * p) \div 2 = p /\ (2 * p + 1) \div 2 = p
        BY <3>1
      <3>4. \A x \in 1 .. n : g[x] \in Nat
        BY <2>4 DEF Times
      <3>5. ASSUME 2 * p <= n, NEW x \in 1 .. n, x \div 2 = p PROVE g[child[p]] <= g[x]
        <4>1. x = 2 * p \/ x = 2 * p + 1
          BY <3>1, <3>5
        <4>2. PICK a \in Nat, b \in Nat, c \in {child[p]} :
                   a = 2 * p /\ b = 2 * p + 1 /\ c = child[p]
          BY <3>1
        <4>3. a <= n /\ a \in 1 .. n /\ (x = a \/ x = b)
          BY <3>1, <3>5, <4>1, <4>2
        <4>4. c = IF b <= n /\ g[a] > g[b] THEN b ELSE a
          BY <3>2, <4>2
        <4>5. b <= n => b \in 1 .. n
          BY <3>1, <4>2
        <4>6. g[x] \in Nat /\ g[a] \in Nat /\ (b <= n => g[b] \in Nat)
          BY <3>4, <4>3, <4>5
        <4>7. g[c] <= g[x]
          BY <4>3, <4>4, <4>6
        <4>8. QED
          BY <4>2, <4>7
      <3>6. child[p] = 2 * p \/ (child[p] = 2 * p + 1 /\ 2 * p + 1 <= n)
        <4>1. PICK a \in Nat, b \in Nat, c \in {child[p]} :
                   a = 2 * p /\ b = 2 * p + 1 /\ c = child[p]
          BY <3>1
        <4>2. c = IF b <= n /\ g[a] > g[b] THEN b ELSE a
          BY <3>2, <4>1
        <4>3. c = a \/ (c = b /\ b <= n)
          BY <4>2
        <4>4. QED
          BY <4>1, <4>3
      <3>7. 2 * p <= n => child[p] \in 1 .. n
        BY <3>1, <3>6
      <3>8. child[p] \div 2 = p
        BY <3>3, <3>6
      <3>9. QED
        BY <3>5, <3>6, <3>7, <3>8
    <2>9. /\ next \in [1 .. n -> 1 .. n]
          /\ \A p \in 1 .. n :
               next[p] = IF 2 * p <= n /\ g[child[p]] < ts THEN child[p] ELSE p
      <3>1. next = [p \in 1 .. n |-> IF 2 * p <= n /\ g[child[p]] < ts THEN child[p] ELSE p]
        <4>1. DOMAIN g = 1 .. n
          BY <2>4
        <4>2. \A p \in 1 .. n : child[p] = Child(g, p)
          BY <2>6
        <4>3. QED
          BY <2>4, <2>5, <4>1, <4>2 DEF Down
      <3>2. \A p \in 1 .. n : 2 * p <= n => child[p] \in 1 .. n
        BY <2>8
      <3>3. QED
        BY <3>1, <3>2
    <2>10. PICK path : path = Path(next, i)
      OBVIOUS
    <2>11. /\ path \subseteq 1 .. n /\ i \in path
           /\ \A r \in path : next[r] \in path
           /\ \A p \in path \ {i} : \E r \in path : r # p /\ next[r] = p
      <3>1. PICK D : D = 1 .. n
        OBVIOUS
      <3>2. next \in [D -> D] /\ i \in D
        BY <2>1, <2>9, <3>1
      <3>3. QED
        BY <2>10, <3>1, <3>2, PathIs
    <2>12. PICK s : s = Removed(h, i)
      OBVIOUS
    <2>13. /\ s \in Seq(Times) /\ Len(s) = n
           /\ \A p \in 1 .. n : s[p] =
                IF p \notin path THEN g[p] ELSE IF next[p] = p THEN g[i] ELSE g[next[p]]
      <3>1. s = Sifted(g, next, i)
        BY <1>6, <2>1, <2>2, <2>3, <2>5, <2>12 DEF Removed
      <3>2. g \in [1 .. n -> Times] /\ next \in [1 .. n -> 1 .. n] /\ i \in 1 .. n
        BY <2>1, <2>4, <2>9
      <3>3. /\ Sifted(g, next, i) \in Seq(Times) /\ Len(Sifted(g, next, i)) = n
            /\ \A p \in 1 .. n : Sifted(g, next, i)[p] =
                 IF p \notin Path(next, i) THEN g[p]
                 ELSE IF next[p] = p THEN g[i] ELSE g[next[p]]
        BY <3>2, SiftedIs
      <3>4. QED
        BY <2>10, <3>1, <3>3
    <2>14. \A p \in 1 .. n : g[p] \in Nat /\ h[p] \in Nat /\ (p # i => g[p] = h[p]) /\ g[i] = ts
      BY <1>4, <2>1, <2>4 DEF Times
    <2>15. ASSUME NEW p \in path \ {i}
           PROVE  /\ p \div 2 \in path /\ p \div 2 # p /\ next[p \div 2] = p
                  /\ child[p \div 2] = p /\ g[p] < ts /\ p \div 2 < p
      <3>1. PICK x \in path : x # p /\ next[x] = p
        BY <2>11, <2>15
      <3>2. x \in 1 .. n /\ x \in Nat
        BY <2>11, <3>1
      <3>3. child[x] = p /\ g[child[x]] < ts
        BY <2>9, <3>1, <3>2
      <3>4. p \div 2 = x /\ x < p
        BY <2>8, <3>2, <3>3
      <3>5. QED
        BY <3>1, <3>3, <3>4
    <2>16. \A p \in path : p >= i
      <3>1. path # {} /\ path \subseteq Nat
        BY <2>11
      <3>2. PICK x \in path : \A y \in path : x <= y
        BY <3>1, LeastPlace
      <3>3. ASSUME x # i PROVE FALSE
        <4>1. x \div 2 \in path /\ x \div 2 < x
          BY <2>15, <3>2, <3>3
        <4>2. x <= x \div 2 /\ x \in Nat /\ x \div 2 \in Nat
          BY <3>1, <3>2, <4>1
        <4>3. QED
          BY <4>1, <4>2
      <3>4. QED
        BY <3>2, <3>3
    <2>17. ASSUME i > 1 PROVE s[1] = h[1]
      <3>1. 1 \in 1 .. n /\ 1 # i
        BY <2>1, <2>17
      <3>2. 1 \notin path
        BY <2>1, <2>16, <2>17
      <3>3. QED
        BY <2>13, <2>14, <3>1, <3>2
    <2>18. ASSUME InHeapOrder(h) PROVE h[1] <= s[1]
      <3>1. 1 \in 1 .. n /\ \A p \in 1 .. n + 1 : h[1] <= h[p]
        BY <2>1, <2>18, RootIsEarliest
      <3>2. next[1] \in 1 .. n
        BY <2>9, <3>1
      <3>3. s[1] \in {g[1], ts, g[next[1]]}
        BY <2>13, <2>14, <3>1
      <3>4. \A p \in 1 .. n : h[1] <= g[p]
        BY <2>2, <2>4, <3>1
      <3>5. h[1] <= ts
        BY <2>2, <3>1
      <3>6. QED
        BY <3>1, <3>2, <3>3, <3>4, <3>5
    <2>19. ASSUME InHeapOrder(h), ~Risky(h, i), NEW p \in 2 .. n PROVE s[p \div 2] <= s[p]
      <3>1. PICK q \in Nat : q = p \div 2 /\ q >= 1 /\ q < p /\ (p = 2 * q \/ p = 2 * q + 1)
        BY Parents
      <3>2. q \in 1 .. n /\ p \in 1 .. n /\ 2 * q <= n /\ q # p /\ p \in Nat
        BY <3>1
      <3>3. \A r \in 2 .. n : h[r \div 2] <= h[r]
        BY <2>1, <2>19 DEF InHeapOrder
      <3>4. h[q] <= h[p]
        BY <3>1, <3>3
      <3>5. \A x \in 1 .. n : x \div 2 = q => g[child[q]] <= g[x]
        BY <2>8, <3>2
      <3>6. child[q] \in 1 .. n /\ g[child[q]] \in Nat /\ g[child[q]] <= g[p]
        BY <2>8, <2>14, <3>1, <3>2
      <3>7. ts \in Nat
        BY <2>2 DEF Times
      <3>8. CASE p \notin path
        <4>1. p # i /\ s[p] = h[p] /\ g[p] = h[p]
          BY <2>11, <2>13, <2>14, <3>2, <3>8
        <4>2. CASE q \notin path
          <5>1. q # i /\ s[q] = h[q]
            BY <2>11, <2>13, <2>14, <3>2, <4>2
          <5>2. QED
            BY <3>1, <3>4, <4>1, <5>1
        <4>3. CASE q \in path /\ next[q] = q
          <5>1. s[q] = ts
            BY <2>13, <2>14, <3>2, <4>3
          <5>2. child[q] # q
            BY <2>8, <3>2
          <5>3. ~(g[child[q]] < ts)
            BY <2>9, <3>2, <4>3, <5>2
          <5>4. ts <= g[p]
            BY <2>14, <3>2, <3>6, <3>7, <5>3
          <5>5. QED
            BY <3>1, <4>1, <5>1, <5>4
        <4>4. CASE q \in path /\ next[q] # q
          <5>1. next[q] = child[q]
            BY <2>9, <3>2, <4>4
          <5>2. s[q] = g[child[q]]
            BY <2>13, <3>2, <4>4, <5>1
          <5>3. QED
            BY <3>1, <3>6, <4>1, <5>2
        <4>5. QED
          BY <4>2, <4>3, <4>4
      <3>9. ASSUME p \in path, next[p] # p PROVE s[p] = h[next[p]] /\ h[p] <= h[next[p]]
        <4>1. next[p] = child[p] /\ 2 * p <= n
          BY <2>9, <3>2, <3>9
        <4>2. child[p] \in 1 .. n /\ child[p] \div 2 = p /\ child[p] > p
          BY <2>8, <3>2, <4>1
        <4>3. child[p] # i /\ child[p] \in 2 .. n
          BY <2>1, <2>16, <3>2, <3>9, <4>2
        <4>4. s[p] = g[child[p]] /\ g[child[p]] = h[child[p]]
          BY <2>13, <2>14, <3>2, <3>9, <4>1, <4>2, <4>3
        <4>5. QED
          BY <3>3, <4>1, <4>2, <4>3, <4>4
      <3>10. p \in path /\ next[p] = p => s[p] = ts
        BY <2>13, <2>14, <3>2
      <3>11. next[p] \in 1 .. n /\ h[next[p]] \in Nat /\ h[p] \in Nat /\ h[q] \in Nat
        BY <2>9, <2>14, <3>2
      <3>12. CASE p \in path /\ p # i
        <4>1. q \in path /\ next[q] = p /\ g[p] < ts
          BY <2>15, <3>1, <3>12
        <4>2. s[q] = h[p] /\ g[p] = h[p]
          BY <2>13, <2>14, <3>2, <3>12, <4>1
        <4>3. CASE next[p] = p
          BY <3>1, <3>7, <3>10, <3>11, <3>12, <4>1, <4>2, <4>3
        <4>4. CASE next[p] # p
          BY <3>1, <3>9, <3>12, <4>2, <4>4
        <4>5. QED
          BY <4>3, <4>4
      <3>13. CASE p = i
        <4>1. q \notin path /\ q # i
          BY <2>1, <2>16, <3>1, <3>2, <3>13
        <4>2. s[q] = h[q] /\ p \in path
          BY <2>11, <2>13, <2>14, <3>2, <3>13, <4>1
        <4>3. CASE next[p] # p
          BY <3>1, <3>4, <3>9, <3>11, <4>2, <4>3
        <4>4. CASE next[p] = p
          <5>1. CASE p <= 3
            <6>1. q = 1
              BY <3>1, <3>2, <5>1
            <6>2. h[1] <= h[n + 1]
              BY <2>1, <2>19, RootIsEarliest
            <6>3. QED
              BY <2>2, <3>1, <3>10, <4>2, <4>4, <6>1, <6>2
          <5>2. CASE p >= 4
            <6>1. n + 1 < 6
              BY <2>1, <2>19, <3>13, <5>2 DEF Risky
            <6>2. p = 4 /\ n = 4
              BY <3>2, <5>2, <6>1
            <6>3. q = 2 /\ 5 \in 2 .. Len(h) /\ 5 \div 2 = 2
              <7>1. 4 \div 2 = 2 /\ 5 \div 2 = 2
                OBVIOUS
              <7>2. Len(h) = 5
                BY <2>1, <6>2
              <7>3. QED
                BY <3>1, <6>2, <7>1, <7>2
            <6>4. h[2] <= h[5]
              BY <2>19, <6>3 DEF InHeapOrder
            <6>5. QED
              BY <2>2, <3>1, <3>10, <4>2, <4>4, <6>2, <6>3, <6>4
          <5>3. QED
            BY <3>2, <5>1, <5>2
        <4>5. QED
          BY <4>3, <4>4
      <3>14. QED
        BY <3>8, <3>12, <3>13
    <2>20. InHeapOrder(h) /\ ~Risky(h, i) => InHeapOrder(s)
      BY <2>13, <2>19 DEF InHeapOrder
    <2>21. QED
      BY <1>1, <2>12, <2>13, <2>17, <2>18, <2>20
  <1>7. QED
    BY <1>5, <1>6
-----------------------------------------------------------------------------
(* The values of the variables.                                            *)
SqType ==
  /\ heap \in Seq(Times) /\ now \in Times /\ sched \in Nat /\ due \in Nat
  /\ sndPc \in {"next", "idle", "check", "sleep", "pop", "wait", "done"}
  /\ ringing \in BOOLEAN /\ sndClosing \in BOOLEAN
  /\ skewed \in BOOLEAN /\ missed \in BOOLEAN

(* What the worker read is not past the first entry, or it missed a change. *)
DueFirst == sndPc = "check" => heap = <<>> \/ due <= heap[1] \/ missed \/ skewed

(* Removals may have put the heap out of order; otherwise it is ordered, and *)
(* the worker wakes for its first entry.                                   *)
SqInv ==
  /\ SqType /\ (skewed \/ InHeapOrder(heap))
  /\ WorkerAwake /\ DueFirst

(* The heap starts empty.                                                  *)
LEMMA SqInitInv == SqInit => SqInv
  <1> SUFFICES ASSUME SqInit PROVE SqInv
    OBVIOUS
  <1>1. SqType
    <2>1. <<>> \in Seq(Times) /\ 1 \in Times /\ 0 \in Nat
      BY DEF Times
    <2>2. QED
      BY <2>1 DEF SqInit, SqType
  <1>2. InHeapOrder(heap)
    BY DEF SqInit, InHeapOrder
  <1>3. QED
    BY <1>1, <1>2 DEF SqInit, SqInv, WorkerAwake, DueFirst

(* A call on the heap says of the first entry that it is no earlier than    *)
(* before, or it interrupts the timer.                                     *)
Sooner == heap' # <<>> => heap # <<>> /\ (heap[1] <= heap'[1] \/ skewed')

(* A call that changes the heap and either interrupts the timer or does not  *)
(* make the first entry earlier.                                           *)
LEMMA HeapCall ==
  ASSUME SqInv, heap' \in Seq(Times), skewed' \in BOOLEAN, ringing' \in BOOLEAN,
         skewed' \/ InHeapOrder(heap'), skewed => skewed' \/ heap' = <<>> \/ Interrupt,
         sndPc = "wait" => heap' = <<>> \/ ringing',
         Interrupt \/ (NoInterrupt /\ Sooner),
         UNCHANGED <<now, sndPc, due, sndClosing>>
  PROVE  SqInv'
  <1>1. SqType /\ now \in Nat /\ WorkerAwake /\ DueFirst
    BY DEF SqInv, SqType, Times
  <1>2. sched' \in Nat /\ missed' \in BOOLEAN
    <2>1. CASE Interrupt
      BY <1>1, <2>1 DEF SqType, Interrupt
    <2>2. CASE NoInterrupt
      BY <1>1, <2>2 DEF SqType, NoInterrupt
    <2>3. QED
      BY <2>1, <2>2
  <1>3. SqType'
    BY <1>1, <1>2 DEF SqType
  <1>4. heap = <<>> \/ heap[1] \in Nat
    BY <1>1 DEF SqType, Times
  <1>5. heap' = <<>> \/ heap'[1] \in Nat
    BY <1>3 DEF SqType, Times
  <1>6. DueFirst'
    <2>1. SUFFICES ASSUME sndPc = "check", heap' # <<>>
                   PROVE  due <= heap'[1] \/ missed' \/ skewed'
      BY DEF DueFirst
    <2>2. CASE Interrupt
      BY <2>1, <2>2 DEF Interrupt
    <2>3. CASE ~Interrupt
      <3>1. missed' = missed /\ Sooner
        BY <2>3 DEF NoInterrupt
      <3>2. heap # <<>> /\ (heap[1] <= heap'[1] \/ skewed')
        BY <2>1, <3>1 DEF Sooner
      <3>3. due <= heap[1] \/ missed \/ skewed
        BY <1>1, <2>1, <3>2 DEF DueFirst
      <3>4. due \in Nat
        BY <1>1 DEF SqType
      <3>5. QED
        BY <1>4, <1>5, <2>1, <2>3, <3>1, <3>2, <3>3, <3>4
    <2>4. QED
      BY <2>2, <2>3
  <1>7. WorkerAwake'
    <2>1. sndPc = "wait" => ~sndClosing /\ (heap' = <<>> \/ ringing')
      BY <1>1 DEF WorkerAwake
    <2>2. ASSUME sndPc = "sleep", heap' # <<>>
          PROVE  sched' <= now \/ sched' <= heap'[1] \/ missed' \/ skewed'
      <3>1. CASE Interrupt
        BY <1>1, <3>1 DEF Interrupt
      <3>2. CASE ~Interrupt
        <4>1. missed' = missed /\ sched' = sched /\ Sooner
          BY <3>2 DEF NoInterrupt
        <4>2. heap # <<>> /\ (heap[1] <= heap'[1] \/ skewed')
          BY <2>2, <4>1 DEF Sooner
        <4>3. sched <= now \/ sched <= heap[1] \/ missed \/ skewed
          BY <1>1, <2>2, <4>2 DEF WorkerAwake
        <4>4. sched \in Nat
          BY <1>1 DEF SqType
        <4>5. QED
          BY <1>4, <1>5, <2>2, <3>2, <4>1, <4>2, <4>3, <4>4
      <3>3. QED
        BY <3>1, <3>2
    <2>3. QED
      BY <2>1, <2>2 DEF WorkerAwake
  <1>8. QED
    BY <1>3, <1>6, <1>7 DEF SqInv

(* remove_ leaves the heap in order, or says that it may not have.          *)
LEMMA RemoveCall ==
  ASSUME SqInv, NEW i \in 1 .. Len(heap), Skew(heap, i)
  PROVE  /\ Removed(heap, i) \in Seq(Times) /\ Len(Removed(heap, i)) = Len(heap) - 1
         /\ skewed' \in BOOLEAN /\ (skewed' \/ InHeapOrder(Removed(heap, i)))
         /\ skewed => skewed' \/ Len(heap) <= 2
         /\ i > 1 => Removed(heap, i)[1] = heap[1]
         /\ Len(heap) > 2 => skewed' \/ heap[1] <= Removed(heap, i)[1]
  <1>1. /\ heap \in Seq(Times) /\ skewed \in BOOLEAN /\ (skewed \/ InHeapOrder(heap))
        /\ Len(heap) \in Nat
    BY DEF SqInv, SqType
  <1>2. PICK r : r = Removed(heap, i)
    OBVIOUS
  <1>3. /\ r \in Seq(Times) /\ Len(r) = Len(heap) - 1
        /\ i > 1 => r[1] = heap[1]
        /\ InHeapOrder(heap) /\ ~Risky(heap, i) => InHeapOrder(r)
        /\ InHeapOrder(heap) /\ Len(heap) > 1 => heap[1] <= r[1]
    BY <1>1, <1>2, RemovedIs
  <1>4. skewed' = ((skewed \/ Risky(heap, i)) /\ Len(heap) > 2)
    BY DEF Skew
  <1>5. skewed' \in BOOLEAN /\ (skewed => skewed' \/ Len(heap) <= 2)
    BY <1>1, <1>4
  <1>6. CASE Len(heap) > 2
    <2>1. ~skewed' => InHeapOrder(heap) /\ ~Risky(heap, i)
      BY <1>1, <1>4, <1>6
    <2>2. Len(heap) > 1
      BY <1>1, <1>6
    <2>3. QED
      BY <1>2, <1>3, <1>5, <2>1, <2>2
  <1>7. CASE ~(Len(heap) > 2)
    <2>1. InHeapOrder(r)
      BY <1>1, <1>3, <1>7 DEF InHeapOrder
    <2>2. QED
      BY <1>2, <1>3, <1>5, <1>7, <2>1
  <1>8. QED
    BY <1>6, <1>7

(* Calls of the other threads.                                             *)
LEMMA CallsInv ==
  ASSUME SqInv,
         Schedule \/ Unlisted \/ \E i \in DOMAIN heap : Reschedule(i) \/ Unschedule(i)
  PROVE  SqInv'
  <1>1. heap \in Seq(Times) /\ Len(heap) \in Nat /\ DOMAIN heap = 1 .. Len(heap)
    BY DEF SqInv, SqType
  <1>2. skewed \in BOOLEAN /\ ringing \in BOOLEAN /\ (skewed \/ InHeapOrder(heap))
    BY DEF SqInv, SqType
  <1>3. ListFree /\ (sndPc = "wait" => heap = <<>>)
    BY DEF Schedule, Unlisted, Reschedule, Unschedule, ListFree, SqInv, WorkerAwake
  <1>4. \A x \in Seq(Times) : x = <<>> <=> Len(x) = 0
    OBVIOUS
  <1>5. 1 \in Times
    BY DEF Times
  <1>6. CASE Schedule
    <2>1. PICK s : s = Inserted(heap, 1)
      OBVIOUS
    <2>2. s \in Seq(Times) /\ Len(s) = Len(heap) + 1 /\ (InHeapOrder(heap) => InHeapOrder(s))
      BY <1>1, <1>5, <2>1, InsertedIs
    <2>3. /\ heap' = s /\ ringing' = (heap = <<>>) /\ skewed' = skewed
          /\ UNCHANGED <<now, sndPc, due, sndClosing>>
      BY <1>6, <2>1 DEF Schedule, insert_
    <2>4. Interrupt \/ (NoInterrupt /\ heap # <<>> /\ s[1] = heap[1])
      BY <1>6, <2>1 DEF Schedule, insert_, TakesRoot
    <2>5. Interrupt \/ (NoInterrupt /\ Sooner)
      <3>1. heap # <<>> => heap[1] <= heap[1]
        BY <1>1 DEF Times
      <3>2. QED
        BY <2>3, <2>4, <3>1 DEF Sooner
    <2>6. ringing' \in BOOLEAN /\ (sndPc = "wait" => ringing')
      BY <1>3, <2>3
    <2>7. QED
      BY <1>2, <2>2, <2>3, <2>5, <2>6, HeapCall
  <1>7. CASE Unlisted
    <2>1. Interrupt /\ UNCHANGED <<heap, now, sndPc, due, ringing, sndClosing, skewed>>
      BY <1>7 DEF Unlisted
    <2>2. InHeapOrder(heap) => InHeapOrder(heap')
      BY <2>1 DEF InHeapOrder
    <2>3. QED
      BY <1>1, <1>2, <1>3, <2>1, <2>2, HeapCall
  <1>8. ASSUME NEW i \in 1 .. Len(heap), Unschedule(i) PROVE SqInv'
    <2>1. /\ heap' = Removed(heap, i) /\ Skew(heap, i) /\ ringing' = ringing
          /\ UNCHANGED <<now, sndPc, due, sndClosing>>
          /\ IF Len(heap) = 2 THEN Interrupt ELSE NoInterrupt
      BY <1>8 DEF Unschedule, remove_
    <2>2. /\ heap' \in Seq(Times) /\ Len(heap') = Len(heap) - 1
          /\ skewed' \in BOOLEAN /\ (skewed' \/ InHeapOrder(heap'))
          /\ skewed => skewed' \/ Len(heap) <= 2
          /\ Len(heap) > 2 => skewed' \/ heap[1] <= heap'[1]
      BY <1>8, <2>1, RemoveCall
    <2>3. heap # <<>> /\ (heap' = <<>> <=> Len(heap) = 1)
      BY <1>1, <1>4, <1>8, <2>2
    <2>4. Len(heap) = 1 \/ Len(heap) = 2 \/ Len(heap) > 2
      BY <1>1, <1>8
    <2>5. skewed => skewed' \/ heap' = <<>> \/ Interrupt
      BY <1>1, <2>1, <2>2, <2>3, <2>4
    <2>6. Interrupt \/ (NoInterrupt /\ Sooner)
      <3>1. CASE Len(heap) = 2
        BY <2>1, <3>1
      <3>2. CASE Len(heap) = 1
        BY <1>1, <2>1, <2>3, <3>2 DEF Sooner
      <3>3. CASE Len(heap) > 2
        BY <1>1, <2>1, <2>2, <2>3, <3>3 DEF Sooner
      <3>4. QED
        BY <2>4, <3>1, <3>2, <3>3
    <2>7. QED
      BY <1>2, <1>3, <2>1, <2>2, <2>3, <2>5, <2>6, HeapCall
  <1>9. ASSUME NEW i \in 1 .. Len(heap), Reschedule(i), i = 1 PROVE SqInv'
    <2>1. /\ heap' = [heap EXCEPT ![1] = 1] /\ Interrupt
          /\ UNCHANGED <<now, sndPc, due, ringing, sndClosing, skewed>>
      BY <1>9 DEF Reschedule
    <2>2. heap' \in Seq(Times) /\ Len(heap') = Len(heap) /\ heap # <<>>
      BY <1>1, <1>5, <1>9, <2>1
    <2>3. InHeapOrder(heap) => InHeapOrder(heap')
      <3>1. \A p \in 1 .. Len(heap) : heap[p] \in Nat /\ heap[p] >= 1
                                      /\ heap'[p] = IF p = 1 THEN 1 ELSE heap[p]
        BY <1>1, <2>1 DEF Times
      <3>2. \A p \in 2 .. Len(heap) : p \div 2 \in 1 .. Len(heap) /\ p \in 1 .. Len(heap) /\ p # 1
        BY <1>1, Parents
      <3>3. ASSUME InHeapOrder(heap), NEW p \in 2 .. Len(heap) PROVE heap'[p \div 2] <= heap'[p]
        <4>1. heap[p \div 2] <= heap[p]
          BY <3>3 DEF InHeapOrder
        <4>2. PICK q \in 1 .. Len(heap) : q = p \div 2
          BY <3>2
        <4>3. QED
          BY <3>1, <3>2, <4>1, <4>2
      <3>4. QED
        BY <2>2, <3>3 DEF InHeapOrder
    <2>4. QED
      BY <1>2, <1>3, <2>1, <2>2, <2>3, HeapCall
  <1>10. ASSUME NEW i \in 1 .. Len(heap), Reschedule(i), i # 1 PROVE SqInv'
    <2>1. PICK r : r = Removed(heap, i)
      OBVIOUS
    <2>2. PICK s : s = Inserted(r, 1)
      OBVIOUS
    <2>3. /\ insert_(r, 1, Len(heap) = 2) /\ Skew(heap, i)
          /\ UNCHANGED <<now, sndPc, due, sndClosing>>
      BY <1>10, <2>1 DEF Reschedule
    <2>4. /\ r \in Seq(Times) /\ Len(r) = Len(heap) - 1 /\ r[1] = heap[1]
          /\ skewed' \in BOOLEAN /\ (skewed' \/ InHeapOrder(r))
          /\ skewed => skewed' \/ Len(heap) <= 2
      BY <1>10, <2>1, <2>3, RemoveCall
    <2>5. s \in Seq(Times) /\ Len(s) = Len(heap) /\ (InHeapOrder(r) => InHeapOrder(s))
      BY <1>1, <1>5, <2>2, <2>4, InsertedIs
    <2>6. heap' = s /\ ringing' = (r = <<>>) /\ heap # <<>>
      BY <1>10, <2>2, <2>3 DEF insert_
    <2>7. Interrupt \/ (NoInterrupt /\ r # <<>> /\ s[1] = r[1] /\ Len(heap) # 2)
      BY <2>2, <2>3 DEF insert_, TakesRoot
    <2>8. Len(heap) >= 2
      BY <1>1, <1>10
    <2>9. skewed => skewed' \/ Interrupt
      BY <1>1, <2>4, <2>7, <2>8
    <2>10. heap[1] <= heap[1]
      BY <1>1, <2>6 DEF Times
    <2>11. Interrupt \/ (NoInterrupt /\ Sooner)
      BY <2>4, <2>6, <2>7, <2>10 DEF Sooner
    <2>12. QED
      BY <1>3, <2>3, <2>4, <2>5, <2>6, <2>9, <2>11, HeapCall
  <1>11. QED
    BY <1>1, <1>6, <1>7, <1>8, <1>9, <1>10

(* The worker, the signal and the end.                                     *)
LEMMA WorkerInv ==
  ASSUME SqInv,
         Signal \/ CloseQueue \/ ClockTick \/ getNextProcTime \/ Wait \/ SleepTo \/ Wake
  PROVE  SqInv'
  <1>1. SqType /\ (skewed \/ InHeapOrder(heap)) /\ WorkerAwake /\ DueFirst
    BY DEF SqInv
  <1>2. heap' = heap /\ skewed' = skewed /\ (InHeapOrder(heap) => InHeapOrder(heap'))
    BY DEF Signal, CloseQueue, ClockTick, getNextProcTime, Wait, SleepTo, Wake, InHeapOrder
  <1>3. now \in Nat /\ now # 0 /\ heap \in Seq(Times) /\ (heap # <<>> => heap[1] \in Nat)
    BY <1>1 DEF SqType, Times
  <1>4. CASE Signal
    <2>1. SqType'
      BY <1>1, <1>4 DEF Signal, SqType
    <2>2. WorkerAwake' /\ DueFirst'
      BY <1>1, <1>4 DEF Signal, WorkerAwake, DueFirst, SqType
    <2>3. QED
      BY <1>1, <1>2, <2>1, <2>2 DEF SqInv
  <1>5. CASE CloseQueue
    <2>1. SqType'
      BY <1>1, <1>5 DEF CloseQueue, SqType
    <2>2. WorkerAwake' /\ DueFirst'
      BY <1>1, <1>5 DEF CloseQueue, WorkerAwake, DueFirst, SqType
    <2>3. QED
      BY <1>1, <1>2, <2>1, <2>2 DEF SqInv
  <1>6. CASE ClockTick
    <2>1. SqType'
      BY <1>1, <1>3, <1>6 DEF ClockTick, SqType, Times
    <2>2. sched \in Nat
      BY <1>1 DEF SqType
    <2>3. WorkerAwake' /\ DueFirst'
      BY <1>1, <1>3, <1>6, <2>2 DEF ClockTick, WorkerAwake, DueFirst
    <2>4. QED
      BY <1>1, <1>2, <2>1, <2>3 DEF SqInv
  <1>7. CASE getNextProcTime
    <2>1. due' \in Nat
      BY <1>1, <1>3, <1>7 DEF getNextProcTime, SqType
    <2>2. SqType'
      BY <1>1, <1>7, <2>1 DEF getNextProcTime, SqType
    <2>3. DueFirst'
      BY <1>3, <1>7 DEF getNextProcTime, DueFirst
    <2>4. WorkerAwake'
      BY <1>7 DEF getNextProcTime, WorkerAwake
    <2>5. QED
      BY <1>1, <1>2, <2>2, <2>3, <2>4 DEF SqInv
  <1>8. CASE Wait
    <2>1. SqType'
      BY <1>1, <1>8 DEF Wait, SqType
    <2>2. WorkerAwake' /\ DueFirst'
      BY <1>8 DEF Wait, StillEmpty, NothingToSend, WorkerAwake, DueFirst
    <2>3. QED
      BY <1>1, <1>2, <2>1, <2>2 DEF SqInv
  <1>9. CASE SleepTo
    <2>1. SqType'
      BY <1>1, <1>9 DEF SleepTo, SqType
    <2>2. WorkerAwake' /\ DueFirst'
      BY <1>1, <1>9 DEF SleepTo, WorkerAwake, DueFirst
    <2>3. QED
      BY <1>1, <1>2, <2>1, <2>2 DEF SqInv
  <1>10. CASE Wake
    <2>1. SqType'
      BY <1>1, <1>10 DEF Wake, SqType
    <2>2. WorkerAwake' /\ DueFirst'
      BY <1>10 DEF Wake, WorkerAwake, DueFirst
    <2>3. QED
      BY <1>1, <1>2, <2>1, <2>2 DEF SqInv
  <1>11. QED
    BY <1>4, <1>5, <1>6, <1>7, <1>8, <1>9, <1>10

(* pop, after which the worker begins again.                               *)
LEMMA PopInv ==
  ASSUME SqInv, pop
  PROVE  SqInv'
  <1>1. /\ SqType /\ (skewed \/ InHeapOrder(heap)) /\ sndPc' = "next"
        /\ UNCHANGED <<now, due, sndClosing>>
    BY DEF SqInv, pop
  <1>2. heap \in Seq(Times) /\ Len(heap) \in Nat /\ DOMAIN heap = 1 .. Len(heap)
    BY <1>1 DEF SqType
  <1>3. SUFFICES /\ heap' \in Seq(Times) /\ skewed' \in BOOLEAN /\ ringing' \in BOOLEAN
                 /\ skewed' \/ InHeapOrder(heap')
                 /\ sched' \in Nat /\ missed' \in BOOLEAN
    BY <1>1 DEF SqInv, SqType, WorkerAwake, DueFirst
  <1>4. ASSUME Interrupt \/ NoInterrupt PROVE sched' \in Nat /\ missed' \in BOOLEAN
    <2>1. CASE Interrupt
      BY <1>1, <2>1 DEF SqType, Interrupt, Times
    <2>2. CASE NoInterrupt
      BY <1>1, <2>2 DEF SqType, NoInterrupt
    <2>3. QED
      BY <1>4, <2>1, <2>2
  <1>5. CASE \A i \in DOMAIN heap : heap[1] > now
    <2>1. UNCHANGED <<heap, sched, ringing, skewed, missed>>
      BY <1>5 DEF pop
    <2>2. InHeapOrder(heap) => InHeapOrder(heap')
      BY <2>1 DEF InHeapOrder
    <2>3. QED
      BY <1>1, <2>1, <2>2 DEF SqType
  <1>6. CASE ~\A i \in DOMAIN heap : heap[1] > now
    <2>1. 1 \in 1 .. Len(heap)
      BY <1>2, <1>6
    <2>2. CASE remove_(1) /\ UNCHANGED ringing
      <3>1. /\ heap' = Removed(heap, 1) /\ Skew(heap, 1) /\ (Interrupt \/ NoInterrupt)
            /\ ringing' = ringing
        BY <2>2 DEF remove_
      <3>2. heap' \in Seq(Times) /\ skewed' \in BOOLEAN /\ (skewed' \/ InHeapOrder(heap'))
        BY <2>1, <3>1, RemoveCall
      <3>3. QED
        BY <1>1, <1>4, <3>1, <3>2 DEF SqType
    <2>3. ASSUME NEW ts \in now .. MaxTime,
                 insert_(Removed(heap, 1), ts, Len(heap) = 2), Skew(heap, 1)
          PROVE  /\ heap' \in Seq(Times) /\ skewed' \in BOOLEAN /\ ringing' \in BOOLEAN
                 /\ skewed' \/ InHeapOrder(heap')
                 /\ sched' \in Nat /\ missed' \in BOOLEAN
      <3>1. ts \in Times
        BY <1>1, <2>3, SndQueueAssumption DEF SqType, Times
      <3>2. PICK r : r = Removed(heap, 1)
        OBVIOUS
      <3>3. r \in Seq(Times) /\ skewed' \in BOOLEAN /\ (skewed' \/ InHeapOrder(r))
        BY <2>1, <2>3, <3>2, RemoveCall
      <3>4. heap' = Inserted(r, ts) /\ ringing' = (r = <<>>) /\ (Interrupt \/ NoInterrupt)
        BY <2>3, <3>2 DEF insert_
      <3>5. heap' \in Seq(Times) /\ (InHeapOrder(r) => InHeapOrder(heap'))
        BY <3>1, <3>3, <3>4, InsertedIs
      <3>6. QED
        BY <1>4, <3>3, <3>4, <3>5
    <2>4. QED
      BY <1>6, <2>2, <2>3 DEF pop
  <1>7. QED
    BY <1>5, <1>6

(* For every number of sockets: the heap is in order unless a removal may    *)
(* have put it out of order, and the worker's reading of it is not too late. *)
THEOREM SqInvariance == SqSpec => []SqInv
  <1>1. SqInit => SqInv
    BY SqInitInv
  <1>2. SqInv /\ [SqNext]_sqVars => SqInv'
    <2> SUFFICES ASSUME SqInv, [SqNext]_sqVars PROVE SqInv'
      OBVIOUS
    <2>1. CASE Schedule \/ Unlisted \/ \E i \in DOMAIN heap : Reschedule(i) \/ Unschedule(i)
      BY <2>1, CallsInv
    <2>2. CASE Signal \/ CloseQueue \/ ClockTick \/ getNextProcTime \/ Wait \/ SleepTo \/ Wake
      BY <2>2, WorkerInv
    <2>3. CASE pop
      BY <2>3, PopInv
    <2>4. CASE UNCHANGED sqVars
      <3>1. UNCHANGED <<heap, now, sched, sndPc, due, ringing, sndClosing, skewed, missed>>
        BY <2>4 DEF sqVars
      <3>2. SqType' /\ (InHeapOrder(heap) => InHeapOrder(heap'))
        BY <3>1 DEF SqInv, SqType, InHeapOrder
      <3>3. WorkerAwake' /\ DueFirst'
        BY <3>1 DEF SqInv, WorkerAwake, DueFirst
      <3>4. QED
        BY <3>1, <3>2, <3>3 DEF SqInv
    <2>5. QED
      BY <2>1, <2>2, <2>3, <2>4 DEF SqNext
  <1>3. QED
    BY <1>1, <1>2, PTL DEF SqSpec

(* The first entry of CSndUList's heap is the earliest, unless a removal     *)
(* that only sifts down may have put it out of order.                      *)
THEOREM AlwaysEarliest == SqSpec => []FirstIsEarliest
  <1>1. SqInv => FirstIsEarliest
    <2> SUFFICES ASSUME SqInv, ~skewed, NEW i \in DOMAIN heap PROVE heap[1] <= heap[i]
      BY DEF FirstIsEarliest
    <2>1. heap \in Seq(Times) /\ InHeapOrder(heap) /\ i \in 1 .. Len(heap)
      BY DEF SqInv, SqType
    <2>2. QED
      BY <2>1, RootIsEarliest
  <1>2. QED
    BY <1>1, SqInvariance, PTL

(* CSndQueue's worker neither waits with a socket listed nor sleeps past the  *)
(* first entry.                                                            *)
THEOREM AlwaysAwake == SqSpec => []WorkerAwake
  <1>1. SqInv => WorkerAwake
    BY DEF SqInv
  <1>2. QED
    BY <1>1, SqInvariance, PTL

-----------------------------------------------------------------------------
(* CCache.                                                                 *)

(* The keys of the buckets.                                                *)
Keys == 0 .. HashLen - 1

(* The newest first.                                                       *)
Falling(l) == \A i, j \in 1 .. Len(l) : i < j => l[i] > l[j]

(* No update of the same address came after number n.                      *)
IsLatest(n) == \A m \in 1 .. Len(owner) : owner[m] = owner[n] => m <= n

(* The values of the variables.                                            *)
PcType ==
  /\ storage \in Seq(Nat) /\ owner \in Seq({a \in Addresses : a >= 0})
  /\ hashPtr \in [Keys -> Seq(Nat)] /\ spoiled \subseteq Keys

(* m_StorageList holds numbers of updates, the newest first.                *)
StorageInv ==
  /\ Falling(storage) /\ Len(storage) < MaxSize
  /\ \A n \in Nat : Contains(storage, n) => n \in 1 .. Len(owner)

(* A bucket that no overflow has touched holds just the nodes of its key,   *)
(* and they are the latest of their addresses.                             *)
BucketInv ==
  \A k \in Keys \ spoiled :
    /\ Falling(hashPtr[k])
    /\ \A n \in Nat : Contains(hashPtr[k], n) <=> Contains(storage, n) /\ KeyOf(owner[n]) = k
(* What is stored in a bucket no overflow has touched is the latest.        *)
LatestInv ==
  \A n \in Nat : Contains(storage, n) /\ KeyOf(owner[n]) \notin spoiled => IsLatest(n)

(* What the list has lost is older than all it has.                        *)
LeftInv ==
  spoiled = {} =>
    \A m \in 1 .. Len(owner) : IsLatest(m) /\ ~Contains(storage, m) =>
      Len(storage) = MaxSize - 1 /\ \A n \in Nat : Contains(storage, n) => m < n

(* The invariant.                                                          *)
PcInv == PcType /\ StorageInv /\ BucketInv /\ LatestInv /\ LeftInv
-----------------------------------------------------------------------------
(* Lists of numbers that fall.                                             *)

(* The places of two lists, one after the other.                           *)
LEMMA OneAfterOther ==
  ASSUME NEW S, NEW a \in Seq(S), NEW b \in Seq(S)
  PROVE  /\ a \o b \in Seq(S) /\ Len(a \o b) = Len(a) + Len(b)
         /\ \A k \in 1 .. Len(a) + Len(b) :
              (a \o b)[k] = IF k <= Len(a) THEN a[k] ELSE b[k - Len(a)]
  OBVIOUS

(* A list without the entry at one of its places.                          *)
LEMMA ErasedPlaces ==
  ASSUME NEW l \in Seq(Nat), NEW i \in 1 .. Len(l)
  PROVE  /\ RemoveAt(l, i) \in Seq(Nat) /\ Len(RemoveAt(l, i)) = Len(l) - 1
         /\ \A k \in 1 .. Len(l) - 1 : RemoveAt(l, i)[k] = IF k < i THEN l[k] ELSE l[k + 1]
  <1>1. PICK n \in Nat : n = Len(l)
    OBVIOUS
  <1>2. PICK a : a = SubSeq(l, 1, i - 1)
    OBVIOUS
  <1>3. PICK b : b = SubSeq(l, i + 1, Len(l))
    OBVIOUS
  <1>4. a \in Seq(Nat) /\ Len(a) = i - 1 /\ \A k \in 1 .. i - 1 : a[k] = l[k]
    BY <1>2
  <1>5. b \in Seq(Nat) /\ Len(b) = n - i /\ \A k \in 1 .. n - i : b[k] = l[k + i]
    BY <1>1, <1>3
  <1>6. PICK r : r = a \o b
    OBVIOUS
  <1>7. RemoveAt(l, i) = r
    BY <1>2, <1>3, <1>6 DEF RemoveAt
  <1>8. /\ r \in Seq(Nat) /\ Len(r) = Len(a) + Len(b)
        /\ \A k \in 1 .. Len(a) + Len(b) : r[k] = IF k <= Len(a) THEN a[k] ELSE b[k - Len(a)]
    BY <1>4, <1>5, <1>6, OneAfterOther
  <1>9. Len(a) + Len(b) = n - 1
    BY <1>1, <1>4, <1>5
  <1>10. ASSUME NEW k \in 1 .. n - 1 PROVE r[k] = IF k < i THEN l[k] ELSE l[k + 1]
    <2>1. CASE k < i
      <3>1. k \in 1 .. i - 1 /\ k <= Len(a) /\ k \in 1 .. Len(a) + Len(b)
        BY <1>4, <1>9, <2>1
      <3>2. QED
        BY <1>4, <1>8, <2>1, <3>1
    <2>2. CASE ~(k < i)
      <3>1. /\ ~(k <= Len(a)) /\ k \in 1 .. Len(a) + Len(b)
            /\ k - Len(a) \in 1 .. n - i /\ (k - Len(a)) + i = k + 1
        BY <1>1, <1>4, <1>9, <2>2
      <3>2. QED
        BY <1>5, <1>8, <2>2, <3>1
    <2>3. QED
      BY <2>1, <2>2
  <1>11. QED
    BY <1>1, <1>7, <1>8, <1>9, <1>10

(* It falls if the list does, and has all but that entry.                   *)
LEMMA ErasedIs ==
  ASSUME NEW l \in Seq(Nat), Falling(l), NEW i \in 1 .. Len(l)
  PROVE  /\ RemoveAt(l, i) \in Seq(Nat) /\ Falling(RemoveAt(l, i))
         /\ Len(RemoveAt(l, i)) = Len(l) - 1
         /\ \A x : Contains(RemoveAt(l, i), x) <=> Contains(l, x) /\ x # l[i]
  <1>1. PICK n \in Nat : n = Len(l)
    OBVIOUS
  <1>2. PICK r : r = RemoveAt(l, i)
    OBVIOUS
  <1>3. /\ r \in Seq(Nat) /\ Len(r) = n - 1 /\ n - 1 \in Nat /\ i \in 1 .. n
        /\ \A k \in 1 .. n - 1 : r[k] = IF k < i THEN l[k] ELSE l[k + 1]
    <2>1. /\ r \in Seq(Nat) /\ Len(r) = Len(l) - 1
          /\ \A k \in 1 .. Len(l) - 1 : r[k] = IF k < i THEN l[k] ELSE l[k + 1]
      BY <1>2, ErasedPlaces
    <2>2. i \in 1 .. n /\ n - 1 \in Nat
      BY <1>1
    <2>3. QED
      BY <1>1, <2>1, <2>2
  <1>4. /\ \A k \in 1 .. n : l[k] \in Nat
        /\ \A j, k \in 1 .. n : j < k => l[j] > l[k]
    BY <1>1 DEF Falling
  <1>5. \A k \in 1 .. n - 1 : k \in 1 .. n /\ k + 1 \in 1 .. n
    BY <1>3
  <1>6. ASSUME NEW j \in 1 .. n - 1, NEW k \in 1 .. n - 1, j < k PROVE r[j] > r[k]
    <2>1. CASE j < i /\ k < i
      BY <1>3, <1>4, <1>5, <1>6, <2>1
    <2>2. CASE j < i /\ ~(k < i)
      <3>1. j < k + 1
        BY <1>6
      <3>2. QED
        BY <1>3, <1>4, <1>5, <2>2, <3>1
    <2>3. CASE ~(j < i)
      <3>1. ~(k < i) /\ j + 1 < k + 1
        BY <1>3, <1>6, <2>3
      <3>2. QED
        BY <1>3, <1>4, <1>5, <2>3, <3>1
    <2>4. QED
      BY <2>1, <2>2, <2>3
  <1>7. ASSUME NEW x, NEW k \in 1 .. n - 1, r[k] = x PROVE x # l[i] /\ \E j \in 1 .. n : l[j] = x
    <2>1. CASE k < i
      <3>1. x = l[k] /\ k \in 1 .. n /\ i \in 1 .. n
        BY <1>3, <1>5, <1>7, <2>1
      <3>2. l[k] > l[i] /\ l[i] \in Nat /\ l[k] \in Nat
        BY <1>4, <2>1, <3>1
      <3>3. QED
        BY <3>1, <3>2
    <2>2. CASE ~(k < i)
      <3>1. i < k + 1 /\ x = l[k + 1] /\ k + 1 \in 1 .. n /\ i \in 1 .. n
        BY <1>3, <1>5, <1>7, <2>2
      <3>2. l[i] > l[k + 1] /\ l[i] \in Nat /\ l[k + 1] \in Nat
        BY <1>4, <3>1
      <3>3. QED
        BY <3>1, <3>2
    <2>3. QED
      BY <2>1, <2>2
  <1>8. ASSUME NEW x, NEW j \in 1 .. n, l[j] = x, x # l[i] PROVE \E k \in 1 .. n - 1 : r[k] = x
    <2>1. CASE j < i
      <3>1. j \in 1 .. n - 1
        BY <1>3, <2>1
      <3>2. QED
        BY <1>3, <1>8, <2>1, <3>1
    <2>2. CASE ~(j < i)
      <3>1. j # i
        BY <1>8
      <3>2. PICK k \in 1 .. n - 1 : k + 1 = j /\ ~(k < i)
        <4>1. j - 1 \in 1 .. n - 1 /\ (j - 1) + 1 = j /\ ~(j - 1 < i)
          BY <1>3, <2>2, <3>1
        <4>2. QED
          BY <4>1
      <3>3. QED
        BY <1>3, <1>8, <3>2
    <2>3. QED
      BY <2>1, <2>2
  <1>9. \A x : Contains(r, x) <=> Contains(l, x) /\ x # l[i]
    BY <1>1, <1>3, <1>7, <1>8 DEF Contains
  <1>10. Falling(r)
    BY <1>3, <1>6 DEF Falling
  <1>11. QED
    BY <1>1, <1>2, <1>3, <1>9, <1>10

(* A list without its last entry, which is the least.                      *)
LEMMA FrontIs ==
  ASSUME NEW l \in Seq(Nat), Falling(l), Len(l) # 0
  PROVE  /\ Front(l) \in Seq(Nat) /\ Falling(Front(l)) /\ Len(Front(l)) = Len(l) - 1
         /\ Last(l) \in Nat /\ Contains(l, Last(l))
         /\ \A x : Contains(Front(l), x) <=> Contains(l, x) /\ x # Last(l)
         /\ \A x : Contains(l, x) => x = Last(l) \/ Last(l) < x
  <1>1. PICK n \in Nat : n = Len(l) /\ n \in 1 .. Len(l)
    OBVIOUS
  <1>2. Last(l) = l[n] /\ l[n] \in Nat
    BY <1>1 DEF Last
  <1>3. PICK f : f = Front(l)
    OBVIOUS
  <1>4. f = SubSeq(l, 1, n - 1)
    BY <1>1, <1>3 DEF Front
  <1>5. f \in Seq(Nat) /\ Len(f) = n - 1 /\ \A k \in 1 .. n - 1 : f[k] = l[k]
    BY <1>1, <1>4
  <1>6. /\ \A k \in 1 .. n : l[k] \in Nat
        /\ \A j, k \in 1 .. n : j < k => l[j] > l[k]
    BY <1>1 DEF Falling
  <1>7. \A k \in 1 .. n : k \in 1 .. n - 1 \/ k = n
    BY <1>1
  <1>8. \A k \in 1 .. n - 1 : k \in 1 .. n /\ k < n /\ l[k] > l[n] /\ l[k] # l[n]
    BY <1>1, <1>6
  <1>9. Falling(f)
    BY <1>5, <1>6, <1>8 DEF Falling
  <1>10. \A x : Contains(f, x) <=> Contains(l, x) /\ x # l[n]
    BY <1>1, <1>5, <1>7, <1>8 DEF Contains
  <1>11. \A x : Contains(l, x) => x = l[n] \/ l[n] < x
    BY <1>1, <1>6, <1>7, <1>8 DEF Contains
  <1>12. Contains(l, l[n])
    BY <1>1 DEF Contains
  <1>13. QED
    BY <1>1, <1>2, <1>3, <1>5, <1>9, <1>10, <1>11, <1>12

(* A number greater than all of a list, before it.                         *)
LEMMA PutFirst ==
  ASSUME NEW l \in Seq(Nat), NEW m \in Nat
  PROVE  /\ <<m>> \o l \in Seq(Nat) /\ Len(<<m>> \o l) = Len(l) + 1
         /\ \A x : Contains(<<m>> \o l, x) <=> x = m \/ Contains(l, x)
         /\ Falling(l) /\ (\A x \in Nat : Contains(l, x) => x < m) => Falling(<<m>> \o l)
  <1>1. PICK n \in Nat : n = Len(l)
    OBVIOUS
  <1>2. PICK r : r = <<m>> \o l
    OBVIOUS
  <1>3. /\ r \in Seq(Nat) /\ Len(r) = n + 1 /\ r[1] = m
        /\ \A k \in 1 .. n : r[k + 1] = l[k]
    BY <1>1, <1>2
  <1>4. \A k \in 1 .. n : k + 1 \in 1 .. n + 1 /\ l[k] \in Nat
    BY <1>1
  <1>5. ASSUME NEW k \in 1 .. n + 1 PROVE k = 1 \/ \E j \in 1 .. n : k = j + 1
    <2>1. k = 1 \/ (k - 1 \in 1 .. n /\ k = (k - 1) + 1)
      BY <1>5
    <2>2. QED
      BY <2>1
  <1>6. 1 \in 1 .. n + 1
    OBVIOUS
  <1>7. \A x : Contains(r, x) <=> x = m \/ Contains(l, x)
    <2>1. ASSUME NEW k \in 1 .. n + 1 PROVE r[k] = m \/ \E j \in 1 .. n : l[j] = r[k]
      BY <1>3, <1>5
    <2>2. ASSUME NEW j \in 1 .. n PROVE \E k \in 1 .. n + 1 : r[k] = l[j]
      BY <1>3, <1>4
    <2>3. \E k \in 1 .. n + 1 : r[k] = m
      BY <1>3, <1>6
    <2>4. \A x : Contains(l, x) <=> \E j \in 1 .. n : l[j] = x
      BY <1>1 DEF Contains
    <2>5. \A x : Contains(r, x) <=> \E k \in 1 .. n + 1 : r[k] = x
      BY <1>3 DEF Contains
    <2>6. QED
      BY <2>1, <2>2, <2>3, <2>4, <2>5
  <1>8. ASSUME Falling(l), \A x \in Nat : Contains(l, x) => x < m PROVE Falling(r)
    <2>1. ASSUME NEW j \in 1 .. n + 1, NEW k \in 1 .. n + 1, j < k PROVE r[j] > r[k]
      <3>1. PICK y \in 1 .. n : k = y + 1
        BY <1>5, <2>1
      <3>2. r[k] = l[y] /\ l[y] \in Nat
        BY <1>3, <1>4, <3>1
      <3>3. CASE j = 1
        <4>1. l[y] < m
          BY <1>1, <1>4, <1>8 DEF Contains
        <4>2. QED
          BY <1>3, <3>2, <3>3, <4>1
      <3>4. CASE j # 1
        <4>1. PICK x \in 1 .. n : j = x + 1
          BY <1>5, <3>4
        <4>2. x < y
          BY <2>1, <3>1, <4>1
        <4>3. l[x] > l[y]
          BY <1>1, <1>8, <4>2 DEF Falling
        <4>4. QED
          BY <1>3, <3>2, <4>1, <4>3
      <3>5. QED
        BY <3>3, <3>4
    <2>2. QED
      BY <1>3, <2>1 DEF Falling
  <1>9. QED
    BY <1>1, <1>2, <1>3, <1>7, <1>8
-----------------------------------------------------------------------------
(* Keys, and the latest update of an address.                              *)

(* What is assumed of the cache's size.                                     *)
LEMMA Sizes == MaxSize \in Nat /\ MaxSize >= 2 /\ HashLen \in Nat /\ HashLen > MaxSize
  BY PeerCacheAssumption DEF HashLen

(* The key of an address is that of a bucket, and the remainder by which    *)
(* an overflow finds the bucket.                                           *)
LEMMA KeyIs ==
  ASSUME NEW a \in Int, a >= 0
  PROVE  KeyOf(a) \in Keys /\ a % HashLen = KeyOf(a)
  <1>1. PICK h \in Nat : h = HashLen /\ h > 0 /\ h > MaxSize
    BY Sizes
  <1>2. a % h \in 0 .. h - 1
    BY <1>1
  <1>3. CASE a >= MaxSize
    BY <1>1, <1>2, <1>3 DEF KeyOf, Keys
  <1>4. CASE ~(a >= MaxSize)
    <2>1. a < h
      BY <1>1, <1>4, Sizes
    <2>2. a % h = a
      BY <1>1, <2>1
    <2>3. QED
      BY <1>1, <1>2, <1>4, <2>2 DEF KeyOf, Keys
  <1>5. QED
    BY <1>3, <1>4

(* Max is the greatest of a set of numbers with a bound.                    *)
LEMMA GreatestIs ==
  ASSUME NEW N \in Nat, NEW T, T \subseteq 0 .. N, T # {}
  PROVE  Max(T) \in T /\ \A y \in T : y <= Max(T)
  <1> DEFINE U == {N - y : y \in T}
  <1>1. \A y \in T : y \in Int /\ N - y \in Nat
    OBVIOUS
  <1>2. U \subseteq Nat /\ U # {}
    BY <1>1, Zenon
  <1>3. PICK u \in U : \A y \in U : u <= y
    BY <1>2, LeastPlace
  <1>4. PICK x \in T : u = N - x
    BY <1>3
  <1>5. ASSUME NEW y \in T PROVE y <= x
    <2>1. u <= N - y
      BY <1>3, <1>5
    <2>2. QED
      BY <1>4, <1>5, <2>1
  <1>6. \E z \in T : \A y \in T : z >= y
    BY <1>4, <1>5
  <1>7. Max(T) \in T /\ \A y \in T : Max(T) >= y
    BY <1>6 DEF Max
  <1>8. QED
    BY <1>7

(* Min is in a set of numbers that is not empty.                           *)
LEMMA LeastIs ==
  ASSUME NEW T, T \subseteq Nat, T # {}
  PROVE  Min(T) \in T
  BY LeastPlace DEF Min

(* The latest update of an address: 0 before the first.                     *)
LEMMA LatestIs ==
  ASSUME PcType, NEW a
  PROVE  /\ Latest(a) \in 0 .. Len(owner)
         /\ \A m \in 1 .. Len(owner) : owner[m] = a => m <= Latest(a)
         /\ Latest(a) # 0 => Latest(a) \in 1 .. Len(owner) /\ owner[Latest(a)] = a
  <1>1. PICK N \in Nat : N = Len(owner) /\ DOMAIN owner = 1 .. N
    BY DEF PcType
  <1>2. PICK T : T = {0} \cup {m \in 1 .. N : owner[m] = a}
    OBVIOUS
  <1>3. Latest(a) = Max(T)
    BY <1>1, <1>2 DEF Latest
  <1>4. T \subseteq 0 .. N /\ T # {}
    BY <1>2
  <1>5. Latest(a) \in T /\ \A y \in T : y <= Latest(a)
    BY <1>3, <1>4, GreatestIs
  <1>6. Latest(a) \in 0 .. N
    BY <1>4, <1>5
  <1>7. \A m \in 1 .. N : owner[m] = a => m <= Latest(a)
    BY <1>2, <1>5
  <1>8. Latest(a) # 0 => Latest(a) \in 1 .. N /\ owner[Latest(a)] = a
    BY <1>2, <1>5
  <1>9. QED
    BY <1>1, <1>6, <1>7, <1>8

(* Two latest updates of an address are one.                                *)
LEMMA LatestOne ==
  ASSUME PcType, NEW m \in 1 .. Len(owner), IsLatest(m)
  PROVE  Latest(owner[m]) = m
  <1>1. PICK L : L = Latest(owner[m])
    OBVIOUS
  <1>2. L \in 0 .. Len(owner) /\ m <= L
    BY <1>1, LatestIs
  <1>3. L \in 1 .. Len(owner) /\ owner[L] = owner[m]
    <2>1. L # 0
      BY <1>2
    <2>2. QED
      BY <1>1, <2>1, LatestIs
  <1>4. L <= m
    BY <1>3 DEF IsLatest
  <1>5. QED
    BY <1>1, <1>2, <1>3, <1>4

(* The update that Latest names is the latest.                              *)
LEMMA LatestLast ==
  ASSUME PcType, NEW a, Latest(a) # 0
  PROVE  IsLatest(Latest(a))
  BY LatestIs DEF IsLatest

-----------------------------------------------------------------------------
(* Searches.                                                               *)

(* A search that ends at a node of the list ends at one of its address.     *)
LEMMA FoundIs ==
  ASSUME NEW l \in Seq(Nat), NEW a, Find(l, a) # 0
  PROVE  /\ FindAt(l, a) \in 1 .. Len(l) /\ Find(l, a) = l[FindAt(l, a)]
         /\ Defined(l, a) => Contains(storage, Find(l, a)) /\ owner[Find(l, a)] = a
  <1>1. Hits(l, a) # {} /\ Find(l, a) = l[FindAt(l, a)]
    BY DEF Find
  <1>2. Hits(l, a) \subseteq 1 .. Len(l) /\ Hits(l, a) \subseteq Nat
    BY DEF Hits
  <1>3. FindAt(l, a) \in Hits(l, a)
    BY <1>1, <1>2, LeastIs DEF FindAt
  <1>4. Defined(l, a) => Contains(storage, Find(l, a))
    BY DEF Defined, Dangling
  <1>5. Dangling(l[FindAt(l, a)]) \/ owner[l[FindAt(l, a)]] = a
    BY <1>3 DEF Hits
  <1>6. Defined(l, a) => owner[Find(l, a)] = a
    BY <1>1, <1>4, <1>5 DEF Dangling
  <1>7. QED
    BY <1>1, <1>2, <1>3, <1>4, <1>6

(* In a bucket that no overflow has touched, it ends at the latest update    *)
(* of the address if the list still has that, and finds nothing otherwise.  *)
LEMMA Searched ==
  ASSUME PcInv, NEW a \in Addresses, a >= 0, KeyOf(a) \notin spoiled
  PROVE  /\ lookup(a) = IF Contains(storage, Latest(a)) THEN Latest(a) ELSE 0
         /\ lookup(a) # 0 => Contains(storage, lookup(a)) /\ owner[lookup(a)] = a
  <1>1. PICK k \in Keys : k = KeyOf(a) /\ k \notin spoiled
    BY KeyIs, PeerCacheAssumption
  <1>2. PICK l \in Seq(Nat) : l = hashPtr[k]
    BY DEF PcInv, PcType
  <1>3. PcType
    BY DEF PcInv
  <1>4. \A n \in Nat : Contains(l, n) <=> Contains(storage, n) /\ KeyOf(owner[n]) = k
    BY <1>1, <1>2 DEF PcInv, BucketInv
  <1>5. ASSUME NEW i \in 1 .. Len(l)
        PROVE  ~Dangling(l[i]) /\ l[i] \in 1 .. Len(owner) /\ IsLatest(l[i])
    <2>1. l[i] \in Nat /\ Contains(l, l[i])
      BY DEF Contains
    <2>2. Contains(storage, l[i]) /\ KeyOf(owner[l[i]]) = k
      BY <1>4, <2>1
    <2>3. QED
      BY <1>1, <2>1, <2>2 DEF PcInv, StorageInv, LatestInv, Dangling
  <1>6. ASSUME NEW i \in Hits(l, a) PROVE l[i] = Latest(a) /\ Contains(storage, l[i])
    <2>1. i \in 1 .. Len(l) /\ (Dangling(l[i]) \/ owner[l[i]] = a)
      BY DEF Hits
    <2>2. owner[l[i]] = a
      BY <1>5, <2>1
    <2>3. QED
      BY <1>3, <1>5, <2>1, <2>2, LatestOne DEF Dangling
  <1>7. Contains(storage, Latest(a)) => Hits(l, a) # {}
    <2>1. SUFFICES ASSUME Contains(storage, Latest(a)) PROVE Hits(l, a) # {}
      OBVIOUS
    <2>2. Latest(a) \in Nat
      BY <1>3, LatestIs
    <2>3. Latest(a) \in 1 .. Len(owner)
      BY <2>1, <2>2 DEF PcInv, StorageInv
    <2>4. owner[Latest(a)] = a
      BY <1>3, <2>3, LatestIs
    <2>5. Contains(l, Latest(a))
      BY <1>1, <1>4, <2>1, <2>2, <2>4
    <2>6. PICK i \in 1 .. Len(l) : l[i] = Latest(a)
      BY <2>5 DEF Contains
    <2>7. i \in Hits(l, a)
      BY <2>4, <2>6 DEF Hits
    <2>8. QED
      BY <2>7
  <1>8. lookup(a) = Find(l, a)
    BY <1>1, <1>2 DEF lookup
  <1>9. CASE Hits(l, a) = {}
    BY <1>7, <1>8, <1>9 DEF Find
  <1>10. CASE Hits(l, a) # {}
    <2>1. Hits(l, a) \subseteq Nat
      BY DEF Hits
    <2>2. FindAt(l, a) \in Hits(l, a)
      BY <1>10, <2>1, LeastIs DEF FindAt
    <2>3. lookup(a) = Latest(a) /\ Contains(storage, Latest(a))
      BY <1>6, <1>8, <1>10, <2>2 DEF Find
    <2>4. Latest(a) \in Nat
      BY <1>3, LatestIs
    <2>5. Latest(a) \in 1 .. Len(owner)
      BY <2>3, <2>4 DEF PcInv, StorageInv
    <2>6. QED
      BY <1>3, <2>3, <2>5, LatestIs
  <1>11. QED
    BY <1>9, <1>10

-----------------------------------------------------------------------------
(* The step.                                                               *)

(* An update of a puts its number first in the list, which loses the node   *)
(* out; no node has number 0, so 0 says that it loses none.                 *)
Stored(out) ==
  /\ storage' \in Seq(Nat) /\ Falling(storage') /\ Len(storage') < MaxSize
  /\ \A x \in Nat : Contains(storage', x) <=> x = New \/ (Contains(storage, x) /\ x # out)

(* So does the address's bucket, unless an overflow has mixed it up, and the *)
(* other buckets are left alone.                                           *)
Hashed(a, out) ==
  /\ hashPtr' \in [Keys -> Seq(Nat)] /\ spoiled \subseteq spoiled' /\ spoiled' \subseteq Keys
  /\ \A k \in Keys : k # KeyOf(a) => hashPtr'[k] = hashPtr[k]
  /\ KeyOf(a) \notin spoiled' =>
       /\ Falling(hashPtr'[KeyOf(a)])
       /\ \A x \in Nat : Contains(hashPtr'[KeyOf(a)], x)
                           <=> x = New \/ (Contains(hashPtr[KeyOf(a)], x) /\ x # out)

(* What is lost is the address's own node, or the oldest when the list is   *)
(* full, whose bucket is the address's or one that is mixed up now.         *)
Lost(a, out) ==
  /\ out # 0 => Contains(storage, out) /\ KeyOf(owner[out]) \in {KeyOf(a)} \cup spoiled'
  /\ lookup(a) # 0 => out = lookup(a) /\ owner[out] = a
  /\ lookup(a) = 0 /\ out # 0 =>
       Len(storage) = MaxSize - 1 /\ \A x \in Nat : Contains(storage, x) => x = out \/ out < x
  /\ Len(storage) = MaxSize - 1 => Len(storage') = MaxSize - 1 /\ out # 0

(* The three together.                                                     *)
Leaves(a, out) == Stored(out) /\ Hashed(a, out) /\ Lost(a, out)

(* The update is numbered after all there are.                             *)
LEMMA NewIs ==
  ASSUME PcInv
  PROVE  /\ New \in Nat /\ New # 0 /\ New = Len(owner) + 1 /\ Len(owner) \in Nat
         /\ \A x \in Nat : Contains(storage, x) => x < New /\ x # 0
         /\ \A k \in Keys \ spoiled : \A x \in Nat : Contains(hashPtr[k], x) => x < New
  <1>1. PICK N \in Nat : N = Len(owner)
    BY DEF PcInv, PcType
  <1>2. New = N + 1
    BY <1>1 DEF New
  <1>3. \A x \in Nat : Contains(storage, x) => x \in 1 .. N
    BY <1>1 DEF PcInv, StorageInv
  <1>4. \A k \in Keys \ spoiled : \A x \in Nat : Contains(hashPtr[k], x) => Contains(storage, x)
    BY DEF PcInv, BucketInv
  <1>5. QED
    BY <1>1, <1>2, <1>3, <1>4

(* An address that the search finds: its node goes, in list and bucket.     *)
LEMMA RenewLeaves ==
  ASSUME PcInv, NEW a \in Addresses, a >= 0, Defined(hashPtr[KeyOf(a)], a), Renew(a)
  PROVE  Leaves(a, lookup(a))
  <1>1. PICK k \in Keys : k = KeyOf(a) /\ hashPtr[k] \in Seq(Nat)
    BY KeyIs, PeerCacheAssumption DEF PcInv, PcType
  <1>2. PICK l \in Seq(Nat) : l = hashPtr[k]
    BY <1>1
  <1>3. PICK out : out = lookup(a) /\ out # 0
    BY DEF Renew
  <1>4. out = Find(l, a)
    BY <1>1, <1>2, <1>3 DEF lookup
  <1>5. PICK i : i = FindAt(l, a)
    OBVIOUS
  <1>6. i \in 1 .. Len(l) /\ l[i] = out /\ out \in Nat
    BY <1>3, <1>4, <1>5, FoundIs
  <1>7. Contains(storage, out) /\ owner[out] = a
    BY <1>1, <1>2, <1>3, <1>4, FoundIs
  <1>8. PICK j : j = CHOOSE x \in DOMAIN storage : storage[x] = out
    OBVIOUS
  <1>9. storage \in Seq(Nat) /\ Falling(storage) /\ Len(storage) < MaxSize
    BY DEF PcInv, PcType, StorageInv
  <1>10. j \in 1 .. Len(storage) /\ storage[j] = out
    BY <1>7, <1>8, <1>9 DEF Contains
  <1>11. storage' = <<New>> \o RemoveAt(storage, j)
    BY <1>3, <1>8 DEF Renew, Renewed, ToFront
  <1>12. hashPtr' = [hashPtr EXCEPT ![k] = <<New>> \o RemoveAt(l, i)] /\ spoiled' = spoiled
    BY <1>1, <1>2, <1>5 DEF Renew, Renewed, ToFront
  <1>13. PICK s \in Seq(Nat) : /\ s = RemoveAt(storage, j) /\ Falling(s)
                              /\ Len(s) = Len(storage) - 1
                              /\ \A x : Contains(s, x) <=> Contains(storage, x) /\ x # out
    BY <1>9, <1>10, ErasedIs
  <1>14. New \in Nat /\ \A x \in Nat : Contains(s, x) => x < New
    BY <1>13, NewIs
  <1>15. /\ storage' \in Seq(Nat) /\ Falling(storage') /\ Len(storage') = Len(s) + 1
         /\ \A x : Contains(storage', x) <=> x = New \/ Contains(s, x)
    BY <1>11, <1>13, <1>14, PutFirst
  <1>16. Len(storage') = Len(storage)
    BY <1>9, <1>13, <1>15
  <1>17. Stored(out)
    BY <1>9, <1>13, <1>15, <1>16 DEF Stored
  <1>18. /\ RemoveAt(l, i) \in Seq(Nat)
         /\ Falling(l) => /\ Falling(RemoveAt(l, i))
                          /\ \A x : Contains(RemoveAt(l, i), x) <=> Contains(l, x) /\ x # out
    BY <1>6, ErasedIs, ErasedPlaces
  <1>19. PICK r \in Seq(Nat) : r = RemoveAt(l, i)
    BY <1>18
  <1>20. hashPtr' \in [Keys -> Seq(Nat)] /\ hashPtr'[k] = <<New>> \o r
         /\ \A k2 \in Keys : k2 # k => hashPtr'[k2] = hashPtr[k2]
    <2>1. <<New>> \o r \in Seq(Nat)
      BY <1>14, PutFirst
    <2>2. hashPtr \in [Keys -> Seq(Nat)]
      BY DEF PcInv, PcType
    <2>3. QED
      BY <1>12, <1>19, <2>1, <2>2
  <1>21. ASSUME k \notin spoiled
         PROVE  /\ Falling(hashPtr'[k])
                /\ \A x \in Nat : Contains(hashPtr'[k], x)
                                    <=> x = New \/ (Contains(hashPtr[k], x) /\ x # out)
    <2>1. Falling(l)
      BY <1>2, <1>21 DEF PcInv, BucketInv
    <2>2. Falling(r) /\ \A x : Contains(r, x) <=> Contains(l, x) /\ x # out
      BY <1>18, <1>19, <2>1
    <2>3. \A x \in Nat : Contains(r, x) => x < New
      BY <1>2, <1>21, <2>2, NewIs
    <2>4. Falling(<<New>> \o r) /\ \A x : Contains(<<New>> \o r, x) <=> x = New \/ Contains(r, x)
      BY <1>14, <2>2, <2>3, PutFirst
    <2>5. QED
      BY <1>2, <1>20, <2>2, <2>4
  <1>22. Hashed(a, out)
    BY <1>1, <1>12, <1>20, <1>21 DEF Hashed, PcInv, PcType
  <1>23. Lost(a, out)
    BY <1>3, <1>7, <1>16 DEF Lost
  <1>24. QED
    BY <1>3, <1>17, <1>22, <1>23 DEF Leaves

(* An address that it does not find, with room in the list: nothing goes.   *)
LEMMA InsertLeaves ==
  ASSUME PcInv, NEW a \in Addresses, a >= 0, InsertNew(a)
  PROVE  Leaves(a, 0)
  <1>1. PICK k \in Keys : k = KeyOf(a) /\ hashPtr[k] \in Seq(Nat)
    BY KeyIs, PeerCacheAssumption DEF PcInv, PcType
  <1>2. storage \in Seq(Nat) /\ Falling(storage)
    BY DEF PcInv, PcType, StorageInv
  <1>3. New \in Nat /\ \A x \in Nat : Contains(storage, x) => x < New /\ x # 0
    BY NewIs
  <1>4. /\ storage' \in Seq(Nat) /\ Falling(storage') /\ Len(storage') = Len(storage) + 1
        /\ \A x : Contains(storage', x) <=> x = New \/ Contains(storage, x)
    BY <1>2, <1>3, PutFirst DEF InsertNew
  <1>5. Stored(0)
    BY <1>3, <1>4 DEF Stored, InsertNew
  <1>6. <<New>> \o hashPtr[k] \in Seq(Nat)
    BY <1>1, <1>3, PutFirst
  <1>7. hashPtr' \in [Keys -> Seq(Nat)] /\ hashPtr'[k] = <<New>> \o hashPtr[k]
        /\ \A k2 \in Keys : k2 # k => hashPtr'[k2] = hashPtr[k2]
    <2>1. hashPtr \in [Keys -> Seq(Nat)]
      BY DEF PcInv, PcType
    <2>2. QED
      BY <1>1, <1>6, <2>1 DEF InsertNew
  <1>8. ASSUME k \notin spoiled
        PROVE  /\ Falling(hashPtr'[k])
               /\ \A x \in Nat : Contains(hashPtr'[k], x)
                                   <=> x = New \/ (Contains(hashPtr[k], x) /\ x # 0)
    <2>1. Falling(hashPtr[k]) /\ \A x \in Nat : Contains(hashPtr[k], x) => Contains(storage, x)
      BY <1>8 DEF PcInv, BucketInv
    <2>2. \A x \in Nat : Contains(hashPtr[k], x) => x < New /\ x # 0
      BY <1>3, <2>1
    <2>3. /\ Falling(<<New>> \o hashPtr[k])
          /\ \A x : Contains(<<New>> \o hashPtr[k], x) <=> x = New \/ Contains(hashPtr[k], x)
      BY <1>1, <1>3, <2>1, <2>2, PutFirst
    <2>4. QED
      BY <1>7, <2>2, <2>3
  <1>9. spoiled' = spoiled
    BY DEF InsertNew
  <1>10. Hashed(a, 0)
    BY <1>1, <1>7, <1>8, <1>9 DEF Hashed, PcInv, PcType
  <1>11. Lost(a, 0)
    <2>1. lookup(a) = 0 /\ Len(storage) # MaxSize - 1
      BY <1>2, Sizes DEF InsertNew
    <2>2. QED
      BY <2>1 DEF Lost
  <1>12. QED
    BY <1>5, <1>10, <1>11 DEF Leaves

(* An address that it does not find, with the list full: the oldest goes.   *)
LEMMA OverflowLeaves ==
  ASSUME PcInv, NEW a \in Addresses, a >= 0, Overflow(a)
  PROVE  Leaves(a, Last(storage))
  <1>1. PICK k \in Keys : k = KeyOf(a) /\ hashPtr[k] \in Seq(Nat)
    BY KeyIs, PeerCacheAssumption DEF PcInv, PcType
  <1>2. storage \in Seq(Nat) /\ Falling(storage) /\ Len(storage) < MaxSize
    BY DEF PcInv, PcType, StorageInv
  <1>3. New \in Nat /\ \A x \in Nat : Contains(storage, x) => x < New /\ x # 0
    BY NewIs
  <1>4. Len(storage) = MaxSize - 1 /\ Len(storage) # 0
    BY <1>2, Sizes DEF Overflow
  <1>5. PICK out \in Nat : out = Last(storage) /\ Contains(storage, out)
    BY <1>2, <1>4, FrontIs
  <1>6. PICK s \in Seq(Nat) : /\ s = Front(storage) /\ Falling(s) /\ Len(s) = Len(storage) - 1
                             /\ \A x : Contains(s, x) <=> Contains(storage, x) /\ x # out
    BY <1>2, <1>4, <1>5, FrontIs
  <1>7. \A x : Contains(storage, x) => x = out \/ out < x
    BY <1>2, <1>4, <1>5, FrontIs
  <1>8. \A x \in Nat : Contains(s, x) => x < New
    BY <1>3, <1>6
  <1>9. storage' = <<New>> \o s
    BY <1>6 DEF Overflow
  <1>10. /\ storage' \in Seq(Nat) /\ Falling(storage') /\ Len(storage') = Len(s) + 1
         /\ \A x : Contains(storage', x) <=> x = New \/ Contains(s, x)
    BY <1>3, <1>6, <1>8, <1>9, PutFirst
  <1>11. Len(storage') = Len(storage)
    BY <1>2, <1>6, <1>10
  <1>12. Stored(out)
    BY <1>2, <1>6, <1>10, <1>11 DEF Stored
  <1>13. PICK b \in Addresses : b = owner[out] /\ b >= 0
    <2>1. out \in 1 .. Len(owner)
      BY <1>5 DEF PcInv, StorageInv
    <2>2. owner \in Seq({x \in Addresses : x >= 0})
      BY DEF PcInv, PcType
    <2>3. owner[out] \in {x \in Addresses : x >= 0}
      BY <2>1, <2>2
    <2>4. QED
      BY <2>3
  <1>14. PICK from \in Keys : from = KeyOf(b) /\ from = b % HashLen /\ hashPtr[from] \in Seq(Nat)
    BY <1>13, KeyIs, PeerCacheAssumption DEF PcInv, PcType
  <1>15. PICK rest : rest = Erased(hashPtr[from], b)
    OBVIOUS
  <1>16. rest \in Seq(Nat)
    <2>1. PICK l \in Seq(Nat) : l = hashPtr[from]
      BY <1>14
    <2>2. CASE Hits(l, b) # {}
      <3>1. Hits(l, b) \subseteq 1 .. Len(l) /\ Hits(l, b) \subseteq Nat
        BY DEF Hits
      <3>2. FindAt(l, b) \in 1 .. Len(l)
        BY <2>2, <3>1, LeastIs DEF FindAt
      <3>3. RemoveAt(l, FindAt(l, b)) \in Seq(Nat)
        BY <3>2, ErasedPlaces
      <3>4. QED
        BY <1>15, <2>1, <2>2, <3>3 DEF Erased
    <2>3. QED
      BY <1>15, <2>1, <2>2 DEF Erased
  <1>17. PICK put : put = IF b = a THEN hashPtr[from]
                          ELSE IF from = k THEN <<New>> \o rest ELSE rest
    OBVIOUS
  <1>18. /\ hashPtr' = [hashPtr EXCEPT ![k] = put]
         /\ spoiled' = IF from = k THEN spoiled ELSE spoiled \cup {from, k}
    BY <1>1, <1>5, <1>13, <1>14, <1>15, <1>17 DEF Overflow
  <1>19. put \in Seq(Nat)
    BY <1>3, <1>14, <1>16, <1>17, PutFirst
  <1>20. hashPtr' \in [Keys -> Seq(Nat)] /\ hashPtr'[k] = put
         /\ \A k2 \in Keys : k2 # k => hashPtr'[k2] = hashPtr[k2]
    <2>1. hashPtr \in [Keys -> Seq(Nat)]
      BY DEF PcInv, PcType
    <2>2. QED
      BY <1>18, <1>19, <2>1
  <1>21. spoiled \subseteq spoiled' /\ spoiled' \subseteq Keys /\ from \in {k} \cup spoiled'
    BY <1>18 DEF PcInv, PcType
  <1>22. ASSUME k \notin spoiled'
         PROVE  /\ Falling(hashPtr'[k])
                /\ \A x \in Nat : Contains(hashPtr'[k], x)
                                    <=> x = New \/ (Contains(hashPtr[k], x) /\ x # out)
    <2>1. from = k /\ k \notin spoiled
      BY <1>18, <1>22
    <2>2. out \in 1 .. Len(owner) /\ IsLatest(out)
      BY <1>5, <1>13, <1>14, <2>1 DEF PcInv, StorageInv, LatestInv
    <2>3. Latest(b) = out /\ out # 0
      BY <1>13, <2>2, LatestOne DEF PcInv
    <2>4. lookup(b) = out
      BY <1>5, <1>13, <1>14, <2>1, <2>3, Searched
    <2>5. b # a
      BY <2>3, <2>4 DEF Overflow
    <2>6. PICK l \in Seq(Nat) : l = hashPtr[k] /\ Falling(l)
      BY <1>1, <2>1 DEF PcInv, BucketInv
    <2>7. Find(l, b) = out
      BY <1>14, <2>1, <2>4, <2>6 DEF lookup
    <2>8. PICK i \in 1 .. Len(l) : i = FindAt(l, b) /\ l[i] = out
      BY <2>3, <2>7, FoundIs
    <2>9. Hits(l, b) # {}
      BY <2>3, <2>7 DEF Find
    <2>10. rest = RemoveAt(l, i)
      BY <1>15, <2>1, <2>6, <2>8, <2>9 DEF Erased
    <2>11. Falling(rest) /\ \A x : Contains(rest, x) <=> Contains(l, x) /\ x # out
      BY <2>6, <2>8, <2>10, ErasedIs
    <2>12. \A x \in Nat : Contains(rest, x) => x < New
      BY <2>1, <2>6, <2>11, NewIs
    <2>13. /\ Falling(<<New>> \o rest)
           /\ \A x : Contains(<<New>> \o rest, x) <=> x = New \/ Contains(rest, x)
      BY <1>3, <1>16, <2>11, <2>12, PutFirst
    <2>14. hashPtr'[k] = <<New>> \o rest
      BY <1>17, <1>20, <2>1, <2>5
    <2>15. QED
      BY <2>6, <2>11, <2>13, <2>14
  <1>23. Hashed(a, out)
    BY <1>1, <1>20, <1>21, <1>22 DEF Hashed
  <1>24. Lost(a, out)
    <2>1. lookup(a) = 0 /\ out # 0
      BY <1>3, <1>5 DEF Overflow
    <2>2. QED
      BY <1>1, <1>4, <1>5, <1>7, <1>11, <1>13, <1>14, <1>21, <2>1 DEF Lost
  <1>25. QED
    BY <1>5, <1>12, <1>23, <1>24 DEF Leaves

-----------------------------------------------------------------------------
(* The invariant.                                                          *)

(* Nothing is stored at first.                                             *)
LEMMA PcInitInv == PcInit => PcInv
  <1>1. SUFFICES ASSUME PcInit PROVE PcInv
    OBVIOUS
  <1>2. PICK h \in Nat : h = HashLen /\ h > 0
    BY Sizes
  <1>3. \A l : l = <<>> => l \in Seq(Nat) /\ Len(l) = 0
    OBVIOUS
  <1>4. storage \in Seq(Nat) /\ Len(storage) = 0 /\ Len(owner) = 0
        /\ owner \in Seq({a \in Addresses : a >= 0})
    BY <1>1, <1>3 DEF PcInit
  <1>5. /\ hashPtr \in [Keys -> Seq(Nat)] /\ spoiled = {}
        /\ \A k \in Keys : hashPtr[k] \in Seq(Nat) /\ Len(hashPtr[k]) = 0
    BY <1>1, <1>3 DEF PcInit, Keys
  <1>6. \A x : ~Contains(storage, x)
    BY <1>4 DEF Contains
  <1>7. \A k \in Keys : \A x : ~Contains(hashPtr[k], x)
    BY <1>5 DEF Contains
  <1>8. Falling(storage) /\ \A k \in Keys : Falling(hashPtr[k])
    BY <1>4, <1>5 DEF Falling
  <1>9. PcType
    BY <1>4, <1>5 DEF PcType
  <1>10. StorageInv
    BY <1>4, <1>6, <1>8, Sizes DEF StorageInv
  <1>11. BucketInv /\ LatestInv
    BY <1>6, <1>7, <1>8 DEF BucketInv, LatestInv
  <1>12. LeftInv
    BY <1>4 DEF LeftInv
  <1>13. QED
    BY <1>9, <1>10, <1>11, <1>12 DEF PcInv

(* The owners of the nodes stay, and the new node is the address's.         *)
LEMMA OwnerIs ==
  ASSUME PcInv, NEW a \in Addresses, a >= 0, owner' = Append(owner, a)
  PROVE  /\ owner' \in Seq({b \in Addresses : b >= 0}) /\ Len(owner') = New
         /\ owner'[New] = a /\ \A m \in 1 .. Len(owner) : m \in 1 .. New /\ owner'[m] = owner[m]
         /\ \A m \in 1 .. New : m = New \/ m \in 1 .. Len(owner)
         /\ \A n : n = New => IsLatest(n)'
         /\ \A m \in 1 .. Len(owner) : IsLatest(m)' <=> IsLatest(m) /\ owner[m] # a
  <1>1. PICK S : S = {b \in Addresses : b >= 0}
    OBVIOUS
  <1>2. owner \in Seq(S) /\ a \in S
    BY <1>1 DEF PcInv, PcType
  <1>3. PICK N \in Nat : N = Len(owner) /\ New = N + 1
    BY <1>2 DEF New
  <1>4. owner' \in Seq(S) /\ Len(owner') = N + 1 /\ owner'[N + 1] = a
        /\ \A m \in 1 .. N : owner'[m] = owner[m]
    BY <1>2, <1>3
  <1>5. \A m \in 1 .. N : m \in 1 .. N + 1
    BY <1>3
  <1>6. \A m \in 1 .. N + 1 : m = N + 1 \/ m \in 1 .. N
    BY <1>3
  <1>7. \A n : IsLatest(n)' <=> \A m \in 1 .. N + 1 : owner'[m] = owner'[n] => m <= n
    BY <1>4 DEF IsLatest
  <1>8. \A m \in 1 .. N + 1 : m <= N + 1
    BY <1>3
  <1>9. ASSUME NEW n \in 1 .. N PROVE IsLatest(n)' <=> IsLatest(n) /\ owner[n] # a
    <2>1. ~(N + 1 <= n) /\ N + 1 \in 1 .. N + 1
      BY <1>3
    <2>2. IsLatest(n) <=> \A m \in 1 .. N : owner[m] = owner[n] => m <= n
      BY <1>3 DEF IsLatest
    <2>3. owner'[n] = owner[n]
      BY <1>4
    <2>4. ASSUME IsLatest(n)' PROVE IsLatest(n) /\ owner[n] # a
      BY <1>4, <1>5, <1>7, <2>1, <2>2, <2>3, <2>4
    <2>5. ASSUME IsLatest(n), owner[n] # a PROVE IsLatest(n)'
      BY <1>4, <1>6, <1>7, <2>2, <2>3, <2>5
    <2>6. QED
      BY <2>4, <2>5
  <1>10. \A n : n = New => IsLatest(n)'
    <2>1. \A n : n = N + 1 => \A m \in 1 .. N + 1 : m <= n
      BY <1>8
    <2>2. QED
      BY <1>3, <1>7, <2>1
  <1>11. QED
    BY <1>1, <1>3, <1>4, <1>5, <1>6, <1>9, <1>10

(* What an update leaves keeps the invariant.                              *)
LEMMA LeavesInv ==
  ASSUME PcInv, NEW a \in Addresses, a >= 0, NEW out \in Nat, Leaves(a, out),
         owner' = Append(owner, a)
  PROVE  PcInv'
  <1>1. PICK k0 \in Keys : k0 = KeyOf(a)
    BY KeyIs, PeerCacheAssumption
  <1>2. PICK N \in Nat : N = Len(owner) /\ New = N + 1
    BY NewIs
  <1>3. /\ storage' \in Seq(Nat) /\ Falling(storage') /\ Len(storage') < MaxSize
        /\ \A x \in Nat : Contains(storage', x) <=> x = N + 1 \/ (Contains(storage, x) /\ x # out)
    BY <1>2 DEF Leaves, Stored
  <1>4. /\ hashPtr' \in [Keys -> Seq(Nat)] /\ spoiled \subseteq spoiled' /\ spoiled' \subseteq Keys
        /\ \A k \in Keys : k # k0 => hashPtr'[k] = hashPtr[k]
        /\ k0 \notin spoiled' =>
             /\ Falling(hashPtr'[k0])
             /\ \A x \in Nat : Contains(hashPtr'[k0], x)
                                 <=> x = N + 1 \/ (Contains(hashPtr[k0], x) /\ x # out)
    BY <1>1, <1>2 DEF Leaves, Hashed
  <1>5. /\ out # 0 => Contains(storage, out) /\ KeyOf(owner[out]) \in {k0} \cup spoiled'
        /\ lookup(a) # 0 => out = lookup(a) /\ owner[out] = a
    BY <1>1 DEF Leaves, Lost
  <1>6. /\ Len(owner') = N + 1 /\ owner' \in Seq({b \in Addresses : b >= 0}) /\ owner'[N + 1] = a
        /\ \A m \in 1 .. N : m \in 1 .. N + 1 /\ owner'[m] = owner[m]
        /\ \A m \in 1 .. N + 1 : m = N + 1 \/ m \in 1 .. N
        /\ \A m \in 1 .. N : IsLatest(m)' <=> IsLatest(m) /\ owner[m] # a
    BY <1>2, OwnerIs
  <1>7. IsLatest(N + 1)'
    BY <1>2, OwnerIs
  <1>8. \A x \in Nat : Contains(storage, x) => x \in 1 .. N /\ x # N + 1 /\ x # 0
    BY <1>2 DEF PcInv, StorageInv
  <1>9. PcType'
    BY <1>3, <1>4, <1>6 DEF PcType
  <1>10. StorageInv'
    <2>1. ASSUME NEW x \in Nat, Contains(storage', x) PROVE x \in 1 .. N + 1
      BY <1>3, <1>6, <1>8, <2>1
    <2>2. QED
      BY <1>3, <1>6, <2>1 DEF StorageInv, Falling
  <1>11. ASSUME NEW k \in Keys \ spoiled'
         PROVE  /\ Falling(hashPtr'[k])
                /\ \A n \in Nat : Contains(hashPtr'[k], n)
                                    <=> Contains(storage', n) /\ KeyOf(owner'[n]) = k
    <2>1. /\ Falling(hashPtr[k])
          /\ \A n \in Nat : Contains(hashPtr[k], n) <=> Contains(storage, n) /\ KeyOf(owner[n]) = k
      BY <1>4, <1>11 DEF PcInv, BucketInv
    <2>2. CASE k # k0
      <3>1. hashPtr'[k] = hashPtr[k]
        BY <1>4, <2>2
      <3>2. KeyOf(owner'[N + 1]) # k
        BY <1>1, <1>6, <2>2
      <3>3. ASSUME NEW n \in Nat, Contains(storage, n), KeyOf(owner[n]) = k PROVE n # out
        BY <1>5, <1>8, <2>2, <3>3
      <3>4. ASSUME NEW n \in Nat
            PROVE  Contains(hashPtr[k], n) <=> Contains(storage', n) /\ KeyOf(owner'[n]) = k
        <4>1. CASE n = N + 1
          BY <1>8, <2>1, <3>2, <4>1
        <4>2. CASE n # N + 1
          BY <1>3, <1>6, <1>8, <2>1, <3>3, <4>2
        <4>3. QED
          BY <4>1, <4>2
      <3>5. QED
        BY <2>1, <3>1, <3>4
    <2>3. CASE k = k0
      <3>1. /\ Falling(hashPtr'[k])
            /\ \A x \in Nat : Contains(hashPtr'[k], x)
                                <=> x = N + 1 \/ (Contains(hashPtr[k], x) /\ x # out)
        BY <1>4, <1>11, <2>3
      <3>2. KeyOf(owner'[N + 1]) = k
        BY <1>1, <1>6, <2>3
      <3>3. ASSUME NEW n \in Nat
            PROVE  Contains(hashPtr'[k], n) <=> Contains(storage', n) /\ KeyOf(owner'[n]) = k
        <4>1. CASE n = N + 1
          BY <1>3, <3>1, <3>2, <4>1
        <4>2. CASE n # N + 1
          BY <1>3, <1>6, <1>8, <2>1, <3>1, <4>2
        <4>3. QED
          BY <4>1, <4>2
      <3>4. QED
        BY <3>1, <3>3
    <2>4. QED
      BY <2>2, <2>3
  <1>12. BucketInv'
    BY <1>11 DEF BucketInv, Falling, Contains, KeyOf
  <1>13. ASSUME NEW n \in Nat, Contains(storage', n), KeyOf(owner'[n]) \notin spoiled'
         PROVE  IsLatest(n)'
    <2>1. CASE n = N + 1
      BY <1>7, <2>1
    <2>2. CASE n # N + 1
      <3>1. Contains(storage, n) /\ n # out /\ n \in 1 .. N /\ owner'[n] = owner[n]
        BY <1>3, <1>6, <1>8, <1>13, <2>2
      <3>2. IsLatest(n) /\ KeyOf(owner[n]) \notin spoiled
        BY <1>4, <1>13, <3>1 DEF PcInv, LatestInv
      <3>3. owner[n] # a
        <4>1. SUFFICES ASSUME owner[n] = a PROVE FALSE
          OBVIOUS
        <4>2. Latest(a) = n
          BY <1>2, <3>1, <3>2, <4>1, LatestOne DEF PcInv
        <4>3. lookup(a) = n
          BY <3>1, <3>2, <4>1, <4>2, Searched
        <4>4. QED
          BY <1>5, <1>8, <3>1, <4>3
      <3>4. QED
        BY <1>6, <3>1, <3>2, <3>3
    <2>3. QED
      BY <2>1, <2>2
  <1>14. LatestInv'
    BY <1>13 DEF LatestInv, KeyOf
  <1>15. ASSUME spoiled' = {}, NEW m \in 1 .. N + 1, IsLatest(m)', ~Contains(storage', m)
         PROVE  /\ Len(storage') = MaxSize - 1
                /\ \A n \in Nat : Contains(storage', n) => m < n
    <2>1. m \in 1 .. N /\ IsLatest(m) /\ owner[m] # a
      BY <1>2, <1>3, <1>6, <1>15
    <2>2. spoiled = {}
      BY <1>4, <1>15
    <2>3. m < N + 1
      BY <1>2, <2>1
    <2>4. CASE ~Contains(storage, m)
      <3>1. Len(storage) = MaxSize - 1 /\ \A n \in Nat : Contains(storage, n) => m < n
        BY <1>2, <2>1, <2>2, <2>4 DEF PcInv, LeftInv
      <3>2. Len(storage') = MaxSize - 1
        BY <3>1 DEF Leaves, Lost
      <3>3. QED
        BY <1>3, <2>3, <3>1, <3>2
    <2>5. CASE Contains(storage, m)
      <3>1. m = out /\ out # 0
        BY <1>3, <1>8, <1>15, <2>1, <2>5
      <3>2. lookup(a) = 0
        BY <1>5, <2>1, <3>1
      <3>3. /\ Len(storage) = MaxSize - 1 /\ Len(storage') = MaxSize - 1
            /\ \A x \in Nat : Contains(storage, x) => x = out \/ out < x
        BY <3>1, <3>2 DEF Leaves, Lost
      <3>4. QED
        BY <1>3, <2>3, <3>1, <3>3
    <2>6. QED
      BY <2>4, <2>5
  <1>16. LeftInv'
    BY <1>6, <1>15 DEF LeftInv
  <1>17. QED
    BY <1>9, <1>10, <1>12, <1>14, <1>16 DEF PcInv

(* Every update keeps the invariant.                                       *)
LEMMA UpdateInv ==
  ASSUME PcInv, NEW a \in Addresses, update(a)
  PROVE  PcInv'
  <1>1. a >= 0 /\ Defined(hashPtr[KeyOf(a)], a) /\ owner' = Append(owner, a)
    BY DEF update
  <1>2. CASE Renew(a)
    <2>1. Leaves(a, lookup(a))
      BY <1>1, <1>2, RenewLeaves
    <2>2. lookup(a) \in Nat
      <3>1. PICK k \in Keys : k = KeyOf(a) /\ hashPtr[k] \in Seq(Nat)
        BY <1>1, KeyIs, PeerCacheAssumption DEF PcInv, PcType
      <3>2. Find(hashPtr[k], a) # 0
        BY <1>2, <3>1 DEF Renew, lookup
      <3>3. FindAt(hashPtr[k], a) \in 1 .. Len(hashPtr[k])
            /\ Find(hashPtr[k], a) = hashPtr[k][FindAt(hashPtr[k], a)]
        BY <3>1, <3>2, FoundIs
      <3>4. QED
        BY <3>1, <3>3 DEF lookup
    <2>3. QED
      BY <1>1, <2>1, <2>2, LeavesInv
  <1>3. CASE InsertNew(a)
    <2>1. Leaves(a, 0)
      BY <1>1, <1>3, InsertLeaves
    <2>2. QED
      BY <1>1, <2>1, LeavesInv
  <1>4. CASE Overflow(a)
    <2>1. Leaves(a, Last(storage))
      BY <1>1, <1>4, OverflowLeaves
    <2>2. Last(storage) \in Nat
      <3>1. storage \in Seq(Nat) /\ Falling(storage) /\ Len(storage) # 0
        BY <1>4, Sizes DEF PcInv, PcType, StorageInv, Overflow
      <3>2. QED
        BY <3>1, FrontIs
    <2>3. QED
      BY <1>1, <2>1, <2>2, LeavesInv
  <1>5. QED
    BY <1>2, <1>3, <1>4 DEF update

(* For every set of addresses and every size of the cache: list and buckets *)
(* agree, but for the buckets that an overflow has mixed up.               *)
THEOREM PcInvariance == PcSpec => []PcInv
  <1>1. PcInv /\ [PcNext]_pcVars => PcInv'
    <2>1. SUFFICES ASSUME PcInv, [PcNext]_pcVars PROVE PcInv'
      OBVIOUS
    <2>2. CASE PcNext
      BY <2>1, <2>2, UpdateInv DEF PcNext
    <2>3. CASE UNCHANGED pcVars
      BY <2>1, <2>3 DEF pcVars, PcInv, PcType, StorageInv, BucketInv, LatestInv, LeftInv,
         Falling, Contains, IsLatest, KeyOf
    <2>4. QED
      BY <2>1, <2>2, <2>3
  <1>2. QED
    BY PcInitInv, <1>1, PTL DEF PcSpec

-----------------------------------------------------------------------------
(* The cache's answers.                                                    *)

(* The owner of a node of the list that is later than another address's     *)
(* latest update is a later address.                                       *)
LEMMA LaterIs ==
  ASSUME PcInv, NEW a, NEW n \in Nat, Contains(storage, n), Latest(a) < n
  PROVE  owner[n] \in Later(a)
  <1>1. n \in 1 .. Len(owner)
    BY DEF PcInv, StorageInv
  <1>2. owner \in Seq({x \in Addresses : x >= 0})
    BY DEF PcInv, PcType
  <1>3. owner[n] \in {x \in Addresses : x >= 0}
    BY <1>1, <1>2
  <1>4. PICK b : b = owner[n]
    OBVIOUS
  <1>5. Latest(b) \in 0 .. Len(owner) /\ n <= Latest(b) /\ Latest(a) \in 0 .. Len(owner)
    BY <1>1, <1>4, LatestIs DEF PcInv
  <1>6. Latest(b) > Latest(a)
    BY <1>1, <1>5
  <1>7. QED
    BY <1>3, <1>4, <1>6 DEF Later

(* There are finitely many later addresses: each has an update.             *)
LEMMA LaterFinite ==
  ASSUME PcInv, NEW a
  PROVE  IsFiniteSet(Later(a))
  <1>1. PICK N \in Nat : N = Len(owner)
    BY DEF PcInv, PcType
  <1>2. IsFiniteSet(1 .. N)
    BY <1>1, FS_Interval
  <1>3. PICK D : D = {m \in 1 .. N : owner[m] \in Later(a)}
    OBVIOUS
  <1>4. IsFiniteSet(D)
    BY <1>2, <1>3, FS_Subset
  <1>5. PICK f : f = [m \in D |-> owner[m]]
    OBVIOUS
  <1>6. \A b \in Later(a) : \E m \in D : f[m] = b
    <2>1. SUFFICES ASSUME NEW b \in Later(a) PROVE \E m \in D : f[m] = b
      OBVIOUS
    <2>2. Latest(b) > Latest(a) /\ Latest(a) \in 0 .. N /\ Latest(b) \in 0 .. N
      BY <1>1, LatestIs DEF Later, PcInv
    <2>3. Latest(b) \in 1 .. N /\ owner[Latest(b)] = b
      BY <1>1, <2>2, LatestIs DEF PcInv
    <2>4. QED
      BY <1>3, <1>5, <2>3
  <1>7. f \in [D -> Later(a)]
    BY <1>3, <1>5
  <1>8. f \in Surjection(D, Later(a))
    BY <1>6, <1>7 DEF Surjection
  <1>9. QED
    BY <1>4, <1>8, FS_Surjection

(* An address whose latest update the list still has: those after it come    *)
(* before it there, so they are fewer than the list has places.             *)
LEMMA FewLater ==
  ASSUME PcInv, spoiled = {}, NEW a, Latest(a) # 0, Contains(storage, Latest(a))
  PROVE  Cardinality(Later(a)) < MaxSize - 1
  <1>1. PICK N \in Nat : N = Len(owner)
    BY DEF PcInv, PcType
  <1>2. PICK L \in 1 .. N : L = Latest(a)
    BY <1>1, LatestIs DEF PcInv
  <1>3. PICK z \in Nat : z = Len(storage) /\ z < MaxSize
    BY DEF PcInv, PcType, StorageInv
  <1>4. \A i \in 1 .. z : storage[i] \in Nat /\ Contains(storage, storage[i])
    BY <1>3 DEF PcInv, PcType, Contains
  <1>5. PICK p \in 1 .. z : storage[p] = L
    BY <1>2, <1>3 DEF Contains
  <1>6. \A i, j \in 1 .. z : i < j => storage[i] > storage[j]
    BY <1>3 DEF PcInv, StorageInv, Falling
  <1>7. PICK D : D = 1 .. p - 1
    OBVIOUS
  <1>8. IsFiniteSet(D) /\ Cardinality(D) = p - 1
    <2>1. 1 \in Int /\ p - 1 \in Int /\ ~(1 > p)
      OBVIOUS
    <2>2. /\ IsFiniteSet(1 .. p - 1)
          /\ Cardinality(1 .. p - 1) = IF 1 > p - 1 THEN 0 ELSE (p - 1) - 1 + 1
      BY <2>1, FS_Interval
    <2>3. QED
      BY <1>7, <2>1, <2>2
  <1>9. PICK f : f = [i \in D |-> owner[storage[i]]]
    OBVIOUS
  <1>10. f \in [D -> Later(a)]
    <2>1. SUFFICES ASSUME NEW i \in D PROVE owner[storage[i]] \in Later(a)
      BY <1>9
    <2>2. i \in 1 .. z /\ i < p
      BY <1>7
    <2>3. storage[i] > L /\ storage[i] \in Nat /\ Contains(storage, storage[i])
      BY <1>4, <1>5, <1>6, <2>2
    <2>4. Latest(a) < storage[i]
      BY <1>2, <2>3
    <2>5. QED
      BY <2>3, <2>4, LaterIs
  <1>11. \A b \in Later(a) : \E i \in D : f[i] = b
    <2>1. SUFFICES ASSUME NEW b \in Later(a) PROVE \E i \in D : f[i] = b
      OBVIOUS
    <2>2. PICK M : M = Latest(b)
      OBVIOUS
    <2>3. M > L /\ M \in 0 .. N
      BY <1>1, <1>2, <2>2, LatestIs DEF Later, PcInv
    <2>4. M \in 1 .. N /\ owner[M] = b /\ IsLatest(M)
      BY <1>1, <2>2, <2>3, LatestIs, LatestLast DEF PcInv
    <2>5. Contains(storage, M)
      <3>1. SUFFICES ASSUME ~Contains(storage, M) PROVE FALSE
        OBVIOUS
      <3>2. M < L
        BY <1>1, <1>2, <2>4, <3>1 DEF PcInv, LeftInv
      <3>3. QED
        BY <2>3, <3>2
    <2>6. PICK i \in 1 .. z : storage[i] = M
      BY <1>3, <2>5 DEF Contains
    <2>7. ~(p < i) /\ i # p
      BY <1>5, <1>6, <2>3, <2>6
    <2>8. i \in D
      BY <1>7, <2>7
    <2>9. QED
      BY <1>9, <2>4, <2>6, <2>8
  <1>12. f \in Surjection(D, Later(a))
    BY <1>10, <1>11 DEF Surjection
  <1>13. Cardinality(Later(a)) <= Cardinality(D) /\ IsFiniteSet(Later(a))
    BY <1>8, <1>12, FS_Surjection
  <1>14. PICK c \in Nat : c = Cardinality(Later(a))
    BY <1>13, FS_CardinalityType
  <1>15. QED
    BY <1>3, <1>8, <1>13, <1>14, Sizes

(* An address whose latest update the list has lost: it is full of others,   *)
(* each the latest of a later address.                                     *)
LEMMA ManyLater ==
  ASSUME PcInv, spoiled = {}, NEW a, Latest(a) # 0, ~Contains(storage, Latest(a))
  PROVE  ~(Cardinality(Later(a)) < MaxSize - 1)
  <1>1. PICK N \in Nat : N = Len(owner)
    BY DEF PcInv, PcType
  <1>2. PICK L \in 1 .. N : L = Latest(a) /\ IsLatest(L) /\ ~Contains(storage, L)
    BY <1>1, LatestIs, LatestLast DEF PcInv
  <1>3. PICK z \in Nat : z = Len(storage)
    BY DEF PcInv, PcType
  <1>4. z = MaxSize - 1 /\ \A n \in Nat : Contains(storage, n) => L < n
    BY <1>1, <1>2, <1>3 DEF PcInv, LeftInv
  <1>5. \A i \in 1 .. z : storage[i] \in Nat /\ Contains(storage, storage[i])
    BY <1>3 DEF PcInv, PcType, Contains
  <1>6. \A i, j \in 1 .. z : i < j => storage[i] > storage[j]
    BY <1>3 DEF PcInv, StorageInv, Falling
  <1>7. PICK D : D = 1 .. z
    OBVIOUS
  <1>8. IsFiniteSet(D) /\ Cardinality(D) = z
    <2>1. IsFiniteSet(1 .. z) /\ Cardinality(1 .. z) = IF 1 > z THEN 0 ELSE z - 1 + 1
      BY FS_Interval
    <2>2. QED
      BY <1>7, <2>1
  <1>9. PICK f : f = [i \in D |-> owner[storage[i]]]
    OBVIOUS
  <1>10. f \in [D -> Later(a)]
    <2>1. SUFFICES ASSUME NEW i \in D PROVE owner[storage[i]] \in Later(a)
      BY <1>9
    <2>2. storage[i] \in Nat /\ Contains(storage, storage[i]) /\ Latest(a) < storage[i]
      BY <1>2, <1>4, <1>5, <1>7
    <2>3. QED
      BY <2>2, LaterIs
  <1>11. ASSUME NEW i \in D PROVE Latest(owner[storage[i]]) = storage[i]
    <2>1. storage[i] \in Nat /\ Contains(storage, storage[i])
      BY <1>5, <1>7
    <2>2. storage[i] \in 1 .. Len(owner) /\ IsLatest(storage[i])
      BY <2>1 DEF PcInv, StorageInv, LatestInv
    <2>3. QED
      BY <2>2, LatestOne DEF PcInv
  <1>12. ASSUME NEW i \in D, NEW j \in D, f[i] = f[j] PROVE i = j
    <2>1. storage[i] = storage[j]
      BY <1>9, <1>11, <1>12
    <2>2. i \in 1 .. z /\ j \in 1 .. z /\ storage[i] \in Nat
      BY <1>5, <1>7
    <2>3. ~(i < j) /\ ~(j < i)
      BY <1>6, <2>1, <2>2
    <2>4. QED
      BY <2>2, <2>3
  <1>13. f \in Injection(D, Later(a))
    BY <1>10, <1>12 DEF Injection, IsInjective
  <1>14. Cardinality(D) <= Cardinality(Later(a))
    BY <1>13, LaterFinite, FS_Injection
  <1>15. PICK c \in Nat : c = Cardinality(Later(a))
    BY LaterFinite, FS_CardinalityType
  <1>16. QED
    BY <1>4, <1>8, <1>14, <1>15

(* The cache knows just the MaxSize - 1 addresses updated last, with what    *)
(* the last update said; after an overflow across buckets, the buckets that  *)
(* it did not mix up still answer with the last update or with nothing.     *)
THEOREM AlwaysAnswers == PcSpec => []CacheAnswers
  <1>1. PcInv => CacheAnswers
    <2>1. SUFFICES ASSUME PcInv, NEW a \in Addresses, a >= 0, KeyOf(a) \notin spoiled
                   PROVE  /\ lookup(a) = IF Contains(storage, Latest(a)) THEN Latest(a) ELSE 0
                          /\ spoiled = {} /\ Latest(a) # 0 =>
                               (lookup(a) # 0 <=> Cardinality(Later(a)) < MaxSize - 1)
      BY DEF CacheAnswers
    <2>2. lookup(a) = IF Contains(storage, Latest(a)) THEN Latest(a) ELSE 0
      BY <2>1, Searched
    <2>3. ASSUME spoiled = {}, Latest(a) # 0
          PROVE  lookup(a) # 0 <=> Cardinality(Later(a)) < MaxSize - 1
      <3>1. CASE Contains(storage, Latest(a))
        BY <2>1, <2>2, <2>3, <3>1, FewLater
      <3>2. CASE ~Contains(storage, Latest(a))
        BY <2>1, <2>2, <2>3, <3>2, ManyLater
      <3>3. QED
        BY <3>1, <3>2
    <2>4. QED
      BY <2>2, <2>3
  <1>2. QED
    BY <1>1, PcInvariance, PTL
=============================================================================
