--------------------------- MODULE LossListProofs ---------------------------
(***************************************************************************)
(* Sequence numbers first: CSeqNo is right wherever the code uses it, for   *)
(* numbers that are less than SeqNoTH apart are ordered, subtracted and     *)
(* advanced as if they were not circular, however often they have wrapped.  *)
(*                                                                         *)
(* Then CRcvLossList.  Rep(l, S, o) says that the arrays and links of l     *)
(* stand for the set S, number s in slot (o + s) % RlSize; insert, remove   *)
(* and the removal of a range take a list of S to a list of the set they    *)
(* should leave, through every branch of the code.  So the list has its     *)
(* shape in every state, and is the set of list.h.                          *)
(*                                                                         *)
(* Last CSndLossList, which is inserted into anywhere.  Its ranges need not  *)
(* be maximal, so Stands(l, H, E, o) says that l has the ranges a .. E[a],   *)
(* a in H, apart from one another, number s in slot (o + s) % SlSize, and   *)
(* Holds(l, C, o) that they cover C.  While insert closes up, the new range  *)
(* may reach over those that follow it: Loose.                             *)
(***************************************************************************)
EXTENDS SndLossList, RcvLossList, FiniteSetTheorems, WellFoundedInduction, TLAPS

(* Division with remainder, for a divisor that is a constant.              *)
LEMMA DivMod ==
  ASSUME NEW a \in Int, NEW r \in Int, r >= 2
  PROVE  a = r * (a \div r) + (a % r) /\ 0 <= a % r /\ a % r < r
  OBVIOUS

(* A multiple of r strictly between -2r and 2r is -r, 0 or r.              *)
LEMMA NearMultiple ==
  ASSUME NEW r \in Int, r >= 2, NEW q \in Int, -2 * r < r * q, r * q < 2 * r
  PROVE  r * q \in {-r, 0, r}
  <1>1. CASE q >= 2
    <2>1. r * q >= r * 2
      BY <1>1
    <2>2. QED
      BY <2>1
  <1>2. CASE q <= -2
    <2>1. r * q <= r * (-2)
      BY <1>2
    <2>2. QED
      BY <2>1
  <1>3. CASE q \in {-1, 0, 1}
    BY <1>3
  <1>4. QED
    BY <1>1, <1>2, <1>3

(* Two numbers less than r apart have remainders as far apart, or r more    *)
(* or r less.                                                              *)
LEMMA RemainderGap ==
  ASSUME NEW r \in Int, r >= 2, NEW a \in Int, NEW b \in Int, -r < b - a, b - a < r
  PROVE  (b % r) - (a % r) \in {b - a, b - a - r, b - a + r}
  <1> DEFINE p == a \div r
             q == b \div r
             m == a % r
             n == b % r
  <1>1. p \in Int /\ q \in Int /\ m \in Int /\ n \in Int
    OBVIOUS
  <1>2. a = r * p + m /\ 0 <= m /\ m < r /\ b = r * q + n /\ 0 <= n /\ n < r
    BY DivMod
  <1> HIDE DEF p, q, m, n
  <1>3. (n - m) - (b - a) = r * (p - q)
    BY <1>1, <1>2
  <1>4. r * (p - q) \in {-r, 0, r}
    BY <1>1, <1>2, <1>3, NearMultiple
  <1>5. n - m \in {b - a, b - a - r, b - a + r}
    BY <1>1, <1>3, <1>4
  <1>6. QED
    BY <1>5 DEF m, n

(* A wrapped number is a sequence number.                                  *)
LEMMA WrapRange ==
  ASSUME NEW a \in Int
  PROVE  Wrap(a) \in 0 .. MaxSeqNo
  BY SeqNoAssumption DEF Wrap

(* A remainder is the only number of its range that differs from a by a     *)
(* multiple of r.                                                          *)
LEMMA SameRemainder ==
  ASSUME NEW r \in Int, r >= 2, NEW a \in Int, NEW b \in Int,
         NEW m \in 0 .. r - 1, -r < b - a, b - a < r,
         m - (a % r) \in {b - a, b - a - r, b - a + r}
  PROVE  b % r = m
  <1>1. (b % r) - (a % r) \in {b - a, b - a - r, b - a + r}
    BY RemainderGap
  <1>2. 0 <= b % r /\ b % r < r /\ b % r \in Int /\ a % r \in Int
    BY DivMod
  <1> DEFINE x == a % r
             y == b % r
  <1> HIDE DEF x, y
  <1>3. x \in Int /\ y \in Int /\ 0 <= y /\ y < r /\ m \in Int /\ 0 <= m /\ m <= r - 1
    BY <1>2 DEF x, y
  <1>4. y - x \in {b - a, b - a - r, b - a + r} /\ m - x \in {b - a, b - a - r, b - a + r}
    BY <1>1 DEF x, y
  <1>5. y - m \in {0, r, -r, 2 * r, -2 * r}
    BY <1>3, <1>4
  <1>6. y = m
    BY <1>3, <1>5
  <1>7. QED
    BY <1>6 DEF y

(* Two numbers less than a circle apart wrap to numbers as far apart, or   *)
(* one circle more or less.                                                *)
LEMMA WrapGap ==
  ASSUME NEW a \in Int, NEW b \in Int, NEW M, M = MaxSeqNo + 1, -M < b - a, b - a < M
  PROVE  Wrap(b) - Wrap(a) \in {b - a, b - a - M, b - a + M}
  <1>1. M \in Int /\ M >= 2
    BY SeqNoAssumption
  <1>2. (b % M) - (a % M) \in {b - a, b - a - M, b - a + M}
    BY <1>1, RemainderGap
  <1>3. QED
    BY <1>2 DEF Wrap

(* seqoff is the difference of the unwrapped numbers: an offset into the    *)
(* send buffer, the receive buffer or a loss list is the right one.        *)
THEOREM SeqOffAgrees ==
  ASSUME NEW a \in Int, NEW b \in Int, -SeqNoTH < b - a, b - a < SeqNoTH
  PROVE  seqoff(Wrap(a), Wrap(b)) = b - a
  <1> DEFINE M == MaxSeqNo + 1
             x == Wrap(a)
             y == Wrap(b)
  <1>1. M \in Int /\ M = 2 * SeqNoTH + 2 /\ SeqNoTH \in Int /\ SeqNoTH >= 1
    BY SeqNoAssumption
  <1>2. x \in 0 .. MaxSeqNo /\ y \in 0 .. MaxSeqNo /\ MaxSeqNo \in Int
    BY WrapRange, SeqNoAssumption
  <1>3. y - x \in {b - a, b - a - M, b - a + M}
    <2>1. -M < b - a /\ b - a < M
      BY <1>1
    <2>2. QED
      BY <2>1, WrapGap
  <1> HIDE DEF M, x, y
  <1>4. MaxSeqNo = M - 1
    BY <1>1, <1>2 DEF M
  <1>5. seqoff(x, y) = b - a
    BY <1>1, <1>2, <1>3, <1>4 DEF seqoff, Distance
  <1>6. QED
    BY <1>5 DEF x, y

(* seqcmp has the sign of the difference of the unwrapped numbers, so every *)
(* test of the code (is this ACK newer, is this packet beyond the largest   *)
(* one seen) decides as it would without wrapping.                         *)
THEOREM SeqCmpAgrees ==
  ASSUME NEW a \in Int, NEW b \in Int, -SeqNoTH < b - a, b - a < SeqNoTH
  PROVE  /\ seqcmp(Wrap(a), Wrap(b)) > 0 <=> a > b
         /\ seqcmp(Wrap(a), Wrap(b)) = 0 <=> a = b
         /\ seqcmp(Wrap(a), Wrap(b)) < 0 <=> a < b
  <1> DEFINE M == MaxSeqNo + 1
             x == Wrap(a)
             y == Wrap(b)
  <1>1. M \in Int /\ M = 2 * SeqNoTH + 2 /\ SeqNoTH \in Int /\ SeqNoTH >= 1
    BY SeqNoAssumption
  <1>2. x \in 0 .. MaxSeqNo /\ y \in 0 .. MaxSeqNo /\ MaxSeqNo \in Int
    BY WrapRange, SeqNoAssumption
  <1>3. y - x \in {b - a, b - a - M, b - a + M}
    <2>1. -M < b - a /\ b - a < M
      BY <1>1
    <2>2. QED
      BY <2>1, WrapGap
  <1> HIDE DEF M, x, y
  <1>4. MaxSeqNo = M - 1
    BY <1>1, <1>2 DEF M
  <1>5. /\ seqcmp(x, y) > 0 <=> a > b
        /\ seqcmp(x, y) = 0 <=> a = b
        /\ seqcmp(x, y) < 0 <=> a < b
    BY <1>1, <1>2, <1>3, <1>4 DEF seqcmp, Distance
  <1>6. QED
    BY <1>5 DEF x, y

(* seqlen counts the numbers from one to the other, both included, over     *)
(* any stretch of the circle: the flow window test and the loss counters.  *)
THEOREM SeqLenAgrees ==
  ASSUME NEW a \in Int, NEW b \in Int, a <= b, b - a <= MaxSeqNo
  PROVE  seqlen(Wrap(a), Wrap(b)) = b - a + 1
  <1> DEFINE M == MaxSeqNo + 1
             x == Wrap(a)
             y == Wrap(b)
  <1>1. M \in Int /\ M >= 2 /\ MaxSeqNo \in Int
    BY SeqNoAssumption
  <1>2. x \in 0 .. MaxSeqNo /\ y \in 0 .. MaxSeqNo
    BY WrapRange
  <1>3. y - x \in {b - a, b - a - M, b - a + M}
    <2>1. -M < b - a /\ b - a < M
      BY <1>1
    <2>2. QED
      BY <2>1, WrapGap
  <1> HIDE DEF M, x, y
  <1>4. MaxSeqNo = M - 1
    BY <1>1 DEF M
  <1>5. seqlen(x, y) = b - a + 1
    BY <1>1, <1>2, <1>3, <1>4 DEF seqlen
  <1>6. QED
    BY <1>5 DEF x, y

(* incseq, decseq and incseq by an offset step along the circle as + and -  *)
(* do on the unwrapped numbers, across the wrap too.                       *)
THEOREM SeqStepAgrees ==
  ASSUME NEW a \in Int, NEW n \in 0 .. MaxSeqNo
  PROVE  /\ incseq(Wrap(a)) = Wrap(a + 1)
         /\ decseq(Wrap(a)) = Wrap(a - 1)
         /\ incseqBy(Wrap(a), n) = Wrap(a + n)
  <1> DEFINE M == MaxSeqNo + 1
             x == a % M
             u == incseq(Wrap(a))
             d == decseq(Wrap(a))
             v == incseqBy(Wrap(a), n)
  <1>1. M \in Int /\ M >= 4 /\ MaxSeqNo \in Int /\ n \in Int /\ MaxSeqNo = M - 1
    BY SeqNoAssumption
  <1>2. Wrap(a) = x /\ x \in Int /\ 0 <= x /\ x < M
    BY <1>1, DivMod DEF Wrap
  <1> HIDE DEF M, x
  <1>3. u \in 0 .. M - 1 /\ u - x \in {1, 1 - M}
    BY <1>1, <1>2 DEF incseq
  <1>4. d \in 0 .. M - 1 /\ d - x \in {-1, -1 + M}
    BY <1>1, <1>2 DEF decseq
  <1>5. v \in 0 .. M - 1 /\ v - x \in {n, n - M}
    BY <1>1, <1>2 DEF incseqBy
  <1> HIDE DEF u, d, v
  <1>6. ASSUME NEW b \in Int, NEW m \in 0 .. M - 1, -M < b - a, b - a < M,
               m - x \in {b - a, b - a - M, b - a + M}
        PROVE  b % M = m
    <2>1. M >= 2
      BY <1>1
    <2>2. m - (a % M) \in {b - a, b - a - M, b - a + M}
      BY <1>6 DEF x
    <2>3. QED
      BY <1>1, <1>6, <2>1, <2>2, SameRemainder
  <1>7. (a + 1) % M = u
    <2>1. (a + 1) - a = 1 /\ -M < 1 /\ 1 < M
      BY <1>1
    <2>2. QED
      BY <1>3, <1>6, <2>1
  <1>8. (a - 1) % M = d
    <2>1. (a - 1) - a = -1 /\ -M < -1 /\ -1 < M
      BY <1>1
    <2>2. QED
      BY <1>4, <1>6, <2>1
  <1>9. (a + n) % M = v
    <2>1. (a + n) - a = n /\ -M < n /\ n < M
      BY <1>1
    <2>2. QED
      BY <1>1, <1>5, <1>6, <2>1, a + n \in Int
  <1>10. QED
    BY <1>7, <1>8, <1>9 DEF Wrap, M, u, d, v

-----------------------------------------------------------------------------
(* Slots: the slot of a number is its remainder, shifted.                   *)
At(o, a) == (o + a) % RlSize

(* A multiple of the divisor does not change a remainder.                   *)
LEMMA SameMod ==
  ASSUME NEW z \in Int, z >= 2, NEW a \in Int, NEW b \in Int, NEW q \in Int, a - b = z * q
  PROVE  a % z = b % z
  <1> DEFINE m == a % z
             n == b % z
             c == a \div z
             d == b \div z
  <1>1. a = z * c + m /\ 0 <= m /\ m < z /\ b = z * d + n /\ 0 <= n /\ n < z
    BY DivMod
  <1>2. c \in Int /\ d \in Int /\ m \in Int /\ n \in Int
    OBVIOUS
  <1> HIDE DEF m, n, c, d
  <1> DEFINE e == q - c + d
  <1>3. m - n = z * e /\ e \in Int
    BY <1>1, <1>2
  <1> HIDE DEF e
  <1>4. -2 * z < z * e /\ z * e < 2 * z
    BY <1>1, <1>2, <1>3
  <1>5. z * e \in {-z, 0, z}
    BY <1>3, <1>4, NearMultiple
  <1>6. m = n
    BY <1>1, <1>2, <1>3, <1>5
  <1>7. QED
    BY <1>6 DEF m, n

(* Numbers less than z apart with the same remainder are the same.          *)
LEMMA ModApart ==
  ASSUME NEW z \in Int, z >= 2, NEW x \in Int, NEW y \in Int, x % z = y % z,
         y - x < z, x - y < z
  PROVE  x = y
  <1> DEFINE c == x \div z
             d == y \div z
             m == x % z
  <1>1. x = z * c + m /\ y = z * d + (y % z) /\ c \in Int /\ d \in Int /\ m \in Int
    BY DivMod
  <1>2. y % z = m
    OBVIOUS
  <1> HIDE DEF c, d, m
  <1>3. x - y = z * (c - d) /\ c - d \in Int
    BY <1>1, <1>2
  <1> DEFINE e == c - d
  <1>4. x - y = z * e /\ e \in Int
    BY <1>3
  <1> HIDE DEF e
  <1>5. -z < z * e /\ z * e < z
    BY <1>4
  <1>6. -2 * z < z * e /\ z * e < 2 * z
    BY <1>4, <1>5
  <1>7. z * e \in {-z, 0, z}
    BY <1>4, <1>6, NearMultiple
  <1>8. z * e = 0
    BY <1>4, <1>5, <1>7
  <1>9. QED
    BY <1>4, <1>8

(* The remainder of k more.                                                *)
LEMMA ModShift ==
  ASSUME NEW z \in Int, z >= 2, NEW x \in Int, NEW k \in Int
  PROVE  ((x % z) + k) % z = (x + k) % z
  <1> DEFINE q == x \div z
             m == x % z
  <1>1. x = z * q + m /\ q \in Int /\ m \in Int
    BY DivMod
  <1> HIDE DEF q, m
  <1> DEFINE u == x + k
             v == m + k
  <1>2. u - v = z * q /\ u \in Int /\ v \in Int
    BY <1>1
  <1> HIDE DEF u, v
  <1>3. u % z = v % z
    BY <1>1, <1>2, SameMod
  <1>4. QED
    BY <1>3 DEF m, u, v

(* The size of the arrays.                                                 *)
LEMMA Size == RlSize \in Nat /\ RlSize >= 2 /\ RlSize < SeqNoTH - 2 /\ SeqNoTH \in Nat
  BY RcvLossListAssumption, SeqNoAssumption DEF RlSize

(* A slot is a slot.                                                       *)
LEMMA AtSlot ==
  ASSUME NEW o \in Int, NEW a \in Int
  PROVE  At(o, a) \in RlSlots /\ At(o, a) \in Int
  <1>1. RlSize \in Int /\ RlSize >= 2
    BY Size
  <1>2. o + a \in Int
    OBVIOUS
  <1> DEFINE x == o + a
  <1>3. 0 <= x % RlSize /\ x % RlSize < RlSize /\ x % RlSize \in Int
    BY <1>1, <1>2, DivMod
  <1>4. QED
    BY <1>1, <1>3 DEF At, RlSlots

(* Numbers less than the size apart have slots of their own.                *)
LEMMA AtApart ==
  ASSUME NEW o \in Int, NEW a \in Int, NEW b \in Int, At(o, a) = At(o, b),
         b - a < RlSize, a - b < RlSize
  PROVE  a = b
  <1>1. RlSize \in Int /\ RlSize >= 2 /\ o + a \in Int /\ o + b \in Int
    BY Size
  <1>2. (o + b) - (o + a) < RlSize /\ (o + a) - (o + b) < RlSize
    OBVIOUS
  <1>3. o + a = o + b
    BY <1>1, <1>2, ModApart DEF At
  <1>4. QED
    BY <1>3

(* The slot k further on.                                                  *)
LEMMA AtShift ==
  ASSUME NEW o \in Int, NEW a \in Int, NEW k \in Int
  PROVE  (At(o, a) + k) % RlSize = At(o, a + k)
  <1> DEFINE x == o + a
             z == RlSize
  <1>1. z \in Int /\ z >= 2 /\ x \in Int /\ x + k = o + (a + k)
    BY Size
  <1> HIDE DEF x, z
  <1>2. ((x % z) + k) % z = (x + k) % z
    BY <1>1, ModShift
  <1>3. QED
    BY <1>1, <1>2 DEF At, x, z

(* The search's step back.                                                 *)
LEMMA BackIs ==
  ASSUME NEW o \in Int, NEW s \in Int, NEW k \in Int
  PROVE  Back(At(o, s), k) = At(o, s - k)
  <1> DEFINE z == RlSize
             x == At(o, s)
             y == x - k
  <1>1. z \in Int /\ z >= 2 /\ x \in Int /\ y \in Int
    BY Size, AtSlot
  <1>2. (x + (-k)) % z = At(o, s + (-k))
    BY AtShift
  <1>3. x + (-k) = y /\ s + (-k) = s - k
    BY <1>1
  <1>4. (y + z) % z = y % z
    <2>1. (y + z) - y = z * 1 /\ y + z \in Int
      BY <1>1
    <2>2. z >= 2 /\ 1 \in Int /\ y \in Int
      BY <1>1
    <2> HIDE DEF y, z
    <2>3. QED
      BY <1>1, <2>1, <2>2, SameMod
  <1>5. QED
    BY <1>2, <1>3, <1>4 DEF Back

(* Numbers less than SeqNoTH apart wrap to numbers of their own.            *)
LEMMA WrapApart ==
  ASSUME NEW a \in Int, NEW b \in Int, b - a < SeqNoTH, a - b < SeqNoTH, Wrap(a) = Wrap(b)
  PROVE  a = b
  <1>1. SeqNoTH \in Nat /\ SeqNoTH >= 1 /\ Wrap(a) \in Int /\ MaxSeqNo \in Int
    BY SeqNoAssumption, WrapRange
  <1>2. seqoff(Wrap(a), Wrap(b)) = b - a
    BY <1>1, SeqOffAgrees
  <1>3. seqoff(Wrap(a), Wrap(a)) = 0
    BY <1>1 DEF seqoff, Distance
  <1>4. QED
    BY <1>2, <1>3

-----------------------------------------------------------------------------
(* The ranges of a set of numbers.                                         *)
Starts(S) == {a \in S : a - 1 \notin S}
Run(S, a, b) == /\ a \in S /\ b \in S /\ a <= b
                /\ a - 1 \notin S /\ b + 1 \notin S
                /\ a .. b \subseteq S

IsLeast(T, a)    == a \in T /\ \A d \in T : a <= d
IsGreatest(T, a) == a \in T /\ \A d \in T : d <= a
Follows(T, a, c) == a \in T /\ c \in T /\ a < c /\ \A d \in T : d <= a \/ c <= d

(* Every element of T is first or last or has a neighbour on that side.     *)
Chained(T) ==
  /\ T \subseteq Nat
  /\ \A a \in T : IsLeast(T, a) \/ (\E d \in T : Follows(T, d, a))
  /\ \A a \in T : IsGreatest(T, a) \/ (\E d \in T : Follows(T, a, d))
  /\ T # {} => (\E a \in T : IsLeast(T, a)) /\ (\E a \in T : IsGreatest(T, a))

(* A set of numbers less than the size apart, which all fit.                *)
Narrow(S) == S \subseteq Nat /\ \A a, b \in S : b - a < RlSize

(* A set of natural numbers that is not empty has a least element.          *)
LEMMA LeastNumber ==
  ASSUME NEW T, T \subseteq Nat, T # {}
  PROVE  \E x \in T : \A y \in T : x <= y
  <1>1. \E x \in T : \A y \in T : ~(<<y, x>> \in OpToRel(<, Nat))
    BY WFMin, NatLessThanWellFounded
  <1>2. PICK x \in T : \A y \in T : ~(<<y, x>> \in OpToRel(<, Nat))
    BY <1>1
  <1>3. ASSUME NEW y \in T PROVE x <= y
    <2>1. ~(y < x)
      BY <1>2, <1>3 DEF OpToRel
    <2>2. QED
      BY <2>1, <1>3
  <1>4. QED
    BY <1>3

(* One whose elements have a bound has a greatest.                          *)
LEMMA GreatestNumber ==
  ASSUME NEW T, NEW b \in Nat, T \subseteq 0 .. b, T # {}
  PROVE  \E x \in T : \A y \in T : y <= x
  <1> DEFINE U == {b - y : y \in T}
  <1>1. \A y \in T : y \in Int /\ b - y \in Nat
    OBVIOUS
  <1>2. U \subseteq Nat /\ U # {}
    BY <1>1, Zenon
  <1>3. PICK u \in U : \A y \in U : u <= y
    BY <1>2, LeastNumber
  <1>4. PICK x \in T : u = b - x
    BY <1>3
  <1>5. ASSUME NEW y \in T PROVE y <= x
    <2>1. u <= b - y
      BY <1>3, <1>5
    <2>2. QED
      BY <2>1, <1>4, <1>5
  <1>6. QED
    BY <1>5

(* A narrow set has a bound.                                               *)
LEMMA NarrowBound ==
  ASSUME NEW S, Narrow(S)
  PROVE  \E b \in Nat : S \subseteq 0 .. b
  <1>1. CASE S = {}
    BY <1>1
  <1>2. CASE S # {}
    <2>1. PICK x \in S : x \in Nat
      BY <1>2 DEF Narrow
    <2>2. S \subseteq 0 .. x + RlSize /\ x + RlSize \in Nat
      BY <2>1, Size DEF Narrow
    <2>3. QED
      BY <2>2
  <1>3. QED
    BY <1>1, <1>2

(* It is finite.                                                           *)
LEMMA NarrowFinite ==
  ASSUME NEW S, Narrow(S)
  PROVE  IsFiniteSet(S)
  <1>1. PICK b \in Nat : S \subseteq 0 .. b
    BY NarrowBound
  <1>2. IsFiniteSet(0 .. b)
    BY FS_Interval
  <1>3. QED
    BY <1>1, <1>2, FS_Subset

(* Its elements have neighbours, and it has a first and a last.             *)
LEMMA BoundedChained ==
  ASSUME NEW T, NEW b \in Nat, T \subseteq 0 .. b
  PROVE  Chained(T)
  <1>1. \A a \in T : a \in Nat
    OBVIOUS
  <1>2. ASSUME NEW a \in T PROVE IsLeast(T, a) \/ \E d \in T : Follows(T, d, a)
    <2> DEFINE U == {d \in T : d < a}
    <2>1. CASE U = {}
      BY <1>1, <2>1 DEF IsLeast
    <2>2. CASE U # {}
      <3>1. U \subseteq 0 .. b
        OBVIOUS
      <3>2. PICK x \in U : \A y \in U : y <= x
        BY <2>2, <3>1, GreatestNumber
      <3>3. \A d \in T : d <= x \/ a <= d
        BY <1>1, <3>2
      <3>4. Follows(T, x, a)
        BY <3>2, <3>3 DEF Follows
      <3>5. QED
        BY <3>2, <3>4
    <2>3. QED
      BY <2>1, <2>2
  <1>3. ASSUME NEW a \in T PROVE IsGreatest(T, a) \/ \E d \in T : Follows(T, a, d)
    <2> DEFINE U == {d \in T : d > a}
    <2>1. CASE U = {}
      BY <1>1, <2>1 DEF IsGreatest
    <2>2. CASE U # {}
      <3>1. U \subseteq Nat
        BY <1>1
      <3>2. PICK x \in U : \A y \in U : x <= y
        BY <2>2, <3>1, LeastNumber
      <3>3. \A d \in T : d <= a \/ x <= d
        BY <1>1, <3>2
      <3>4. Follows(T, a, x)
        BY <3>2, <3>3 DEF Follows
      <3>5. QED
        BY <3>2, <3>4
    <2>3. QED
      BY <2>1, <2>2
  <1>4. ASSUME T # {}
        PROVE (\E a \in T : IsLeast(T, a)) /\ (\E a \in T : IsGreatest(T, a))
    <2>1. T \subseteq Nat
      OBVIOUS
    <2>2. \E x \in T : \A y \in T : x <= y
      BY <1>4, <2>1, LeastNumber
    <2>3. \E x \in T : \A y \in T : y <= x
      BY <1>4, GreatestNumber
    <2>4. QED
      BY <2>2, <2>3 DEF IsLeast, IsGreatest
  <1>5. QED
    BY <1>1, <1>2, <1>3, <1>4 DEF Chained

(* The starts of a narrow set are one, with a first if it has any number.   *)
LEMMA StartsNarrow ==
  ASSUME NEW S, Narrow(S)
  PROVE  /\ Starts(S) \subseteq S /\ Narrow(Starts(S)) /\ Chained(Starts(S))
         /\ S # {} => \E a \in Starts(S) : IsLeast(Starts(S), a) /\ IsLeast(S, a)
         /\ S # {} => \E a \in Starts(S) : IsGreatest(Starts(S), a)
  <1>1. Starts(S) \subseteq S /\ Narrow(Starts(S)) /\ S \subseteq Nat
    BY DEF Starts, Narrow
  <1>2. PICK b \in Nat : Starts(S) \subseteq 0 .. b
    BY <1>1, NarrowBound
  <1>3. Chained(Starts(S))
    BY <1>2, BoundedChained
  <1>4. ASSUME S # {}
        PROVE \E a \in Starts(S) : IsLeast(Starts(S), a) /\ IsLeast(S, a)
    <2>1. PICK x \in S : \A y \in S : x <= y
      BY <1>1, <1>4, LeastNumber
    <2>2. x \in Nat /\ x - 1 \notin S
      BY <1>1, <2>1
    <2>3. x \in Starts(S)
      BY <2>1, <2>2 DEF Starts
    <2>4. QED
      BY <1>1, <2>1, <2>3 DEF IsLeast
  <1>5. ASSUME S # {} PROVE \E a \in Starts(S) : IsGreatest(Starts(S), a)
    <2>1. Starts(S) # {}
      BY <1>4, <1>5
    <2>2. QED
      BY <1>3, <2>1 DEF Chained
  <1>6. QED
    BY <1>1, <1>3, <1>4, <1>5

(* Every number is in a range.                                             *)
LEMMA InRun ==
  ASSUME NEW S, Narrow(S), NEW s \in S
  PROVE  \E p, q \in S : Run(S, p, q) /\ p <= s /\ s <= q
  <1>1. S \subseteq Nat /\ s \in Nat /\ RlSize \in Nat
    BY Size DEF Narrow
  <1> DEFINE U == {x \in Nat : s <= x /\ x \notin S}
             V == {k \in 0 .. s : s - k - 1 \notin S}
  <1>2. PICK u \in U : \A y \in U : u <= y
    <2>1. s + RlSize \notin S
      BY <1>1 DEF Narrow
    <2>2. s + RlSize \in U
      BY <1>1, <2>1
    <2>3. QED
      BY <2>2, LeastNumber
  <1>3. PICK v \in V : \A y \in V : v <= y
    <2>1. s - s - 1 \notin S
      BY <1>1
    <2>2. s \in V
      BY <1>1, <2>1
    <2>3. V \subseteq Nat
      BY <1>1
    <2>4. QED
      BY <2>2, <2>3, LeastNumber
  <1>4. \A x \in Nat : s <= x /\ x < u => x \in S
    BY <1>2
  <1>5. \A x \in Nat : s - v <= x /\ x <= s => x \in S
    <2>1. SUFFICES ASSUME NEW x \in Nat, s - v <= x, x <= s, x \notin S PROVE FALSE
      OBVIOUS
    <2>2. x # s
      BY <2>1
    <2>3. s - x - 1 \in 0 .. s /\ s - (s - x - 1) - 1 = x
      BY <1>1, <2>1, <2>2
    <2>4. s - x - 1 \in V
      BY <2>1, <2>3
    <2>5. v <= s - x - 1 /\ v \in Nat
      BY <1>3, <2>4
    <2>6. QED
      BY <1>1, <2>1, <2>5
  <1> DEFINE p == s - v
             q == u - 1
  <1>6. u \in Nat /\ u > s /\ v \in Nat /\ v <= s /\ u \notin S /\ s - v - 1 \notin S
    BY <1>1, <1>2, <1>3
  <1>7. p \in Nat /\ q \in Nat /\ p <= s /\ s <= q /\ q + 1 = u
    BY <1>1, <1>6
  <1>8. \A x \in p .. q : x \in S
    BY <1>1, <1>4, <1>5, <1>6, <1>7
  <1>9. p - 1 \notin S /\ q + 1 \notin S
    BY <1>1, <1>6, <1>7
  <1> HIDE DEF p, q
  <1>10. p \in S /\ q \in S
    <2>1. p \in p .. q /\ q \in p .. q
      BY <1>1, <1>7
    <2>2. QED
      BY <1>8, <2>1
  <1>10a. Run(S, p, q)
    BY <1>7, <1>8, <1>9, <1>10 DEF Run
  <1>11. QED
    BY <1>7, <1>10, <1>10a

(* Two ranges that share a number are one.                                  *)
LEMMA SameRun ==
  ASSUME NEW S, Narrow(S), NEW a \in S, NEW b \in S, NEW p \in S, NEW q \in S, NEW x \in S,
         Run(S, a, b), Run(S, p, q), a <= x, x <= b, p <= x, x <= q
  PROVE  a = p /\ b = q
  <1>1. a \in Nat /\ b \in Nat /\ p \in Nat /\ q \in Nat /\ x \in Nat
    BY DEF Narrow
  <1>2. /\ \A y \in a .. b : y \in S
        /\ \A y \in p .. q : y \in S
        /\ a - 1 \notin S /\ b + 1 \notin S /\ p - 1 \notin S /\ q + 1 \notin S
    BY DEF Run
  <1>3. ~(a < p)
    <2>1. SUFFICES ASSUME a < p PROVE p - 1 \in a .. b
      BY <1>2
    <2>2. QED
      BY <1>1, <2>1
  <1>4. ~(p < a)
    <2>1. SUFFICES ASSUME p < a PROVE a - 1 \in p .. q
      BY <1>2
    <2>2. QED
      BY <1>1, <2>1
  <1>5. ~(b < q)
    <2>1. SUFFICES ASSUME b < q PROVE b + 1 \in p .. q
      BY <1>2
    <2>2. QED
      BY <1>1, <2>1
  <1>6. ~(q < b)
    <2>1. SUFFICES ASSUME q < b PROVE q + 1 \in a .. b
      BY <1>2
    <2>2. QED
      BY <1>1, <2>1
  <1>7. QED
    BY <1>1, <1>3, <1>4, <1>5, <1>6

(* The set without s.                                                      *)
Without(S, s) == S \ {s}

(* A number that goes takes its own start along and leaves one behind it.   *)
LEMMA StartsLess ==
  ASSUME NEW S, S \subseteq Nat, NEW s \in S
  PROVE  Starts(Without(S, s)) = (Starts(S) \ {s}) \cup (IF s + 1 \in S THEN {s + 1} ELSE {})
  <1>1. \A x \in S : x \in Nat
    OBVIOUS
  <1>2. ASSUME NEW x
        PROVE  x \in Starts(Without(S, s)) <=> x \in S /\ x # s /\ (x - 1 \notin S \/ x = s + 1)
    BY <1>1 DEF Starts, Without
  <1>3. ASSUME NEW x
        PROVE  x \in (Starts(S) \ {s}) \cup (IF s + 1 \in S THEN {s + 1} ELSE {})
                 <=> x \in S /\ x # s /\ (x - 1 \notin S \/ x = s + 1)
    BY <1>1 DEF Starts, Without
  <1>4. QED
    BY <1>2, <1>3

(* The ranges without it: the others, what was before it and what is after. *)
LEMMA RunsLess ==
  ASSUME NEW S, Narrow(S), NEW p \in S, NEW q \in S, Run(S, p, q),
         NEW s \in S, p <= s, s <= q,
         NEW a \in S, NEW b \in S, Run(Without(S, s), a, b)
  PROVE  \/ (Run(S, a, b) /\ a # p /\ a # s /\ a # s + 1 /\ b # s)
         \/ (a = s + 1 /\ b = q)
         \/ (a = p /\ b = s - 1)
  <1>0. S \subseteq Nat
    BY DEF Narrow
  <1>1. a \in Nat /\ b \in Nat /\ p \in Nat /\ q \in Nat /\ s \in Nat /\ a <= b
    BY <1>0 DEF Run, Without
  <1>2. /\ \A y \in a .. b : y \in S /\ y # s
        /\ a - 1 \in S => a - 1 = s
        /\ b + 1 \in S => b + 1 = s
        /\ a # s /\ b # s
    BY DEF Run, Without
  <1>3. /\ \A y \in p .. q : y \in S
        /\ p - 1 \notin S /\ q + 1 \notin S
    BY DEF Run
  <1>4. s \notin a .. b
    BY <1>2
  <1>5. CASE a - 1 = s
    <2>1. a = s + 1 /\ b + 1 # s
      BY <1>1, <1>5
    <2>2. b + 1 \notin S
      BY <1>2, <2>1
    <2>3. ~(b < q)
      <3>1. SUFFICES ASSUME b < q PROVE b + 1 \in p .. q
        BY <1>3, <2>2
      <3>2. QED
        BY <1>1, <2>1, <3>1
    <2>4. ~(q < b)
      <3>1. SUFFICES ASSUME q < b PROVE q + 1 \in a .. b
        BY <1>2, <1>3
      <3>2. QED
        BY <1>1, <2>1, <3>1
    <2>5. QED
      BY <1>1, <2>1, <2>3, <2>4
  <1>6. CASE b + 1 = s
    <2>1. b = s - 1 /\ a - 1 # s
      BY <1>1, <1>6
    <2>2. a - 1 \notin S
      BY <1>2, <2>1
    <2>3. ~(p < a)
      <3>1. SUFFICES ASSUME p < a PROVE a - 1 \in p .. q
        BY <1>3, <2>2
      <3>2. QED
        BY <1>1, <2>1, <3>1
    <2>4. ~(a < p)
      <3>1. SUFFICES ASSUME a < p PROVE p - 1 \in a .. b
        BY <1>2, <1>3
      <3>2. QED
        BY <1>1, <2>1, <3>1
    <2>5. QED
      BY <1>1, <2>1, <2>3, <2>4
  <1>7. CASE a - 1 # s /\ b + 1 # s
    <2>1. a - 1 \notin S /\ b + 1 \notin S
      BY <1>2, <1>7
    <2>2. a .. b \subseteq S
      BY <1>2
    <2>3. Run(S, a, b)
      BY <1>1, <2>1, <2>2 DEF Run
    <2>4. a # p
      <3>1. SUFFICES ASSUME a = p PROVE FALSE
        OBVIOUS
      <3>2. a <= a /\ a <= b /\ p <= a /\ a <= q
        BY <1>1, <3>1
      <3>3. b = q
        BY <1>0, <2>3, <3>2, SameRun
      <3>4. QED
        BY <1>1, <1>4, <3>1, <3>3
    <2>5. a # s + 1
      BY <1>1, <1>7
    <2>6. QED
      BY <1>2, <2>3, <2>4, <2>5
  <1>8. QED
    BY <1>5, <1>6, <1>7

-----------------------------------------------------------------------------
(* The links: each start's slot leads to the next start's and back.         *)
Links(l, T, o) ==
  /\ l.next \in [RlSlots -> Int] /\ l.prior \in [RlSlots -> Int]
  /\ \A a, c \in T : Follows(T, a, c) =>
       l.next[At(o, a)] = At(o, c) /\ l.prior[At(o, c)] = At(o, a)
  /\ \A a \in T : IsLeast(T, a) => l.head = At(o, a) /\ l.prior[At(o, a)] = -1
  /\ \A a \in T : IsGreatest(T, a) => l.tail = At(o, a) /\ l.next[At(o, a)] = -1

(* The slots of the elements of T are their own.                           *)
Apart(T, o) == \A a, c \in T : At(o, a) = At(o, c) => a = c

(* What the links of slot At(o, s) tell of s.                               *)
LEMMA LinksTell ==
  ASSUME NEW o \in Int, NEW T, Chained(T), Apart(T, o),
         NEW l, Links(l, T, o), NEW s \in T
  PROVE  /\ l.head = At(o, s) <=> IsLeast(T, s)
         /\ l.tail = At(o, s) <=> IsGreatest(T, s)
         /\ l.next[At(o, s)] = -1 <=> IsGreatest(T, s)
         /\ l.prior[At(o, s)] = -1 <=> IsLeast(T, s)
         /\ \A a \in T : l.prior[At(o, s)] = At(o, a) <=> Follows(T, a, s)
         /\ \A a \in T : l.next[At(o, s)] = At(o, a) <=> Follows(T, s, a)
  <1>1. \A a \in T : a \in Nat /\ At(o, a) \in RlSlots /\ At(o, a) # -1
    <2>1. \A a \in T : a \in Nat /\ a \in Int
      BY DEF Chained
    <2>2. QED
      BY <2>1, AtSlot, Size DEF RlSlots
  <1>2. \A a, c \in T : IsLeast(T, a) /\ IsLeast(T, c) => a = c
    BY <1>1 DEF IsLeast
  <1>3. \A a, c \in T : IsGreatest(T, a) /\ IsGreatest(T, c) => a = c
    BY <1>1 DEF IsGreatest
  <1>4. l.head = At(o, s) <=> IsLeast(T, s)
    <2>1. PICK m \in T : IsLeast(T, m)
      BY DEF Chained
    <2>2. l.head = At(o, m)
      BY <2>1 DEF Links
    <2>3. QED
      BY <1>2, <2>1, <2>2 DEF Apart
  <1>5. l.tail = At(o, s) <=> IsGreatest(T, s)
    <2>1. PICK m \in T : IsGreatest(T, m)
      BY DEF Chained
    <2>2. l.tail = At(o, m)
      BY <2>1 DEF Links
    <2>3. QED
      BY <1>3, <2>1, <2>2 DEF Apart
  <1>6. /\ l.next[At(o, s)] = -1 <=> IsGreatest(T, s)
        /\ \A a \in T : l.next[At(o, s)] = At(o, a) <=> Follows(T, s, a)
    <2>1. CASE IsGreatest(T, s)
      <3>1. l.next[At(o, s)] = -1
        BY <2>1 DEF Links
      <3>2. \A a \in T : ~Follows(T, s, a)
        BY <1>1, <2>1 DEF IsGreatest, Follows
      <3>3. QED
        BY <1>1, <2>1, <3>1, <3>2
    <2>2. CASE ~IsGreatest(T, s)
      <3>1. PICK d \in T : Follows(T, s, d)
        BY <2>2 DEF Chained
      <3>2. l.next[At(o, s)] = At(o, d)
        BY <3>1 DEF Links
      <3>3. \A a \in T : Follows(T, s, a) => a = d
        BY <1>1, <3>1 DEF Follows
      <3>4. \A a \in T : At(o, d) = At(o, a) => d = a
        BY DEF Apart
      <3>5. QED
        BY <1>1, <2>2, <3>1, <3>2, <3>3, <3>4
    <2>3. QED
      BY <2>1, <2>2
  <1>7. /\ l.prior[At(o, s)] = -1 <=> IsLeast(T, s)
        /\ \A a \in T : l.prior[At(o, s)] = At(o, a) <=> Follows(T, a, s)
    <2>1. CASE IsLeast(T, s)
      <3>1. l.prior[At(o, s)] = -1
        BY <2>1 DEF Links
      <3>2. \A a \in T : ~Follows(T, a, s)
        BY <1>1, <2>1 DEF IsLeast, Follows
      <3>3. QED
        BY <1>1, <2>1, <3>1, <3>2
    <2>2. CASE ~IsLeast(T, s)
      <3>1. PICK d \in T : Follows(T, d, s)
        BY <2>2 DEF Chained
      <3>2. l.prior[At(o, s)] = At(o, d)
        BY <3>1 DEF Links
      <3>3. \A a \in T : Follows(T, a, s) => a = d
        BY <1>1, <3>1 DEF Follows
      <3>4. \A a \in T : At(o, d) = At(o, a) => d = a
        BY DEF Apart
      <3>5. QED
        BY <1>1, <2>2, <3>1, <3>2, <3>3, <3>4
    <2>3. QED
      BY <2>1, <2>2
  <1>8. QED
    BY <1>4, <1>5, <1>6, <1>7

(* The node of slot i is taken out of the links of l, which become m's.      *)
TakenOut(l, m, i) ==
  /\ m.next \in [RlSlots -> Int] /\ m.prior \in [RlSlots -> Int]
  /\ \A j \in RlSlots : j # i =>
       /\ m.next[j] = IF l.head # i /\ j = l.prior[i] THEN l.next[i] ELSE l.next[j]
       /\ m.prior[j] = IF j = l.next[i] THEN l.prior[i] ELSE l.prior[j]
  /\ m.head = IF l.head = i THEN l.next[i] ELSE l.head
  /\ m.tail = IF l.head # i /\ l.next[i] = -1 THEN l.prior[i] ELSE l.tail

(* A node of slot n is put after that of slot i.                            *)
PutAfter(l, m, i, n) ==
  /\ m.next \in [RlSlots -> Int] /\ m.prior \in [RlSlots -> Int]
  /\ m.next[n] = l.next[i] /\ m.next[i] = n /\ m.prior[n] = i
  /\ \A j \in RlSlots : j # i /\ j # n => m.next[j] = l.next[j]
  /\ \A j \in RlSlots : j # n =>
       m.prior[j] = IF l.tail # i /\ j = l.next[i] THEN n ELSE l.prior[j]
  /\ m.head = l.head
  /\ m.tail = IF l.tail = i THEN n ELSE l.tail

(* The node of slot i moves to slot n.                                      *)
MovedTo(l, m, i, n) ==
  /\ m.next \in [RlSlots -> Int] /\ m.prior \in [RlSlots -> Int]
  /\ m.next[n] = l.next[i] /\ m.prior[n] = l.prior[i]
  /\ \A j \in RlSlots : j # i /\ j # n =>
       /\ m.next[j] = IF l.head # i /\ j = l.prior[i] THEN n ELSE l.next[j]
       /\ m.prior[j] = IF l.tail # i /\ j = l.next[i] THEN n ELSE l.prior[j]
  /\ m.head = IF l.head = i THEN n ELSE l.head
  /\ m.tail = IF l.tail = i THEN n ELSE l.tail

(* Taking a start out of the links.                                         *)
LEMMA LinkRemove ==
  ASSUME NEW o \in Int, NEW T, Chained(T), Apart(T, o),
         NEW l, Links(l, T, o),
         NEW s \in T, NEW i, i = At(o, s),
         NEW m, TakenOut(l, m, i)
  PROVE  Links(m, T \ {s}, o)
  <1> USE DEF TakenOut
  <1>1. \A a \in T : a \in Nat /\ At(o, a) \in RlSlots
    <2>1. \A a \in T : a \in Nat /\ a \in Int
      BY DEF Chained
    <2>2. QED
      BY <2>1, AtSlot
  <1>2. /\ l.head = i <=> IsLeast(T, s)
        /\ l.next[i] = -1 <=> IsGreatest(T, s)
        /\ \A a \in T : l.prior[i] = At(o, a) <=> Follows(T, a, s)
        /\ \A a \in T : l.next[i] = At(o, a) <=> Follows(T, s, a)
    BY LinksTell
  <1>3. \A a \in T \ {s} : At(o, a) # i
    BY DEF Apart
  <1>4. \A a \in T : Follows(T, a, s) => ~IsLeast(T, s)
    BY <1>1 DEF Follows, IsLeast
  <1>5. \A a \in T \ {s} :
          m.next[At(o, a)] = IF Follows(T, a, s) THEN l.next[i] ELSE l.next[At(o, a)]
    BY <1>1, <1>2, <1>3, <1>4
  <1>6. \A a \in T \ {s} :
          m.prior[At(o, a)] = IF Follows(T, s, a) THEN l.prior[i] ELSE l.prior[At(o, a)]
    BY <1>1, <1>2, <1>3
  <1>7. ASSUME NEW a \in T \ {s}, NEW c \in T \ {s}, Follows(T \ {s}, a, c)
        PROVE  m.next[At(o, a)] = At(o, c) /\ m.prior[At(o, c)] = At(o, a)
    <2>1. a < c /\ \A d \in T \ {s} : d <= a \/ c <= d
      BY <1>7 DEF Follows
    <2>2. CASE Follows(T, a, c)
      <3>1. ~Follows(T, a, s) /\ ~Follows(T, s, c)
        BY <1>1, <2>2 DEF Follows
      <3>2. l.next[At(o, a)] = At(o, c) /\ l.prior[At(o, c)] = At(o, a)
        BY <2>2 DEF Links
      <3>3. QED
        BY <1>5, <1>6, <3>1, <3>2
    <2>3. CASE ~Follows(T, a, c)
      <3>1. a < s /\ s < c
        BY <1>1, <2>1, <2>3 DEF Follows
      <3>2. Follows(T, a, s) /\ Follows(T, s, c)
        BY <1>1, <2>1, <3>1 DEF Follows
      <3>3. QED
        BY <1>2, <1>5, <1>6, <3>2
    <2>4. QED
      BY <2>2, <2>3
  <1>8. ASSUME NEW a \in T \ {s}, IsLeast(T \ {s}, a)
        PROVE  m.head = At(o, a) /\ m.prior[At(o, a)] = -1
    <2>1. CASE IsLeast(T, a)
      <3>1. ~IsLeast(T, s) /\ ~Follows(T, s, a)
        BY <1>1, <2>1 DEF IsLeast, Follows
      <3>2. l.head = At(o, a) /\ l.prior[At(o, a)] = -1
        BY <2>1 DEF Links
      <3>3. QED
        BY <1>2, <1>6, <3>1, <3>2
    <2>2. CASE ~IsLeast(T, a)
      <3>1. s < a /\ \A d \in T \ {s} : a <= d
        BY <1>1, <1>8, <2>2 DEF IsLeast
      <3>2. IsLeast(T, s) /\ Follows(T, s, a)
        BY <1>1, <3>1 DEF IsLeast, Follows
      <3>3. l.prior[i] = -1
        BY <3>2 DEF Links
      <3>4. QED
        BY <1>2, <1>6, <3>2, <3>3
    <2>3. QED
      BY <2>1, <2>2
  <1>9. ASSUME NEW a \in T \ {s}, IsGreatest(T \ {s}, a)
        PROVE  m.tail = At(o, a) /\ m.next[At(o, a)] = -1
    <2>1. CASE IsGreatest(T, a)
      <3>1. ~IsGreatest(T, s) /\ ~Follows(T, a, s)
        BY <1>1, <2>1 DEF IsGreatest, Follows
      <3>2. l.tail = At(o, a) /\ l.next[At(o, a)] = -1
        BY <2>1 DEF Links
      <3>3. QED
        BY <1>2, <1>5, <3>1, <3>2
    <2>2. CASE ~IsGreatest(T, a)
      <3>1. a < s /\ \A d \in T \ {s} : d <= a
        BY <1>1, <1>9, <2>2 DEF IsGreatest
      <3>2. IsGreatest(T, s) /\ Follows(T, a, s)
        BY <1>1, <3>1 DEF IsGreatest, Follows
      <3>3. l.head # i /\ l.next[i] = -1 /\ l.prior[i] = At(o, a)
        BY <1>2, <1>4, <3>2
      <3>4. QED
        BY <1>5, <3>2, <3>3
    <2>3. QED
      BY <2>1, <2>2
  <1>10. QED
    BY <1>7, <1>8, <1>9 DEF Links

(* Putting a start u into the links after start p.                          *)
LEMMA LinkInsert ==
  ASSUME NEW o \in Int, NEW T, Chained(T), NEW u \in Nat, u \notin T, Apart(T \cup {u}, o),
         NEW l, Links(l, T, o),
         NEW p \in T, p < u, \A d \in T : d <= p \/ u < d,
         NEW i, i = At(o, p), NEW n, n = At(o, u),
         NEW m, PutAfter(l, m, i, n)
  PROVE  Links(m, T \cup {u}, o)
  <1> USE DEF PutAfter
  <1> DEFINE V == T \cup {u}
  <1>1. \A a \in V : a \in Nat /\ At(o, a) \in RlSlots
    <2>1. \A a \in V : a \in Nat /\ a \in Int
      BY DEF Chained
    <2>2. QED
      BY <2>1, AtSlot
  <1>2. Apart(T, o) /\ \A a \in T : At(o, a) # n
    BY DEF Apart
  <1>3. /\ l.tail = i <=> IsGreatest(T, p)
        /\ \A a \in T : l.next[i] = At(o, a) <=> Follows(T, p, a)
    BY <1>2, LinksTell
  <1>4. \A a \in T : a # p => At(o, a) # i
    BY DEF Apart
  <1>5. \A a \in T : a # p => m.next[At(o, a)] = l.next[At(o, a)]
    BY <1>1, <1>2, <1>4
  <1>6. \A a \in T : Follows(T, p, a) => ~IsGreatest(T, p)
    BY <1>1 DEF Follows, IsGreatest
  <1>7. \A a \in T : m.prior[At(o, a)] = IF Follows(T, p, a) THEN n ELSE l.prior[At(o, a)]
    BY <1>1, <1>2, <1>3, <1>6
  <1>8. ASSUME NEW a \in V, NEW c \in V, Follows(V, a, c)
        PROVE  m.next[At(o, a)] = At(o, c) /\ m.prior[At(o, c)] = At(o, a)
    <2>1. a < c /\ \A d \in V : d <= a \/ c <= d
      BY <1>8 DEF Follows
    <2>2. CASE a = u
      <3>1. c \in T /\ u < c /\ \A d \in T : d <= p \/ c <= d
        BY <1>1, <2>1, <2>2
      <3>2. Follows(T, p, c)
        BY <1>1, <3>1 DEF Follows
      <3>3. l.next[i] = At(o, c)
        BY <3>1, <3>2, <1>3
      <3>4. QED
        BY <1>7, <2>2, <3>1, <3>2, <3>3
    <2>3. CASE c = u
      <3>1. a \in T /\ a < u /\ ~(a < p)
        BY <1>1, <2>1, <2>3
      <3>2. a = p
        BY <1>1, <3>1
      <3>3. QED
        BY <2>3, <3>2
    <2>4. CASE a # u /\ c # u
      <3>1. Follows(T, a, c)
        BY <1>8, <2>4 DEF Follows
      <3>2. a # p
        <4>1. SUFFICES ASSUME a = p PROVE FALSE
          OBVIOUS
        <4>2. u < c /\ (u <= a \/ c <= u)
          BY <1>1, <2>1, <2>4, <4>1
        <4>3. QED
          BY <1>1, <4>1, <4>2
      <3>3. ~Follows(T, p, c)
        BY <1>1, <3>1, <3>2 DEF Follows
      <3>4. l.next[At(o, a)] = At(o, c) /\ l.prior[At(o, c)] = At(o, a)
        BY <3>1 DEF Links, Follows
      <3>5. a \in T /\ c \in T
        BY <2>4
      <3>6. QED
        BY <1>5, <1>7, <3>2, <3>3, <3>4, <3>5
    <2>5. QED
      BY <2>2, <2>3, <2>4
  <1>9. ASSUME NEW a \in V, IsLeast(V, a)
        PROVE  l.head = At(o, a) /\ m.prior[At(o, a)] = -1
    <2>1. a \in T /\ IsLeast(T, a)
      BY <1>1, <1>9 DEF IsLeast
    <2>2. ~Follows(T, p, a)
      BY <1>1, <2>1 DEF IsLeast, Follows
    <2>3. QED
      BY <1>7, <2>1, <2>2 DEF Links
  <1>10. ASSUME NEW a \in V, IsGreatest(V, a)
        PROVE  m.tail = At(o, a) /\ m.next[At(o, a)] = -1
    <2>1. CASE a = u
      <3>1. \A d \in T : d <= u
        BY <1>10, <2>1 DEF IsGreatest
      <3>2. IsGreatest(T, p)
        BY <1>1, <3>1 DEF IsGreatest
      <3>3. l.tail = i /\ l.next[i] = -1
        BY <3>2 DEF Links
      <3>4. QED
        BY <2>1, <3>3
    <2>2. CASE a # u
      <3>1. a \in T /\ IsGreatest(T, a) /\ u <= a
        BY <1>10, <2>2 DEF IsGreatest
      <3>2. a # p /\ ~IsGreatest(T, p)
        BY <1>1, <3>1 DEF IsGreatest
      <3>3. l.tail = At(o, a) /\ l.next[At(o, a)] = -1
        BY <3>1 DEF Links
      <3>4. QED
        BY <1>3, <1>5, <3>1, <3>2, <3>3
    <2>3. QED
      BY <2>1, <2>2
  <1>11. QED
    BY <1>8, <1>9, <1>10 DEF Links

(* Moving a start s up to u, in the links where it was.                     *)
LEMMA LinkMove ==
  ASSUME NEW o \in Int, NEW T, Chained(T), NEW u \in Nat, u \notin T, Apart(T \cup {u}, o),
         NEW l, Links(l, T, o),
         NEW s \in T, s < u, \A d \in T : d <= s \/ u < d,
         NEW i, i = At(o, s), NEW n, n = At(o, u),
         NEW m, MovedTo(l, m, i, n)
  PROVE  Links(m, (T \ {s}) \cup {u}, o)
  <1> USE DEF MovedTo
  <1> DEFINE R == T \ {s}
             V == R \cup {u}
  <1>1. \A a \in T \cup {u} : a \in Nat /\ At(o, a) \in RlSlots
    <2>1. \A a \in T \cup {u} : a \in Nat /\ a \in Int
      BY DEF Chained
    <2>2. QED
      BY <2>1, AtSlot
  <1>2. Apart(T, o)
    BY DEF Apart
  <1>3. /\ l.head = i <=> IsLeast(T, s)
        /\ l.tail = i <=> IsGreatest(T, s)
        /\ l.next[i] = -1 <=> IsGreatest(T, s)
        /\ l.prior[i] = -1 <=> IsLeast(T, s)
        /\ \A a \in T : l.prior[i] = At(o, a) <=> Follows(T, a, s)
        /\ \A a \in T : l.next[i] = At(o, a) <=> Follows(T, s, a)
    BY <1>2, LinksTell
  <1>4. \A a \in R : At(o, a) # i /\ At(o, a) # n
    BY DEF Apart
  <1>5. \A a \in R : /\ Follows(T, a, s) => ~IsLeast(T, s)
                     /\ Follows(T, s, a) => ~IsGreatest(T, s)
    BY <1>1 DEF Follows, IsLeast, IsGreatest
  <1>6. \A a \in R : m.next[At(o, a)] = IF Follows(T, a, s) THEN n ELSE l.next[At(o, a)]
    BY <1>1, <1>3, <1>4, <1>5
  <1>7. \A a \in R : m.prior[At(o, a)] = IF Follows(T, s, a) THEN n ELSE l.prior[At(o, a)]
    BY <1>1, <1>3, <1>4, <1>5
  <1>8. ASSUME NEW a \in V, NEW c \in V, Follows(V, a, c)
        PROVE  m.next[At(o, a)] = At(o, c) /\ m.prior[At(o, c)] = At(o, a)
    <2>1. a < c /\ \A d \in V : d <= a \/ c <= d
      BY <1>8 DEF Follows
    <2>2. CASE a = u
      <3>1. c \in R /\ u < c /\ \A d \in T : d <= s \/ c <= d
        BY <1>1, <2>1, <2>2
      <3>2. Follows(T, s, c)
        BY <1>1, <3>1 DEF Follows
      <3>3. l.next[i] = At(o, c)
        BY <3>1, <3>2, <1>3
      <3>4. QED
        BY <1>7, <2>2, <3>1, <3>2, <3>3
    <2>3. CASE c = u
      <3>1. a \in R /\ a < s /\ \A d \in R : d <= a \/ u <= d
        BY <1>1, <2>1, <2>3
      <3>2. Follows(T, a, s)
        BY <1>1, <3>1 DEF Follows
      <3>3. l.prior[i] = At(o, a)
        BY <3>1, <3>2, <1>3
      <3>4. QED
        BY <1>6, <2>3, <3>1, <3>2, <3>3
    <2>4. CASE a # u /\ c # u
      <3>1. a \in R /\ c \in R /\ (u <= a \/ c <= u)
        BY <2>1, <2>4
      <3>2. ~(a < s /\ s < c)
        BY <1>1, <3>1
      <3>3. Follows(T, a, c)
        BY <1>1, <2>1, <3>1, <3>2 DEF Follows
      <3>4. ~Follows(T, a, s) /\ ~Follows(T, s, c)
        BY <1>1, <2>1, <3>1, <3>2 DEF Follows
      <3>5. l.next[At(o, a)] = At(o, c) /\ l.prior[At(o, c)] = At(o, a)
        BY <3>1, <3>3 DEF Links
      <3>6. QED
        BY <1>6, <1>7, <3>1, <3>4, <3>5
    <2>5. QED
      BY <2>2, <2>3, <2>4
  <1>9. ASSUME NEW a \in V, IsLeast(V, a)
        PROVE  m.head = At(o, a) /\ m.prior[At(o, a)] = -1
    <2>1. CASE a = u
      <3>1. \A d \in R : u <= d
        BY <1>9, <2>1 DEF IsLeast
      <3>2. IsLeast(T, s)
        BY <1>1, <3>1 DEF IsLeast
      <3>3. QED
        BY <1>3, <2>1, <3>2
    <2>2. CASE a # u
      <3>1. a \in R /\ a <= u /\ \A d \in R : a <= d
        BY <1>9, <2>2 DEF IsLeast
      <3>2. a < s
        BY <1>1, <3>1
      <3>3. IsLeast(T, a) /\ ~IsLeast(T, s) /\ ~Follows(T, s, a)
        BY <1>1, <3>1, <3>2 DEF IsLeast, Follows
      <3>4. l.head = At(o, a) /\ l.prior[At(o, a)] = -1
        BY <3>1, <3>3 DEF Links
      <3>5. QED
        BY <1>3, <1>7, <3>1, <3>3, <3>4
    <2>3. QED
      BY <2>1, <2>2
  <1>10. ASSUME NEW a \in V, IsGreatest(V, a)
        PROVE  m.tail = At(o, a) /\ m.next[At(o, a)] = -1
    <2>1. CASE a = u
      <3>1. \A d \in R : d <= u
        BY <1>10, <2>1 DEF IsGreatest
      <3>2. IsGreatest(T, s)
        BY <1>1, <3>1 DEF IsGreatest
      <3>3. QED
        BY <1>3, <2>1, <3>2
    <2>2. CASE a # u
      <3>1. a \in R /\ u <= a /\ \A d \in R : d <= a
        BY <1>10, <2>2 DEF IsGreatest
      <3>2. s < a
        BY <1>1, <3>1
      <3>3. IsGreatest(T, a) /\ ~IsGreatest(T, s) /\ ~Follows(T, a, s)
        BY <1>1, <3>1, <3>2 DEF IsGreatest, Follows
      <3>4. l.tail = At(o, a) /\ l.next[At(o, a)] = -1
        BY <3>1, <3>3 DEF Links
      <3>5. QED
        BY <1>3, <1>6, <3>1, <3>3, <3>4
    <2>3. QED
      BY <2>1, <2>2
  <1>11. QED
    BY <1>8, <1>9, <1>10 DEF Links

-----------------------------------------------------------------------------
(* The list of a set.                                                      *)
ListType == [head : Int, tail : Int, length : Int,
             data1 : [RlSlots -> Int], data2 : [RlSlots -> Int],
             next : [RlSlots -> Int], prior : [RlSlots -> Int]]

(* The first number of each range is in its slot, every other is cleared.   *)
Places(l, T, o) ==
  /\ \A a \in T : l.data1[At(o, a)] = Wrap(a)
  /\ \A i \in RlSlots : l.data1[i] # -1 => \E a \in T : i = At(o, a)

(* The last one beside it, if it is another; a cleared slot has none.        *)
Ends(l, S, o) ==
  /\ \A a, b \in S : Run(S, a, b) => l.data2[At(o, a)] = IF a = b THEN -1 ELSE Wrap(b)
  /\ \A i \in RlSlots : l.data1[i] = -1 => l.data2[i] = -1

(* List l stands for set S, number s in slot (o + s) % RlSize.               *)
Rep(l, S, o) ==
  /\ Narrow(S) /\ l \in ListType /\ l.length = Cardinality(S)
  /\ Places(l, Starts(S), o) /\ Ends(l, S, o) /\ Links(l, Starts(S), o)

(* A list in which an end and the length change is a list.                  *)
LEMMA ListChange ==
  ASSUME NEW l \in ListType, NEW i \in RlSlots, NEW v \in Int
  PROVE  [l EXCEPT !.data2[i] = v, !.length = @ - 1] \in ListType
  <1>1. PICK e : e = [l EXCEPT !.data2[i] = v, !.length = @ - 1]
    OBVIOUS
  <1>2. /\ e.head = l.head /\ e.tail = l.tail /\ e.length = l.length - 1 /\ e.data1 = l.data1
        /\ e.data2 = [l.data2 EXCEPT ![i] = v] /\ e.next = l.next /\ e.prior = l.prior
        /\ e = [head |-> e.head, tail |-> e.tail, length |-> e.length, data1 |-> e.data1,
                data2 |-> e.data2, next |-> e.next, prior |-> e.prior]
    BY <1>1 DEF ListType
  <1>3. /\ l.head \in Int /\ l.tail \in Int /\ l.length \in Int
        /\ l.data1 \in [RlSlots -> Int] /\ l.data2 \in [RlSlots -> Int]
        /\ l.next \in [RlSlots -> Int] /\ l.prior \in [RlSlots -> Int]
    BY DEF ListType
  <1>4. e \in ListType
    BY <1>2, <1>3 DEF ListType
  <1>5. QED
    BY <1>1, <1>4

(* incseq and decseq step, and a wrapped number is never the mark -1.       *)
LEMMA Steps ==
  ASSUME NEW a \in Int
  PROVE  /\ incseq(Wrap(a)) = Wrap(a + 1) /\ decseq(Wrap(a)) = Wrap(a - 1)
         /\ Wrap(a) \in Int /\ Wrap(a) # -1 /\ Wrap(a) \in 0 .. MaxSeqNo
  <1>1. 0 \in 0 .. MaxSeqNo /\ MaxSeqNo \in Int
    BY SeqNoAssumption
  <1>2. Wrap(a) \in 0 .. MaxSeqNo
    BY WrapRange
  <1>3. QED
    BY <1>1, <1>2, SeqStepAgrees

(* Beyond compares.                                                        *)
LEMMA BeyondIs ==
  ASSUME NEW a \in Int, NEW b \in Int, b - a < SeqNoTH, a - b < SeqNoTH
  PROVE  Beyond(Wrap(a), Wrap(b)) <=> a > b
  <1>1. -SeqNoTH < b - a /\ SeqNoTH \in Int
    BY SeqNoAssumption
  <1>2. QED
    BY <1>1, SeqCmpAgrees DEF Beyond

(* What a list tells of its set.                                           *)
LEMMA RepTells ==
  ASSUME NEW o \in RlSlots, NEW S, NEW l, Rep(l, S, o)
  PROVE  /\ o \in Int /\ RlSize \in Nat /\ RlSize < SeqNoTH - 2 /\ SeqNoTH \in Nat
         /\ IsFiniteSet(S) /\ Starts(S) \subseteq S /\ Chained(Starts(S))
         /\ Apart(S, o) /\ Apart(Starts(S), o)
         /\ \A a \in S : a \in Nat /\ a \in Int /\ At(o, a) \in RlSlots /\ At(o, a) # -1
         /\ \A a, b \in S : b - a < RlSize
         /\ \A a \in S : a \notin Starts(S) => l.data1[At(o, a)] = -1 /\ l.data2[At(o, a)] = -1
         /\ l.length = 0 <=> S = {}
         /\ l.length = Cardinality(S) /\ l.length \in Int
         /\ \A a, b \in S : Run(S, a, b) =>
              l.data1[At(o, a)] = Wrap(a) /\ l.data2[At(o, a)] = IF a = b THEN -1 ELSE Wrap(b)
  <1>1. Narrow(S) /\ l \in ListType /\ l.length = Cardinality(S)
    BY DEF Rep
  <1>2. o \in Int /\ RlSize \in Nat /\ RlSize < SeqNoTH - 2 /\ SeqNoTH \in Nat
    BY Size DEF RlSlots
  <1>3. IsFiniteSet(S) /\ Starts(S) \subseteq S /\ Chained(Starts(S))
    BY <1>1, NarrowFinite, StartsNarrow
  <1>4. \A a \in S : a \in Nat /\ a \in Int
    BY <1>1 DEF Narrow
  <1>5. \A a \in S : At(o, a) \in RlSlots /\ At(o, a) # -1
    BY <1>2, <1>4, AtSlot, Size DEF RlSlots
  <1>6. \A a, b \in S : b - a < RlSize
    BY <1>1 DEF Narrow
  <1>7. Apart(S, o)
    <2>1. SUFFICES ASSUME NEW a \in S, NEW c \in S, At(o, a) = At(o, c) PROVE a = c
      BY DEF Apart
    <2>2. c - a < RlSize /\ a - c < RlSize /\ a \in Int /\ c \in Int
      BY <1>4, <1>6
    <2>3. QED
      BY <1>2, <2>1, <2>2, AtApart
  <1>8. Apart(Starts(S), o)
    BY <1>3, <1>7 DEF Apart
  <1>9. ASSUME NEW a \in S, a \notin Starts(S)
        PROVE  l.data1[At(o, a)] = -1 /\ l.data2[At(o, a)] = -1
    <2>1. l.data1[At(o, a)] = -1
      <3>1. SUFFICES ASSUME l.data1[At(o, a)] # -1 PROVE FALSE
        OBVIOUS
      <3>2. PICK c \in Starts(S) : At(o, a) = At(o, c)
        BY <1>5, <3>1 DEF Rep, Places
      <3>3. a = c
        BY <1>3, <1>7, <3>2 DEF Apart
      <3>4. QED
        BY <1>9, <3>3
    <2>2. QED
      BY <1>5, <2>1 DEF Rep, Ends
  <1>10. l.length = 0 <=> S = {}
    BY <1>1, <1>3, FS_EmptySet
  <1>11. l.length \in Int
    BY <1>1 DEF ListType
  <1>12. ASSUME NEW a \in S, NEW b \in S, Run(S, a, b)
         PROVE  /\ l.data1[At(o, a)] = Wrap(a)
                /\ l.data2[At(o, a)] = IF a = b THEN -1 ELSE Wrap(b)
    <2>1. a \in Starts(S)
      BY <1>12 DEF Starts, Run
    <2>2. QED
      BY <1>12, <2>1 DEF Rep, Places, Ends
  <1>13. QED
    BY <1>1, <1>2, <1>3, <1>4, <1>5, <1>6, <1>7, <1>8, <1>9, <1>10, <1>11, <1>12

(* A list that fits the set without s, and counts one less, stands for it.  *)
LEMMA RepLess ==
  ASSUME NEW o \in RlSlots, NEW S, NEW l, Rep(l, S, o), NEW s \in S, NEW m,
         m \in ListType, m.length = l.length - 1,
         Places(m, Starts(Without(S, s)), o), Ends(m, Without(S, s), o),
         Links(m, Starts(Without(S, s)), o)
  PROVE  Rep(m, Without(S, s), o)
  <1>1. Narrow(Without(S, s))
    BY DEF Rep, Narrow, Without
  <1>2. Cardinality(Without(S, s)) = Cardinality(S) - 1
    BY RepTells, FS_RemoveElement DEF Without
  <1>3. l.length = Cardinality(S)
    BY DEF Rep
  <1>4. QED
    BY <1>1, <1>2, <1>3 DEF Rep

(* RemoveNode, for a range of one number.                                   *)
LEMMA RemoveNodeRight ==
  ASSUME NEW o \in RlSlots, NEW S, NEW l, Rep(l, S, o), NEW s \in S, Run(S, s, s)
  PROVE  Rep(RemoveNode(l, At(o, s)), Without(S, s), o)
  <1> DEFINE i == At(o, s)
             m == RemoveNode(l, i)
             T == Starts(S)
             R == Without(S, s)
  <1>1. /\ o \in Int /\ T \subseteq S /\ Chained(T) /\ Apart(S, o) /\ Apart(T, o)
        /\ \A a \in S : a \in Nat /\ a \in Int /\ At(o, a) \in RlSlots
        /\ l.data1[i] = Wrap(s) /\ l.data2[i] = -1 /\ S \subseteq Nat
    <2>1. S \subseteq Nat
      BY DEF Rep, Narrow, Without
    <2>2. QED
      BY <2>1, RepTells
  <1>2. s \in T /\ s + 1 \notin S /\ Starts(R) = T \ {s}
    <2>1. s \in T /\ s + 1 \notin S
      BY DEF Run, Starts
    <2>2. Starts(Without(S, s)) = (Starts(S) \ {s}) \cup (IF s + 1 \in S THEN {s + 1} ELSE {})
      BY <1>1, StartsLess
    <2>3. QED
      BY <2>1, <2>2
  <1>3. l \in ListType /\ i \in RlSlots
    BY <1>1 DEF Rep
  <1> HIDE DEF i, T
  <1>4. /\ m.head = IF l.head = i THEN l.next[i] ELSE l.head
        /\ m.tail = IF l.head # i /\ l.next[i] = -1 THEN l.prior[i] ELSE l.tail
        /\ m.length = l.length - 1
        /\ m.data1 = [l.data1 EXCEPT ![i] = -1]
        /\ m.data2 = l.data2
        /\ m.next = [j \in RlSlots |->
                       IF j = i THEN -1
                       ELSE IF l.head # i /\ j = l.prior[i] THEN l.next[i] ELSE l.next[j]]
        /\ m.prior = [j \in RlSlots |-> IF j = i THEN -1
                                        ELSE IF j = l.next[i] THEN l.prior[i] ELSE l.prior[j]]
    BY DEF RemoveNode
  <1>5. m \in ListType
    <2>1. /\ l.head \in Int /\ l.tail \in Int /\ l.length \in Int
          /\ l.data1 \in [RlSlots -> Int] /\ l.data2 \in [RlSlots -> Int]
          /\ l.next \in [RlSlots -> Int] /\ l.prior \in [RlSlots -> Int]
      BY <1>3 DEF ListType
    <2>2. QED
      BY <1>3, <2>1 DEF RemoveNode, ListType
  <1>6. l.data1 \in [RlSlots -> Int] /\ l.data2 \in [RlSlots -> Int]
    BY <1>3 DEF ListType
  <1>7. m.next \in [RlSlots -> Int] /\ m.prior \in [RlSlots -> Int]
    BY <1>5 DEF ListType
  <1>8. Places(l, T, o) /\ Ends(l, S, o) /\ Links(l, T, o)
    BY DEF Rep, T
  <1>9. Places(m, T \ {s}, o)
    <2>1. \A a \in T \ {s} : At(o, a) # i /\ At(o, a) \in RlSlots
      BY <1>1, <1>2 DEF Apart, i
    <2>2. \A a \in T \ {s} : m.data1[At(o, a)] = Wrap(a)
      BY <1>4, <1>6, <1>8, <2>1 DEF Places
    <2>3. ASSUME NEW j \in RlSlots, m.data1[j] # -1 PROVE \E a \in T \ {s} : j = At(o, a)
      <3>1. j # i /\ l.data1[j] # -1
        BY <1>4, <1>6, <2>3
      <3>2. PICK a \in T : j = At(o, a)
        BY <1>8, <3>1 DEF Places
      <3>3. a # s
        BY <3>1, <3>2 DEF i
      <3>4. QED
        BY <3>2, <3>3
    <2>4. QED
      BY <2>2, <2>3 DEF Places
  <1>10. Ends(m, R, o)
    <2>1. ASSUME NEW a \in R, NEW b \in R, Run(R, a, b)
          PROVE  m.data2[At(o, a)] = IF a = b THEN -1 ELSE Wrap(b)
      <3>1. s <= s /\ a \in S /\ b \in S /\ a # s /\ a <= b /\ s \in Nat /\ a \in Nat /\ b \in Nat
        BY <1>1, <2>1 DEF Run, Without
      <3>2. \/ Run(S, a, b)
            \/ (a = s + 1 /\ b = s)
            \/ (a = s /\ b = s - 1)
        <4>1. Narrow(S) /\ Run(Without(S, s), a, b)
          BY <2>1 DEF Rep
        <4>2. QED
          BY <3>1, <4>1, RunsLess
      <3>3. Run(S, a, b)
        BY <3>1, <3>2
      <3>4. QED
        BY <1>4, <1>8, <3>1, <3>3 DEF Ends
    <2>2. ASSUME NEW j \in RlSlots, m.data1[j] = -1 PROVE m.data2[j] = -1
      <3>1. j = i \/ l.data1[j] = -1
        BY <1>4, <1>6, <2>2
      <3>2. QED
        BY <1>1, <1>4, <1>8, <3>1 DEF Ends
    <2>3. QED
      BY <2>1, <2>2 DEF Ends
  <1>11. Links(m, T \ {s}, o)
    <2>1. TakenOut(l, m, i)
      BY <1>4, <1>7 DEF TakenOut
    <2>2. o \in Int /\ Chained(T) /\ Apart(T, o) /\ s \in T /\ i = At(o, s)
      BY <1>1, <1>2 DEF i
    <2> HIDE DEF m, R
    <2>3. QED
      BY <1>8, <2>1, <2>2, LinkRemove
  <1>12. Places(m, Starts(R), o) /\ Ends(m, R, o) /\ Links(m, Starts(R), o)
    BY <1>2, <1>9, <1>10, <1>11
  <1>13. Rep(m, R, o)
    BY <1>4, <1>5, <1>12, RepLess
  <1>14. QED
    BY <1>13 DEF i

(* Slot At(o, s + 1), when s and s + 1 are in one range, is a free one.      *)
LEMMA NextFree ==
  ASSUME NEW o \in RlSlots, NEW S, NEW l, Rep(l, S, o), NEW s \in S, s + 1 \in S
  PROVE  /\ s + 1 \notin Starts(S) /\ Apart(Starts(S) \cup {s + 1}, o)
         /\ s + 1 \in Nat /\ At(o, s + 1) \in RlSlots
         /\ At(o, s) # At(o, s + 1)
         /\ l.data1[At(o, s + 1)] = -1 /\ l.data2[At(o, s + 1)] = -1
         /\ \A a \in Starts(S) : At(o, a) # At(o, s + 1)
         /\ \A d \in Starts(S) : d <= s \/ s + 1 < d
  <1> DEFINE u == s + 1
  <1>1. /\ Starts(S) \subseteq S /\ Apart(S, o) /\ s \in Nat /\ u \in Nat /\ u \in S
        /\ At(o, u) \in RlSlots
    BY RepTells
  <1>2. u \notin Starts(S)
    BY <1>1 DEF Starts
  <1>3. Apart(Starts(S) \cup {u}, o)
    BY <1>1 DEF Apart
  <1>4. l.data1[At(o, u)] = -1 /\ l.data2[At(o, u)] = -1
    <2> HIDE DEF u
    <2>1. QED
      BY <1>1, <1>2, RepTells
  <1>5. At(o, s) # At(o, u)
    BY <1>1 DEF Apart
  <1>6. \A a \in Starts(S) : At(o, a) # At(o, u)
    BY <1>1, <1>2 DEF Apart
  <1>7. \A d \in Starts(S) : d <= s \/ u < d
    <2>1. \A d \in Starts(S) : d \in Nat /\ d # u
      BY <1>1, <1>2, RepTells
    <2>2. QED
      BY <1>1, <2>1
  <1>8. QED
    BY <1>1, <1>2, <1>3, <1>4, <1>5, <1>6, <1>7

(* MoveNode, for the start of a range of more.                              *)
LEMMA MoveNodeRight ==
  ASSUME NEW o \in RlSlots, NEW S, NEW l, Rep(l, S, o), NEW s \in S, NEW q \in S,
         Run(S, s, q), s < q
  PROVE  Rep(MoveNode(l, At(o, s), At(o, s + 1)), Without(S, s), o)
  <1> DEFINE u == s + 1
             i == At(o, s)
             n == At(o, u)
             m == MoveNode(l, i, n)
             T == Starts(S)
             R == Without(S, s)
  <1>1. /\ o \in Int /\ T \subseteq S /\ Chained(T) /\ Apart(S, o) /\ Apart(T, o)
        /\ \A a \in S : a \in Nat /\ a \in Int /\ At(o, a) \in RlSlots
        /\ l.data1[i] = Wrap(s) /\ l.data2[i] = Wrap(q) /\ S \subseteq Nat
        /\ RlSize \in Nat /\ RlSize < SeqNoTH - 2 /\ SeqNoTH \in Nat
        /\ \A a, b \in S : b - a < RlSize
    <2>1. S \subseteq Nat /\ s # q
      BY DEF Rep, Narrow
    <2>2. QED
      BY <2>1, RepTells
  <1>2. s \in T /\ u \in S /\ Starts(R) = (T \ {s}) \cup {u}
    <2>1. s \in T
      BY DEF Run, Starts
    <2>2. u \in s .. q
      BY <1>1
    <2>3. u \in S
      BY <2>2 DEF Run
    <2>4. Starts(Without(S, s)) = (Starts(S) \ {s}) \cup (IF s + 1 \in S THEN {s + 1} ELSE {})
      BY <1>1, StartsLess
    <2>5. QED
      BY <2>1, <2>3, <2>4
  <1>3. /\ u \notin T /\ Apart(T \cup {u}, o) /\ u \in Nat /\ n \in RlSlots
        /\ i # n /\ l.data1[n] = -1 /\ l.data2[n] = -1
        /\ \A a \in T : At(o, a) # n
        /\ \A d \in T : d <= s \/ u < d
    BY <1>2, NextFree
  <1>4. l \in ListType /\ i \in RlSlots
    BY <1>1 DEF Rep
  <1>5. Places(l, T, o) /\ Ends(l, S, o) /\ Links(l, T, o)
    BY DEF Rep
  <1>6. s < u /\ (Beyond(Wrap(q), Wrap(u)) <=> q > u) /\ u <= q
    <2>1. s \in Nat /\ q \in Nat /\ q - s < RlSize
      BY <1>1
    <2>2. u \in Int /\ q \in Int /\ q - u < SeqNoTH /\ u - q < SeqNoTH /\ u <= q /\ s < u
      BY <1>1, <2>1
    <2>3. QED
      BY <2>2, BeyondIs
  <1>7. incseq(Wrap(s)) = Wrap(u) /\ Wrap(u) \in Int /\ Wrap(u) # -1 /\ Wrap(q) \in Int
    BY <1>1, <1>3, Steps
  <1> HIDE DEF u, i, n, T
  <1>8. /\ l.head \in Int /\ l.tail \in Int /\ l.length \in Int
        /\ l.data1 \in [RlSlots -> Int] /\ l.data2 \in [RlSlots -> Int]
        /\ l.next \in [RlSlots -> Int] /\ l.prior \in [RlSlots -> Int]
    BY <1>4 DEF ListType
  <1>9. /\ m.head = IF l.head = i THEN n ELSE l.head
        /\ m.tail = IF l.tail = i THEN n ELSE l.tail
        /\ m.length = l.length - 1
        /\ m.data1 = [l.data1 EXCEPT ![n] = Wrap(u), ![i] = -1]
        /\ m.data2 = [l.data2 EXCEPT ![n] = IF q > u THEN Wrap(q) ELSE -1, ![i] = -1]
        /\ m.next = [j \in RlSlots |->
                       IF j = n THEN l.next[i] ELSE IF j = i THEN -1
                       ELSE IF l.head # i /\ j = l.prior[i] THEN n ELSE l.next[j]]
        /\ m.prior = [j \in RlSlots |->
                        IF j = n THEN l.prior[i] ELSE IF j = i THEN -1
                        ELSE IF l.tail # i /\ j = l.next[i] THEN n ELSE l.prior[j]]
    BY <1>1, <1>3, <1>6, <1>7, <1>8 DEF MoveNode, EndKept
  <1>10. m \in ListType
    <2>1. i \in Int /\ n \in Int
      BY <1>3, <1>4, Size DEF RlSlots
    <2>2. /\ m.head \in Int /\ m.tail \in Int /\ m.length \in Int
          /\ m.data1 \in [RlSlots -> Int] /\ m.data2 \in [RlSlots -> Int]
          /\ m.next \in [RlSlots -> Int] /\ m.prior \in [RlSlots -> Int]
      BY <1>3, <1>4, <1>7, <1>8, <1>9, <2>1
    <2>3. m = [head |-> m.head, tail |-> m.tail, length |-> m.length, data1 |-> m.data1,
               data2 |-> m.data2, next |-> m.next, prior |-> m.prior]
      BY DEF MoveNode
    <2> HIDE DEF m
    <2>4. QED
      BY <2>2, <2>3 DEF ListType
  <1> HIDE DEF m
  <1>11. Places(m, (T \ {s}) \cup {u}, o)
    <2>1. \A a \in T \ {s} : At(o, a) # i /\ At(o, a) # n /\ At(o, a) \in RlSlots
      BY <1>1, <1>2, <1>3 DEF Apart, i
    <2>2. \A a \in T \ {s} : m.data1[At(o, a)] = Wrap(a)
      BY <1>8, <1>9, <1>5, <2>1 DEF Places
    <2>3. m.data1[n] = Wrap(u) /\ m.data1[i] = -1
      BY <1>3, <1>4, <1>8, <1>9
    <2>4. ASSUME NEW j \in RlSlots, m.data1[j] # -1, j # n PROVE \E a \in T \ {s} : j = At(o, a)
      <3>1. j # i /\ l.data1[j] # -1
        BY <1>8, <1>9, <2>3, <2>4
      <3>2. PICK a \in T : j = At(o, a)
        BY <1>5, <3>1 DEF Places
      <3>3. a # s
        BY <3>1, <3>2 DEF i
      <3>4. QED
        BY <3>2, <3>3
    <2>5. QED
      BY <2>2, <2>3, <2>4 DEF Places, n
  <1>12. Ends(m, R, o)
    <2>1. ASSUME NEW a \in R, NEW b \in R, Run(R, a, b)
          PROVE  m.data2[At(o, a)] = IF a = b THEN -1 ELSE Wrap(b)
      <3>1. s <= s /\ a \in S /\ b \in S /\ a # s /\ s \in Nat /\ Narrow(S) /\ s <= q
        BY <1>1, <2>1 DEF Without, Rep
      <3>2. \/ (Run(S, a, b) /\ a # s /\ a # u)
            \/ (a = u /\ b = q)
            \/ (a = s /\ b = s - 1)
        BY <2>1, <3>1, RunsLess DEF u
      <3>3. CASE Run(S, a, b) /\ a # s /\ a # u
        <4>1. a \in T
          BY <3>1, <3>3 DEF Run, Starts, T
        <4>2. At(o, a) # i /\ At(o, a) # n /\ At(o, a) \in RlSlots
          BY <1>1, <1>2, <1>3, <3>3, <4>1 DEF Apart, i
        <4>3. QED
          BY <1>5, <1>8, <1>9, <3>1, <3>3, <4>2 DEF Ends
      <3>4. CASE a = u /\ b = q
        <4>1. m.data2[n] = IF q > u THEN Wrap(q) ELSE -1
          BY <1>3, <1>8, <1>9
        <4>2. QED
          BY <1>1, <1>3, <1>6, <3>4, <4>1 DEF n
      <3>5. QED
        BY <3>1, <3>2, <3>3, <3>4
    <2>2. ASSUME NEW j \in RlSlots, m.data1[j] = -1 PROVE m.data2[j] = -1
      <3>1. j # n /\ (j = i \/ l.data1[j] = -1)
        BY <1>3, <1>7, <1>8, <1>9, <2>2
      <3>2. QED
        BY <1>5, <1>8, <1>9, <3>1 DEF Ends
    <2>3. QED
      BY <2>1, <2>2 DEF Ends
  <1>13. Links(m, (T \ {s}) \cup {u}, o)
    <2>1. m.next \in [RlSlots -> Int] /\ m.prior \in [RlSlots -> Int]
      BY <1>10 DEF ListType
    <2>2. MovedTo(l, m, i, n)
      BY <1>3, <1>9, <2>1 DEF MovedTo
    <2>3. /\ o \in Int /\ Chained(T) /\ u \in Nat /\ u \notin T /\ Apart(T \cup {u}, o)
          /\ s \in T /\ s < u /\ i = At(o, s) /\ n = At(o, u)
          /\ \A d \in T : d <= s \/ u < d
      BY <1>1, <1>2, <1>3, <1>6 DEF i, n
    <2>4. QED
      BY <1>5, <2>2, <2>3, LinkMove
  <1>14. Places(m, Starts(R), o) /\ Ends(m, R, o) /\ Links(m, Starts(R), o)
    BY <1>2, <1>11, <1>12, <1>13
  <1>15. Rep(m, R, o)
    BY <1>9, <1>10, <1>14, RepLess
  <1>16. QED
    BY <1>15 DEF m, i, n, u

(* CutNode, at the end of a range.                                          *)
LEMMA CutNodeRight ==
  ASSUME NEW o \in RlSlots, NEW S, NEW l, Rep(l, S, o), NEW p \in S, NEW s \in S,
         Run(S, p, s), p < s
  PROVE  Rep(CutNode(l, At(o, p), Wrap(s)), Without(S, s), o)
  <1> DEFINE i == At(o, p)
             m == CutNode(l, i, Wrap(s))
             T == Starts(S)
             R == Without(S, s)
  <1>1. /\ o \in Int /\ T \subseteq S /\ Apart(S, o)
        /\ \A a \in S : a \in Nat /\ a \in Int /\ At(o, a) \in RlSlots
        /\ l.data1[i] = Wrap(p) /\ S \subseteq Nat
        /\ RlSize \in Nat /\ RlSize < SeqNoTH - 2 /\ SeqNoTH \in Nat
        /\ \A a, b \in S : b - a < RlSize
    <2>1. S \subseteq Nat
      BY DEF Rep, Narrow
    <2>2. QED
      BY <2>1, RepTells
  <1>2. p \in T /\ Starts(R) = T
    <2>1. p \in T /\ s + 1 \notin S
      BY DEF Run, Starts
    <2>2. s - 1 \in p .. s
      BY <1>1
    <2>3. s \notin T
      BY <2>2 DEF Run, Starts
    <2>4. Starts(Without(S, s)) = (Starts(S) \ {s}) \cup (IF s + 1 \in S THEN {s + 1} ELSE {})
      BY <1>1, StartsLess
    <2>5. QED
      BY <2>1, <2>3, <2>4
  <1>3. l \in ListType /\ i \in RlSlots
    BY <1>1 DEF Rep
  <1>4. Places(l, T, o) /\ Ends(l, S, o) /\ Links(l, T, o)
    BY DEF Rep
  <1>5. (Wrap(s) = incseq(Wrap(p)) <=> s = p + 1)
    <2>1. p \in Int /\ s \in Int /\ p + 1 \in Int /\ s - p < RlSize
      BY <1>1
    <2>2. incseq(Wrap(p)) = Wrap(p + 1)
      BY <2>1, Steps
    <2>3. (p + 1) - s < SeqNoTH /\ s - (p + 1) < SeqNoTH
      BY <1>1, <2>1
    <2>4. Wrap(s) = Wrap(p + 1) => s = p + 1
      BY <2>1, <2>3, WrapApart
    <2>5. QED
      BY <2>2, <2>4
  <1>6. decseq(Wrap(s)) = Wrap(s - 1) /\ Wrap(s - 1) \in Int /\ s - 1 \in Nat
    BY <1>1, Steps
  <1> HIDE DEF i, T
  <1>7. /\ l.head \in Int /\ l.tail \in Int /\ l.length \in Int
        /\ l.data1 \in [RlSlots -> Int] /\ l.data2 \in [RlSlots -> Int]
        /\ l.next \in [RlSlots -> Int] /\ l.prior \in [RlSlots -> Int]
    BY <1>3 DEF ListType
  <1>8. /\ m.head = l.head /\ m.tail = l.tail /\ m.length = l.length - 1 /\ m.data1 = l.data1
        /\ m.data2 = [l.data2 EXCEPT ![i] = IF s = p + 1 THEN -1 ELSE Wrap(s - 1)]
        /\ m.next = l.next /\ m.prior = l.prior
    BY <1>1, <1>3, <1>5, <1>6 DEF CutNode, ListType
  <1>9. m \in ListType
    <2>1. \A v \in Int : [l EXCEPT !.data2[i] = v, !.length = @ - 1] \in ListType
      BY <1>3, ListChange
    <2>2. (IF Wrap(s) = incseq(l.data1[i]) THEN -1 ELSE decseq(Wrap(s))) \in Int
      BY <1>6
    <2>3. QED
      BY <2>1, <2>2 DEF CutNode
  <1> HIDE DEF m
  <1>10. Places(m, T, o)
    BY <1>4, <1>8 DEF Places
  <1>11. Ends(m, R, o)
    <2>1. ASSUME NEW a \in R, NEW b \in R, Run(R, a, b)
          PROVE  m.data2[At(o, a)] = IF a = b THEN -1 ELSE Wrap(b)
      <3>1. /\ s <= s /\ a \in S /\ b \in S /\ a # s /\ a <= b /\ Narrow(S) /\ p <= s
            /\ a \in Nat /\ b \in Nat /\ p \in Nat /\ s \in Nat
        BY <1>1, <2>1 DEF Without, Rep, Run
      <3>2. \/ (Run(S, a, b) /\ a # p)
            \/ (a = s + 1 /\ b = s)
            \/ (a = p /\ b = s - 1)
        BY <2>1, <3>1, RunsLess
      <3>3. CASE Run(S, a, b) /\ a # p
        <4>1. At(o, a) # i /\ At(o, a) \in RlSlots
          BY <1>1, <3>1, <3>3 DEF Apart, i
        <4>2. QED
          BY <1>4, <1>7, <1>8, <3>1, <3>3, <4>1 DEF Ends
      <3>4. CASE a = p /\ b = s - 1
        <4>1. m.data2[i] = IF s = p + 1 THEN -1 ELSE Wrap(s - 1)
          BY <1>3, <1>7, <1>8
        <4>2. s = p + 1 <=> a = b
          BY <3>1, <3>4
        <4>3. QED
          BY <3>4, <4>1, <4>2 DEF i
      <3>5. QED
        BY <3>1, <3>2, <3>3, <3>4
    <2>2. ASSUME NEW j \in RlSlots, m.data1[j] = -1 PROVE m.data2[j] = -1
      <3>1. l.data1[j] = -1 /\ l.data1[i] # -1
        BY <1>1, <1>8, <2>2, Steps
      <3>2. QED
        BY <1>4, <1>7, <1>8, <3>1 DEF Ends
    <2>3. QED
      BY <2>1, <2>2 DEF Ends
  <1>12. Links(m, T, o)
    BY <1>4, <1>8 DEF Links
  <1>13. Places(m, Starts(R), o) /\ Ends(m, R, o) /\ Links(m, Starts(R), o)
    BY <1>2, <1>10, <1>11, <1>12
  <1>14. Rep(m, R, o)
    BY <1>8, <1>9, <1>13, RepLess
  <1>15. QED
    BY <1>14 DEF m, i

(* SplitNode, inside one.                                                  *)
LEMMA SplitNodeRight ==
  ASSUME NEW o \in RlSlots, NEW S, NEW l, Rep(l, S, o), NEW p \in S, NEW q \in S, NEW s \in S,
         Run(S, p, q), p < s, s < q
  PROVE  Rep(SplitNode(l, At(o, p), At(o, s + 1), Wrap(s)), Without(S, s), o)
  <1> DEFINE u == s + 1
             i == At(o, p)
             n == At(o, u)
             k == CutNode(l, i, Wrap(s))
             m == SplitNode(l, i, n, Wrap(s))
             T == Starts(S)
             R == Without(S, s)
  <1>1. /\ o \in Int /\ T \subseteq S /\ Chained(T) /\ Apart(S, o)
        /\ \A a \in S : a \in Nat /\ a \in Int /\ At(o, a) \in RlSlots
        /\ l.data1[i] = Wrap(p) /\ l.data2[i] = Wrap(q) /\ S \subseteq Nat
        /\ RlSize \in Nat /\ RlSize < SeqNoTH - 2 /\ SeqNoTH \in Nat
        /\ \A a, b \in S : b - a < RlSize
        /\ p \in Nat /\ s \in Nat /\ q \in Nat
    <2>1. S \subseteq Nat
      BY DEF Rep, Narrow
    <2>2. p # q
      BY <2>1
    <2>3. QED
      BY <2>1, <2>2, RepTells
  <1>2. p \in T /\ u \in S /\ Starts(R) = T \cup {u}
    <2>1. p \in T
      BY DEF Run, Starts
    <2>2. s - 1 \in p .. q /\ u \in p .. q
      BY <1>1
    <2>3. s \notin T /\ u \in S
      BY <2>2 DEF Run, Starts
    <2>4. Starts(Without(S, s)) = (Starts(S) \ {s}) \cup (IF s + 1 \in S THEN {s + 1} ELSE {})
      BY <1>1, StartsLess
    <2>5. QED
      BY <2>1, <2>3, <2>4
  <1>3. /\ u \notin T /\ Apart(T \cup {u}, o) /\ u \in Nat /\ n \in RlSlots
        /\ l.data1[n] = -1 /\ l.data2[n] = -1
        /\ \A a \in T : At(o, a) # n
        /\ i # n
    BY <1>2, NextFree
  <1>4. l \in ListType /\ i \in RlSlots
    BY <1>1 DEF Rep
  <1>5. Places(l, T, o) /\ Ends(l, S, o) /\ Links(l, T, o)
    BY DEF Rep
  <1>6. (Wrap(s) = incseq(Wrap(p)) <=> s = p + 1)
    <2>1. p \in Int /\ s \in Int /\ p + 1 \in Int /\ s - p < RlSize
      BY <1>1
    <2>2. incseq(Wrap(p)) = Wrap(p + 1)
      BY <2>1, Steps
    <2>3. (p + 1) - s < SeqNoTH /\ s - (p + 1) < SeqNoTH
      BY <1>1, <2>1
    <2>4. Wrap(s) = Wrap(p + 1) => s = p + 1
      BY <2>1, <2>3, WrapApart
    <2>5. QED
      BY <2>2, <2>4
  <1>7. /\ decseq(Wrap(s)) = Wrap(s - 1) /\ Wrap(s - 1) \in Int /\ s - 1 \in Nat
        /\ incseq(Wrap(s)) = Wrap(u) /\ Wrap(u) \in Int /\ Wrap(u) # -1 /\ Wrap(q) \in Int
    BY <1>1, <1>3, Steps
  <1>8. (Beyond(Wrap(q), Wrap(u)) <=> q > u) /\ u <= q /\ p < u
    <2>1. q - s < RlSize
      BY <1>1
    <2>2. u \in Int /\ q \in Int /\ q - u < SeqNoTH /\ u - q < SeqNoTH /\ u <= q /\ p < u
      BY <1>1, <2>1
    <2>3. QED
      BY <2>2, BeyondIs
  <1>9. \A d \in T : d <= p \/ u < d
    <2>1. \A d \in T : d \in Nat
      BY <1>1
    <2>2. SUFFICES ASSUME NEW d \in T, d > p, d <= u PROVE FALSE
      BY <1>1, <1>3, <2>1
    <2>3. d - 1 \in p .. q
      BY <1>1, <1>3, <1>8, <2>1, <2>2
    <2>4. QED
      BY <2>2, <2>3 DEF Run, Starts
  <1> HIDE DEF u, i, n, T
  <1>10. /\ l.head \in Int /\ l.tail \in Int /\ l.length \in Int
         /\ l.data1 \in [RlSlots -> Int] /\ l.data2 \in [RlSlots -> Int]
         /\ l.next \in [RlSlots -> Int] /\ l.prior \in [RlSlots -> Int]
    BY <1>4 DEF ListType
  <1>11. /\ k.head = l.head /\ k.tail = l.tail /\ k.length = l.length - 1 /\ k.data1 = l.data1
         /\ k.data2 = [l.data2 EXCEPT ![i] = IF s = p + 1 THEN -1 ELSE Wrap(s - 1)]
         /\ k.next = l.next /\ k.prior = l.prior
    BY <1>1, <1>4, <1>6, <1>7 DEF CutNode, ListType
  <1>12. k \in ListType
    <2>1. \A v \in Int : [l EXCEPT !.data2[i] = v, !.length = @ - 1] \in ListType
      BY <1>4, ListChange
    <2>2. (IF Wrap(s) = incseq(l.data1[i]) THEN -1 ELSE decseq(Wrap(s))) \in Int
      BY <1>7
    <2>3. QED
      BY <2>1, <2>2 DEF CutNode
  <1>13. m = [k EXCEPT
                !.data1[n] = incseq(Wrap(s)),
                !.data2[n] = EndKept(incseq(Wrap(s)), l.data2[i], @),
                !.tail = IF @ = i THEN n ELSE @,
                !.next = [@ EXCEPT ![n] = l.next[i], ![i] = n],
                !.prior = [j \in RlSlots |->
                             IF j = n THEN i
                             ELSE IF l.tail # i /\ j = l.next[i] THEN n ELSE l.prior[j]]]
    BY DEF SplitNode
  <1> HIDE DEF m, k
  <1>14. /\ m.head = k.head
         /\ m.tail = IF k.tail = i THEN n ELSE k.tail
         /\ m.length = k.length
         /\ m.data1 = [k.data1 EXCEPT ![n] = incseq(Wrap(s))]
         /\ m.data2 = [k.data2 EXCEPT ![n] = EndKept(incseq(Wrap(s)), l.data2[i], k.data2[n])]
         /\ m.next = [k.next EXCEPT ![n] = l.next[i], ![i] = n]
         /\ m.prior = [j \in RlSlots |->
                         IF j = n THEN i
                         ELSE IF l.tail # i /\ j = l.next[i] THEN n ELSE l.prior[j]]
         /\ m = [head |-> m.head, tail |-> m.tail, length |-> m.length, data1 |-> m.data1,
                 data2 |-> m.data2, next |-> m.next, prior |-> m.prior]
    BY <1>12, <1>13 DEF ListType
  <1>15. EndKept(incseq(Wrap(s)), l.data2[i], k.data2[n]) = IF q > u THEN Wrap(q) ELSE -1
    <2>1. k.data2[n] = -1
      BY <1>3, <1>10, <1>11
    <2>2. QED
      BY <1>1, <1>7, <1>8, <2>1 DEF EndKept
  <1>16. /\ m.head = l.head
         /\ m.tail = IF l.tail = i THEN n ELSE l.tail
         /\ m.length = l.length - 1
         /\ m.data1 = [l.data1 EXCEPT ![n] = Wrap(u)]
         /\ m.data2 = [[l.data2 EXCEPT ![i] = IF s = p + 1 THEN -1 ELSE Wrap(s - 1)]
                         EXCEPT ![n] = IF q > u THEN Wrap(q) ELSE -1]
         /\ m.next = [l.next EXCEPT ![n] = l.next[i], ![i] = n]
    BY <1>7, <1>11, <1>14, <1>15
  <1>17. m \in ListType
    <2>1. i \in Int /\ n \in Int
      BY <1>3, <1>4, Size DEF RlSlots
    <2>2. /\ m.head \in Int /\ m.tail \in Int /\ m.length \in Int
          /\ m.data1 \in [RlSlots -> Int] /\ m.next \in [RlSlots -> Int]
      BY <1>3, <1>4, <1>7, <1>10, <1>16, <2>1
    <2>3. m.data2 \in [RlSlots -> Int]
      BY <1>3, <1>4, <1>7, <1>10, <1>16
    <2>4. m.prior \in [RlSlots -> Int]
      BY <1>3, <1>4, <1>10, <1>14, <2>1
    <2>5. QED
      BY <1>14, <2>2, <2>3, <2>4 DEF ListType
  <1>18. Places(m, T \cup {u}, o)
    <2>1. \A a \in T : m.data1[At(o, a)] = Wrap(a)
      BY <1>1, <1>3, <1>5, <1>10, <1>16 DEF Places
    <2>2. m.data1[n] = Wrap(u)
      BY <1>3, <1>10, <1>16
    <2>3. ASSUME NEW j \in RlSlots, m.data1[j] # -1, j # n PROVE \E a \in T : j = At(o, a)
      <3>1. l.data1[j] # -1
        BY <1>10, <1>16, <2>3
      <3>2. QED
        BY <1>5, <3>1 DEF Places
    <2>4. QED
      BY <2>1, <2>2, <2>3 DEF Places, n
  <1>19. Ends(m, R, o)
    <2>1. ASSUME NEW a \in R, NEW b \in R, Run(R, a, b)
          PROVE  m.data2[At(o, a)] = IF a = b THEN -1 ELSE Wrap(b)
      <3>0. a \in S /\ b \in S /\ a # s /\ a <= b
        BY <2>1 DEF Without, Run
      <3>1. /\ s <= q /\ a \in S /\ b \in S /\ a # s /\ a <= b /\ Narrow(S) /\ p <= s
            /\ a \in Nat /\ b \in Nat
        BY <1>1, <3>0 DEF Rep
      <3>2. \/ (Run(S, a, b) /\ a # p /\ a # u)
            \/ (a = u /\ b = q)
            \/ (a = p /\ b = s - 1)
        BY <2>1, <3>1, RunsLess DEF u
      <3>3. CASE Run(S, a, b) /\ a # p /\ a # u
        <4>1. a \in T
          BY <3>1, <3>3 DEF Run, Starts, T
        <4>2. At(o, a) # i /\ At(o, a) # n /\ At(o, a) \in RlSlots
          BY <1>1, <1>2, <1>3, <3>1, <3>3, <4>1 DEF Apart, i
        <4>3. m.data2[At(o, a)] = l.data2[At(o, a)]
          BY <1>10, <1>16, <4>2
        <4>4. QED
          BY <1>5, <3>1, <3>3, <4>3 DEF Ends
      <3>4. CASE a = u /\ b = q
        <4>1. m.data2[n] = IF q > u THEN Wrap(q) ELSE -1
          BY <1>3, <1>10, <1>16
        <4>2. QED
          BY <1>1, <1>3, <1>8, <3>4, <4>1 DEF n
      <3>5. CASE a = p /\ b = s - 1
        <4>1. m.data2[i] = IF s = p + 1 THEN -1 ELSE Wrap(s - 1)
          BY <1>3, <1>4, <1>10, <1>16
        <4>2. s = p + 1 <=> a = b
          BY <1>1, <3>1, <3>5
        <4>3. QED
          BY <3>5, <4>1, <4>2 DEF i
      <3>6. QED
        BY <3>2, <3>3, <3>4, <3>5
    <2>2. ASSUME NEW j \in RlSlots, m.data1[j] = -1 PROVE m.data2[j] = -1
      <3>1. j # n /\ l.data1[j] = -1
        BY <1>3, <1>7, <1>10, <1>16, <2>2
      <3>2. l.data1[i] # -1
        BY <1>1, Steps
      <3>3. m.data2[j] = l.data2[j]
        BY <1>10, <1>16, <3>1, <3>2
      <3>4. QED
        BY <1>5, <3>1, <3>3 DEF Ends
    <2>3. QED
      BY <2>1, <2>2 DEF Ends
  <1>20. Links(m, T \cup {u}, o)
    <2>1. m.next \in [RlSlots -> Int] /\ m.prior \in [RlSlots -> Int]
      BY <1>17 DEF ListType
    <2>2. PutAfter(l, m, i, n)
      BY <1>3, <1>4, <1>10, <1>14, <1>16, <2>1 DEF PutAfter
    <2>3. /\ o \in Int /\ Chained(T) /\ u \in Nat /\ u \notin T /\ Apart(T \cup {u}, o)
          /\ p \in T /\ p < u /\ i = At(o, p) /\ n = At(o, u)
      BY <1>1, <1>2, <1>3, <1>8 DEF i, n
    <2>4. QED
      BY <1>5, <1>9, <2>2, <2>3, LinkInsert
  <1>21. Places(m, Starts(R), o) /\ Ends(m, R, o) /\ Links(m, Starts(R), o)
    BY <1>2, <1>18, <1>19, <1>20
  <1>22. Rep(m, R, o)
    BY <1>16, <1>17, <1>21, RepLess
  <1>23. QED
    BY <1>22 DEF m, i, n, u

-----------------------------------------------------------------------------
(* remove(seqno).                                                          *)

(* The slot of s holds s itself if s starts a range.                        *)
LEMMA StartHere ==
  ASSUME NEW o \in RlSlots, NEW S, NEW l, Rep(l, S, o), NEW s \in Int,
         \A a \in S : s - a < SeqNoTH /\ a - s < SeqNoTH
  PROVE  l.data1[At(o, s)] = Wrap(s) <=> s \in Starts(S)
  <1>1. /\ Starts(S) \subseteq S /\ o \in Int /\ Places(l, Starts(S), o)
        /\ \A a \in S : a \in Int
    BY RepTells DEF Rep
  <1>2. At(o, s) \in RlSlots /\ Wrap(s) # -1
    BY <1>1, AtSlot, Steps
  <1>3. ASSUME l.data1[At(o, s)] = Wrap(s) PROVE s \in Starts(S)
    <2>1. PICK a \in Starts(S) : At(o, s) = At(o, a)
      BY <1>1, <1>2, <1>3 DEF Places
    <2>2. Wrap(s) = Wrap(a)
      BY <1>1, <1>3, <2>1 DEF Places
    <2>3. a \in Int /\ s - a < SeqNoTH /\ a - s < SeqNoTH
      BY <1>1
    <2>4. s = a
      BY <2>2, <2>3, WrapApart
    <2>5. QED
      BY <2>1, <2>4
  <1>4. QED
    BY <1>1, <1>3 DEF Places

(* The search back from the slot of s ends at the start before it.          *)
LEMMA NodeBeforeIs ==
  ASSUME NEW o \in RlSlots, NEW S, NEW l, Rep(l, S, o), NEW s \in Int,
         NEW m \in S, \A a \in S : m <= a, s - m <= RlSize,
         NEW p \in Starts(S), p < s, \A a \in Starts(S) : a <= p \/ s <= a
  PROVE  NodeBefore(l, At(o, s)) = At(o, p)
  <1> DEFINE P(k) == /\ l.data1[Back(At(o, s), k)] # -1
                     /\ \A j \in 1 .. k - 1 : l.data1[Back(At(o, s), j)] = -1
             d == s - p
  <1>1. /\ o \in Int /\ Starts(S) \subseteq S /\ RlSize \in Nat
        /\ \A a \in S : a \in Int
        /\ \A a, b \in S : b - a < RlSize
        /\ Places(l, Starts(S), o)
    BY RepTells DEF Rep
  <1>2. p \in Int /\ m <= p /\ d \in 1 .. RlSize
    BY <1>1
  <1>3. \A k \in Int : Back(At(o, s), k) = At(o, s - k)
    BY <1>1, BackIs
  <1>4. l.data1[Back(At(o, s), d)] # -1
    <2>1. Back(At(o, s), d) = At(o, s - d) /\ s - d = p
      BY <1>2, <1>3
    <2>2. l.data1[At(o, p)] = Wrap(p) /\ Wrap(p) # -1
      BY <1>1, <1>2, Steps DEF Places
    <2> HIDE DEF d
    <2>3. QED
      BY <2>1, <2>2
  <1>5. ASSUME NEW j \in 1 .. d - 1 PROVE l.data1[Back(At(o, s), j)] = -1
    <2> DEFINE x == s - j
    <2>1. j \in Int /\ x \in Int /\ p < x /\ x < s
      BY <1>2
    <2>2. Back(At(o, s), j) = At(o, x) /\ At(o, x) \in RlSlots
      BY <1>1, <1>3, <2>1, AtSlot
    <2> HIDE DEF x
    <2>3. SUFFICES ASSUME l.data1[At(o, x)] # -1 PROVE FALSE
      BY <2>2
    <2>4. PICK a \in Starts(S) : At(o, x) = At(o, a)
      BY <1>1, <2>2, <2>3 DEF Places
    <2>5. a \in Int /\ m <= a /\ a - m < RlSize /\ m \in Int /\ x - m < RlSize /\ m < x
      BY <1>1, <1>2, <2>1
    <2>6. a - x < RlSize /\ x - a < RlSize
      BY <1>1, <2>1, <2>5
    <2>7. x = a
      BY <1>1, <2>1, <2>4, <2>5, <2>6, AtApart
    <2>8. QED
      BY <1>2, <2>1, <2>4, <2>7
  <1>6. P(d)
    BY <1>4, <1>5
  <1>7. ASSUME NEW k \in 1 .. RlSize, P(k) PROVE k = d
    <2>1. ~(k < d)
      <3>1. SUFFICES ASSUME k < d PROVE FALSE
        OBVIOUS
      <3>2. k \in 1 .. d - 1
        BY <1>1, <1>2, <3>1
      <3>3. QED
        BY <1>5, <1>7, <3>2
    <2>2. ~(d < k)
      <3>1. SUFFICES ASSUME d < k PROVE FALSE
        OBVIOUS
      <3>2. d \in 1 .. k - 1
        BY <1>1, <1>2, <3>1
      <3>3. QED
        BY <1>4, <1>7, <3>2
    <2>3. QED
      BY <1>1, <1>2, <2>1, <2>2
  <1>8. (CHOOSE k \in 1 .. RlSize : P(k)) = d
    BY <1>2, <1>6, <1>7
  <1>9. NodeBefore(l, At(o, s)) = Back(At(o, s), d)
    BY <1>8 DEF NodeBefore
  <1>10. Back(At(o, s), d) = At(o, p)
    <2>1. Back(At(o, s), d) = At(o, s - d) /\ s - d = p
      BY <1>2, <1>3
    <2> HIDE DEF d
    <2>2. QED
      BY <2>1
  <1>11. QED
    BY <1>9, <1>10

(* Whatever slot the search starts from, it ends at a node.                  *)
LEMMA NodeBeforeExists ==
  ASSUME NEW o \in RlSlots, NEW S, NEW l, Rep(l, S, o), NEW s \in Int, NEW m \in Starts(S)
  PROVE  \E a \in Starts(S) : NodeBefore(l, At(o, s)) = At(o, a)
  <1> DEFINE P(k) == /\ l.data1[Back(At(o, s), k)] # -1
                     /\ \A j \in 1 .. k - 1 : l.data1[Back(At(o, s), j)] = -1
  <1>1. /\ o \in Int /\ RlSize \in Nat /\ RlSize >= 2 /\ Places(l, Starts(S), o)
        /\ m \in Int /\ m \in Starts(S)
    BY RepTells, Size DEF Rep
  <1>2. PICK x : x = s - m - 1
    OBVIOUS
  <1>3. PICK q, d : q = x % RlSize /\ d = x \div RlSize
    OBVIOUS
  <1>4. x \in Int /\ q \in 0 .. RlSize - 1 /\ d \in Int /\ x = RlSize * d + q
    <2>1. x \in Int
      BY <1>1, <1>2
    <2>2. x = RlSize * (x \div RlSize) + (x % RlSize) /\ 0 <= x % RlSize /\ x % RlSize < RlSize
      BY <1>1, <2>1, DivMod
    <2>3. QED
      BY <1>1, <1>3, <2>1, <2>2
  <1>5. q + 1 \in 1 .. RlSize /\ q + 1 \in Int
    BY <1>1, <1>4
  <1>6. Back(At(o, s), q + 1) = At(o, m)
    <2>1. Back(At(o, s), q + 1) = At(o, s - (q + 1))
      BY <1>1, <1>5, BackIs
    <2>2. PICK y, z, e : y = o + (s - (q + 1)) /\ z = o + m /\ e = RlSize
      OBVIOUS
    <2>3. y \in Int /\ z \in Int /\ e \in Int /\ e >= 2
      BY <1>1, <1>4, <2>2
    <2>4. y - z = e * d
      <3>1. y - z = s - m - 1 - q
        BY <1>1, <1>4, <2>2
      <3>2. s - m - 1 - q = x - q
        BY <1>2
      <3>3. x - q = RlSize * d
        BY <1>1, <1>4
      <3>4. QED
        BY <2>2, <3>1, <3>2, <3>3
    <2>5. y % e = z % e
      BY <1>4, <2>3, <2>4, SameMod
    <2>6. QED
      BY <2>1, <2>2, <2>5 DEF At
  <1>7. l.data1[Back(At(o, s), q + 1)] # -1
    BY <1>1, <1>6, Steps DEF Places
  <1> DEFINE K == {k \in 1 .. RlSize : l.data1[Back(At(o, s), k)] # -1}
  <1>8. PICK k \in K : \A j \in K : k <= j
    <2>1. K \subseteq Nat /\ K # {}
      BY <1>5, <1>7
    <2>2. QED
      BY <2>1, LeastNumber
  <1>9. k \in 1 .. RlSize /\ P(k)
    <2>1. ASSUME NEW j \in 1 .. k - 1 PROVE l.data1[Back(At(o, s), j)] = -1
      <3>1. j \in 1 .. RlSize /\ ~(k <= j)
        BY <1>1, <1>8
      <3>2. QED
        BY <1>8, <3>1
    <2>2. QED
      BY <1>8, <2>1
  <1>10. PICK c : c \in 1 .. RlSize /\ P(c) /\ c = CHOOSE j \in 1 .. RlSize : P(j)
    BY <1>9
  <1>11. NodeBefore(l, At(o, s)) = Back(At(o, s), c)
    BY <1>10 DEF NodeBefore
  <1>12. Back(At(o, s), c) = At(o, s - c) /\ At(o, s - c) \in RlSlots
    <2>1. c \in Int /\ c \in 1 .. RlSize
      BY <1>1, <1>10
    <2>2. s - c \in Int
      BY <2>1
    <2>3. QED
      BY <1>1, <2>1, <2>2, BackIs, AtSlot
  <1>13. l.data1[At(o, s - c)] # -1
    BY <1>10, <1>12
  <1>14. QED
    BY <1>1, <1>11, <1>12, <1>13 DEF Places

(* A number beyond all others is in none of the nodes.                      *)
LEMMA RemoveBeyond ==
  ASSUME NEW o \in RlSlots, NEW S, NEW l, Rep(l, S, o), NEW s \in Int,
         \A a \in S : a < s /\ s - a < SeqNoTH, S # {}
  PROVE  removeAt(l, Wrap(s), At(o, s)) = l
  <1>1. /\ Narrow(S) /\ Starts(S) \subseteq S /\ \A a \in S : a \in Int
        /\ SeqNoTH \in Nat /\ SeqNoTH > 0
    BY RepTells, SeqNoAssumption DEF Rep
  <1>2. \A a \in S : s - a < SeqNoTH /\ a - s < SeqNoTH
    BY <1>1
  <1>3. s \notin Starts(S)
    BY <1>1
  <1>4. l.data1[At(o, s)] # Wrap(s)
    BY <1>2, <1>3, StartHere
  <1>5. PICK m \in Starts(S) : IsLeast(Starts(S), m)
    BY <1>1, StartsNarrow
  <1>6. PICK a \in Starts(S) : NodeBefore(l, At(o, s)) = At(o, a)
    BY <1>5, NodeBeforeExists
  <1>7. PICK b \in S : Run(S, a, b)
    <2>1. a \in S /\ a - 1 \notin S
      BY DEF Starts
    <2>2. PICK x \in S, b \in S : Run(S, x, b) /\ x <= a /\ a <= b
      BY <1>1, <2>1, InRun
    <2>3. x = a
      <3>1. SUFFICES ASSUME x # a PROVE a - 1 \in x .. b
        BY <2>1, <2>2 DEF Run
      <3>2. QED
        BY <1>1, <2>1, <2>2, <3>1
    <2>4. QED
      BY <2>2, <2>3
  <1>8. l.data2[At(o, a)] = IF a = b THEN -1 ELSE Wrap(b)
    BY <1>1, <1>7, RepTells
  <1>9. Beyond(Wrap(s), Wrap(b))
    BY <1>1, <1>2, BeyondIs
  <1>10. QED
    BY <1>4, <1>6, <1>8, <1>9 DEF removeAt

(* removeAt, when s starts a range.                                         *)
LEMMA RemoveStart ==
  ASSUME NEW o \in RlSlots, NEW S, NEW l, Rep(l, S, o), NEW s \in Starts(S),
         \A a \in S : s - a < SeqNoTH /\ a - s < SeqNoTH
  PROVE  Rep(removeAt(l, Wrap(s), At(o, s)), Without(S, s), o)
  <1>1. /\ s \in S /\ s \in Int /\ o \in Int /\ Narrow(S)
    BY RepTells DEF Rep
  <1>2. l.data1[At(o, s)] = Wrap(s)
    BY <1>1, StartHere
  <1>3. (At(o, s) + 1) % RlSize = At(o, s + 1)
    BY <1>1, AtShift
  <1>4. PICK p \in S, q \in S : Run(S, p, q) /\ p <= s /\ s <= q
    BY <1>1, InRun
  <1>5. \A a \in S : a \in Nat /\ a \in Int
    BY RepTells
  <1>6. p = s
    <2>1. SUFFICES ASSUME p # s PROVE s - 1 \in p .. q
      BY <1>4 DEF Run, Starts
    <2>2. QED
      BY <1>1, <1>4, <1>5, <2>1
  <1>7. Run(S, s, q)
    BY <1>4, <1>6
  <1>8. l.data2[At(o, s)] = IF s = q THEN -1 ELSE Wrap(q)
    BY <1>1, <1>7, RepTells
  <1>9. CASE s = q
    <2>1. removeAt(l, Wrap(s), At(o, s)) = RemoveNode(l, At(o, s))
      BY <1>2, <1>8, <1>9 DEF removeAt
    <2>2. Run(S, s, s)
      BY <1>7, <1>9
    <2>3. QED
      BY <1>1, <2>1, <2>2, RemoveNodeRight
  <1>10. CASE s # q
    <2>1. Wrap(q) # -1 /\ s < q
      BY <1>1, <1>4, <1>5, <1>10, Steps
    <2>2. removeAt(l, Wrap(s), At(o, s)) = MoveNode(l, At(o, s), At(o, s + 1))
      BY <1>2, <1>3, <1>8, <1>10, <2>1 DEF removeAt
    <2>3. QED
      BY <1>1, <1>7, <2>1, <2>2, MoveNodeRight
  <1>11. QED
    BY <1>9, <1>10

(* removeAt, when it does not: what is found is the range before s.         *)
LEMMA RemoveInside ==
  ASSUME NEW o \in RlSlots, NEW S, NEW l, Rep(l, S, o), NEW s \in Int, s \notin Starts(S),
         \A a \in S : s - a < SeqNoTH /\ a - s < SeqNoTH,
         NEW m \in S, IsLeast(S, m), m < s, s - m <= RlSize
  PROVE  /\ Rep(removeAt(l, Wrap(s), At(o, s)), Without(S, s), o)
         /\ s \notin S => removeAt(l, Wrap(s), At(o, s)) = l
  <1>1. /\ o \in Int /\ Narrow(S) /\ Starts(S) \subseteq S
        /\ \A a \in S : a \in Nat /\ a \in Int
        /\ \A a \in S : m <= a
        /\ RlSize \in Nat /\ RlSize < SeqNoTH - 2 /\ SeqNoTH \in Nat
        /\ \A a, b \in S : b - a < RlSize
    BY RepTells DEF Rep, IsLeast
  <1>2. l.data1[At(o, s)] # Wrap(s)
    BY StartHere
  <1>3. (At(o, s) + 1) % RlSize = At(o, s + 1)
    BY <1>1, AtShift
  <1>4. PICK p \in Starts(S) : p < s /\ \A a \in Starts(S) : a <= p \/ s <= a
    <2> DEFINE U == {a \in Starts(S) : a < s}
    <2>1. m \in Starts(S)
      <3>1. m - 1 \notin S
        BY <1>1
      <3>2. QED
        BY <3>1 DEF Starts
    <2>2. s \in Nat /\ U \subseteq 0 .. s
      BY <1>1
    <2>3. PICK x \in U : \A y \in U : y <= x
      BY <2>1, <2>2, GreatestNumber
    <2>4. \A a \in Starts(S) : a <= x \/ s <= a
      BY <1>1, <2>3
    <2>5. QED
      BY <2>3, <2>4
  <1>5. NodeBefore(l, At(o, s)) = At(o, p)
    BY <1>1, <1>4, NodeBeforeIs
  <1>6. p \in S /\ p - 1 \notin S /\ p \in Nat /\ p < s
    BY <1>1, <1>4 DEF Starts
  <1>7. PICK b \in S : Run(S, p, b)
    <2>1. PICK x \in S, b \in S : Run(S, x, b) /\ x <= p /\ p <= b
      BY <1>1, <1>6, InRun
    <2>2. x = p
      <3>1. SUFFICES ASSUME x # p PROVE p - 1 \in x .. b
        BY <1>6, <2>1 DEF Run
      <3>2. QED
        BY <1>1, <2>1, <3>1
    <2>3. QED
      BY <2>1, <2>2
  <1>8. /\ l.data2[At(o, p)] = IF p = b THEN -1 ELSE Wrap(b)
        /\ b \in Nat /\ p <= b
    BY <1>1, <1>6, <1>7, RepTells DEF Run
  <1>9. /\ Beyond(Wrap(s), Wrap(b)) <=> s > b
        /\ Wrap(s) = Wrap(b) => s = b
        /\ Wrap(b) # -1
    <2>1. b - s < SeqNoTH /\ s - b < SeqNoTH /\ b \in Int
      BY <1>8
    <2>2. QED
      BY <2>1, BeyondIs, WrapApart, Steps
  <1>10. CASE s > b
    <2>1. s \notin S
      <3>1. SUFFICES ASSUME s \in S PROVE FALSE
        OBVIOUS
      <3>2. PICK x \in S, y \in S : Run(S, x, y) /\ x <= s /\ s <= y
        BY <1>1, <3>1, InRun
      <3>3. x \in Starts(S) /\ x < s /\ x \in Nat /\ y \in Nat
        BY <1>1, <3>2 DEF Run, Starts
      <3>4. x <= p
        BY <1>1, <1>4, <3>3
      <3>5. x <= p /\ p <= y /\ p <= p /\ p <= b
        BY <1>6, <1>8, <3>2, <3>3, <3>4
      <3>6. y = b
        BY <1>1, <1>6, <1>7, <3>1, <3>2, <3>5, SameRun
      <3>7. QED
        BY <1>8, <1>10, <3>2, <3>6
    <2>2. Without(S, s) = S
      BY <2>1 DEF Without
    <2>3. removeAt(l, Wrap(s), At(o, s)) = l
      BY <1>2, <1>5, <1>8, <1>9, <1>10 DEF removeAt
    <2>4. QED
      BY <2>2, <2>3
  <1>11. CASE s <= b
    <2>1. s \in S /\ p # b
      <3>1. s \in p .. b /\ p # b
        BY <1>6, <1>8, <1>11
      <3>2. QED
        BY <1>7, <3>1 DEF Run
    <2>2. l.data2[At(o, p)] = Wrap(b) /\ Wrap(b) # -1 /\ ~Beyond(Wrap(s), Wrap(b))
      BY <1>8, <1>9, <1>11, <2>1
    <2>3. CASE s = b
      <3>1. removeAt(l, Wrap(s), At(o, s)) = CutNode(l, At(o, p), Wrap(s))
        BY <1>2, <1>5, <2>2, <2>3 DEF removeAt
      <3>2. Run(S, p, s)
        BY <1>7, <2>3
      <3>3. QED
        BY <1>6, <2>1, <3>1, <3>2, CutNodeRight
    <2>4. CASE s # b
      <3>1. s < b
        BY <1>8, <1>11, <2>4
      <3>2. removeAt(l, Wrap(s), At(o, s)) = SplitNode(l, At(o, p), At(o, s + 1), Wrap(s))
        BY <1>2, <1>3, <1>5, <1>9, <2>2, <2>4 DEF removeAt
      <3>3. QED
        BY <1>6, <1>7, <2>1, <3>1, <3>2, SplitNodeRight
    <2>5. QED
      BY <2>1, <2>3, <2>4
  <1>12. QED
    BY <1>8, <1>10, <1>11

(* The first number is the head's.                                          *)
LEMMA HeadIs ==
  ASSUME NEW o \in RlSlots, NEW S, NEW l, Rep(l, S, o), NEW m \in S, IsLeast(S, m)
  PROVE  l.head = At(o, m) /\ HeadSeq(l) = Wrap(m) /\ m \in Starts(S)
  <1>1. Starts(S) \subseteq S /\ \A a \in S : a \in Nat
    BY RepTells
  <1>2. m \in Starts(S) /\ IsLeast(Starts(S), m)
    <2>1. m - 1 \notin S
      BY <1>1 DEF IsLeast
    <2>2. QED
      BY <1>1, <2>1 DEF Starts, IsLeast
  <1>3. l.head = At(o, m) /\ l.data1[At(o, m)] = Wrap(m)
    BY <1>2 DEF Rep, Links, Places
  <1>4. QED
    BY <1>2, <1>3 DEF HeadSeq

(* remove takes number s out of the set, if it is in it.                    *)
LEMMA RemoveRight ==
  ASSUME NEW o \in RlSlots, NEW S, NEW l, Rep(l, S, o), NEW s \in Int,
         \A a \in S : s - a < SeqNoTH /\ a - s < SeqNoTH
  PROVE  /\ Rep(remove(l, Wrap(s)), Without(S, s), o)
         /\ s \notin S => remove(l, Wrap(s)) = l
  <1>1. /\ o \in Int /\ Narrow(S)
        /\ \A a \in S : a \in Nat /\ a \in Int
        /\ RlSize \in Nat /\ RlSize < SeqNoTH - 2 /\ SeqNoTH \in Nat
        /\ l.length = 0 <=> S = {}
    BY RepTells DEF Rep
  <1>2. CASE S = {}
    <2>1. remove(l, Wrap(s)) = l /\ Without(S, s) = S
      BY <1>1, <1>2 DEF remove, Without
    <2>2. QED
      BY <1>2, <2>1
  <1>3. CASE S # {}
    <2>1. PICK m \in S : IsLeast(S, m)
      BY <1>1, <1>3, StartsNarrow
    <2>2. l.head = At(o, m) /\ HeadSeq(l) = Wrap(m) /\ m \in Int /\ l.length # 0 /\ m \in Starts(S)
      BY <1>1, <1>3, <2>1, HeadIs
    <2>3. s - m < SeqNoTH /\ m - s < SeqNoTH
      OBVIOUS
    <2>4. seqoff(HeadSeq(l), Wrap(s)) = s - m
      <3>1. -SeqNoTH < s - m /\ s - m < SeqNoTH
        BY <1>1, <2>2, <2>3
      <3>2. QED
        BY <2>2, <3>1, SeqOffAgrees
    <2>5. CASE s < m
      <3>1. s \notin S
        BY <2>1, <2>2, <2>5 DEF IsLeast
      <3>2. Without(S, s) = S
        BY <3>1 DEF Without
      <3>3. s - m < 0
        BY <2>2, <2>5
      <3>4. remove(l, Wrap(s)) = l
        BY <2>2, <2>4, <3>3 DEF remove
      <3>5. QED
        BY <3>2, <3>4
    <2>6. CASE ~(s < m)
      <3>1. RlSlot(l, Wrap(s)) = At(o, s)
        <4>1. (At(o, m) + (s - m)) % RlSize = At(o, m + (s - m))
          BY <1>1, <2>2, AtShift
        <4>2. m + (s - m) = s
          BY <2>2
        <4>3. QED
          BY <2>2, <2>4, <4>1, <4>2 DEF RlSlot
      <3>2. ~(s - m < 0)
        BY <2>2, <2>6
      <3>3. remove(l, Wrap(s)) = removeAt(l, Wrap(s), At(o, s))
        BY <2>2, <2>4, <3>1, <3>2 DEF remove
      <3>4. \A a \in S : s - a < SeqNoTH /\ a - s < SeqNoTH
        BY <1>1
      <3>5. CASE s \in Starts(S)
        <4>1. Rep(remove(l, Wrap(s)), Without(S, s), o)
          BY <3>3, <3>4, <3>5, RemoveStart
        <4>2. s \in S
          BY <3>5 DEF Starts
        <4>3. QED
          BY <4>1, <4>2
      <3>6. CASE s \notin Starts(S)
        <4>1. m < s
          BY <2>2, <2>6, <3>6
        <4>2. CASE \E a \in S : s <= a
          <5>1. s - m <= RlSize
            <6>1. PICK a \in S : s <= a
              BY <4>2
            <6>2. a - m < RlSize /\ a \in Int
              BY <1>1 DEF Narrow
            <6>3. QED
              BY <1>1, <2>2, <6>1, <6>2
          <5>2. QED
            BY <2>1, <3>3, <3>4, <3>6, <4>1, <5>1, RemoveInside
        <4>3. CASE ~ \E a \in S : s <= a
          <5>1. \A a \in S : a < s
            BY <1>1, <4>3
          <5>2. removeAt(l, Wrap(s), At(o, s)) = l
            BY <1>3, <3>4, <5>1, RemoveBeyond
          <5>3. Without(S, s) = S
            BY <4>3 DEF Without
          <5>4. QED
            BY <3>3, <5>2, <5>3
        <4>4. QED
          BY <4>2, <4>3
      <3>7. QED
        BY <3>5, <3>6
    <2>7. QED
      BY <2>5, <2>6
  <1>4. QED
    BY <1>2, <1>3

-----------------------------------------------------------------------------
(* insert.                                                                 *)

(* What Put writes.                                                        *)
LEMMA PutFields ==
  ASSUME NEW l \in ListType, NEW i \in RlSlots, NEW s1 \in Int, NEW s2 \in Int,
         NEW c \in Int, seqlen(s1, s2) = c, NEW m, m = Put(l, i, s1, s2)
  PROVE  /\ m \in ListType /\ m.head = l.head /\ m.tail = i /\ m.length = l.length + c
         /\ m.data1 = [l.data1 EXCEPT ![i] = s1]
         /\ m.data2 = [l.data2 EXCEPT ![i] = IF s2 # s1 THEN s2 ELSE l.data2[i]]
         /\ m.next = [l.next EXCEPT ![i] = -1]
         /\ m.prior = [l.prior EXCEPT ![i] = l.tail]
  <1>1. /\ l.head \in Int /\ l.tail \in Int /\ l.length \in Int
        /\ l.data1 \in [RlSlots -> Int] /\ l.data2 \in [RlSlots -> Int]
        /\ l.next \in [RlSlots -> Int] /\ l.prior \in [RlSlots -> Int]
        /\ l.data2[i] \in Int
    BY DEF ListType
  <1>2. m = [l EXCEPT !.data1[i] = s1, !.data2[i] = IF s2 # s1 THEN s2 ELSE @,
                      !.next[i] = -1, !.prior[i] = l.tail, !.tail = i, !.length = @ + c]
    BY DEF Put
  <1>3. /\ m.head = l.head /\ m.tail = i /\ m.length = l.length + c
        /\ m.data1 = [l.data1 EXCEPT ![i] = s1]
        /\ m.data2 = [l.data2 EXCEPT ![i] = IF s2 # s1 THEN s2 ELSE l.data2[i]]
        /\ m.next = [l.next EXCEPT ![i] = -1]
        /\ m.prior = [l.prior EXCEPT ![i] = l.tail]
        /\ m = [head |-> m.head, tail |-> m.tail, length |-> m.length, data1 |-> m.data1,
                data2 |-> m.data2, next |-> m.next, prior |-> m.prior]
    BY <1>2 DEF ListType
  <1>4. i \in Int
    BY Size DEF RlSlots
  <1>5. /\ m.tail \in Int /\ m.length \in Int
        /\ m.data1 \in [RlSlots -> Int] /\ m.data2 \in [RlSlots -> Int]
        /\ m.next \in [RlSlots -> Int] /\ m.prior \in [RlSlots -> Int]
    BY <1>1, <1>3, <1>4
  <1>6. m \in ListType
    BY <1>1, <1>3, <1>5 DEF ListType
  <1>7. QED
    BY <1>3, <1>6

(* The set with a range on top, which does not touch it.                    *)
With(S, lo, hi) == S \cup lo .. hi
OnTop(S, lo, hi) ==
  /\ lo \in Nat /\ hi \in Nat /\ lo <= hi /\ hi - lo < RlSize
  /\ \A a \in S : a < lo - 1 /\ hi - a < RlSize

(* It is narrow, larger by the range, and has one start more.               *)
LEMMA WithFacts ==
  ASSUME NEW S, Narrow(S), NEW lo, NEW hi, OnTop(S, lo, hi)
  PROVE  /\ Narrow(With(S, lo, hi))
         /\ Cardinality(With(S, lo, hi)) = Cardinality(S) + (hi - lo + 1)
         /\ Starts(With(S, lo, hi)) = Starts(S) \cup {lo}
         /\ lo \in With(S, lo, hi) /\ lo \notin S
  <1>1. /\ S \subseteq Nat /\ \A a \in S : a \in Nat
        /\ lo \in Nat /\ hi \in Nat /\ lo <= hi /\ hi - lo < RlSize
        /\ \A a \in S : a < lo - 1 /\ hi - a < RlSize
        /\ \A a, b \in S : b - a < RlSize
        /\ RlSize \in Nat
    BY Size DEF OnTop, Narrow
  <1>2. Narrow(With(S, lo, hi))
    <2>1. ASSUME NEW a \in With(S, lo, hi), NEW b \in With(S, lo, hi)
          PROVE  b - a < RlSize
      <3>1. a \in S \/ a \in lo .. hi
        BY DEF With
      <3>2. b \in S \/ b \in lo .. hi
        BY DEF With
      <3>3. CASE a \in S /\ b \in S
        BY <1>1, <3>3
      <3>4. CASE a \in S /\ b \in lo .. hi
        <4>1. hi - a < RlSize /\ b <= hi /\ a \in Nat /\ b \in Int
          BY <1>1, <3>4
        <4>2. QED
          BY <1>1, <4>1
      <3>5. CASE a \in lo .. hi /\ b \in S
        <4>1. b < lo - 1 /\ lo <= a /\ a \in Int /\ b \in Nat
          BY <1>1, <3>5
        <4>2. QED
          BY <1>1, <4>1
      <3>6. CASE a \in lo .. hi /\ b \in lo .. hi
        BY <1>1, <3>6
      <3>7. QED
        BY <3>1, <3>2, <3>3, <3>4, <3>5, <3>6
    <2>2. With(S, lo, hi) \subseteq Nat
      BY <1>1 DEF With
    <2>3. QED
      BY <2>1, <2>2 DEF Narrow
  <1>3. Cardinality(With(S, lo, hi)) = Cardinality(S) + (hi - lo + 1)
    <2>1. IsFiniteSet(S) /\ IsFiniteSet(lo .. hi)
      BY <1>1, NarrowFinite, FS_Interval
    <2>2. S \cap (lo .. hi) = {}
      BY <1>1
    <2>3. Cardinality(lo .. hi) = hi - lo + 1
      BY <1>1, FS_Interval
    <2>4. Cardinality(S \cup lo .. hi)
            = Cardinality(S) + Cardinality(lo .. hi) - Cardinality(S \cap (lo .. hi))
      BY <2>1, FS_Union
    <2>5. Cardinality(S \cap (lo .. hi)) = 0
      BY <2>2, FS_EmptySet
    <2>6. Cardinality(S) \in Nat
      BY <2>1, FS_CardinalityType
    <2>7. QED
      BY <1>1, <2>3, <2>4, <2>5, <2>6 DEF With
  <1>4. Starts(With(S, lo, hi)) = Starts(S) \cup {lo}
    <2>1. ASSUME NEW x \in Starts(With(S, lo, hi)) PROVE x \in Starts(S) \cup {lo}
      <3>1. (x \in S \/ x \in lo .. hi) /\ x - 1 \notin S /\ x - 1 \notin lo .. hi
        BY DEF Starts, With
      <3>2. CASE x \in S
        BY <3>1, <3>2 DEF Starts
      <3>3. CASE x \in lo .. hi
        BY <1>1, <3>1, <3>3
      <3>4. QED
        BY <3>1, <3>2, <3>3
    <2>2. ASSUME NEW x \in Starts(S) PROVE x \in Starts(With(S, lo, hi))
      <3>1. x \in S /\ x - 1 \notin S /\ x \in Nat /\ x < lo - 1
        BY <1>1 DEF Starts
      <3>2. x - 1 \notin lo .. hi
        BY <1>1, <3>1
      <3>3. QED
        BY <3>1, <3>2 DEF Starts, With
    <2>3. lo \in Starts(With(S, lo, hi))
      <3>1. lo \in lo .. hi /\ lo - 1 \notin lo .. hi /\ lo - 1 \notin S
        BY <1>1
      <3>2. QED
        BY <3>1 DEF Starts, With
    <2>4. QED
      BY <2>1, <2>2, <2>3
  <1>5. lo \in With(S, lo, hi) /\ lo \notin S
    BY <1>1 DEF With
  <1>6. QED
    BY <1>2, <1>3, <1>4, <1>5

(* Its ranges are those of the set and the new one.                         *)
LEMMA WithRuns ==
  ASSUME NEW S, Narrow(S), NEW lo, NEW hi, OnTop(S, lo, hi),
         NEW a, NEW b, Run(With(S, lo, hi), a, b)
  PROVE  (Run(S, a, b) /\ a \in S /\ b \in S) \/ (a = lo /\ b = hi)
  <1>1. /\ S \subseteq Nat /\ \A x \in S : x \in Nat
        /\ lo \in Nat /\ hi \in Nat /\ lo <= hi
        /\ \A x \in S : x < lo - 1
    BY DEF OnTop, Narrow
  <1>2. /\ (a \in S \/ a \in lo .. hi)
        /\ (b \in S \/ b \in lo .. hi)
        /\ a - 1 \notin S /\ a - 1 \notin lo .. hi
        /\ b + 1 \notin S /\ b + 1 \notin lo .. hi
        /\ a <= b
    BY DEF Run, With
  <1>3. \A x \in a .. b : x \in S \/ x \in lo .. hi
    BY DEF Run, With
  <1>4. a \in Nat /\ b \in Nat
    <2>1. \A x : x \in lo .. hi => x \in Nat
      BY <1>1
    <2>2. QED
      BY <1>1, <1>2, <2>1
  <1>5. CASE a \in S
    <2>1. b < lo - 1
      <3>1. SUFFICES ASSUME lo - 1 <= b PROVE FALSE
        BY <1>1, <1>4
      <3>2. lo - 1 \in a .. b
        BY <1>1, <1>4, <1>5, <3>1
      <3>3. lo - 1 \in S \/ lo - 1 \in lo .. hi
        BY <1>3, <3>2
      <3>4. QED
        BY <1>1, <3>3
    <2>2. b \in S
      BY <1>1, <1>2, <1>4, <2>1
    <2>3. a .. b \subseteq S
      <3>1. SUFFICES ASSUME NEW x \in a .. b PROVE x \in S
        OBVIOUS
      <3>2. x \in Int /\ x < lo
        BY <1>1, <1>4, <2>1
      <3>3. QED
        BY <1>1, <1>3, <3>2
    <2>4. QED
      BY <1>2, <1>5, <2>2, <2>3 DEF Run
  <1>6. CASE a \in lo .. hi
    <2>1. a = lo
      BY <1>1, <1>2, <1>6
    <2>2. b \notin S
      BY <1>1, <1>2, <1>4, <2>1
    <2>3. b = hi
      BY <1>1, <1>2, <2>2
    <2>4. QED
      BY <2>1, <2>3
  <1>7. QED
    BY <1>2, <1>5, <1>6

(* The numbers of list l are those of S; m has the new range in slot n too. *)
Numbered(l, S, o) ==
  /\ Places(l, Starts(S), o) /\ Ends(l, S, o) /\ l.length = Cardinality(S)
  /\ l.data1 \in [RlSlots -> Int] /\ l.data2 \in [RlSlots -> Int]
Filled(l, m, n, lo, hi) ==
  /\ m.length = l.length + (hi - lo + 1)
  /\ m.data1 = [l.data1 EXCEPT ![n] = Wrap(lo)]
  /\ m.data2 = [l.data2 EXCEPT ![n] = IF Wrap(hi) # Wrap(lo) THEN Wrap(hi) ELSE l.data2[n]]

(* A list with the range's node, put after the last one, is the list of it. *)
LEMMA RepWith ==
  ASSUME NEW S, NEW o \in RlSlots, NEW l, NEW lo, NEW hi, OnTop(S, lo, hi), Narrow(S),
         NEW n, n = At(o, lo), Numbered(l, S, o), NEW m \in ListType,
         Filled(l, m, n, lo, hi), Links(m, Starts(S) \cup {lo}, o)
  PROVE  Rep(m, With(S, lo, hi), o)
  <1>0. /\ Places(l, Starts(S), o) /\ Ends(l, S, o) /\ l.length = Cardinality(S)
        /\ l.data1 \in [RlSlots -> Int] /\ l.data2 \in [RlSlots -> Int]
        /\ m.length = l.length + (hi - lo + 1)
        /\ m.data1 = [l.data1 EXCEPT ![n] = Wrap(lo)]
        /\ m.data2 = [l.data2 EXCEPT ![n] = IF Wrap(hi) # Wrap(lo) THEN Wrap(hi)
                                            ELSE l.data2[n]]
    BY DEF Numbered, Filled
  <1> DEFINE T == Starts(S)
             R == With(S, lo, hi)
  <1>1. /\ S \subseteq Nat /\ \A a \in S : a \in Nat /\ a \in Int
        /\ lo \in Nat /\ hi \in Nat /\ lo <= hi /\ hi - lo < RlSize
        /\ RlSize \in Nat /\ RlSize < SeqNoTH - 2 /\ SeqNoTH \in Nat /\ o \in Int
        /\ T \subseteq S
    BY Size DEF OnTop, Narrow, RlSlots, Starts
  <1>2. /\ Narrow(R) /\ Cardinality(R) = Cardinality(S) + (hi - lo + 1)
        /\ Starts(R) = T \cup {lo} /\ lo \in R /\ lo \notin S
    BY WithFacts
  <1>3. n \in RlSlots
    BY <1>1, AtSlot
  <1>4. \A a \in S : At(o, a) # n /\ At(o, a) \in RlSlots
    <2>1. ASSUME NEW a \in S PROVE At(o, a) # n /\ At(o, a) \in RlSlots
      <3>1. a \in R /\ lo - a < RlSize /\ a - lo < RlSize /\ a # lo
        BY <1>2 DEF With, Narrow
      <3>2. a \in Int /\ lo \in Int
        BY <1>1
      <3>3. At(o, a) # At(o, lo)
        BY <1>1, <3>1, <3>2, AtApart
      <3>4. QED
        BY <1>1, <3>2, <3>3, AtSlot
    <2>2. QED
      BY <2>1
  <1>5. l.data1[n] = -1 /\ l.data2[n] = -1
    <2>1. \A a \in T : n # At(o, a)
      BY <1>1, <1>4
    <2>2. l.data1[n] = -1
      BY <1>0, <1>3, <2>1 DEF Places
    <2>3. QED
      BY <1>0, <1>3, <2>2 DEF Ends
  <1>6. /\ (Wrap(hi) = Wrap(lo) <=> hi = lo)
        /\ Wrap(lo) \in Int /\ Wrap(hi) \in Int /\ Wrap(lo) # -1
    <2>1. hi \in Int /\ lo \in Int /\ lo - hi < SeqNoTH /\ hi - lo < SeqNoTH
      BY <1>1
    <2>2. QED
      BY <2>1, WrapApart, Steps
  <1> HIDE DEF T, R
  <1>7. m.data1[n] = Wrap(lo) /\ \A j \in RlSlots : j # n => m.data1[j] = l.data1[j]
    BY <1>0, <1>3
  <1>8. /\ m.data2[n] = IF lo = hi THEN -1 ELSE Wrap(hi)
        /\ \A j \in RlSlots : j # n => m.data2[j] = l.data2[j]
    BY <1>0, <1>3, <1>5, <1>6
  <1>9. Places(m, T \cup {lo}, o)
    <2>1. \A a \in T : m.data1[At(o, a)] = Wrap(a)
      BY <1>0, <1>1, <1>4, <1>7 DEF Places, T
    <2>2. ASSUME NEW j \in RlSlots, m.data1[j] # -1, j # n PROVE \E a \in T : j = At(o, a)
      BY <1>0, <1>7, <2>2 DEF Places, T
    <2>3. QED
      BY <1>7, <2>1, <2>2 DEF Places
  <1>10. Ends(m, R, o)
    <2>1. ASSUME NEW a \in R, NEW b \in R, Run(R, a, b)
          PROVE  m.data2[At(o, a)] = IF a = b THEN -1 ELSE Wrap(b)
      <3>1. (Run(S, a, b) /\ a \in S /\ b \in S) \/ (a = lo /\ b = hi)
        BY <2>1, WithRuns DEF R
      <3>2. CASE Run(S, a, b) /\ a \in S /\ b \in S
        BY <1>0, <1>4, <1>8, <3>2 DEF Ends
      <3>3. CASE a = lo /\ b = hi
        BY <1>8, <3>3
      <3>4. QED
        BY <3>1, <3>2, <3>3
    <2>2. ASSUME NEW j \in RlSlots, m.data1[j] = -1 PROVE m.data2[j] = -1
      BY <1>0, <1>6, <1>7, <1>8, <2>2 DEF Ends
    <2>3. QED
      BY <2>1, <2>2 DEF Ends
  <1>11. m.length = Cardinality(R) /\ Starts(R) = Starts(S) \cup {lo}
    BY <1>0, <1>2 DEF T
  <1>12. Rep(m, R, o)
    BY <1>2, <1>9, <1>10, <1>11 DEF Rep, T
  <1>13. QED
    BY <1>12 DEF R

(* insert adds a range that is beyond the set and does not touch it.        *)
LEMMA InsertRight ==
  ASSUME NEW S, NEW o \in RlSlots, NEW l, Rep(l, S, o), NEW lo, NEW hi, OnTop(S, lo, hi)
  PROVE  \E x \in RlSlots : Rep(insert(l, Wrap(lo), Wrap(hi)), With(S, lo, hi), x)
  <1>1. /\ Narrow(S) /\ l \in ListType /\ l.length = Cardinality(S)
        /\ Places(l, Starts(S), o) /\ Ends(l, S, o) /\ Links(l, Starts(S), o)
        /\ (l.length = 0 <=> S = {}) /\ o \in Int
        /\ \A a \in S : a \in Nat /\ a \in Int
        /\ Starts(S) \subseteq S /\ Chained(Starts(S)) /\ Apart(Starts(S), o)
    BY RepTells DEF Rep
  <1>2. /\ lo \in Nat /\ hi \in Nat /\ lo <= hi /\ hi - lo < RlSize
        /\ \A a \in S : a < lo - 1 /\ hi - a < RlSize
        /\ RlSize \in Nat /\ RlSize >= 2 /\ RlSize < SeqNoTH - 2 /\ SeqNoTH \in Nat
        /\ MaxSeqNo = 2 * SeqNoTH + 1
    BY Size, SeqNoAssumption DEF OnTop
  <1>3. seqlen(Wrap(lo), Wrap(hi)) = hi - lo + 1 /\ hi - lo + 1 \in Int
    BY <1>2, SeqLenAgrees
  <1>4. Wrap(lo) \in Int /\ Wrap(hi) \in Int /\ Wrap(lo) # -1
    BY <1>2, Steps
  <1>5. /\ l.head \in Int /\ l.tail \in Int /\ l.length \in Int
        /\ l.data1 \in [RlSlots -> Int] /\ l.data2 \in [RlSlots -> Int]
        /\ l.next \in [RlSlots -> Int] /\ l.prior \in [RlSlots -> Int]
    BY <1>1 DEF ListType
  <1>6. CASE S = {}
    <2> DEFINE x == (0 - lo) % RlSize
    <2>1. x \in RlSlots /\ At(x, lo) = 0 /\ 0 \in RlSlots
      <3>1. At(0, 0 - lo) = x /\ 0 - lo \in Int
        BY <1>2 DEF At
      <3>2. (At(0, 0 - lo) + lo) % RlSize = At(0, (0 - lo) + lo)
        BY <1>2, <3>1, AtShift
      <3>3. At(0, (0 - lo) + lo) = 0
        BY <1>2 DEF At
      <3>4. x \in RlSlots
        BY <3>1, AtSlot
      <3>5. QED
        BY <1>2, <3>1, <3>2, <3>3, <3>4 DEF At, RlSlots
    <2> HIDE DEF x
    <2>2. PICK e : e = [l EXCEPT !.head = 0, !.tail = -1]
      OBVIOUS
    <2>3. /\ e.head = 0 /\ e.tail = -1 /\ e.length = l.length /\ e.data1 = l.data1
          /\ e.data2 = l.data2 /\ e.next = l.next /\ e.prior = l.prior
          /\ e = [head |-> e.head, tail |-> e.tail, length |-> e.length, data1 |-> e.data1,
                  data2 |-> e.data2, next |-> e.next, prior |-> e.prior]
      BY <1>1, <2>2 DEF ListType
    <2>4. e \in ListType
      BY <1>5, <2>3 DEF ListType
    <2>5. PICK m : m = Put(e, 0, Wrap(lo), Wrap(hi))
      OBVIOUS
    <2>6. /\ m \in ListType /\ m.head = e.head /\ m.tail = 0
          /\ m.length = e.length + (hi - lo + 1)
          /\ m.data1 = [e.data1 EXCEPT ![0] = Wrap(lo)]
          /\ m.data2 = [e.data2 EXCEPT ![0] = IF Wrap(hi) # Wrap(lo) THEN Wrap(hi) ELSE e.data2[0]]
          /\ m.next = [e.next EXCEPT ![0] = -1]
          /\ m.prior = [e.prior EXCEPT ![0] = e.tail]
      BY <1>3, <1>4, <2>1, <2>4, <2>5, PutFields
    <2>7. insert(l, Wrap(lo), Wrap(hi)) = m
      BY <1>1, <1>6, <2>2, <2>5 DEF insert
    <2>8. Starts(S) = {}
      BY <1>6 DEF Starts
    <2>9. Places(l, Starts(S), x) /\ Ends(l, S, x)
      BY <1>1, <1>6, <2>8 DEF Places, Ends
    <2>10. Links(m, Starts(S) \cup {lo}, x)
      <3>1. m.next[0] = -1 /\ m.prior[0] = -1 /\ m.head = 0 /\ m.tail = 0
        BY <1>5, <2>1, <2>3, <2>6
      <3>2. m.next \in [RlSlots -> Int] /\ m.prior \in [RlSlots -> Int]
        BY <2>6 DEF ListType
      <3>3. ~(lo < lo) /\ Starts(S) \cup {lo} = {lo}
        BY <1>2, <2>8
      <3>4. QED
        BY <2>1, <3>1, <3>2, <3>3 DEF Links, Follows
    <2>11. Numbered(l, S, x)
      BY <1>1, <1>5, <2>9 DEF Numbered
    <2>12. Filled(l, m, 0, lo, hi)
      BY <2>3, <2>6 DEF Filled
    <2>13. m \in ListType /\ 0 = At(x, lo)
      BY <2>1, <2>6
    <2>14. Rep(m, With(S, lo, hi), x)
      BY <1>1, <2>1, <2>10, <2>11, <2>12, <2>13, RepWith
    <2>15. QED
      BY <2>1, <2>7, <2>14
  <1>7. CASE S # {}
    <2> DEFINE n == At(o, lo)
    <2>1. PICK a \in S : IsLeast(S, a)
      BY <1>1, <1>7, StartsNarrow
    <2>2. PICK p \in Starts(S) : IsGreatest(Starts(S), p)
      BY <1>1, <1>7, StartsNarrow
    <2>3. l.tail = At(o, p) /\ l.next[At(o, p)] = -1 /\ At(o, p) \in RlSlots /\ p \in S
      BY <1>1, <2>2, AtSlot DEF Links
    <2>4. RlSlot(l, Wrap(lo)) = n
      <3>1. l.head = At(o, a) /\ HeadSeq(l) = Wrap(a)
        BY <2>1, HeadIs
      <3>2. -SeqNoTH < lo - a /\ lo - a < SeqNoTH /\ a \in Int /\ lo \in Int
        BY <1>1, <1>2
      <3>3. seqoff(Wrap(a), Wrap(lo)) = lo - a
        BY <3>2, SeqOffAgrees
      <3>4. (At(o, a) + (lo - a)) % RlSize = At(o, a + (lo - a)) /\ a + (lo - a) = lo
        BY <1>1, <3>2, AtShift
      <3>5. QED
        BY <3>1, <3>3, <3>4 DEF RlSlot
    <2>5. l.data2[l.tail] = -1 \/ incseq(l.data2[l.tail]) # Wrap(lo)
      <3>1. PICK y \in S, b \in S : Run(S, y, b) /\ y <= p /\ p <= b
        BY <1>1, <2>3, InRun
      <3>2. y = p
        <4>1. SUFFICES ASSUME y # p PROVE p - 1 \in y .. b
          BY <3>1 DEF Run, Starts
        <4>2. QED
          BY <1>1, <2>3, <3>1, <4>1
      <3>3. l.data2[l.tail] = IF p = b THEN -1 ELSE Wrap(b)
        BY <2>3, <3>1, <3>2, RepTells
      <3>4. b \in Int /\ b + 1 < lo /\ lo - (b + 1) < SeqNoTH /\ (b + 1) - lo < SeqNoTH
        BY <1>1, <1>2
      <3>5. incseq(Wrap(b)) = Wrap(b + 1) /\ Wrap(b + 1) # Wrap(lo)
        BY <1>2, <3>4, Steps, WrapApart
      <3>6. QED
        BY <3>3, <3>5
    <2>6. n \in RlSlots /\ n \in Int /\ At(o, p) # n
      <3>1. p \in Int /\ lo \in Int /\ lo - p < RlSize /\ p - lo < RlSize /\ p # lo
        BY <1>1, <1>2, <2>3
      <3>2. QED
        BY <1>1, <3>1, AtSlot, AtApart
    <2> DEFINE i == At(o, p)
    <2>7. i = l.tail /\ i \in RlSlots
      BY <2>3
    <2> HIDE DEF n, i
    <2>8. PICK e : e = [l EXCEPT !.next[i] = n]
      OBVIOUS
    <2>9. /\ e.head = l.head /\ e.tail = l.tail /\ e.length = l.length /\ e.data1 = l.data1
          /\ e.data2 = l.data2 /\ e.next = [l.next EXCEPT ![i] = n] /\ e.prior = l.prior
          /\ e = [head |-> e.head, tail |-> e.tail, length |-> e.length, data1 |-> e.data1,
                  data2 |-> e.data2, next |-> e.next, prior |-> e.prior]
      BY <1>1, <2>8 DEF ListType
    <2>10. e \in ListType
      <3>1. e.next \in [RlSlots -> Int]
        BY <1>5, <2>6, <2>7, <2>9
      <3>2. QED
        BY <1>5, <2>9, <3>1 DEF ListType
    <2>11. PICK m : m = Put(e, n, Wrap(lo), Wrap(hi))
      OBVIOUS
    <2>12. /\ m \in ListType /\ m.head = e.head /\ m.tail = n
           /\ m.length = e.length + (hi - lo + 1)
           /\ m.data1 = [e.data1 EXCEPT ![n] = Wrap(lo)]
           /\ m.data2 = [e.data2 EXCEPT ![n] = IF Wrap(hi) # Wrap(lo) THEN Wrap(hi)
                                               ELSE e.data2[n]]
           /\ m.next = [e.next EXCEPT ![n] = -1]
           /\ m.prior = [e.prior EXCEPT ![n] = e.tail]
      <3>1. PICK c : c = hi - lo + 1
        OBVIOUS
      <3>2. c \in Int /\ seqlen(Wrap(lo), Wrap(hi)) = c
        BY <1>3, <3>1
      <3>3. PICK f, g : f = Wrap(lo) /\ g = Wrap(hi)
        OBVIOUS
      <3>4. f \in Int /\ g \in Int /\ seqlen(f, g) = c /\ m = Put(e, n, f, g)
        BY <1>4, <2>11, <3>2, <3>3
      <3>5. /\ m \in ListType /\ m.head = e.head /\ m.tail = n /\ m.length = e.length + c
            /\ m.data1 = [e.data1 EXCEPT ![n] = f]
            /\ m.data2 = [e.data2 EXCEPT ![n] = IF g # f THEN g ELSE e.data2[n]]
            /\ m.next = [e.next EXCEPT ![n] = -1]
            /\ m.prior = [e.prior EXCEPT ![n] = e.tail]
        <4>1. PICK j : j = n
          OBVIOUS
        <4>2. j \in RlSlots /\ e \in ListType /\ m = Put(e, j, f, g)
          BY <2>6, <2>10, <3>4, <4>1
        <4>3. /\ m \in ListType /\ m.head = e.head /\ m.tail = j /\ m.length = e.length + c
              /\ m.data1 = [e.data1 EXCEPT ![j] = f]
              /\ m.data2 = [e.data2 EXCEPT ![j] = IF g # f THEN g ELSE e.data2[j]]
              /\ m.next = [e.next EXCEPT ![j] = -1]
              /\ m.prior = [e.prior EXCEPT ![j] = e.tail]
          BY ONLY <3>2, <3>4, <4>2, PutFields
        <4>4. QED
          BY <4>1, <4>3
      <3>6. QED
        BY <3>1, <3>3, <3>5
    <2>13. insert(l, Wrap(lo), Wrap(hi)) = m
      BY <1>1, <1>7, <2>4, <2>5, <2>7, <2>8, <2>11 DEF insert
    <2>14. Links(m, Starts(S) \cup {lo}, o)
      <3>1. m.next \in [RlSlots -> Int] /\ m.prior \in [RlSlots -> Int]
        BY <2>12 DEF ListType
      <3>2. i # n /\ l.next[i] = -1
        BY <2>3, <2>6 DEF i
      <3>3. PutAfter(l, m, i, n)
        BY <1>5, <2>6, <2>7, <2>9, <2>12, <3>1, <3>2 DEF PutAfter
      <3>4. lo \notin Starts(S) /\ p < lo /\ \A d \in Starts(S) : d <= p \/ lo < d
        BY <1>1, <1>2, <2>2, <2>3 DEF IsGreatest
      <3>5. Apart(Starts(S) \cup {lo}, o)
        <4>1. \A d \in Starts(S) : At(o, d) # At(o, lo)
          <5>1. ASSUME NEW d \in Starts(S) PROVE At(o, d) # At(o, lo)
            <6>1. d \in Int /\ lo \in Int /\ lo - d < RlSize /\ d - lo < RlSize /\ d # lo
              BY <1>1, <1>2
            <6>2. QED
              BY <1>1, <6>1, AtApart
          <5>2. QED
            BY <5>1
        <4>2. QED
          BY <1>1, <4>1 DEF Apart
      <3>6. i = At(o, p) /\ n = At(o, lo)
        BY DEF i, n
      <3>7. QED
        BY <1>1, <1>2, <2>2, <3>3, <3>4, <3>5, <3>6, LinkInsert
    <2>15. n = At(o, lo)
      BY DEF n
    <2>16. Rep(m, With(S, lo, hi), o)
      <3>1. Numbered(l, S, o)
        BY <1>1, <1>5 DEF Numbered
      <3>2. Filled(l, m, n, lo, hi)
        BY <2>9, <2>12 DEF Filled
      <3>3. m \in ListType
        BY <2>12
      <3>4. QED
        BY <1>1, <2>14, <2>15, <3>1, <3>2, <3>3, RepWith
    <2>17. QED
      BY <2>13, <2>16
  <1>8. QED
    BY <1>6, <1>7
-----------------------------------------------------------------------------
(* remove of a range, one number after the other.                           *)
Rule(l, from, c, m) ==
  m = [k \in 0 .. c |-> IF k = 0 THEN l ELSE remove(m[k - 1], from + k - 1)]

(* There is a table of the lists in between, however many.                  *)
LEMMA EachTables ==
  ASSUME NEW l, NEW from, NEW c \in Nat
  PROVE  \E m : Rule(l, from, c, m)
  <1> DEFINE T == {j \in Nat : ~ \E m : Rule(l, from, j, m)}
  <1>1. SUFFICES ASSUME T # {} PROVE FALSE
    OBVIOUS
  <1>2. PICK j \in T : \A y \in T : j <= y
    <2>1. T \subseteq Nat
      OBVIOUS
    <2>2. QED
      BY <1>1, <2>1, LeastNumber
  <1>3. CASE j = 0
    <2> DEFINE g == [k \in 0 .. 0 |-> l]
    <2>1. g = [k \in 0 .. 0 |-> IF k = 0 THEN l ELSE remove(g[k - 1], from + k - 1)]
      OBVIOUS
    <2>2. Rule(l, from, 0, g)
      BY <2>1 DEF Rule
    <2>3. QED
      BY <1>2, <1>3, <2>2
  <1>4. CASE j # 0
    <2>1. j \in Nat /\ j - 1 \in Nat /\ j - 1 \notin T
      BY <1>2, <1>4
    <2>2. PICK g : Rule(l, from, j - 1, g)
      BY <2>1
    <2>3. g = [k \in 0 .. j - 1 |-> IF k = 0 THEN l ELSE remove(g[k - 1], from + k - 1)]
      BY <2>2 DEF Rule
    <2> DEFINE f == [k \in 0 .. j |-> IF k = j THEN remove(g[j - 1], from + j - 1) ELSE g[k]]
               h == [k \in 0 .. j |-> IF k = 0 THEN l ELSE remove(f[k - 1], from + k - 1)]
    <2>4. ASSUME NEW k \in 0 .. j PROVE f[k] = h[k]
      <3>1. CASE k = 0
        BY <1>4, <2>1, <2>3, <3>1
      <3>2. CASE k = j
        <4>1. f[j - 1] = g[j - 1] /\ j \in 0 .. j /\ j - 1 \in 0 .. j
          BY <2>1
        <4>2. QED
          BY <1>4, <3>2, <4>1
      <3>3. CASE k # 0 /\ k # j
        <4>1. k \in 0 .. j - 1 /\ k - 1 \in 0 .. j /\ k - 1 # j
          BY <2>1, <3>3
        <4>2. f[k] = g[k] /\ f[k - 1] = g[k - 1]
          BY <3>3, <4>1
        <4>3. g[k] = remove(g[k - 1], from + k - 1)
          BY <2>3, <3>3, <4>1
        <4>4. QED
          BY <3>3, <4>2, <4>3
      <3>4. QED
        BY <3>1, <3>2, <3>3
    <2>5. f = h
      BY <2>4
    <2>6. Rule(l, from, j, f)
      BY <2>5 DEF Rule
    <2>7. QED
      BY <1>2, <2>6
  <1>5. QED
    BY <1>3, <1>4

(* removeEach is the last list of it.                                       *)
LEMMA EachTells ==
  ASSUME NEW l, NEW from, NEW c \in Nat
  PROVE  \E m : Rule(l, from, c, m) /\ removeEach(l, from, c) = m[c]
  <1> DEFINE R(f) == f = [k \in 0 .. c |-> IF k = 0 THEN l ELSE remove(f[k - 1], from + k - 1)]
             m == CHOOSE f : R(f)
  <1>1. PICK g : Rule(l, from, c, g)
    BY EachTables
  <1>2. R(g)
    BY <1>1 DEF Rule
  <1>3. removeEach(l, from, c) = m[c]
    BY DEF removeEach
  <1> HIDE DEF R
  <1>4. R(m)
    BY <1>2
  <1>5. Rule(l, from, c, m)
    BY <1>4 DEF R, Rule
  <1>6. QED
    BY <1>3, <1>5

(* The set without c numbers from f, all near enough to its numbers.         *)
WithoutFrom(S, f, c) == S \ (f .. f + c - 1)
Near(S, s) == \A a \in S : s - a < SeqNoTH /\ a - s < SeqNoTH

(* A plain sum stands for the wrapped one as long as it does not pass the end. *)
LEMMA WrapPlus ==
  ASSUME NEW s \in Int, NEW j \in Nat, Wrap(s) + j <= MaxSeqNo
  PROVE  Wrap(s + j) = Wrap(s) + j
  <1>1. Wrap(s) \in Int /\ Wrap(s) >= 0 /\ MaxSeqNo \in Int
    BY WrapRange, SeqNoAssumption
  <1>2. j \in 0 .. MaxSeqNo
    BY <1>1
  <1>3. incseqBy(Wrap(s), j) = Wrap(s + j)
    BY <1>2, SeqStepAgrees
  <1>4. MaxSeqNo - Wrap(s) >= j
    BY <1>1
  <1>5. QED
    BY <1>3, <1>4 DEF incseqBy

(* removeEach takes them all out.                                          *)
LEMMA EachRight ==
  ASSUME NEW S, NEW o \in RlSlots, NEW l, Rep(l, S, o), NEW f \in Int, NEW c \in Nat,
         Wrap(f) + c - 1 <= MaxSeqNo, \A s \in f .. f + c - 1 : Near(S, s)
  PROVE  Rep(removeEach(l, Wrap(f), c), WithoutFrom(S, f, c), o)
  <1>1. Wrap(f) \in Int /\ MaxSeqNo \in Int
    BY Steps, SeqNoAssumption
  <1>2. PICK m : Rule(l, Wrap(f), c, m) /\ removeEach(l, Wrap(f), c) = m[c]
    BY EachTells
  <1>3. /\ m[0] = l
        /\ \A k \in 1 .. c : m[k] = remove(m[k - 1], Wrap(f) + k - 1)
    <2>1. m = [k \in 0 .. c |-> IF k = 0 THEN l ELSE remove(m[k - 1], Wrap(f) + k - 1)]
      BY <1>2 DEF Rule
    <2>2. 0 \in 0 .. c /\ \A k \in 1 .. c : k \in 0 .. c /\ k # 0
      OBVIOUS
    <2>3. QED
      BY <2>1, <2>2
  <1> DEFINE T == {j \in 0 .. c : ~Rep(m[j], WithoutFrom(S, f, j), o)}
  <1>4. T = {}
    <2>1. SUFFICES ASSUME T # {} PROVE FALSE
      OBVIOUS
    <2>2. PICK j \in T : \A y \in T : j <= y
      <3>1. T \subseteq Nat
        OBVIOUS
      <3>2. QED
        BY <2>1, <3>1, LeastNumber
    <2>3. CASE j = 0
      <3>1. WithoutFrom(S, f, 0) = S
        BY DEF WithoutFrom
      <3>2. QED
        BY <1>3, <2>2, <2>3, <3>1
    <2>4. CASE j # 0
      <3>1. /\ j \in Nat /\ j \in 1 .. c /\ j - 1 \in 0 .. c /\ j - 1 \in Nat
            /\ j - 1 \notin T
        BY <2>2, <2>4
      <3>2. PICK R : R = WithoutFrom(S, f, j - 1)
        OBVIOUS
      <3>3. PICK e : e = m[j - 1]
        OBVIOUS
      <3>4. Rep(e, R, o)
        BY <3>1, <3>2, <3>3
      <3>5. PICK s : s = f + (j - 1)
        OBVIOUS
      <3>6. s \in Int /\ s \in f .. f + c - 1
        BY <3>1, <3>5
      <3>7. Wrap(s) = Wrap(f) + j - 1
        <4>1. Wrap(f) + (j - 1) <= MaxSeqNo
          BY <1>1, <3>1
        <4>2. Wrap(f + (j - 1)) = Wrap(f) + (j - 1)
          BY <3>1, <4>1, WrapPlus
        <4>3. QED
          BY <1>1, <3>1, <3>5, <4>2
      <3>8. \A a \in R : s - a < SeqNoTH /\ a - s < SeqNoTH
        BY <3>2, <3>6 DEF WithoutFrom, Near
      <3>9. Rep(remove(e, Wrap(s)), Without(R, s), o)
        BY <3>4, <3>6, <3>8, RemoveRight
      <3>10. remove(e, Wrap(s)) = m[j]
        BY <1>3, <3>1, <3>3, <3>7
      <3>11. Without(R, s) = WithoutFrom(S, f, j)
        <4>1. f .. f + j - 1 = (f .. f + (j - 1) - 1) \cup {s}
          BY <3>1, <3>5
        <4>2. QED
          BY <3>2, <4>1 DEF WithoutFrom, Without
      <3>12. QED
        BY <2>2, <3>9, <3>10, <3>11
    <2>5. QED
      BY <2>3, <2>4
  <1>5. c \in 0 .. c
    OBVIOUS
  <1>6. QED
    BY <1>2, <1>4, <1>5

(* Numbers fewer than a lap apart: the wrapped ones are as far apart, or the *)
(* second has started a new lap.                                           *)
LEMMA WrapLaps ==
  ASSUME NEW lo \in Int, NEW hi \in Int, lo <= hi, hi - lo <= MaxSeqNo
  PROVE  /\ Wrap(lo) \in 0 .. MaxSeqNo /\ Wrap(hi) \in 0 .. MaxSeqNo /\ MaxSeqNo \in Int
         /\ Wrap(lo) <= Wrap(hi) => Wrap(hi) = Wrap(lo) + hi - lo
         /\ ~(Wrap(lo) <= Wrap(hi)) => Wrap(hi) = Wrap(lo) + hi - lo - MaxSeqNo - 1
  <1>1. MaxSeqNo \in Int /\ Wrap(lo) \in 0 .. MaxSeqNo /\ Wrap(hi) \in 0 .. MaxSeqNo
    BY WrapRange, SeqNoAssumption
  <1>2. PICK M : M = MaxSeqNo + 1
    OBVIOUS
  <1>3. -M < hi - lo /\ hi - lo < M
    BY <1>1, <1>2
  <1>4. Wrap(hi) - Wrap(lo) \in {hi - lo, hi - lo - M, hi - lo + M}
    BY <1>2, <1>3, WrapGap
  <1>5. QED
    BY <1>1, <1>2, <1>4

(* removeRange takes out all numbers of the range; of one that spans the     *)
(* wrap, all but the last before the wrap.                                  *)
LEMMA RangeRight ==
  ASSUME NEW S, NEW o \in RlSlots, NEW l, Rep(l, S, o), NEW lo \in Int, NEW hi \in Int,
         lo <= hi, hi - lo <= MaxSeqNo, \A s \in lo .. hi : Near(S, s)
  PROVE  /\ Wrap(lo) <= Wrap(hi) =>
              Rep(removeRange(l, Wrap(lo), Wrap(hi)), S \ (lo .. hi), o)
         /\ \E R \in SUBSET S : /\ S \ (lo .. hi) \subseteq R
                                /\ Rep(removeRange(l, Wrap(lo), Wrap(hi)), R, o)
  <1>1. /\ Wrap(lo) \in 0 .. MaxSeqNo /\ Wrap(hi) \in 0 .. MaxSeqNo /\ MaxSeqNo \in Int
        /\ Wrap(lo) <= Wrap(hi) => Wrap(hi) = Wrap(lo) + hi - lo
        /\ ~(Wrap(lo) <= Wrap(hi)) => Wrap(hi) = Wrap(lo) + hi - lo - MaxSeqNo - 1
    BY WrapLaps
  <1>2. CASE Wrap(lo) <= Wrap(hi)
    <2>1. PICK c : c = Wrap(hi) - Wrap(lo) + 1
      OBVIOUS
    <2>2. c \in Nat /\ Wrap(lo) + c - 1 <= MaxSeqNo /\ lo + c - 1 = hi
      BY <1>1, <1>2, <2>1
    <2>3. \A s \in lo .. lo + c - 1 : Near(S, s)
      BY <2>2
    <2>4. Rep(removeEach(l, Wrap(lo), c), WithoutFrom(S, lo, c), o)
      BY <2>2, <2>3, EachRight
    <2>5. WithoutFrom(S, lo, c) = S \ (lo .. hi)
      BY <2>2 DEF WithoutFrom
    <2>6. removeRange(l, Wrap(lo), Wrap(hi)) = removeEach(l, Wrap(lo), c)
      BY <1>2, <2>1 DEF removeRange
    <2>7. QED
      BY <2>4, <2>5, <2>6
  <1>3. CASE ~(Wrap(lo) <= Wrap(hi))
    <2>1. PICK c : c = MaxSeqNo - Wrap(lo)
      OBVIOUS
    <2>2. PICK w : w = lo + c + 1
      OBVIOUS
    <2>3. PICK d : d = Wrap(hi) + 1
      OBVIOUS
    <2>4. /\ c \in Nat /\ Wrap(lo) + c - 1 <= MaxSeqNo /\ w \in Int /\ d \in Nat
          /\ w + d - 1 = hi /\ lo + c - 1 <= hi
      BY <1>1, <1>3, <2>1, <2>2, <2>3
    <2>5. Wrap(w) = 0
      <3>1. Wrap(lo) + c <= MaxSeqNo
        BY <1>1, <2>1
      <3>2. Wrap(lo + c) = MaxSeqNo
        BY <1>1, <2>1, <2>4, <3>1, WrapPlus
      <3>3. incseq(Wrap(lo + c)) = Wrap((lo + c) + 1)
        BY <2>4, Steps
      <3>4. QED
        BY <2>2, <3>2, <3>3 DEF incseq
    <2>6. \A s \in lo .. lo + c - 1 : Near(S, s)
      BY <2>4
    <2>7. PICK e : e = removeEach(l, Wrap(lo), c)
      OBVIOUS
    <2>8. PICK R : R = WithoutFrom(S, lo, c)
      OBVIOUS
    <2>9. Rep(e, R, o)
      BY <2>4, <2>6, <2>7, <2>8, EachRight
    <2>10. \A s \in w .. w + d - 1 : Near(R, s)
      <3>1. \A s \in w .. w + d - 1 : s \in lo .. hi
        BY <2>2, <2>4
      <3>2. R \subseteq S
        BY <2>8 DEF WithoutFrom
      <3>3. QED
        BY <3>1, <3>2 DEF Near
    <2>11. Wrap(w) + d - 1 <= MaxSeqNo
      BY <1>1, <2>3, <2>5
    <2>12. Rep(removeEach(e, Wrap(w), d), WithoutFrom(R, w, d), o)
      BY <2>4, <2>9, <2>10, <2>11, EachRight
    <2>13. removeRange(l, Wrap(lo), Wrap(hi)) = removeEach(e, Wrap(w), d)
      BY <1>3, <2>1, <2>3, <2>5, <2>7 DEF removeRange
    <2>14. WithoutFrom(R, w, d) \in SUBSET S /\ S \ (lo .. hi) \subseteq WithoutFrom(R, w, d)
      <3>1. \A s \in w .. w + d - 1 : s \in lo .. hi
        BY <2>2, <2>4
      <3>2. \A s \in lo .. lo + c - 1 : s \in lo .. hi
        BY <2>4
      <3>3. QED
        BY <2>8, <3>1, <3>2 DEF WithoutFrom
    <2>15. QED
      BY <1>3, <2>12, <2>13, <2>14
  <1>4. QED
    BY <1>2, <1>3

-----------------------------------------------------------------------------
(* The invariant: the list stands for a set of numbers of the window, and    *)
(* the window is one CSeqNo can compare across.                             *)
RlWindow ==
  /\ rcvBase \in Int /\ rcvTop \in Int /\ FirstSeq <= rcvBase /\ rcvBase <= rcvTop + 1
  /\ rcvTop < rcvBase + SeqNoTH - 1
RlMissing(S, o) ==
  /\ Rep(rcvList, S, o) /\ S \subseteq rcvBase .. rcvTop - 1
  /\ \A a \in S : a - rcvBase < RcvBufSize - 1
RlInv == RlWindow /\ \E S \in SUBSET (rcvBase .. rcvTop - 1), o \in RlSlots : RlMissing(S, o)

(* What the constants are.                                                 *)
LEMMA RlConstants ==
  /\ FlightFlag \in Nat /\ RlSize = FlightFlag /\ FlightFlag < SeqNoTH - 2
  /\ RcvBufSize \in Nat /\ RcvBufSize >= 2 /\ RcvBufSize <= FlightFlag
  /\ FirstSeq \in Nat /\ LastSeq \in Nat /\ SeqNoTH \in Nat
  /\ MaxSeqNo = 2 * SeqNoTH + 1 /\ MaxSeqNo \in Nat
  BY RcvLossListAssumption, SeqNoAssumption DEF RlSize

(* The empty list stands for the empty set.                                 *)
LEMMA EmptyRep ==
  ASSUME NEW l, l = [head |-> -1, tail |-> -1, length |-> 0, data1 |-> Nothing,
                     data2 |-> Nothing, next |-> Nothing, prior |-> Nothing]
  PROVE  Rep(l, {}, 0)
  <1>1. Nothing \in [RlSlots -> Int] /\ \A i \in RlSlots : Nothing[i] = -1
    BY DEF Nothing
  <1>2. l \in ListType
    BY <1>1 DEF ListType
  <1>3. Narrow({}) /\ Cardinality({}) = 0
    BY FS_EmptySet DEF Narrow
  <1>4. Starts({}) = {}
    BY DEF Starts
  <1>5. Places(l, {}, 0) /\ Ends(l, {}, 0)
    BY <1>1 DEF Places, Ends
  <1>6. Links(l, {}, 0)
    BY <1>1 DEF Links
  <1>7. QED
    BY <1>2, <1>3, <1>4, <1>5, <1>6 DEF Rep

(* The start.                                                              *)
LEMMA RlStart ==
  ASSUME RlInit
  PROVE  RlInv
  <1>1. Rep(rcvList, {}, 0)
    BY EmptyRep DEF RlInit
  <1>2. 0 \in RlSlots
    BY Size DEF RlSlots
  <1>3. RlWindow
    BY RlConstants DEF RlInit, RlWindow
  <1>4. RlMissing({}, 0)
    BY <1>1 DEF RlMissing
  <1>5. {} \in SUBSET (rcvBase .. rcvTop - 1)
    OBVIOUS
  <1>6. QED
    BY <1>2, <1>3, <1>4, <1>5 DEF RlInv

(* What the invariant tells of a set, in one place.                         *)
LEMMA MissingTells ==
  ASSUME RlWindow, NEW S, NEW o \in RlSlots, RlMissing(S, o)
  PROVE  /\ rcvBase \in Nat /\ rcvTop \in Int /\ rcvBase <= rcvTop + 1
         /\ rcvTop < rcvBase + SeqNoTH - 1
         /\ Rep(rcvList, S, o) /\ (rcvList.length = 0 <=> S = {})
         /\ \A a \in S : /\ a \in Int /\ rcvBase <= a /\ a <= rcvTop - 1
                         /\ a - rcvBase < RcvBufSize - 1
  <1>1. rcvBase \in Nat /\ rcvTop \in Int
    BY RlConstants DEF RlWindow
  <1>2. Rep(rcvList, S, o) /\ (rcvList.length = 0 <=> S = {})
    BY RepTells DEF RlMissing
  <1>3. ASSUME NEW a \in S
        PROVE  a \in Int /\ rcvBase <= a /\ a <= rcvTop - 1 /\ a - rcvBase < RcvBufSize - 1
    <2>1. a \in rcvBase .. rcvTop - 1 /\ a - rcvBase < RcvBufSize - 1
      BY DEF RlMissing
    <2>2. QED
      BY <1>1, <2>1
  <1>4. QED
    BY <1>1, <1>2, <1>3 DEF RlWindow

(* A number of the window is near all that are missing.                     *)
LEMMA WindowNear ==
  ASSUME RlWindow, NEW S, NEW o \in RlSlots, RlMissing(S, o), NEW s \in Int,
         rcvTop - s < SeqNoTH - 1, s < rcvBase + SeqNoTH - 1
  PROVE  Near(S, s)
  <1>1. SUFFICES ASSUME NEW a \in S PROVE s - a < SeqNoTH /\ a - s < SeqNoTH
    BY DEF Near
  <1>2. a \in Int /\ rcvBase <= a /\ a <= rcvTop - 1 /\ rcvBase \in Nat /\ rcvTop \in Int
    BY MissingTells
  <1>3. QED
    BY <1>2, RlConstants

(* A smaller set of the same window.                                        *)
LEMMA MissingLess ==
  ASSUME RlWindow, NEW S, NEW o \in RlSlots, RlMissing(S, o), NEW R, R \subseteq S,
         rcvBase' = rcvBase, NEW y \in Int, rcvTop' = y, rcvTop <= y, y < rcvBase + SeqNoTH - 1,
         NEW m, m = rcvList', Rep(m, R, o)
  PROVE  RlInv' /\ RlMissing(R, o)'
  <1>1. /\ rcvBase \in Nat /\ rcvTop \in Int /\ rcvBase <= rcvTop + 1
        /\ \A a \in S : /\ a \in Int /\ rcvBase <= a /\ a <= rcvTop - 1
                        /\ a - rcvBase < RcvBufSize - 1
    BY MissingTells
  <1>2. RlWindow'
    <2>1. FirstSeq <= rcvBase /\ FirstSeq \in Nat /\ SeqNoTH \in Nat
      BY RlConstants DEF RlWindow
    <2>2. rcvBase' \in Int /\ FirstSeq <= rcvBase'
      BY <1>1, <2>1
    <2>3. rcvBase' <= rcvTop' + 1 /\ rcvTop' < rcvBase' + SeqNoTH - 1
      <3>1. rcvBase <= y + 1
        BY <1>1
      <3>2. QED
        BY <3>1
    <2>4. QED
      BY <2>2, <2>3 DEF RlWindow
  <1>3. \A a \in R : a \in rcvBase' .. rcvTop' - 1 /\ a - rcvBase' < RcvBufSize - 1
    BY <1>1
  <1>4. RlMissing(R, o)'
    BY <1>3 DEF RlMissing
  <1>5. R \in SUBSET (rcvBase' .. rcvTop' - 1)
    BY <1>3
  <1>6. QED
    BY <1>2, <1>4, <1>5 DEF RlInv

(* A new packet adds the numbers it leaves out, if any.                     *)
LEMMA NewStep ==
  ASSUME RlWindow, NEW S, NEW o \in RlSlots, RlMissing(S, o), NEW s \in Nat, ReceiveNew(s)
  PROVE  /\ RlInv'
         /\ \E x \in RlSlots : \E R :
              /\ R = IF s > rcvTop + 1 THEN With(S, rcvTop + 1, s - 1) ELSE S
              /\ RlMissing(R, x)'
  <1>1. /\ rcvBase \in Nat /\ rcvTop \in Int /\ rcvBase <= rcvTop + 1
        /\ Rep(rcvList, S, o)
        /\ \A a \in S : /\ a \in Int /\ rcvBase <= a /\ a <= rcvTop - 1
                        /\ a - rcvBase < RcvBufSize - 1
    BY MissingTells
  <1>2. /\ rcvTop < s /\ s - rcvBase < RcvBufSize - 1 /\ rcvTop' = s /\ rcvBase' = rcvBase
    BY DEF ReceiveNew
  <1>3. RlWindow'
    <2>1. FirstSeq <= rcvBase /\ FirstSeq \in Nat /\ SeqNoTH \in Nat
      BY RlConstants DEF RlWindow
    <2>2. rcvBase <= s + 1 /\ s < rcvBase + SeqNoTH - 1
      BY <1>1, <1>2, RlConstants
    <2>3. s \in Int /\ rcvBase \in Int
      BY <1>1
    <2>4. QED
      BY <1>2, <2>1, <2>2, <2>3 DEF RlWindow
  <1>4. CASE s > rcvTop + 1
    <2>1. PICK lo, hi : lo = rcvTop + 1 /\ hi = s - 1
      OBVIOUS
    <2>2. OnTop(S, lo, hi)
      <3>1. lo \in Nat /\ hi \in Nat /\ lo <= hi /\ hi - lo < RlSize
        BY <1>1, <1>2, <1>4, <2>1, RlConstants
      <3>2. \A a \in S : a < lo - 1 /\ hi - a < RlSize
        BY <1>1, <1>2, <1>4, <2>1, RlConstants
      <3>3. QED
        BY <3>1, <3>2 DEF OnTop
    <2>3. incseq(Wrap(rcvTop)) = Wrap(lo) /\ decseq(Wrap(s)) = Wrap(hi)
      BY <1>1, <2>1, Steps
    <2>4. PICK m : m = insert(rcvList, Wrap(lo), Wrap(hi))
      OBVIOUS
    <2>5. rcvList' = m
      BY <1>4, <2>3, <2>4 DEF ReceiveNew
    <2>6. PICK R : R = With(S, lo, hi)
      OBVIOUS
    <2>7. PICK x \in RlSlots : Rep(m, R, x)
      BY <1>1, <2>2, <2>4, <2>6, InsertRight
    <2>8. \A a \in R : a \in rcvBase .. s - 1 /\ a - rcvBase < RcvBufSize - 1
      <3>1. ASSUME NEW a \in S PROVE a \in rcvBase .. s - 1 /\ a - rcvBase < RcvBufSize - 1
        BY <1>1, <1>2
      <3>2. ASSUME NEW a \in lo .. hi
            PROVE  a \in rcvBase .. s - 1 /\ a - rcvBase < RcvBufSize - 1
        BY <1>1, <1>2, <2>1, RlConstants
      <3>3. QED
        BY <2>6, <3>1, <3>2 DEF With
    <2>9. RlMissing(R, x)'
      BY <1>2, <2>5, <2>7, <2>8 DEF RlMissing
    <2>10. R \in SUBSET (rcvBase' .. rcvTop' - 1)
      BY <1>2, <2>8
    <2>11. RlInv'
      BY <1>3, <2>9, <2>10 DEF RlInv
    <2>12. R = With(S, rcvTop + 1, s - 1)
      BY <2>1, <2>6
    <2>13. QED
      BY <1>4, <2>9, <2>11, <2>12
  <1>5. CASE ~(s > rcvTop + 1)
    <2>1. rcvList' = rcvList /\ rcvCall' = rcvCall
      BY <1>5 DEF ReceiveNew
    <2>2. \A a \in S : a \in rcvBase .. s - 1 /\ a - rcvBase < RcvBufSize - 1
      BY <1>1, <1>2
    <2>3. RlMissing(S, o)'
      BY <1>1, <1>2, <2>1, <2>2 DEF RlMissing
    <2>4. S \in SUBSET (rcvBase' .. rcvTop' - 1)
      BY <1>2, <2>2
    <2>5. QED
      BY <1>3, <1>5, <2>1, <2>3, <2>4 DEF RlInv
  <1>6. QED
    BY <1>4, <1>5

(* An older packet is no longer missing.                                    *)
LEMMA OldStep ==
  ASSUME RlWindow, NEW S, NEW o \in RlSlots, RlMissing(S, o), NEW s \in Nat, ReceiveOld(s)
  PROVE  RlInv' /\ RlMissing(Without(S, s), o)'
  <1>1. /\ rcvBase \in Nat /\ rcvTop \in Int /\ rcvTop < rcvBase + SeqNoTH - 1
        /\ Rep(rcvList, S, o)
    BY MissingTells
  <1>2. /\ rcvBase <= s /\ s <= rcvTop /\ rcvBase' = rcvBase /\ rcvTop' = rcvTop
        /\ rcvList' = remove(rcvList, Wrap(s))
    BY DEF ReceiveOld
  <1>3. s \in Int /\ rcvTop - s < SeqNoTH - 1 /\ s < rcvBase + SeqNoTH - 1
    BY <1>1, <1>2, RlConstants
  <1>4. Near(S, s)
    BY <1>3, WindowNear
  <1>5. \A a \in S : s - a < SeqNoTH /\ a - s < SeqNoTH
    BY <1>4 DEF Near
  <1>6. PICK m : m = remove(rcvList, Wrap(s))
    OBVIOUS
  <1>7. PICK R : R = Without(S, s)
    OBVIOUS
  <1>8. Rep(m, R, o)
    BY <1>1, <1>3, <1>5, <1>6, <1>7, RemoveRight
  <1>9. R \subseteq S /\ rcvTop <= rcvTop
    BY <1>1, <1>7 DEF Without
  <1>10. RlInv' /\ RlMissing(R, o)'
    BY <1>1, <1>2, <1>6, <1>8, <1>9, MissingLess
  <1>11. QED
    BY <1>7, <1>10

(* A message drop request takes its numbers out, of a range that spans the   *)
(* wrap all but one.                                                       *)
LEMMA DropStep ==
  ASSUME RlWindow, NEW S, NEW o \in RlSlots, RlMissing(S, o),
         NEW lo \in Int, NEW hi \in Int, DropRequest(lo, hi)
  PROVE  /\ RlInv'
         /\ ~WrapInRange => RlMissing(S \ (lo .. hi), o)'
  <1>1. /\ rcvBase \in Nat /\ rcvTop \in Int /\ rcvTop < rcvBase + SeqNoTH - 1
        /\ Rep(rcvList, S, o)
    BY MissingTells
  <1>2. /\ lo <= hi /\ rcvTop - lo < SeqNoTH - 1 /\ hi - rcvBase < SeqNoTH - 1
        /\ rcvBase' = rcvBase
        /\ WrapInRange \/ Wrap(lo) <= Wrap(hi)
        /\ rcvList' = removeRange(rcvList, Wrap(lo), Wrap(hi))
        /\ rcvTop' = IF lo <= rcvTop + 1 /\ hi > rcvTop THEN hi ELSE rcvTop
    BY DEF DropRequest
  <1>3. PICK y : y = IF lo <= rcvTop + 1 /\ hi > rcvTop THEN hi ELSE rcvTop
    OBVIOUS
  <1>4. y \in Int /\ rcvTop' = y /\ rcvTop <= y /\ y < rcvBase + SeqNoTH - 1
    <2>1. rcvTop' = y
      BY <1>2, <1>3
    <2>2. y \in Int /\ rcvTop <= y /\ y < rcvBase + SeqNoTH - 1
      BY <1>1, <1>2, <1>3, RlConstants
    <2>3. QED
      BY <2>1, <2>2
  <1>5. \A s \in lo .. hi : Near(S, s)
    <2>1. ASSUME NEW s \in lo .. hi PROVE Near(S, s)
      <3>1. s \in Int /\ rcvTop - s < SeqNoTH - 1 /\ s < rcvBase + SeqNoTH - 1
        BY <1>1, <1>2, RlConstants
      <3>2. QED
        BY <3>1, WindowNear
    <2>2. QED
      BY <2>1
  <1>6. hi - lo <= MaxSeqNo
    <2>1. rcvBase <= rcvTop + 1
      BY DEF RlWindow
    <2>2. QED
      BY <1>1, <1>2, <2>1, RlConstants
  <1>7. PICK m : m = removeRange(rcvList, Wrap(lo), Wrap(hi))
    OBVIOUS
  <1>8. /\ Wrap(lo) <= Wrap(hi) => Rep(m, S \ (lo .. hi), o)
        /\ \E R \in SUBSET S : S \ (lo .. hi) \subseteq R /\ Rep(m, R, o)
    BY <1>1, <1>2, <1>5, <1>6, <1>7, RangeRight
  <1>9. rcvList' = m
    BY <1>2, <1>7
  <1>10. PICK R : R \subseteq S /\ Rep(m, R, o)
    BY <1>8
  <1>11. RlInv'
    BY <1>2, <1>4, <1>9, <1>10, MissingLess
  <1>12. ASSUME ~WrapInRange PROVE RlMissing(S \ (lo .. hi), o)'
    <2>1. PICK Q : Q = S \ (lo .. hi)
      OBVIOUS
    <2>2. Q \subseteq S /\ Rep(m, Q, o)
      BY <1>2, <1>8, <1>12, <2>1
    <2>3. RlMissing(Q, o)'
      BY <1>2, <1>4, <1>9, <2>2, MissingLess
    <2>4. QED
      BY <2>1, <2>3
  <1>13. QED
    BY <1>11, <1>12

(* The ACK point is the first missing number, or the one after the last.    *)
LEMMA AckStep ==
  ASSUME RlWindow, NEW S, NEW o \in RlSlots, RlMissing(S, o), AckFirst
  PROVE  /\ RlInv' /\ RlMissing(S, o)'
         /\ IF S = {} THEN rcvCall' = rcvCall
            ELSE \E a \in S : /\ IsLeast(S, a)
                              /\ rcvCall' = [op |-> "getFirst", lo |-> 0, hi |-> 0, ret |-> a]
  <1>1. /\ rcvBase \in Nat /\ rcvTop \in Int /\ rcvBase <= rcvTop + 1
        /\ rcvTop < rcvBase + SeqNoTH - 1
        /\ Rep(rcvList, S, o) /\ (rcvList.length = 0 <=> S = {})
        /\ \A a \in S : /\ a \in Int /\ rcvBase <= a /\ a <= rcvTop - 1
                        /\ a - rcvBase < RcvBufSize - 1
    BY MissingTells
  <1>2. PICK k : k = IF rcvList.length = 0 THEN rcvTop + 1 ELSE RlUnwrapped(HeadSeq(rcvList))
    OBVIOUS
  <1>3. /\ rcvList' = rcvList /\ rcvTop' = rcvTop
        /\ rcvBase' = IF k > rcvBase THEN k ELSE rcvBase
        /\ rcvCall' = IF rcvList.length = 0 THEN rcvCall
                      ELSE [op |-> "getFirst", lo |-> 0, hi |-> 0, ret |-> k]
    BY <1>2 DEF AckFirst, RlCalled
  <1>4. /\ k \in Int /\ rcvBase <= k /\ k <= rcvTop + 1 /\ \A a \in S : k <= a
        /\ S # {} => k \in S /\ IsLeast(S, k)
    <2>1. CASE S = {}
      BY <1>1, <1>2, <2>1
    <2>2. CASE S # {}
      <3>1. Narrow(S)
        BY <1>1 DEF Rep
      <3>2. PICK a \in S : IsLeast(S, a)
        BY <2>2, <3>1, StartsNarrow
      <3>3. HeadSeq(rcvList) = Wrap(a)
        BY <1>1, <3>2, HeadIs
      <3>4. a \in Int /\ rcvBase \in Int /\ -SeqNoTH < a - rcvBase /\ a - rcvBase < SeqNoTH
        BY <1>1, RlConstants
      <3>5. seqoff(Wrap(rcvBase), Wrap(a)) = a - rcvBase
        BY <3>4, SeqOffAgrees
      <3>6. k = a
        BY <1>1, <1>2, <2>2, <3>3, <3>4, <3>5 DEF RlUnwrapped
      <3>7. QED
        BY <1>1, <3>2, <3>6 DEF IsLeast
    <2>3. QED
      BY <2>1, <2>2
  <1>5. rcvBase' = k
    BY <1>1, <1>3, <1>4
  <1>6. RlWindow'
    <2>1. FirstSeq <= k /\ rcvTop < k + SeqNoTH - 1
      BY <1>1, <1>4, RlConstants DEF RlWindow
    <2>2. QED
      BY <1>1, <1>3, <1>4, <1>5, <2>1 DEF RlWindow
  <1>7. \A a \in S : a \in k .. rcvTop - 1 /\ a - k < RcvBufSize - 1
    BY <1>1, <1>4, RlConstants
  <1>8. RlMissing(S, o)'
    BY <1>1, <1>3, <1>5, <1>7 DEF RlMissing
  <1>9. S \in SUBSET (rcvBase' .. rcvTop' - 1)
    BY <1>3, <1>5, <1>7
  <1>10. QED
    BY <1>1, <1>3, <1>4, <1>6, <1>8, <1>9 DEF RlInv

(* The list stands for a set of numbers of the window in every state.       *)
LEMMA RlStep ==
  ASSUME RlInv, [RlNext]_rlVars
  PROVE  RlInv'
  <1>1. RlWindow
    BY DEF RlInv
  <1>2. PICK S \in SUBSET (rcvBase .. rcvTop - 1), o \in RlSlots : RlMissing(S, o)
    BY DEF RlInv
  <1>3. CASE AckFirst
    BY <1>1, <1>2, <1>3, AckStep
  <1>4. CASE \E s \in FirstSeq .. LastSeq : ReceiveNew(s) \/ ReceiveOld(s)
    <2>1. PICK s \in FirstSeq .. LastSeq : ReceiveNew(s) \/ ReceiveOld(s)
      BY <1>4
    <2>2. s \in Nat
      BY RlConstants
    <2>3. CASE ReceiveNew(s)
      BY <1>1, <1>2, <2>2, <2>3, NewStep
    <2>4. CASE ReceiveOld(s)
      BY <1>1, <1>2, <2>2, <2>4, OldStep
    <2>5. QED
      BY <2>1, <2>3, <2>4
  <1>5. CASE \E lo, hi \in FirstSeq - 1 .. LastSeq : DropRequest(lo, hi)
    <2>1. PICK lo \in FirstSeq - 1 .. LastSeq, hi \in FirstSeq - 1 .. LastSeq :
            DropRequest(lo, hi)
      BY <1>5
    <2>2. lo \in Int /\ hi \in Int
      BY RlConstants
    <2>3. QED
      BY <1>1, <1>2, <2>1, <2>2, DropStep
  <1>6. CASE UNCHANGED rlVars
    BY <1>6 DEF rlVars, RlInv, RlWindow, RlMissing
  <1>7. QED
    BY <1>3, <1>4, <1>5, <1>6 DEF RlNext

(* However the worker's calls follow one another, wrap of the numbers and    *)
(* drop requests that stop short at it included, the arrays stand for a set  *)
(* of numbers of the window.                                               *)
THEOREM RlInvariance == RlSpec => []RlInv
  <1>1. RlInit => RlInv
    BY RlStart
  <1>2. RlInv /\ [RlNext]_rlVars => RlInv'
    BY RlStep
  <1>3. QED
    BY <1>1, <1>2, PTL DEF RlSpec

-----------------------------------------------------------------------------
(* What the arrays say, in the words of the model's properties.             *)
LEMMA UnwrappedIs ==
  ASSUME RlWindow, NEW S, NEW o \in RlSlots, RlMissing(S, o), NEW a \in S
  PROVE  RlUnwrapped(Wrap(a)) = a
  <1>1. /\ rcvBase \in Nat /\ a \in Int /\ rcvBase <= a /\ a - rcvBase < RcvBufSize - 1
    BY MissingTells
  <1>2. rcvBase \in Int /\ -SeqNoTH < a - rcvBase /\ a - rcvBase < SeqNoTH
    BY <1>1, RlConstants
  <1>3. seqoff(Wrap(rcvBase), Wrap(a)) = a - rcvBase
    BY <1>1, <1>2, SeqOffAgrees
  <1>4. QED
    BY <1>1, <1>3 DEF RlUnwrapped

(* A start's range is the node in its slot, and there are no other nodes.   *)
LEMMA NodesAre ==
  ASSUME RlWindow, NEW S, NEW o \in RlSlots, RlMissing(S, o)
  PROVE  /\ \A a \in Starts(S) : At(o, a) \in RlNodes /\ RlLo(At(o, a)) = a
         /\ \A i \in RlNodes : \E a \in Starts(S) : i = At(o, a)
         /\ \A a, b \in S : Run(S, a, b) => RlHi(At(o, a)) = b
  <1>1. Rep(rcvList, S, o)
    BY MissingTells
  <1>2. /\ Starts(S) \subseteq S
        /\ \A a \in S : a \in Int /\ At(o, a) \in RlSlots
        /\ \A a, b \in S : Run(S, a, b) =>
             /\ rcvList.data1[At(o, a)] = Wrap(a)
             /\ rcvList.data2[At(o, a)] = IF a = b THEN -1 ELSE Wrap(b)
    BY <1>1, RepTells
  <1>3. Places(rcvList, Starts(S), o)
    BY <1>1 DEF Rep
  <1>4. ASSUME NEW a \in Starts(S) PROVE At(o, a) \in RlNodes /\ RlLo(At(o, a)) = a
    <2>1. rcvList.data1[At(o, a)] = Wrap(a) /\ a \in S /\ At(o, a) \in RlSlots
      BY <1>2, <1>3 DEF Places
    <2>2. Wrap(a) # -1
      BY <1>2, <2>1, Steps
    <2>3. RlUnwrapped(Wrap(a)) = a
      BY <2>1, UnwrappedIs
    <2>4. QED
      BY <2>1, <2>2, <2>3 DEF RlNodes, RlLo
  <1>5. ASSUME NEW i \in RlNodes PROVE \E a \in Starts(S) : i = At(o, a)
    BY <1>3 DEF RlNodes, Places
  <1>6. ASSUME NEW a \in S, NEW b \in S, Run(S, a, b) PROVE RlHi(At(o, a)) = b
    <2>1. a \in Starts(S)
      BY <1>6 DEF Run, Starts
    <2>2. rcvList.data2[At(o, a)] = IF a = b THEN -1 ELSE Wrap(b)
      BY <1>2, <1>6
    <2>3. Wrap(b) # -1 /\ RlUnwrapped(Wrap(b)) = b /\ RlLo(At(o, a)) = a
      BY <1>2, <1>4, <2>1, Steps, UnwrappedIs
    <2>4. QED
      BY <2>2, <2>3 DEF RlHi
  <1>7. QED
    BY <1>4, <1>5, <1>6

(* The numbers of the list are those of the set.                            *)
LEMMA LostIs ==
  ASSUME RlWindow, NEW S, NEW o \in RlSlots, RlMissing(S, o)
  PROVE  RlLost = S
  <1>1. /\ \A a \in Starts(S) : At(o, a) \in RlNodes /\ RlLo(At(o, a)) = a
        /\ \A i \in RlNodes : \E a \in Starts(S) : i = At(o, a)
        /\ \A a, b \in S : Run(S, a, b) => RlHi(At(o, a)) = b
    BY NodesAre
  <1>2. Narrow(S) /\ \A a \in S : a \in Int
    BY MissingTells DEF RlMissing, Rep
  <1>3. ASSUME NEW s \in S PROVE s \in RlLost
    <2>1. PICK p \in S, q \in S : Run(S, p, q) /\ p <= s /\ s <= q
      BY <1>2, InRun
    <2>2. p \in Starts(S)
      BY <2>1 DEF Run, Starts
    <2>3. At(o, p) \in RlNodes /\ RlLo(At(o, p)) = p /\ RlHi(At(o, p)) = q
      BY <1>1, <2>1, <2>2
    <2>4. s \in p .. q
      BY <1>2, <2>1
    <2>5. QED
      BY <2>3, <2>4 DEF RlLost
  <1>4. ASSUME NEW s \in RlLost PROVE s \in S
    <2>1. PICK i \in RlNodes : s \in RlLo(i) .. RlHi(i)
      BY DEF RlLost
    <2>2. PICK a \in Starts(S) : i = At(o, a)
      BY <1>1
    <2>3. a \in S /\ a - 1 \notin S
      BY DEF Starts
    <2>4. PICK p \in S, q \in S : Run(S, p, q) /\ p <= a /\ a <= q
      BY <1>2, <2>3, InRun
    <2>5. p = a
      <3>1. SUFFICES ASSUME p # a PROVE a - 1 \in p .. q
        BY <2>3, <2>4 DEF Run
      <3>2. QED
        BY <1>2, <2>3, <2>4, <3>1
    <2>6. RlLo(i) = a /\ RlHi(i) = q
      BY <1>1, <2>2, <2>4, <2>5
    <2>7. QED
      BY <2>1, <2>4, <2>5, <2>6 DEF Run
  <1>5. QED
    BY <1>3, <1>4

(* Nodes are neighbours exactly when their starts are.                       *)
LEMMA AdjacentIs ==
  ASSUME RlWindow, NEW S, NEW o \in RlSlots, RlMissing(S, o),
         NEW a \in Starts(S), NEW c \in Starts(S)
  PROVE  Adjacent(At(o, a), At(o, c)) <=> Follows(Starts(S), a, c)
  <1>1. /\ \A d \in Starts(S) : At(o, d) \in RlNodes /\ RlLo(At(o, d)) = d
        /\ \A i \in RlNodes : \E d \in Starts(S) : i = At(o, d)
    BY NodesAre
  <1>2. ASSUME Adjacent(At(o, a), At(o, c)) PROVE Follows(Starts(S), a, c)
    BY <1>1, <1>2 DEF Adjacent, Follows
  <1>3. ASSUME Follows(Starts(S), a, c) PROVE Adjacent(At(o, a), At(o, c))
    BY <1>1, <1>3 DEF Adjacent, Follows
  <1>4. QED
    BY <1>2, <1>3

(* The list has its shape.                                                 *)
LEMMA ShapeHolds ==
  ASSUME RlInv
  PROVE  RcvListShape
  <1>1. RlWindow
    BY DEF RlInv
  <1>2. PICK S \in SUBSET (rcvBase .. rcvTop - 1), o \in RlSlots : RlMissing(S, o)
    BY DEF RlInv
  <1> DEFINE T == Starts(S)
             L == rcvList
  <1>3. /\ \A a \in T : At(o, a) \in RlNodes /\ RlLo(At(o, a)) = a
        /\ \A i \in RlNodes : \E a \in T : i = At(o, a)
        /\ \A a, b \in S : Run(S, a, b) => RlHi(At(o, a)) = b
    BY <1>1, <1>2, NodesAre
  <1>4. /\ Rep(L, S, o) /\ Narrow(S) /\ L.length = Cardinality(S)
        /\ Links(L, T, o) /\ Ends(L, S, o) /\ Places(L, T, o)
    BY <1>1, <1>2, MissingTells DEF Rep
  <1>5. /\ o \in Int /\ T \subseteq S /\ Chained(T) /\ Apart(T, o)
        /\ \A a \in S : a \in Int /\ a \in Nat /\ At(o, a) \in RlSlots /\ At(o, a) # -1
        /\ \A a, b \in S : b - a < RlSize
        /\ RlSize \in Nat /\ RlSize < SeqNoTH - 2 /\ SeqNoTH \in Nat
    BY <1>4, RepTells
  <1>6. \A a \in T : \E b \in S : Run(S, a, b)
    <2>1. ASSUME NEW a \in T PROVE \E b \in S : Run(S, a, b)
      <3>1. a \in S /\ a - 1 \notin S
        BY DEF Starts
      <3>2. PICK p \in S, q \in S : Run(S, p, q) /\ p <= a /\ a <= q
        BY <1>4, <3>1, InRun
      <3>3. p = a
        <4>1. SUFFICES ASSUME p # a PROVE a - 1 \in p .. q
          BY <3>1, <3>2 DEF Run
        <4>2. QED
          BY <1>5, <3>1, <3>2, <4>1
      <3>4. QED
        BY <3>2, <3>3
    <2>2. QED
      BY <2>1
  <1> HIDE DEF T, L
  <1>7. ASSUME NEW i \in RlNodes
        PROVE  L.data1[i] \in 0 .. MaxSeqNo /\ i = RlSlot(L, L.data1[i]) /\ RlLo(i) <= RlHi(i)
    <2>1. PICK a \in T : i = At(o, a)
      BY <1>3
    <2>2. PICK b \in S : Run(S, a, b)
      BY <1>6
    <2>3. L.data1[i] = Wrap(a) /\ a \in S /\ a \in Int
      BY <1>4, <1>5, <2>1 DEF Places
    <2>4. PICK m \in S : IsLeast(S, m)
      BY <1>4, <2>3, StartsNarrow
    <2>5. L.head = At(o, m) /\ HeadSeq(L) = Wrap(m)
      BY <1>4, <2>4, HeadIs
    <2>6. m \in Int /\ -SeqNoTH < a - m /\ a - m < SeqNoTH
      BY <1>5, <2>3
    <2>7. seqoff(Wrap(m), Wrap(a)) = a - m
      BY <2>3, <2>6, SeqOffAgrees
    <2>8. (At(o, m) + (a - m)) % RlSize = At(o, m + (a - m)) /\ m + (a - m) = a
      BY <1>5, <2>3, <2>6, AtShift
    <2>9. i = RlSlot(L, L.data1[i])
      BY <2>1, <2>3, <2>5, <2>7, <2>8 DEF RlSlot
    <2>10. RlLo(i) <= RlHi(i)
      BY <1>3, <2>1, <2>2, <2>3 DEF Run
    <2>11. QED
      BY <2>3, <2>9, <2>10, Steps
  <1>8. ASSUME NEW i \in RlSlots \ RlNodes PROVE L.data2[i] = -1
    BY <1>4 DEF Ends, RlNodes, L
  <1>9. ASSUME NEW i \in RlNodes, NEW j \in RlNodes
        PROVE  /\ RlLo(i) < RlLo(j) => RlHi(i) < RlLo(j)
               /\ L.next[i] = j <=> Adjacent(i, j)
               /\ L.prior[j] = i <=> Adjacent(i, j)
    <2>1. PICK a \in T : i = At(o, a)
      BY <1>3
    <2>2. PICK c \in T : j = At(o, c)
      BY <1>3
    <2>3. PICK b \in S : Run(S, a, b)
      BY <1>6
    <2>4. RlLo(i) = a /\ RlHi(i) = b /\ RlLo(j) = c /\ a \in S /\ c \in S
      BY <1>3, <1>5, <2>1, <2>2, <2>3
    <2>5. a < c => b < c
      <3>1. SUFFICES ASSUME a < c, c <= b PROVE FALSE
        BY <1>5, <2>4
      <3>2. c - 1 \in a .. b
        BY <1>5, <2>4, <3>1
      <3>3. c - 1 \in S
        BY <2>3, <3>2 DEF Run
      <3>4. QED
        BY <3>3 DEF T, Starts
    <2>6. Adjacent(At(o, a), At(o, c)) <=> Follows(T, a, c)
      BY <1>1, <1>2, AdjacentIs DEF T
    <2>7. L.next[At(o, a)] = At(o, c) <=> Follows(T, a, c)
      BY <1>4, <1>5, LinksTell
    <2>8. L.prior[At(o, c)] = At(o, a) <=> Follows(T, a, c)
      BY <1>4, <1>5, LinksTell
    <2>9. QED
      BY <2>1, <2>2, <2>4, <2>5, <2>6, <2>7, <2>8
  <1>10. ASSUME NEW i \in RlNodes PROVE L.next[i] = -1 <=> i = L.tail
    <2>1. PICK a \in T : i = At(o, a)
      BY <1>3
    <2>2. L.next[At(o, a)] = -1 <=> IsGreatest(T, a)
      BY <1>4, <1>5, LinksTell
    <2>3. L.tail = At(o, a) <=> IsGreatest(T, a)
      BY <1>4, <1>5, LinksTell
    <2>4. QED
      BY <2>1, <2>2, <2>3
  <1>11. ASSUME RlNodes # {}
         PROVE  /\ L.head \in RlNodes /\ L.tail \in RlNodes
                /\ \A i \in RlNodes : RlLo(L.head) <= RlLo(i)
    <2>1. PICK a \in T, c \in T : IsLeast(T, a) /\ IsGreatest(T, c)
      BY <1>3, <1>5, <1>11 DEF Chained
    <2>2. L.head = At(o, a) /\ L.tail = At(o, c)
      BY <1>4, <2>1 DEF Links
    <2>3. ASSUME NEW i \in RlNodes PROVE RlLo(L.head) <= RlLo(i)
      <3>1. PICK d \in T : i = At(o, d)
        BY <1>3
      <3>2. a <= d
        BY <2>1 DEF IsLeast
      <3>3. QED
        BY <1>3, <2>1, <2>2, <3>1, <3>2
    <2>4. QED
      BY <1>3, <2>1, <2>2, <2>3
  <1>12. L.length = Cardinality(RlLost)
    BY <1>1, <1>2, <1>4, LostIs
  <1>13. QED
    BY <1>7, <1>8, <1>9, <1>10, <1>11, <1>12 DEF RcvListShape, L

(* The slots, ranges, links and length of the receiver's loss list fit       *)
(* together in every state.                                                *)
THEOREM AlwaysShape == RlSpec => []RcvListShape
  <1>1. RlInv => RcvListShape
    BY ShapeHolds
  <1>2. QED
    BY <1>1, RlInvariance, PTL

-----------------------------------------------------------------------------
(* The list is the set of list.h, as long as no dropped range spans the wrap. *)

(* LostIs as one formula, and in the next state.                            *)
LostTells == \A S : \A o \in RlSlots : RlWindow /\ RlMissing(S, o) => RlLost = S

LEMMA LostHere == LostTells
  BY LostIs DEF LostTells

LEMMA LostNext == LostTells'
  BY LostHere, PTL

(* remove changes the list exactly when the number was missing.             *)
LEMMA OldChanges ==
  ASSUME RlWindow, NEW S, NEW o \in RlSlots, RlMissing(S, o), NEW s \in Nat, ReceiveOld(s)
  PROVE  rcvList' # rcvList <=> s \in S
  <1>1. /\ rcvBase \in Nat /\ rcvTop \in Int /\ rcvTop < rcvBase + SeqNoTH - 1
        /\ Rep(rcvList, S, o)
    BY MissingTells
  <1>2. rcvBase <= s /\ s <= rcvTop /\ rcvList' = remove(rcvList, Wrap(s))
    BY DEF ReceiveOld
  <1>3. s \in Int /\ rcvTop - s < SeqNoTH - 1 /\ s < rcvBase + SeqNoTH - 1
    BY <1>1, <1>2, RlConstants
  <1>4. Near(S, s)
    BY <1>3, WindowNear
  <1>5. \A a \in S : s - a < SeqNoTH /\ a - s < SeqNoTH
    BY <1>4 DEF Near
  <1>6. PICK m : m = remove(rcvList, Wrap(s))
    OBVIOUS
  <1>7. Rep(m, Without(S, s), o) /\ (s \notin S => m = rcvList)
    BY <1>1, <1>3, <1>5, <1>6, RemoveRight
  <1>8. ASSUME s \in S PROVE m # rcvList
    <2>1. IsFiniteSet(S) /\ rcvList.length = Cardinality(S)
      BY <1>1, RepTells
    <2>2. Cardinality(Without(S, s)) = Cardinality(S) - 1 /\ Cardinality(S) \in Nat
      BY <1>8, <2>1, FS_RemoveElement, FS_CardinalityType DEF Without
    <2>3. m.length = Cardinality(Without(S, s))
      BY <1>7 DEF Rep
    <2>4. m.length # rcvList.length
      BY <2>1, <2>2, <2>3
    <2>5. QED
      BY <2>4
  <1>9. QED
    BY <1>2, <1>6, <1>7, <1>8

(* The set's variables, and what its actions say of them.                    *)
LEMMA SetStep ==
  ASSUME RlInv, [RlNext]_rlVars, ~WrapInRange
  PROVE  [Set!Next]_(Set!vars)
  <1>1. RlWindow
    BY DEF RlInv
  <1>2. PICK S \in SUBSET (rcvBase .. rcvTop - 1), o \in RlSlots : RlMissing(S, o)
    BY DEF RlInv
  <1>3. RlLost = S
    BY <1>1, <1>2, LostIs
  <1>4. RlInv' => RlWindow'
    BY DEF RlInv
  <1>5. ASSUME NEW R, NEW x \in RlSlots, RlInv', RlMissing(R, x)' PROVE RlLost' = R
    BY <1>4, <1>5, LostNext DEF LostTells
  <1>6. CASE AckFirst
    <2>1. /\ RlInv' /\ RlMissing(S, o)'
          /\ IF S = {} THEN rcvCall' = rcvCall
             ELSE \E a \in S : /\ IsLeast(S, a)
                               /\ rcvCall' = [op |-> "getFirst", lo |-> 0, hi |-> 0, ret |-> a]
      BY <1>1, <1>2, <1>6, AckStep
    <2>2. RlLost' = S
      BY <1>2, <1>5, <2>1
    <2>3. CASE S = {}
      BY <1>3, <2>1, <2>2, <2>3 DEF Set!vars
    <2>4. CASE S # {}
      <3>1. PICK a \in S : /\ IsLeast(S, a)
                           /\ rcvCall' = [op |-> "getFirst", lo |-> 0, hi |-> 0, ret |-> a]
        BY <2>1, <2>4
      <3>2. \A b \in S : b \in Int
        BY <1>1, <1>2, MissingTells
      <3>3. \A b \in S : (\A c \in S : b <= c) => b = a
        BY <3>1, <3>2 DEF IsLeast
      <3>4. (CHOOSE b \in S : \A c \in S : b <= c) = a
        BY <3>1, <3>3 DEF IsLeast
      <3>5. Set!First = a
        BY <1>3, <2>4, <3>4 DEF Set!First
      <3>6. Set!GetFirst
        BY <1>3, <2>2, <3>1, <3>5 DEF Set!GetFirst, Set!Called
      <3>7. QED
        BY <3>6 DEF Set!Next
    <2>5. QED
      BY <2>3, <2>4
  <1>7. ASSUME NEW s \in FirstSeq .. LastSeq, ReceiveNew(s) PROVE [Set!Next]_(Set!vars)
    <2>1. s \in Nat
      BY RlConstants
    <2>2. /\ RlInv'
          /\ \E x \in RlSlots : \E R :
               /\ R = IF s > rcvTop + 1 THEN With(S, rcvTop + 1, s - 1) ELSE S
               /\ RlMissing(R, x)'
      BY <1>1, <1>2, <1>7, <2>1, NewStep
    <2>3. RlLost' = IF s > rcvTop + 1 THEN With(S, rcvTop + 1, s - 1) ELSE S
      BY <1>5, <2>2
    <2>4. CASE s > rcvTop + 1
      <3>1. rcvCall' = [op |-> "insert", lo |-> rcvTop + 1, hi |-> s - 1, ret |-> 0]
        BY <1>7, <2>4 DEF ReceiveNew, RlCalled
      <3>2. RlLost' = RlLost \cup (rcvTop + 1) .. (s - 1)
        BY <1>3, <2>3, <2>4 DEF With
      <3>3. Set!Insert(rcvTop + 1, s - 1)
        BY <3>1, <3>2 DEF Set!Insert, Set!Called
      <3>4. /\ rcvTop + 1 \in FirstSeq - 1 .. LastSeq + 1
            /\ s - 1 \in FirstSeq - 1 .. LastSeq + 1
        <4>1. rcvTop \in Int /\ FirstSeq <= rcvTop + 1
          BY <1>1, RlConstants DEF RlWindow
        <4>2. QED
          BY <2>1, <2>4, <4>1, RlConstants
      <3>5. QED
        BY <3>3, <3>4 DEF Set!Next
    <2>5. CASE ~(s > rcvTop + 1)
      <3>1. rcvCall' = rcvCall
        BY <1>7, <2>5 DEF ReceiveNew
      <3>2. QED
        BY <1>3, <2>3, <2>5, <3>1 DEF Set!vars
    <2>6. QED
      BY <2>4, <2>5
  <1>8. ASSUME NEW s \in FirstSeq .. LastSeq, ReceiveOld(s) PROVE [Set!Next]_(Set!vars)
    <2>1. s \in Nat /\ s \in FirstSeq - 1 .. LastSeq + 1
      BY RlConstants
    <2>2. PICK R : R = Without(S, s)
      OBVIOUS
    <2>3. RlInv' /\ RlMissing(R, o)'
      BY <1>1, <1>2, <1>8, <2>1, <2>2, OldStep
    <2>4. RlLost' = RlLost \ {s}
      BY <1>2, <1>3, <1>5, <2>2, <2>3 DEF Without
    <2>5. rcvList' # rcvList <=> s \in S
      BY <1>1, <1>2, <1>8, <2>1, OldChanges
    <2>6. rcvCall' = [op |-> "remove", lo |-> s, hi |-> s, ret |-> IF s \in RlLost THEN 1 ELSE 0]
      BY <1>3, <1>8, <2>5 DEF ReceiveOld, RlCalled
    <2>7. Set!Remove(s)
      BY <2>4, <2>6 DEF Set!Remove, Set!Called
    <2>8. QED
      BY <2>1, <2>7 DEF Set!Next
  <1>9. ASSUME NEW lo \in FirstSeq - 1 .. LastSeq, NEW hi \in FirstSeq - 1 .. LastSeq,
               DropRequest(lo, hi)
        PROVE  [Set!Next]_(Set!vars)
    <2>1. /\ lo \in Int /\ hi \in Int
          /\ lo \in FirstSeq - 1 .. LastSeq + 1 /\ hi \in FirstSeq - 1 .. LastSeq + 1
      BY RlConstants
    <2>2. PICK R : R = S \ (lo .. hi)
      OBVIOUS
    <2>3. RlInv' /\ RlMissing(R, o)'
      BY <1>1, <1>2, <1>9, <2>1, <2>2, DropStep
    <2>4. RlLost' = RlLost \ (lo .. hi)
      BY <1>2, <1>3, <1>5, <2>2, <2>3
    <2>5. rcvCall' = [op |-> "removeRange", lo |-> lo, hi |-> hi, ret |-> 1]
      BY <1>9 DEF DropRequest, RlCalled
    <2>6. Set!RemoveRange(lo, hi)
      BY <2>4, <2>5 DEF Set!RemoveRange, Set!Called
    <2>7. QED
      BY <2>1, <2>6 DEF Set!Next
  <1>10. CASE UNCHANGED rlVars
    BY <1>10 DEF rlVars, Set!vars, RlLost, RlNodes, RlLo, RlHi, RlUnwrapped
  <1>11. QED
    BY <1>6, <1>7, <1>8, <1>9, <1>10 DEF RlNext

(* Every call does to the list what list.h says it does to a set, and gives  *)
(* its answer, for every size, window and first number.                     *)
THEOREM ListIsSet ==
  ASSUME ~WrapInRange
  PROVE  RlSpec => RcvListIsSet
  <1>1. RlInit => Set!Init
    <2>1. SUFFICES ASSUME RlInit PROVE Set!Init
      OBVIOUS
    <2>2. RlNodes = {}
      BY <2>1 DEF RlInit, RlNodes, Nothing
    <2>3. RlLost = {}
      BY <2>2 DEF RlLost
    <2>4. QED
      BY <2>1, <2>3 DEF RlInit, Set!Init
  <1>2. RlInv /\ [RlNext]_rlVars => [Set!Next]_(Set!vars)
    BY SetStep
  <1>3. QED
    BY <1>1, <1>2, RlInvariance, PTL DEF RlSpec, RcvListIsSet, Set!Spec

-----------------------------------------------------------------------------
(* The size of the sender's arrays.                                        *)
LEMMA SlConstants ==
  /\ SlSize \in Nat /\ SlSize >= 2 /\ SlSize <= SeqNoTH /\ SeqNoTH \in Nat
  /\ FlowWindow \in Nat /\ SlSize = 2 * FlowWindow
  /\ FirstSent \in Nat /\ LastSent \in Nat
  BY SndLossListAssumption, SeqNoAssumption DEF SlSize

(* The slot of a number in the sender's list.                               *)
Place(o, a) == (o + a) % SlSize

(* A slot is a slot.                                                       *)
LEMMA PlaceSlot ==
  ASSUME NEW o \in Int, NEW a \in Int
  PROVE  Place(o, a) \in SlSlots /\ Place(o, a) \in Int /\ Place(o, a) # -1
  <1>1. SlSize \in Int /\ SlSize >= 2 /\ o + a \in Int
    BY SlConstants
  <1>2. Place(o, a) \in Int /\ 0 <= Place(o, a) /\ Place(o, a) < SlSize
    BY <1>1, DivMod DEF Place
  <1>3. QED
    BY <1>1, <1>2 DEF SlSlots

(* Numbers less than the size apart have slots of their own.                *)
LEMMA PlaceApart ==
  ASSUME NEW o \in Int, NEW a \in Int, NEW b \in Int, Place(o, a) = Place(o, b),
         b - a < SlSize, a - b < SlSize
  PROVE  a = b
  <1>1. SlSize \in Int /\ SlSize >= 2 /\ o + a \in Int /\ o + b \in Int
    BY SlConstants
  <1>2. (o + b) - (o + a) < SlSize /\ (o + a) - (o + b) < SlSize
    OBVIOUS
  <1>3. o + a = o + b
    BY <1>1, <1>2, ModApart DEF Place
  <1>4. QED
    BY <1>3

(* The slot k further on, and a round further.                              *)
LEMMA PlaceShift ==
  ASSUME NEW o \in Int, NEW a \in Int, NEW k \in Int
  PROVE  /\ (Place(o, a) + k) % SlSize = Place(o, a + k)
         /\ (Place(o, a) + k + SlSize) % SlSize = Place(o, a + k)
  <1>1. SlSize \in Int /\ SlSize >= 2 /\ o + a \in Int /\ (o + a) + k = o + (a + k)
    BY SlConstants
  <1>2. (Place(o, a) + k) % SlSize = Place(o, a + k)
    <2> DEFINE x == o + a
               z == SlSize
    <2>1. z \in Int /\ z >= 2 /\ x \in Int /\ x + k = o + (a + k)
      BY <1>1
    <2> HIDE DEF x, z
    <2>2. ((x % z) + k) % z = (x + k) % z
      BY <2>1, ModShift
    <2>3. QED
      BY <2>1, <2>2 DEF Place, x, z
  <1>3. Place(o, a) + k \in Int
    BY PlaceSlot
  <1>4. (Place(o, a) + k + SlSize) % SlSize = (Place(o, a) + k) % SlSize
    <2> DEFINE x == Place(o, a) + k
               z == SlSize
               y == x + z
    <2>1. z \in Int /\ z >= 2 /\ x \in Int /\ y \in Int /\ y - x = z * 1
      BY <1>1, <1>3
    <2> HIDE DEF x, y, z
    <2>2. y % z = x % z
      BY <2>1, SameMod, 1 \in Int
    <2>3. QED
      BY <2>2 DEF x, y, z
  <1>5. QED
    BY <1>2, <1>4

(* Greater compares.                                                       *)
LEMMA GreaterIs ==
  ASSUME NEW a \in Int, NEW b \in Int, b - a < SeqNoTH, a - b < SeqNoTH
  PROVE  Greater(Wrap(a), Wrap(b)) <=> a > b
  <1>1. -SeqNoTH < b - a /\ SeqNoTH \in Int
    BY SeqNoAssumption
  <1>2. QED
    BY <1>1, SeqCmpAgrees DEF Greater

-----------------------------------------------------------------------------
(* The nodes of the sender's list: H has their first numbers, E[a] is the   *)
(* last one of the node of a.                                              *)
Fits(H, E) ==
  /\ H \subseteq Nat /\ E \in [Nat -> Nat]
  /\ \A a \in H : a <= E[a]
  /\ \A a, b \in H : E[b] - a < SlSize

Covered(H, E) == {n \in Nat : \E a \in H : a <= n /\ n <= E[a]}

(* No node reaches another.                                                *)
Disjoint(H, E) == \A a, b \in H : a < b => E[a] < b

SlType == [head : Int, length : Int, lastInsertPos : Int,
           data1 : [SlSlots -> Int], data2 : [SlSlots -> Int], next : [SlSlots -> Int]]

Leads(l, H, o) ==
  /\ \A a, c \in H : Follows(H, a, c) => l.next[Place(o, a)] = Place(o, c)
  /\ \A a \in H : IsGreatest(H, a) => l.next[Place(o, a)] = -1
  /\ \A a \in H : IsLeast(H, a) => l.head = Place(o, a)
  /\ H = {} => l.head = -1

Chart(l, H, E, o) ==
  /\ l \in SlType
  /\ \A a \in H : /\ l.data1[Place(o, a)] = Wrap(a)
                  /\ l.data2[Place(o, a)] = IF E[a] = a THEN -1 ELSE Wrap(E[a])
  /\ \A i \in SlSlots : (\A a \in H : i # Place(o, a)) => l.data1[i] = -1 /\ l.data2[i] = -1
  /\ Leads(l, H, o)

(* List l stands for these nodes, number s in slot (o + s) % SlSize.        *)
Stands(l, H, E, o) ==
  /\ Fits(H, E) /\ Chart(l, H, E, o) /\ Disjoint(H, E)
  /\ l.length = Cardinality(Covered(H, E))
  /\ l.lastInsertPos = -1 \/ \E a \in H : l.lastInsertPos = Place(o, a)

(* No node but that of x reaches another.                                  *)
OnlyReaches(H, E, x) == \A a, b \in H : a < b /\ a # x => E[a] < b

(* What m_iLength says while it may: the numbers of the others and its own.  *)
Reached(H, E, x) == Cardinality(Covered(H \ {x}, E)) + (E[x] - x + 1)

(* The same in the middle of an insertion, when the node of x may reach     *)
(* over those that follow it.                                              *)
Loose(l, H, E, o, x) ==
  /\ Fits(H, E) /\ Chart(l, H, E, o) /\ x \in H
  /\ OnlyReaches(H, E, x)
  /\ l.length = Reached(H, E, x)
  /\ l.lastInsertPos = Place(o, x)

(* What nodes that fit tell of their numbers.                               *)
LEMMA FitsTell ==
  ASSUME NEW H, NEW E, Fits(H, E)
  PROVE  /\ \A a \in H : a \in Nat /\ E[a] \in Nat /\ a <= E[a]
         /\ \A a, b \in H : b - a < SlSize /\ E[b] - a < SlSize
         /\ \E b \in Nat : H \subseteq 0 .. b /\ Covered(H, E) \subseteq 0 .. b
         /\ IsFiniteSet(H) /\ Chained(H)
         /\ IsFiniteSet(Covered(H, E)) /\ Cardinality(Covered(H, E)) \in Nat
  <1>1. \A a \in H : a \in Nat /\ E[a] \in Nat /\ a <= E[a]
    BY DEF Fits
  <1>2. \A a, b \in H : b - a < SlSize /\ E[b] - a < SlSize
    BY <1>1, SlConstants DEF Fits
  <1>3. PICK b \in Nat : H \subseteq 0 .. b /\ Covered(H, E) \subseteq 0 .. b
    <2>1. CASE H = {}
      BY <2>1 DEF Covered
    <2>2. CASE H # {}
      <3>1. PICK x \in H : x \in Nat
        BY <1>1, <2>2
      <3>2. \A y \in H : y <= x + SlSize /\ E[y] <= x + SlSize
        BY <1>1, <1>2, SlConstants
      <3>3. x + SlSize \in Nat
        BY <3>1, SlConstants
      <3>4. H \subseteq 0 .. x + SlSize
        BY <1>1, <3>2, <3>3
      <3>5. \A n \in Covered(H, E) : n \in Nat /\ n <= x + SlSize
        BY <1>1, <3>2, <3>3 DEF Covered
      <3>6. QED
        BY <3>3, <3>4, <3>5
    <2>3. QED
      BY <2>1, <2>2
  <1>4. IsFiniteSet(0 .. b)
    BY FS_Interval
  <1>5. IsFiniteSet(H) /\ IsFiniteSet(Covered(H, E))
    BY <1>3, <1>4, FS_Subset
  <1>6. Cardinality(Covered(H, E)) \in Nat
    BY <1>5, FS_CardinalityType
  <1>7. Chained(H)
    BY <1>3, BoundedChained
  <1>8. QED
    BY <1>1, <1>2, <1>3, <1>5, <1>6, <1>7

(* A part of the nodes fits as well.                                       *)
LEMMA FitsPart ==
  ASSUME NEW H, NEW E, Fits(H, E), NEW K \in SUBSET H
  PROVE  Fits(K, E)
  BY DEF Fits

(* A node that overlaps no other adds as many numbers as it has.            *)
LEMMA CountNode ==
  ASSUME NEW H, NEW E, Fits(H, E), NEW x \in H,
         \A b \in H : b # x => E[b] < x \/ E[x] < b
  PROVE  /\ Covered(H, E) = Covered(H \ {x}, E) \cup x .. E[x]
         /\ Covered(H \ {x}, E) \cap x .. E[x] = {}
         /\ Cardinality(Covered(H, E)) = Cardinality(Covered(H \ {x}, E)) + (E[x] - x + 1)
  <1> DEFINE A == Covered(H \ {x}, E)
             B == x .. E[x]
  <1>1. \A a \in H : a \in Nat /\ E[a] \in Nat /\ a <= E[a]
    BY FitsTell
  <1>2. Covered(H, E) = A \cup B
    BY <1>1 DEF Covered
  <1>3. A \cap B = {}
    BY <1>1 DEF Covered
  <1>4. IsFiniteSet(A)
    <2>1. Fits(H \ {x}, E)
      BY FitsPart
    <2>2. QED
      BY <2>1, FitsTell
  <1>5. IsFiniteSet(B) /\ Cardinality(B) = E[x] - x + 1
    <2>1. x \in Int /\ E[x] \in Int /\ x <= E[x]
      BY <1>1
    <2>2. QED
      BY <2>1, FS_Interval
  <1> HIDE DEF A, B
  <1>6. Cardinality(A \cup B) = Cardinality(A) + Cardinality(B) - Cardinality(A \cap B)
    BY <1>4, <1>5, FS_Union
  <1>7. Cardinality(A \cap B) = 0
    BY <1>3, FS_EmptySet
  <1>8. Cardinality(A) \in Nat /\ E[x] - x + 1 \in Int
    BY <1>1, <1>4, FS_CardinalityType
  <1>9. Cardinality(A \cup B) = Cardinality(A) + (E[x] - x + 1)
    BY <1>5, <1>6, <1>7, <1>8
  <1>10. Cardinality(Covered(H, E)) = Cardinality(A) + (E[x] - x + 1)
    BY <1>2, <1>9
  <1>11. QED
    BY <1>2, <1>3, <1>10 DEF A, B

(* What the arrays and links tell of the nodes.                             *)
LEMMA ChartTells ==
  ASSUME NEW o \in SlSlots, NEW H, NEW E, NEW l, Fits(H, E), Chart(l, H, E, o)
  PROVE  /\ o \in Int
         /\ \A a \in H : Place(o, a) \in SlSlots /\ Place(o, a) # -1
         /\ \A a, c \in H : Place(o, a) = Place(o, c) => a = c
         /\ \A a \in H : /\ l.data1[Place(o, a)] = Wrap(a) /\ l.data1[Place(o, a)] # -1
                         /\ l.data2[Place(o, a)] = -1 <=> E[a] = a
                         /\ l.data2[Place(o, a)] # -1 => l.data2[Place(o, a)] = Wrap(E[a])
                         /\ EndOf(l, Place(o, a)) = Wrap(E[a])
         /\ \A i \in SlSlots : l.data1[i] # -1 => \E a \in H : i = Place(o, a)
  <1>1. o \in Int
    BY SlConstants DEF SlSlots
  <1>2. \A a \in H : a \in Nat /\ E[a] \in Nat
    BY FitsTell
  <1>3. \A a \in H : Place(o, a) \in SlSlots /\ Place(o, a) # -1
    BY <1>1, <1>2, PlaceSlot
  <1>4. ASSUME NEW a \in H, NEW c \in H, Place(o, a) = Place(o, c) PROVE a = c
    <2>1. c - a < SlSize /\ a - c < SlSize /\ a \in Int /\ c \in Int
      BY <1>2, FitsTell
    <2>2. QED
      BY <1>1, <1>4, <2>1, PlaceApart
  <1>5. ASSUME NEW a \in H
        PROVE  /\ l.data1[Place(o, a)] = Wrap(a) /\ l.data1[Place(o, a)] # -1
               /\ l.data2[Place(o, a)] = -1 <=> E[a] = a
               /\ l.data2[Place(o, a)] # -1 => l.data2[Place(o, a)] = Wrap(E[a])
               /\ EndOf(l, Place(o, a)) = Wrap(E[a])
    <2>1. Wrap(a) # -1 /\ Wrap(E[a]) # -1
      BY <1>2, Steps
    <2>2. /\ l.data1[Place(o, a)] = Wrap(a)
          /\ l.data2[Place(o, a)] = IF E[a] = a THEN -1 ELSE Wrap(E[a])
      BY DEF Chart
    <2>3. QED
      BY <2>1, <2>2 DEF EndOf
  <1>6. \A i \in SlSlots : l.data1[i] # -1 => \E a \in H : i = Place(o, a)
    BY DEF Chart
  <1>7. QED
    BY <1>1, <1>3, <1>4, <1>5, <1>6

(* What the links tell of the order.                                       *)
LEMMA LeadsTell ==
  ASSUME NEW o \in SlSlots, NEW H, NEW E, NEW l, Fits(H, E), Chart(l, H, E, o), NEW s \in H
  PROVE  /\ l.next[Place(o, s)] = -1 <=> IsGreatest(H, s)
         /\ \A c \in H : l.next[Place(o, s)] = Place(o, c) <=> Follows(H, s, c)
         /\ IsGreatest(H, s) \/ \E c \in H : Follows(H, s, c)
         /\ l.head = Place(o, s) <=> IsLeast(H, s)
  <1>1. \A a \in H : a \in Nat /\ Place(o, a) # -1
    BY FitsTell, ChartTells
  <1>2. \A a, c \in H : Place(o, a) = Place(o, c) => a = c
    BY ChartTells
  <1>3. Leads(l, H, o)
    BY DEF Chart
  <1>4. IsGreatest(H, s) \/ \E c \in H : Follows(H, s, c)
    BY FitsTell DEF Chained
  <1>5. \A c \in H : ~(IsGreatest(H, s) /\ Follows(H, s, c))
    BY <1>1 DEF IsGreatest, Follows
  <1>6. \A c, d \in H : Follows(H, s, c) /\ Follows(H, s, d) => c = d
    BY <1>1 DEF Follows
  <1>7. l.next[Place(o, s)] = -1 <=> IsGreatest(H, s)
    <2>1. IsGreatest(H, s) => l.next[Place(o, s)] = -1
      BY <1>3 DEF Leads
    <2>2. ASSUME NEW c \in H, Follows(H, s, c) PROVE l.next[Place(o, s)] # -1
      BY <1>1, <1>3, <2>2 DEF Leads
    <2>3. QED
      BY <1>4, <2>1, <2>2
  <1>8. ASSUME NEW c \in H PROVE l.next[Place(o, s)] = Place(o, c) <=> Follows(H, s, c)
    <2>1. Follows(H, s, c) => l.next[Place(o, s)] = Place(o, c)
      BY <1>3 DEF Leads
    <2>2. ASSUME l.next[Place(o, s)] = Place(o, c) PROVE Follows(H, s, c)
      <3>1. l.next[Place(o, s)] # -1
        BY <1>1, <2>2
      <3>2. PICK d \in H : Follows(H, s, d)
        BY <1>4, <1>7, <3>1
      <3>3. l.next[Place(o, s)] = Place(o, d)
        BY <1>3, <3>2 DEF Leads
      <3>4. c = d
        BY <1>2, <2>2, <3>3
      <3>5. QED
        BY <3>2, <3>4
    <2>3. QED
      BY <2>1, <2>2
  <1>9. l.head = Place(o, s) <=> IsLeast(H, s)
    <2>1. PICK m \in H : IsLeast(H, m)
      BY FitsTell DEF Chained
    <2>2. l.head = Place(o, m)
      BY <1>3, <2>1 DEF Leads
    <2>3. IsLeast(H, s) => s = m
      BY <1>1, <2>1 DEF IsLeast
    <2>4. QED
      BY <1>2, <2>1, <2>2, <2>3
  <1>10. QED
    BY <1>4, <1>7, <1>8, <1>9

(* The first node, and what its number tells of another's slot.             *)
LEMMA FirstTells ==
  ASSUME NEW o \in SlSlots, NEW H, NEW E, NEW l, Fits(H, E), Chart(l, H, E, o), H # {},
         NEW s \in Int, \A a \in H : s - a < SeqNoTH /\ a - s < SeqNoTH
  PROVE  \E m \in H : /\ IsLeast(H, m) /\ l.head = Place(o, m) /\ FirstNo(l) = Wrap(m)
                      /\ seqoff(FirstNo(l), Wrap(s)) = s - m
                      /\ SlotOf(l, Wrap(s)) = Place(o, s)
  <1>1. PICK m \in H : IsLeast(H, m)
    BY FitsTell DEF Chained
  <1>2. l.head = Place(o, m)
    BY <1>1, LeadsTell
  <1>3. m \in Int /\ SeqNoTH \in Int /\ o \in Int
    BY FitsTell, SlConstants, ChartTells
  <1>4. FirstNo(l) = Wrap(m)
    BY <1>2, ChartTells DEF FirstNo
  <1>5. seqoff(Wrap(m), Wrap(s)) = s - m
    <2>1. -SeqNoTH < s - m /\ s - m < SeqNoTH
      BY <1>3
    <2>2. QED
      BY <1>3, <2>1, SeqOffAgrees
  <1>6. SlotOf(l, Wrap(s)) = Place(o, s)
    <2>1. (Place(o, m) + (s - m) + SlSize) % SlSize = Place(o, m + (s - m))
      BY <1>3, PlaceShift, s - m \in Int
    <2>2. m + (s - m) = s
      BY <1>3
    <2>3. QED
      BY <1>2, <1>4, <1>5, <2>1, <2>2 DEF SlotOf
  <1>7. QED
    BY <1>1, <1>2, <1>4, <1>5, <1>6

-----------------------------------------------------------------------------
(* The loops: the same step again and again, as often as there are slots.   *)
Round(loop, z, l, i, s) == IF loop = "walk" THEN Onward(l, z, s)
                           ELSE IF loop = "pop" THEN PopBefore(z, i) ELSE Absorb(z, i)
Rounds(loop, z, l, i, s, c, m) ==
  m = [k \in 0 .. c |-> IF k = 0 THEN z ELSE Round(loop, m[k - 1], l, i, s)]

(* There is a table of what they lead to, however many.                     *)
LEMMA RoundTables ==
  ASSUME NEW loop, NEW z, NEW l, NEW i, NEW s, NEW c \in Nat
  PROVE  \E m : Rounds(loop, z, l, i, s, c, m)
  <1> DEFINE T == {j \in Nat : ~ \E m : Rounds(loop, z, l, i, s, j, m)}
  <1>1. SUFFICES ASSUME T # {} PROVE FALSE
    OBVIOUS
  <1>2. PICK j \in T : \A y \in T : j <= y
    <2>1. T \subseteq Nat
      OBVIOUS
    <2>2. QED
      BY <1>1, <2>1, LeastNumber
  <1>3. CASE j = 0
    <2> DEFINE g == [k \in 0 .. 0 |-> z]
    <2>1. g = [k \in 0 .. 0 |-> IF k = 0 THEN z ELSE Round(loop, g[k - 1], l, i, s)]
      OBVIOUS
    <2>2. Rounds(loop, z, l, i, s, 0, g)
      BY <2>1 DEF Rounds
    <2>3. QED
      BY <1>2, <1>3, <2>2
  <1>4. CASE j # 0
    <2>1. j \in Nat /\ j - 1 \in Nat /\ j - 1 \notin T
      BY <1>2, <1>4
    <2>2. PICK g : Rounds(loop, z, l, i, s, j - 1, g)
      BY <2>1
    <2>3. g = [k \in 0 .. j - 1 |-> IF k = 0 THEN z ELSE Round(loop, g[k - 1], l, i, s)]
      BY <2>2 DEF Rounds
    <2> DEFINE f == [k \in 0 .. j |-> IF k = j THEN Round(loop, g[j - 1], l, i, s) ELSE g[k]]
               h == [k \in 0 .. j |-> IF k = 0 THEN z ELSE Round(loop, f[k - 1], l, i, s)]
    <2>4. ASSUME NEW k \in 0 .. j PROVE f[k] = h[k]
      <3>1. CASE k = 0
        BY <1>4, <2>1, <2>3, <3>1
      <3>2. CASE k = j
        <4>1. f[j - 1] = g[j - 1] /\ j \in 0 .. j /\ j - 1 \in 0 .. j
          BY <2>1
        <4>2. QED
          BY <1>4, <3>2, <4>1
      <3>3. CASE k # 0 /\ k # j
        <4>1. k \in 0 .. j - 1 /\ k - 1 \in 0 .. j /\ k - 1 # j
          BY <2>1, <3>3
        <4>2. f[k] = g[k] /\ f[k - 1] = g[k - 1]
          BY <3>3, <4>1
        <4>3. g[k] = Round(loop, g[k - 1], l, i, s)
          BY <2>3, <3>3, <4>1
        <4>4. QED
          BY <3>3, <4>2, <4>3
      <3>4. QED
        BY <3>1, <3>2, <3>3
    <2>5. f = h
      BY <2>4
    <2>6. Rounds(loop, z, l, i, s, j, f)
      BY <2>5 DEF Rounds
    <2>7. QED
      BY <1>2, <2>6
  <1>5. QED
    BY <1>3, <1>4

(* Such a table starts where the loop does and goes on round by round.      *)
LEMMA RoundsTell ==
  ASSUME NEW loop, NEW z, NEW l, NEW i, NEW s, NEW m, Rounds(loop, z, l, i, s, SlSize, m)
  PROVE  m[0] = z /\ \A k \in 1 .. SlSize : m[k] = Round(loop, m[k - 1], l, i, s)
  <1>1. m = [k \in 0 .. SlSize |-> IF k = 0 THEN z ELSE Round(loop, m[k - 1], l, i, s)]
    BY DEF Rounds
  <1>2. 0 \in 0 .. SlSize /\ \A k \in 1 .. SlSize : k \in 0 .. SlSize /\ k # 0
    BY SlConstants
  <1>3. QED
    BY <1>1, <1>2

(* The walk ends where its table does.                                     *)
LEMMA WalkTells ==
  ASSUME NEW l, NEW i, NEW s
  PROVE  \E m : /\ m[0] = i /\ Walk(l, i, s) = m[SlSize]
                /\ \A k \in 1 .. SlSize : m[k] = Onward(l, m[k - 1], s)
  <1> DEFINE R(f) == f = [k \in 0 .. SlSize |-> IF k = 0 THEN i ELSE Onward(l, f[k - 1], s)]
             m == CHOOSE f : R(f)
  <1>1. PICK g : Rounds("walk", i, l, 0, s, SlSize, g)
    BY RoundTables, SlConstants
  <1>2. R(g)
    BY <1>1 DEF Rounds, Round
  <1>3. Walk(l, i, s) = m[SlSize]
    BY DEF Walk
  <1> HIDE DEF R
  <1>4. R(m)
    BY <1>2
  <1>5. Rounds("walk", i, l, 0, s, SlSize, m)
    BY <1>4 DEF R, Rounds, Round
  <1> HIDE DEF m
  <1>6. m[0] = i /\ \A k \in 1 .. SlSize : m[k] = Round("walk", m[k - 1], l, 0, s)
    BY <1>5, RoundsTell
  <1>7. QED
    BY <1>3, <1>6 DEF Round

(* So does the removal of the first nodes.                                  *)
LEMMA PopToTells ==
  ASSUME NEW l, NEW i
  PROVE  \E m : /\ m[0] = l /\ PopTo(l, i) = m[SlSize]
                /\ \A k \in 1 .. SlSize : m[k] = PopBefore(m[k - 1], i)
  <1> DEFINE R(f) == f = [k \in 0 .. SlSize |-> IF k = 0 THEN l ELSE PopBefore(f[k - 1], i)]
             m == CHOOSE f : R(f)
  <1>1. PICK g : Rounds("pop", l, l, i, 0, SlSize, g)
    BY RoundTables, SlConstants
  <1>2. R(g)
    BY <1>1 DEF Rounds, Round
  <1>3. PopTo(l, i) = m[SlSize]
    BY DEF PopTo
  <1> HIDE DEF R
  <1>4. R(m)
    BY <1>2
  <1>5. Rounds("pop", l, l, i, 0, SlSize, m)
    BY <1>4 DEF R, Rounds, Round
  <1> HIDE DEF m
  <1>6. m[0] = l /\ \A k \in 1 .. SlSize : m[k] = Round("pop", m[k - 1], l, i, 0)
    BY <1>5, RoundsTell
  <1>7. QED
    BY <1>3, <1>6 DEF Round

(* And the loop that takes the following nodes in.                          *)
LEMMA CoalesceTells ==
  ASSUME NEW l, NEW i
  PROVE  \E m : /\ m[0] = l /\ Coalesce(l, i) = m[SlSize]
                /\ \A k \in 1 .. SlSize : m[k] = Absorb(m[k - 1], i)
  <1> DEFINE R(f) == f = [k \in 0 .. SlSize |-> IF k = 0 THEN l ELSE Absorb(f[k - 1], i)]
             m == CHOOSE f : R(f)
  <1>1. PICK g : Rounds("absorb", l, l, i, 0, SlSize, g)
    BY RoundTables, SlConstants
  <1>2. R(g)
    BY <1>1 DEF Rounds, Round
  <1>3. Coalesce(l, i) = m[SlSize]
    BY DEF Coalesce
  <1> HIDE DEF R
  <1>4. R(m)
    BY <1>2
  <1>5. Rounds("absorb", l, l, i, 0, SlSize, m)
    BY <1>4 DEF R, Rounds, Round
  <1> HIDE DEF m
  <1>6. m[0] = l /\ \A k \in 1 .. SlSize : m[k] = Round("absorb", m[k - 1], l, i, 0)
    BY <1>5, RoundsTell
  <1>7. QED
    BY <1>3, <1>6 DEF Round

(* One step of the walk from the node of q, which is below s.               *)
LEMMA OnwardRight ==
  ASSUME NEW o \in SlSlots, NEW H, NEW E, NEW l, Fits(H, E), Chart(l, H, E, o),
         NEW s \in Int, \A a \in H : s - a < SeqNoTH /\ a - s < SeqNoTH, NEW q \in H, q < s
  PROVE  \/ /\ Onward(l, Place(o, q), Wrap(s)) = Place(o, q)
            /\ \A a \in H : a <= q \/ s <= a
         \/ \E c \in H : q < c /\ c < s /\ Onward(l, Place(o, q), Wrap(s)) = Place(o, c)
  <1>1. \A a \in H : a \in Nat /\ a \in Int
    BY FitsTell
  <1>2. CASE IsGreatest(H, q)
    <2>1. l.next[Place(o, q)] = -1
      BY <1>2, LeadsTell
    <2>2. QED
      BY <1>2, <2>1 DEF Onward, IsGreatest
  <1>3. ASSUME NEW c \in H, Follows(H, q, c)
        PROVE  \/ /\ Onward(l, Place(o, q), Wrap(s)) = Place(o, q)
                  /\ \A a \in H : a <= q \/ s <= a
               \/ q < c /\ c < s /\ Onward(l, Place(o, q), Wrap(s)) = Place(o, c)
    <2>1. l.next[Place(o, q)] = Place(o, c)
      BY <1>3, LeadsTell
    <2>2. Place(o, c) # -1 /\ l.data1[Place(o, c)] = Wrap(c)
      BY ChartTells
    <2>3. Greater(Wrap(s), Wrap(c)) <=> s > c
      BY <1>1, GreaterIs
    <2>4. q < c /\ \A a \in H : a <= q \/ c <= a
      BY <1>3 DEF Follows
    <2>5. CASE s > c
      BY <1>1, <2>1, <2>2, <2>3, <2>4, <2>5 DEF Onward
    <2>6. CASE ~(s > c)
      <3>1. Onward(l, Place(o, q), Wrap(s)) = Place(o, q)
        BY <2>1, <2>2, <2>3, <2>6 DEF Onward
      <3>2. \A a \in H : a <= q \/ s <= a
        BY <1>1, <2>4, <2>6
      <3>3. QED
        BY <3>1, <3>2
    <2>7. QED
      BY <2>5, <2>6
  <1>4. IsGreatest(H, q) \/ \E c \in H : Follows(H, q, c)
    BY LeadsTell
  <1>5. QED
    BY <1>2, <1>3, <1>4

(* The walk ends at the last node below s.                                  *)
LEMMA WalkRight ==
  ASSUME NEW o \in SlSlots, NEW H, NEW E, NEW l, Fits(H, E), Chart(l, H, E, o),
         NEW s \in Int, \A a \in H : s - a < SeqNoTH /\ a - s < SeqNoTH, NEW p \in H, p < s
  PROVE  \E q \in H : /\ Walk(l, Place(o, p), Wrap(s)) = Place(o, q) /\ q < s
                      /\ \A a \in H : a <= q \/ s <= a
  <1>1. \A a \in H : a \in Nat /\ a \in Int
    BY FitsTell
  <1>2. PICK m : /\ m[0] = Place(o, p) /\ Walk(l, Place(o, p), Wrap(s)) = m[SlSize]
                 /\ \A k \in 1 .. SlSize : m[k] = Onward(l, m[k - 1], Wrap(s))
    BY WalkTells
  <1> DEFINE Good(k, q) == /\ m[k] = Place(o, q) /\ q < s
                           /\ q - p >= k \/ \A a \in H : a <= q \/ s <= a
             T == {k \in 0 .. SlSize : ~ \E q \in H : Good(k, q)}
  <1>3. T = {}
    <2>1. SUFFICES ASSUME T # {} PROVE FALSE
      OBVIOUS
    <2>2. PICK j \in T : \A y \in T : j <= y
      <3>1. T \subseteq Nat
        OBVIOUS
      <3>2. QED
        BY <2>1, <3>1, LeastNumber
    <2>3. CASE j = 0
      <3>1. p - p >= 0
        BY <1>1
      <3>2. Good(0, p)
        BY <1>2, <3>1
      <3>3. QED
        BY <2>2, <2>3, <3>2
    <2>4. CASE j # 0
      <3>1. /\ j \in 1 .. SlSize /\ j - 1 \in 0 .. SlSize /\ j - 1 \notin T /\ j \in Int
        BY <2>2, <2>4, SlConstants
      <3>2. PICK q \in H : Good(j - 1, q)
        BY <3>1
      <3>3. m[j] = Onward(l, Place(o, q), Wrap(s))
        BY <1>2, <3>1, <3>2
      <3>4. q < s
        BY <3>2
      <3>5. CASE m[j] = Place(o, q) /\ \A a \in H : a <= q \/ s <= a
        <4>1. Good(j, q)
          BY <3>4, <3>5
        <4>2. QED
          BY <2>2, <4>1
      <3>6. ASSUME NEW c \in H, q < c, c < s, m[j] = Place(o, c) PROVE FALSE
        <4>1. ~ \A a \in H : a <= q \/ s <= a
          BY <1>1, <3>6
        <4>2. q - p >= j - 1
          BY <3>2, <4>1
        <4>3. c - p >= j
          BY <1>1, <3>1, <3>6, <4>2
        <4>4. Good(j, c)
          BY <3>6, <4>3
        <4>5. QED
          BY <2>2, <4>4
      <3>7. QED
        BY <3>3, <3>4, <3>5, <3>6, OnwardRight
    <2>5. QED
      BY <2>3, <2>4
  <1>4. SlSize \in 0 .. SlSize
    BY SlConstants
  <1>5. PICK q \in H : Good(SlSize, q)
    BY <1>3, <1>4
  <1>6. q - p < SlSize
    BY FitsTell
  <1>7. \A a \in H : a <= q \/ s <= a
    BY <1>1, <1>5, <1>6, SlConstants
  <1>8. QED
    BY <1>2, <1>5, <1>7

-----------------------------------------------------------------------------
(* The links when a node after another, x, is taken out.                    *)
LEMMA LeadsWithout ==
  ASSUME NEW o \in SlSlots, NEW H, NEW E, NEW l, Fits(H, E), Chart(l, H, E, o),
         NEW x \in H, NEW c \in H, Follows(H, x, c), NEW m, m.head = l.head,
         m.next = [[l.next EXCEPT ![Place(o, x)] = l.next[Place(o, c)]] EXCEPT ![Place(o, c)] = -1]
  PROVE  Leads(m, H \ {c}, o)
  <1> DEFINE K == H \ {c}
  <1>1. \A a \in H : a \in Nat /\ a \in Int /\ Place(o, a) \in SlSlots
    BY FitsTell, ChartTells
  <1>2. \A a, d \in H : Place(o, a) = Place(o, d) => a = d
    BY ChartTells
  <1>3. l.next \in [SlSlots -> Int] /\ Leads(l, H, o)
    BY DEF Chart, SlType
  <1>4. x \in K /\ x < c /\ x # c /\ \A a \in H : a <= x \/ c <= a
    BY <1>1 DEF Follows
  <1>5. m.next[Place(o, x)] = l.next[Place(o, c)]
    <2>1. Place(o, x) # Place(o, c)
      BY <1>2, <1>4
    <2>2. QED
      BY <1>1, <1>3, <2>1
  <1>6. \A a \in K : a # x => m.next[Place(o, a)] = l.next[Place(o, a)]
    <2>1. \A a \in K : a # x => Place(o, a) # Place(o, c) /\ Place(o, a) # Place(o, x)
      BY <1>2, <1>4
    <2>2. QED
      BY <1>1, <1>3, <2>1
  <1>7. ASSUME NEW a \in K, NEW d \in K, Follows(K, a, d) PROVE m.next[Place(o, a)] = Place(o, d)
    <2>1. a < d /\ \A b \in K : b <= a \/ d <= b
      BY <1>7 DEF Follows
    <2>2. CASE a = x
      <3>1. c < d
        BY <1>1, <1>4, <2>1, <2>2
      <3>2. Follows(H, c, d)
        BY <1>1, <1>4, <2>1, <2>2, <3>1 DEF Follows
      <3>3. QED
        BY <1>3, <1>5, <2>2, <3>2 DEF Leads
    <2>3. CASE a # x
      <3>1. c <= a \/ d <= c
        BY <1>1, <1>4, <2>1, <2>3
      <3>2. Follows(H, a, d)
        BY <2>1, <3>1 DEF Follows
      <3>3. QED
        BY <1>3, <1>6, <2>3, <3>2 DEF Leads
    <2>4. QED
      BY <2>2, <2>3
  <1>8. ASSUME NEW a \in K, IsGreatest(K, a) PROVE m.next[Place(o, a)] = -1
    <2>1. \A d \in K : d <= a
      BY <1>8 DEF IsGreatest
    <2>2. CASE a = x
      <3>1. IsGreatest(H, c)
        BY <1>1, <1>4, <2>1, <2>2 DEF IsGreatest
      <3>2. QED
        BY <1>3, <1>5, <2>2, <3>1 DEF Leads
    <2>3. CASE a # x
      <3>1. c <= a
        BY <1>1, <1>4, <2>1, <2>3
      <3>2. IsGreatest(H, a)
        BY <2>1, <3>1 DEF IsGreatest
      <3>3. QED
        BY <1>3, <1>6, <2>3, <3>2 DEF Leads
    <2>4. QED
      BY <2>2, <2>3
  <1>9. ASSUME NEW a \in K, IsLeast(K, a) PROVE m.head = Place(o, a)
    <2>1. IsLeast(H, a)
      BY <1>1, <1>4, <1>9 DEF IsLeast
    <2>2. QED
      BY <1>3, <2>1 DEF Leads
  <1>10. QED
    BY <1>4, <1>7, <1>8, <1>9 DEF Leads

(* The links when the first node is taken out.                              *)
LEMMA LeadsPop ==
  ASSUME NEW o \in SlSlots, NEW H, NEW E, NEW l, Fits(H, E), Chart(l, H, E, o),
         NEW x \in H, IsLeast(H, x), NEW m, m.head = l.next[Place(o, x)],
         m.next = [l.next EXCEPT ![Place(o, x)] = -1]
  PROVE  Leads(m, H \ {x}, o)
  <1> DEFINE K == H \ {x}
  <1>1. \A a \in H : a \in Nat /\ a \in Int /\ Place(o, a) \in SlSlots
    BY FitsTell, ChartTells
  <1>2. \A a, d \in H : Place(o, a) = Place(o, d) => a = d
    BY ChartTells
  <1>3. l.next \in [SlSlots -> Int] /\ Leads(l, H, o)
    BY DEF Chart, SlType
  <1>4. \A a \in K : x < a
    BY <1>1 DEF IsLeast
  <1>5. \A a \in K : m.next[Place(o, a)] = l.next[Place(o, a)]
    <2>1. \A a \in K : Place(o, a) # Place(o, x)
      BY <1>2
    <2>2. QED
      BY <1>1, <1>3, <2>1
  <1>6. ASSUME NEW a \in K, NEW d \in K, Follows(K, a, d) PROVE m.next[Place(o, a)] = Place(o, d)
    <2>1. Follows(H, a, d)
      BY <1>1, <1>4, <1>6 DEF Follows
    <2>2. QED
      BY <1>3, <1>5, <2>1 DEF Leads
  <1>7. ASSUME NEW a \in K, IsGreatest(K, a) PROVE m.next[Place(o, a)] = -1
    <2>1. IsGreatest(H, a)
      BY <1>1, <1>4, <1>7 DEF IsGreatest
    <2>2. QED
      BY <1>3, <1>5, <2>1 DEF Leads
  <1>8. ASSUME NEW a \in K, IsLeast(K, a) PROVE m.head = Place(o, a)
    <2>1. Follows(H, x, a)
      BY <1>1, <1>4, <1>8 DEF IsLeast, Follows
    <2>2. QED
      BY <1>3, <2>1 DEF Leads
  <1>9. ASSUME K = {} PROVE m.head = -1
    <2>1. IsGreatest(H, x)
      BY <1>1, <1>9 DEF IsGreatest
    <2>2. QED
      BY <1>3, <2>1 DEF Leads
  <1>10. QED
    BY <1>6, <1>7, <1>8, <1>9 DEF Leads

(* The links when a node is put before all others.                          *)
LEMMA LeadsFirst ==
  ASSUME NEW o \in SlSlots, NEW H, NEW E, NEW l, Fits(H, E), Chart(l, H, E, o),
         NEW s \in Nat, \A a \in H : s < a, \A a \in H : Place(o, a) # Place(o, s),
         Place(o, s) \in SlSlots, NEW m, m.head = Place(o, s),
         m.next = [l.next EXCEPT ![Place(o, s)] = l.head]
  PROVE  Leads(m, H \cup {s}, o)
  <1> DEFINE K == H \cup {s}
  <1>1. \A a \in H : a \in Nat /\ a \in Int /\ Place(o, a) \in SlSlots
    BY FitsTell, ChartTells
  <1>2. l.next \in [SlSlots -> Int] /\ Leads(l, H, o)
    BY DEF Chart, SlType
  <1>3. m.next[Place(o, s)] = l.head /\ \A a \in H : m.next[Place(o, a)] = l.next[Place(o, a)]
    BY <1>1, <1>2
  <1>4. ASSUME NEW a \in K, NEW d \in K, Follows(K, a, d) PROVE m.next[Place(o, a)] = Place(o, d)
    <2>1. a < d /\ d \in H
      BY <1>1, <1>4 DEF Follows
    <2>2. CASE a = s
      <3>1. IsLeast(H, d)
        BY <1>1, <1>4, <2>1, <2>2 DEF Follows, IsLeast
      <3>2. l.head = Place(o, d)
        BY <1>2, <2>1, <3>1 DEF Leads
      <3>3. QED
        BY <1>3, <2>2, <3>2
    <2>3. CASE a \in H
      <3>1. Follows(H, a, d)
        BY <1>4, <2>1, <2>3 DEF Follows
      <3>2. l.next[Place(o, a)] = Place(o, d)
        BY <1>2, <2>1, <2>3, <3>1 DEF Leads
      <3>3. QED
        BY <1>3, <2>3, <3>2
    <2>4. QED
      BY <2>2, <2>3
  <1>5. ASSUME NEW a \in K, IsGreatest(K, a) PROVE m.next[Place(o, a)] = -1
    <2>1. CASE a = s
      <3>1. H = {}
        BY <1>1, <1>5, <2>1 DEF IsGreatest
      <3>2. QED
        BY <1>2, <1>3, <2>1, <3>1 DEF Leads
    <2>2. CASE a \in H
      <3>1. IsGreatest(H, a)
        BY <1>5, <2>2 DEF IsGreatest
      <3>2. QED
        BY <1>2, <1>3, <2>2, <3>1 DEF Leads
    <2>3. QED
      BY <2>1, <2>2
  <1>6. ASSUME NEW a \in K, IsLeast(K, a) PROVE m.head = Place(o, a)
    <2>1. a = s
      BY <1>1, <1>6 DEF IsLeast
    <2>2. QED
      BY <2>1
  <1>7. QED
    BY <1>4, <1>5, <1>6 DEF Leads

(* The links when a node is put behind another, p.                          *)
LEMMA LeadsBetween ==
  ASSUME NEW o \in SlSlots, NEW H, NEW E, NEW l, Fits(H, E), Chart(l, H, E, o),
         NEW s \in Nat, NEW p \in H, p < s, \A a \in H : a <= p \/ s < a,
         \A a \in H : Place(o, a) # Place(o, s), Place(o, s) \in SlSlots,
         NEW m, m.head = l.head,
         m.next = [[l.next EXCEPT ![Place(o, s)] = l.next[Place(o, p)]]
                     EXCEPT ![Place(o, p)] = Place(o, s)]
  PROVE  Leads(m, H \cup {s}, o)
  <1> DEFINE K == H \cup {s}
  <1>1. \A a \in H : a \in Nat /\ a \in Int /\ Place(o, a) \in SlSlots
    BY FitsTell, ChartTells
  <1>2. l.next \in [SlSlots -> Int] /\ Leads(l, H, o)
    BY DEF Chart, SlType
  <1>3. \A a, d \in H : Place(o, a) = Place(o, d) => a = d
    BY ChartTells
  <1>4. /\ m.next[Place(o, s)] = l.next[Place(o, p)]
        /\ m.next[Place(o, p)] = Place(o, s)
        /\ \A a \in H : a # p => m.next[Place(o, a)] = l.next[Place(o, a)]
    BY <1>1, <1>2, <1>3
  <1>5. ASSUME NEW a \in K, NEW d \in K, Follows(K, a, d) PROVE m.next[Place(o, a)] = Place(o, d)
    <2>1. a < d /\ \A b \in K : b <= a \/ d <= b
      BY <1>5 DEF Follows
    <2>2. CASE a = s
      <3>1. d \in H /\ p < d
        BY <1>1, <2>1, <2>2
      <3>2. \A b \in H : b <= p \/ d <= b
        BY <1>1, <2>1, <2>2
      <3>3. Follows(H, p, d)
        BY <3>1, <3>2 DEF Follows
      <3>4. l.next[Place(o, p)] = Place(o, d)
        BY <1>2, <3>1, <3>3 DEF Leads
      <3>5. QED
        BY <1>4, <2>2, <3>4
    <2>3. CASE a = p
      <3>1. d = s
        BY <1>1, <2>1, <2>3
      <3>2. QED
        BY <1>4, <2>3, <3>1
    <2>4. CASE a # s /\ a # p
      <3>1. a \in H /\ d # s
        BY <1>1, <2>1, <2>4
      <3>2. Follows(H, a, d)
        BY <2>1, <3>1 DEF Follows
      <3>3. QED
        BY <1>2, <1>4, <2>4, <3>1, <3>2 DEF Leads
    <2>5. QED
      BY <2>2, <2>3, <2>4
  <1>6. ASSUME NEW a \in K, IsGreatest(K, a) PROVE m.next[Place(o, a)] = -1
    <2>1. \A b \in K : b <= a
      BY <1>6 DEF IsGreatest
    <2>2. CASE a = s
      <3>1. IsGreatest(H, p)
        BY <1>1, <2>1, <2>2 DEF IsGreatest
      <3>2. QED
        BY <1>2, <1>4, <2>2, <3>1 DEF Leads
    <2>3. CASE a # s
      <3>1. a \in H /\ a # p /\ IsGreatest(H, a)
        BY <1>1, <2>1, <2>3 DEF IsGreatest
      <3>2. QED
        BY <1>2, <1>4, <3>1 DEF Leads
    <2>4. QED
      BY <2>2, <2>3
  <1>7. ASSUME NEW a \in K, IsLeast(K, a) PROVE m.head = Place(o, a)
    <2>1. a \in H /\ IsLeast(H, a)
      BY <1>1, <1>7 DEF IsLeast
    <2>2. QED
      BY <1>2, <2>1 DEF Leads
  <1>8. QED
    BY <1>5, <1>6, <1>7 DEF Leads

(* Where the node of x ends when it takes that of c in, and what they share. *)
Later(E, x, c)  == IF E[c] > E[x] THEN E[c] ELSE E[x]
Shared(E, x, c) == IF E[c] > E[x] THEN IF c > E[x] THEN 0 ELSE E[x] - c + 1
                   ELSE E[c] - c + 1
TakesIn(F, H, E, x, c) ==
  /\ c <= E[x] + 1 /\ F \in [Nat -> Nat] /\ F[x] = Later(E, x, c)
  /\ \A a \in H : a # x => F[a] = E[a]

(* The node that is taken in: the numbers it shares are counted once.        *)
LEMMA AbsorbCount ==
  ASSUME NEW H, NEW E, Fits(H, E), NEW x \in H, NEW c \in H, Follows(H, x, c),
         OnlyReaches(H, E, x), NEW F, TakesIn(F, H, E, x, c)
  PROVE  /\ Fits(H \ {c}, F) /\ Covered(H \ {c}, F) = Covered(H, E)
         /\ OnlyReaches(H \ {c}, F, x)
         /\ Reached(H \ {c}, F, x) = Reached(H, E, x) - Shared(E, x, c)
  <1> DEFINE K == H \ {c}
             J == H \ {x}
             y == Later(E, x, c)
             v == Shared(E, x, c)
  <1>1. /\ \A a \in H : a \in Nat /\ E[a] \in Nat /\ a <= E[a]
        /\ x < c /\ c <= E[x] + 1 /\ \A a \in H : a <= x \/ c <= a
    BY FitsTell DEF Follows, TakesIn
  <1>2. /\ \A a, b \in H : E[b] - a < SlSize
        /\ \A a, b \in H : a < b /\ a # x => E[a] < b
    BY FitsTell DEF OnlyReaches
  <1>3. F \in [Nat -> Nat] /\ F[x] = y /\ \A a \in H : a # x => F[a] = E[a]
    BY DEF TakesIn
  <1>4. /\ y \in Nat /\ x <= y /\ E[x] <= y /\ E[c] <= y /\ (y = E[x] \/ y = E[c])
    BY <1>1 DEF Later
  <1>5. Fits(K, F)
    <2>1. \A a \in K : a <= F[a]
      BY <1>1, <1>3, <1>4
    <2>2. \A a, b \in K : F[b] - a < SlSize
      BY <1>2, <1>3, <1>4
    <2>3. K \subseteq Nat
      BY <1>1
    <2>4. QED
      BY <1>3, <2>1, <2>2, <2>3 DEF Fits
  <1>6. OnlyReaches(K, F, x)
    BY <1>2, <1>3 DEF OnlyReaches
  <1>7. Covered(K, F) = Covered(H, E)
    <2>1. ASSUME NEW n \in Nat, NEW a \in K, a <= n, n <= F[a]
          PROVE  \E b \in H : b <= n /\ n <= E[b]
      <3>1. CASE a # x
        BY <1>3, <2>1, <3>1
      <3>2. CASE a = x /\ n <= E[x]
        BY <2>1, <3>2
      <3>3. CASE a = x /\ ~(n <= E[x])
        <4>1. c <= n /\ n <= E[c]
          BY <1>1, <1>3, <1>4, <2>1, <3>3
        <4>2. QED
          BY <4>1
      <3>4. QED
        BY <3>1, <3>2, <3>3
    <2>2. ASSUME NEW n \in Nat, NEW a \in H, a <= n, n <= E[a]
          PROVE  \E b \in K : b <= n /\ n <= F[b]
      <3>1. CASE a = x
        BY <1>1, <1>3, <1>4, <2>2, <3>1
      <3>2. CASE a = c
        <4>1. x <= n /\ n <= F[x] /\ x \in K
          BY <1>1, <1>3, <1>4, <2>2, <3>2
        <4>2. QED
          BY <4>1
      <3>3. CASE a # x /\ a # c
        BY <1>3, <2>2, <3>3
      <3>4. QED
        BY <3>1, <3>2, <3>3
    <2>3. QED
      BY <2>1, <2>2 DEF Covered
  <1>8. Cardinality(Covered(J, E)) = Cardinality(Covered(J \ {c}, E)) + (E[c] - c + 1)
    <2>1. Fits(J, E) /\ c \in J
      BY <1>1, FitsPart
    <2>2. \A b \in J : b # c => E[b] < c \/ E[c] < b
      BY <1>1, <1>2
    <2>3. QED
      BY <2>1, <2>2, CountNode
  <1>9. Covered(K \ {x}, F) = Covered(J \ {c}, E)
    BY <1>3 DEF Covered
  <1>10. Cardinality(Covered(J \ {c}, E)) \in Nat
    <2>1. Fits(J \ {c}, E)
      BY FitsPart
    <2>2. QED
      BY <2>1, FitsTell
  <1> DEFINE p == Cardinality(Covered(J \ {c}, E))
             r == Cardinality(Covered(J, E))
             ec == E[c]
             ex == E[x]
  <1>11. p + (y - x + 1) = (r + (ex - x + 1)) - v
    <2>1. p \in Nat /\ r = p + (ec - c + 1) /\ ec \in Nat /\ ex \in Nat /\ c \in Nat /\ x \in Nat
          /\ c <= ex + 1
      BY <1>1, <1>8, <1>10
    <2> HIDE DEF p, r, ec, ex
    <2>2. CASE ec > ex /\ c > ex
      BY <2>1, <2>2 DEF ec, ex, Later, Shared
    <2>3. CASE ec > ex /\ ~(c > ex)
      BY <2>1, <2>3 DEF ec, ex, Later, Shared
    <2>4. CASE ~(ec > ex)
      BY <2>1, <2>4 DEF ec, ex, Later, Shared
    <2>5. QED
      BY <2>2, <2>3, <2>4
  <1>12. Reached(K, F, x) = p + (y - x + 1)
    <2>1. Reached(K, F, x) = Cardinality(Covered(K \ {x}, F)) + (F[x] - x + 1)
      BY DEF Reached
    <2>2. QED
      BY ONLY <1>3, <1>9, <2>1
  <1>13. Reached(H, E, x) = r + (ex - x + 1)
    BY DEF Reached
  <1> HIDE DEF y, v, p, r, ex
  <1>14. Reached(K, F, x) = Reached(H, E, x) - v
    BY ONLY <1>11, <1>12, <1>13
  <1>15. QED
    BY <1>5, <1>6, <1>7, <1>14 DEF v

(* What a round of the closing loop leaves when it takes node n in.          *)
LEMMA AbsorbForm ==
  ASSUME NEW l \in SlType, NEW i \in SlSlots, NEW n \in SlSlots, n # i, n # -1, l.next[i] = n,
         l.data2[i] # -1, ~Greater(l.data1[n], incseq(l.data2[i])), NEW e \in Int, NEW v \in Int,
         e = IF Greater(EndOf(l, n), l.data2[i]) THEN EndOf(l, n) ELSE l.data2[i],
         v = Overlap(l.data2[i], l.data1[n], EndOf(l, n)), NEW z, z = Absorb(l, i)
  PROVE  /\ z.head = l.head /\ z.length = l.length - v /\ z.lastInsertPos = l.lastInsertPos
         /\ z \in SlType
         /\ z.next = [[l.next EXCEPT ![i] = l.next[n]] EXCEPT ![n] = -1]
         /\ z.data1[n] = -1 /\ \A j \in SlSlots : j # n => z.data1[j] = l.data1[j]
         /\ z.data2[n] = -1 /\ z.data2[i] = e
         /\ \A j \in SlSlots : j # n /\ j # i => z.data2[j] = l.data2[j]
  <1> DEFINE nx == [[l.next EXCEPT ![i] = l.next[n]] EXCEPT ![n] = -1]
             d1 == [l.data1 EXCEPT ![n] = -1]
             d2 == [[l.data2 EXCEPT ![n] = -1] EXCEPT ![i] = e]
             w  == [l EXCEPT !.data1[n] = -1, !.data2 = [@ EXCEPT ![n] = -1, ![i] = e],
                             !.next = [@ EXCEPT ![i] = l.next[n], ![n] = -1],
                             !.length = @ - v]
  <1>1. z = w
    <2>1. ~(l.next[i] = -1 \/ l.data2[i] = -1)
      OBVIOUS
    <2>2. QED
      BY <2>1 DEF Absorb
  <1>2. /\ l.head \in Int /\ l.length \in Int /\ l.lastInsertPos \in Int
        /\ l.data1 \in [SlSlots -> Int] /\ l.data2 \in [SlSlots -> Int]
        /\ l.next \in [SlSlots -> Int]
    BY DEF SlType
  <1>3. /\ z.head = l.head /\ z.length = l.length - v /\ z.lastInsertPos = l.lastInsertPos
        /\ z.data1 = d1 /\ z.data2 = d2 /\ z.next = nx
        /\ z = [head |-> z.head, length |-> z.length, lastInsertPos |-> z.lastInsertPos,
                data1 |-> z.data1, data2 |-> z.data2, next |-> z.next]
    <2>1. z = w
      BY <1>1
    <2>2. QED
      BY ONLY <2>1, l \in SlType DEF SlType
  <1>4. /\ d1 \in [SlSlots -> Int] /\ d2 \in [SlSlots -> Int] /\ nx \in [SlSlots -> Int]
        /\ d1[n] = -1 /\ d2[n] = -1 /\ d2[i] = e
        /\ \A j \in SlSlots : j # n => d1[j] = l.data1[j]
        /\ \A j \in SlSlots : j # n /\ j # i => d2[j] = l.data2[j]
    BY <1>2
  <1> HIDE DEF w, d1, d2, nx
  <1>5. z \in SlType
    BY <1>2, <1>3, <1>4 DEF SlType
  <1>6. QED
    BY <1>3, <1>4, <1>5 DEF nx

(* A round of the closing loop takes the next node in, or there is nothing   *)
(* left to take.                                                           *)
LEMMA AbsorbRight ==
  ASSUME NEW o \in SlSlots, NEW H, NEW E, NEW l, NEW x, Loose(l, H, E, o, x)
  PROVE  \/ Absorb(l, Place(o, x)) = l /\ Disjoint(H, E)
         \/ \E c \in H : \E F : /\ x < c /\ \A a \in H \ {c} : a <= x \/ c < a
                                /\ Loose(Absorb(l, Place(o, x)), H \ {c}, F, o, x)
                                /\ Covered(H \ {c}, F) = Covered(H, E)
  <1> DEFINE i == Place(o, x)
             m == Absorb(l, i)
  <1>1. /\ Fits(H, E) /\ Chart(l, H, E, o) /\ x \in H /\ l \in SlType
        /\ (\A a, b \in H : a < b /\ a # x => E[a] < b) /\ OnlyReaches(H, E, x)
        /\ l.length = Reached(H, E, x)
        /\ l.lastInsertPos = i
    BY DEF Loose, Chart, OnlyReaches
  <1>2. \A a \in H : a \in Nat /\ E[a] \in Nat /\ a <= E[a]
    BY <1>1, FitsTell
  <1>3. CASE l.data2[i] = -1
    <2>1. E[x] = x
      BY <1>1, <1>3, ChartTells
    <2>2. m = l
      BY <1>3 DEF Absorb
    <2>3. Disjoint(H, E)
      BY <1>1, <2>1 DEF Disjoint
    <2>4. QED
      BY <2>2, <2>3
  <1>4. CASE l.next[i] = -1
    <2>1. IsGreatest(H, x)
      BY <1>1, <1>4, LeadsTell
    <2>2. m = l
      BY <1>4 DEF Absorb
    <2>3. Disjoint(H, E)
      BY <1>1, <1>2, <2>1 DEF Disjoint, IsGreatest
    <2>4. QED
      BY <2>2, <2>3
  <1>5. ASSUME l.data2[i] # -1, NEW c \in H, Follows(H, x, c)
        PROVE  \/ m = l /\ Disjoint(H, E)
               \/ \E F : /\ x < c /\ \A a \in H \ {c} : a <= x \/ c < a
                         /\ Loose(m, H \ {c}, F, o, x)
                         /\ Covered(H \ {c}, F) = Covered(H, E)
    <2> DEFINE n == Place(o, c)
    <2>1. x < c /\ (\A a \in H : a <= x \/ c <= a) /\ x # c
      BY <1>1, <1>2, <1>5 DEF Follows
    <2>2. l.next[i] = n /\ n # -1 /\ n \in SlSlots /\ i \in SlSlots /\ n # i
      BY <1>1, <1>5, <2>1, LeadsTell, ChartTells
    <2>3. /\ l.data1[n] = Wrap(c) /\ EndOf(l, n) = Wrap(E[c])
          /\ l.data2[i] = Wrap(E[x]) /\ E[x] # x
      BY <1>1, <1>5, ChartTells
    <2>4. incseq(l.data2[i]) = Wrap(E[x] + 1)
      BY <1>1, <1>2, <2>3, Steps
    <2>5. /\ E[x] - x < SlSize /\ E[c] - x < SlSize /\ SlSize \in Nat /\ SlSize <= SeqNoTH
          /\ SeqNoTH \in Nat /\ x \in Nat /\ c \in Nat /\ E[x] \in Nat /\ E[c] \in Nat
          /\ x <= E[x] /\ c <= E[c]
      BY <1>1, <1>2, FitsTell, SlConstants
    <2>6. /\ Greater(Wrap(c), Wrap(E[x] + 1)) <=> c > E[x] + 1
          /\ Greater(Wrap(E[c]), Wrap(E[x])) <=> E[c] > E[x]
          /\ Greater(Wrap(c), Wrap(E[x])) <=> c > E[x]
      <3>1. /\ (E[x] + 1) - c < SeqNoTH /\ c - (E[x] + 1) < SeqNoTH
            /\ E[x] - E[c] < SeqNoTH /\ E[c] - E[x] < SeqNoTH
            /\ E[x] - c < SeqNoTH /\ c - E[x] < SeqNoTH /\ E[x] + 1 \in Int
        BY <2>1, <2>5
      <3>2. QED
        BY <2>5, <3>1, GreaterIs
    <2>7. CASE c > E[x] + 1
      <3>1. m = l
        BY <2>2, <2>3, <2>4, <2>6, <2>7 DEF Absorb
      <3>2. \A b \in H : x < b => E[x] < b
        BY <1>2, <2>1, <2>5, <2>7
      <3>3. Disjoint(H, E)
        BY <1>1, <3>2 DEF Disjoint
      <3>4. QED
        BY <3>1, <3>3
    <2>8. CASE ~(c > E[x] + 1)
      <3> DEFINE y == Later(E, x, c)
                 v == Shared(E, x, c)
      <3>1. PICK F : F = [E EXCEPT ![x] = y]
        OBVIOUS
      <3>2. Overlap(l.data2[i], l.data1[n], EndOf(l, n)) = v
        <4>1. ~(c > E[x]) => seqlen(Wrap(c), Wrap(E[x])) = E[x] - c + 1
          <5>1. ~(c > E[x]) => c <= E[x] /\ E[x] - c <= MaxSeqNo
            BY <2>1, <2>5, SeqNoAssumption
          <5>2. QED
            BY <2>5, <5>1, SeqLenAgrees
        <4>2. seqlen(Wrap(c), Wrap(E[c])) = E[c] - c + 1
          <5>1. E[c] - c <= MaxSeqNo
            BY <2>1, <2>5, SeqNoAssumption
          <5>2. QED
            BY <2>5, <5>1, SeqLenAgrees
        <4>3. QED
          BY <2>3, <2>6, <4>1, <4>2 DEF Overlap, Shared
      <3>3. (IF Greater(EndOf(l, n), l.data2[i]) THEN EndOf(l, n) ELSE l.data2[i]) = Wrap(y)
        BY <2>3, <2>6 DEF Later
      <3>4. ~Greater(l.data1[n], incseq(l.data2[i]))
        BY <2>3, <2>4, <2>6, <2>8
      <3>5. y \in Nat /\ v \in Int /\ Wrap(y) \in Int /\ Wrap(y) # -1
        <4>1. y \in Nat /\ v \in Int
          BY <2>5 DEF Later, Shared
        <4>2. QED
          BY <4>1, Steps
      <3>6. PICK z : z = m
        OBVIOUS
      <3>7. PICK g, u : g = Wrap(y) /\ u = v /\ g \in Int /\ u \in Int
        BY <3>5
      <3>8. /\ z.head = l.head /\ z.length = l.length - u /\ z.lastInsertPos = l.lastInsertPos
            /\ z \in SlType
            /\ z.next = [[l.next EXCEPT ![i] = l.next[n]] EXCEPT ![n] = -1]
            /\ z.data1[n] = -1 /\ \A j \in SlSlots : j # n => z.data1[j] = l.data1[j]
            /\ z.data2[n] = -1 /\ z.data2[i] = g
            /\ \A j \in SlSlots : j # n /\ j # i => z.data2[j] = l.data2[j]
        <4> HIDE DEF m, y, v
        <4>1. z = Absorb(l, i)
          BY <3>6 DEF m
        <4>2. g = IF Greater(EndOf(l, n), l.data2[i]) THEN EndOf(l, n) ELSE l.data2[i]
          BY <3>3, <3>7
        <4>3. u = Overlap(l.data2[i], l.data1[n], EndOf(l, n))
          BY <3>2, <3>7
        <4> HIDE DEF i, n
        <4>4. QED
          BY <1>1, <1>5, <2>2, <3>4, <3>7, <4>1, <4>2, <4>3, AbsorbForm
      <3>9. Leads(z, H \ {c}, o)
        BY <1>1, <1>5, <3>8, LeadsWithout
      <3>10. /\ Fits(H \ {c}, F) /\ Covered(H \ {c}, F) = Covered(H, E)
             /\ OnlyReaches(H \ {c}, F, x)
             /\ Reached(H \ {c}, F, x) = Reached(H, E, x) - u
        <4>1. c <= E[x] + 1
          BY <2>5, <2>8
        <4>2. E \in [Nat -> Nat] /\ y \in Nat
          BY <1>1, <3>5 DEF Fits
        <4> HIDE DEF y
        <4>3. F \in [Nat -> Nat] /\ F[x] = y /\ \A a \in H : a # x => F[a] = E[a]
          BY <1>2, <2>5, <3>1, <4>2
        <4>4. TakesIn(F, H, E, x, c)
          BY <4>1, <4>3 DEF y, TakesIn
        <4>5. QED
          BY <1>1, <1>5, <3>7, <4>4, AbsorbCount
      <3>11. F[x] = y /\ F[x] # x /\ \A a \in H \ {c} : a # x => F[a] = E[a]
        <4>1. E \in [Nat -> Nat]
          BY <1>1 DEF Fits
        <4>2. y # x
          BY <2>3, <2>5 DEF Later
        <4>3. QED
          BY <1>2, <2>5, <3>1, <4>1, <4>2
      <3> HIDE DEF m, y, v
      <3>12. Chart(z, H \ {c}, F, o)
        <4>1. ASSUME NEW a \in H \ {c}
              PROVE  /\ z.data1[Place(o, a)] = Wrap(a)
                     /\ z.data2[Place(o, a)] = IF F[a] = a THEN -1 ELSE Wrap(F[a])
          <5>1. Place(o, a) \in SlSlots /\ Place(o, a) # n /\ (a # x => Place(o, a) # i)
            BY <1>1, ChartTells
          <5>2. /\ l.data1[Place(o, a)] = Wrap(a)
                /\ l.data2[Place(o, a)] = IF E[a] = a THEN -1 ELSE Wrap(E[a])
            BY <1>1 DEF Chart
          <5>3. z.data1[Place(o, a)] = Wrap(a)
            BY <3>8, <5>1, <5>2
          <5>4. CASE a = x
            BY <3>7, <3>8, <3>11, <5>3, <5>4
          <5>5. CASE a # x
            BY <3>8, <3>11, <5>1, <5>2, <5>3, <5>5
          <5>6. QED
            BY <5>4, <5>5
        <4>2. ASSUME NEW j \in SlSlots, \A a \in H \ {c} : j # Place(o, a)
              PROVE  z.data1[j] = -1 /\ z.data2[j] = -1
          <5>1. CASE j = n
            BY <3>8, <5>1
          <5>2. CASE j # n
            <6>1. \A a \in H : j # Place(o, a)
              BY <4>2, <5>2
            <6>2. l.data1[j] = -1 /\ l.data2[j] = -1 /\ j # i
              BY <1>1, <6>1 DEF Chart
            <6>3. QED
              BY <3>8, <5>2, <6>2
          <5>3. QED
            BY <5>1, <5>2
        <4>3. QED
          BY <3>8, <3>9, <4>1, <4>2 DEF Chart
      <3>13. z.length = Reached(H \ {c}, F, x)
        BY <1>1, <3>8, <3>10
      <3>14. Loose(z, H \ {c}, F, o, x)
        <4>1. x \in H \ {c} /\ z.lastInsertPos = i
          BY <1>1, <2>1, <3>8
        <4>2. QED
          BY <3>10, <3>12, <3>13, <4>1 DEF Loose
      <3>15. \A a \in H \ {c} : a <= x \/ c < a
        BY <1>2, <2>1
      <3>16. QED
        BY <2>1, <3>6, <3>10, <3>14, <3>15
    <2>9. QED
      BY <2>7, <2>8
  <1>6. IsGreatest(H, x) \/ \E c \in H : Follows(H, x, c)
    BY <1>1, LeadsTell
  <1>7. IsGreatest(H, x) => l.next[i] = -1
    BY <1>1, LeadsTell
  <1>8. QED
    BY <1>3, <1>4, <1>5, <1>6, <1>7

(* A list no node of which reaches another is in shape again.               *)
LEMMA Settled ==
  ASSUME NEW o, NEW H, NEW E, NEW l, NEW x, Loose(l, H, E, o, x), Disjoint(H, E)
  PROVE  Stands(l, H, E, o)
  <1>1. Fits(H, E) /\ x \in H
    BY DEF Loose
  <1>2. \A a \in H : a \in Nat /\ E[a] \in Nat
    BY <1>1, FitsTell
  <1>3. \A b \in H : b # x => E[b] < x \/ E[x] < b
    BY <1>1, <1>2 DEF Disjoint
  <1>4. Reached(H, E, x) = Cardinality(Covered(H, E))
    BY <1>1, <1>3, CountNode DEF Reached
  <1>5. QED
    BY <1>1, <1>4 DEF Loose, Stands

(* List l is in shape and stands for the numbers of C.                      *)
Holds(l, C, o) == \E K, F : Stands(l, K, F, o) /\ Covered(K, F) = C

(* The closing loop ends with a list in shape, of the same numbers.         *)
LEMMA CoalesceRight ==
  ASSUME NEW o \in SlSlots, NEW H, NEW E, NEW l, NEW x, Loose(l, H, E, o, x)
  PROVE  Holds(Coalesce(l, Place(o, x)), Covered(H, E), o)
  <1> DEFINE i == Place(o, x)
  <1>1. PICK m : /\ m[0] = l /\ Coalesce(l, i) = m[SlSize]
                 /\ \A k \in 1 .. SlSize : m[k] = Absorb(m[k - 1], i)
    BY CoalesceTells
  <1> DEFINE Stays(k, K, F) == Absorb(m[k], i) = m[k] /\ Disjoint(K, F)
             Far(k, K)      == \A b \in K : b > x => b - x > k
             Good(k, K, F)  == /\ Loose(m[k], K, F, o, x) /\ Covered(K, F) = Covered(H, E)
                               /\ Stays(k, K, F) \/ Far(k, K)
             T == {k \in 0 .. SlSize : ~ \E K, F : Good(k, K, F)}
  <1>2. T = {}
    <2>1. SUFFICES ASSUME T # {} PROVE FALSE
      OBVIOUS
    <2>2. PICK j \in T : \A y \in T : j <= y
      <3>1. T \subseteq Nat
        OBVIOUS
      <3>2. QED
        BY <2>1, <3>1, LeastNumber
    <2>3. CASE j = 0
      <3>1. \A b \in H : b \in Nat /\ x \in Nat
        BY FitsTell DEF Loose
      <3>2. Far(0, H)
        BY <3>1
      <3>3. Good(0, H, E)
        BY <1>1, <3>2
      <3>4. QED
        BY <2>2, <2>3, <3>3
    <2>4. CASE j # 0
      <3>1. /\ j \in 1 .. SlSize /\ j - 1 \in 0 .. SlSize /\ j - 1 \notin T /\ j \in Int
        BY <2>2, <2>4, SlConstants
      <3>2. PICK K, F : Good(j - 1, K, F)
        BY <3>1
      <3>3. m[j] = Absorb(m[j - 1], i)
        BY <1>1, <3>1
      <3>4. Loose(m[j - 1], K, F, o, x) /\ Covered(K, F) = Covered(H, E)
        BY <3>2
      <3>5. CASE Absorb(m[j - 1], i) = m[j - 1] /\ Disjoint(K, F)
        <4>1. m[j] = m[j - 1] /\ Stays(j, K, F)
          BY <3>3, <3>5
        <4>2. Good(j, K, F)
          BY <3>4, <4>1
        <4>3. QED
          BY <2>2, <4>2
      <3>6. ASSUME Far(j - 1, K), NEW c \in K, NEW G, x < c, \A a \in K \ {c} : a <= x \/ c < a,
                   Loose(m[j], K \ {c}, G, o, x), Covered(K \ {c}, G) = Covered(K, F)
            PROVE  FALSE
        <4>1. \A b \in K : b \in Nat /\ x \in Nat
          BY <3>4, FitsTell DEF Loose
        <4>2. c - x > j - 1
          BY <3>6, <4>1
        <4>3. Far(j, K \ {c})
          BY <3>1, <3>6, <4>1, <4>2
        <4>4. Good(j, K \ {c}, G)
          BY <3>4, <3>6, <4>3
        <4>5. QED
          BY <2>2, <4>4
      <3>7. \/ Absorb(m[j - 1], i) = m[j - 1] /\ Disjoint(K, F)
            \/ \E c \in K : \E G : /\ x < c /\ \A a \in K \ {c} : a <= x \/ c < a
                                   /\ Loose(m[j], K \ {c}, G, o, x)
                                   /\ Covered(K \ {c}, G) = Covered(K, F)
        BY <3>3, <3>4, AbsorbRight
      <3>8. Stays(j - 1, K, F) \/ Far(j - 1, K)
        BY <3>2
      <3>9. QED
        BY <3>5, <3>6, <3>7, <3>8
    <2>5. QED
      BY <2>3, <2>4
  <1>3. SlSize \in 0 .. SlSize
    BY SlConstants
  <1>4. PICK K, F : Good(SlSize, K, F)
    BY <1>2, <1>3
  <1>5. Fits(K, F) /\ x \in K /\ OnlyReaches(K, F, x)
    BY <1>4 DEF Loose
  <1>6. Disjoint(K, F)
    <2>1. CASE Stays(SlSize, K, F)
      BY <2>1
    <2>2. CASE Far(SlSize, K)
      <3>1. \A b \in K : b \in Nat /\ b - x < SlSize
        BY <1>5, FitsTell
      <3>2. \A b \in K : ~(b > x)
        BY <1>5, <2>2, <3>1, SlConstants
      <3>3. QED
        BY <1>5, <3>1, <3>2 DEF Disjoint, OnlyReaches
    <2>3. QED
      BY <1>4, <2>1, <2>2
  <1>7. Stands(m[SlSize], K, F, o)
    BY <1>4, <1>6, Settled
  <1>8. QED
    BY <1>1, <1>4, <1>7 DEF Holds

(* The fields of a list, and of one in which a field is another.            *)
LEMMA SlParts ==
  ASSUME NEW l \in SlType
  PROVE  /\ l.head \in Int /\ l.length \in Int /\ l.lastInsertPos \in Int
         /\ l.data1 \in [SlSlots -> Int] /\ l.data2 \in [SlSlots -> Int]
         /\ l.next \in [SlSlots -> Int]
  BY DEF SlType

LEMMA NewHead ==
  ASSUME NEW l \in SlType, NEW h \in Int, NEW z, z = [l EXCEPT !.head = h]
  PROVE  /\ z \in SlType /\ z.head = h /\ z.length = l.length
         /\ z.lastInsertPos = l.lastInsertPos /\ z.data1 = l.data1 /\ z.data2 = l.data2
         /\ z.next = l.next
  BY DEF SlType

LEMMA NewLast ==
  ASSUME NEW l \in SlType, NEW h \in Int, NEW z, z = [l EXCEPT !.lastInsertPos = h]
  PROVE  /\ z \in SlType /\ z.head = l.head /\ z.length = l.length
         /\ z.lastInsertPos = h /\ z.data1 = l.data1 /\ z.data2 = l.data2
         /\ z.next = l.next
  BY DEF SlType

(* A range that fits beside the nodes, and z, which is l with a node of it in *)
(* slot i, however linked.                                                 *)
Beside(H, E, lo, hi) ==
  /\ lo \in Nat /\ hi \in Nat /\ lo <= hi /\ hi - lo < SlSize
  /\ \A a \in H : hi - a < SlSize /\ E[a] - lo < SlSize

Noted(l, z, i, lo, hi) ==
  /\ z \in SlType /\ z.length = l.length + (hi - lo + 1) /\ z.lastInsertPos = i
  /\ z.data1[i] = Wrap(lo)
  /\ z.data2[i] = IF Wrap(hi) # Wrap(lo) THEN Wrap(hi) ELSE l.data2[i]
  /\ \A j \in SlSlots : j # i => z.data1[j] = l.data1[j] /\ z.data2[j] = l.data2[j]

(* NewNode notes the range.                                                *)
LEMMA NewNodeNotes ==
  ASSUME NEW l \in SlType, NEW i \in SlSlots, NEW lo \in Nat, NEW hi \in Nat, lo <= hi,
         hi - lo < SlSize, NEW n \in Int, NEW z, z = NewNode(l, i, Wrap(lo), Wrap(hi), n)
  PROVE  Noted(l, z, i, lo, hi) /\ z.head = l.head /\ z.next = [l.next EXCEPT ![i] = n]
  <1>1. PICK s, t, c : s = Wrap(lo) /\ t = Wrap(hi) /\ c = seqlen(s, t)
    OBVIOUS
  <1>2. s \in Int /\ t \in Int
    BY <1>1, Steps
  <1>3. hi - lo <= MaxSeqNo
    BY SlConstants, SeqNoAssumption
  <1>4. c = hi - lo + 1 /\ c \in Int
    BY <1>1, <1>3, SeqLenAgrees
  <1> DEFINE v  == IF t # s THEN t ELSE l.data2[i]
             d1 == [l.data1 EXCEPT ![i] = s]
             d2 == [l.data2 EXCEPT ![i] = v]
             nx == [l.next EXCEPT ![i] = n]
  <1>5. z = [l EXCEPT !.data1[i] = s, !.data2[i] = v, !.next[i] = n, !.length = @ + c,
                      !.lastInsertPos = i]
    BY <1>1 DEF NewNode
  <1>6. /\ z.head = l.head /\ z.length = l.length + c /\ z.lastInsertPos = i
        /\ z.data1 = d1 /\ z.data2 = d2 /\ z.next = nx
        /\ z = [head |-> z.head, length |-> z.length, lastInsertPos |-> z.lastInsertPos,
                data1 |-> z.data1, data2 |-> z.data2, next |-> z.next]
    BY ONLY <1>5, l \in SlType DEF SlType
  <1>7. i \in Int /\ v \in Int
    <2>1. i \in Int
      BY SlConstants DEF SlSlots
    <2>2. v \in Int
      BY <1>2, SlParts
    <2>3. QED
      BY <2>1, <2>2
  <1>8. /\ d1 \in [SlSlots -> Int] /\ d2 \in [SlSlots -> Int] /\ nx \in [SlSlots -> Int]
        /\ d1[i] = s /\ d2[i] = v
        /\ \A j \in SlSlots : j # i => d1[j] = l.data1[j] /\ d2[j] = l.data2[j]
    BY <1>2, <1>7, SlParts
  <1>9. l.length + c \in Int
    BY <1>4, SlParts
  <1> HIDE DEF d1, d2, nx, v
  <1>10. z \in SlType
    BY <1>6, <1>7, <1>8, <1>9, SlParts DEF SlType
  <1>11. z.data2[i] = IF Wrap(hi) # Wrap(lo) THEN Wrap(hi) ELSE l.data2[i]
    BY <1>1, <1>6, <1>8 DEF v
  <1>12. QED
    BY <1>1, <1>4, <1>6, <1>8, <1>10, <1>11 DEF nx, Noted

(* Whose start is no node's and in no node that starts before it.           *)
Clear(H, E, lo) == lo \notin H /\ \A a \in H : a < lo => E[a] < lo

(* With the node of lo, which may reach over others.                        *)
Joins(z, H, E, o, lo, hi) ==
  \E F : /\ Loose(z, H \cup {lo}, F, o, lo)
         /\ Covered(H \cup {lo}, F) = With(Covered(H, E), lo, hi)

(* A list with one node more, that of lo .. hi, linked where it belongs.    *)
LEMMA NewNodeRight ==
  ASSUME NEW o \in SlSlots, NEW H, NEW E, NEW l, Stands(l, H, E, o),
         NEW lo, NEW hi, Beside(H, E, lo, hi), Clear(H, E, lo),
         NEW z, Noted(l, z, Place(o, lo), lo, hi), Leads(z, H \cup {lo}, o)
  PROVE  Joins(z, H, E, o, lo, hi)
  <1> DEFINE K == H \cup {lo}
             i == Place(o, lo)
  <1>1. /\ lo \in Nat /\ hi \in Nat /\ lo <= hi /\ hi - lo < SlSize
        /\ \A a \in H : hi - a < SlSize /\ E[a] - lo < SlSize
        /\ z \in SlType /\ z.length = l.length + (hi - lo + 1) /\ z.lastInsertPos = i
        /\ z.data1[i] = Wrap(lo)
        /\ z.data2[i] = IF Wrap(hi) # Wrap(lo) THEN Wrap(hi) ELSE l.data2[i]
        /\ \A j \in SlSlots : j # i => z.data1[j] = l.data1[j] /\ z.data2[j] = l.data2[j]
    BY DEF Noted, Beside
  <1>2. lo \notin H /\ \A a \in H : a < lo => E[a] < lo
    BY DEF Clear
  <1>3. /\ Fits(H, E) /\ Chart(l, H, E, o) /\ Disjoint(H, E)
        /\ l.length = Cardinality(Covered(H, E)) /\ o \in Int /\ E \in [Nat -> Nat]
    BY ChartTells DEF Stands, Fits
  <1>4. \A a \in H : a \in Nat /\ E[a] \in Nat /\ a <= E[a] /\ Place(o, a) \in SlSlots
    BY <1>3, FitsTell, ChartTells
  <1>5. PICK F : F = [E EXCEPT ![lo] = hi]
    OBVIOUS
  <1>6. F \in [Nat -> Nat] /\ F[lo] = hi /\ \A a \in H : F[a] = E[a]
    BY <1>1, <1>2, <1>3, <1>4, <1>5
  <1>7. Fits(K, F)
    <2>1. K \subseteq Nat /\ \A a \in K : a <= F[a]
      BY <1>1, <1>2, <1>4, <1>6
    <2>2. ASSUME NEW a \in K, NEW b \in K PROVE F[b] - a < SlSize
      <3>1. CASE a \in H /\ b \in H
        BY <1>1, <1>2, <1>3, <1>6, <3>1 DEF Fits
      <3>2. CASE a = lo /\ b \in H
        BY <1>1, <1>2, <1>6, <3>2
      <3>3. CASE a \in H /\ b = lo
        BY <1>1, <1>2, <1>6, <3>3
      <3>4. CASE a = lo /\ b = lo
        BY <1>1, <1>2, <1>6, <3>4
      <3>5. QED
        BY <3>1, <3>2, <3>3, <3>4
    <2>3. QED
      BY <1>1, <1>2, <1>6, <2>1, <2>2 DEF Fits
  <1>8. OnlyReaches(K, F, lo)
    BY <1>1, <1>2, <1>3, <1>6 DEF OnlyReaches, Disjoint
  <1>9. Covered(K, F) = With(Covered(H, E), lo, hi)
    BY <1>1, <1>2, <1>4, <1>6 DEF Covered, With
  <1>10. z.length = Reached(K, F, lo)
    <2>1. K \ {lo} = H
      BY <1>2
    <2>2. Covered(H, F) = Covered(H, E)
      BY <1>1, <1>2, <1>6 DEF Covered
    <2>3. QED
      BY <1>1, <1>2, <1>3, <1>6, <2>1, <2>2 DEF Reached
  <1>11. \A a \in H : Place(o, a) # i
    <2>1. ASSUME NEW a \in H, Place(o, a) = i PROVE FALSE
      <3>1. a - lo < SlSize /\ lo - a < SlSize /\ a \in Int /\ lo \in Int
        BY <1>1, <1>2, <1>4, SlConstants
      <3>2. a = lo
        BY <1>1, <1>2, <1>3, <2>1, <3>1, PlaceApart
      <3>3. QED
        BY <1>2, <3>2
    <2>2. QED
      BY <2>1
  <1>12. i \in SlSlots
    <2>1. lo \in Int
      BY <1>1
    <2>2. QED
      BY <1>3, <2>1, PlaceSlot
  <1>13. Chart(z, K, F, o)
    <2>1. l.data1[i] = -1 /\ l.data2[i] = -1
      BY <1>1, <1>2, <1>3, <1>11, <1>12 DEF Chart
    <2>2. z.data2[i] = IF F[lo] = lo THEN -1 ELSE Wrap(F[lo])
      <3>1. Wrap(hi) = Wrap(lo) <=> hi = lo
        <4>1. hi - lo <= MaxSeqNo
          BY <1>1, <1>2, SlConstants, SeqNoAssumption
        <4>2. Wrap(hi) = Wrap(lo) => seqlen(Wrap(lo), Wrap(lo)) = hi - lo + 1
          BY <1>1, <1>2, <4>1, SeqLenAgrees
        <4>3. seqlen(Wrap(lo), Wrap(lo)) = lo - lo + 1
          BY <1>1, <1>2, SeqLenAgrees, SeqNoAssumption
        <4>4. QED
          BY <1>1, <1>2, <4>2, <4>3
      <3>2. QED
        BY <1>1, <1>2, <1>6, <2>1, <3>1
    <2>3. ASSUME NEW a \in K
          PROVE  /\ z.data1[Place(o, a)] = Wrap(a)
                 /\ z.data2[Place(o, a)] = IF F[a] = a THEN -1 ELSE Wrap(F[a])
      <3>1. CASE a = lo
        BY <1>1, <1>2, <2>2, <3>1
      <3>2. CASE a \in H
        <4>1. /\ l.data1[Place(o, a)] = Wrap(a)
              /\ l.data2[Place(o, a)] = IF E[a] = a THEN -1 ELSE Wrap(E[a])
          BY <1>1, <1>2, <1>3, <3>2 DEF Chart
        <4>2. QED
          BY <1>1, <1>2, <1>4, <1>6, <1>11, <3>2, <4>1
      <3>3. QED
        BY <3>1, <3>2
    <2>4. ASSUME NEW j \in SlSlots, \A a \in K : j # Place(o, a)
          PROVE  z.data1[j] = -1 /\ z.data2[j] = -1
      <3>1. j # i /\ \A a \in H : j # Place(o, a)
        BY <2>4
      <3>2. l.data1[j] = -1 /\ l.data2[j] = -1
        BY <1>3, <3>1 DEF Chart
      <3>3. QED
        BY <1>1, <1>2, <3>1, <3>2
    <2>5. QED
      BY <1>1, <1>2, <2>3, <2>4 DEF Chart
  <1>14. Loose(z, K, F, o, lo)
    BY <1>1, <1>2, <1>7, <1>8, <1>10, <1>13 DEF Loose
  <1>15. QED
    BY <1>9, <1>14 DEF Joins

(* The node of x reaches to hi at least, and takes in what it then reaches.  *)
LEMMA ExtendRight ==
  ASSUME NEW o \in SlSlots, NEW H, NEW E, NEW l, Stands(l, H, E, o), NEW x \in H,
         NEW hi \in Nat, x <= hi, \A a \in H : hi - a < SlSize
  PROVE  Holds(Extend(l, Place(o, x), Wrap(hi)), With(Covered(H, E), x, hi), o)
  <1> DEFINE i == Place(o, x)
  <1>1. /\ Fits(H, E) /\ Chart(l, H, E, o) /\ Disjoint(H, E) /\ l \in SlType
        /\ l.length = Cardinality(Covered(H, E)) /\ o \in Int /\ E \in [Nat -> Nat]
    <2>1. Fits(H, E) /\ Chart(l, H, E, o)
      BY DEF Stands
    <2>2. o \in Int
      BY <2>1, ChartTells
    <2>3. l \in SlType
      BY <2>1 DEF Chart
    <2>4. QED
      BY <2>1, <2>2, <2>3 DEF Stands, Fits
  <1>2. \A a \in H : a \in Nat /\ E[a] \in Nat /\ a <= E[a] /\ Place(o, a) \in SlSlots
    BY <1>1, FitsTell, ChartTells
  <1>3. EndOf(l, i) = Wrap(E[x]) /\ i \in SlSlots /\ i \in Int
    <2>1. EndOf(l, i) = Wrap(E[x])
      BY <1>1, ChartTells
    <2>2. i \in Int
      BY <1>1, <1>2, PlaceSlot
    <2>3. QED
      BY <1>2, <2>1, <2>2
  <1>4. E[x] - x < SlSize /\ hi - x < SlSize /\ SlSize <= SeqNoTH /\ SlSize \in Nat
        /\ SeqNoTH \in Nat
    BY <1>1, FitsTell, SlConstants
  <1>5. Greater(Wrap(hi), Wrap(E[x])) <=> hi > E[x]
    <2>1. E[x] - hi < SeqNoTH /\ hi - E[x] < SeqNoTH /\ hi \in Int /\ E[x] \in Int
      BY <1>2, <1>4
    <2>2. QED
      BY <2>1, GreaterIs
  <1>6. CASE ~(hi > E[x])
    <2>1. PICK z : z = [l EXCEPT !.lastInsertPos = i]
      OBVIOUS
    <2>2. Extend(l, i, Wrap(hi)) = z
      BY <1>3, <1>5, <1>6, <2>1 DEF Extend
    <2>3. /\ z \in SlType /\ z.head = l.head /\ z.length = l.length
          /\ z.lastInsertPos = i /\ z.data1 = l.data1 /\ z.data2 = l.data2 /\ z.next = l.next
      <3> HIDE DEF i
      <3>1. QED
        BY <1>1, <1>3, <2>1, NewLast
    <2>4. Leads(z, H, o)
      BY <1>1, <2>3 DEF Chart, Leads
    <2>5. Chart(z, H, E, o)
      BY <1>1, <2>3, <2>4 DEF Chart
    <2>6. Stands(z, H, E, o)
      BY <1>1, <2>3, <2>5 DEF Stands
    <2>7. Covered(H, E) = With(Covered(H, E), x, hi)
      BY <1>2, <1>6 DEF Covered, With
    <2>8. QED
      BY <2>2, <2>6, <2>7 DEF Holds
  <1>7. CASE hi > E[x]
    <2> DEFINE c  == hi - E[x]
               d2 == [l.data2 EXCEPT ![i] = Wrap(hi)]
    <2>1. PICK z : z = [l EXCEPT !.lastInsertPos = i, !.data2[i] = Wrap(hi),
                                 !.length = @ + seqlen(EndOf(l, i), Wrap(hi)) - 1]
      OBVIOUS
    <2>2. Extend(l, i, Wrap(hi)) = Coalesce(z, i)
      BY <1>3, <1>5, <1>7, <2>1 DEF Extend
    <2>3. seqlen(Wrap(E[x]), Wrap(hi)) = c + 1 /\ c \in Int /\ Wrap(hi) \in Int /\ Wrap(hi) # -1
      <3>1. E[x] \in Nat /\ E[x] <= hi /\ hi - E[x] <= MaxSeqNo
        BY <1>2, <1>4, <1>7, SeqNoAssumption
      <3>2. seqlen(Wrap(E[x]), Wrap(hi)) = hi - E[x] + 1
        BY <3>1, SeqLenAgrees
      <3>3. QED
        BY <3>1, <3>2, Steps
    <2>4. /\ z.head = l.head /\ z.length = l.length + c /\ z.lastInsertPos = i
          /\ z.data1 = l.data1 /\ z.data2 = d2 /\ z.next = l.next
          /\ z = [head |-> z.head, length |-> z.length, lastInsertPos |-> z.lastInsertPos,
                  data1 |-> z.data1, data2 |-> z.data2, next |-> z.next]
      <3>1. PICK p, w, g : p = i /\ w = Wrap(hi) /\ g = seqlen(EndOf(l, i), Wrap(hi)) /\ g = c + 1
        BY <1>3, <2>3
      <3>2. z = [l EXCEPT !.lastInsertPos = p, !.data2[p] = w, !.length = @ + g - 1]
        BY <2>1, <3>1
      <3>3. /\ z.head = l.head /\ z.length = l.length + g - 1 /\ z.lastInsertPos = p
            /\ z.data1 = l.data1 /\ z.data2 = [l.data2 EXCEPT ![p] = w] /\ z.next = l.next
            /\ z = [head |-> z.head, length |-> z.length, lastInsertPos |-> z.lastInsertPos,
                    data1 |-> z.data1, data2 |-> z.data2, next |-> z.next]
        BY ONLY <3>2, <1>1 DEF SlType
      <3>4. l.length + g - 1 = l.length + c
        BY <1>1, <2>3, <3>1, SlParts
      <3>5. QED
        BY <3>1, <3>3, <3>4
    <2>5. /\ d2 \in [SlSlots -> Int] /\ d2[i] = Wrap(hi)
          /\ \A j \in SlSlots : j # i => d2[j] = l.data2[j]
      BY <1>1, <1>3, <2>3, SlParts
    <2> HIDE DEF d2
    <2>6. z \in SlType
      <3>1. z.length \in Int
        BY <1>1, <2>3, <2>4, SlParts
      <3>2. QED
        BY <1>1, <1>3, <2>4, <2>5, <3>1, SlParts DEF SlType
    <2>7. PICK F : F = [E EXCEPT ![x] = hi]
      OBVIOUS
    <2>8. F \in [Nat -> Nat] /\ F[x] = hi /\ \A a \in H : a # x => F[a] = E[a]
      BY <1>1, <1>2, <2>7
    <2>9. Fits(H, F)
      <3>1. H \subseteq Nat /\ \A a \in H : a <= F[a]
        BY <1>2, <2>8
      <3>2. \A a, b \in H : F[b] - a < SlSize
        BY <1>1, <2>8 DEF Fits
      <3>3. QED
        BY <2>8, <3>1, <3>2 DEF Fits
    <2>10. OnlyReaches(H, F, x)
      BY <1>1, <2>8 DEF OnlyReaches, Disjoint
    <2>11. Covered(H, F) = With(Covered(H, E), x, hi)
      <3>1. ASSUME NEW n \in Nat, NEW a \in H, a <= n, n <= F[a]
            PROVE  (\E b \in H : b <= n /\ n <= E[b]) \/ n \in x .. hi
        BY <1>2, <2>8, <3>1
      <3>2. ASSUME NEW n \in Nat, NEW a \in H, a <= n, n <= E[a]
            PROVE  \E b \in H : b <= n /\ n <= F[b]
        BY <1>2, <1>7, <2>8, <3>2
      <3>3. ASSUME NEW n \in x .. hi PROVE n \in Nat /\ \E b \in H : b <= n /\ n <= F[b]
        BY <1>2, <2>8
      <3>4. QED
        BY <3>1, <3>2, <3>3 DEF Covered, With
    <2>12. z.length = Reached(H, F, x)
      <3>1. Covered(H \ {x}, F) = Covered(H \ {x}, E)
        BY <2>8 DEF Covered
      <3>2. Cardinality(Covered(H, E)) = Cardinality(Covered(H \ {x}, E)) + (E[x] - x + 1)
        <4>1. \A b \in H : b # x => E[b] < x \/ E[x] < b
          BY <1>1, <1>2 DEF Disjoint
        <4>2. QED
          BY <1>1, <4>1, CountNode
      <3>3. Cardinality(Covered(H \ {x}, E)) \in Nat
        <4>1. Fits(H \ {x}, E)
          BY <1>1, FitsPart
        <4>2. QED
          BY <4>1, FitsTell
      <3>4. z.length = Cardinality(Covered(H \ {x}, E)) + (hi - x + 1)
        BY <1>1, <1>2, <2>4, <3>2, <3>3
      <3>5. QED
        BY <2>8, <3>1, <3>4 DEF Reached
    <2>13. Chart(z, H, F, o)
      <3>1. Leads(z, H, o)
        BY <1>1, <2>4 DEF Chart, Leads
      <3>2. ASSUME NEW a \in H
            PROVE  /\ z.data1[Place(o, a)] = Wrap(a)
                   /\ z.data2[Place(o, a)] = IF F[a] = a THEN -1 ELSE Wrap(F[a])
        <4>1. /\ l.data1[Place(o, a)] = Wrap(a)
              /\ l.data2[Place(o, a)] = IF E[a] = a THEN -1 ELSE Wrap(E[a])
          BY <1>1 DEF Chart
        <4>2. CASE a = x
          <5>1. hi # x
            BY <1>2, <1>7
          <5>2. QED
            BY <2>4, <2>5, <2>8, <4>1, <4>2, <5>1
        <4>3. CASE a # x
          <5>1. Place(o, a) # i
            BY <1>1, <4>3, ChartTells
          <5>2. QED
            BY <1>2, <2>4, <2>5, <2>8, <4>1, <4>3, <5>1
        <4>4. QED
          BY <4>2, <4>3
      <3>3. ASSUME NEW j \in SlSlots, \A a \in H : j # Place(o, a)
            PROVE  z.data1[j] = -1 /\ z.data2[j] = -1
        <4>1. l.data1[j] = -1 /\ l.data2[j] = -1 /\ j # i
          BY <1>1, <3>3 DEF Chart
        <4>2. QED
          BY <2>4, <2>5, <4>1
      <3>4. QED
        BY <2>6, <3>1, <3>2, <3>3 DEF Chart
    <2>14. Loose(z, H, F, o, x)
      BY <2>4, <2>9, <2>10, <2>12, <2>13 DEF Loose
    <2>15. Holds(Coalesce(z, i), Covered(H, F), o)
      BY <2>14, CoalesceRight
    <2>16. QED
      BY <2>2, <2>11, <2>15
  <1>8. QED
    BY <1>6, <1>7

(* The length is zero when there is no node.                                *)
LEMMA EmptyIs ==
  ASSUME NEW o, NEW H, NEW E, NEW l, Stands(l, H, E, o)
  PROVE  l.length = 0 <=> H = {}
  <1>1. Fits(H, E) /\ l.length = Cardinality(Covered(H, E))
    BY DEF Stands
  <1>2. IsFiniteSet(Covered(H, E))
    BY <1>1, FitsTell
  <1>3. \A a \in H : a \in Covered(H, E)
    BY <1>1 DEF Fits, Covered
  <1>4. H = {} => Covered(H, E) = {}
    BY DEF Covered
  <1>5. Cardinality(Covered(H, E)) = 0 <=> Covered(H, E) = {}
    BY <1>2, FS_EmptySet
  <1>6. QED
    BY <1>1, <1>3, <1>4, <1>5

(* Numbers of a range, as the code counts and compares them.                *)
LEMMA RangeIs ==
  ASSUME NEW H, NEW E, Fits(H, E), NEW lo, NEW hi, Beside(H, E, lo, hi)
  PROVE  /\ seqlen(Wrap(lo), Wrap(hi)) = hi - lo + 1 /\ hi - lo + 1 \in Int
         /\ Wrap(lo) \in Int /\ Wrap(hi) \in Int /\ Wrap(lo) # -1 /\ lo \in Int /\ hi \in Int
         /\ \A a \in H : lo - a < SeqNoTH /\ a - lo < SeqNoTH /\ lo - a < SlSize /\ a - lo < SlSize
         /\ \A a \in H : lo - E[a] < SeqNoTH /\ E[a] - lo < SeqNoTH
  <1>1. lo \in Nat /\ hi \in Nat /\ lo <= hi /\ hi - lo < SlSize
        /\ \A a \in H : hi - a < SlSize /\ E[a] - lo < SlSize
    BY DEF Beside
  <1>2. SlSize <= SeqNoTH /\ SlSize \in Nat /\ SeqNoTH \in Nat /\ hi - lo <= MaxSeqNo
    BY <1>1, SlConstants, SeqNoAssumption
  <1>3. \A a \in H : a \in Nat /\ E[a] \in Nat /\ a <= E[a]
    BY FitsTell
  <1>4. seqlen(Wrap(lo), Wrap(hi)) = hi - lo + 1
    BY <1>1, <1>2, SeqLenAgrees
  <1>5. Wrap(lo) \in Int /\ Wrap(hi) \in Int /\ Wrap(lo) # -1
    BY <1>1, Steps
  <1>6. \A a \in H : lo - a < SeqNoTH /\ a - lo < SeqNoTH /\ lo - a < SlSize /\ a - lo < SlSize
    BY <1>1, <1>2, <1>3
  <1>7. \A a \in H : lo - E[a] < SeqNoTH /\ E[a] - lo < SeqNoTH
    BY <1>1, <1>2, <1>3
  <1>8. QED
    BY <1>1, <1>4, <1>5, <1>6, <1>7

(* The first range goes to slot 0.                                          *)
LEMMA StartRight ==
  ASSUME NEW o \in SlSlots, NEW H, NEW E, NEW l, Stands(l, H, E, o), l.length = 0,
         NEW lo, NEW hi, Beside(H, E, lo, hi)
  PROVE  \E x \in SlSlots : Holds(sndInsert(l, Wrap(lo), Wrap(hi)), With(Covered(H, E), lo, hi), x)
  <1>1. /\ Fits(H, E) /\ Chart(l, H, E, o) /\ H = {}
    BY EmptyIs DEF Stands
  <1>2. l \in SlType /\ \A i \in SlSlots : l.data1[i] = -1 /\ l.data2[i] = -1
    BY <1>1 DEF Chart
  <1>3. /\ seqlen(Wrap(lo), Wrap(hi)) = hi - lo + 1 /\ hi - lo + 1 \in Int
        /\ Wrap(lo) \in Int /\ Wrap(hi) \in Int /\ Wrap(lo) # -1
        /\ lo \in Nat /\ hi \in Nat /\ lo <= hi /\ hi - lo < SlSize /\ 0 - lo \in Int /\ lo \in Int
    BY <1>1, RangeIs DEF Beside
  <1> DEFINE x == Place(0, 0 - lo)
  <1>4. x \in SlSlots /\ Place(x, lo) = 0 /\ 0 \in SlSlots /\ x \in Int
    <2>1. x \in SlSlots /\ x \in Int
      BY <1>3, 0 \in Int, PlaceSlot
    <2>2. (x + lo) % SlSize = Place(0, (0 - lo) + lo)
      BY <1>3, PlaceShift
    <2>3. Place(0, (0 - lo) + lo) = 0
      BY <1>3, SlConstants DEF Place
    <2> HIDE DEF x
    <2>4. QED
      BY <2>1, <2>2, <2>3, SlConstants DEF Place, SlSlots
  <1> HIDE DEF x
  <1>5. PICK i, n : i = 0 /\ n = -1
    OBVIOUS
  <1>6. PICK y, z : y = NewNode(l, i, Wrap(lo), Wrap(hi), n) /\ z = [y EXCEPT !.head = i]
    OBVIOUS
  <1>7. i \in Int /\ i \in SlSlots /\ n \in Int
    BY <1>4, <1>5
  <1>8. Noted(l, y, i, lo, hi) /\ y.next = [l.next EXCEPT ![i] = n]
    BY <1>2, <1>3, <1>6, <1>7, NewNodeNotes
  <1>9. /\ z \in SlType /\ z.head = i /\ z.length = y.length /\ z.data1 = y.data1
        /\ z.lastInsertPos = y.lastInsertPos /\ z.data2 = y.data2 /\ z.next = y.next
    BY <1>8, <1>6, <1>7, NewHead DEF Noted
  <1>10. sndInsert(l, Wrap(lo), Wrap(hi)) = z
    BY <1>5, <1>6 DEF sndInsert
  <1>11. Stands(l, H, E, x)
    <2>1. Leads(l, H, x)
      BY <1>1 DEF Chart, Leads
    <2>2. Chart(l, H, E, x)
      BY <1>1, <1>2, <2>1 DEF Chart
    <2>3. QED
      BY <1>1, <2>2 DEF Stands
  <1>12. Leads(z, H \cup {lo}, x)
    <2>1. z.next[0] = -1
      BY <1>2, <1>4, <1>5, <1>8, <1>9, SlParts
    <2>2. ~(lo < lo) /\ H \cup {lo} = {lo}
      BY <1>1, <1>3
    <2>3. QED
      BY <1>4, <1>5, <1>9, <2>1, <2>2 DEF Leads, Follows
  <1>13. PICK F : /\ Loose(z, H \cup {lo}, F, x, lo)
                  /\ Covered(H \cup {lo}, F) = With(Covered(H, E), lo, hi)
    <2>1. Noted(l, z, Place(x, lo), lo, hi)
      BY <1>4, <1>5, <1>8, <1>9 DEF Noted
    <2>2. Clear(H, E, lo)
      BY <1>1 DEF Clear
    <2>3. x \in SlSlots
      BY <1>4
    <2>4. Joins(z, H, E, x, lo, hi)
      BY <1>11, <1>12, <2>1, <2>2, <2>3, NewNodeRight
    <2>5. QED
      BY <2>4 DEF Joins
  <1>14. Disjoint(H \cup {lo}, F)
    BY <1>1, <1>3 DEF Disjoint
  <1>15. Stands(z, H \cup {lo}, F, x)
    BY <1>13, <1>14, Settled
  <1>16. QED
    <2>1. Holds(z, With(Covered(H, E), lo, hi), x)
      BY <1>13, <1>15 DEF Holds
    <2>2. QED
      BY <1>4, <1>10, <2>1

(* A range before the first node: its node becomes the head.                *)
LEMMA BeforeRight ==
  ASSUME NEW o \in SlSlots, NEW H, NEW E, NEW l, Stands(l, H, E, o), l.length # 0,
         NEW lo, NEW hi, Beside(H, E, lo, hi), \A a \in H : lo < a
  PROVE  Holds(sndInsert(l, Wrap(lo), Wrap(hi)), With(Covered(H, E), lo, hi), o)
  <1> DEFINE i == Place(o, lo)
  <1>1. /\ Fits(H, E) /\ Chart(l, H, E, o) /\ H # {}
    BY EmptyIs DEF Stands
  <1>2. /\ l \in SlType /\ o \in Int /\ l.head \in Int
    <2>1. l \in SlType
      BY <1>1 DEF Chart
    <2>2. QED
      BY <1>1, <2>1, SlParts, ChartTells
  <1>3. /\ lo \in Nat /\ hi \in Nat /\ lo <= hi /\ hi - lo < SlSize /\ lo \in Int
        /\ \A a \in H : lo - a < SeqNoTH /\ a - lo < SeqNoTH /\ lo - a < SlSize /\ a - lo < SlSize
    <2>1. Beside(H, E, lo, hi)
      OBVIOUS
    <2>2. \A a \in H : lo - a < SeqNoTH /\ a - lo < SeqNoTH /\ lo - a < SlSize /\ a - lo < SlSize
      BY <1>1, <2>1, RangeIs
    <2>3. QED
      BY <2>1, <2>2 DEF Beside
  <1>4. i \in SlSlots /\ i \in Int
    BY <1>2, <1>3, PlaceSlot
  <1>5. PICK m \in H : /\ IsLeast(H, m) /\ FirstNo(l) = Wrap(m)
                       /\ seqoff(FirstNo(l), Wrap(lo)) = lo - m
                       /\ SlotOf(l, Wrap(lo)) = i
    BY <1>1, <1>3, FirstTells
  <1>6. seqoff(FirstNo(l), Wrap(lo)) < 0
    <2>1. lo < m /\ m \in Int
      BY <1>1, FitsTell
    <2>2. QED
      BY <1>3, <1>5, <2>1
  <1>7. PICK h, y, z : /\ h = l.head /\ y = NewNode(l, i, Wrap(lo), Wrap(hi), h)
                       /\ z = [y EXCEPT !.head = i]
    OBVIOUS
  <1>8. sndInsert(l, Wrap(lo), Wrap(hi)) = Coalesce(z, i)
    BY <1>5, <1>6, <1>7 DEF sndInsert
  <1> HIDE DEF i
  <1>9. Noted(l, y, i, lo, hi) /\ y.next = [l.next EXCEPT ![i] = h]
    BY <1>2, <1>3, <1>4, <1>7, NewNodeNotes
  <1>10. /\ z \in SlType /\ z.head = i /\ z.length = y.length /\ z.data1 = y.data1
         /\ z.lastInsertPos = y.lastInsertPos /\ z.data2 = y.data2 /\ z.next = y.next
    BY <1>4, <1>7, <1>9, NewHead DEF Noted
  <1>11. Noted(l, z, i, lo, hi)
    BY <1>9, <1>10 DEF Noted
  <1>12. \A a \in H : Place(o, a) # i
    <2>1. ASSUME NEW a \in H, Place(o, a) = i PROVE FALSE
      <3>1. a \in Int /\ lo < a /\ Place(o, a) = Place(o, lo)
        BY <1>1, <2>1, FitsTell DEF i
      <3>2. a = lo
        BY <1>2, <1>3, <3>1, PlaceApart
      <3>3. QED
        BY <3>1, <3>2
    <2>2. QED
      BY <2>1
  <1>13. Leads(z, H \cup {lo}, o)
    <2>1. z.head = Place(o, lo) /\ z.next = [l.next EXCEPT ![Place(o, lo)] = l.head]
      BY <1>7, <1>9, <1>10 DEF i
    <2>2. Place(o, lo) \in SlSlots /\ \A a \in H : Place(o, a) # Place(o, lo)
      BY <1>4, <1>12 DEF i
    <2>3. QED
      BY <1>1, <1>3, <2>1, <2>2, LeadsFirst
  <1>14. Clear(H, E, lo)
    <2>1. \A a \in H : a \in Int /\ lo < a
      BY <1>1, FitsTell
    <2>2. QED
      BY <1>3, <2>1 DEF Clear
  <1>15. Joins(z, H, E, o, lo, hi)
    BY <1>11, <1>13, <1>14, NewNodeRight DEF i
  <1>16. PICK F : /\ Loose(z, H \cup {lo}, F, o, lo)
                  /\ Covered(H \cup {lo}, F) = With(Covered(H, E), lo, hi)
    BY <1>15 DEF Joins
  <1>17. Holds(Coalesce(z, i), Covered(H \cup {lo}, F), o)
    BY <1>16, CoalesceRight DEF i
  <1>18. QED
    BY <1>8, <1>16, <1>17

(* A range that starts beyond the node of p and before the next: a new node. *)
LEMMA BetweenRight ==
  ASSUME NEW o \in SlSlots, NEW H, NEW E, NEW l, Stands(l, H, E, o),
         NEW lo, NEW hi, Beside(H, E, lo, hi), NEW p \in H, E[p] < lo, lo \notin H,
         \A a \in H : a <= p \/ lo <= a
  PROVE  Holds(Coalesce([NewNode(l, Place(o, lo), Wrap(lo), Wrap(hi), l.next[Place(o, p)])
                           EXCEPT !.next[Place(o, p)] = Place(o, lo)], Place(o, lo)),
               With(Covered(H, E), lo, hi), o)
  <1> DEFINE i == Place(o, lo)
             q == Place(o, p)
  <1>1. Fits(H, E) /\ Chart(l, H, E, o) /\ Disjoint(H, E)
    BY DEF Stands
  <1>2. l \in SlType /\ o \in Int /\ q \in SlSlots
    <2>1. l \in SlType
      BY <1>1 DEF Chart
    <2>2. QED
      BY <1>1, <2>1, ChartTells
  <1>3. /\ lo \in Nat /\ hi \in Nat /\ lo <= hi /\ hi - lo < SlSize /\ lo \in Int
        /\ \A a \in H : lo - a < SlSize /\ a - lo < SlSize
    <2>1. Beside(H, E, lo, hi)
      OBVIOUS
    <2>2. \A a \in H : lo - a < SlSize /\ a - lo < SlSize
      BY <1>1, <2>1, RangeIs
    <2>3. QED
      BY <2>1, <2>2 DEF Beside
  <1>4. i \in SlSlots /\ i \in Int
    BY <1>2, <1>3, PlaceSlot
  <1>5. \A a \in H : a \in Int /\ E[a] \in Int /\ a <= E[a]
    BY <1>1, FitsTell
  <1>6. PICK n, y, z : /\ n = l.next[q] /\ y = NewNode(l, i, Wrap(lo), Wrap(hi), n)
                       /\ z = [y EXCEPT !.next[q] = i]
    OBVIOUS
  <1>7. n \in Int
    BY <1>2, <1>6, SlParts
  <1> HIDE DEF i, q
  <1>8. Noted(l, y, i, lo, hi) /\ y.head = l.head /\ y.next = [l.next EXCEPT ![i] = n]
    BY <1>2, <1>3, <1>4, <1>6, <1>7, NewNodeNotes
  <1>9. /\ z \in SlType /\ z.head = y.head /\ z.length = y.length /\ z.data1 = y.data1
        /\ z.lastInsertPos = y.lastInsertPos /\ z.data2 = y.data2
        /\ z.next = [y.next EXCEPT ![q] = i]
    <2>1. y \in SlType
      BY <1>8 DEF Noted
    <2>2. z = [y EXCEPT !.next[q] = i]
      BY <1>6
    <2>3. /\ z.head = y.head /\ z.length = y.length
          /\ z.lastInsertPos = y.lastInsertPos /\ z.data1 = y.data1 /\ z.data2 = y.data2
          /\ z.next = [y.next EXCEPT ![q] = i]
          /\ z = [head |-> z.head, length |-> z.length, lastInsertPos |-> z.lastInsertPos,
                  data1 |-> z.data1, data2 |-> z.data2, next |-> z.next]
      BY ONLY <2>1, <2>2 DEF SlType
    <2>4. [y.next EXCEPT ![q] = i] \in [SlSlots -> Int]
      BY <1>2, <1>4, <2>1, SlParts
    <2>5. z \in SlType
      BY <2>1, <2>3, <2>4, SlParts DEF SlType
    <2>6. QED
      BY <2>3, <2>5
  <1>10. Noted(l, z, i, lo, hi)
    BY <1>8, <1>9 DEF Noted
  <1>11. \A a \in H : Place(o, a) # i
    <2>1. ASSUME NEW a \in H, Place(o, a) = i PROVE FALSE
      <3>1. a \in Int /\ Place(o, a) = Place(o, lo)
        BY <1>5, <2>1 DEF i
      <3>2. a = lo
        BY <1>2, <1>3, <3>1, PlaceApart
      <3>3. QED
        BY <3>2
    <2>2. QED
      BY <2>1
  <1>12. Leads(z, H \cup {lo}, o)
    <2>1. /\ z.head = l.head
          /\ z.next = [[l.next EXCEPT ![Place(o, lo)] = l.next[Place(o, p)]]
                        EXCEPT ![Place(o, p)] = Place(o, lo)]
      BY <1>6, <1>8, <1>9 DEF i, q
    <2>2. Place(o, lo) \in SlSlots /\ \A a \in H : Place(o, a) # Place(o, lo)
      BY <1>4, <1>11 DEF i
    <2>3. p < lo /\ \A a \in H : a <= p \/ lo < a
      BY <1>3, <1>5
    <2>4. QED
      BY <1>1, <1>3, <2>1, <2>2, <2>3, LeadsBetween
  <1>13. Clear(H, E, lo)
    <2>1. ASSUME NEW a \in H, a < lo PROVE E[a] < lo
      <3>1. a = p \/ a < p
        BY <1>3, <1>5, <2>1
      <3>2. a < p => E[a] < p
        BY <1>1 DEF Disjoint
      <3>3. QED
        BY <1>3, <1>5, <3>1, <3>2
    <2>2. QED
      BY <2>1 DEF Clear
  <1>14. Joins(z, H, E, o, lo, hi)
    BY <1>10, <1>12, <1>13, NewNodeRight DEF i
  <1>15. PICK F : /\ Loose(z, H \cup {lo}, F, o, lo)
                  /\ Covered(H \cup {lo}, F) = With(Covered(H, E), lo, hi)
    BY <1>14 DEF Joins
  <1>16. Holds(Coalesce(z, i), Covered(H \cup {lo}, F), o)
    BY <1>15, CoalesceRight DEF i
  <1>17. QED
    BY <1>6, <1>15, <1>16 DEF i, q

(* The walk of insert, from wherever it starts, ends at the last node below. *)
LEMMA WalkFrom ==
  ASSUME NEW o \in SlSlots, NEW H, NEW E, NEW l, Stands(l, H, E, o),
         NEW lo \in Int, \A a \in H : lo - a < SeqNoTH /\ a - lo < SeqNoTH,
         NEW m \in H, l.head = Place(o, m), m < lo
  PROVE  \E q \in H : /\ Walk(l, WalkStart(l, Wrap(lo)), Wrap(lo)) = Place(o, q) /\ q < lo
                      /\ \A a \in H : a <= q \/ lo <= a
  <1>1. Fits(H, E) /\ Chart(l, H, E, o)
    BY DEF Stands
  <1>2. PICK p \in H : WalkStart(l, Wrap(lo)) = Place(o, p) /\ p < lo
    <2>1. CASE WalkStart(l, Wrap(lo)) = l.head
      BY <2>1
    <2>2. CASE WalkStart(l, Wrap(lo)) # l.head
      <3>1. /\ l.lastInsertPos # -1 /\ Greater(Wrap(lo), l.data1[l.lastInsertPos])
            /\ WalkStart(l, Wrap(lo)) = l.lastInsertPos
        BY <2>2 DEF WalkStart
      <3>2. PICK a \in H : l.lastInsertPos = Place(o, a)
        BY <3>1 DEF Stands
      <3>3. Greater(Wrap(lo), Wrap(a)) /\ a \in Int
        BY <1>1, <3>1, <3>2, ChartTells, FitsTell
      <3>4. a < lo
        BY <3>3, GreaterIs
      <3>5. QED
        BY <3>1, <3>2, <3>4
    <2>3. QED
      BY <2>1, <2>2
  <1>3. QED
    BY <1>1, <1>2, WalkRight

(* insert adds the range to the numbers of the list.                        *)
LEMMA SndInsertRight ==
  ASSUME NEW o \in SlSlots, NEW H, NEW E, NEW l, Stands(l, H, E, o),
         NEW lo, NEW hi, Beside(H, E, lo, hi)
  PROVE  \E x \in SlSlots : Holds(sndInsert(l, Wrap(lo), Wrap(hi)), With(Covered(H, E), lo, hi), x)
  <1>1. Fits(H, E) /\ Chart(l, H, E, o)
    BY DEF Stands
  <1>2. /\ lo \in Nat /\ hi \in Nat /\ lo <= hi /\ lo \in Int
        /\ \A a \in H : hi - a < SlSize
        /\ \A a \in H : lo - a < SeqNoTH /\ a - lo < SeqNoTH /\ lo - a < SlSize /\ a - lo < SlSize
        /\ \A a \in H : lo - E[a] < SeqNoTH /\ E[a] - lo < SeqNoTH
    <2>1. Beside(H, E, lo, hi)
      OBVIOUS
    <2>2. /\ lo \in Nat /\ hi \in Nat /\ lo <= hi
          /\ \A a \in H : hi - a < SlSize
      BY <2>1 DEF Beside
    <2>3. QED
      BY <1>1, <2>1, <2>2, RangeIs
  <1>3. \A a \in H : a \in Nat /\ a \in Int /\ E[a] \in Nat /\ E[a] \in Int /\ a <= E[a]
    BY <1>1, FitsTell
  <1>4. CASE l.length = 0
    BY <1>4, StartRight
  <1>5. CASE l.length # 0
    <2> DEFINE i == Place(o, lo)
    <2>1. H # {}
      BY <1>5, EmptyIs
    <2>2. PICK m \in H : /\ IsLeast(H, m) /\ l.head = Place(o, m)
                         /\ seqoff(FirstNo(l), Wrap(lo)) = lo - m
                         /\ SlotOf(l, Wrap(lo)) = i
      BY <1>1, <1>2, <2>1, FirstTells
    <2>3. CASE lo < m
      <3>1. \A a \in H : lo < a
        BY <1>2, <1>3, <2>2, <2>3 DEF IsLeast
      <3>2. QED
        BY <1>5, <3>1, BeforeRight
    <2>4. CASE ~(lo < m)
      <3>1. sndInsert(l, Wrap(lo), Wrap(hi)) = insertAt(l, Wrap(lo), Wrap(hi), i)
        <4>1. ~(lo - m < 0)
          BY <1>2, <1>3, <2>4
        <4>2. QED
          BY <1>5, <2>2, <4>1 DEF sndInsert
      <3>2. i \in SlSlots /\ o \in Int
        BY <1>1, <1>2, PlaceSlot, ChartTells
      <3>3. lo \in H <=> l.data1[i] = Wrap(lo)
        <4>1. lo \in H => l.data1[i] = Wrap(lo)
          BY <1>1, ChartTells
        <4>2. ASSUME l.data1[i] = Wrap(lo) PROVE lo \in H
          <5>1. l.data1[i] # -1
            BY <1>2, <4>2, Steps
          <5>2. PICK a \in H : Place(o, a) = Place(o, lo)
            BY <1>1, <3>2, <5>1 DEF Chart
          <5>3. a = lo
            BY <1>2, <1>3, <3>2, <5>2, PlaceApart
          <5>4. QED
            BY <5>3
        <4>3. QED
          BY <4>1, <4>2
      <3>4. CASE lo \in H
        <4>1. sndInsert(l, Wrap(lo), Wrap(hi)) = Extend(l, i, Wrap(hi))
          BY <3>1, <3>3, <3>4 DEF insertAt
        <4>2. Holds(Extend(l, i, Wrap(hi)), With(Covered(H, E), lo, hi), o)
          BY <1>2, <3>4, ExtendRight
        <4>3. QED
          BY <4>1, <4>2
      <3>5. CASE lo \notin H
        <4>1. m < lo
          BY <1>2, <1>3, <2>4, <3>5
        <4>2. PICK q \in H : /\ Walk(l, WalkStart(l, Wrap(lo)), Wrap(lo)) = Place(o, q) /\ q < lo
                             /\ \A a \in H : a <= q \/ lo <= a
          BY <1>2, <2>2, <4>1, WalkFrom
        <4> DEFINE j == Place(o, q)
        <4>3. (l.data2[j] = -1 \/ Greater(Wrap(lo), l.data2[j])) <=> E[q] < lo
          <5>1. /\ l.data2[j] = -1 <=> E[q] = q
                /\ l.data2[j] # -1 => l.data2[j] = Wrap(E[q])
            BY <1>1, ChartTells
          <5>2. Greater(Wrap(lo), Wrap(E[q])) <=> lo > E[q]
            BY <1>2, <1>3, GreaterIs
          <5>3. QED
            BY <1>2, <1>3, <4>2, <5>1, <5>2
        <4>4. CASE E[q] < lo
          <5> DEFINE z == [NewNode(l, i, Wrap(lo), Wrap(hi), l.next[j]) EXCEPT !.next[j] = i]
          <5>1. sndInsert(l, Wrap(lo), Wrap(hi)) = Coalesce(z, i)
            BY <3>1, <3>3, <3>5, <4>2, <4>3, <4>4 DEF insertAt
          <5>2. Holds(Coalesce(z, i), With(Covered(H, E), lo, hi), o)
            BY <3>5, <4>2, <4>4, BetweenRight
          <5> HIDE DEF z
          <5>3. QED
            BY <5>1, <5>2
        <4>5. CASE ~(E[q] < lo)
          <5>1. sndInsert(l, Wrap(lo), Wrap(hi)) = Extend(l, j, Wrap(hi))
            BY <3>1, <3>3, <3>5, <4>2, <4>3, <4>5 DEF insertAt
          <5>2. q <= hi
            BY <1>2, <1>3, <4>2
          <5>3. Holds(Extend(l, j, Wrap(hi)), With(Covered(H, E), q, hi), o)
            BY <1>2, <5>2, ExtendRight
          <5>4. With(Covered(H, E), q, hi) = With(Covered(H, E), lo, hi)
            <6>1. \A n \in q .. hi : n \in lo .. hi \/ n \in Covered(H, E)
              BY <1>2, <1>3, <4>5 DEF Covered
            <6>2. \A n \in lo .. hi : n \in q .. hi
              BY <1>2, <1>3, <4>2
            <6>3. QED
              BY <6>1, <6>2 DEF With
          <5>5. QED
            BY <5>1, <5>3, <5>4
        <4>6. QED
          BY <4>4, <4>5
      <3>6. QED
        BY <3>4, <3>5
    <2>5. QED
      BY <2>3, <2>4
  <1>6. QED
    BY <1>4, <1>5

(* What SplitAt leaves.                                                    *)
LEMMA SplitForm ==
  ASSUME NEW l \in SlType, NEW i \in SlSlots, NEW n \in SlSlots, NEW s, incseq(s) \in Int,
         s \in Int, n \in Int, i # n, NEW z, z = SplitAt(l, i, n, s)
  PROVE  /\ z \in SlType /\ z.head = l.head /\ z.length = l.length
         /\ z.lastInsertPos = l.lastInsertPos
         /\ z.data1[n] = incseq(s) /\ \A j \in SlSlots : j # n => z.data1[j] = l.data1[j]
         /\ z.data2[n] = IF Greater(l.data2[i], incseq(s)) THEN l.data2[i] ELSE l.data2[n]
         /\ z.data2[i] = IF s = l.data1[i] THEN -1 ELSE s
         /\ \A j \in SlSlots : j # n /\ j # i => z.data2[j] = l.data2[j]
         /\ z.next = [[l.next EXCEPT ![n] = l.next[i]] EXCEPT ![i] = n]
  <1> DEFINE g == incseq(s)
             u == IF Greater(l.data2[i], incseq(s)) THEN l.data2[i] ELSE l.data2[n]
             v == IF s = l.data1[i] THEN -1 ELSE s
             d1 == [l.data1 EXCEPT ![n] = g]
             d2 == [[l.data2 EXCEPT ![n] = u] EXCEPT ![i] = v]
             nx == [[l.next EXCEPT ![n] = l.next[i]] EXCEPT ![i] = n]
  <1>1. g = incseq(s) /\ u = (IF Greater(l.data2[i], incseq(s)) THEN l.data2[i] ELSE l.data2[n])
        /\ v = (IF s = l.data1[i] THEN -1 ELSE s)
    OBVIOUS
  <1>2. z = [l EXCEPT !.data1 = d1, !.data2 = d2, !.next = nx]
    BY DEF SplitAt
  <1>3. /\ z.head = l.head /\ z.length = l.length /\ z.lastInsertPos = l.lastInsertPos
        /\ z.data1 = d1 /\ z.data2 = d2 /\ z.next = nx
        /\ z = [head |-> z.head, length |-> z.length, lastInsertPos |-> z.lastInsertPos,
                data1 |-> z.data1, data2 |-> z.data2, next |-> z.next]
    BY ONLY <1>2, l \in SlType DEF SlType
  <1>4. g \in Int /\ u \in Int /\ v \in Int
    BY SlParts
  <1>5. /\ d1 \in [SlSlots -> Int] /\ d2 \in [SlSlots -> Int] /\ nx \in [SlSlots -> Int]
        /\ d1[n] = g /\ d2[n] = u /\ d2[i] = v
        /\ \A j \in SlSlots : j # n => d1[j] = l.data1[j]
        /\ \A j \in SlSlots : j # n /\ j # i => d2[j] = l.data2[j]
    BY <1>4, SlParts
  <1> HIDE DEF d1, d2, nx
  <1>6. z \in SlType
    BY <1>3, <1>5, SlParts DEF SlType
  <1>7. QED
    BY <1>1, <1>3, <1>5, <1>6 DEF nx

(* The numbers of the node of x beyond s become a node of their own.         *)
SplitEnds(E, x, s) == [E EXCEPT ![x] = s, ![s + 1] = E[x]]

LEMMA SplitRight ==
  ASSUME NEW o \in SlSlots, NEW H, NEW E, NEW l, Stands(l, H, E, o),
         NEW x \in H, NEW s \in Nat, x <= s, s < E[x]
  PROVE  /\ Stands(SplitAt(l, Place(o, x), Place(o, s + 1), Wrap(s)), H \cup {s + 1},
                   SplitEnds(E, x, s), o)
         /\ Covered(H \cup {s + 1}, SplitEnds(E, x, s)) = Covered(H, E)
         /\ SplitEnds(E, x, s)[x] = s
         /\ \A a \in H : a # x => SplitEnds(E, x, s)[a] = E[a]
         /\ s + 1 \notin H
  <1> DEFINE i == Place(o, x)
             b == s + 1
             n == Place(o, b)
             K == H \cup {b}
  <1>1. /\ Fits(H, E) /\ Chart(l, H, E, o) /\ Disjoint(H, E)
        /\ l.length = Cardinality(Covered(H, E)) /\ E \in [Nat -> Nat]
        /\ l.lastInsertPos = -1 \/ \E a \in H : l.lastInsertPos = Place(o, a)
    BY DEF Stands, Fits
  <1>2. /\ l \in SlType /\ o \in Int /\ i \in SlSlots
    <2>1. l \in SlType
      BY <1>1 DEF Chart
    <2>2. QED
      BY <1>1, <2>1, ChartTells
  <1>3. \A a \in H : a \in Nat /\ a \in Int /\ E[a] \in Nat /\ E[a] \in Int /\ a <= E[a]
    BY <1>1, FitsTell
  <1>4. b \in Nat /\ b \in Int /\ b <= E[x] /\ x < b
    BY <1>3
  <1>5. b \notin H
    BY <1>1, <1>3, <1>4 DEF Disjoint
  <1>6. \A a \in H : b - a < SlSize /\ a - b < SlSize /\ E[a] - b < SlSize
    <2>1. \A a \in H : E[x] - a < SlSize /\ E[a] - x < SlSize
      BY <1>1, FitsTell
    <2>2. QED
      BY <1>3, <1>4, <2>1, SlConstants
  <1>7. n \in SlSlots /\ n \in Int
    BY <1>2, <1>4, PlaceSlot
  <1>8. \A a \in H : Place(o, a) # n
    <2>1. ASSUME NEW a \in H, Place(o, a) = n PROVE FALSE
      <3>1. a = b
        BY <1>2, <1>3, <1>4, <1>6, <2>1, PlaceApart
      <3>2. QED
        BY <1>5, <3>1
    <2>2. QED
      BY <2>1
  <1>9. PICK w, z : w = Wrap(s) /\ z = SplitAt(l, i, n, w)
    OBVIOUS
  <1>10. w \in Int /\ incseq(w) = Wrap(b) /\ Wrap(b) \in Int /\ Wrap(b) # -1
    BY <1>4, <1>9, s \in Int, Steps
  <1> HIDE DEF i, n
  <1>11. /\ z \in SlType /\ z.head = l.head /\ z.length = l.length
         /\ z.lastInsertPos = l.lastInsertPos
         /\ z.data1[n] = incseq(w) /\ \A j \in SlSlots : j # n => z.data1[j] = l.data1[j]
         /\ z.data2[n] = IF Greater(l.data2[i], incseq(w)) THEN l.data2[i] ELSE l.data2[n]
         /\ z.data2[i] = IF w = l.data1[i] THEN -1 ELSE w
         /\ \A j \in SlSlots : j # n /\ j # i => z.data2[j] = l.data2[j]
         /\ z.next = [[l.next EXCEPT ![n] = l.next[i]] EXCEPT ![i] = n]
    <2>1. i # n
      BY <1>8 DEF i
    <2>2. /\ l \in SlType /\ i \in SlSlots /\ n \in SlSlots /\ n \in Int /\ w \in Int
          /\ incseq(w) \in Int /\ z = SplitAt(l, i, n, w)
      BY ONLY <1>2, <1>7, <1>9, <1>10
    <2>3. QED
      BY ONLY <2>1, <2>2, SplitForm
  <1>12. PICK F : F = SplitEnds(E, x, s)
    OBVIOUS
  <1>13. /\ F \in [Nat -> Nat] /\ F[x] = s /\ F[b] = E[x]
         /\ \A a \in H : a # x => F[a] = E[a]
    <2>1. F = [[E EXCEPT ![x] = s] EXCEPT ![b] = E[x]]
      BY <1>12 DEF SplitEnds
    <2>2. x # b /\ x \in Nat /\ E[x] \in Nat
      BY <1>3, <1>4
    <2>3. QED
      BY <1>1, <1>3, <1>4, <1>5, <2>1, <2>2
  <1> HIDE DEF b
  <1>14. Fits(K, F)
    <2>1. K \subseteq Nat /\ \A a \in K : a <= F[a]
      BY <1>3, <1>4, <1>13
    <2>2. ASSUME NEW a \in K, NEW c \in K PROVE F[c] - a < SlSize
      <3>1. \A d \in H : E[x] - d < SlSize /\ E[d] - x < SlSize
        BY <1>1, FitsTell
      <3>2. CASE a \in H /\ c \in H
        <4>1. E[c] - a < SlSize
          BY <1>1, <3>2, FitsTell
        <4>2. c = x => F[c] - a < SlSize
          <5>1. c = x => F[c] = s /\ E[c] = E[x]
            BY <1>13
          <5>2. s \in Int /\ a \in Int /\ E[x] \in Int /\ s < E[x]
            BY <1>3, <3>2
          <5>3. QED
            BY <4>1, <5>1, <5>2, SlConstants
        <4>3. QED
          BY <1>13, <3>2, <4>1, <4>2
      <3>3. CASE a = b /\ c \in H
        <4>1. c = x => F[c] - a < SlSize
          BY <1>4, <1>13, <3>3, SlConstants DEF b
        <4>2. c # x => F[c] - a < SlSize
          BY <1>6, <1>13, <3>3
        <4>3. QED
          BY <4>1, <4>2
      <3>4. CASE a \in H /\ c = b
        BY <1>13, <3>1, <3>4
      <3>5. CASE a = b /\ c = b
        <4>1. E[x] - b < SlSize
          BY <1>6
        <4>2. QED
          BY <1>13, <3>5, <4>1
      <3>6. QED
        BY <3>2, <3>3, <3>4, <3>5
    <2>3. QED
      BY <1>13, <2>1, <2>2 DEF Fits
  <1>15. Disjoint(K, F)
    <2>1. ASSUME NEW a \in K, NEW c \in K, a < c PROVE F[a] < c
      <3>1. CASE a \in H /\ c \in H
        <4>1. E[a] < c
          BY <1>1, <2>1, <3>1 DEF Disjoint
        <4>2. QED
          BY <1>3, <1>13, <3>1, <4>1
      <3>2. CASE a = b /\ c \in H
        <4>1. x < c
          BY <1>3, <1>4, <2>1, <3>2
        <4>2. QED
          BY <1>1, <1>13, <3>2, <4>1 DEF Disjoint
      <3>3. CASE a \in H /\ c = b
        <4>1. a = x => F[a] < c
          BY <1>13, <3>3 DEF b
        <4>2. a # x => F[a] < c
          <5>1. a # x => (a < x \/ x < a)
            BY <1>3, <3>3
          <5>2. a < x => E[a] < x
            BY <1>1, <3>3 DEF Disjoint
          <5>3. x < a => E[x] < a
            BY <1>1, <3>3 DEF Disjoint
          <5>4. QED
            BY <1>3, <1>4, <1>13, <2>1, <3>3, <5>1, <5>2, <5>3
        <4>3. QED
          BY <4>1, <4>2
      <3>4. CASE a = b /\ c = b
        BY <1>4, <2>1, <3>4
      <3>5. QED
        BY <3>1, <3>2, <3>3, <3>4
    <2>2. QED
      BY <2>1 DEF Disjoint
  <1>16. Covered(K, F) = Covered(H, E)
    <2>1. ASSUME NEW k \in Nat, NEW a \in K, a <= k, k <= F[a]
          PROVE  \E c \in H : c <= k /\ k <= E[c]
      <3>1. CASE a \in H /\ a # x
        BY <1>13, <2>1, <3>1
      <3>2. CASE a = x \/ a = b
        <4>1. x <= k /\ k <= E[x]
          BY <1>3, <1>4, <1>13, <2>1, <3>2
        <4>2. QED
          BY <4>1
      <3>3. QED
        BY <3>1, <3>2
    <2>2. ASSUME NEW k \in Nat, NEW a \in H, a <= k, k <= E[a]
          PROVE  \E c \in K : c <= k /\ k <= F[c]
      <3>1. CASE a # x
        BY <1>13, <2>2, <3>1
      <3>2. CASE a = x /\ k <= s
        BY <1>13, <2>2, <3>2
      <3>3. CASE a = x /\ ~(k <= s)
        <4>1. b <= k /\ k <= F[b] /\ b \in K
          BY <1>13, <2>2, <3>3 DEF b
        <4>2. QED
          BY <4>1
      <3>4. QED
        BY <3>1, <3>2, <3>3
    <2>3. QED
      BY <2>1, <2>2 DEF Covered
  <1>17. Leads(z, K, o)
    <2>1. /\ z.head = l.head
          /\ z.next = [[l.next EXCEPT ![Place(o, b)] = l.next[Place(o, x)]]
                        EXCEPT ![Place(o, x)] = Place(o, b)]
      BY <1>11 DEF i, n
    <2>2. Place(o, b) \in SlSlots /\ \A a \in H : Place(o, a) # Place(o, b)
      BY <1>7, <1>8 DEF n
    <2>3. \A a \in H : a <= x \/ b < a
      BY <1>1, <1>3, <1>4 DEF Disjoint
    <2>4. QED
      BY <1>1, <1>4, <2>1, <2>2, <2>3, LeadsBetween
  <1>18. Chart(z, K, F, o)
    <2>1. /\ l.data1[i] = Wrap(x) /\ l.data2[i] = Wrap(E[x])
      BY <1>1, <1>3, <1>4 DEF Chart, i
    <2>2. l.data2[n] = -1
      BY <1>1, <1>7, <1>8 DEF Chart
    <2>3. Greater(Wrap(E[x]), Wrap(b)) <=> E[x] # b
      <3>1. E[x] - b < SeqNoTH /\ b - E[x] < SeqNoTH /\ E[x] \in Int
        BY <1>3, <1>4, <1>6, SlConstants
      <3>2. QED
        <4>1. Greater(Wrap(E[x]), Wrap(b)) <=> E[x] > b
          BY <1>4, <3>1, GreaterIs
        <4>2. E[x] > b <=> E[x] # b
          BY <1>4, <3>1
        <4>3. QED
          BY <4>1, <4>2
    <2>4. z.data2[n] = IF F[b] = b THEN -1 ELSE Wrap(F[b])
      BY <1>10, <1>11, <1>13, <2>1, <2>2, <2>3
    <2>5. Wrap(s) = Wrap(x) <=> s = x
      <3>1. s - x < SeqNoTH /\ x - s < SeqNoTH /\ s \in Int /\ x \in Int
        <4>1. E[x] - x < SlSize
          BY <1>1, FitsTell
        <4>2. QED
          BY <1>3, <4>1, SlConstants
      <3>2. QED
        BY <3>1, WrapApart
    <2>6. z.data2[i] = IF F[x] = x THEN -1 ELSE Wrap(F[x])
      BY <1>9, <1>11, <1>13, <2>1, <2>5
    <2>7. ASSUME NEW a \in K
          PROVE  /\ z.data1[Place(o, a)] = Wrap(a)
                 /\ z.data2[Place(o, a)] = IF F[a] = a THEN -1 ELSE Wrap(F[a])
      <3>1. CASE a = b
        BY <1>10, <1>11, <2>4, <3>1 DEF n
      <3>2. CASE a \in H
        <4>1. Place(o, a) \in SlSlots /\ Place(o, a) # n /\ (a # x => Place(o, a) # i)
          BY <1>1, <1>8, <3>2, ChartTells DEF i
        <4>2. /\ l.data1[Place(o, a)] = Wrap(a)
              /\ l.data2[Place(o, a)] = IF E[a] = a THEN -1 ELSE Wrap(E[a])
          BY <1>1, <3>2 DEF Chart
        <4>3. z.data1[Place(o, a)] = Wrap(a)
          BY <1>11, <4>1, <4>2
        <4>4. CASE a = x
          BY <2>6, <4>3, <4>4 DEF i
        <4>5. CASE a # x
          BY <1>11, <1>13, <3>2, <4>1, <4>2, <4>3, <4>5
        <4>6. QED
          BY <4>4, <4>5
      <3>3. QED
        BY <3>1, <3>2
    <2>8. ASSUME NEW j \in SlSlots, \A a \in K : j # Place(o, a)
          PROVE  z.data1[j] = -1 /\ z.data2[j] = -1
      <3>1. j # n /\ j # i /\ \A a \in H : j # Place(o, a)
        BY <2>8 DEF i, n
      <3>2. l.data1[j] = -1 /\ l.data2[j] = -1
        BY <1>1, <3>1 DEF Chart
      <3>3. QED
        BY <1>11, <3>1, <3>2
    <2>9. QED
      BY <1>11, <1>17, <2>7, <2>8 DEF Chart
  <1>19. Stands(z, K, F, o)
    BY <1>1, <1>11, <1>14, <1>15, <1>16, <1>18 DEF Stands
  <1>20. QED
    BY <1>5, <1>9, <1>12, <1>13, <1>16, <1>19 DEF i, n, b

(* What PopHead leaves, when the head is slot h.                            *)
LEMMA PopForm ==
  ASSUME NEW l \in SlType, NEW h \in SlSlots, l.head = h, h \in Int, NEW c \in Int,
         c = seqlen(FirstNo(l), EndOf(l, h)), NEW z, z = PopHead(l)
  PROVE  /\ z \in SlType /\ z.head = l.next[h] /\ z.length = l.length - c
         /\ z.lastInsertPos = IF l.lastInsertPos = h THEN -1 ELSE l.lastInsertPos
         /\ z.data1[h] = -1 /\ z.data2[h] = -1
         /\ \A j \in SlSlots : j # h => z.data1[j] = l.data1[j] /\ z.data2[j] = l.data2[j]
         /\ z.next = [l.next EXCEPT ![h] = -1]
  <1> DEFINE d1 == [l.data1 EXCEPT ![h] = -1]
             d2 == [l.data2 EXCEPT ![h] = -1]
             nx == [l.next EXCEPT ![h] = -1]
             y  == [l EXCEPT !.head = l.next[h], !.data1[h] = -1, !.data2[h] = -1,
                             !.next[h] = -1, !.length = @ - c]
  <1>1. PICK u : u = PopHeadKeeps(l)
    OBVIOUS
  <1>2. u = y
    BY <1>1 DEF PopHeadKeeps
  <1>3. /\ u.head = l.next[h] /\ u.length = l.length - c /\ u.lastInsertPos = l.lastInsertPos
        /\ u.data1 = d1 /\ u.data2 = d2 /\ u.next = nx
        /\ u = [head |-> u.head, length |-> u.length, lastInsertPos |-> u.lastInsertPos,
                data1 |-> u.data1, data2 |-> u.data2, next |-> u.next]
    BY ONLY <1>2, l \in SlType DEF SlType
  <1>4. /\ d1 \in [SlSlots -> Int] /\ d2 \in [SlSlots -> Int] /\ nx \in [SlSlots -> Int]
        /\ d1[h] = -1 /\ d2[h] = -1
        /\ \A j \in SlSlots : j # h => d1[j] = l.data1[j] /\ d2[j] = l.data2[j]
    BY SlParts
  <1> HIDE DEF d1, d2, nx, y
  <1>5. /\ l.length - c \in Int /\ l.next[h] \in Int /\ l.lastInsertPos \in Int
    BY SlParts
  <1>6. u \in SlType
    BY <1>3, <1>4, <1>5 DEF SlType
  <1>7. z = [u EXCEPT !.lastInsertPos = IF u.lastInsertPos = h THEN -1 ELSE u.lastInsertPos]
    BY <1>1 DEF PopHead
  <1>8. /\ z.head = u.head /\ z.length = u.length
        /\ z.lastInsertPos = (IF u.lastInsertPos = h THEN -1 ELSE u.lastInsertPos)
        /\ z.data1 = u.data1 /\ z.data2 = u.data2 /\ z.next = u.next
        /\ z = [head |-> z.head, length |-> z.length, lastInsertPos |-> z.lastInsertPos,
                data1 |-> z.data1, data2 |-> z.data2, next |-> z.next]
    BY ONLY <1>7, u \in SlType, <1>6 DEF SlType
  <1>9. z.lastInsertPos \in Int
    BY <1>3, <1>5, <1>8
  <1>10. z \in SlType
    BY <1>3, <1>4, <1>5, <1>8, <1>9 DEF SlType
  <1>11. QED
    BY <1>3, <1>4, <1>8, <1>10 DEF nx

(* PopHead takes the first node off.                                       *)
LEMMA PopRight ==
  ASSUME NEW o \in SlSlots, NEW H, NEW E, NEW l, Stands(l, H, E, o), NEW x \in H, IsLeast(H, x)
  PROVE  /\ Stands(PopHead(l), H \ {x}, E, o)
         /\ Covered(H, E) = Covered(H \ {x}, E) \cup x .. E[x]
         /\ Covered(H \ {x}, E) \cap x .. E[x] = {}
  <1> DEFINE h == Place(o, x)
             K == H \ {x}
  <1>1. /\ Fits(H, E) /\ Chart(l, H, E, o) /\ Disjoint(H, E) /\ l \in SlType
        /\ l.length = Cardinality(Covered(H, E))
        /\ l.lastInsertPos = -1 \/ \E a \in H : l.lastInsertPos = Place(o, a)
    BY DEF Stands, Chart
  <1>2. h \in SlSlots /\ h \in Int /\ h # -1 /\ l.head = h /\ o \in Int
    <2>1. o \in Int /\ h \in SlSlots /\ h # -1
      BY <1>1, ChartTells
    <2>2. l.head = h
      BY <1>1, LeadsTell
    <2>3. QED
      BY <2>1, <2>2, SlConstants DEF SlSlots
  <1>3. x \in Nat /\ E[x] \in Nat /\ x <= E[x] /\ E[x] - x < SlSize
    BY <1>1, FitsTell
  <1>4. PICK c : c = seqlen(FirstNo(l), EndOf(l, h))
    OBVIOUS
  <1>5. c = E[x] - x + 1 /\ c \in Int
    <2>1. FirstNo(l) = Wrap(x) /\ EndOf(l, h) = Wrap(E[x])
      BY <1>1, <1>2, ChartTells DEF FirstNo
    <2>2. E[x] - x <= MaxSeqNo
      BY <1>3, SlConstants, SeqNoAssumption
    <2>3. QED
      BY <1>3, <1>4, <2>1, <2>2, SeqLenAgrees
  <1>6. PICK z : z = PopHead(l)
    OBVIOUS
  <1> HIDE DEF h
  <1>7. /\ z \in SlType /\ z.head = l.next[h] /\ z.length = l.length - c
        /\ z.lastInsertPos = IF l.lastInsertPos = h THEN -1 ELSE l.lastInsertPos
        /\ z.data1[h] = -1 /\ z.data2[h] = -1
        /\ \A j \in SlSlots : j # h => z.data1[j] = l.data1[j] /\ z.data2[j] = l.data2[j]
        /\ z.next = [l.next EXCEPT ![h] = -1]
    <2>1. l \in SlType /\ h \in SlSlots /\ l.head = h /\ h \in Int /\ c \in Int
      BY <1>1, <1>2, <1>5
    <2>2. QED
      BY ONLY <1>4, <1>6, <2>1, PopForm
  <1>8. Fits(K, E)
    BY <1>1, FitsPart
  <1>9. Disjoint(K, E)
    BY <1>1 DEF Disjoint
  <1>10. Leads(z, K, o)
    <2>1. z.head = l.next[Place(o, x)] /\ z.next = [l.next EXCEPT ![Place(o, x)] = -1]
      BY <1>7 DEF h
    <2>2. QED
      BY <1>1, <2>1, LeadsPop
  <1>11. /\ \A a \in K : Place(o, a) \in SlSlots /\ Place(o, a) # h
         /\ \A a \in H : Place(o, a) = h => a = x
    BY <1>1, ChartTells DEF h
  <1>12. Chart(z, K, E, o)
    <2>1. ASSUME NEW a \in K
          PROVE  /\ z.data1[Place(o, a)] = Wrap(a)
                 /\ z.data2[Place(o, a)] = IF E[a] = a THEN -1 ELSE Wrap(E[a])
      <3>1. /\ l.data1[Place(o, a)] = Wrap(a)
            /\ l.data2[Place(o, a)] = IF E[a] = a THEN -1 ELSE Wrap(E[a])
        BY <1>1, <2>1 DEF Chart
      <3>2. QED
        BY <1>7, <1>11, <3>1
    <2>2. ASSUME NEW j \in SlSlots, \A a \in K : j # Place(o, a)
          PROVE  z.data1[j] = -1 /\ z.data2[j] = -1
      <3>1. CASE j = h
        BY <1>7, <3>1
      <3>2. CASE j # h
        <4>1. \A a \in H : j # Place(o, a)
          BY <2>2, <3>2 DEF h
        <4>2. l.data1[j] = -1 /\ l.data2[j] = -1
          BY <1>1, <4>1 DEF Chart
        <4>3. QED
          BY <1>7, <3>2, <4>2
      <3>3. QED
        BY <3>1, <3>2
    <2>3. QED
      BY <1>7, <1>10, <2>1, <2>2 DEF Chart
  <1>13. \A b \in H : b # x => E[b] < x \/ E[x] < b
    <2>1. \A b \in H : b # x => x < b
      BY <1>1, <1>3, FitsTell DEF IsLeast
    <2>2. QED
      BY <1>1, <2>1 DEF Disjoint
  <1>14. /\ Covered(H, E) = Covered(K, E) \cup x .. E[x]
         /\ Covered(K, E) \cap x .. E[x] = {}
         /\ Cardinality(Covered(H, E)) = Cardinality(Covered(K, E)) + (E[x] - x + 1)
    BY <1>1, <1>13, CountNode
  <1>15. z.length = Cardinality(Covered(K, E))
    <2>1. Cardinality(Covered(K, E)) \in Int
      BY <1>8, FitsTell
    <2>2. QED
      BY <1>1, <1>3, <1>5, <1>7, <1>14, <2>1
  <1>16. z.lastInsertPos = -1 \/ \E a \in K : z.lastInsertPos = Place(o, a)
    BY <1>1, <1>7, <1>11 DEF h
  <1>17. QED
    BY <1>6, <1>8, <1>9, <1>12, <1>14, <1>15, <1>16 DEF Stands

(* The nodes that start at t or later; and the node a loop of pops is to   *)
(* stop at, the first one of these, or none.                               *)
StartsFrom(H, t) == {a \in H : a >= t}
StopsAt(H, o, t, i) == \/ t \in H /\ i = Place(o, t)
                       \/ i = -1 /\ \A a \in H : a < t

(* The nodes from q on, q beyond p, are left.                               *)
Popped(l, H, E, o, p, q) ==
  q \in Nat /\ p < q /\ Stands(l, StartsFrom(H, q), E, o) /\ \E c \in H : c < q

(* One round of that loop.                                                 *)
LEMMA PopBeforeRight ==
  ASSUME NEW o \in SlSlots, NEW H, NEW E, Fits(H, E), NEW p \in Nat, NEW t \in Nat, p <= t,
         NEW l, Stands(l, StartsFrom(H, p), E, o), NEW i, StopsAt(H, o, t, i)
  PROVE  \/ StartsFrom(H, p) = StartsFrom(H, t) /\ PopBefore(l, i) = l
         \/ \E q \in 0 .. t : Popped(PopBefore(l, i), H, E, o, p, q)
  <1> DEFINE K == StartsFrom(H, p)
  <1>1. \A a \in H : a \in Nat /\ a \in Int
    BY FitsTell
  <1>2. Stands(l, K, E, o) /\ Fits(K, E) /\ Chart(l, K, E, o) /\ o \in Int
    <2>1. Stands(l, K, E, o) /\ Fits(K, E) /\ Chart(l, K, E, o)
      BY DEF Stands
    <2>2. QED
      BY <2>1, SlConstants DEF SlSlots
  <1>3. \A a \in K : a \in H /\ a >= p
    BY DEF StartsFrom
  <1>4. \A a \in StartsFrom(H, t) : a \in K /\ a >= t
    BY <1>1 DEF StartsFrom
  <1>5. t \in H => t \in K
    BY DEF StartsFrom
  <1> HIDE DEF K
  <1>6. CASE K = {}
    <2>1. l.head = -1
      BY <1>2, <1>6 DEF Chart, Leads
    <2>2. i = -1
      BY <1>5, <1>6 DEF StopsAt
    <2>3. StartsFrom(H, t) = K
      BY <1>4, <1>6
    <2>4. QED
      BY <2>1, <2>2, <2>3 DEF PopBefore, K
  <1>7. ASSUME NEW x \in K, IsLeast(K, x)
        PROVE  \/ K = StartsFrom(H, t) /\ PopBefore(l, i) = l
               \/ \E q \in 0 .. t : Popped(PopBefore(l, i), H, E, o, p, q)
    <2>1. l.head = Place(o, x) /\ x \in H /\ x >= p /\ x \in Nat /\ l.head # -1
      BY <1>1, <1>2, <1>3, <1>7, LeadsTell, ChartTells
    <2>2. CASE l.head = i
      <3>1. t \in K /\ Place(o, t) = Place(o, x)
        BY <1>5, <2>1, <2>2 DEF StopsAt
      <3>2. t = x
        BY <1>2, <1>7, <3>1, ChartTells
      <3>3. \A a \in K : a >= t
        BY <1>1, <1>3, <1>7, <3>2 DEF IsLeast
      <3>4. StartsFrom(H, t) = K
        BY <1>3, <1>4, <3>3 DEF StartsFrom
      <3>5. QED
        BY <2>2, <3>4 DEF PopBefore
    <2>3. CASE l.head # i
      <3>1. x < t
        <4>1. CASE t \in H /\ i = Place(o, t)
          <5>1. x <= t
            BY <1>5, <1>7, <4>1 DEF IsLeast
          <5>2. x # t
            BY <2>1, <2>3, <4>1
          <5>3. QED
            BY <2>1, <5>1, <5>2
        <4>2. QED
          BY <2>1, <4>1 DEF StopsAt
      <3>2. Stands(PopHead(l), K \ {x}, E, o)
        BY <1>2, <1>7, PopRight
      <3>3. StartsFrom(H, x + 1) = K \ {x}
        <4>1. \A a \in H : a >= x + 1 => a \in K /\ a # x
          BY <1>1, <2>1 DEF StartsFrom, K
        <4>2. \A a \in K \ {x} : a >= x + 1
          BY <1>1, <1>3, <1>7, <2>1 DEF IsLeast
        <4>3. QED
          BY <1>3, <4>1, <4>2 DEF StartsFrom
      <3>4. PopBefore(l, i) = PopHead(l)
        BY <2>3 DEF PopBefore
      <3>5. x + 1 \in 0 .. t /\ x + 1 \in Nat /\ p < x + 1 /\ x < x + 1
        BY <2>1, <3>1
      <3>6. Popped(PopBefore(l, i), H, E, o, p, x + 1)
        BY <2>1, <3>2, <3>3, <3>4, <3>5 DEF Popped
      <3>7. QED
        BY <3>5, <3>6
    <2>4. QED
      BY <2>2, <2>3
  <1>8. CASE K # {}
    <2>1. PICK x \in K : IsLeast(K, x)
      BY <1>2, <1>8, FitsTell DEF Chained
    <2>2. QED
      BY <1>7, <2>1 DEF K
  <1>9. QED
    BY <1>6, <1>8

(* The loop leaves the nodes from t on.                                    *)
LEMMA PopToRight ==
  ASSUME NEW o \in SlSlots, NEW H, NEW E, NEW l, Stands(l, H, E, o), NEW t \in Nat,
         NEW i, StopsAt(H, o, t, i)
  PROVE  Stands(PopTo(l, i), StartsFrom(H, t), E, o)
  <1>1. Fits(H, E) /\ \A a \in H : a \in Nat /\ a \in Int
    BY FitsTell DEF Stands
  <1>2. PICK m : /\ m[0] = l /\ PopTo(l, i) = m[SlSize]
                 /\ \A k \in 1 .. SlSize : m[k] = PopBefore(m[k - 1], i)
    BY PopToTells
  <1> DEFINE Good(k, p) == /\ Stands(m[k], StartsFrom(H, p), E, o)
                           /\ \/ StartsFrom(H, p) = StartsFrom(H, t)
                              \/ k = 0
                              \/ \E c \in H : p - c >= k
             T == {k \in 0 .. SlSize : ~ \E p \in 0 .. t : Good(k, p)}
  <1>3. T = {}
    <2>1. SUFFICES ASSUME T # {} PROVE FALSE
      OBVIOUS
    <2>2. PICK j \in T : \A y \in T : j <= y
      <3>1. T \subseteq Nat
        BY SlConstants
      <3>2. QED
        BY <2>1, <3>1, LeastNumber
    <2>3. j # 0
      <3>1. StartsFrom(H, 0) = H /\ 0 \in 0 .. t
        BY <1>1 DEF StartsFrom
      <3>2. Good(0, 0)
        BY <1>2, <3>1
      <3>3. QED
        BY <3>1, <3>2
    <2>4. j - 1 \in 0 .. SlSize /\ j \in 1 .. SlSize /\ j - 1 \notin T
      BY <2>2, <2>3, SlConstants
    <2>5. PICK p \in 0 .. t : Good(j - 1, p)
      BY <2>4
    <2>6. m[j] = PopBefore(m[j - 1], i)
      BY <1>2, <2>4
    <2>7. \/ StartsFrom(H, p) = StartsFrom(H, t) /\ PopBefore(m[j - 1], i) = m[j - 1]
          \/ \E q \in 0 .. t : Popped(PopBefore(m[j - 1], i), H, E, o, p, q)
      <3>1. p \in Nat /\ p <= t /\ Stands(m[j - 1], StartsFrom(H, p), E, o)
        BY <2>5
      <3>2. QED
        BY <1>1, <3>1, PopBeforeRight
    <2>8. CASE StartsFrom(H, p) = StartsFrom(H, t) /\ PopBefore(m[j - 1], i) = m[j - 1]
      <3>1. Good(j, p)
        BY <2>5, <2>6, <2>8
      <3>2. QED
        BY <2>2, <3>1
    <2>9. ASSUME NEW q \in 0 .. t, Popped(PopBefore(m[j - 1], i), H, E, o, p, q) PROVE FALSE
      <3>1. /\ q \in Nat /\ p < q /\ Stands(m[j], StartsFrom(H, q), E, o) /\ \E c \in H : c < q
        BY <2>6, <2>9 DEF Popped
      <3>2. CASE StartsFrom(H, p) = StartsFrom(H, t)
        <4>1. StartsFrom(H, q) = StartsFrom(H, t)
          BY <1>1, <3>1, <3>2 DEF StartsFrom
        <4>2. Good(j, q)
          BY <3>1, <4>1
        <4>3. QED
          BY <2>2, <4>2
      <3>3. CASE j - 1 = 0
        <4>1. \E c \in H : q - c >= j
          BY <1>1, <2>4, <3>1, <3>3
        <4>2. Good(j, q)
          BY <3>1, <4>1
        <4>3. QED
          BY <2>2, <4>2
      <3>4. CASE \E c \in H : p - c >= j - 1
        <4>1. \E c \in H : q - c >= j
          BY <1>1, <2>4, <2>5, <3>1, <3>4
        <4>2. Good(j, q)
          BY <3>1, <4>1
        <4>3. QED
          BY <2>2, <4>2
      <3>5. QED
        BY <2>5, <3>2, <3>3, <3>4
    <2>10. QED
      BY <2>7, <2>8, <2>9
  <1>4. PICK p \in 0 .. t : Good(SlSize, p)
    BY <1>3, SlConstants
  <1>5. StartsFrom(H, p) = StartsFrom(H, t)
    <2>1. CASE \E c \in H : p - c >= SlSize
      <3>1. \A a, c \in H : a - c < SlSize
        BY <1>1, FitsTell
      <3>2. \A a \in H : a < p
        BY <1>1, <2>1, <3>1, SlConstants
      <3>3. QED
        BY <1>1, <3>2 DEF StartsFrom
    <2>2. QED
      BY <1>4, <2>1, SlConstants
  <1>6. QED
    BY <1>2, <1>4, <1>5

(* The numbers beyond s.                                                   *)
Over(C, s) == {n \in C : n > s}

(* The nodes from t on have them, if none of the others reaches beyond s.   *)
LEMMA CoveredBeyond ==
  ASSUME NEW H, NEW E, Fits(H, E), NEW t \in Nat, NEW s \in Nat,
         \A a \in H : (a < t /\ E[a] <= s) \/ (a >= t /\ s < a)
  PROVE  Covered(StartsFrom(H, t), E) = Over(Covered(H, E), s)
  <1>1. \A a \in H : a \in Nat /\ E[a] \in Nat
    BY FitsTell
  <1>2. ASSUME NEW k \in Nat
        PROVE  (\E a \in StartsFrom(H, t) : a <= k /\ k <= E[a])
                  <=> k > s /\ \E a \in H : a <= k /\ k <= E[a]
    <2>1. ASSUME NEW a \in StartsFrom(H, t), a <= k PROVE k > s /\ a \in H
      BY <1>1, <2>1 DEF StartsFrom
    <2>2. ASSUME NEW a \in H, k <= E[a], k > s PROVE a \in StartsFrom(H, t)
      <3>1. ~(E[a] <= s)
        BY <1>1, <2>2
      <3>2. QED
        BY <3>1 DEF StartsFrom
    <2>3. QED
      BY <2>1, <2>2
  <1>3. QED
    BY <1>2 DEF Covered, Over

(* remove, once it has found the last node that starts at or below s.       *)
RemoveAt(l, i, n, s) ==
  IF l.data2[i] = -1 THEN PopTo(l, l.next[i])
  ELSE IF Greater(l.data2[i], s) THEN PopTo(SplitAt(l, i, n, s), n)
  ELSE PopTo(l, l.next[i])

LEMMA RemoveAtRight ==
  ASSUME NEW o \in SlSlots, NEW H, NEW E, NEW l, Stands(l, H, E, o), NEW s \in Nat,
         Beside(H, E, s, s), NEW q \in H, q <= s, \A a \in H : a <= q \/ s < a
  PROVE  Holds(RemoveAt(l, Place(o, q), Place(o, s + 1), Wrap(s)), Over(Covered(H, E), s), o)
  <1> DEFINE j == Place(o, q)
             z == RemoveAt(l, j, Place(o, s + 1), Wrap(s))
  <1>1. Fits(H, E) /\ Chart(l, H, E, o) /\ Disjoint(H, E)
    BY DEF Stands
  <1>2. \A a \in H : a \in Nat /\ a \in Int /\ E[a] \in Nat /\ E[a] \in Int /\ a <= E[a]
    BY <1>1, FitsTell
  <1>3. /\ l.data2[j] = -1 <=> E[q] = q
        /\ l.data2[j] # -1 => l.data2[j] = Wrap(E[q])
    BY <1>1, ChartTells
  <1>4. Greater(Wrap(E[q]), Wrap(s)) <=> E[q] > s
    <2>1. E[q] - s < SeqNoTH /\ s - E[q] < SeqNoTH
      BY <1>1, s \in Int, RangeIs
    <2>2. QED
      BY <1>2, <2>1, s \in Int, GreaterIs
  <1>5. s + 1 \in Nat
    OBVIOUS
  <1>6. CASE E[q] <= s
    <2>1. z = PopTo(l, l.next[j])
      BY <1>2, <1>3, <1>4, <1>6 DEF RemoveAt
    <2>2. PICK t \in Nat : /\ StopsAt(H, o, t, l.next[j])
                           /\ \A a \in H : IF a <= q THEN a < t ELSE a >= t
      <3>1. CASE IsGreatest(H, q)
        <4>1. l.next[j] = -1
          BY <1>1, <3>1, LeadsTell
        <4>2. \A a \in H : a <= q /\ a < s + 1
          BY <1>2, <3>1 DEF IsGreatest
        <4>3. StopsAt(H, o, s + 1, l.next[j])
          BY <4>1, <4>2 DEF StopsAt
        <4>4. QED
          BY <1>5, <4>2, <4>3
      <3>2. ASSUME NEW c \in H, Follows(H, q, c)
            PROVE  StopsAt(H, o, c, l.next[j]) /\ \A a \in H : IF a <= q THEN a < c ELSE a >= c
        <4>1. l.next[j] = Place(o, c)
          BY <1>1, <3>2, LeadsTell
        <4>2. StopsAt(H, o, c, l.next[j])
          BY <4>1 DEF StopsAt
        <4>3. QED
          BY <1>2, <3>2, <4>2 DEF Follows
      <3>3. QED
        BY <1>1, <1>2, <3>1, <3>2, LeadsTell
    <2>3. Stands(PopTo(l, l.next[j]), StartsFrom(H, t), E, o)
      BY <2>2, PopToRight
    <2>4. ASSUME NEW a \in H PROVE (a < t /\ E[a] <= s) \/ (a >= t /\ s < a)
      <3>1. CASE a = q
        BY <1>6, <2>2, <3>1
      <3>2. CASE a < q
        <4>1. E[a] < q
          BY <1>1, <3>2 DEF Disjoint
        <4>2. QED
          BY <1>2, <2>2, <3>2, <4>1
      <3>3. CASE ~(a <= q)
        BY <2>2, <3>3
      <3>4. QED
        BY <1>2, <3>1, <3>2, <3>3
    <2>5. Covered(StartsFrom(H, t), E) = Over(Covered(H, E), s)
      BY <1>1, <2>4, CoveredBeyond
    <2>6. QED
      BY <2>1, <2>3, <2>5 DEF Holds
  <1>7. CASE ~(E[q] <= s)
    <2> DEFINE n == Place(o, s + 1)
               y == SplitAt(l, j, n, Wrap(s))
               K == H \cup {s + 1}
               F == SplitEnds(E, q, s)
    <2>1. z = PopTo(y, n)
      BY <1>2, <1>3, <1>4, <1>7 DEF RemoveAt
    <2>2. s < E[q]
      BY <1>2, <1>7
    <2>3. /\ Stands(y, K, F, o) /\ Covered(K, F) = Covered(H, E) /\ F[q] = s
          /\ \A a \in H : a # q => F[a] = E[a]
      <3>1. Stands(l, H, E, o) /\ o \in SlSlots /\ q \in H /\ s \in Nat /\ q <= s /\ s < E[q]
        BY <2>2
      <3>2. QED
        BY ONLY <3>1, SplitRight
    <2>4. StopsAt(K, o, s + 1, n)
      BY DEF StopsAt
    <2> HIDE DEF y, F, n
    <2>5. Stands(PopTo(y, n), StartsFrom(K, s + 1), F, o)
      BY <1>5, <2>3, <2>4, PopToRight
    <2>6. ASSUME NEW a \in K PROVE (a < s + 1 /\ F[a] <= s) \/ (a >= s + 1 /\ s < a)
      <3>1. CASE a = s + 1
        BY <3>1
      <3>2. CASE a = q
        BY <1>2, <2>3, <3>2
      <3>3. CASE a \in H /\ a < q
        <4>1. E[a] < q
          BY <1>1, <3>3 DEF Disjoint
        <4>2. QED
          BY <1>2, <2>3, <3>3, <4>1
      <3>4. CASE a \in H /\ s < a
        BY <1>2, <3>4
      <3>5. QED
        BY <1>2, <3>1, <3>2, <3>3, <3>4
    <2>7. Covered(StartsFrom(K, s + 1), F) = Over(Covered(K, F), s)
      <3>1. Fits(K, F)
        BY <2>3 DEF Stands
      <3>2. QED
        BY <1>5, <2>6, <3>1, CoveredBeyond
    <2>8. Covered(StartsFrom(K, s + 1), F) = Over(Covered(H, E), s)
      BY <2>3, <2>7
    <2>9. QED
      BY <2>1, <2>5, <2>8 DEF Holds
  <1>8. QED
    BY <1>6, <1>7

(* remove takes off every number up to s.                                  *)
LEMMA SndRemoveRight ==
  ASSUME NEW o \in SlSlots, NEW H, NEW E, NEW l, Stands(l, H, E, o), NEW s \in Nat,
         Beside(H, E, s, s)
  PROVE  Holds(sndRemove(l, Wrap(s)), Over(Covered(H, E), s), o)
  <1>1. Fits(H, E) /\ Chart(l, H, E, o) /\ o \in Int
    <2>1. Fits(H, E) /\ Chart(l, H, E, o)
      BY DEF Stands
    <2>2. QED
      BY <2>1, ChartTells
  <1>2. /\ \A a \in H : s - a < SeqNoTH /\ a - s < SeqNoTH /\ s - a < SlSize /\ a - s < SlSize
        /\ s \in Int
    BY <1>1, s \in Int, RangeIs
  <1>3. \A a \in H : a \in Nat /\ a \in Int /\ E[a] \in Nat /\ a <= E[a]
    BY <1>1, FitsTell
  <1>4. CASE Over(Covered(H, E), s) = Covered(H, E) /\ sndRemove(l, Wrap(s)) = l
    BY <1>4 DEF Holds
  <1>5. CASE l.length = 0
    <2>1. \A a \in H : FALSE
      BY <1>5, EmptyIs
    <2>2. Over(Covered(H, E), s) = Covered(H, E)
      BY <2>1 DEF Over, Covered
    <2>3. sndRemove(l, Wrap(s)) = l
      BY <1>5 DEF sndRemove
    <2>4. QED
      BY <1>4, <2>2, <2>3
  <1>6. CASE l.length # 0
    <2> DEFINE loc == Place(o, s)
    <2>1. H # {}
      BY <1>6, EmptyIs
    <2>2. PICK m \in H : /\ IsLeast(H, m) /\ l.head = Place(o, m)
                         /\ seqoff(FirstNo(l), Wrap(s)) = s - m
                         /\ SlotOf(l, Wrap(s)) = loc
      BY <1>1, <1>2, <2>1, FirstTells
    <2>3. CASE s < m
      <3>1. \A a \in H : s < a
        BY <1>2, <1>3, <2>2, <2>3 DEF IsLeast
      <3>2. \A k \in Covered(H, E) : k > s
        BY <1>2, <1>3, <3>1 DEF Covered
      <3>3. Over(Covered(H, E), s) = Covered(H, E)
        BY <3>2 DEF Over
      <3>4. s - m < 0
        BY <1>2, <1>3, <2>3
      <3>5. sndRemove(l, Wrap(s)) = l
        BY <2>2, <3>4 DEF sndRemove
      <3>6. QED
        BY <1>4, <3>3, <3>5
    <2>4. CASE ~(s < m)
      <3>1. (loc + 1) % SlSize = Place(o, s + 1)
        BY <1>1, <1>2, 1 \in Int, PlaceShift
      <3>2. PICK i : i = IF l.data1[loc] = Wrap(s) THEN loc ELSE Walk(l, l.head, Wrap(s))
        OBVIOUS
      <3>3. sndRemove(l, Wrap(s)) = RemoveAt(l, i, Place(o, s + 1), Wrap(s))
        <4>1. ~(s - m < 0)
          BY <1>2, <1>3, <2>4
        <4>2. QED
          BY <1>6, <2>2, <3>1, <3>2, <4>1 DEF sndRemove, RemoveAt
      <3>4. loc \in SlSlots
        BY <1>1, <1>2, PlaceSlot
      <3>5. s \in H <=> l.data1[loc] = Wrap(s)
        <4>1. s \in H => l.data1[loc] = Wrap(s)
          BY <1>1, ChartTells
        <4>2. ASSUME l.data1[loc] = Wrap(s) PROVE s \in H
          <5>1. l.data1[loc] # -1
            BY <1>2, <4>2, Steps
          <5>2. PICK a \in H : Place(o, a) = Place(o, s)
            BY <1>1, <3>4, <5>1 DEF Chart
          <5>3. a = s
            BY <1>1, <1>2, <1>3, <5>2, PlaceApart
          <5>4. QED
            BY <5>3
        <4>3. QED
          BY <4>1, <4>2
      <3>6. PICK q \in H : i = Place(o, q) /\ q <= s /\ \A a \in H : a <= q \/ s < a
        <4>1. CASE s \in H
          <5>1. \A a \in H : a <= s \/ s < a
            BY <1>2, <1>3
          <5>2. i = Place(o, s) /\ s <= s
            BY <1>2, <3>2, <3>5, <4>1
          <5>3. QED
            BY <4>1, <5>1, <5>2
        <4>2. CASE s \notin H
          <5>1. m < s /\ i = Walk(l, Place(o, m), Wrap(s))
            BY <1>2, <1>3, <2>2, <2>4, <3>2, <3>5, <4>2
          <5>2. PICK q \in H : /\ Walk(l, Place(o, m), Wrap(s)) = Place(o, q) /\ q < s
                               /\ \A a \in H : a <= q \/ s <= a
            BY <1>1, <1>2, <5>1, WalkRight
          <5>3. q <= s /\ \A a \in H : a <= q \/ s < a
            BY <1>2, <1>3, <4>2, <5>2
          <5>4. QED
            BY <5>1, <5>2, <5>3
        <4>3. QED
          BY <4>1, <4>2
      <3>7. Holds(RemoveAt(l, Place(o, q), Place(o, s + 1), Wrap(s)), Over(Covered(H, E), s), o)
        BY <3>6, RemoveAtRight
      <3>8. QED
        BY <3>3, <3>6, <3>7
    <2>5. QED
      BY <2>3, <2>4
  <1>7. QED
    BY <1>5, <1>6

(* PopHead, when the first node is one number.                              *)
LEMMA PopOne ==
  ASSUME NEW o \in SlSlots, NEW H, NEW E, NEW l, Stands(l, H, E, o), NEW x \in H,
         IsLeast(H, x), E[x] = x
  PROVE  Holds(PopHead(l), Without(Covered(H, E), x), o)
  <1>1. /\ Stands(PopHead(l), H \ {x}, E, o)
        /\ Covered(H, E) = Covered(H \ {x}, E) \cup x .. E[x]
        /\ Covered(H \ {x}, E) \cap x .. E[x] = {}
    BY PopRight
  <1>2. x \in Int
    <2>1. Fits(H, E)
      BY DEF Stands
    <2>2. QED
      BY <2>1, FitsTell
  <1>3. x .. E[x] = {x}
    BY <1>2
  <1>4. Covered(H \ {x}, E) = Without(Covered(H, E), x)
    BY <1>1, <1>3 DEF Without
  <1>5. QED
    BY <1>1, <1>4 DEF Holds

(* getLostSeq takes the least number.                                      *)
LEMMA TakeRight ==
  ASSUME NEW o \in SlSlots, NEW H, NEW E, NEW l, Stands(l, H, E, o), NEW x \in H, IsLeast(H, x)
  PROVE  /\ Holds(getLostSeq(l), Without(Covered(H, E), x), o)
         /\ FirstNo(l) = Wrap(x) /\ l.length # 0
         /\ x \in Covered(H, E) /\ \A k \in Covered(H, E) : x <= k
  <1>1. Fits(H, E) /\ Chart(l, H, E, o) /\ o \in Int
    <2>1. Fits(H, E) /\ Chart(l, H, E, o)
      BY DEF Stands
    <2>2. QED
      BY <2>1, ChartTells
  <1>2. \A a \in H : a \in Nat /\ a \in Int /\ E[a] \in Nat /\ E[a] \in Int /\ a <= E[a] /\ x <= a
    BY <1>1, FitsTell DEF IsLeast
  <1>3. l.head = Place(o, x) /\ FirstNo(l) = Wrap(x) /\ (l.data2[l.head] = -1 <=> E[x] = x)
    <2>1. l.head = Place(o, x)
      BY <1>1, LeadsTell
    <2>2. QED
      BY <1>1, <2>1, ChartTells DEF FirstNo
  <1>4. l.length # 0
    BY EmptyIs
  <1>5. x \in Covered(H, E) /\ \A k \in Covered(H, E) : x <= k
    BY <1>2 DEF Covered
  <1>6. CASE E[x] = x
    <2>1. getLostSeq(l) = PopHead(l)
      BY <1>3, <1>4, <1>6 DEF getLostSeq
    <2>2. Holds(PopHead(l), Without(Covered(H, E), x), o)
      BY <1>6, PopOne
    <2>3. QED
      BY <1>3, <1>4, <1>5, <2>1, <2>2
  <1>7. CASE E[x] # x
    <2> DEFINE n == Place(o, x + 1)
               y == SplitAt(l, Place(o, x), n, Wrap(x))
               K == H \cup {x + 1}
               F == SplitEnds(E, x, x)
    <2>1. getLostSeq(l) = PopHead(y)
      <3>1. (Place(o, x) + 1) % SlSize = n
        BY <1>1, <1>2, 1 \in Int, PlaceShift
      <3>2. QED
        BY <1>3, <1>4, <1>7, <3>1 DEF getLostSeq
    <2>2. /\ Stands(y, K, F, o) /\ Covered(K, F) = Covered(H, E) /\ F[x] = x
      <3>1. /\ Stands(l, H, E, o) /\ o \in SlSlots /\ x \in H /\ x \in Nat /\ x <= x
            /\ x < E[x]
        BY <1>2, <1>7
      <3>2. QED
        BY ONLY <3>1, SplitRight
    <2>3. IsLeast(K, x) /\ x \in K
      BY <1>2 DEF IsLeast
    <2> HIDE DEF y, F, n, K
    <2>4. Holds(PopHead(y), Without(Covered(K, F), x), o)
      BY <2>2, <2>3, PopOne
    <2>5. QED
      BY <1>3, <1>4, <1>5, <2>1, <2>2, <2>4
  <1>8. QED
    BY <1>6, <1>7

(* What an ACK has not reached fits in the list, and so does what the ACK    *)
(* that is being processed covers; the list stands for some of the numbers  *)
(* that are outstanding, which were all within its size as they came in.    *)
SlWindow ==
  /\ sndBase \in Nat /\ sndAck \in Int /\ sndTop \in Int /\ sndTaken \in Int
  /\ FirstSent <= sndBase /\ sndBase <= sndAck /\ sndAck <= sndTop + 1
  /\ sndAck - sndBase <= SlSize /\ sndTop - sndAck < SlSize
  /\ sndBase < sndAck => sndAck <= LastSent + 1

SlMissing(C, o) ==
  /\ C \subseteq sndBase .. sndTop /\ \A n \in C : n - sndBase < SlSize
  /\ Holds(sndList, C, o)

SlInv == SlWindow /\ \E C \in SUBSET (sndBase .. sndTop) : \E o \in SlSlots : SlMissing(C, o)

(* The numbers of the list, node by node.                                  *)
LEMMA SlTells ==
  ASSUME SlWindow, NEW C, NEW o \in SlSlots, SlMissing(C, o)
  PROVE  \E H, E : /\ Stands(sndList, H, E, o) /\ Covered(H, E) = C /\ Fits(H, E)
                   /\ \A a \in H : a \in C /\ E[a] \in C /\ a <= E[a]
  <1>1. PICK H, E : Stands(sndList, H, E, o) /\ Covered(H, E) = C
    BY DEF SlMissing, Holds
  <1>2. Fits(H, E)
    BY <1>1 DEF Stands
  <1>3. \A a \in H : a \in Nat /\ E[a] \in Nat /\ a <= E[a]
    BY <1>2, FitsTell
  <1>4. \A a \in H : a \in C /\ E[a] \in C
    <2>1. \A a \in H : a \in Covered(H, E) /\ E[a] \in Covered(H, E)
      BY <1>3 DEF Covered
    <2>2. QED
      BY <1>1, <2>1
  <1>5. QED
    BY <1>1, <1>2, <1>3, <1>4

(* What is within the list's size is near the list's numbers.               *)
LEMMA SlNear ==
  ASSUME SlWindow, NEW C, NEW o \in SlSlots, SlMissing(C, o)
  PROVE  /\ \A a \in C : /\ a \in Int /\ a \in Nat /\ sndBase <= a /\ a <= sndTop
                         /\ a - sndBase < SlSize /\ SlUnwrapped(Wrap(a)) = a
         /\ \A H, E : \A lo, hi \in sndBase .. sndBase + SlSize - 1 :
              lo <= hi /\ (\A a \in H : a \in C /\ E[a] \in C) => Beside(H, E, lo, hi)
  <1>1. sndBase \in Nat /\ sndTop \in Int
    BY DEF SlWindow
  <1>2. SlSize \in Nat /\ SlSize <= SeqNoTH
    BY SlConstants
  <1>3. ASSUME NEW a \in C
        PROVE  a \in Int /\ a \in Nat /\ sndBase <= a /\ a <= sndTop /\ a - sndBase < SlSize
    BY <1>1 DEF SlMissing
  <1>4. ASSUME NEW a \in C PROVE SlUnwrapped(Wrap(a)) = a
    <2>1. /\ sndBase \in Int /\ a \in Int
          /\ -SeqNoTH < a - sndBase /\ a - sndBase < SeqNoTH
      BY <1>1, <1>2, <1>3, SlConstants
    <2>2. seqoff(Wrap(sndBase), Wrap(a)) = a - sndBase
      BY <2>1, SeqOffAgrees
    <2>3. QED
      BY <2>1, <2>2 DEF SlUnwrapped
  <1>5. ASSUME NEW H, NEW E, NEW lo \in sndBase .. sndBase + SlSize - 1,
               NEW hi \in sndBase .. sndBase + SlSize - 1,
               lo <= hi, \A a \in H : a \in C /\ E[a] \in C
        PROVE  Beside(H, E, lo, hi)
    <2>1. lo \in Nat /\ hi \in Nat
      BY <1>1, <1>2
    <2>2. hi - lo < SlSize
      BY <1>1, <1>2
    <2>3. ASSUME NEW a \in H PROVE hi - a < SlSize /\ E[a] - lo < SlSize
      <3>1. a \in Int /\ sndBase <= a /\ E[a] \in Int /\ E[a] - sndBase < SlSize
        BY <1>3, <1>5
      <3>2. QED
        BY <1>1, <1>2, <2>1, <3>1
    <2>4. QED
      BY <1>5, <2>1, <2>2, <2>3 DEF Beside
  <1>6. QED
    BY <1>1, <1>2, <1>3, <1>4, <1>5

(* The empty list.                                                         *)
LEMMA SlStart ==
  ASSUME SlInit
  PROVE  SlInv
  <1>1. /\ sndList = [head |-> -1, length |-> 0, lastInsertPos |-> -1,
                      data1 |-> Cleared, data2 |-> Cleared, next |-> Cleared]
        /\ sndBase = FirstSent /\ sndAck = FirstSent /\ sndTop = FirstSent - 1 /\ sndTaken = -1
    BY DEF SlInit
  <1>2. SlWindow
    BY <1>1, SlConstants DEF SlWindow
  <1>3. PICK H, E : H = {} /\ E = [n \in Nat |-> 0]
    OBVIOUS
  <1>4. E \in [Nat -> Nat] /\ \A a \in H : FALSE
    BY <1>3
  <1>5. Fits(H, E)
    BY <1>4 DEF Fits
  <1>6. Disjoint(H, E)
    BY <1>4 DEF Disjoint
  <1>7. Covered(H, E) = {}
    BY <1>4 DEF Covered
  <1>8. Cleared \in [SlSlots -> Int] /\ \A i \in SlSlots : Cleared[i] = -1
    BY DEF Cleared
  <1>9. sndList \in SlType /\ sndList.head = -1 /\ sndList.length = 0
        /\ sndList.lastInsertPos = -1 /\ sndList.data1 = Cleared /\ sndList.data2 = Cleared
    BY <1>1, <1>8 DEF SlType
  <1>10. 0 \in SlSlots
    BY SlConstants DEF SlSlots
  <1>11. Leads(sndList, H, 0)
    BY <1>4, <1>9 DEF Leads
  <1>12. Chart(sndList, H, E, 0)
    BY <1>4, <1>8, <1>9, <1>11 DEF Chart
  <1>13. Cardinality(Covered(H, E)) = 0
    BY <1>7, FS_EmptySet
  <1>14. Stands(sndList, H, E, 0)
    BY <1>5, <1>6, <1>9, <1>12, <1>13 DEF Stands
  <1>15. Holds(sndList, {}, 0)
    BY <1>7, <1>14 DEF Holds
  <1>16. SlMissing({}, 0)
    BY <1>15 DEF SlMissing
  <1>17. QED
    BY <1>2, <1>10, <1>16 DEF SlInv

(* A new packet.                                                           *)
LEMMA SendStep ==
  ASSUME SlWindow, NEW C, NEW o \in SlSlots, SlMissing(C, o), SendNext
  PROVE  SlInv' /\ SlMissing(C, o)' /\ sndCall' = sndCall
  <1>1. /\ sndTop' = sndTop + 1 /\ sndTaken' = -1 /\ sndTop - sndAck + 2 <= FlowWindow
        /\ sndList' = sndList /\ sndBase' = sndBase /\ sndAck' = sndAck /\ sndCall' = sndCall
    BY DEF SendNext
  <1>2. SlWindow'
    <2>1. FlowWindow < SlSize /\ FlowWindow \in Nat /\ SlSize \in Nat
      BY SlConstants, SndLossListAssumption DEF SlSize
    <2>2. QED
      BY <1>1, <2>1 DEF SlWindow
  <1>3. C \subseteq sndBase' .. sndTop'
    BY <1>1 DEF SlMissing, SlWindow
  <1>4. SlMissing(C, o)'
    BY <1>1, <1>3 DEF SlMissing
  <1>5. QED
    BY <1>1, <1>2, <1>3, <1>4 DEF SlInv

(* A range is entered.                                                     *)
LEMMA InsertStep ==
  ASSUME SlWindow, NEW C, NEW o \in SlSlots, SlMissing(C, o), NEW lo \in Int, NEW hi \in Int,
         InsertLoss(lo, hi)
  PROVE  /\ SlInv' /\ \E x \in SlSlots : \E R : R = With(C, lo, hi) /\ SlMissing(R, x)'
         /\ sndList'.length - sndList.length = Cardinality((lo .. hi) \ C)
  <1>1. /\ sndBase <= lo /\ lo <= hi /\ hi <= sndTop
        /\ sndList' = sndInsert(sndList, Wrap(lo), Wrap(hi)) /\ sndAck = sndBase
        /\ sndBase' = sndBase /\ sndAck' = sndAck /\ sndTop' = sndTop /\ sndTaken' = sndTaken
    BY DEF InsertLoss
  <1>2. PICK H, E : /\ Stands(sndList, H, E, o) /\ Covered(H, E) = C /\ Fits(H, E)
                    /\ \A a \in H : a \in C /\ E[a] \in C /\ a <= E[a]
    BY SlTells
  <1>3. sndBase \in Nat /\ sndTop \in Int /\ SlSize \in Nat /\ sndTop - sndBase < SlSize
    BY <1>1, SlConstants DEF SlWindow
  <1>4. Beside(H, E, lo, hi)
    <2>1. lo \in sndBase .. sndBase + SlSize - 1 /\ hi \in sndBase .. sndBase + SlSize - 1
      BY <1>1, <1>3
    <2>2. \A a \in H : a \in C /\ E[a] \in C
      BY <1>2
    <2>3. QED
      BY <1>1, <2>1, <2>2, SlNear
  <1>5. PICK m : m = sndInsert(sndList, Wrap(lo), Wrap(hi))
    OBVIOUS
  <1>6. PICK x \in SlSlots : Holds(m, With(C, lo, hi), x)
    BY <1>2, <1>4, <1>5, SndInsertRight
  <1>7. PICK R : R = With(C, lo, hi)
    OBVIOUS
  <1>8. R \subseteq sndBase .. sndTop /\ \A n \in R : n - sndBase < SlSize
    BY <1>1, <1>3, <1>7 DEF With, SlMissing
  <1>9. SlMissing(R, x)'
    BY <1>1, <1>5, <1>6, <1>7, <1>8 DEF SlMissing
  <1>10. SlWindow'
    BY <1>1 DEF SlWindow
  <1>11. SlInv'
    BY <1>1, <1>8, <1>9, <1>10 DEF SlInv
  <1>12. m.length - sndList.length = Cardinality((lo .. hi) \ C)
    <2>1. PICK K, F : Stands(m, K, F, x) /\ Covered(K, F) = R
      BY <1>6, <1>7 DEF Holds
    <2>2. m.length = Cardinality(R) /\ sndList.length = Cardinality(C)
      BY <1>2, <2>1 DEF Stands
    <2>3. IsFiniteSet(C)
      BY <1>2, FitsTell
    <2>4. PICK D : D = (lo .. hi) \ C
      OBVIOUS
    <2>5. IsFiniteSet(D)
      <3>1. IsFiniteSet(lo .. hi) /\ D \subseteq lo .. hi
        BY <2>4, FS_Interval
      <3>2. QED
        BY <3>1, FS_Subset
    <2>6. R = C \cup D /\ C \cap D = {}
      BY <1>7, <2>4 DEF With
    <2>7. Cardinality(C \cup D) = Cardinality(C) + Cardinality(D) - Cardinality(C \cap D)
      BY <2>3, <2>5, FS_Union
    <2>8. Cardinality(C \cap D) = 0
      BY <2>6, FS_EmptySet
    <2>9. Cardinality(C) \in Nat /\ Cardinality(D) \in Nat
      BY <2>3, <2>5, FS_CardinalityType
    <2>10. Cardinality(R) = Cardinality(C) + Cardinality(D)
      BY <2>6, <2>7, <2>8, <2>9
    <2>11. QED
      BY <2>2, <2>4, <2>9, <2>10
  <1>13. QED
    BY <1>1, <1>5, <1>7, <1>9, <1>11, <1>12

(* An ACK moves m_iSndLastAck.                                              *)
LEMMA AckArrivesStep ==
  ASSUME SlWindow, NEW C, NEW o \in SlSlots, SlMissing(C, o),
         NEW ack \in FirstSent + 1 .. LastSent + 1, AckArrives(ack)
  PROVE  SlInv' /\ SlMissing(C, o)' /\ sndCall' = sndCall
  <1>1. /\ sndAck = sndBase /\ sndBase < ack /\ ack <= sndTop + 1 /\ sndAck' = ack
        /\ sndList' = sndList /\ sndBase' = sndBase /\ sndTop' = sndTop
        /\ sndTaken' = sndTaken /\ sndCall' = sndCall
    BY DEF AckArrives
  <1>2. SlWindow'
    BY <1>1, SlConstants DEF SlWindow
  <1>3. SlMissing(C, o)' /\ C \subseteq sndBase' .. sndTop'
    BY <1>1 DEF SlMissing
  <1>4. QED
    BY <1>1, <1>2, <1>3 DEF SlInv

(* What is not greater than s leaves the list, the rest of it stays near.    *)
LEMMA RemoveIs ==
  ASSUME SlWindow, NEW C, NEW o \in SlSlots, SlMissing(C, o),
         NEW s \in sndBase .. sndBase + SlSize - 1, NEW m, m = sndRemove(sndList, Wrap(s)),
         NEW R, R = Over(C, s)
  PROVE  /\ Holds(m, R, o)
         /\ \A n \in R : n \in Int /\ s < n /\ sndBase <= n /\ n <= sndTop /\ n - sndBase < SlSize
  <1>1. PICK H, E : /\ Stands(sndList, H, E, o) /\ Covered(H, E) = C /\ Fits(H, E)
                    /\ \A a \in H : a \in C /\ E[a] \in C /\ a <= E[a]
    BY SlTells
  <1>2. s \in Nat /\ s <= s
    BY SlConstants DEF SlWindow
  <1>3. Beside(H, E, s, s)
    <2>1. \A a \in H : a \in C /\ E[a] \in C
      BY <1>1
    <2>2. QED
      BY <1>2, <2>1, SlNear
  <1>4. Holds(m, R, o)
    BY <1>1, <1>2, <1>3, SndRemoveRight
  <1>5. \A n \in R : n \in C /\ s < n
    <2>1. \A n \in R : n \in C /\ n > s
      BY DEF Over
    <2>2. \A n \in C : n \in Int
      BY SlNear
    <2>3. QED
      BY <1>2, <2>1, <2>2
  <1>6. QED
    BY <1>4, <1>5, SlNear

(* An ACK removes what it covers.                                           *)
LEMMA AckDataStep ==
  ASSUME SlWindow, NEW C, NEW o \in SlSlots, SlMissing(C, o), ForgetAcked
  PROVE  SlInv' /\ \E R : R = Over(C, sndAck - 1) /\ SlMissing(R, o)'
  <1>1. /\ sndBase < sndAck /\ sndBase' = sndAck /\ sndAck' = sndAck /\ sndTop' = sndTop
        /\ sndTaken' = sndTaken /\ sndList' = sndRemove(sndList, decseq(Wrap(sndAck)))
    BY DEF ForgetAcked
  <1>2. /\ sndBase \in Nat /\ sndAck \in Int /\ sndTop \in Int /\ SlSize \in Nat
        /\ sndAck - sndBase <= SlSize /\ sndAck <= sndTop + 1 /\ sndTop - sndAck < SlSize
    BY SlConstants DEF SlWindow
  <1>3. PICK s : s = sndAck - 1
    OBVIOUS
  <1>4. decseq(Wrap(sndAck)) = Wrap(s)
    BY <1>2, <1>3, Steps
  <1>5. s \in sndBase .. sndBase + SlSize - 1
    BY <1>1, <1>2, <1>3
  <1>6. PICK m : m = sndRemove(sndList, Wrap(s))
    OBVIOUS
  <1>7. PICK R : R = Over(C, s)
    OBVIOUS
  <1>8. /\ Holds(m, R, o)
        /\ \A n \in R : n \in Int /\ s < n /\ sndBase <= n /\ n <= sndTop /\ n - sndBase < SlSize
    BY <1>5, <1>6, <1>7, RemoveIs
  <1>9. R \subseteq sndAck .. sndTop /\ \A n \in R : n - sndAck < SlSize
    BY <1>2, <1>3, <1>8
  <1>10. SlMissing(R, o)'
    BY <1>1, <1>4, <1>6, <1>8, <1>9 DEF SlMissing
  <1>11. SlWindow'
    BY <1>1, <1>2, SlConstants DEF SlWindow
  <1>12. SlInv'
    BY <1>1, <1>9, <1>10, <1>11 DEF SlInv
  <1>13. QED
    BY <1>3, <1>7, <1>10, <1>12

(* An expired message is removed and skipped, sent or not.                   *)
LEMMA DropMessageStep ==
  ASSUME SlWindow, NEW C, NEW o \in SlSlots, SlMissing(C, o), NEW last \in Int, DropMessage(last)
  PROVE  SlInv' /\ \E R : R = Over(C, last) /\ SlMissing(R, o)'
  <1>1. /\ sndBase <= sndTaken /\ sndTaken < last /\ last + 1 - sndBase < SlSize
        /\ sndBase' = sndBase /\ sndAck' = sndAck /\ sndTaken' = -1
        /\ sndTop' = IF sndTop < last + 1 THEN last + 1 ELSE sndTop
        /\ sndList' = sndRemove(sndList, Wrap(last))
    BY DEF DropMessage
  <1>2. /\ sndBase \in Nat /\ sndAck \in Int /\ sndTop \in Int /\ sndTaken \in Int
        /\ SlSize \in Nat /\ sndBase <= sndAck
    BY SlConstants DEF SlWindow
  <1>3. sndTop' \in Int /\ sndTop <= sndTop'
    BY <1>1, <1>2
  <1>4. last \in sndBase .. sndBase + SlSize - 1
    BY <1>1, <1>2
  <1>5. PICK m : m = sndRemove(sndList, Wrap(last))
    OBVIOUS
  <1>6. PICK R : R = Over(C, last)
    OBVIOUS
  <1>7. /\ Holds(m, R, o)
        /\ \A n \in R : n \in Int /\ last < n /\ sndBase <= n /\ n <= sndTop /\ n - sndBase < SlSize
    BY <1>4, <1>5, <1>6, RemoveIs
  <1>8. R \subseteq sndBase' .. sndTop' /\ \A n \in R : n - sndBase' < SlSize
    BY <1>1, <1>2, <1>3, <1>7
  <1>9. SlMissing(R, o)'
    BY <1>1, <1>5, <1>7, <1>8 DEF SlMissing
  <1>10. SlWindow'
    BY <1>1, <1>2, <1>3 DEF SlWindow
  <1>11. SlInv'
    BY <1>8, <1>9, <1>10 DEF SlInv
  <1>12. QED
    BY <1>6, <1>9, <1>11

(* The least number is taken, if there is one.                              *)
LEMMA TakeStep ==
  ASSUME SlWindow, NEW C, NEW o \in SlSlots, SlMissing(C, o), TakeLost
  PROVE  /\ SlInv'
         /\ \/ /\ C = {} /\ SlMissing(C, o)'
               /\ sndCall' = [op |-> "takeFirst", lo |-> 0, hi |-> 0, ret |-> -1]
            \/ \E x \in C : \E R :
                 /\ IsLeast(C, x) /\ R = Without(C, x) /\ SlMissing(R, o)'
                 /\ sndCall' = [op |-> "takeFirst", lo |-> 0, hi |-> 0, ret |-> x]
  <1>1. PICK H, E : /\ Stands(sndList, H, E, o) /\ Covered(H, E) = C /\ Fits(H, E)
                    /\ \A a \in H : a \in C /\ E[a] \in C /\ a <= E[a]
    BY SlTells
  <1>2. /\ sndList' = getLostSeq(sndList)
        /\ sndBase' = sndBase /\ sndAck' = sndAck /\ sndTop' = sndTop
        /\ sndTaken' = IF sndList.length = 0 THEN -1 ELSE SlUnwrapped(FirstNo(sndList))
        /\ sndCall' = [op |-> "takeFirst", lo |-> 0, hi |-> 0, ret |-> sndTaken']
    BY DEF TakeLost, SlCalled
  <1>3. C \subseteq sndBase .. sndTop /\ Holds(sndList, C, o) /\ \A n \in C : n - sndBase < SlSize
    BY DEF SlMissing
  <1>4. sndTaken' \in Int => SlWindow'
    BY <1>2 DEF SlWindow
  <1>5. CASE sndList.length = 0
    <2>1. \A a \in H : FALSE
      BY <1>1, <1>5, EmptyIs
    <2>2. C = {}
      BY <1>1, <2>1 DEF Covered
    <2>3. sndList' = sndList
      BY <1>2, <1>5 DEF getLostSeq
    <2>4. SlMissing(C, o)'
      BY <1>2, <1>3, <2>3 DEF SlMissing
    <2>5. SlInv'
      BY <1>2, <1>3, <1>4, <1>5, <2>4 DEF SlInv
    <2>6. QED
      BY <1>2, <1>5, <2>2, <2>4, <2>5
  <1>6. CASE sndList.length # 0
    <2>1. H # {}
      BY <1>1, <1>6, EmptyIs
    <2>2. PICK x \in H : IsLeast(H, x)
      BY <1>1, <2>1, FitsTell DEF Chained
    <2>3. PICK m : m = getLostSeq(sndList)
      OBVIOUS
    <2>4. PICK R : R = Without(C, x)
      OBVIOUS
    <2>5. /\ Holds(m, R, o) /\ FirstNo(sndList) = Wrap(x)
          /\ x \in C /\ \A k \in C : x <= k
      BY <1>1, <2>2, <2>3, <2>4, TakeRight
    <2>6. R \subseteq sndBase .. sndTop /\ \A n \in R : n - sndBase < SlSize
      BY <1>3, <2>4 DEF Without
    <2>7. SlMissing(R, o)'
      BY <1>2, <2>3, <2>5, <2>6 DEF SlMissing
    <2>8. SlUnwrapped(FirstNo(sndList)) = x /\ x \in Int
      BY <2>5, SlNear
    <2>9. SlInv'
      BY <1>2, <1>4, <1>6, <2>6, <2>7, <2>8 DEF SlInv
    <2>10. IsLeast(C, x)
      BY <2>5 DEF IsLeast
    <2>11. sndCall' = [op |-> "takeFirst", lo |-> 0, hi |-> 0, ret |-> x]
      BY <1>2, <1>6, <2>8
    <2>12. QED
      BY <2>4, <2>5, <2>7, <2>9, <2>10, <2>11
  <1>7. QED
    BY <1>5, <1>6

(* The list stands for a set of outstanding numbers in every state.         *)
LEMMA SlStep ==
  ASSUME SlInv, [SlNext]_slVars
  PROVE  SlInv'
  <1>1. SlWindow
    BY DEF SlInv
  <1>2. PICK C \in SUBSET (sndBase .. sndTop), o \in SlSlots : SlMissing(C, o)
    BY DEF SlInv
  <1>3. CASE SendNext
    BY <1>1, <1>2, <1>3, SendStep
  <1>4. CASE TakeLost
    BY <1>1, <1>2, <1>4, TakeStep
  <1>5. CASE \E ack \in FirstSent + 1 .. LastSent + 1 : AckArrives(ack)
    <2>1. PICK ack \in FirstSent + 1 .. LastSent + 1 : AckArrives(ack)
      BY <1>5
    <2>2. QED
      BY <1>1, <1>2, <2>1, AckArrivesStep
  <1>6. CASE \E lo, hi \in FirstSent .. LastSent : InsertLoss(lo, hi)
    <2>1. PICK lo \in FirstSent .. LastSent, hi \in FirstSent .. LastSent : InsertLoss(lo, hi)
      BY <1>6
    <2>2. lo \in Int /\ hi \in Int
      BY SlConstants
    <2>3. QED
      BY <1>1, <1>2, <2>1, <2>2, InsertStep
  <1>7. CASE ForgetAcked
    BY <1>1, <1>2, <1>7, AckDataStep
  <1>8. CASE \E last \in FirstSent + 1 .. LastSent - 1 : DropMessage(last)
    <2>1. PICK last \in FirstSent + 1 .. LastSent - 1 : DropMessage(last)
      BY <1>8
    <2>2. last \in Int
      BY SlConstants
    <2>3. QED
      BY <1>1, <1>2, <2>1, <2>2, DropMessageStep
  <1>9. CASE UNCHANGED slVars
    BY <1>9 DEF slVars, SlInv, SlWindow, SlMissing
  <1>10. QED
    BY <1>3, <1>4, <1>5, <1>6, <1>7, <1>8, <1>9 DEF SlNext

(* However NAKs, ACKs, EXP and packData, which also skips expired messages,  *)
(* follow one another, the arrays stand for a set of outstanding numbers.    *)
THEOREM SlInvariance == SlSpec => []SlInv
  <1>1. SlInit => SlInv
    BY SlStart
  <1>2. SlInv /\ [SlNext]_slVars => SlInv'
    BY SlStep
  <1>3. QED
    BY <1>1, <1>2, PTL DEF SlSpec

(* The slot insert and remove work out for a node's number is the node's.    *)
LEMMA SlotIs ==
  ASSUME NEW o \in SlSlots, NEW H, NEW E, NEW l, Fits(H, E), Chart(l, H, E, o), NEW a \in H
  PROVE  SlotOf(l, Wrap(a)) = Place(o, a)
  <1>1. PICK s \in Int : s = a
    BY FitsTell
  <1>2. H # {} /\ \A b \in H : s - b < SeqNoTH /\ b - s < SeqNoTH
    BY <1>1, FitsTell, SlConstants
  <1>3. PICK m \in H : /\ IsLeast(H, m) /\ l.head = Place(o, m) /\ FirstNo(l) = Wrap(m)
                       /\ seqoff(FirstNo(l), Wrap(s)) = s - m
                       /\ SlotOf(l, Wrap(s)) = Place(o, s)
    BY <1>2, FirstTells
  <1>4. QED
    BY <1>1, <1>3

(* A node of the chart is the node of its slot, and there are no others.     *)
LEMMA SlNodesAre ==
  ASSUME SlWindow, NEW C, NEW o \in SlSlots, SlMissing(C, o),
         NEW H, NEW E, Stands(sndList, H, E, o), Covered(H, E) = C
  PROVE  /\ \A a \in H : /\ Place(o, a) \in SlNodes /\ SlLo(Place(o, a)) = a
                         /\ SlHi(Place(o, a)) = E[a]
         /\ \A i \in SlNodes : \E a \in H : i = Place(o, a)
  <1>1. Fits(H, E) /\ Chart(sndList, H, E, o)
    BY DEF Stands
  <1>2. \A a \in H : a \in C /\ E[a] \in C
    <2>1. \A a \in H : a \in Covered(H, E) /\ E[a] \in Covered(H, E)
      <3>1. \A a \in H : a \in Nat /\ E[a] \in Nat /\ a <= E[a]
        BY <1>1, FitsTell
      <3>2. QED
        BY <3>1 DEF Covered
    <2>2. QED
      BY <2>1
  <1>3. \A a \in C : SlUnwrapped(Wrap(a)) = a
    BY SlNear
  <1>4. ASSUME NEW a \in H
        PROVE  /\ Place(o, a) \in SlNodes /\ SlLo(Place(o, a)) = a
               /\ SlHi(Place(o, a)) = E[a]
    <2>1. /\ Place(o, a) \in SlSlots /\ sndList.data1[Place(o, a)] = Wrap(a)
          /\ sndList.data1[Place(o, a)] # -1 /\ EndOf(sndList, Place(o, a)) = Wrap(E[a])
      BY <1>1, ChartTells
    <2>2. QED
      BY <1>2, <1>3, <2>1 DEF SlNodes, SlLo, SlHi
  <1>5. ASSUME NEW i \in SlNodes PROVE \E a \in H : i = Place(o, a)
    BY <1>1, ChartTells DEF SlNodes
  <1>6. QED
    BY <1>4, <1>5

(* The numbers of the list are those of the set.                            *)
LEMMA SlLostIs ==
  ASSUME SlWindow, NEW C, NEW o \in SlSlots, SlMissing(C, o)
  PROVE  SlLost = C
  <1>1. PICK H, E : Stands(sndList, H, E, o) /\ Covered(H, E) = C
    BY DEF SlMissing, Holds
  <1>2. \A a \in H : a \in Nat /\ a \in Int /\ E[a] \in Int
    BY <1>1, FitsTell DEF Stands
  <1>3. /\ \A a \in H : /\ Place(o, a) \in SlNodes /\ SlLo(Place(o, a)) = a
                        /\ SlHi(Place(o, a)) = E[a]
        /\ \A i \in SlNodes : \E a \in H : i = Place(o, a)
    BY <1>1, SlNodesAre
  <1>4. ASSUME NEW s \in C PROVE s \in SlLost
    <2>1. PICK a \in H : s \in Nat /\ a <= s /\ s <= E[a]
      BY <1>1 DEF Covered
    <2>2. s \in SlLo(Place(o, a)) .. SlHi(Place(o, a))
      BY <1>2, <1>3, <2>1
    <2>3. QED
      BY <1>3, <2>2 DEF SlLost
  <1>5. ASSUME NEW s \in SlLost PROVE s \in C
    <2>1. PICK i \in SlNodes : s \in SlLo(i) .. SlHi(i)
      BY DEF SlLost
    <2>2. PICK a \in H : i = Place(o, a)
      BY <1>3
    <2>3. s \in a .. E[a]
      BY <1>3, <2>1, <2>2
    <2>4. s \in Nat /\ a <= s /\ s <= E[a]
      BY <1>2, <2>3
    <2>5. QED
      BY <1>1, <2>4 DEF Covered
  <1>6. QED
    BY <1>4, <1>5

(* The list has its shape.                                                 *)
LEMMA SndShapeHolds ==
  ASSUME SlInv
  PROVE  SndListShape
  <1>1. SlWindow
    BY DEF SlInv
  <1>2. PICK C \in SUBSET (sndBase .. sndTop), o \in SlSlots : SlMissing(C, o)
    BY DEF SlInv
  <1>3. PICK H, E : Stands(sndList, H, E, o) /\ Covered(H, E) = C
    BY <1>2 DEF SlMissing, Holds
  <1> DEFINE L == sndList
  <1>4. /\ Fits(H, E) /\ Chart(L, H, E, o) /\ Disjoint(H, E) /\ L.length = Cardinality(C)
        /\ L.lastInsertPos = -1 \/ \E a \in H : L.lastInsertPos = Place(o, a)
    BY <1>3 DEF Stands
  <1>5. /\ \A a \in H : /\ Place(o, a) \in SlNodes /\ SlLo(Place(o, a)) = a
                        /\ SlHi(Place(o, a)) = E[a]
        /\ \A i \in SlNodes : \E a \in H : i = Place(o, a)
    BY <1>1, <1>2, <1>3, SlNodesAre
  <1>6. /\ \A a \in H : a \in Nat /\ a \in Int /\ E[a] \in Nat /\ a <= E[a]
        /\ \A a, b \in H : b - a < SlSize /\ a - b < SlSize /\ b - a < SeqNoTH /\ a - b < SeqNoTH
        /\ Chained(H)
    BY <1>4, FitsTell, SlConstants
  <1>7. o \in Int /\ \A a, c \in H : Place(o, a) = Place(o, c) => a = c
    BY <1>4, ChartTells
  <1> HIDE DEF L
  <1>8. ASSUME NEW i \in SlNodes
        PROVE  /\ L.data1[i] \in 0 .. MaxSeqNo /\ i = SlotOf(L, L.data1[i])
               /\ SlLo(i) <= SlHi(i)
    <2>1. PICK a \in H : i = Place(o, a)
      BY <1>5
    <2>2. L.data1[i] = Wrap(a)
      BY <1>4, <2>1, ChartTells
    <2>3. SlotOf(L, Wrap(a)) = Place(o, a)
      BY <1>4, SlotIs
    <2>4. Wrap(a) \in 0 .. MaxSeqNo
      BY <1>6, Steps
    <2>5. SlLo(i) <= SlHi(i)
      BY <1>5, <1>6, <2>1
    <2>6. QED
      BY <2>1, <2>2, <2>3, <2>4, <2>5
  <1>9. ASSUME NEW i \in SlSlots \ SlNodes PROVE L.data2[i] = -1
    <2>1. \A a \in H : i # Place(o, a)
      BY <1>5
    <2>2. QED
      BY <1>4, <2>1 DEF Chart
  <1>10. ASSUME NEW i \in SlNodes, NEW j \in SlNodes
         PROVE  /\ SlLo(i) < SlLo(j) => SlHi(i) < SlLo(j)
                /\ L.next[i] = j <=>
                     /\ SlLo(i) < SlLo(j)
                     /\ \A k \in SlNodes : SlLo(k) <= SlLo(i) \/ SlLo(j) <= SlLo(k)
    <2>1. PICK a \in H : i = Place(o, a)
      BY <1>5
    <2>2. PICK c \in H : j = Place(o, c)
      BY <1>5
    <2>3. SlLo(i) = a /\ SlHi(i) = E[a] /\ SlLo(j) = c
      BY <1>5, <2>1, <2>2
    <2>4. a < c => E[a] < c
      BY <1>4 DEF Disjoint
    <2>5. L.next[i] = j <=> Follows(H, a, c)
      BY <1>4, <2>1, <2>2, LeadsTell
    <2>6. (\A k \in SlNodes : SlLo(k) <= a \/ c <= SlLo(k)) <=> \A d \in H : d <= a \/ c <= d
      BY <1>5
    <2>7. QED
      BY <2>3, <2>4, <2>5, <2>6 DEF Follows
  <1>11. ASSUME NEW i \in SlNodes
         PROVE  L.next[i] = -1 <=> \A j \in SlNodes : SlLo(j) <= SlLo(i)
    <2>1. PICK a \in H : i = Place(o, a)
      BY <1>5
    <2>2. L.next[i] = -1 <=> IsGreatest(H, a)
      BY <1>4, <2>1, LeadsTell
    <2>3. (\A j \in SlNodes : SlLo(j) <= a) <=> \A d \in H : d <= a
      BY <1>5
    <2>4. QED
      BY <1>5, <2>1, <2>2, <2>3 DEF IsGreatest
  <1>12. IF SlNodes = {} THEN L.head = -1
         ELSE L.head \in SlNodes /\ \A i \in SlNodes : SlLo(L.head) <= SlLo(i)
    <2>1. CASE SlNodes = {}
      <3>1. H = {}
        BY <1>5, <2>1
      <3>2. L.head = -1
        BY <1>4, <3>1 DEF Chart, Leads
      <3>3. QED
        BY <2>1, <3>2
    <2>2. CASE SlNodes # {}
      <3>1. PICK m \in H : IsLeast(H, m)
        BY <1>5, <1>6, <2>2 DEF Chained
      <3>2. L.head = Place(o, m)
        BY <1>4, <3>1, LeadsTell
      <3>3. ASSUME NEW i \in SlNodes PROVE SlLo(L.head) <= SlLo(i)
        <4>1. PICK a \in H : i = Place(o, a)
          BY <1>5
        <4>2. QED
          BY <1>5, <3>1, <3>2, <4>1 DEF IsLeast
      <3>4. QED
        BY <1>5, <2>2, <3>1, <3>2, <3>3
    <2>3. QED
      BY <2>1, <2>2
  <1>13. L.length = Cardinality(SlLost)
    BY <1>1, <1>2, <1>4, SlLostIs
  <1>14. L.lastInsertPos \in SlNodes \cup {-1}
    BY <1>4, <1>5
  <1>15. QED
    BY <1>8, <1>9, <1>10, <1>11, <1>12, <1>13, <1>14 DEF SndListShape, L

(* The slots, ranges, links and length of the sender's loss list, and the    *)
(* place where its next insertion starts, fit together in every state.      *)
THEOREM AlwaysSndShape == SlSpec => []SndListShape
  <1>1. SlInv => SndListShape
    BY SndShapeHolds
  <1>2. QED
    BY <1>1, SlInvariance, PTL

-----------------------------------------------------------------------------
(* SlLostIs as one formula, and in the next state.                          *)
SlLostTells == \A C : \A o \in SlSlots : SlWindow /\ SlMissing(C, o) => SlLost = C

LEMMA SlLostHere == SlLostTells
  BY SlLostIs DEF SlLostTells

LEMMA SlLostNext == SlLostTells'
  BY SlLostHere, PTL

(* Every call does to the list what it does to the set.                     *)
LEMMA SndSetStep ==
  ASSUME SlInv, [SlNext]_slVars
  PROVE  [SndSet!Next]_(SndSet!vars)
  <1>1. SlWindow
    BY DEF SlInv
  <1>2. PICK C \in SUBSET (sndBase .. sndTop), o \in SlSlots : SlMissing(C, o)
    BY DEF SlInv
  <1>3. SlLost = C
    BY <1>1, <1>2, SlLostIs
  <1>4. SlInv' => SlWindow'
    BY DEF SlInv
  <1>5. ASSUME NEW R, NEW x \in SlSlots, SlInv', SlMissing(R, x)' PROVE SlLost' = R
    BY <1>4, <1>5, SlLostNext DEF SlLostTells
  <1>6. CASE SendNext
    <2>1. SlInv' /\ SlMissing(C, o)' /\ sndCall' = sndCall
      BY <1>1, <1>2, <1>6, SendStep
    <2>2. SlLost' = C
      BY <1>2, <1>5, <2>1
    <2>3. QED
      BY <1>3, <2>1, <2>2 DEF SndSet!vars
  <1>7. CASE TakeLost
    <2>1. /\ SlInv'
          /\ \/ /\ C = {} /\ SlMissing(C, o)'
                /\ sndCall' = [op |-> "takeFirst", lo |-> 0, hi |-> 0, ret |-> -1]
             \/ \E x \in C : \E R :
                  /\ IsLeast(C, x) /\ R = Without(C, x) /\ SlMissing(R, o)'
                  /\ sndCall' = [op |-> "takeFirst", lo |-> 0, hi |-> 0, ret |-> x]
      BY <1>1, <1>2, <1>7, TakeStep
    <2>2. CASE /\ C = {} /\ SlMissing(C, o)'
               /\ sndCall' = [op |-> "takeFirst", lo |-> 0, hi |-> 0, ret |-> -1]
      <3>1. SlLost' = C
        BY <1>2, <1>5, <2>1, <2>2
      <3>2. SndSet!First = -1
        BY <1>3, <2>2 DEF SndSet!First
      <3>3. SlLost' = SlLost \ {SndSet!First}
        BY <1>3, <2>2, <3>1
      <3>4. SndSet!TakeFirst
        BY <2>2, <3>2, <3>3 DEF SndSet!TakeFirst, SndSet!Called
      <3>5. QED
        BY <3>4 DEF SndSet!Next
    <2>3. ASSUME NEW x \in C, NEW R, IsLeast(C, x), R = Without(C, x), SlMissing(R, o)',
                 sndCall' = [op |-> "takeFirst", lo |-> 0, hi |-> 0, ret |-> x]
          PROVE  [SndSet!Next]_(SndSet!vars)
      <3>1. SlLost' = Without(C, x)
        BY <1>2, <1>5, <2>1, <2>3
      <3>2. \A b \in C : b \in Int
        BY <1>1, <1>2, SlNear
      <3>3. \A b \in C : (\A c \in C : b <= c) => b = x
        BY <2>3, <3>2 DEF IsLeast
      <3>4. (CHOOSE b \in C : \A c \in C : b <= c) = x
        BY <2>3, <3>3 DEF IsLeast
      <3>5. SndSet!First = x
        BY <1>3, <2>3, <3>4 DEF SndSet!First
      <3>6. SlLost' = SlLost \ {SndSet!First}
        BY <1>3, <3>1, <3>5 DEF Without
      <3>7. SndSet!TakeFirst
        BY <2>3, <3>5, <3>6 DEF SndSet!TakeFirst, SndSet!Called
      <3>8. QED
        BY <3>7 DEF SndSet!Next
    <2>4. QED
      BY <2>1, <2>2, <2>3
  <1>8. ASSUME NEW ack \in FirstSent + 1 .. LastSent + 1, AckArrives(ack)
        PROVE  [SndSet!Next]_(SndSet!vars)
    <2>1. SlInv' /\ SlMissing(C, o)' /\ sndCall' = sndCall
      BY <1>1, <1>2, <1>8, AckArrivesStep
    <2>2. SlLost' = C
      BY <1>2, <1>5, <2>1
    <2>3. QED
      BY <1>3, <2>1, <2>2 DEF SndSet!vars
  <1>9. ASSUME NEW lo \in FirstSent .. LastSent, NEW hi \in FirstSent .. LastSent,
               InsertLoss(lo, hi)
        PROVE  [SndSet!Next]_(SndSet!vars)
    <2>1. /\ lo \in Int /\ hi \in Int
          /\ lo \in FirstSent - 1 .. LastSent + 1 /\ hi \in FirstSent - 1 .. LastSent + 1
      BY SlConstants
    <2>2. /\ SlInv' /\ \E x \in SlSlots : \E R : R = With(C, lo, hi) /\ SlMissing(R, x)'
          /\ sndList'.length - sndList.length = Cardinality((lo .. hi) \ C)
      BY <1>1, <1>2, <1>9, <2>1, InsertStep
    <2>3. SlLost' = SlLost \cup lo .. hi
      BY <1>3, <1>5, <2>2 DEF With
    <2>4. sndCall' = [op |-> "insert", lo |-> lo, hi |-> hi,
                      ret |-> Cardinality((lo .. hi) \ SlLost)]
      BY <1>3, <1>9, <2>2 DEF InsertLoss, SlCalled
    <2>5. SndSet!Insert(lo, hi)
      <3>1. PICK d : d = Cardinality((lo .. hi) \ SlLost)
        OBVIOUS
      <3>2. sndCall' = [op |-> "insert", lo |-> lo, hi |-> hi, ret |-> IF TRUE THEN d ELSE 0]
        BY <2>4, <3>1
      <3>3. QED
        BY ONLY <2>3, <3>1, <3>2 DEF SndSet!Insert, SndSet!Called, SndSet!Cardinality, Cardinality
    <2>6. QED
      BY <2>1, <2>5 DEF SndSet!Next
  <1>10. ASSUME NEW s \in FirstSent - 1 .. LastSent + 1, NEW R, R = Over(C, s), SlInv',
                SlMissing(R, o)',
                sndCall' = [op |-> "removeUpTo", lo |-> s, hi |-> s, ret |-> 0]
         PROVE  [SndSet!Next]_(SndSet!vars)
    <2>1. SlLost' = {n \in SlLost : n > s}
      BY <1>2, <1>3, <1>5, <1>10 DEF Over
    <2>2. SndSet!RemoveUpTo(s)
      BY <1>10, <2>1 DEF SndSet!RemoveUpTo, SndSet!Called
    <2>3. QED
      BY <1>10, <2>2 DEF SndSet!Next
  <1>11. CASE ForgetAcked
    <2>1. PICK R : R = Over(C, sndAck - 1) /\ SlInv' /\ SlMissing(R, o)'
      BY <1>1, <1>2, <1>11, AckDataStep
    <2>2. sndCall' = [op |-> "removeUpTo", lo |-> sndAck - 1, hi |-> sndAck - 1, ret |-> 0]
      BY <1>11 DEF ForgetAcked, SlCalled
    <2>3. sndAck - 1 \in FirstSent - 1 .. LastSent + 1
      <3>1. sndBase < sndAck
        BY <1>11 DEF ForgetAcked
      <3>2. QED
        BY <1>1, <3>1, SlConstants DEF SlWindow
    <2>4. QED
      BY <1>10, <2>1, <2>2, <2>3
  <1>12. CASE \E last \in FirstSent + 1 .. LastSent - 1 : DropMessage(last)
    <2>1. PICK last \in FirstSent + 1 .. LastSent - 1 : DropMessage(last)
      BY <1>12
    <2>2. last \in Int /\ last \in FirstSent - 1 .. LastSent + 1
      BY SlConstants
    <2>3. PICK R : R = Over(C, last) /\ SlInv' /\ SlMissing(R, o)'
      BY <1>1, <1>2, <2>1, <2>2, DropMessageStep
    <2>4. sndCall' = [op |-> "removeUpTo", lo |-> last, hi |-> last, ret |-> 0]
      BY <2>1 DEF DropMessage, SlCalled
    <2>5. QED
      BY <1>10, <2>2, <2>3, <2>4
  <1>13. CASE UNCHANGED slVars
    BY <1>13 DEF slVars, SndSet!vars, SlLost, SlNodes, SlLo, SlHi, SlUnwrapped
  <1>14. QED
    BY <1>6, <1>7, <1>8, <1>9, <1>11, <1>12, <1>13 DEF SlNext

(* Every call does to the sender's list what list.h says it does to a set,   *)
(* gives its answer, how many numbers were new or the smallest one, and      *)
(* leaves the arrays in shape, for every window and first number.          *)
THEOREM SndIsSet == SlSpec => SndListIsSet
  <1>1. SlInit => SndSet!Init
    <2>1. SUFFICES ASSUME SlInit PROVE SndSet!Init
      OBVIOUS
    <2>2. SlNodes = {}
      BY <2>1 DEF SlInit, SlNodes, Cleared
    <2>3. SlLost = {}
      BY <2>2 DEF SlLost
    <2>4. QED
      BY <2>1, <2>3 DEF SlInit, SndSet!Init
  <1>2. SlInv /\ [SlNext]_slVars => [SndSet!Next]_(SndSet!vars)
    BY SndSetStep
  <1>3. SlInv => SndListShape
    BY SndShapeHolds
  <1>4. QED
    BY <1>1, <1>2, <1>3, SlInvariance, PTL DEF SlSpec, SndListIsSet
=============================================================================
