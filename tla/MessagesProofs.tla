--------------------------- MODULE MessagesProofs ---------------------------
(***************************************************************************)
(* Message mode, for messages of any number and length, any life times and *)
(* order flags, and any window and receive buffer: what recvmsg returns is  *)
(* whole, once and in turn, and nothing the sender has forgotten is lost    *)
(* but what it dropped.                                                    *)
(***************************************************************************)
EXTENDS Messages, WellFoundedInduction, TLAPS

(* Packet k of message m has number n, and n is one of message m's.         *)
At(n, m, k) == m \in Msgs /\ k \in 1 .. Lens[m] /\ n = Start[m] + k - 1
In(n, m)    == Start[m] <= n /\ n < Start[m + 1]

(* The number of the packet at m_iStartPos.                                 *)
StartNo == rcv.ack - RcvDataSize

(* Messages that are not to be delivered any more, or need not be.          *)
Settled(m) == m \in Delivered \/ m \in given.dropped \cup given.exposed

Packets == [type : {"data", "drop"}, lo : Nat, hi : Nat, m : Nat, k : Nat]
Units   == [m : Nat, k : Nat, flag : 0 .. 3]

(* The records of the two ends.                                            *)
SndType ==
  snd \in [first : Nat, curr : Nat, count : Int, ack : Nat, seq : Int, window : Int]
RcvType ==
  rcv \in [start : 0 .. RcvSize - 1, ackPos : 0 .. RcvSize - 1, maxPos : Nat,
           ack : Nat, seq : Int]

(* What holds even when the sender has skipped numbers.                     *)
CoreInv ==
  /\ made \in 0 .. Len(Lens) /\ expired \subseteq 1 .. made
  /\ SndType /\ snd.seq >= -1 /\ snd.first = snd.ack /\ snd.curr - 1 <= snd.seq
  /\ RcvType /\ rcv.ack = snd.ack /\ rcv.ack <= rcv.seq + 1
  /\ rcvLost \subseteq rcv.ack .. rcv.seq
  /\ sndLost \subseteq Nat /\ packets \subseteq Packets

(* The sender sends what there is, and what the receiver can hold, or two.  *)
SndInv ==
  /\ snd.curr <= LastBlock /\ snd.ack <= snd.curr
  /\ sndLost \subseteq snd.ack .. snd.seq
  /\ snd.seq + 1 <= StartNo + RcvSize \/ snd.seq + 1 <= snd.ack + 2
  /\ snd.ack + snd.window <= StartNo + RcvSize \/ snd.window <= 2

(* A packet says, however late it comes, what was sent with its number, and *)
(* a drop request names a message that was dropped.                         *)
DataTrue(p) == p.lo <= snd.seq /\ At(p.lo, p.m, p.k)
DropTrue(p) ==
  /\ p.m \in Msgs /\ p.m \in given.dropped /\ p.m + 1 \in given.exposed
  /\ Start[p.m] <= p.lo /\ p.lo < p.hi /\ p.hi = Start[p.m + 1]
  /\ p.hi < snd.seq /\ p.hi <= StartNo + RcvSize - 2
PktInv == \A p \in packets : (p.type = "data" => DataTrue(p)) /\ (p.type = "drop" => DropTrue(p))

(* The place of number n is n - StartNo after m_iStartPos.                  *)
BufInv ==
  /\ unit \in [0 .. RcvSize - 1 -> Units]
  /\ StartNo >= 0 /\ rcv.seq <= snd.seq /\ rcv.seq <= StartNo + RcvSize - 2
  /\ RcvDataSize + rcv.maxPos <= RcvSize - 1
  /\ \A i \in 0 .. RcvSize - 1 :
       \/ Here(i) = NoUnit
       \/ Here(i).flag # 0 /\ At(StartNo + i, Here(i).m, Here(i).k) /\ StartNo + i <= rcv.seq

(* What has come waits to be read, unless its message is settled.           *)
ArrivedInv ==
  \A m \in Msgs : ~Settled(m) =>
    /\ Start[m] >= StartNo
    /\ \A n \in StartNo .. rcv.seq : In(n, m) /\ n \notin rcvLost => Fresh(n - StartNo)

(* What was read is marked until m_iStartPos has passed it.                 *)
MarkedInv ==
  \A m \in Delivered : \A n \in StartNo .. rcv.seq : In(n, m) => Here(n - StartNo).flag \in {2, 3}
DoneInv == \A m \in Delivered : Start[m + 1] - 1 <= rcv.seq

ReadInv ==
  /\ read \in Seq(Seq([m : Nat, k : Nat])) /\ \A i \in 1 .. Len(read) : Whole(read[i])
  /\ \A i, j \in 1 .. Len(read) : i < j => read[i] # read[j]
  /\ \A j \in 1 .. Len(read) : read[j][1].m \in Ordered =>
       \A m \in 1 .. read[j][1].m - 1 :
         m \in given.dropped \cup given.exposed \/ \E i \in 1 .. j - 1 : read[i][1].m = m

AlignedInv ==
  /\ SndInv /\ PktInv /\ BufInv /\ ArrivedInv /\ MarkedInv /\ DoneInv /\ ReadInv

MsgInv == CoreInv /\ (Aligned => AlignedInv)
-----------------------------------------------------------------------------
(* Numbers, places and the least and greatest of a set.                    *)

(* A set of natural numbers that is not empty has a least element.          *)
LEMMA LeastNumber ==
  ASSUME NEW T, T \subseteq Nat, T # {}
  PROVE  \E x \in T : \A y \in T : x <= y
  <1>1. \E x \in T : \A y \in T : ~(<<y, x>> \in OpToRel(<, Nat))
    BY WFMin, NatLessThanWellFounded
  <1>2. PICK x \in T : \A y \in T : ~(<<y, x>> \in OpToRel(<, Nat))
    BY <1>1
  <1>3. ASSUME NEW y \in T PROVE x <= y
    <2>1. ~(y < x)
      BY <1>2, <1>3 DEF OpToRel
    <2>2. QED
      BY <2>1, <1>3
  <1>4. QED
    BY <1>3

(* Min takes it.                                                           *)
LEMMA MinIs ==
  ASSUME NEW T, T \subseteq Nat, T # {}
  PROVE  Min(T) \in T /\ \A y \in T : Min(T) <= y
  BY LeastNumber DEF Min

(* Max takes the greatest element of a set that has a bound.                *)
LEMMA MaxIs ==
  ASSUME NEW T, NEW b \in Nat, T \subseteq 0 .. b, T # {}
  PROVE  Max(T) \in T /\ \A y \in T : y <= Max(T)
  <1> DEFINE U == {b - y : y \in T}
  <1>1. \A y \in T : y \in Int /\ b - y \in Nat
    OBVIOUS
  <1>1a. U \subseteq Nat /\ U # {}
    BY <1>1, Zenon
  <1>2. PICK u \in U : \A y \in U : u <= y
    BY <1>1a, LeastNumber
  <1>3. PICK x \in T : u = b - x
    BY <1>2
  <1>4. ASSUME NEW y \in T PROVE y <= x
    <2>1. u <= b - y
      BY <1>2, <1>4
    <2>2. QED
      BY <2>1, <1>3, <1>4
  <1>5. \E z \in T : \A y \in T : z >= y
    BY <1>3, <1>4
  <1>6. Max(T) \in T /\ \A y \in T : Max(T) >= y
    BY <1>5 DEF Max
  <1>7. QED
    BY <1>6

(* Division with remainder, for a divisor that is a constant.              *)
LEMMA Division ==
  ASSUME NEW a \in Int, NEW r \in Int, r >= 1
  PROVE  /\ a = r * (a \div r) + (a % r) /\ 0 <= a % r /\ a % r < r
         /\ a \div r \in Int /\ a % r \in Int
  OBVIOUS

(* The remainder of a number less than twice the divisor.                  *)
LEMMA Once ==
  ASSUME NEW a \in Nat, NEW r \in Nat, r >= 1, a < 2 * r
  PROVE  a % r = IF a < r THEN a ELSE a - r
  <1> DEFINE q == a \div r
             m == a % r
  <1>1. a = r * q + m /\ 0 <= m /\ m < r /\ q \in Int /\ m \in Int
    BY Division
  <1> HIDE DEF q, m
  <1>2. CASE q >= 2
    <2>1. r * q >= 2 * r
      BY <1>1, <1>2
    <2>2. QED
      BY <1>1, <2>1
  <1>3. CASE q <= -1
    <2>1. r * q <= -r
      BY <1>1, <1>3
    <2>2. QED
      BY <1>1, <2>1
  <1>4. CASE q = 0
    BY <1>1, <1>4 DEF m
  <1>5. CASE q = 1
    BY <1>1, <1>5 DEF m
  <1>6. QED
    BY <1>1, <1>2, <1>3, <1>4, <1>5

-----------------------------------------------------------------------------
(* The numbers of the messages.                                            *)

(* A table of the first numbers of the messages before k.                  *)
Table(g, k) ==
  /\ g \in [1 .. k -> Nat] /\ g[1] = 0
  /\ \A m \in 1 .. k - 1 : g[m + 1] = g[m] + Lens[m]

(* There is one for every k: a least k without one would follow one with.   *)
LEMMA Tables ==
  ASSUME NEW k \in 1 .. Len(Lens) + 1
  PROVE  \E g : Table(g, k)
  <1> DEFINE T == {j \in 1 .. Len(Lens) + 1 : ~ \E g : Table(g, j)}
  <1>1. Len(Lens) \in Nat /\ \A m \in 1 .. Len(Lens) : Lens[m] \in Nat
    BY MessagesAssumption
  <1>2. SUFFICES ASSUME T # {} PROVE FALSE
    OBVIOUS
  <1>3. PICK j \in T : \A y \in T : j <= y
    <2>1. T \subseteq Nat
      BY <1>1
    <2>2. QED
      BY <1>2, <2>1, LeastNumber
  <1>4. CASE j = 1
    <2>1. Table([i \in 1 .. 1 |-> 0], 1)
      BY DEF Table
    <2>2. QED
      BY <1>3, <1>4, <2>1
  <1>5. CASE j # 1
    <2>1. j - 1 \in 1 .. Len(Lens) + 1 /\ j - 1 \notin T /\ j - 1 \in Nat
      BY <1>1, <1>3, <1>5
    <2>2. PICK g : Table(g, j - 1)
      BY <2>1
    <2> DEFINE f == [i \in 1 .. j |-> IF i = j THEN g[j - 1] + Lens[j - 1] ELSE g[i]]
    <2>3. g \in [1 .. j - 1 -> Nat] /\ g[1] = 0 /\ \A m \in 1 .. j - 2 : g[m + 1] = g[m] + Lens[m]
      BY <2>1, <2>2 DEF Table
    <2>4. j \in Nat /\ j >= 2 /\ j - 1 \in 1 .. Len(Lens) /\ Lens[j - 1] \in Nat
      BY <1>1, <2>1, <1>3
    <2>5. f \in [1 .. j -> Nat] /\ f[1] = 0
      BY <2>3, <2>4
    <2>6. \A m \in 1 .. j - 1 : f[m + 1] = f[m] + Lens[m]
      BY <2>3, <2>4
    <2>7. Table(f, j)
      BY <2>5, <2>6 DEF Table
    <2>8. QED
      BY <1>3, <2>7
  <1>6. QED
    BY <1>4, <1>5

(* Start is the table of them all.                                         *)
LEMMA Starts ==
  /\ Start \in [1 .. Len(Lens) + 1 -> Nat] /\ Start[1] = 0
  /\ \A m \in Msgs : Start[m + 1] = Start[m] + Lens[m]
  /\ \A m \in Msgs : Lens[m] \in Nat /\ Lens[m] >= 1
  /\ \A m \in Msgs : m \in Nat /\ Start[m] \in Nat /\ Start[m + 1] \in Nat
  /\ Len(Lens) \in Nat
  <1> DEFINE e == Len(Lens) + 1
             Rule(f) == f = [m \in 1 .. e |-> IF m = 1 THEN 0 ELSE f[m - 1] + Lens[m - 1]]
  <1>1. /\ Len(Lens) \in Nat
        /\ \A m \in 1 .. Len(Lens) : Lens[m] \in Nat /\ Lens[m] >= 1
    BY MessagesAssumption
  <1>2. PICK g : Table(g, e)
    BY <1>1, Tables
  <1>3. /\ g \in [1 .. e -> Nat] /\ g[1] = 0
        /\ \A m \in 1 .. e - 1 : g[m + 1] = g[m] + Lens[m]
    BY <1>2 DEF Table
  <1>4. Rule(g)
    <2> DEFINE h == [m \in 1 .. e |-> IF m = 1 THEN 0 ELSE g[m - 1] + Lens[m - 1]]
    <2>1. ASSUME NEW m \in 1 .. e PROVE g[m] = h[m]
      <3>1. CASE m = 1
        BY <1>1, <1>3, <3>1
      <3>2. CASE m # 1
        <4>1. m - 1 \in 1 .. e - 1 /\ (m - 1) + 1 = m
          BY <1>1, <2>1, <3>2
        <4>2. g[(m - 1) + 1] = g[m - 1] + Lens[m - 1]
          BY <1>3, <4>1
        <4>3. QED
          BY <4>1, <4>2, <3>2
      <3>3. QED
        BY <3>1, <3>2
    <2> HIDE DEF e
    <2>2. QED
      BY <1>3, <2>1
  <1>5. Rule(Start)
    BY <1>4 DEF Start
  <1>6. DOMAIN Start = 1 .. e
    BY <1>5
  <1>7. \A m \in 1 .. e : Start[m] = IF m = 1 THEN 0 ELSE Start[m - 1] + Lens[m - 1]
    BY <1>5, <1>6
  <1>8. Start[1] = 0
    BY <1>1, <1>7
  <1>9. \A m \in Msgs : Start[m + 1] = Start[m] + Lens[m]
    BY <1>1, <1>7 DEF Msgs
  <1>10. ASSUME NEW k \in 1 .. e PROVE Start[k] \in Nat
    <2> DEFINE T == {j \in 1 .. e : Start[j] \notin Nat}
    <2>1. SUFFICES ASSUME T # {} PROVE FALSE
      BY <1>10
    <2>2. PICK j \in T : \A y \in T : j <= y
      <3>1. T \subseteq Nat
        BY <1>1
      <3>2. QED
        BY <2>1, <3>1, LeastNumber
    <2>3. j # 1
      BY <1>8, <2>2
    <2>4. j - 1 \in Msgs /\ j - 1 \in 1 .. e /\ (j - 1) + 1 = j /\ ~(j <= j - 1)
      BY <1>1, <2>2, <2>3 DEF Msgs
    <2>5. Start[j - 1] \in Nat
      BY <2>2, <2>4
    <2>6. Start[j] = Start[j - 1] + Lens[j - 1] /\ Lens[j - 1] \in Nat
      BY <1>1, <1>9, <2>4 DEF Msgs
    <2>7. QED
      BY <2>2, <2>5, <2>6
  <1>11. Start \in [1 .. e -> Nat]
    BY <1>5, <1>6, <1>10
  <1>12. \A m \in Msgs : m \in Nat /\ m \in 1 .. e /\ m + 1 \in 1 .. e
    BY <1>1 DEF Msgs
  <1>13. \A m \in Msgs : m \in Nat /\ Start[m] \in Nat /\ Start[m + 1] \in Nat
    BY <1>10, <1>12
  <1>14. QED
    BY <1>1, <1>8, <1>9, <1>11, <1>13 DEF Msgs

(* A later message starts later.                                           *)
LEMMA Later ==
  ASSUME NEW a \in 1 .. Len(Lens) + 1, NEW b \in 1 .. Len(Lens) + 1, a <= b
  PROVE  Start[a] <= Start[b]
  <1> DEFINE T == {j \in a .. Len(Lens) + 1 : ~(Start[a] <= Start[j])}
  <1>1. SUFFICES ASSUME T # {} PROVE FALSE
    BY Starts
  <1>2. PICK j \in T : \A y \in T : j <= y
    <2>1. T \subseteq Nat
      BY Starts
    <2>2. QED
      BY <1>1, <2>1, LeastNumber
  <1>3. j # a
    BY Starts, <1>2
  <1>4. j - 1 \in Msgs /\ j - 1 \in a .. Len(Lens) + 1 /\ (j - 1) + 1 = j /\ ~(j <= j - 1)
    BY Starts, <1>2, <1>3 DEF Msgs
  <1>5. Start[a] <= Start[j - 1]
    BY <1>2, <1>4
  <1>6. /\ Start[j] = Start[j - 1] + Lens[j - 1] /\ Lens[j - 1] \in Nat
        /\ Start[j - 1] \in Nat /\ Start[a] \in Nat
    BY Starts, <1>4
  <1>7. QED
    BY <1>2, <1>5, <1>6

(* No number is of two messages.                                           *)
LEMMA OneMessage ==
  ASSUME NEW n \in Int, NEW m \in Msgs, In(n, m), NEW o \in Msgs, In(n, o)
  PROVE  m = o
  <1>1. /\ m \in Nat /\ o \in Nat /\ Len(Lens) \in Nat
        /\ Start[m] \in Nat /\ Start[o] \in Nat /\ Start[m + 1] \in Nat /\ Start[o + 1] \in Nat
    BY Starts
  <1>2. CASE m < o
    <2>1. Start[m + 1] <= Start[o]
      BY <1>1, <1>2, Later DEF Msgs
    <2>2. QED
      BY <1>1, <2>1 DEF In
  <1>3. CASE o < m
    <2>1. Start[o + 1] <= Start[m]
      BY <1>1, <1>3, Later DEF Msgs
    <2>2. QED
      BY <1>1, <2>1 DEF In
  <1>4. QED
    BY <1>1, <1>2, <1>3

(* Packet k of message m is one of its numbers, and the numbers of a        *)
(* message are those of its packets.                                       *)
LEMMA AtIn ==
  ASSUME NEW n \in Int, NEW m, NEW k
  PROVE  /\ At(n, m, k) => In(n, m) /\ m \in Msgs /\ k = n - Start[m] + 1
         /\ m \in Msgs /\ In(n, m) => At(n, m, n - Start[m] + 1)
  <1>1. CASE m \in Msgs
    <2>1. /\ Start[m + 1] = Start[m] + Lens[m] /\ Lens[m] \in Nat /\ Start[m] \in Nat
      BY <1>1, Starts DEF Msgs
    <2>2. QED
      BY <1>1, <2>1 DEF At, In
  <1>2. CASE m \notin Msgs
    BY <1>2 DEF At
  <1>3. QED
    BY <1>1, <1>2

(* Each number below the last is of a message.                             *)
LEMMA SomeMessage ==
  ASSUME NEW j \in 0 .. Len(Lens), NEW n \in Nat, n < Start[j + 1]
  PROVE  \E m \in 1 .. j : In(n, m)
  <1> DEFINE T == {x \in 1 .. j + 1 : n < Start[x]}
  <1>1. Len(Lens) \in Nat /\ T \subseteq Nat /\ j + 1 \in T
    BY Starts
  <1>2. PICK x \in T : \A y \in T : x <= y
    BY <1>1, LeastNumber
  <1>3. x # 1
    BY Starts, <1>2
  <1>4. x - 1 \in 1 .. j /\ x - 1 \notin T /\ (x - 1) + 1 = x
    BY <1>1, <1>2, <1>3
  <1>5. Start[x - 1] \in Nat
    BY Starts, <1>4
  <1>6. In(n, x - 1)
    BY <1>2, <1>4, <1>5 DEF In
  <1>7. QED
    BY <1>4, <1>6

(* The block that the send buffer holds next to a number.                  *)
LEMMA BlockIs ==
  ASSUME made \in 0 .. Len(Lens), NEW b \in Nat
  PROVE  /\ Block(b).m \in Nat /\ Block(b).k \in Nat
         /\ b < LastBlock => At(b, Block(b).m, Block(b).k) /\ Block(b).m \in 1 .. made
         /\ b >= LastBlock => Block(b) = NoMsg
  <1>1. LastBlock \in Nat /\ made \in Nat /\ Len(Lens) \in Nat
    BY Starts DEF LastBlock
  <1>2. CASE b >= LastBlock
    BY <1>1, <1>2 DEF Block, NoMsg
  <1>3. CASE b < LastBlock
    <2> DEFINE m == CHOOSE x \in 1 .. made : Start[x] <= b /\ b < Start[x + 1]
    <2>1. \E x \in 1 .. made : Start[x] <= b /\ b < Start[x + 1]
      BY <1>3, SomeMessage DEF LastBlock, In
    <2>2. m \in 1 .. made /\ Start[m] <= b /\ b < Start[m + 1]
      BY <2>1
    <2>3. Block(b) = [m |-> m, k |-> b - Start[m] + 1]
      BY <1>1, <1>3 DEF Block
    <2> HIDE DEF m
    <2>4. m \in Msgs /\ m \in Nat /\ Start[m] \in Nat
      <3>1. m \in Msgs
        BY <1>1, <2>2 DEF Msgs
      <3>2. QED
        BY <3>1, Starts
    <2>5. Block(b).m = m /\ Block(b).k = b - Start[m] + 1
      BY <2>3
    <2>6. At(b, m, b - Start[m] + 1)
      BY <2>2, <2>4, AtIn DEF In
    <2>7. b - Start[m] + 1 \in Nat
      BY <2>2, <2>4
    <2>8. QED
      BY <1>1, <1>3, <2>2, <2>4, <2>5, <2>6, <2>7
  <1>4. QED
    BY <1>1, <1>2, <1>3

-----------------------------------------------------------------------------
(* What holds even when the sender has skipped numbers.                     *)

(* The places are those from m_iStartPos around.                           *)
LEMMA Around ==
  ASSUME NEW a \in 0 .. RcvSize - 1, NEW i \in 0 .. RcvSize
  PROVE  /\ (a + i) % RcvSize = IF a + i < RcvSize THEN a + i ELSE a + i - RcvSize
         /\ (a + i) % RcvSize \in 0 .. RcvSize - 1
  <1>1. RcvSize \in Nat /\ RcvSize >= 1
    BY MessagesAssumption
  <1> DEFINE c == a + i
  <1>2. c \in Nat /\ c < 2 * RcvSize
    BY <1>1
  <1>3. c % RcvSize = IF c < RcvSize THEN c ELSE c - RcvSize
    <2> HIDE DEF c
    <2>1. QED
      BY <1>1, <1>2, Once
  <1>4. QED
    BY <1>1, <1>3

(* getRcvDataSize counts the places from m_iStartPos to m_iLastAckPos.      *)
LEMMA DataSize ==
  ASSUME NEW a \in 0 .. RcvSize - 1, NEW b \in 0 .. RcvSize - 1
  PROVE  /\ (b - a + RcvSize) % RcvSize = IF a <= b THEN b - a ELSE b - a + RcvSize
         /\ (b - a + RcvSize) % RcvSize \in 0 .. RcvSize - 1
  <1>1. RcvSize \in Nat /\ RcvSize >= 1
    BY MessagesAssumption
  <1> DEFINE c == b - a + RcvSize
  <1>2. c \in Nat /\ c < 2 * RcvSize
    BY <1>1
  <1>3. c % RcvSize = IF c < RcvSize THEN c ELSE c - RcvSize
    <2> HIDE DEF c
    <2>1. QED
      BY <1>1, <1>2, Once
  <1>4. QED
    BY <1>1, <1>3

(* The constants, and the fields of the two records.                       *)
LEMMA Sizes ==
  /\ RcvSize \in Nat /\ RcvSize >= 2 /\ Window \in Nat /\ Window >= 1 /\ Len(Lens) \in Nat
  BY MessagesAssumption

LEMMA SndFields ==
  ASSUME SndType
  PROVE  /\ snd.first \in Nat /\ snd.curr \in Nat /\ snd.count \in Int
         /\ snd.ack \in Nat /\ snd.seq \in Int /\ snd.window \in Int
  BY DEF SndType

LEMMA RcvFields ==
  ASSUME RcvType
  PROVE  /\ rcv.start \in 0 .. RcvSize - 1 /\ rcv.ackPos \in 0 .. RcvSize - 1
         /\ rcv.maxPos \in Nat /\ rcv.ack \in Nat /\ rcv.seq \in Int
  BY DEF RcvType

(* What the receive buffer holds that is acknowledged.                     *)
LEMMA DataSizeIs ==
  ASSUME RcvType
  PROVE  /\ RcvDataSize = IF rcv.start <= rcv.ackPos THEN rcv.ackPos - rcv.start
                                                     ELSE rcv.ackPos - rcv.start + RcvSize
         /\ RcvDataSize \in 0 .. RcvSize - 1
  BY RcvFields, DataSize DEF RcvDataSize

LEMMA CountsAre ==
  ASSUME RcvType
  PROVE  /\ RcvDataSize \in Nat /\ RcvDataSize < RcvSize
         /\ StartNo \in Int /\ StartNo = rcv.ack - RcvDataSize
         /\ AvailBufSize \in Nat /\ AvailBufSize = RcvSize - RcvDataSize - 1
  <1>1. RcvDataSize \in 0 .. RcvSize - 1 /\ rcv.ack \in Nat
    BY DataSizeIs, RcvFields
  <1>2. QED
    BY <1>1, Sizes DEF StartNo, AvailBufSize

(* The number of all blocks.                                               *)
LEMMA LastIs ==
  ASSUME made \in 0 .. Len(Lens)
  PROVE  LastBlock \in Nat
  <1>1. made + 1 \in 1 .. Len(Lens) + 1
    BY Sizes
  <1>2. QED
    BY <1>1, Starts DEF LastBlock

(* What packLost does with the least lost number.                          *)
LostNo == Min(sndLost)
LostMsg == Block(LostNo).m
LostEnd == Start[LostMsg + 1]

Passed ==
  /\ LostNo < snd.ack /\ sndLost' = sndLost \ {LostNo} /\ UNCHANGED <<snd, packets, given>>
Resent ==
  /\ LostNo >= snd.ack /\ sndLost' = sndLost \ {LostNo}
  /\ packets' = packets \cup {Data(LostNo, LostNo)}
  /\ UNCHANGED <<snd, given>>
Dropped ==
  /\ LostNo >= snd.ack /\ sndLost' \subseteq sndLost
  /\ LostMsg \in 1 .. made /\ In(LostNo, LostMsg) /\ LostEnd \in Nat
  /\ packets' = packets \cup {DropReq(LostNo, LostEnd, LostMsg)}
  /\ snd' = [snd EXCEPT !.seq = IF @ < LostEnd + 1 THEN LostEnd + 1 ELSE @,
                        !.curr = IF LostNo < @ /\ @ < LostEnd THEN LostEnd ELSE @]
  /\ given' = [dropped |-> given.dropped \cup {LostMsg},
               exposed |-> given.exposed \cup {LostMsg + 1}]

LEMMA LostStep ==
  ASSUME CoreInv, packLost
  PROVE  /\ LostNo \in sndLost /\ LostNo \in Nat /\ (Passed \/ Resent \/ Dropped)
         /\ UNCHANGED <<made, expired, unit, rcv, rcvLost, read>>
  <1>1. sndLost # {} /\ sndLost \subseteq Nat
    BY DEF packLost, CoreInv
  <1>2. LostNo \in sndLost /\ LostNo \in Nat
    BY <1>1, MinIs DEF LostNo
  <1>3. snd.first = snd.ack /\ snd.ack \in Nat
    BY SndFields DEF CoreInv
  <1>4. snd.first + (LostNo - snd.ack) = LostNo
    BY <1>2, <1>3
  <1>5. UNCHANGED <<made, expired, unit, rcv, rcvLost, read>>
    BY DEF packLost, rcvVars
  <1>6. CASE LostNo < snd.ack
    BY <1>2, <1>5, <1>6 DEF packLost, Passed, LostNo
  <1>7. CASE ~(LostNo < snd.ack) /\ ~Outlived(LostNo)
    BY <1>2, <1>3, <1>4, <1>5, <1>7 DEF packLost, Resent, LostNo
  <1>8. CASE ~(LostNo < snd.ack) /\ Outlived(LostNo)
    <2>1. LostMsg \in 1 .. made /\ made \in 0 .. Len(Lens)
      BY <1>8 DEF Outlived, LostMsg, CoreInv
    <2>2. LostNo < LastBlock
      <3>1. NoMsg.m = 0 /\ LastBlock \in Nat
        BY LastIs DEF CoreInv, NoMsg
      <3>2. LostNo >= LastBlock => Block(LostNo) = NoMsg
        BY <1>2, <2>1, BlockIs
      <3>3. QED
        BY <1>2, <2>1, <3>1, <3>2 DEF LostMsg
    <2>3. In(LostNo, LostMsg) /\ LostMsg \in Msgs
      BY <1>2, <2>1, <2>2, BlockIs, AtIn DEF LostMsg
    <2>4. LostEnd \in Nat
      BY <2>3, Starts DEF LostEnd
    <2>5. LostNo + DropLen(LostNo) = LostEnd /\ MsgEnd(LostNo) = LostEnd
      BY <1>2, <2>4 DEF DropLen, MsgEnd, LostEnd, LostMsg
    <2>6. sndLost' = {x \in sndLost : x > LostEnd}
      BY <1>4, <1>8, <2>5 DEF packLost, LostNo
    <2>7. packets' = packets \cup {DropReq(LostNo, LostEnd, LostMsg)}
      BY <1>4, <1>8, <2>5 DEF packLost, LostNo, LostMsg
    <2>8. snd' = [snd EXCEPT !.seq = IF @ < LostEnd + 1 THEN LostEnd + 1 ELSE @,
                             !.curr = IF LostNo < @ /\ @ < LostEnd THEN LostEnd ELSE @]
      BY <1>4, <1>8, <2>5 DEF packLost, LostNo
    <2>9. given' = [dropped |-> given.dropped \cup {LostMsg},
                    exposed |-> given.exposed \cup {LostMsg + 1}]
      BY <1>4, <1>8 DEF packLost, LostNo, LostMsg
    <2>10. LostNo >= snd.ack
      BY <1>2, <1>3, <1>8
    <2>11. Dropped
      BY <2>1, <2>3, <2>4, <2>6, <2>7, <2>8, <2>9, <2>10 DEF Dropped
    <2>12. QED
      BY <1>2, <1>5, <2>11
  <1>9. QED
    BY <1>6, <1>7, <1>8

(* The ACK names a number that is not past what has come.                   *)
LEMMA AckPointIs ==
  ASSUME CoreInv
  PROVE  /\ AckPoint \in Nat /\ rcv.ack <= AckPoint /\ AckPoint <= rcv.seq + 1
         /\ rcvLost \subseteq AckPoint .. rcv.seq
         /\ rcvLost = {} => AckPoint = rcv.seq + 1
  <1>1. rcv.ack \in Nat /\ rcv.seq \in Int /\ rcv.ack <= rcv.seq + 1
    BY RcvFields DEF CoreInv
  <1>2. rcvLost \subseteq rcv.ack .. rcv.seq
    BY DEF CoreInv
  <1>3. CASE rcvLost = {}
    BY <1>1, <1>3 DEF AckPoint
  <1>4. CASE rcvLost # {}
    <2>1. rcvLost \subseteq Nat
      BY <1>1, <1>2
    <2>2. Min(rcvLost) \in rcvLost /\ \A y \in rcvLost : Min(rcvLost) <= y
      BY <1>4, <2>1, MinIs
    <2>3. AckPoint \in rcvLost /\ \A y \in rcvLost : AckPoint <= y
      BY <1>4, <2>2 DEF AckPoint
    <2>4. AckPoint \in rcv.ack .. rcv.seq
      BY <1>2, <2>3
    <2> HIDE DEF AckPoint
    <2>5. AckPoint \in Nat
      BY <1>1, <2>4
    <2>6. \A y \in rcvLost : y \in AckPoint .. rcv.seq
      BY <1>1, <1>2, <2>3, <2>5
    <2>7. QED
      BY <1>1, <1>4, <2>4, <2>5, <2>6
  <1>5. QED
    BY <1>3, <1>4

LEMMA CoreInit == MsgInit => CoreInv
  <1> SUFFICES ASSUME MsgInit PROVE CoreInv
    OBVIOUS
  <1>1. made = 0 /\ expired = {} /\ rcvLost = {} /\ sndLost = {} /\ packets = {}
    BY DEF MsgInit
  <1>2. snd = [first |-> 0, curr |-> 0, count |-> 0, ack |-> 0, seq |-> -1, window |-> RcvSize]
    BY DEF MsgInit
  <1>3. rcv = [start |-> 0, ackPos |-> 0, maxPos |-> 0, ack |-> 0, seq |-> -1]
    BY DEF MsgInit
  <1>4. SndType /\ RcvType
    BY <1>2, <1>3, Sizes DEF SndType, RcvType
  <1>5. QED
    BY <1>1, <1>2, <1>3, <1>4, Sizes DEF CoreInv

(* The sender's calls.                                                     *)
LEMMA CoreSend ==
  ASSUME CoreInv, sendmsg \/ packNew \/ ExpResend \/ Nak \/ \E m \in Msgs : LifeEnds(m)
  PROVE  CoreInv'
  <1>1. CASE sendmsg
    <2>1. made \in 0 .. Len(Lens) /\ made < Len(Lens)
      BY <1>1 DEF sendmsg, CoreInv
    <2>2. made + 1 \in 0 .. Len(Lens) /\ made + 1 \in Msgs
      BY <2>1, Sizes DEF Msgs
    <2>3. Lens[made + 1] \in Nat /\ made' = made + 1
      BY <1>1, <2>2, Starts DEF sendmsg
    <2>4. snd' = [snd EXCEPT !.count = @ + Lens[made + 1]]
      BY <1>1, <2>3 DEF sendmsg
    <2>5. SndType
      BY DEF CoreInv
    <2>6. /\ SndType'
          /\ snd'.first = snd.first /\ snd'.curr = snd.curr
          /\ snd'.ack = snd.ack /\ snd'.seq = snd.seq
      BY <2>3, <2>4, <2>5 DEF SndType
    <2>7. UNCHANGED <<expired, rcv, rcvLost, sndLost, packets>>
      BY <1>1 DEF sendmsg, rcvVars
    <2>8. RcvType' /\ rcv' = rcv
      BY <2>7 DEF RcvType, CoreInv
    <2>9. expired' \subseteq 1 .. made'
      BY <2>1, <2>3, <2>7 DEF CoreInv
    <2>10. QED
      BY <2>2, <2>3, <2>6, <2>7, <2>8, <2>9 DEF CoreInv
  <1>2. CASE packNew
    <2>1. SndType /\ snd.seq >= -1 /\ made \in 0 .. Len(Lens)
      BY DEF CoreInv
    <2>2. snd' = [snd EXCEPT !.seq = @ + 1, !.curr = @ + 1]
      BY <1>2 DEF packNew
    <2>4. snd.curr \in Nat /\ snd.seq \in Int
      BY <2>1, SndFields
    <2>3. /\ SndType'
          /\ snd'.first = snd.first /\ snd'.curr = snd.curr + 1
          /\ snd'.ack = snd.ack /\ snd'.seq = snd.seq + 1
      <3>1. snd.curr + 1 \in Nat /\ snd.seq + 1 \in Int
        BY <2>4
      <3>2. snd' = [snd EXCEPT !.seq = snd.seq + 1, !.curr = snd.curr + 1]
        BY <2>2
      <3>3. SndType'
        BY <2>1, <3>1, <3>2 DEF SndType
      <3>4. QED
        BY <2>1, <3>2, <3>3 DEF SndType
    <2>5. Block(snd.curr).m \in Nat /\ Block(snd.curr).k \in Nat /\ snd.seq + 1 \in Nat
      BY <2>1, <2>4, BlockIs
    <2>6. Data(snd.seq + 1, snd.curr) \in Packets
      BY <2>5 DEF Data, Packets
    <2>7. packets' \subseteq Packets
      BY <1>2, <2>6 DEF packNew, CoreInv
    <2>8. UNCHANGED <<made, expired, sndLost, rcv, rcvLost>>
      BY <1>2 DEF packNew, rcvVars
    <2>9. RcvType'
      BY <2>8 DEF RcvType, CoreInv
    <2>10. snd'.seq >= -1 /\ snd'.curr - 1 <= snd'.seq
      BY <2>3, <2>4 DEF CoreInv
    <2>11. QED
      BY <2>3, <2>7, <2>8, <2>9, <2>10 DEF CoreInv
  <1>3. CASE ExpResend
    <2>1. sndLost' \subseteq Nat
      <3>1. sndLost' = snd.ack .. snd.seq /\ snd.ack \in Nat /\ snd.seq \in Int
        BY <1>3, SndFields DEF ExpResend, CoreInv
      <3>2. QED
        BY <3>1
    <2>2. UNCHANGED <<made, expired, snd, rcv, rcvLost, packets>>
      BY <1>3 DEF ExpResend, rcvVars
    <2>3. SndType' /\ RcvType'
      BY <2>2 DEF CoreInv, SndType, RcvType
    <2>4. QED
      BY <2>1, <2>2, <2>3 DEF CoreInv
  <1>4. CASE Nak
    <2>1. sndLost' \subseteq Nat
      <3>1. sndLost' = sndLost \cup {s \in rcvLost : s >= snd.ack} /\ sndLost \subseteq Nat
        BY <1>4 DEF Nak, CoreInv
      <3>2. rcvLost \subseteq rcv.ack .. rcv.seq /\ rcv.ack \in Nat /\ rcv.seq \in Int
        BY RcvFields DEF CoreInv
      <3>3. \A x \in rcvLost : x \in Nat
        BY <3>2
      <3>4. QED
        BY <3>1, <3>3
    <2>2. UNCHANGED <<made, expired, snd, rcv, rcvLost, packets>>
      BY <1>4 DEF Nak, rcvVars
    <2>3. SndType' /\ RcvType'
      BY <2>2 DEF CoreInv, SndType, RcvType
    <2>4. QED
      BY <2>1, <2>2, <2>3 DEF CoreInv
  <1>5. CASE \E m \in Msgs : LifeEnds(m)
    <2>1. PICK m \in Msgs : LifeEnds(m)
      BY <1>5
    <2>2. UNCHANGED <<made, sndLost, snd, rcv, rcvLost, packets>>
      BY <2>1 DEF LifeEnds, rcvVars
    <2>3. expired' = expired \cup {m} /\ m <= made
      BY <2>1 DEF LifeEnds
    <2>4. m \in Nat /\ m >= 1 /\ made \in Nat
      BY Sizes DEF Msgs, CoreInv
    <2>5. expired' \subseteq 1 .. made
      BY <2>3, <2>4 DEF CoreInv
    <2>6. SndType' /\ RcvType'
      BY <2>2 DEF CoreInv, SndType, RcvType
    <2>7. QED
      BY <2>2, <2>5, <2>6 DEF CoreInv
  <1>6. QED
    BY <1>1, <1>2, <1>3, <1>4, <1>5

LEMMA CoreLost ==
  ASSUME CoreInv, packLost
  PROVE  CoreInv'
  <1>1. LostNo \in sndLost /\ LostNo \in Nat /\ (Passed \/ Resent \/ Dropped)
    BY LostStep
  <1>2. UNCHANGED <<made, expired, rcv, rcvLost>>
    BY LostStep
  <1>3. RcvType' /\ sndLost \subseteq Nat /\ packets \subseteq Packets
    BY <1>2 DEF CoreInv, RcvType
  <1>4. CASE Passed
    <2>1. UNCHANGED <<snd, packets>> /\ sndLost' \subseteq Nat
      BY <1>3, <1>4 DEF Passed
    <2>2. SndType'
      BY <2>1 DEF CoreInv, SndType
    <2>3. QED
      BY <1>2, <1>3, <2>1, <2>2 DEF CoreInv
  <1>5. CASE Resent
    <2>1. Block(LostNo).m \in Nat /\ Block(LostNo).k \in Nat
      BY <1>1, BlockIs DEF CoreInv
    <2>2. Data(LostNo, LostNo) \in Packets
      BY <1>1, <2>1 DEF Data, Packets
    <2>3. snd' = snd /\ sndLost' \subseteq Nat /\ packets' \subseteq Packets
      BY <1>3, <1>5, <2>2 DEF Resent
    <2>4. SndType'
      BY <2>3 DEF CoreInv, SndType
    <2>5. QED
      BY <1>2, <1>3, <2>3, <2>4 DEF CoreInv
  <1>6. CASE Dropped
    <2>1. LostEnd \in Nat /\ LostMsg \in Nat
      BY <1>6 DEF Dropped
    <2>2. DropReq(LostNo, LostEnd, LostMsg) \in Packets
      BY <1>1, <2>1 DEF DropReq, Packets
    <2>3. packets' \subseteq Packets
      BY <1>3, <1>6, <2>2 DEF Dropped
    <2>4. snd' = [snd EXCEPT !.seq = IF @ < LostEnd + 1 THEN LostEnd + 1 ELSE @,
                             !.curr = IF LostNo < @ /\ @ < LostEnd THEN LostEnd ELSE @]
      BY <1>6 DEF Dropped
    <2>5. SndType /\ snd.seq \in Int /\ snd.curr \in Nat
      BY SndFields DEF CoreInv
    <2>6. /\ SndType'
          /\ snd'.first = snd.first /\ snd'.ack = snd.ack
          /\ snd'.seq = IF snd.seq < LostEnd + 1 THEN LostEnd + 1 ELSE snd.seq
          /\ snd'.curr = IF LostNo < snd.curr /\ snd.curr < LostEnd THEN LostEnd ELSE snd.curr
      <3> DEFINE seq == IF snd.seq < LostEnd + 1 THEN LostEnd + 1 ELSE snd.seq
                 curr == IF LostNo < snd.curr /\ snd.curr < LostEnd THEN LostEnd ELSE snd.curr
      <3>1. seq \in Int /\ curr \in Nat
        BY <2>1, <2>5
      <3>2. snd' = [snd EXCEPT !.seq = seq, !.curr = curr]
        BY <2>4
      <3> HIDE DEF seq, curr
      <3>3. SndType' /\ snd'.first = snd.first /\ snd'.ack = snd.ack
        BY <2>5, <3>1, <3>2 DEF SndType
      <3>4. snd'.seq = seq /\ snd'.curr = curr
        BY <2>5, <3>2 DEF SndType
      <3>5. QED
        BY <3>3, <3>4 DEF seq, curr
    <2>7. snd'.seq >= -1 /\ snd'.curr - 1 <= snd'.seq
      <3>1. snd.seq >= -1 /\ snd.curr - 1 <= snd.seq
        BY DEF CoreInv
      <3>2. QED
        BY <2>1, <2>5, <2>6, <3>1
    <2>8. sndLost' \subseteq Nat
      BY <1>3, <1>6 DEF Dropped
    <2>9. QED
      BY <1>2, <1>3, <2>3, <2>6, <2>7, <2>8 DEF CoreInv
  <1>7. QED
    BY <1>1, <1>4, <1>5, <1>6

(* An ACK moves m_iLastAckPos and the numbers that both ends have.          *)
LEMMA AckStep ==
  ASSUME CoreInv, Ack
  PROVE  /\ RcvType' /\ rcv'.ack = AckPoint /\ rcv'.seq = rcv.seq /\ rcv'.start = rcv.start
         /\ rcv'.ackPos = (rcv.ackPos + (AckPoint - rcv.ack)) % RcvSize
         /\ rcv'.maxPos = IF rcv.maxPos > AckPoint - rcv.ack THEN rcv.maxPos - (AckPoint - rcv.ack)
                                                            ELSE 0
         /\ SndType' /\ snd'.first = AckPoint /\ snd'.ack = AckPoint
         /\ snd'.seq = snd.seq /\ snd'.curr = snd.curr /\ snd'.window = Granted(AvailBufSize')
         /\ sndLost' = {s \in sndLost : s >= AckPoint}
         /\ UNCHANGED <<made, expired, given, unit, rcvLost, read, packets>>
  <1> DEFINE n == AckPoint - rcv.ack
  <1>1. n \in Nat /\ AckPoint \in Nat /\ rcv.ack \in Nat
    BY AckPointIs, RcvFields DEF CoreInv
  <1>2. rcv' = [rcv EXCEPT !.ack = AckPoint, !.ackPos = (@ + n) % RcvSize,
                           !.maxPos = IF @ > n THEN @ - n ELSE 0]
    BY DEF Ack
  <1>3. rcv.ackPos \in Nat /\ rcv.maxPos \in Nat
    BY RcvFields, Sizes DEF CoreInv
  <1>4. (rcv.ackPos + n) % RcvSize \in 0 .. RcvSize - 1
    <2> DEFINE c == rcv.ackPos + n
    <2>1. c \in Int
      BY <1>1, <1>3
    <2> HIDE DEF c
    <2>2. c % RcvSize \in 0 .. RcvSize - 1
      BY <2>1, Division, Sizes
    <2>3. QED
      BY <2>2 DEF c
  <1> DEFINE pos == (rcv.ackPos + n) % RcvSize
             most == IF rcv.maxPos > n THEN rcv.maxPos - n ELSE 0
  <1>5. most \in Nat
    BY <1>1, <1>3
  <1>6. RcvType
    BY DEF CoreInv
  <1>7. /\ RcvType' /\ rcv'.ack = AckPoint /\ rcv'.seq = rcv.seq /\ rcv'.start = rcv.start
        /\ rcv'.ackPos = pos /\ rcv'.maxPos = most
    <2>1. rcv' = [rcv EXCEPT !.ack = AckPoint, !.ackPos = pos, !.maxPos = most]
      BY <1>2
    <2>2. pos \in 0 .. RcvSize - 1
      BY <1>4
    <2> HIDE DEF pos, most
    <2>3. QED
      BY <1>1, <1>5, <1>6, <2>1, <2>2 DEF RcvType
  <1>8. AvailBufSize' \in Int
    <2>1. rcv'.start \in 0 .. RcvSize - 1 /\ rcv'.ackPos \in 0 .. RcvSize - 1
      BY <1>7 DEF RcvType
    <2>2. RcvDataSize' \in 0 .. RcvSize - 1
      BY <2>1, DataSize DEF RcvDataSize
    <2>3. QED
      BY <2>2, Sizes DEF AvailBufSize
  <1>9. Granted(AvailBufSize') \in Int
    BY <1>8 DEF Granted
  <1>10. snd' = [snd EXCEPT !.first = @ + (AckPoint - snd.ack), !.ack = AckPoint,
                            !.count = @ - (AckPoint - snd.ack),
                            !.window = Granted(AvailBufSize')]
    BY DEF Ack
  <1>11. SndType /\ snd.first = snd.ack /\ snd.ack \in Nat /\ snd.count \in Int
    BY SndFields DEF CoreInv
  <1>12. snd.first + (AckPoint - snd.ack) = AckPoint /\ snd.count - (AckPoint - snd.ack) \in Int
    BY <1>1, <1>11
  <1>13. /\ SndType' /\ snd'.first = AckPoint /\ snd'.ack = AckPoint
         /\ snd'.seq = snd.seq /\ snd'.curr = snd.curr /\ snd'.window = Granted(AvailBufSize')
    BY <1>1, <1>9, <1>10, <1>11, <1>12 DEF SndType
  <1>14. /\ sndLost' = {s \in sndLost : s >= AckPoint}
         /\ UNCHANGED <<made, expired, given, unit, rcvLost, read, packets>>
    BY DEF Ack
  <1>15. QED
    BY <1>7, <1>13, <1>14

LEMMA CoreAck ==
  ASSUME CoreInv, Ack
  PROVE  CoreInv'
  <1>1. /\ RcvType' /\ rcv'.ack = AckPoint /\ rcv'.seq = rcv.seq
        /\ SndType' /\ snd'.first = AckPoint /\ snd'.ack = AckPoint
        /\ snd'.seq = snd.seq /\ snd'.curr = snd.curr
        /\ sndLost' \subseteq sndLost
    BY AckStep
  <1>2. UNCHANGED <<made, expired, rcvLost, packets>>
    BY AckStep
  <1>3. rcvLost \subseteq AckPoint .. rcv.seq /\ AckPoint <= rcv.seq + 1
    BY AckPointIs
  <1>4. QED
    BY <1>1, <1>2, <1>3 DEF CoreInv

(* What RecvData does.                                                     *)
Shown(p) == (rcv.ackPos + (p.lo - rcv.ack)) % RcvSize
InRoom(p) == rcv.ack <= p.lo /\ p.lo - rcv.ack < AvailBufSize
Most(p) == IF p.lo - rcv.ack > rcv.maxPos THEN p.lo - rcv.ack ELSE rcv.maxPos
Newest(p) == IF p.lo > rcv.seq THEN p.lo ELSE rcv.seq

LEMMA DataStep ==
  ASSUME CoreInv, NEW p \in packets, RecvData(p)
  PROVE  /\ p.type = "data" /\ p.lo \in Nat
         /\ UNCHANGED <<made, expired, snd, sndLost, given, packets, read>>
         /\ \/ ~InRoom(p) /\ UNCHANGED <<unit, rcv, rcvLost>>
            \/ /\ InRoom(p) /\ unit[Shown(p)].flag # 0
               /\ rcv' = [rcv EXCEPT !.maxPos = Most(p)] /\ UNCHANGED <<unit, rcvLost>>
            \/ /\ InRoom(p) /\ unit[Shown(p)].flag = 0
               /\ unit' = [unit EXCEPT ![Shown(p)] = [m |-> p.m, k |-> p.k, flag |-> 1]]
               /\ rcv' = [rcv EXCEPT !.maxPos = Most(p), !.seq = Newest(p)]
               /\ rcvLost' = (rcvLost \cup (rcv.seq + 1 .. p.lo - 1)) \ {p.lo}
  <1>1. p.lo \in Nat /\ p.type = "data"
    BY DEF CoreInv, Packets, RecvData
  <1>2. UNCHANGED <<made, expired, snd, sndLost, given, packets, read>>
    BY DEF RecvData, sndVars, rcvVars
  <1>3. rcv.ack \in Nat /\ AvailBufSize \in Nat
    BY RcvFields, CountsAre DEF CoreInv
  <1>4. InRoom(p) <=> ~(p.lo - rcv.ack < 0 \/ p.lo - rcv.ack >= AvailBufSize)
    BY <1>1, <1>3 DEF InRoom
  <1>5. CASE ~InRoom(p)
    BY <1>1, <1>2, <1>4, <1>5 DEF RecvData, rcvVars
  <1>6. CASE InRoom(p) /\ unit[Shown(p)].flag # 0
    BY <1>1, <1>2, <1>4, <1>6 DEF RecvData, Shown, Most
  <1>7. CASE InRoom(p) /\ unit[Shown(p)].flag = 0
    BY <1>1, <1>2, <1>4, <1>7 DEF RecvData, Shown, Most, Newest
  <1>8. QED
    BY <1>5, <1>6, <1>7

(* The record of the receiver after it.                                    *)
LEMMA DataFields ==
  ASSUME CoreInv, NEW p \in packets, RecvData(p), InRoom(p)
  PROVE  /\ RcvType' /\ rcv'.start = rcv.start /\ rcv'.ackPos = rcv.ackPos
         /\ rcv'.ack = rcv.ack /\ rcv'.maxPos = Most(p) /\ Most(p) \in Nat
         /\ p.lo \in Nat /\ p.lo - rcv.ack \in Nat
         /\ \/ unit[Shown(p)].flag # 0 /\ rcv'.seq = rcv.seq
            \/ unit[Shown(p)].flag = 0 /\ rcv'.seq = Newest(p) /\ Newest(p) \in Int
  <1>1. RcvType /\ rcv.ack \in Nat /\ rcv.maxPos \in Nat /\ rcv.seq \in Int
    BY RcvFields DEF CoreInv
  <1>2. p.lo \in Nat
    BY DataStep
  <1>3. p.lo - rcv.ack \in Nat
    BY <1>1, <1>2 DEF InRoom
  <1>4. Most(p) \in Nat /\ Newest(p) \in Int
    BY <1>1, <1>2, <1>3 DEF Most, Newest
  <1>5. CASE unit[Shown(p)].flag # 0
    <2>1. rcv' = [rcv EXCEPT !.maxPos = Most(p)]
      BY <1>5, DataStep
    <2>2. QED
      BY <1>1, <1>2, <1>3, <1>4, <1>5, <2>1 DEF RcvType
  <1>6. CASE unit[Shown(p)].flag = 0
    <2>1. rcv' = [rcv EXCEPT !.maxPos = Most(p), !.seq = Newest(p)]
      BY <1>6, DataStep
    <2>2. QED
      BY <1>1, <1>2, <1>3, <1>4, <1>6, <2>1 DEF RcvType
  <1>7. QED
    BY <1>5, <1>6

LEMMA CoreData ==
  ASSUME CoreInv, NEW p \in packets, RecvData(p)
  PROVE  CoreInv'
  <1>1. UNCHANGED <<made, expired, snd, sndLost, packets>>
    BY DataStep
  <1>2. SndType'
    BY <1>1 DEF CoreInv, SndType
  <1>3. CASE ~InRoom(p)
    <2>1. UNCHANGED <<rcv, rcvLost>>
      BY <1>3, DataStep
    <2>2. RcvType'
      BY <2>1 DEF CoreInv, RcvType
    <2>3. QED
      BY <1>1, <1>2, <2>1, <2>2 DEF CoreInv
  <1>4. CASE InRoom(p)
    <2>1. RcvType' /\ rcv'.ack = rcv.ack /\ p.lo \in Nat /\ p.lo - rcv.ack \in Nat
      BY <1>4, DataFields
    <2>2. rcv.ack \in Nat /\ rcv.seq \in Int /\ rcv.ack <= rcv.seq + 1 /\ rcv.ack <= p.lo
      BY <1>4, RcvFields DEF CoreInv, InRoom
    <2>3. rcvLost \subseteq rcv.ack .. rcv.seq
      BY DEF CoreInv
    <2>4. CASE unit[Shown(p)].flag # 0
      <3>1. rcvLost' = rcvLost /\ rcv'.seq = rcv.seq
        BY <1>4, <2>4, DataStep, DataFields
      <3>2. QED
        BY <1>1, <1>2, <2>1, <3>1 DEF CoreInv
    <2>5. CASE unit[Shown(p)].flag = 0
      <3>1. /\ rcvLost' = (rcvLost \cup (rcv.seq + 1 .. p.lo - 1)) \ {p.lo}
            /\ rcv'.seq = Newest(p)
        BY <1>4, <2>5, DataStep, DataFields
      <3>2. Newest(p) \in Int /\ Newest(p) >= rcv.seq /\ Newest(p) >= p.lo
        BY <2>1, <2>2 DEF Newest
      <3>3. rcvLost' \subseteq rcv.ack .. Newest(p)
        <4>1. ASSUME NEW x \in rcvLost' PROVE x \in rcv.ack .. Newest(p)
          <5>1. x \in rcvLost \/ x \in rcv.seq + 1 .. p.lo - 1
            BY <3>1, <4>1
          <5>2. p.lo \in Nat /\ Newest(p) \in Int /\ Newest(p) >= rcv.seq /\ Newest(p) >= p.lo
            BY <2>1, <3>2
          <5> HIDE DEF Newest
          <5>3. CASE x \in rcvLost
            <6>1. x \in rcv.ack .. rcv.seq
              BY <2>3, <5>3
            <6>2. QED
              BY <2>2, <5>2, <6>1
          <5>4. CASE x \in rcv.seq + 1 .. p.lo - 1
            BY <2>2, <5>2, <5>4
          <5>5. QED
            BY <5>1, <5>3, <5>4
        <4>2. QED
          BY <4>1
      <3>4. rcv.ack <= Newest(p) + 1
        BY <2>2, <3>2
      <3>5. QED
        BY <1>1, <1>2, <2>1, <3>1, <3>3, <3>4 DEF CoreInv
    <2>6. QED
      BY <2>4, <2>5
  <1>5. QED
    BY <1>3, <1>4

(* A drop request may move m_iRcvCurrSeqNo.                                 *)
LEMMA DropStep ==
  ASSUME CoreInv, NEW p \in packets, RecvDrop(p)
  PROVE  /\ p.lo \in Nat /\ p.hi \in Nat /\ p.type = "drop"
         /\ RcvType' /\ rcv'.start = rcv.start /\ rcv'.ackPos = rcv.ackPos
         /\ rcv'.ack = rcv.ack /\ rcv'.maxPos = rcv.maxPos
         /\ rcv'.seq = IF p.lo <= rcv.seq + 1 /\ p.hi > rcv.seq THEN p.hi ELSE rcv.seq
         /\ rcvLost' = rcvLost \ (p.lo .. p.hi)
         /\ UNCHANGED <<made, expired, snd, sndLost, given, packets, read>>
  <1>1. p.lo \in Nat /\ p.hi \in Nat /\ p.type = "drop"
    BY DEF CoreInv, Packets, RecvDrop
  <1>2. /\ rcv' = [rcv EXCEPT !.seq = IF p.lo <= @ + 1 /\ p.hi > @ THEN p.hi ELSE @]
        /\ rcvLost' = rcvLost \ (p.lo .. p.hi)
        /\ UNCHANGED <<made, expired, snd, sndLost, given, packets, read>>
    BY DEF RecvDrop, sndVars
  <1>3. RcvType /\ rcv.seq \in Int
    BY RcvFields DEF CoreInv
  <1>4. /\ RcvType' /\ rcv'.start = rcv.start /\ rcv'.ackPos = rcv.ackPos
        /\ rcv'.ack = rcv.ack /\ rcv'.maxPos = rcv.maxPos
        /\ rcv'.seq = IF p.lo <= rcv.seq + 1 /\ p.hi > rcv.seq THEN p.hi ELSE rcv.seq
    BY <1>1, <1>2, <1>3 DEF RcvType
  <1>5. QED
    BY <1>1, <1>2, <1>4

LEMMA CoreDrop ==
  ASSUME CoreInv, NEW p \in packets, RecvDrop(p)
  PROVE  CoreInv'
  <1>1. /\ p.lo \in Nat /\ p.hi \in Nat /\ RcvType' /\ rcv'.ack = rcv.ack
        /\ rcv'.seq = IF p.lo <= rcv.seq + 1 /\ p.hi > rcv.seq THEN p.hi ELSE rcv.seq
        /\ rcvLost' \subseteq rcvLost
    BY DropStep
  <1>2. UNCHANGED <<made, expired, snd, sndLost, packets>>
    BY DropStep
  <1>3. SndType'
    BY <1>2 DEF CoreInv, SndType
  <1>4. rcv.ack \in Nat /\ rcv.seq \in Int /\ rcv.ack <= rcv.seq + 1
    BY RcvFields DEF CoreInv
  <1>5. rcv'.seq \in Int /\ rcv'.seq >= rcv.seq
    BY <1>1, <1>4
  <1>6. rcvLost' \subseteq rcv.ack .. rcv'.seq
    <2>1. rcvLost \subseteq rcv.ack .. rcv.seq
      BY DEF CoreInv
    <2>2. QED
      BY <1>1, <1>4, <1>5, <2>1
  <1>7. rcv'.ack <= rcv'.seq + 1
    BY <1>1, <1>4, <1>5
  <1>8. QED
    BY <1>1, <1>2, <1>3, <1>6, <1>7 DEF CoreInv

(* The places after m_iStartPos are all of them, once each.                 *)
LEMMA PlaceIs ==
  ASSUME RcvType, NEW i \in 0 .. RcvSize
  PROVE  /\ Place(i) = IF rcv.start + i < RcvSize THEN rcv.start + i ELSE rcv.start + i - RcvSize
         /\ Place(i) \in 0 .. RcvSize - 1
  BY RcvFields, Around DEF Place

LEMMA OnePlace ==
  ASSUME RcvType, NEW i \in 0 .. RcvSize - 1, NEW j \in 0 .. RcvSize - 1, Place(i) = Place(j)
  PROVE  i = j
  <1>1. rcv.start \in 0 .. RcvSize - 1 /\ RcvSize \in Nat
    BY RcvFields, Sizes
  <1>2. i \in 0 .. RcvSize /\ j \in 0 .. RcvSize
    BY <1>1
  <1>3. Place(i) = IF rcv.start + i < RcvSize THEN rcv.start + i ELSE rcv.start + i - RcvSize
    BY <1>2, PlaceIs
  <1>4. Place(j) = IF rcv.start + j < RcvSize THEN rcv.start + j ELSE rcv.start + j - RcvSize
    BY <1>2, PlaceIs
  <1>5. /\ rcv.start \in Nat /\ rcv.start < RcvSize /\ i \in Nat /\ i < RcvSize
        /\ j \in Nat /\ j < RcvSize
    BY <1>1
  <1>6. (IF rcv.start + i < RcvSize THEN rcv.start + i ELSE rcv.start + i - RcvSize)
          = IF rcv.start + j < RcvSize THEN rcv.start + j ELSE rcv.start + j - RcvSize
    BY <1>3, <1>4
  <1>7. QED
    BY <1>1, <1>5, <1>6

LEMMA SomePlace ==
  ASSUME RcvType, NEW x \in 0 .. RcvSize - 1
  PROVE  \E i \in 0 .. RcvSize - 1 : x = Place(i)
  <1> DEFINE i == IF x >= rcv.start THEN x - rcv.start ELSE x - rcv.start + RcvSize
  <1>1. rcv.start \in 0 .. RcvSize - 1 /\ RcvSize \in Nat
    BY RcvFields, Sizes
  <1>2. i \in 0 .. RcvSize - 1 /\ i \in 0 .. RcvSize
    BY <1>1
  <1>3. x = IF rcv.start + i < RcvSize THEN rcv.start + i ELSE rcv.start + i - RcvSize
    BY <1>1
  <1> HIDE DEF i
  <1>4. Place(i) = x
    BY <1>2, <1>3, PlaceIs
  <1>5. QED
    BY <1>2, <1>4

(* m_iStartPos, moved over s acknowledged places.                          *)
LEMMA Moved ==
  ASSUME RcvType, NEW s \in 0 .. RcvDataSize, rcv'.start = Place(s),
         rcv'.ackPos = rcv.ackPos, rcv'.ack = rcv.ack
  PROVE  /\ RcvDataSize' = RcvDataSize - s /\ StartNo' = StartNo + s
         /\ \A i \in 0 .. RcvSize - 1 :
              Place(i)' = IF s + i < RcvSize THEN Place(s + i) ELSE Place(s + i - RcvSize)
  <1>1. /\ rcv.start \in Nat /\ rcv.start < RcvSize /\ rcv.ackPos \in Nat /\ rcv.ackPos < RcvSize
        /\ RcvSize \in Nat /\ rcv.ack \in Nat
    BY RcvFields, Sizes
  <1>2. /\ RcvDataSize = IF rcv.start <= rcv.ackPos THEN rcv.ackPos - rcv.start
                                                    ELSE rcv.ackPos - rcv.start + RcvSize
        /\ RcvDataSize \in Nat /\ RcvDataSize < RcvSize /\ s \in Nat /\ s <= RcvDataSize
    BY DataSizeIs, CountsAre
  <1>3. s \in 0 .. RcvSize
    BY <1>1, <1>2
  <1>4. /\ Place(s) = IF rcv.start + s < RcvSize THEN rcv.start + s ELSE rcv.start + s - RcvSize
        /\ Place(s) \in 0 .. RcvSize - 1
    BY <1>3, PlaceIs
  <1>5. RcvDataSize' = RcvDataSize - s
    <2>1. RcvDataSize' = (rcv.ackPos - Place(s) + RcvSize) % RcvSize
      BY DEF RcvDataSize
    <2>2. rcv.ackPos \in 0 .. RcvSize - 1
      BY <1>1
    <2>3. RcvDataSize' = IF Place(s) <= rcv.ackPos THEN rcv.ackPos - Place(s)
                                                   ELSE rcv.ackPos - Place(s) + RcvSize
      BY <1>4, <2>1, <2>2, DataSize
    <2> HIDE DEF Place
    <2>4. QED
      BY <1>1, <1>2, <1>4, <2>3
  <1>6. StartNo' = StartNo + s
    BY <1>1, <1>2, <1>5 DEF StartNo
  <1>7. ASSUME NEW i \in 0 .. RcvSize - 1
        PROVE  Place(i)' = IF s + i < RcvSize THEN Place(s + i) ELSE Place(s + i - RcvSize)
    <2>1. Place(i)' = (Place(s) + i) % RcvSize
      BY DEF Place
    <2>2. i \in 0 .. RcvSize /\ i \in Nat /\ i < RcvSize
      BY <1>1
    <2>3. Place(i)' = IF Place(s) + i < RcvSize THEN Place(s) + i ELSE Place(s) + i - RcvSize
      BY <1>4, <2>1, <2>2, Around
    <2>4. CASE s + i < RcvSize
      <3>1. s + i \in 0 .. RcvSize
        BY <1>1, <1>2, <2>2, <2>4
      <3>2. Place(s + i) = IF rcv.start + (s + i) < RcvSize THEN rcv.start + (s + i)
                                                           ELSE rcv.start + (s + i) - RcvSize
        BY <3>1, PlaceIs
      <3>3. QED
        BY <1>1, <1>2, <1>4, <2>2, <2>3, <2>4, <3>2
    <2>5. CASE ~(s + i < RcvSize)
      <3>1. s + i - RcvSize \in 0 .. RcvSize
        BY <1>1, <1>2, <2>2, <2>5
      <3>2. Place(s + i - RcvSize)
              = IF rcv.start + (s + i - RcvSize) < RcvSize
                  THEN rcv.start + (s + i - RcvSize)
                  ELSE rcv.start + (s + i - RcvSize) - RcvSize
        BY <3>1, PlaceIs
      <3>3. QED
        BY <1>1, <1>2, <1>4, <2>2, <2>3, <2>5, <3>2
    <2>6. QED
      BY <2>4, <2>5
  <1>8. QED
    BY <1>5, <1>6, <1>7

(* scanMsg skips the acknowledged places before the first good message.     *)
LEMMA SkippedIs ==
  ASSUME RcvType
  PROVE  /\ Skipped \in 0 .. RcvDataSize /\ Skipped \in Nat /\ Skipped <= RcvDataSize
         /\ Skipped < RcvDataSize => Good(Skipped)
         /\ \A i \in 0 .. RcvDataSize : Good(i) => Skipped <= i
  <1> DEFINE S == {i \in 0 .. RcvDataSize : i = RcvDataSize \/ Good(i)}
  <1>1. RcvDataSize \in Nat
    BY CountsAre
  <1> HIDE DEF Good, RcvDataSize
  <1>2. S \subseteq Nat /\ RcvDataSize \in S
    BY <1>1
  <1>3. Min(S) \in S /\ \A y \in S : Min(S) <= y
    <2> HIDE DEF S
    <2>1. QED
      BY <1>2, MinIs
  <1>4. Skipped = Min(S)
    BY DEF Skipped
  <1>5. Skipped \in S /\ \A y \in S : Skipped <= y
    BY <1>3, <1>4
  <1> HIDE DEF Skipped
  <1>6. QED
    BY <1>1, <1>5

(* The message it finds ends at Q and begins at P.                         *)
Q == Min(Finds)
P == Max(Heads(Q))

LEMMA FindsIs ==
  ASSUME RcvType, Finds # {}
  PROVE  /\ Q \in Finds /\ Q \in Nat /\ Q <= RcvDataSize + rcv.maxPos /\ Complete(Q)
         /\ \A i \in Finds : Q <= i
         /\ P \in Heads(Q) /\ P \in Nat /\ Skipped <= P /\ P <= Q
         /\ \A h \in Heads(Q) : h <= P
  <1>1. Skipped \in Nat /\ RcvDataSize \in Nat /\ rcv.maxPos \in Nat
    BY SkippedIs, CountsAre, RcvFields
  <1>2. \A i \in Finds : i \in Skipped .. RcvDataSize + rcv.maxPos /\ Complete(i)
    BY DEF Finds
  <1> HIDE DEF Skipped, RcvDataSize, Complete
  <1>3. \A i \in Finds : i \in Nat /\ Skipped <= i /\ i <= RcvDataSize + rcv.maxPos
    BY <1>1, <1>2
  <1>4. Finds \subseteq Nat
    BY <1>3
  <1>5. Q \in Finds /\ \A i \in Finds : Q <= i
    BY <1>4, MinIs DEF Q
  <1>6. Q \in Nat /\ Q <= RcvDataSize + rcv.maxPos /\ Complete(Q)
    BY <1>2, <1>3, <1>5
  <1>7. Heads(Q) # {}
    BY <1>6 DEF Complete
  <1>8. \A h \in Heads(Q) : h \in Skipped .. Q
    BY DEF Heads
  <1>9. \A h \in Heads(Q) : h \in Nat /\ Skipped <= h /\ h <= Q
    BY <1>1, <1>6, <1>8
  <1>10. Heads(Q) \subseteq 0 .. Q
    BY <1>6, <1>9
  <1>11. P \in Heads(Q) /\ \A h \in Heads(Q) : h <= P
    <2> DEFINE H == Heads(Q)
    <2>1. H \subseteq 0 .. Q /\ H # {} /\ P = Max(H)
      BY <1>7, <1>10 DEF P
    <2> HIDE DEF H
    <2>2. P \in H /\ \A h \in H : h <= P
      BY <1>6, <2>1, MaxIs
    <2>3. QED
      BY <2>2 DEF H
  <1>12. QED
    BY <1>5, <1>6, <1>9, <1>11

(* What recvmsg does: it returns nothing, a message of the acknowledged     *)
(* places, or one of those ahead of them.                                  *)
Skip(i) == i \in {Place(j) : j \in 0 .. Skipped - 1}
Take(i) == i \in {Place(j) : j \in P .. Q}
Returned == [i \in 1 .. Q - P + 1 |-> [m |-> Here(P + i - 1).m, k |-> Here(P + i - 1).k]]

ReadNone ==
  /\ Finds = {} /\ UNCHANGED read
  /\ unit' = [i \in DOMAIN unit |-> IF Skip(i) THEN NoUnit ELSE unit[i]]
  /\ rcv' = [rcv EXCEPT !.start = Place(Skipped)]
ReadNext ==
  /\ Finds # {} /\ Q < RcvDataSize /\ read' = Append(read, Returned)
  /\ unit' = [i \in DOMAIN unit |-> IF Skip(i) \/ Take(i) THEN NoUnit ELSE unit[i]]
  /\ rcv' = [rcv EXCEPT !.start = Place(Q + 1)]
ReadAhead ==
  /\ Finds # {} /\ ~(Q < RcvDataSize) /\ read' = Append(read, Returned)
  /\ unit' = [i \in DOMAIN unit |->
                IF Skip(i) THEN NoUnit
                ELSE IF Take(i) THEN [unit[i] EXCEPT !.flag = 2] ELSE unit[i]]
  /\ rcv' = [rcv EXCEPT !.start = Place(Skipped)]

LEMMA RecvStep ==
  ASSUME recvmsg
  PROVE  /\ ReadNone \/ ReadNext \/ ReadAhead
         /\ UNCHANGED <<rcvLost, made, expired, snd, sndLost, given, packets>>
  <1>1. UNCHANGED <<rcvLost, made, expired, snd, sndLost, given, packets>>
    BY DEF recvmsg, sndVars
  <1>2. CASE Finds = {}
    BY <1>1, <1>2 DEF recvmsg, ReadNone, Skip
  <1>3. CASE Finds # {} /\ Q < RcvDataSize
    BY <1>1, <1>3 DEF recvmsg, ReadNext, Skip, Take, Q, P, Returned
  <1>4. CASE Finds # {} /\ ~(Q < RcvDataSize)
    BY <1>1, <1>4 DEF recvmsg, ReadAhead, Skip, Take, Q, P, Returned
  <1>5. QED
    BY <1>2, <1>3, <1>4

(* How far m_iStartPos moves.                                              *)
Gone == IF Finds # {} /\ Q < RcvDataSize THEN Q + 1 ELSE Skipped

LEMMA RecvFields ==
  ASSUME RcvType, recvmsg
  PROVE  /\ Gone \in 0 .. RcvDataSize /\ rcv'.start = Place(Gone) /\ RcvType'
         /\ rcv'.ackPos = rcv.ackPos /\ rcv'.maxPos = rcv.maxPos
         /\ rcv'.ack = rcv.ack /\ rcv'.seq = rcv.seq
  <1>1. RcvDataSize \in Nat /\ RcvDataSize < RcvSize /\ RcvSize \in Nat
    BY CountsAre, Sizes
  <1>2. Skipped \in 0 .. RcvDataSize
    BY SkippedIs
  <1>3. Finds # {} => Q \in Nat
    BY FindsIs
  <1>4. Gone \in 0 .. RcvDataSize
    BY <1>1, <1>2, <1>3 DEF Gone
  <1>5. Place(Gone) \in 0 .. RcvSize - 1
    <2>1. Gone \in 0 .. RcvSize
      BY <1>1, <1>4
    <2>2. QED
      BY <2>1, PlaceIs
  <1>6. rcv' = [rcv EXCEPT !.start = Place(Gone)]
    BY RecvStep DEF ReadNone, ReadNext, ReadAhead, Gone
  <1>7. QED
    BY <1>4, <1>5, <1>6 DEF RcvType

LEMMA CoreRecv ==
  ASSUME CoreInv, recvmsg
  PROVE  CoreInv'
  <1>1. RcvType' /\ rcv'.ack = rcv.ack /\ rcv'.seq = rcv.seq
    BY RecvFields DEF CoreInv
  <1>2. UNCHANGED <<made, expired, snd, sndLost, packets, rcvLost>>
    BY RecvStep
  <1>3. SndType'
    BY <1>2 DEF CoreInv, SndType
  <1>4. QED
    BY <1>1, <1>2, <1>3 DEF CoreInv

LEMMA CoreStep == CoreInv /\ [MsgNext]_msgVars => CoreInv'
  <1> SUFFICES ASSUME CoreInv, [MsgNext]_msgVars PROVE CoreInv'
    OBVIOUS
  <1>1. CASE MsgNext
    BY <1>1, CoreSend, CoreLost, CoreAck, CoreRecv, CoreData, CoreDrop DEF MsgNext
  <1>2. CASE UNCHANGED msgVars
    <2>1. UNCHANGED <<made, expired, snd, sndLost, packets, rcv, rcvLost>>
      BY <1>2 DEF msgVars, sndVars, rcvVars
    <2>2. SndType' /\ RcvType'
      BY <2>1 DEF CoreInv, SndType, RcvType
    <2>3. QED
      BY <2>1, <2>2 DEF CoreInv
  <1>3. QED
    BY <1>1, <1>2

-----------------------------------------------------------------------------
(* Numbers that were skipped stay skipped.                                 *)
LEMMA AlignedIs ==
  ASSUME CoreInv
  PROVE  Aligned <=> snd.seq = snd.curr - 1
  <1>1. snd.seq \in Int /\ snd.curr \in Nat /\ snd.ack \in Nat /\ snd.first = snd.ack
    BY SndFields DEF CoreInv
  <1>2. QED
    BY <1>1 DEF Aligned

LEMMA DropAligned ==
  ASSUME CoreInv, packLost, Dropped, Aligned'
  PROVE  Aligned /\ snd' = snd /\ LostEnd < snd.seq
  <1>1. /\ snd.seq \in Int /\ snd.curr \in Nat /\ snd.ack \in Nat /\ LostNo \in Nat
        /\ LostEnd \in Nat /\ snd.curr - 1 <= snd.seq /\ SndType
    BY SndFields, LostStep DEF CoreInv, Dropped
  <1>2. CoreInv'
    BY CoreLost
  <1>3. snd'.seq = snd'.curr - 1
    <2>1. /\ snd'.seq \in Int /\ snd'.curr \in Nat /\ snd'.ack \in Nat /\ snd'.first = snd'.ack
      <3>1. SndType' /\ snd'.first = snd'.ack
        BY <1>2 DEF CoreInv
      <3>2. QED
        BY <3>1 DEF SndType
    <2>2. snd'.seq - snd'.ack = snd'.curr - 1 - snd'.first
      BY DEF Aligned
    <2>3. QED
      BY <2>1, <2>2
  <1> DEFINE seq == IF snd.seq < LostEnd + 1 THEN LostEnd + 1 ELSE snd.seq
             curr == IF LostNo < snd.curr /\ snd.curr < LostEnd THEN LostEnd ELSE snd.curr
  <1>4. snd' = [snd EXCEPT !.seq = seq, !.curr = curr]
    BY DEF Dropped
  <1>5. snd'.seq = seq /\ snd'.curr = curr
    <2> HIDE DEF seq, curr
    <2>1. QED
      BY <1>1, <1>4 DEF SndType
  <1>6. seq = snd.seq /\ curr = snd.curr /\ LostEnd < snd.seq /\ snd.seq = snd.curr - 1
    BY <1>1, <1>3, <1>5
  <1>7. snd' = snd
    <2> HIDE DEF seq, curr
    <2>1. snd' = [snd EXCEPT !.seq = snd.seq, !.curr = snd.curr]
      BY <1>4, <1>6
    <2>2. QED
      BY <1>1, <2>1 DEF SndType
  <1>8. QED
    BY <1>6, <1>7, AlignedIs

LEMMA WasAligned ==
  ASSUME CoreInv, [MsgNext]_msgVars, Aligned'
  PROVE  Aligned
  <1>1. CASE UNCHANGED snd
    BY <1>1 DEF Aligned
  <1>2. CASE sendmsg
    <2>1. SndType /\ made' = made + 1 /\ snd' = [snd EXCEPT !.count = @ + Lens[made']]
      BY <1>2 DEF CoreInv, sendmsg
    <2>2. UNCHANGED <<snd.first, snd.curr, snd.ack, snd.seq>>
      BY <2>1 DEF SndType
    <2>3. QED
      BY <2>2 DEF Aligned
  <1>3. CASE packNew
    <2>1. SndType /\ snd' = [snd EXCEPT !.seq = @ + 1, !.curr = @ + 1]
      BY <1>3 DEF CoreInv, packNew
    <2>2. /\ UNCHANGED <<snd.first, snd.ack>>
          /\ snd'.seq = snd.seq + 1 /\ snd'.curr = snd.curr + 1
      BY <2>1 DEF SndType
    <2>3. snd.seq \in Int /\ snd.curr \in Nat /\ snd.ack \in Nat /\ snd.first \in Nat
      BY <2>1, SndFields
    <2>4. QED
      BY <2>2, <2>3 DEF Aligned
  <1>4. CASE packLost
    <2>1. CASE Dropped
      BY <1>4, <2>1, DropAligned
    <2>2. CASE Passed \/ Resent
      BY <1>1, <2>2 DEF Passed, Resent
    <2>3. QED
      BY <1>4, <2>1, <2>2, LostStep
  <1>5. CASE Ack
    <2>1. /\ snd'.first = AckPoint /\ snd'.ack = AckPoint
          /\ snd'.seq = snd.seq /\ snd'.curr = snd.curr
      BY <1>5, AckStep
    <2>2. AckPoint \in Nat
      BY AckPointIs
    <2>3. snd.seq \in Int /\ snd.curr \in Nat
      BY SndFields DEF CoreInv
    <2>4. snd.seq = snd.curr - 1
      BY <2>1, <2>2, <2>3 DEF Aligned
    <2>5. QED
      BY <2>4, AlignedIs
  <1>6. QED
    <2>1. CASE UNCHANGED msgVars
      BY <1>1, <2>1 DEF msgVars, sndVars
    <2>2. CASE recvmsg
      BY <1>1, <2>2, RecvStep
    <2>3. CASE \E p \in packets : RecvData(p) \/ RecvDrop(p)
      BY <1>1, <2>3 DEF RecvData, RecvDrop, sndVars
    <2>4. CASE ExpResend \/ Nak \/ \E m \in Msgs : LifeEnds(m)
      BY <1>1, <2>4 DEF ExpResend, Nak, LifeEnds
    <2>5. QED
      BY <1>2, <1>3, <1>4, <1>5, <2>1, <2>2, <2>3, <2>4 DEF MsgNext

-----------------------------------------------------------------------------
(* The sender, while it has skipped no number.                             *)

(* A call that leaves the receiver alone.                                  *)
LEMMA SenderSide ==
  ASSUME CoreInv, AlignedInv, UNCHANGED <<unit, rcv, rcvLost, read>>,
         snd'.seq \in Int, snd.seq <= snd'.seq,
         given.dropped \subseteq given'.dropped, given.exposed \subseteq given'.exposed,
         SndInv', PktInv'
  PROVE  AlignedInv'
  <1>1. snd.seq \in Int /\ rcv.seq \in Int
    BY SndFields, RcvFields DEF CoreInv
  <1>2. RcvDataSize' = RcvDataSize /\ StartNo' = StartNo
    BY DEF RcvDataSize, StartNo
  <1>3. \A i : Here(i)' = Here(i)
    BY DEF Here, Place
  <1>4. Delivered' = Delivered /\ \A m : Settled(m) => Settled(m)'
    BY DEF Delivered, Settled
  <1>5. BufInv'
    <2>1. BufInv /\ rcv.seq <= snd'.seq
      BY <1>1 DEF AlignedInv, BufInv
    <2>2. QED
      BY <1>2, <1>3, <2>1 DEF BufInv
  <1>6. ArrivedInv'
    <2>1. ArrivedInv
      BY DEF AlignedInv
    <2>2. QED
      BY <1>2, <1>3, <1>4, <2>1 DEF ArrivedInv, Fresh
  <1>7. MarkedInv' /\ DoneInv'
    <2>1. MarkedInv /\ DoneInv
      BY DEF AlignedInv
    <2>2. QED
      BY <1>2, <1>3, <1>4, <2>1 DEF MarkedInv, DoneInv
  <1>8. ReadInv'
    <2>1. ReadInv
      BY DEF AlignedInv
    <2>2. read' = read
      OBVIOUS
    <2>3. ASSUME NEW j \in 1 .. Len(read), read[j][1].m \in Ordered,
                 NEW m \in 1 .. read[j][1].m - 1
          PROVE  m \in given'.dropped \cup given'.exposed \/ \E i \in 1 .. j - 1 : read[i][1].m = m
      BY <2>1, <2>3 DEF ReadInv
    <2>4. QED
      BY <2>1, <2>2, <2>3 DEF ReadInv
  <1>9. QED
    BY <1>5, <1>6, <1>7, <1>8 DEF AlignedInv

(* What was sent stays true.                                               *)
LEMMA SentStays ==
  ASSUME CoreInv, PktInv, NEW p \in packets, snd'.seq \in Int, snd.seq <= snd'.seq,
         StartNo' \in Int, StartNo <= StartNo',
         given.dropped \subseteq given'.dropped, given.exposed \subseteq given'.exposed
  PROVE  (p.type = "data" => DataTrue(p)') /\ (p.type = "drop" => DropTrue(p)')
  <1>1. /\ snd.seq \in Int /\ StartNo \in Int /\ RcvSize \in Int
        /\ p.lo \in Nat /\ p.hi \in Nat
    <2>1. p \in Packets
      BY DEF CoreInv
    <2>2. p.lo \in Nat /\ p.hi \in Nat
      BY <2>1 DEF Packets
    <2>3. QED
      BY <2>2, SndFields, CountsAre, Sizes DEF CoreInv
  <1>2. p.type = "data" => DataTrue(p)'
    <2>1. p.type = "data" => p.lo <= snd.seq /\ At(p.lo, p.m, p.k)
      BY DEF PktInv, DataTrue
    <2>2. QED
      BY <1>1, <2>1 DEF DataTrue
  <1>3. p.type = "drop" => DropTrue(p)'
    <2>1. ASSUME p.type = "drop" PROVE DropTrue(p)'
      <3>1. /\ p.m \in Msgs /\ p.m \in given.dropped /\ p.m + 1 \in given.exposed
            /\ Start[p.m] <= p.lo /\ p.lo < p.hi /\ p.hi = Start[p.m + 1]
            /\ p.hi < snd.seq /\ p.hi <= StartNo + RcvSize - 2
        BY <2>1 DEF PktInv, DropTrue
      <3>2. p.hi < snd'.seq /\ p.hi <= StartNo' + RcvSize - 2
        BY <1>1, <3>1
      <3>3. p.m \in given'.dropped /\ p.m + 1 \in given'.exposed
        BY <3>1
      <3>4. QED
        BY <3>1, <3>2, <3>3 DEF DropTrue
    <2>2. QED
      BY <2>1
  <1>4. QED
    BY <1>2, <1>3

(* The calls that send nothing.                                            *)
LEMMA QuietStep ==
  ASSUME CoreInv, AlignedInv, sendmsg \/ ExpResend \/ Nak \/ \E m \in Msgs : LifeEnds(m)
  PROVE  AlignedInv'
  <1>1. UNCHANGED <<unit, rcv, rcvLost, read, packets, given>>
    BY DEF sendmsg, ExpResend, Nak, LifeEnds, rcvVars
  <1>2. SndType /\ SndInv /\ PktInv /\ BufInv
    BY DEF CoreInv, AlignedInv
  <1>3. /\ snd'.curr = snd.curr /\ snd'.ack = snd.ack /\ snd'.seq = snd.seq
        /\ snd'.window = snd.window
    <2>1. CASE sendmsg
      <3>1. snd' = [snd EXCEPT !.count = @ + Lens[made']]
        BY <2>1 DEF sendmsg
      <3>2. QED
        BY <1>2, <3>1 DEF SndType
    <2>2. CASE ExpResend \/ Nak \/ \E m \in Msgs : LifeEnds(m)
      BY <2>2 DEF ExpResend, Nak, LifeEnds
    <2>3. QED
      BY <2>1, <2>2
  <1>4. snd.curr \in Nat /\ snd.seq \in Int /\ snd.ack \in Nat
    BY <1>2, SndFields
  <1>5. snd.curr <= LastBlock'
    <2>1. snd.curr <= LastBlock
      BY <1>2 DEF SndInv
    <2>2. CASE sendmsg
      <3>1. made' = made + 1 /\ made \in Nat /\ made < Len(Lens) /\ Len(Lens) \in Nat
        BY <2>2, Sizes DEF sendmsg, CoreInv
      <3>2. made + 1 \in 1 .. Len(Lens) + 1 /\ (made + 1) + 1 \in 1 .. Len(Lens) + 1
        BY <3>1
      <3>3. /\ Start[made + 1] <= Start[(made + 1) + 1]
            /\ Start[made + 1] \in Nat /\ Start[(made + 1) + 1] \in Nat
        BY <3>1, <3>2, Later, Starts
      <3>4. LastBlock = Start[made + 1] /\ LastBlock' = Start[(made + 1) + 1]
        BY <3>1 DEF LastBlock
      <3>5. QED
        BY <1>4, <2>1, <3>3, <3>4
    <2>3. CASE ExpResend \/ Nak \/ \E m \in Msgs : LifeEnds(m)
      BY <2>1, <2>3 DEF ExpResend, Nak, LifeEnds, LastBlock
    <2>4. QED
      BY <2>2, <2>3
  <1>6. sndLost' \subseteq snd.ack .. snd.seq
    <2>1. sndLost \subseteq snd.ack .. snd.seq
      BY <1>2 DEF SndInv
    <2>2. CASE sendmsg \/ ExpResend \/ \E m \in Msgs : LifeEnds(m)
      BY <2>1, <2>2 DEF sendmsg, ExpResend, LifeEnds
    <2>3. CASE Nak
      <3>1. rcvLost \subseteq rcv.ack .. rcv.seq /\ rcv.ack = snd.ack /\ rcv.seq \in Int
        BY RcvFields DEF CoreInv
      <3>2. rcv.seq <= snd.seq
        BY <1>2 DEF BufInv
      <3>3. \A s \in rcvLost : s \in snd.ack .. snd.seq
        BY <1>4, <3>1, <3>2
      <3>4. QED
        BY <2>1, <2>3, <3>3 DEF Nak
    <2>4. QED
      BY <2>2, <2>3
  <1>7. StartNo' = StartNo
    BY <1>1 DEF StartNo, RcvDataSize
  <1>8. SndInv'
    <2>1. snd.curr <= LastBlock' /\ sndLost' \subseteq snd.ack .. snd.seq
      BY <1>5, <1>6
    <2>2. QED
      BY <1>2, <1>3, <1>7, <2>1 DEF SndInv
  <1>9. PktInv'
    BY <1>1, <1>2, <1>3, <1>7 DEF PktInv, DataTrue, DropTrue
  <1>10. QED
    BY <1>1, <1>3, <1>4, <1>8, <1>9, SenderSide

(* packData with a new packet.                                             *)
LEMMA NewStep ==
  ASSUME CoreInv, AlignedInv, Aligned, packNew
  PROVE  AlignedInv'
  <1>1. UNCHANGED <<made, sndLost, unit, rcv, rcvLost, read, given>>
    BY DEF packNew, rcvVars
  <1>2. SndType /\ SndInv /\ PktInv
    BY DEF CoreInv, AlignedInv
  <1>3. /\ snd.curr \in Nat /\ snd.seq \in Int /\ snd.ack \in Nat /\ snd.window \in Int
        /\ StartNo \in Int /\ RcvSize \in Nat /\ Window \in Nat /\ LastBlock \in Nat
    BY <1>2, SndFields, CountsAre, Sizes, LastIs DEF CoreInv
  <1>4. /\ snd'.curr = snd.curr + 1 /\ snd'.ack = snd.ack /\ snd'.seq = snd.seq + 1
        /\ snd'.window = snd.window
    <2>1. snd' = [snd EXCEPT !.seq = @ + 1, !.curr = @ + 1]
      BY DEF packNew
    <2>2. QED
      BY <1>2, <2>1 DEF SndType
  <1>5. snd.curr = snd.seq + 1
    BY <1>3, AlignedIs
  <1>6. snd.curr < LastBlock
    <2>1. snd.curr <= LastBlock /\ snd.curr # LastBlock
      BY <1>2 DEF SndInv, packNew
    <2>2. QED
      BY <1>3, <2>1
  <1>7. snd.seq + 2 - snd.ack <= snd.window
    <2>1. CongWindow >= snd.seq + 2 - snd.ack
      BY DEF packNew
    <2>2. CongWindow \in Int /\ CongWindow <= snd.window
      BY <1>3 DEF CongWindow
    <2>3. QED
      BY <1>3, <2>1, <2>2
  <1>8. StartNo' = StartNo /\ LastBlock' = LastBlock
    BY <1>1 DEF StartNo, RcvDataSize, LastBlock
  <1>9. SndInv'
    <2>1. snd'.curr <= LastBlock' /\ snd'.ack <= snd'.curr
      BY <1>2, <1>3, <1>4, <1>6, <1>8 DEF SndInv
    <2>2. sndLost' \subseteq snd'.ack .. snd'.seq
      BY <1>1 DEF packNew
    <2>3. snd'.seq + 1 <= StartNo' + RcvSize \/ snd'.seq + 1 <= snd'.ack + 2
      <3>1. snd.ack + snd.window <= StartNo + RcvSize \/ snd.window <= 2
        BY <1>2 DEF SndInv
      <3>2. QED
        BY <1>3, <1>4, <1>7, <1>8, <3>1
    <2>4. snd'.ack + snd'.window <= StartNo' + RcvSize \/ snd'.window <= 2
      BY <1>2, <1>4, <1>8 DEF SndInv
    <2>5. QED
      BY <2>1, <2>2, <2>3, <2>4 DEF SndInv
  <1>10. snd'.seq \in Int /\ snd.seq <= snd'.seq
    BY <1>3, <1>4
  <1>11. PktInv'
    <2>0. PICK d : d = Data(snd.seq + 1, snd.curr)
      OBVIOUS
    <2>1. At(snd.curr, Block(snd.curr).m, Block(snd.curr).k)
      BY <1>3, <1>6, BlockIs DEF CoreInv
    <2>2. d.type = "data" /\ d.lo = snd.curr /\ d.m = Block(snd.curr).m /\ d.k = Block(snd.curr).k
      BY <1>5, <2>0 DEF Data
    <2>3. DataTrue(d)'
      <3>1. d.lo <= snd'.seq
        BY <1>3, <1>4, <1>5, <2>2
      <3>2. At(d.lo, d.m, d.k)
        BY <2>1, <2>2
      <3>3. QED
        BY <3>1, <3>2 DEF DataTrue
    <2>4. packets' = packets \cup {d}
      BY <2>0 DEF packNew
    <2>5. \A p \in packets : (p.type = "data" => DataTrue(p)') /\ (p.type = "drop" => DropTrue(p)')
      <3>1. StartNo' \in Int /\ StartNo <= StartNo'
        BY <1>3, <1>8
      <3>2. QED
        BY <1>1, <1>2, <1>10, <3>1, SentStays
    <2>6. QED
      BY <2>2, <2>3, <2>4, <2>5 DEF PktInv
  <1>12. QED
    BY <1>1, <1>9, <1>10, <1>11, SenderSide

(* packData with a lost packet, or a drop request for it.                   *)
LEMMA LostAligned ==
  ASSUME CoreInv, AlignedInv, Aligned, packLost, Aligned'
  PROVE  AlignedInv'
  <1>1. UNCHANGED <<made, unit, rcv, rcvLost, read>>
    BY LostStep
  <1>2. LostNo \in sndLost /\ LostNo \in Nat /\ (Passed \/ Resent \/ Dropped)
    BY LostStep
  <1>3. SndType /\ SndInv /\ PktInv
    BY DEF CoreInv, AlignedInv
  <1>4. /\ snd.curr \in Nat /\ snd.seq \in Int /\ snd.ack \in Nat
        /\ StartNo \in Int /\ RcvSize \in Nat /\ LastBlock \in Nat
    BY <1>3, SndFields, CountsAre, Sizes, LastIs DEF CoreInv
  <1>5. snd' = snd
    BY <1>2, DropAligned DEF Passed, Resent
  <1>6. sndLost' \subseteq sndLost
    BY <1>2 DEF Passed, Resent, Dropped
  <1>7. given.dropped \subseteq given'.dropped /\ given.exposed \subseteq given'.exposed
    BY <1>2 DEF Passed, Resent, Dropped
  <1>8. StartNo' = StartNo /\ LastBlock' = LastBlock
    BY <1>1 DEF StartNo, RcvDataSize, LastBlock
  <1>9. SndInv'
    BY <1>3, <1>5, <1>6, <1>8 DEF SndInv
  <1>10. \A p \in packets : (p.type = "data" => DataTrue(p)') /\ (p.type = "drop" => DropTrue(p)')
    <2>1. snd'.seq \in Int /\ snd.seq <= snd'.seq /\ StartNo' \in Int /\ StartNo <= StartNo'
      BY <1>4, <1>5, <1>8
    <2>2. QED
      BY <1>3, <1>7, <2>1, SentStays
  <1>11. PktInv'
    <2>1. CASE Passed
      BY <1>10, <2>1 DEF Passed, PktInv
    <2>2. CASE Resent
      <3>0. PICK d : d = Data(LostNo, LostNo)
        OBVIOUS
      <3>1. LostNo <= snd.seq /\ snd.seq = snd.curr - 1 /\ snd.curr <= LastBlock
        BY <1>2, <1>3, <1>4, AlignedIs DEF SndInv
      <3>2. LostNo < LastBlock
        BY <1>2, <1>4, <3>1
      <3>3. At(LostNo, Block(LostNo).m, Block(LostNo).k)
        BY <1>2, <3>2, BlockIs DEF CoreInv
      <3>4. /\ d.type = "data" /\ d.lo = LostNo
            /\ d.m = Block(LostNo).m /\ d.k = Block(LostNo).k
        BY <3>0 DEF Data
      <3>5. DataTrue(d)'
        <4>1. d.lo <= snd'.seq /\ At(d.lo, d.m, d.k)
          BY <1>5, <3>1, <3>3, <3>4
        <4>2. QED
          BY <4>1 DEF DataTrue
      <3>6. packets' = packets \cup {d}
        BY <2>2, <3>0 DEF Resent
      <3>7. QED
        BY <1>10, <3>4, <3>5, <3>6 DEF PktInv
    <2>3. CASE Dropped
      <3>0. PICK d : d = DropReq(LostNo, LostEnd, LostMsg)
        OBVIOUS
      <3>1. /\ d.type = "drop" /\ d.lo = LostNo /\ d.hi = LostEnd /\ d.m = LostMsg
        BY <3>0 DEF DropReq
      <3>2. packets' = packets \cup {d}
        BY <2>3, <3>0 DEF Dropped
      <3>3. LostEnd < snd.seq /\ LostEnd \in Nat /\ LostNo >= snd.ack
        BY <2>3, DropAligned DEF Dropped
      <3>4. LostMsg \in Msgs /\ LostMsg \in given'.dropped /\ LostMsg + 1 \in given'.exposed
        <4>1. LostMsg \in 1 .. made /\ made \in 0 .. Len(Lens)
          BY <2>3 DEF Dropped, CoreInv
        <4>2. QED
          BY <2>3, <4>1, Sizes DEF Dropped, Msgs
      <3>5. Start[LostMsg] <= LostNo /\ LostNo < LostEnd
        BY <2>3 DEF Dropped, In, LostEnd
      <3>6. LostEnd <= StartNo + RcvSize - 2
        <4>1. snd.seq + 1 <= StartNo + RcvSize \/ snd.seq + 1 <= snd.ack + 2
          BY <1>3 DEF SndInv
        <4>2. QED
          BY <1>2, <1>4, <3>3, <3>5, <4>1
      <3>7. LostEnd = Start[LostMsg + 1]
        BY DEF LostEnd
      <3>8. DropTrue(d)'
        BY <1>5, <1>8, <3>1, <3>3, <3>4, <3>5, <3>6, <3>7 DEF DropTrue
      <3>9. QED
        BY <1>10, <3>1, <3>2, <3>8 DEF PktInv
    <2>4. QED
      BY <1>2, <2>1, <2>2, <2>3
  <1>12. QED
    BY <1>1, <1>4, <1>5, <1>7, <1>9, <1>11, SenderSide

-----------------------------------------------------------------------------
(* The receiver, while the sender has skipped no number.                    *)

(* The unit of number StartNo + i, if there is one.                        *)
LEMMA UnitAt ==
  ASSUME CoreInv, BufInv, NEW i \in 0 .. RcvSize - 1
  PROVE  /\ Here(i) \in Units
         /\ Here(i).flag = 0 => Here(i) = NoUnit
         /\ Here(i) = NoUnit => /\ Here(i).flag = 0
                                /\ ~IsHead(Here(i)) /\ ~IsTail(Here(i))
         /\ Here(i).flag # 0 =>
              /\ Here(i).m \in Msgs /\ In(StartNo + i, Here(i).m)
              /\ Here(i).k = StartNo + i - Start[Here(i).m] + 1
              /\ StartNo + i <= rcv.seq
              /\ IsHead(Here(i)) <=> StartNo + i = Start[Here(i).m]
              /\ IsTail(Here(i)) <=> StartNo + i = Start[Here(i).m + 1] - 1
  <1>1. RcvType /\ i \in 0 .. RcvSize /\ i \in Nat /\ StartNo \in Int
    BY Sizes, CountsAre DEF CoreInv
  <1>2. Here(i) \in Units
    <2>1. Place(i) \in 0 .. RcvSize - 1
      BY <1>1, PlaceIs
    <2>2. QED
      BY <2>1 DEF BufInv, Here
  <1>3. NoUnit.flag = 0 /\ NoUnit.m = 0
    BY DEF NoUnit
  <1>4. Here(i) = NoUnit \/ ( /\ Here(i).flag # 0 /\ At(StartNo + i, Here(i).m, Here(i).k)
                              /\ StartNo + i <= rcv.seq )
    BY DEF BufInv
  <1>5. CASE Here(i) = NoUnit
    BY <1>2, <1>3, <1>5 DEF IsHead, IsTail
  <1>6. CASE Here(i).flag # 0
    <2>1. PICK x : x = Here(i)
      OBVIOUS
    <2>2. At(StartNo + i, x.m, x.k) /\ StartNo + i <= rcv.seq /\ StartNo + i \in Int
      BY <1>1, <1>3, <1>4, <1>6, <2>1
    <2>3. x.m \in Msgs /\ In(StartNo + i, x.m) /\ x.k = StartNo + i - Start[x.m] + 1
      <3>1. PICK n \in Int : n = StartNo + i
        BY <2>2
      <3>2. x.m \in Msgs /\ In(n, x.m) /\ x.k = n - Start[x.m] + 1
        BY <2>2, <3>1, AtIn
      <3>3. In(StartNo + i, x.m)
        BY <3>1, <3>2
      <3>4. x.k = StartNo + i - Start[x.m] + 1
        <4>1. Start[x.m] \in Nat
          BY <3>2, Starts
        <4>2. n - Start[x.m] + 1 = StartNo + i - Start[x.m] + 1
          BY <1>1, <3>1, <4>1
        <4>3. QED
          BY <3>2, <4>2
      <3>5. QED
        BY <3>2, <3>3, <3>4
    <2>4. /\ x.m \in Nat /\ x.m # 0 /\ Start[x.m] \in Nat /\ Lens[x.m] \in Nat
          /\ Start[x.m + 1] = Start[x.m] + Lens[x.m]
      BY <2>3, Starts DEF Msgs
    <2>5. IsHead(x) <=> StartNo + i = Start[x.m]
      BY <1>1, <2>3, <2>4 DEF IsHead
    <2>6. IsTail(x) <=> StartNo + i = Start[x.m + 1] - 1
      BY <1>1, <2>3, <2>4 DEF IsTail
    <2>7. Here(i) # NoUnit
      BY <1>3, <1>6
    <2>8. QED
      BY <1>2, <1>6, <2>1, <2>2, <2>3, <2>5, <2>6, <2>7
  <1>7. QED
    BY <1>4, <1>5, <1>6

(* The places ahead of m_iLastAckPos, counted from m_iStartPos.             *)
LEMMA AheadIs ==
  ASSUME RcvType, NEW o \in Nat, RcvDataSize + o < RcvSize
  PROVE  (rcv.ackPos + o) % RcvSize = Place(RcvDataSize + o)
  <1>1. /\ rcv.start \in Nat /\ rcv.start < RcvSize /\ rcv.ackPos \in Nat /\ rcv.ackPos < RcvSize
        /\ RcvSize \in Nat /\ RcvSize >= 1
    BY RcvFields, Sizes
  <1>2. PICK d \in Nat : d = RcvDataSize
    BY CountsAre
  <1>3. d = IF rcv.start <= rcv.ackPos THEN rcv.ackPos - rcv.start
                                       ELSE rcv.ackPos - rcv.start + RcvSize
    BY <1>2, DataSizeIs
  <1>4. d + o < RcvSize /\ o < RcvSize
    BY <1>1, <1>2
  <1>5. (rcv.ackPos + o) % RcvSize
          = IF rcv.ackPos + o < RcvSize THEN rcv.ackPos + o ELSE rcv.ackPos + o - RcvSize
    <2>1. rcv.ackPos \in 0 .. RcvSize - 1 /\ o \in 0 .. RcvSize
      BY <1>1, <1>4
    <2>2. QED
      BY <2>1, Around
  <1>6. Place(d + o)
          = IF rcv.start + (d + o) < RcvSize THEN rcv.start + (d + o)
                                             ELSE rcv.start + (d + o) - RcvSize
    <2>1. d + o \in 0 .. RcvSize
      BY <1>1, <1>4
    <2>2. QED
      BY <2>1, PlaceIs
  <1>7. (IF rcv.ackPos + o < RcvSize THEN rcv.ackPos + o ELSE rcv.ackPos + o - RcvSize)
          = IF rcv.start + (d + o) < RcvSize THEN rcv.start + (d + o)
                                             ELSE rcv.start + (d + o) - RcvSize
    BY <1>1, <1>3, <1>4
  <1>8. QED
    BY <1>2, <1>5, <1>6, <1>7

(* A call that leaves the sender alone.                                    *)
LEMMA ReceiverSide ==
  ASSUME CoreInv, SndInv, PktInv, UNCHANGED <<made, snd, sndLost, packets, given>>,
         StartNo' \in Int, StartNo <= StartNo'
  PROVE  SndInv' /\ PktInv'
  <1>1. /\ snd.seq \in Int /\ snd.ack \in Nat /\ snd.window \in Int
        /\ StartNo \in Int /\ RcvSize \in Nat
    BY SndFields, CountsAre, Sizes DEF CoreInv
  <1>2. LastBlock' = LastBlock
    BY DEF LastBlock
  <1>3. SndInv'
    <2>1. snd.seq + 1 <= StartNo' + RcvSize \/ snd.seq + 1 <= snd.ack + 2
      BY <1>1 DEF SndInv
    <2>2. snd.ack + snd.window <= StartNo' + RcvSize \/ snd.window <= 2
      BY <1>1 DEF SndInv
    <2>3. QED
      BY <1>2, <2>1, <2>2 DEF SndInv
  <1>4. PktInv'
    <2>1. snd'.seq \in Int /\ snd.seq <= snd'.seq
      BY <1>1
    <2>2. \A p \in packets : (p.type = "data" => DataTrue(p)') /\ (p.type = "drop" => DropTrue(p)')
      BY <2>1, SentStays
    <2>3. QED
      BY <2>2 DEF PktInv
  <1>5. QED
    BY <1>3, <1>4

(* What the application has had stays as it is.                            *)
LEMMA NothingRead ==
  ASSUME ReadInv, UNCHANGED <<read, given>>
  PROVE  ReadInv' /\ Delivered' = Delivered /\ \A m : Settled(m)' <=> Settled(m)
  BY DEF ReadInv, Delivered, Settled

(* An ACK: the places are the same, and more of them are acknowledged.      *)
LEMMA AckAligned ==
  ASSUME CoreInv, AlignedInv, Aligned, Ack
  PROVE  AlignedInv'
  <1>1. /\ SndInv /\ PktInv /\ BufInv /\ ArrivedInv /\ MarkedInv /\ DoneInv /\ ReadInv
        /\ RcvType /\ SndType
    BY DEF AlignedInv, CoreInv
  <1>2. /\ snd.curr \in Nat /\ snd.seq \in Int /\ snd.ack \in Nat
        /\ rcv.ack \in Nat /\ rcv.seq \in Int /\ rcv.maxPos \in Nat
        /\ RcvSize \in Nat /\ RcvSize >= 2
        /\ RcvDataSize \in Nat /\ RcvDataSize < RcvSize /\ StartNo = rcv.ack - RcvDataSize
    BY <1>1, SndFields, RcvFields, CountsAre, Sizes
  <1> DEFINE n == AckPoint - rcv.ack
  <1>3. /\ AckPoint \in Nat /\ rcv.ack <= AckPoint /\ AckPoint <= rcv.seq + 1
    BY AckPointIs
  <1>4. rcv.seq <= snd.seq /\ rcv.seq <= StartNo + RcvSize - 2 /\ StartNo >= 0
        /\ RcvDataSize + rcv.maxPos <= RcvSize - 1
    BY <1>1 DEF BufInv
  <1>5. n \in Nat /\ RcvDataSize + n < RcvSize
    BY <1>2, <1>3, <1>4
  <1>6. /\ rcv'.ack = AckPoint /\ rcv'.seq = rcv.seq /\ rcv'.start = rcv.start
        /\ rcv'.ackPos = (rcv.ackPos + n) % RcvSize
        /\ rcv'.maxPos = IF rcv.maxPos > n THEN rcv.maxPos - n ELSE 0
    BY AckStep
  <1>7. /\ snd'.ack = AckPoint /\ snd'.seq = snd.seq /\ snd'.curr = snd.curr
        /\ snd'.window = Granted(AvailBufSize')
        /\ sndLost' = {s \in sndLost : s >= AckPoint}
    BY AckStep
  <1>8. UNCHANGED <<made, given, unit, rcvLost, read, packets>>
    BY AckStep
  <1> HIDE DEF n
  <1>9. RcvDataSize' = RcvDataSize + n
    <2>1. PICK d \in Nat : d = RcvDataSize + n
      BY <1>2, <1>5
    <2>2. d \in 0 .. RcvSize - 1 /\ d \in 0 .. RcvSize /\ d < RcvSize
      BY <1>2, <1>5, <2>1
    <2>3. rcv'.ackPos = Place(d)
      BY <1>1, <1>5, <1>6, <2>1, AheadIs
    <2>4. /\ Place(d) = IF rcv.start + d < RcvSize THEN rcv.start + d ELSE rcv.start + d - RcvSize
          /\ Place(d) \in 0 .. RcvSize - 1
      BY <1>1, <2>2, PlaceIs
    <2>5. rcv.start \in 0 .. RcvSize - 1 /\ rcv.start \in Nat /\ rcv.start < RcvSize
      BY <1>1, <1>2, RcvFields
    <2>6. RcvDataSize' = (Place(d) - rcv.start + RcvSize) % RcvSize
      BY <1>6, <2>3 DEF RcvDataSize
    <2>7. RcvDataSize' = IF rcv.start <= Place(d) THEN Place(d) - rcv.start
                                                  ELSE Place(d) - rcv.start + RcvSize
      BY <2>4, <2>5, <2>6, DataSize
    <2> HIDE DEF Place
    <2>8. RcvDataSize' = d
      BY <1>2, <2>2, <2>4, <2>5, <2>7
    <2>9. QED
      BY <2>1, <2>8
  <1>10. StartNo' = StartNo
    <2>1. StartNo' = AckPoint - (RcvDataSize + n)
      BY <1>6, <1>9 DEF StartNo
    <2>2. QED
      BY <1>2, <1>3, <2>1 DEF n
  <1>11. \A i : Here(i)' = Here(i)
    BY <1>6, <1>8 DEF Here, Place
  <1>12. SndInv'
    <2>1. LastBlock' = LastBlock
      BY <1>8 DEF LastBlock
    <2>2. snd'.curr <= LastBlock' /\ snd'.ack <= snd'.curr
      <3>1. snd.seq = snd.curr - 1
        BY AlignedIs
      <3>2. snd.curr <= LastBlock
        BY <1>1 DEF SndInv
      <3>3. QED
        BY <1>2, <1>3, <1>4, <1>7, <2>1, <3>1, <3>2
    <2>3. sndLost' \subseteq snd'.ack .. snd'.seq
      <3>1. sndLost \subseteq snd.ack .. snd.seq
        BY <1>1 DEF SndInv
      <3>2. \A s \in sndLost' : s \in AckPoint .. snd.seq
        BY <1>2, <1>3, <1>7, <3>1
      <3>3. QED
        BY <1>7, <3>2
    <2>4. snd'.seq + 1 <= StartNo' + RcvSize \/ snd'.seq + 1 <= snd'.ack + 2
      <3>1. snd.seq + 1 <= StartNo + RcvSize \/ snd.seq + 1 <= snd.ack + 2
        BY <1>1 DEF SndInv
      <3>2. snd.ack <= AckPoint
        BY <1>3 DEF CoreInv
      <3>3. QED
        BY <1>2, <1>3, <1>7, <1>10, <3>1, <3>2
    <2>5. snd'.ack + snd'.window <= StartNo' + RcvSize \/ snd'.window <= 2
      <3>1. AvailBufSize' = RcvSize - (RcvDataSize + n) - 1
        BY <1>9 DEF AvailBufSize
      <3>2. PICK a \in Int : a = AvailBufSize'
        BY <1>2, <1>5, <3>1
      <3>3. snd'.window = IF a < 2 THEN 2 ELSE a
        BY <1>7, <3>2 DEF Granted
      <3>4. n \in Nat /\ n = AckPoint - rcv.ack
        BY <1>5 DEF n
      <3>5. QED
        BY <1>2, <1>3, <1>7, <1>10, <3>1, <3>2, <3>3, <3>4
    <2>6. QED
      BY <2>2, <2>3, <2>4, <2>5 DEF SndInv
  <1>13. PktInv'
    <2>1. snd'.seq \in Int /\ snd.seq <= snd'.seq /\ StartNo' \in Int /\ StartNo <= StartNo'
      BY <1>2, <1>7, <1>10
    <2>2. \A p \in packets : (p.type = "data" => DataTrue(p)') /\ (p.type = "drop" => DropTrue(p)')
      BY <1>1, <1>8, <2>1, SentStays
    <2>3. QED
      BY <1>8, <2>2 DEF PktInv
  <1>14. BufInv'
    <2>1. RcvDataSize' + rcv'.maxPos <= RcvSize - 1
      BY <1>2, <1>4, <1>5, <1>6, <1>9
    <2>2. rcv'.seq <= snd'.seq
      BY <1>4, <1>6, <1>7
    <2>3. QED
      BY <1>1, <1>6, <1>8, <1>10, <1>11, <2>1, <2>2 DEF BufInv
  <1>15. ReadInv' /\ Delivered' = Delivered /\ \A m : Settled(m)' <=> Settled(m)
    BY <1>1, <1>8, NothingRead
  <1>16. ArrivedInv' /\ MarkedInv' /\ DoneInv'
    <2>1. ArrivedInv'
      BY <1>1, <1>6, <1>8, <1>10, <1>11, <1>15 DEF ArrivedInv, Fresh
    <2>2. MarkedInv' /\ DoneInv'
      BY <1>1, <1>6, <1>10, <1>11, <1>15 DEF MarkedInv, DoneInv
    <2>3. QED
      BY <2>1, <2>2
  <1>17. QED
    BY <1>12, <1>13, <1>14, <1>15, <1>16 DEF AlignedInv

(* What was delivered are messages.                                        *)
LEMMA DeliveredAre ==
  ASSUME ReadInv
  PROVE  /\ Delivered \subseteq Msgs
         /\ \A i \in 1 .. Len(read) : read[i][1].m \in Msgs /\ read[i][1].m \in Delivered
  <1>1. read \in Seq(Seq([m : Nat, k : Nat])) /\ DOMAIN read = 1 .. Len(read)
    BY DEF ReadInv
  <1>2. ASSUME NEW i \in 1 .. Len(read) PROVE read[i][1].m \in Msgs
    <2>1. PICK m \in Msgs : read[i] = [k \in 1 .. Lens[m] |-> [m |-> m, k |-> k]]
      BY <1>2 DEF ReadInv, Whole
    <2>2. 1 \in 1 .. Lens[m]
      BY Starts
    <2>3. read[i][1] = [m |-> m, k |-> 1]
      BY <2>1, <2>2
    <2>4. QED
      BY <2>3
  <1>3. QED
    BY <1>1, <1>2 DEF Delivered

(* A data packet: the unit that comes goes to the place of its number.      *)
LEMMA DataAligned ==
  ASSUME CoreInv, AlignedInv, NEW p \in packets, RecvData(p)
  PROVE  AlignedInv'
  <1>1. /\ SndInv /\ PktInv /\ BufInv /\ ArrivedInv /\ MarkedInv /\ DoneInv /\ ReadInv
        /\ RcvType /\ SndType
    BY DEF AlignedInv, CoreInv
  <1>2. /\ snd.seq \in Int /\ rcv.ack \in Nat /\ rcv.seq \in Int /\ rcv.maxPos \in Nat
        /\ RcvSize \in Nat /\ RcvSize >= 2 /\ StartNo \in Int
        /\ RcvDataSize \in Nat /\ RcvDataSize < RcvSize /\ StartNo = rcv.ack - RcvDataSize
        /\ AvailBufSize = RcvSize - RcvDataSize - 1
    BY <1>1, SndFields, RcvFields, CountsAre, Sizes
  <1>3. UNCHANGED <<made, snd, sndLost, given, packets, read>>
    BY DataStep
  <1>4. ReadInv' /\ Delivered' = Delivered /\ \A m : Settled(m)' <=> Settled(m)
    BY <1>1, <1>3, NothingRead
  <1>5. CASE ~InRoom(p)
    <2>1. UNCHANGED <<unit, rcv, rcvLost>>
      BY <1>5, DataStep
    <2>2. snd'.seq \in Int /\ snd.seq <= snd'.seq
      BY <1>2, <1>3
    <2>3. StartNo' \in Int /\ StartNo <= StartNo'
      <3>1. StartNo' = StartNo
        BY <2>1 DEF StartNo, RcvDataSize
      <3>2. QED
        BY <1>2, <3>1
    <2>4. SndInv' /\ PktInv'
      BY <1>1, <1>3, <2>3, ReceiverSide
    <2>5. QED
      BY <1>3, <2>1, <2>2, <2>4, SenderSide
  <1>6. CASE InRoom(p)
    <2>1. /\ rcv'.start = rcv.start /\ rcv'.ackPos = rcv.ackPos
          /\ rcv'.ack = rcv.ack /\ rcv'.maxPos = Most(p)
          /\ p.lo \in Nat /\ p.lo - rcv.ack \in Nat
      BY <1>6, DataFields
    <2>2. RcvDataSize' = RcvDataSize /\ StartNo' = StartNo /\ \A i : Place(i)' = Place(i)
      BY <2>1 DEF StartNo, RcvDataSize, Place
    <2>3. SndInv' /\ PktInv'
      BY <1>1, <1>2, <1>3, <2>2, ReceiverSide
    <2>4. p.lo - rcv.ack < AvailBufSize /\ p.lo <= StartNo + RcvSize - 2
      BY <1>2, <1>6, <2>1 DEF InRoom
    <2>5. p.lo <= snd.seq /\ At(p.lo, p.m, p.k)
      BY <1>1, DataStep DEF PktInv, DataTrue
    <2>6. StartNo >= 0 /\ rcv.seq <= snd.seq /\ rcv.seq <= StartNo + RcvSize - 2
          /\ RcvDataSize + rcv.maxPos <= RcvSize - 1 /\ unit \in [0 .. RcvSize - 1 -> Units]
      BY <1>1 DEF BufInv
    <2>7. RcvDataSize' + rcv'.maxPos <= RcvSize - 1
      BY <1>2, <2>1, <2>2, <2>4, <2>6 DEF Most
    <2>8. CASE unit[Shown(p)].flag # 0
      <3>1. UNCHANGED <<unit, rcvLost>> /\ rcv'.seq = rcv.seq
        BY <1>6, <2>8, DataStep, DataFields
      <3>2. \A i : Here(i)' = Here(i)
        BY <2>2, <3>1 DEF Here
      <3>3. BufInv'
        BY <1>1, <1>3, <2>2, <2>7, <3>1, <3>2 DEF BufInv
      <3>4. ArrivedInv'
        BY <1>1, <1>4, <2>2, <3>1, <3>2 DEF ArrivedInv, Fresh
      <3>5. MarkedInv' /\ DoneInv'
        BY <1>1, <1>4, <2>2, <3>1, <3>2 DEF MarkedInv, DoneInv
      <3>6. QED
        BY <1>4, <2>3, <3>3, <3>4, <3>5 DEF AlignedInv
    <2>9. CASE unit[Shown(p)].flag = 0
      <3>1. /\ unit' = [unit EXCEPT ![Shown(p)] = [m |-> p.m, k |-> p.k, flag |-> 1]]
            /\ rcvLost' = (rcvLost \cup (rcv.seq + 1 .. p.lo - 1)) \ {p.lo}
        BY <1>6, <2>9, DataStep
      <3>2. rcv'.seq = IF p.lo > rcv.seq THEN p.lo ELSE rcv.seq
        BY <1>6, <2>9, DataFields DEF Newest
      <3>3. PICK j \in Nat : j = p.lo - StartNo /\ j = RcvDataSize + (p.lo - rcv.ack)
        BY <1>2, <2>1
      <3>4. j \in 0 .. RcvSize - 1 /\ j < RcvSize /\ StartNo + j = p.lo
        BY <1>2, <2>1, <2>4, <3>3
      <3>5. Shown(p) = Place(j)
        BY <1>1, <2>1, <3>3, <3>4, AheadIs DEF Shown
      <3>6. PICK u : u = [m |-> p.m, k |-> p.k, flag |-> 1]
        OBVIOUS
      <3>7. u \in Units /\ u.m = p.m /\ u.k = p.k /\ u.flag = 1
        <4>1. p \in Packets
          BY DEF CoreInv
        <4>2. QED
          BY <3>6, <4>1 DEF Packets, Units
      <3>8. unit' \in [0 .. RcvSize - 1 -> Units]
        BY <2>6, <3>1, <3>6, <3>7
      <3>9. \A i \in 0 .. RcvSize - 1 : Place(i) \in 0 .. RcvSize - 1
        <4>1. \A i \in 0 .. RcvSize - 1 : i \in 0 .. RcvSize
          BY <1>2
        <4>2. QED
          BY <1>1, <4>1, PlaceIs
      <3>10. Here(j)' = u
        <4>1. Here(j)' = unit'[Place(j)]
          BY <2>2 DEF Here
        <4>2. QED
          BY <2>6, <3>1, <3>4, <3>5, <3>6, <3>9, <4>1
      <3>11. ASSUME NEW i \in 0 .. RcvSize - 1, i # j PROVE Here(i)' = Here(i)
        <4>1. Place(i) # Place(j)
          BY <1>1, <3>4, <3>11, OnePlace
        <4>2. Here(i)' = unit'[Place(i)]
          BY <2>2 DEF Here
        <4>3. Here(i) = unit[Place(i)]
          BY DEF Here
        <4>4. QED
          BY <2>6, <3>1, <3>5, <3>9, <4>1, <4>2, <4>3
      <3>12. Here(j).flag = 0
        BY <2>9, <3>5 DEF Here
      <3>13. rcv'.seq \in Int /\ rcv.seq <= rcv'.seq /\ p.lo <= rcv'.seq
             /\ rcv'.seq <= snd.seq /\ rcv'.seq <= StartNo + RcvSize - 2
        BY <1>2, <2>1, <2>4, <2>5, <2>6, <3>2
      <3>14. BufInv'
        <4>1. ASSUME NEW i \in 0 .. RcvSize - 1
              PROVE  \/ Here(i)' = NoUnit
                     \/ /\ Here(i)'.flag # 0 /\ At(StartNo + i, Here(i)'.m, Here(i)'.k)
                        /\ StartNo + i <= rcv'.seq
          <5>1. CASE i = j
            BY <2>5, <3>4, <3>7, <3>10, <3>13, <5>1
          <5>2. CASE i # j
            <6>1. \/ Here(i) = NoUnit
                  \/ /\ Here(i).flag # 0 /\ At(StartNo + i, Here(i).m, Here(i).k)
                     /\ StartNo + i <= rcv.seq
              BY <1>1 DEF BufInv
            <6>2. StartNo + i \in Int
              BY <1>2
            <6>3. StartNo + i <= rcv.seq => StartNo + i <= rcv'.seq
              BY <1>2, <3>13, <6>2
            <6>4. QED
              BY <3>11, <5>2, <6>1, <6>3
          <5>3. QED
            BY <5>1, <5>2
        <4>2. rcv'.seq <= snd'.seq
          BY <1>3, <3>13
        <4>3. QED
          BY <2>2, <2>6, <2>7, <3>8, <3>13, <4>1, <4>2 DEF BufInv
      <3>15. \A n \in StartNo .. rcv.seq : n - StartNo \in 0 .. RcvSize - 1
        <4>1. ASSUME NEW n \in StartNo .. rcv.seq PROVE n - StartNo \in 0 .. RcvSize - 1
          <5>1. n \in Int /\ StartNo <= n /\ n <= StartNo + RcvSize - 2
            BY <1>2, <2>6, <4>1
          <5>2. QED
            BY <1>2, <5>1
        <4>2. QED
          BY <4>1
      <3>16. ArrivedInv'
        <4>1. ASSUME NEW m \in Msgs, ~Settled(m), NEW n \in StartNo .. rcv'.seq, In(n, m),
                     n \notin rcvLost'
              PROVE  Fresh(n - StartNo)'
          <5>1. n \in Int /\ StartNo <= n /\ n <= rcv'.seq
            BY <1>2, <3>13, <4>1
          <5>2. PICK i \in Nat : i = n - StartNo
            BY <1>2, <5>1
          <5>3. CASE n = p.lo
            <6>1. i = j
              BY <1>2, <3>3, <5>2, <5>3
            <6>2. Here(i)'.flag = 1
              BY <3>7, <3>10, <6>1
            <6>3. QED
              BY <2>2, <5>2, <6>2 DEF Fresh, Here
          <5>4. CASE n # p.lo
            <6>1. n \notin rcvLost /\ n \notin rcv.seq + 1 .. p.lo - 1
              BY <3>1, <4>1, <5>4
            <6>2. n <= rcv.seq
              BY <1>2, <2>1, <3>2, <5>1, <5>4, <6>1
            <6>3. n \in StartNo .. rcv.seq
              BY <1>2, <5>1, <6>2
            <6>4. Fresh(i)
              BY <1>1, <4>1, <5>2, <6>1, <6>3 DEF ArrivedInv
            <6>5. i \in 0 .. RcvSize - 1 /\ i # j
              <7>1. i \in 0 .. RcvSize - 1
                BY <3>15, <5>2, <6>3
              <7>2. i # j
                BY <1>2, <2>1, <3>3, <5>1, <5>2, <5>4
              <7>3. QED
                BY <7>1, <7>2
            <6>6. Here(i)'.flag = 1
              BY <3>11, <6>4, <6>5 DEF Fresh
            <6>7. QED
              BY <2>2, <5>2, <6>6 DEF Fresh, Here
          <5>5. QED
            BY <5>3, <5>4
        <4>2. \A m \in Msgs : ~Settled(m) => Start[m] >= StartNo
          BY <1>1 DEF ArrivedInv
        <4>3. QED
          BY <1>4, <2>2, <4>1, <4>2 DEF ArrivedInv, Fresh
      <3>17. ASSUME NEW m \in Delivered PROVE m \in Msgs /\ Start[m + 1] - 1 <= rcv.seq
                                              /\ Start[m + 1] \in Nat
        <4>1. m \in Msgs
          BY <1>1, <3>17, DeliveredAre
        <4>2. QED
          BY <1>1, <4>1, Starts DEF DoneInv
      <3>18. MarkedInv'
        <4>1. ASSUME NEW m \in Delivered, NEW n \in StartNo .. rcv'.seq, In(n, m)
              PROVE  Here(n - StartNo)'.flag \in {2, 3}
          <5>1. n \in Int /\ StartNo <= n /\ n < Start[m + 1]
            BY <1>2, <3>13, <4>1 DEF In
          <5>2. n <= rcv.seq
            BY <1>2, <3>17, <5>1
          <5>3. n \in StartNo .. rcv.seq
            BY <1>2, <5>1, <5>2
          <5>4. PICK i \in 0 .. RcvSize - 1 : i = n - StartNo
            BY <3>15, <5>3
          <5>5. Here(i).flag \in {2, 3}
            BY <1>1, <4>1, <5>3, <5>4 DEF MarkedInv
          <5>6. i # j
            BY <3>12, <5>5
          <5>7. Here(i)'.flag \in {2, 3}
            BY <3>11, <5>5, <5>6
          <5>8. QED
            BY <2>2, <5>4, <5>7 DEF Here
        <4>2. QED
          BY <1>4, <2>2, <4>1 DEF MarkedInv, Here
      <3>19. DoneInv'
        <4>1. \A m \in Delivered : Start[m + 1] - 1 <= rcv'.seq
          <5>1. ASSUME NEW m \in Delivered PROVE Start[m + 1] - 1 <= rcv'.seq
            BY <1>2, <3>13, <3>17
          <5>2. QED
            BY <5>1
        <4>2. QED
          BY <1>4, <4>1 DEF DoneInv
      <3>20. QED
        BY <1>4, <2>3, <3>14, <3>16, <3>18, <3>19 DEF AlignedInv
    <2>10. QED
      BY <2>8, <2>9
  <1>7. QED
    BY <1>5, <1>6

(* A drop request: units of its message are marked, and none else.          *)
LEMMA DropReqAligned ==
  ASSUME CoreInv, AlignedInv, NEW p \in packets, RecvDrop(p)
  PROVE  AlignedInv'
  <1>1. /\ SndInv /\ PktInv /\ BufInv /\ ArrivedInv /\ MarkedInv /\ DoneInv /\ ReadInv
        /\ RcvType /\ SndType
    BY DEF AlignedInv, CoreInv
  <1>2. /\ snd.seq \in Int /\ rcv.ack \in Nat /\ rcv.seq \in Int /\ RcvSize \in Nat
        /\ StartNo \in Int
    BY <1>1, SndFields, RcvFields, CountsAre, Sizes
  <1>3. /\ rcv'.start = rcv.start /\ rcv'.ackPos = rcv.ackPos
        /\ rcv'.ack = rcv.ack /\ rcv'.maxPos = rcv.maxPos
        /\ rcv'.seq = IF p.lo <= rcv.seq + 1 /\ p.hi > rcv.seq THEN p.hi ELSE rcv.seq
        /\ rcvLost' = rcvLost \ (p.lo .. p.hi)
        /\ p.lo \in Nat /\ p.hi \in Nat /\ p.type = "drop"
    BY DropStep
  <1>4. UNCHANGED <<made, snd, sndLost, given, packets, read>>
    BY DropStep
  <1>5. ReadInv' /\ Delivered' = Delivered /\ \A m : Settled(m)' <=> Settled(m)
    BY <1>1, <1>4, NothingRead
  <1>6. RcvDataSize' = RcvDataSize /\ StartNo' = StartNo /\ \A i : Place(i)' = Place(i)
    BY <1>3 DEF StartNo, RcvDataSize, Place
  <1>7. SndInv' /\ PktInv'
    BY <1>1, <1>2, <1>4, <1>6, ReceiverSide
  <1>8. /\ p.m \in Msgs /\ Settled(p.m) /\ Settled(p.m + 1)
        /\ Start[p.m] <= p.lo /\ p.lo < p.hi /\ p.hi = Start[p.m + 1]
        /\ p.hi < snd.seq /\ p.hi <= StartNo + RcvSize - 2
    BY <1>1, <1>3 DEF PktInv, DropTrue, Settled
  <1>9. /\ rcv'.seq \in Int /\ rcv.seq <= rcv'.seq
        /\ rcv'.seq <= snd.seq /\ rcv'.seq <= StartNo + RcvSize - 2
    <2>1. rcv.seq <= snd.seq /\ rcv.seq <= StartNo + RcvSize - 2
      BY <1>1 DEF BufInv
    <2>2. QED
      BY <1>2, <1>3, <1>8, <2>1
  <1>10. unit \in [0 .. RcvSize - 1 -> Units]
    BY <1>1 DEF BufInv
  <1>11. /\ unit' \in [0 .. RcvSize - 1 -> Units]
         /\ \A x \in 0 .. RcvSize - 1 :
              \/ unit'[x] = unit[x]
              \/ /\ unit[x].flag # 0 /\ unit[x].m = p.m
                 /\ unit'[x] = [unit[x] EXCEPT !.flag = 3]
    <2>1. PICK range : unit' = [x \in DOMAIN unit |->
                                  IF x \in range /\ DropsUnit(unit[x], p)
                                    THEN [unit[x] EXCEPT !.flag = 3] ELSE unit[x]]
      BY DEF RecvDrop
    <2>2. \A u \in Units : [u EXCEPT !.flag = 3] \in Units
      BY DEF Units
    <2>3. ASSUME NEW x \in 0 .. RcvSize - 1
          PROVE  /\ unit'[x] \in Units
                 /\ \/ unit'[x] = unit[x]
                    \/ /\ unit[x].flag # 0 /\ unit[x].m = p.m
                       /\ unit'[x] = [unit[x] EXCEPT !.flag = 3]
      <3>1. unit'[x] = IF x \in range /\ DropsUnit(unit[x], p)
                         THEN [unit[x] EXCEPT !.flag = 3] ELSE unit[x]
        BY <1>10, <2>1, <2>3
      <3>2. unit[x] \in Units
        BY <1>10, <2>3
      <3>3. QED
        BY <2>2, <3>1, <3>2 DEF DropsUnit
    <2>4. unit' \in [0 .. RcvSize - 1 -> Units]
      BY <1>10, <2>1, <2>3
    <2>5. QED
      BY <2>3, <2>4
  <1>12. ASSUME NEW i \in 0 .. RcvSize - 1
         PROVE  \/ Here(i)' = Here(i)
                \/ /\ Here(i).flag # 0 /\ Here(i).m = p.m /\ Here(i)'.flag = 3
                   /\ Here(i)'.m = Here(i).m /\ Here(i)'.k = Here(i).k
    <2>1. i \in 0 .. RcvSize
      BY <1>2, <1>12
    <2>2. Place(i) \in 0 .. RcvSize - 1
      BY <1>1, <2>1, PlaceIs
    <2>3. Here(i)' = unit'[Place(i)] /\ Here(i) = unit[Place(i)]
      BY <1>6 DEF Here
    <2>4. PICK u \in Units : u = unit[Place(i)]
      BY <1>10, <2>2
    <2>5. PICK v : v = unit'[Place(i)]
      OBVIOUS
    <2>6. v = u \/ (u.flag # 0 /\ u.m = p.m /\ v = [u EXCEPT !.flag = 3])
      BY <1>11, <2>2, <2>4, <2>5
    <2>7. v = u \/ (u.flag # 0 /\ u.m = p.m /\ v.flag = 3 /\ v.m = u.m /\ v.k = u.k)
      BY <2>6 DEF Units
    <2>8. QED
      BY <2>3, <2>4, <2>5, <2>7
  <1>13. BufInv'
    <2>1. ASSUME NEW i \in 0 .. RcvSize - 1
          PROVE  \/ Here(i)' = NoUnit
                 \/ /\ Here(i)'.flag # 0 /\ At(StartNo + i, Here(i)'.m, Here(i)'.k)
                    /\ StartNo + i <= rcv'.seq
      <3>1. \/ Here(i) = NoUnit
            \/ /\ Here(i).flag # 0 /\ At(StartNo + i, Here(i).m, Here(i).k)
               /\ StartNo + i <= rcv.seq
        BY <1>1 DEF BufInv
      <3>2. NoUnit.flag = 0
        BY DEF NoUnit
      <3>3. StartNo + i \in Int
        BY <1>2
      <3>4. StartNo + i <= rcv.seq => StartNo + i <= rcv'.seq
        BY <1>2, <1>9, <3>3
      <3>5. QED
        BY <1>12, <3>1, <3>2, <3>4
    <2>2. StartNo >= 0 /\ RcvDataSize + rcv.maxPos <= RcvSize - 1
      BY <1>1 DEF BufInv
    <2>3. rcv'.seq <= snd'.seq
      BY <1>4, <1>9
    <2>4. QED
      BY <1>3, <1>6, <1>9, <1>11, <2>1, <2>2, <2>3 DEF BufInv
  <1>14. \A n \in StartNo .. rcv'.seq : n \in Int /\ n - StartNo \in 0 .. RcvSize - 1
    <2>1. ASSUME NEW n \in StartNo .. rcv'.seq
          PROVE  n \in Int /\ n - StartNo \in 0 .. RcvSize - 1
      <3>1. n \in Int /\ StartNo <= n /\ n <= StartNo + RcvSize - 2
        BY <1>2, <1>9, <2>1
      <3>2. QED
        BY <1>2, <3>1
    <2>2. QED
      BY <2>1
  <1>15. ArrivedInv'
    <2>1. ASSUME NEW m \in Msgs, ~Settled(m), NEW n \in StartNo .. rcv'.seq, In(n, m),
                 n \notin rcvLost'
          PROVE  Fresh(n - StartNo)'
      <3>1. PICK i \in 0 .. RcvSize - 1 : i = n - StartNo
        BY <1>14
      <3>2. /\ n \in Int /\ StartNo <= n /\ n <= rcv'.seq /\ StartNo + i = n
        BY <1>2, <1>9, <1>14, <3>1
      <3>3. ~(p.lo <= n /\ n <= p.hi)
        <4>1. SUFFICES ASSUME p.lo <= n, n <= p.hi PROVE FALSE
          OBVIOUS
        <4>2. p.m \in Nat /\ Start[p.m] \in Nat /\ Start[p.m + 1] \in Nat /\ Len(Lens) \in Nat
              /\ m \in Nat
          BY <1>8, Starts
        <4>3. CASE n < p.hi
          <5>1. In(n, p.m)
            BY <1>3, <1>8, <3>2, <4>1, <4>2, <4>3 DEF In
          <5>2. m = p.m
            BY <1>8, <2>1, <3>2, <5>1, OneMessage
          <5>3. QED
            BY <1>8, <2>1, <5>2
        <4>4. CASE n = p.hi
          <5>1. n = Start[p.m + 1]
            BY <1>8, <4>4
          <5>2. Start[m] <= n /\ n < Start[m + 1] /\ Start[m] \in Nat /\ Start[m + 1] \in Nat
            BY <2>1, Starts DEF In
          <5>3. CASE m < p.m + 1
            <6>1. m + 1 <= p.m + 1 /\ m + 1 \in 1 .. Len(Lens) + 1 /\ p.m + 1 \in 1 .. Len(Lens) + 1
              BY <1>8, <2>1, <4>2, <5>3 DEF Msgs
            <6>2. Start[m + 1] <= Start[p.m + 1]
              BY <6>1, Later
            <6>3. QED
              BY <3>2, <4>2, <5>1, <5>2, <6>2
          <5>4. CASE m = p.m + 1
            BY <1>8, <2>1, <5>4
          <5>5. CASE m > p.m + 1
            <6>1. p.m + 1 \in Msgs /\ (p.m + 1) + 1 <= m /\ m \in 1 .. Len(Lens) + 1
                  /\ (p.m + 1) + 1 \in 1 .. Len(Lens) + 1
              BY <1>8, <2>1, <4>2, <5>5 DEF Msgs
            <6>2. Start[(p.m + 1) + 1] <= Start[m]
              BY <6>1, Later
            <6>3. /\ Start[(p.m + 1) + 1] = Start[p.m + 1] + Lens[p.m + 1]
                  /\ Lens[p.m + 1] \in Nat /\ Lens[p.m + 1] >= 1
              BY <6>1, Starts
            <6>4. PICK f, g, h, d : /\ f = Start[p.m + 1] /\ g = Start[(p.m + 1) + 1]
                                    /\ h = Start[m] /\ d = Lens[p.m + 1]
              OBVIOUS
            <6>5. n = f /\ h <= n /\ g <= h /\ g = f + d /\ d >= 1
              BY ONLY <5>1, <5>2, <6>2, <6>3, <6>4
            <6>6. n \in Int /\ f \in Int /\ h \in Int /\ d \in Int
              BY ONLY <3>2, <4>2, <5>2, <6>3, <6>4
            <6>7. QED
              BY ONLY <6>5, <6>6
          <5>6. QED
            BY <4>2, <5>3, <5>4, <5>5
        <4>5. QED
          BY <1>3, <3>2, <4>1, <4>3, <4>4
      <3>4. n \notin p.lo .. p.hi
        BY <1>3, <3>2, <3>3
      <3>5. n \notin rcvLost
        BY <1>3, <2>1, <3>4
      <3>6. n \in StartNo .. rcv.seq
        BY <1>2, <1>3, <3>2, <3>3
      <3>7. Here(i).flag = 1
        BY <1>1, <2>1, <3>1, <3>5, <3>6 DEF ArrivedInv, Fresh
      <3>8. Here(i).m = m
        <4>1. Here(i).m \in Msgs /\ In(StartNo + i, Here(i).m)
          BY <1>1, <3>7, UnitAt
        <4>2. QED
          BY <2>1, <3>2, <4>1, OneMessage
      <3>9. m # p.m
        BY <1>8, <2>1
      <3>10. Here(i)'.flag = 1
        BY <1>12, <3>7, <3>8, <3>9
      <3>11. QED
        BY <1>6, <3>1, <3>10 DEF Fresh, Here
    <2>2. \A m \in Msgs : ~Settled(m) => Start[m] >= StartNo
      BY <1>1 DEF ArrivedInv
    <2>3. QED
      BY <1>5, <1>6, <2>1, <2>2 DEF ArrivedInv, Fresh
  <1>16. \A m \in Delivered : m \in Msgs /\ Start[m + 1] - 1 <= rcv.seq /\ Start[m + 1] \in Nat
    BY <1>1, DeliveredAre, Starts DEF DoneInv
  <1>17. MarkedInv'
    <2>1. ASSUME NEW m \in Delivered, NEW n \in StartNo .. rcv'.seq, In(n, m)
          PROVE  Here(n - StartNo)'.flag \in {2, 3}
      <3>1. PICK i \in 0 .. RcvSize - 1 : i = n - StartNo
        BY <1>14
      <3>2. n \in Int /\ StartNo <= n /\ n < Start[m + 1]
        BY <1>2, <1>9, <1>14, <2>1 DEF In
      <3>3. n \in StartNo .. rcv.seq
        BY <1>2, <1>16, <3>2
      <3>4. Here(i).flag \in {2, 3}
        BY <1>1, <2>1, <3>1, <3>3 DEF MarkedInv
      <3>5. Here(i)'.flag \in {2, 3}
        BY <1>12, <3>4
      <3>6. QED
        BY <1>6, <3>1, <3>5 DEF Here
    <2>2. QED
      BY <1>5, <1>6, <2>1 DEF MarkedInv, Here
  <1>18. DoneInv'
    <2>1. ASSUME NEW m \in Delivered PROVE Start[m + 1] - 1 <= rcv'.seq
      BY <1>2, <1>9, <1>16
    <2>2. QED
      BY <1>5, <2>1 DEF DoneInv
  <1>19. QED
    BY <1>5, <1>7, <1>13, <1>15, <1>17, <1>18 DEF AlignedInv

-----------------------------------------------------------------------------
(* What recvmsg returns.                                                   *)

(* A later message starts after the end of this one.                       *)
LEMMA After ==
  ASSUME NEW a \in Msgs, NEW b \in Msgs
  PROVE  /\ a < b <=> Start[a] < Start[b]
         /\ a < b => Start[a + 1] <= Start[b]
         /\ Start[a] < Start[a + 1]
  <1>1. /\ a \in Nat /\ b \in Nat /\ Len(Lens) \in Nat
        /\ Start[a] \in Nat /\ Start[b] \in Nat /\ Start[a + 1] \in Nat
        /\ Start[a + 1] = Start[a] + Lens[a] /\ Lens[a] \in Nat /\ Lens[a] >= 1
    BY Starts
  <1>2. a < b => Start[a + 1] <= Start[b]
    <2>1. ASSUME a < b PROVE Start[a + 1] <= Start[b]
      <3>1. a + 1 \in 1 .. Len(Lens) + 1 /\ b \in 1 .. Len(Lens) + 1 /\ a + 1 <= b
        BY <1>1, <2>1 DEF Msgs
      <3>2. QED
        BY <3>1, Later
    <2>2. QED
      BY <2>1
  <1>3. b <= a => Start[b] <= Start[a]
    <2>1. ASSUME b <= a PROVE Start[b] <= Start[a]
      <3>1. a \in 1 .. Len(Lens) + 1 /\ b \in 1 .. Len(Lens) + 1
        BY <1>1 DEF Msgs
      <3>2. QED
        BY <2>1, <3>1, Later
    <2>2. QED
      BY <2>1
  <1>4. QED
    BY <1>1, <1>2, <1>3

(* What is acknowledged of a message that is not settled has come.          *)
LEMMA AckedFresh ==
  ASSUME CoreInv, BufInv, ArrivedInv, NEW m \in Msgs, ~Settled(m),
         NEW j \in Nat, j < RcvDataSize, In(StartNo + j, m)
  PROVE  Fresh(j) /\ Here(j).flag = 1 /\ Here(j).m = m /\ j \in 0 .. RcvSize - 1
  <1>1. /\ RcvDataSize \in Nat /\ RcvDataSize < RcvSize /\ StartNo = rcv.ack - RcvDataSize
        /\ StartNo \in Int /\ RcvSize \in Nat /\ rcv.ack \in Nat /\ rcv.seq \in Int
        /\ rcv.ack <= rcv.seq + 1 /\ rcvLost \subseteq rcv.ack .. rcv.seq
    BY RcvFields, CountsAre, Sizes DEF CoreInv
  <1>2. PICK n \in Int : n = StartNo + j
    BY <1>1
  <1>3. n \in StartNo .. rcv.seq /\ n < rcv.ack /\ n - StartNo = j
    BY <1>1, <1>2
  <1>4. n \notin rcvLost
    BY <1>1, <1>3
  <1>5. Fresh(j)
    BY <1>2, <1>3, <1>4 DEF ArrivedInv
  <1>6. Here(j).flag = 1 /\ j \in 0 .. RcvSize - 1
    BY <1>1, <1>5 DEF Fresh
  <1>7. Here(j).m = m
    <2>1. Here(j).m \in Msgs /\ In(StartNo + j, Here(j).m)
      BY <1>6, UnitAt
    <2>2. QED
      BY <1>2, <2>1, OneMessage
  <1>8. QED
    BY <1>5, <1>6, <1>7

(* So recvmsg does not skip it.                                            *)
LEMMA NotSkipped ==
  ASSUME CoreInv, BufInv, ArrivedInv, NEW m \in Msgs, ~Settled(m)
  PROVE  Start[m] >= StartNo + Skipped
  <1>1. /\ RcvDataSize \in Nat /\ RcvDataSize < RcvSize /\ StartNo \in Int /\ RcvSize \in Nat
        /\ Start[m] \in Nat /\ Start[m + 1] \in Nat /\ Start[m] < Start[m + 1]
        /\ Skipped \in Nat /\ Skipped <= RcvDataSize
    BY CountsAre, SkippedIs, Sizes, Starts, After DEF CoreInv
  <1>2. Start[m] >= StartNo
    BY DEF ArrivedInv
  <1>3. PICK i \in Nat : i = Start[m] - StartNo /\ StartNo + i = Start[m]
    BY <1>1, <1>2
  <1>4. CASE i >= RcvDataSize
    BY <1>1, <1>3, <1>4
  <1>5. CASE i < RcvDataSize
    <2>1. Fresh(i) /\ Here(i).flag = 1 /\ Here(i).m = m /\ i \in 0 .. RcvSize - 1
      <3>1. In(StartNo + i, m)
        BY <1>1, <1>3 DEF In
      <3>2. QED
        BY <1>5, <3>1, AckedFresh
    <2>2. IsHead(Here(i))
      BY <1>3, <2>1, UnitAt
    <2>3. ASSUME NEW e \in i .. RcvDataSize - 1, \A f \in i .. e - 1 : ~IsTail(Here(f))
          PROVE  Fresh(e)
      <3>1. e \in Nat /\ i <= e /\ e < RcvDataSize
        BY <1>1, <2>3
      <3>2. CASE StartNo + e < Start[m + 1]
        <4>1. In(StartNo + e, m)
          BY <1>1, <1>3, <3>1, <3>2 DEF In
        <4>2. QED
          BY <3>1, <4>1, AckedFresh
      <3>3. CASE ~(StartNo + e < Start[m + 1])
        <4>1. PICK f \in Nat : f = Start[m + 1] - 1 - StartNo /\ f >= i /\ f < e
                               /\ StartNo + f = Start[m + 1] - 1
          BY <1>1, <1>3, <3>1, <3>3
        <4>2. In(StartNo + f, m) /\ f < RcvDataSize /\ f \in i .. e - 1
          BY <1>1, <1>3, <3>1, <4>1 DEF In
        <4>3. Here(f).flag = 1 /\ Here(f).m = m /\ f \in 0 .. RcvSize - 1
          BY <4>2, AckedFresh
        <4>4. IsTail(Here(f))
          BY <4>1, <4>3, UnitAt
        <4>5. QED
          BY <2>3, <4>2, <4>4
      <3>4. QED
        BY <3>2, <3>3
    <2>4. Good(i)
      BY <2>1, <2>2, <2>3 DEF Good
    <2>5. i \in 0 .. RcvDataSize
      BY <1>1, <1>5
    <2>6. Skipped <= i
      BY <2>4, <2>5, SkippedIs DEF CoreInv
    <2>7. QED
      BY <1>1, <1>3, <2>6
  <1>6. QED
    BY <1>1, <1>4, <1>5

(* The message from P to Q is a whole one.                                 *)
FoundMsg == Here(P).m

LEMMA FoundWhole ==
  ASSUME CoreInv, BufInv, Finds # {}
  PROVE  /\ FoundMsg \in Msgs /\ StartNo + P = Start[FoundMsg]
         /\ StartNo + Q = Start[FoundMsg + 1] - 1 /\ Q < RcvSize /\ StartNo + Q <= rcv.seq
         /\ \A i \in P .. Q : /\ i \in 0 .. RcvSize - 1 /\ Here(i).flag = 1
                              /\ Here(i).m = FoundMsg /\ Here(i).k = i - P + 1
  <1>1. RcvType
    BY DEF CoreInv
  <1>2. /\ Q \in Nat /\ Q <= RcvDataSize + rcv.maxPos /\ Complete(Q)
        /\ P \in Heads(Q) /\ P \in Nat /\ Skipped <= P /\ P <= Q
        /\ \A h \in Heads(Q) : h <= P
    BY <1>1, FindsIs
  <1>3. /\ RcvDataSize \in Nat /\ rcv.maxPos \in Nat /\ RcvSize \in Nat /\ StartNo \in Int
        /\ Skipped \in Nat /\ rcv.seq \in Int
    BY <1>1, CountsAre, RcvFields, Sizes, SkippedIs
  <1>4. Q < RcvSize
    <2>1. RcvDataSize + rcv.maxPos <= RcvSize - 1
      BY DEF BufInv
    <2>2. QED
      BY <1>2, <1>3, <2>1
  <1>5. \A i \in P .. Q : i \in 0 .. RcvSize - 1
    BY <1>2, <1>3, <1>4
  <1>6. IsHead(Here(P)) /\ \A j \in P .. Q : Fresh(j)
    BY <1>2 DEF Heads
  <1>7. \A j \in P .. Q : Here(j).flag = 1
    BY <1>6 DEF Fresh
  <1>8. P \in P .. Q /\ Q \in P .. Q
    BY <1>2
  <1>9. PICK m : m = FoundMsg
    OBVIOUS
  <1>10. m \in Msgs /\ StartNo + P = Start[m]
    BY <1>5, <1>6, <1>7, <1>8, <1>9, UnitAt DEF FoundMsg
  <1>11. PICK o : o = Here(Q).m
    OBVIOUS
  <1>12. /\ o \in Msgs /\ In(StartNo + Q, o) /\ StartNo + Q <= rcv.seq
         /\ StartNo + Q = Start[o + 1] - 1
    <2>1. IsTail(Here(Q)) /\ Here(Q).flag # 0
      BY <1>2, <1>7, <1>8 DEF Complete
    <2>2. QED
      BY <1>5, <1>8, <1>11, <2>1, UnitAt
  <1>13. /\ Start[m] \in Nat /\ Start[m + 1] \in Nat /\ Start[m] < Start[m + 1] /\ m \in Nat
         /\ Start[o] \in Nat /\ Start[o + 1] \in Nat
    BY <1>10, <1>12, Starts, After
  <1>14. StartNo + Q < Start[m + 1]
    <2>1. SUFFICES ASSUME ~(StartNo + Q < Start[m + 1]) PROVE FALSE
      OBVIOUS
    <2>2. PICK j \in Nat : j = Start[m + 1] - StartNo /\ P < j /\ j <= Q
                           /\ StartNo + j = Start[m + 1]
      BY <1>2, <1>3, <1>10, <1>13, <2>1
    <2>3. j \in P .. Q
      BY <1>2, <2>2
    <2>4. PICK w : w = Here(j).m
      OBVIOUS
    <2>5. w \in Msgs /\ In(StartNo + j, w) /\ (IsHead(Here(j)) <=> StartNo + j = Start[w])
      <3>1. Here(j).flag # 0 /\ j \in 0 .. RcvSize - 1
        BY <1>5, <1>7, <2>3
      <3>2. QED
        BY <2>4, <3>1, UnitAt
    <2>6. /\ Start[w] \in Nat /\ Start[w + 1] \in Nat /\ w \in Nat
          /\ Start[w] <= Start[m + 1] /\ Start[m + 1] < Start[w + 1]
      BY <2>2, <2>5, Starts DEF In
    <2>7. Start[w] = Start[m + 1]
      <3>1. CASE w < m
        <4>1. Start[w + 1] <= Start[m]
          BY <1>10, <2>5, <3>1, After
        <4>2. QED
          BY <1>13, <2>6, <4>1
      <3>2. CASE w = m
        BY <1>13, <2>6, <3>2
      <3>3. CASE m < w
        <4>1. Start[m + 1] <= Start[w]
          BY <1>10, <2>5, <3>3, After
        <4>2. QED
          BY <1>13, <2>6, <4>1
      <3>4. QED
        BY <1>13, <2>6, <3>1, <3>2, <3>3
    <2>8. IsHead(Here(j))
      BY <2>2, <2>5, <2>7
    <2>9. j \in Skipped .. Q /\ \A x \in j .. Q : x \in P .. Q
      BY <1>2, <1>3, <2>2
    <2>10. j \in Heads(Q)
      BY <1>6, <2>8, <2>9 DEF Heads
    <2>11. QED
      BY <1>2, <2>2, <2>10
  <1>15. o = m
    <2>1. PICK n \in Int : n = StartNo + Q
      BY <1>2, <1>3
    <2>2. In(n, m)
      BY <1>2, <1>3, <1>10, <1>13, <1>14, <2>1 DEF In
    <2>3. QED
      BY <1>10, <1>12, <2>1, <2>2, OneMessage
  <1>16. ASSUME NEW i \in P .. Q PROVE Here(i).m = m /\ Here(i).k = i - P + 1
    <2>1. i \in Nat /\ P <= i /\ i <= Q /\ i \in 0 .. RcvSize - 1 /\ Here(i).flag # 0
      BY <1>2, <1>5, <1>7, <1>16
    <2>2. /\ Here(i).m \in Msgs /\ In(StartNo + i, Here(i).m)
          /\ Here(i).k = StartNo + i - Start[Here(i).m] + 1
      BY <2>1, UnitAt
    <2>3. PICK n \in Int : n = StartNo + i
      BY <1>3, <2>1
    <2>4. In(n, m)
      BY <1>2, <1>3, <1>10, <1>13, <1>14, <2>1, <2>3 DEF In
    <2>5. Here(i).m = m
      BY <1>10, <2>2, <2>3, <2>4, OneMessage
    <2>6. StartNo + i - Start[m] + 1 = i - P + 1
      BY <1>2, <1>3, <1>10, <1>13, <2>1
    <2>7. QED
      BY <2>2, <2>5, <2>6
  <1>17. QED
    BY <1>4, <1>5, <1>7, <1>9, <1>10, <1>12, <1>15, <1>16

(* An acknowledged one is the first good one.                              *)
LEMMA FoundFirst ==
  ASSUME CoreInv, BufInv, Finds # {}, Q < RcvDataSize
  PROVE  P = Skipped
  <1>1. RcvType
    BY DEF CoreInv
  <1>2. Q \in Nat /\ P \in Nat /\ Skipped <= P /\ P <= Q /\ \A i \in Finds : Q <= i
    BY <1>1, FindsIs
  <1>3. /\ RcvDataSize \in Nat /\ rcv.maxPos \in Nat /\ RcvSize \in Nat /\ StartNo \in Int
        /\ RcvDataSize < RcvSize
        /\ Skipped \in Nat /\ (Skipped < RcvDataSize => Good(Skipped))
    BY <1>1, CountsAre, RcvFields, Sizes, SkippedIs
  <1>4. PICK h \in Nat : h = Skipped
    BY <1>3
  <1>5. Good(h) /\ h \in 0 .. RcvSize - 1
    BY <1>2, <1>3, <1>4
  <1>6. Here(h).flag = 1 /\ IsHead(Here(h))
    BY <1>5 DEF Good, Fresh
  <1>7. PICK w : w = Here(h).m
    OBVIOUS
  <1>8. w \in Msgs /\ StartNo + h = Start[w]
    BY <1>5, <1>6, <1>7, UnitAt
  <1>9. FoundMsg \in Msgs /\ StartNo + P = Start[FoundMsg]
    BY FoundWhole
  <1>10. SUFFICES ASSUME h < P PROVE FALSE
    BY <1>2, <1>4
  <1>11. /\ Start[w] \in Nat /\ Start[w + 1] \in Nat /\ Start[w] < Start[w + 1]
         /\ Start[w + 1] <= Start[FoundMsg] /\ Start[FoundMsg] \in Nat
    <2>1. Start[w] \in Nat /\ Start[w + 1] \in Nat /\ Start[FoundMsg] \in Nat
      BY <1>8, <1>9, Starts
    <2>2. Start[w] < Start[FoundMsg]
      BY <1>2, <1>3, <1>8, <1>9, <1>10
    <2>3. w < FoundMsg
      BY <1>8, <1>9, <2>2, After
    <2>4. Start[w + 1] <= Start[FoundMsg] /\ Start[w] < Start[w + 1]
      BY <1>8, <1>9, <2>3, After
    <2>5. QED
      BY <2>1, <2>4
  <1>12. PICK t \in Nat : StartNo + t = Start[w + 1] - 1 /\ h <= t /\ t < P
    <2>1. Start[w + 1] - 1 - StartNo \in Nat
      BY <1>3, <1>8, <1>11
    <2>2. PICK t \in Nat : t = Start[w + 1] - 1 - StartNo
      BY <2>1
    <2>3. StartNo + t = Start[w + 1] - 1 /\ h <= t /\ t < P
      BY <1>2, <1>3, <1>8, <1>9, <1>11, <2>2
    <2>4. QED
      BY <2>3
  <1>13. ASSUME NEW f \in h .. t
         PROVE  /\ f \in Nat /\ f \in 0 .. RcvSize - 1 /\ f \in h .. RcvDataSize - 1
                /\ Here(f).flag # 0 => Here(f).m = w
                /\ f < t => ~IsTail(Here(f))
    <2>1. f \in Nat /\ f \in 0 .. RcvSize - 1 /\ f \in h .. RcvDataSize - 1 /\ f <= t /\ h <= f
      BY <1>2, <1>3, <1>12, <1>13
    <2>2. PICK n \in Int : n = StartNo + f
      BY <1>3, <2>1
    <2>3. In(n, w)
      BY <1>3, <1>8, <1>11, <1>12, <2>1, <2>2 DEF In
    <2>4. Here(f).flag # 0 => Here(f).m = w
      <3>1. ASSUME Here(f).flag # 0 PROVE Here(f).m = w
        <4>1. Here(f).m \in Msgs /\ In(StartNo + f, Here(f).m)
          BY <2>1, <3>1, UnitAt
        <4>2. QED
          BY <1>8, <2>2, <2>3, <4>1, OneMessage
      <3>2. QED
        BY <3>1
    <2>5. f < t => ~IsTail(Here(f))
      <3>1. SUFFICES ASSUME f < t, IsTail(Here(f)) PROVE FALSE
        OBVIOUS
      <3>2. Here(f).flag # 0
        BY <2>1, <3>1, UnitAt
      <3>3. StartNo + f = Start[w + 1] - 1
        BY <2>1, <2>4, <3>1, <3>2, UnitAt
      <3>4. QED
        BY <1>3, <1>12, <2>1, <3>1, <3>3
    <2>6. QED
      BY <2>1, <2>4, <2>5
  <1>14. ASSUME NEW e \in h .. t PROVE Fresh(e)
    <2>1. e \in h .. RcvDataSize - 1 /\ e \in Nat /\ e <= t
      BY <1>12, <1>13, <1>14
    <2>2. \A f \in h .. e - 1 : ~IsTail(Here(f))
      <3>1. ASSUME NEW f \in h .. e - 1 PROVE ~IsTail(Here(f))
        <4>1. f \in h .. t /\ f < t
          BY <2>1, <1>12, <3>1
        <4>2. QED
          BY <1>13, <4>1
      <3>2. QED
        BY <3>1
    <2>3. QED
      BY <1>5, <2>1, <2>2 DEF Good
  <1>15. t \in h .. t /\ h \in h .. t
    BY <1>12
  <1>16. Here(t).flag = 1 /\ Here(t).m = w /\ t \in 0 .. RcvSize - 1
    <2>1. Here(t).flag = 1
      BY <1>14, <1>15 DEF Fresh
    <2>2. QED
      BY <1>13, <1>15, <2>1
  <1>17. IsTail(Here(t))
    BY <1>12, <1>16, UnitAt
  <1>18. h \in Heads(t)
    <2>1. h \in Skipped .. t
      BY <1>4, <1>15
    <2>2. QED
      BY <1>6, <1>14, <2>1 DEF Heads
  <1>19. t < RcvDataSize /\ t \in Skipped .. RcvDataSize + rcv.maxPos
    BY <1>2, <1>3, <1>4, <1>12
  <1>20. t \in Finds
    BY <1>17, <1>18, <1>19 DEF Finds, Complete, InTurn
  <1>21. Q <= t
    BY <1>2, <1>20
  <1>22. QED
    BY <1>2, <1>12, <1>21

-----------------------------------------------------------------------------
(* recvmsg itself.                                                         *)

(* The places before Gone are cleared, and those of a message ahead of the  *)
(* acknowledged ones are marked.                                           *)
Ahead(i) == Finds # {} /\ ~(Q < RcvDataSize) /\ P <= i /\ i <= Q

LEMMA UnitsLeft ==
  ASSUME CoreInv, BufInv, recvmsg, NEW i \in 0 .. RcvSize - 1
  PROVE  /\ i < Gone => unit'[Place(i)] = NoUnit
         /\ i >= Gone /\ Ahead(i) => unit'[Place(i)] = [Here(i) EXCEPT !.flag = 2]
         /\ i >= Gone /\ ~Ahead(i) => unit'[Place(i)] = Here(i)
  <1>1. /\ RcvType /\ unit \in [0 .. RcvSize - 1 -> Units] /\ RcvSize \in Nat
        /\ RcvDataSize \in Nat /\ RcvDataSize < RcvSize
        /\ Skipped \in Nat /\ Skipped <= RcvDataSize
    BY CountsAre, Sizes, SkippedIs DEF CoreInv, BufInv
  <1>2. i \in Nat /\ i < RcvSize /\ i \in 0 .. RcvSize
    BY <1>1
  <1>3. PICK x \in 0 .. RcvSize - 1 : x = Place(i) /\ unit[x] = Here(i)
    BY <1>1, <1>2, PlaceIs DEF Here
  <1>4. Skip(x) <=> i < Skipped
    <2>1. ASSUME Skip(x) PROVE i < Skipped
      <3>1. PICK j \in 0 .. Skipped - 1 : x = Place(j)
        BY <2>1 DEF Skip
      <3>2. j \in 0 .. RcvSize - 1 /\ j < Skipped
        BY <1>1, <3>1
      <3>3. i = j
        BY <1>1, <1>3, <3>1, <3>2, OnePlace
      <3>4. QED
        BY <3>2, <3>3
    <2>2. ASSUME i < Skipped PROVE Skip(x)
      <3>1. i \in 0 .. Skipped - 1
        BY <1>1, <1>2, <2>2
      <3>2. QED
        BY <1>3, <3>1 DEF Skip
    <2>3. QED
      BY <2>1, <2>2
  <1>5. ASSUME Finds # {}
        PROVE  /\ Q \in Nat /\ P \in Nat /\ Q < RcvSize /\ Skipped <= P /\ P <= Q
               /\ Take(x) <=> P <= i /\ i <= Q
    <2>1. Q \in Nat /\ P \in Nat /\ Q < RcvSize /\ Skipped <= P /\ P <= Q
      BY <1>1, <1>5, FindsIs, FoundWhole
    <2>2. ASSUME Take(x) PROVE P <= i /\ i <= Q
      <3>1. PICK j \in P .. Q : x = Place(j)
        BY <2>2 DEF Take
      <3>2. j \in 0 .. RcvSize - 1 /\ P <= j /\ j <= Q
        BY <1>1, <2>1, <3>1
      <3>3. i = j
        BY <1>1, <1>3, <3>1, <3>2, OnePlace
      <3>4. QED
        BY <3>2, <3>3
    <2>3. ASSUME P <= i, i <= Q PROVE Take(x)
      <3>1. i \in P .. Q
        BY <1>2, <2>1, <2>3
      <3>2. QED
        BY <1>3, <3>1 DEF Take
    <2>4. QED
      BY <2>1, <2>2, <2>3
  <1>6. CASE ReadNone
    <2>1. Gone = Skipped /\ ~Ahead(i)
      BY <1>6 DEF ReadNone, Gone, Ahead
    <2>2. unit'[x] = IF Skip(x) THEN NoUnit ELSE unit[x]
      BY <1>1, <1>6 DEF ReadNone
    <2>3. QED
      BY <1>1, <1>2, <1>3, <1>4, <2>1, <2>2
  <1>7. CASE ReadNext
    <2>1. Finds # {} /\ Q < RcvDataSize
      BY <1>7 DEF ReadNext
    <2>2. Gone = Q + 1 /\ ~Ahead(i)
      BY <2>1 DEF Gone, Ahead
    <2>3. unit'[x] = IF Skip(x) \/ Take(x) THEN NoUnit ELSE unit[x]
      BY <1>1, <1>7 DEF ReadNext
    <2>4. P = Skipped
      BY <2>1, FoundFirst
    <2>5. Skip(x) \/ Take(x) <=> i < Q + 1
      BY <1>1, <1>2, <1>4, <1>5, <2>1, <2>4
    <2>6. QED
      BY <1>2, <1>3, <1>5, <2>1, <2>2, <2>3, <2>5
  <1>8. CASE ReadAhead
    <2>1. Finds # {} /\ ~(Q < RcvDataSize)
      BY <1>8 DEF ReadAhead
    <2>2. Gone = Skipped /\ (Ahead(i) <=> P <= i /\ i <= Q)
      BY <2>1 DEF Gone, Ahead
    <2>3. unit'[x] = IF Skip(x) THEN NoUnit
                     ELSE IF Take(x) THEN [unit[x] EXCEPT !.flag = 2] ELSE unit[x]
      BY <1>1, <1>8 DEF ReadAhead
    <2>4. QED
      BY <1>1, <1>2, <1>3, <1>4, <1>5, <2>1, <2>2, <2>3
  <1>9. QED
    BY <1>6, <1>7, <1>8, RecvStep

(* What is where, after it.                                                *)
LEMMA HereLeft ==
  ASSUME CoreInv, BufInv, recvmsg
  PROVE  /\ unit' \in [0 .. RcvSize - 1 -> Units]
         /\ \A i \in 0 .. RcvSize - 1 :
              /\ Gone + i >= RcvSize => Here(i)' = NoUnit
              /\ Gone + i < RcvSize /\ ~Ahead(Gone + i) => Here(i)' = Here(Gone + i)
              /\ Gone + i < RcvSize /\ Ahead(Gone + i) =>
                   /\ Here(i)'.flag = 2 /\ Here(i)'.m = Here(Gone + i).m
                   /\ Here(i)'.k = Here(Gone + i).k
  <1>1. /\ RcvType /\ unit \in [0 .. RcvSize - 1 -> Units] /\ RcvSize \in Nat
        /\ RcvDataSize \in Nat /\ RcvDataSize < RcvSize
    BY CountsAre, Sizes DEF CoreInv, BufInv
  <1>2. /\ Gone \in 0 .. RcvDataSize /\ rcv'.start = Place(Gone)
        /\ rcv'.ackPos = rcv.ackPos /\ rcv'.ack = rcv.ack
    BY <1>1, RecvFields
  <1>3. Gone \in Nat /\ Gone < RcvSize
    BY <1>1, <1>2
  <1>4. DOMAIN unit' = 0 .. RcvSize - 1
    BY <1>1, RecvStep DEF ReadNone, ReadNext, ReadAhead
  <1>5. NoUnit \in Units /\ \A u \in Units : [u EXCEPT !.flag = 2] \in Units
    BY DEF NoUnit, Units
  <1>6. ASSUME NEW x \in 0 .. RcvSize - 1 PROVE unit'[x] \in Units
    <2>1. PICK i \in 0 .. RcvSize - 1 : x = Place(i)
      BY <1>1, SomePlace
    <2>2. Here(i) \in Units
      BY UnitAt
    <2>3. i < Gone \/ i >= Gone
      BY <1>3
    <2>4. QED
      BY <1>5, <2>1, <2>2, <2>3, UnitsLeft
  <1>7. unit' \in [0 .. RcvSize - 1 -> Units]
    <2>1. \E f : unit' = [y \in 0 .. RcvSize - 1 |-> f[y]]
      BY <1>4, RecvStep, <1>1 DEF ReadNone, ReadNext, ReadAhead
    <2>2. QED
      BY <1>4, <1>6, <2>1
  <1>8. ASSUME NEW i \in 0 .. RcvSize - 1
        PROVE  /\ Gone + i >= RcvSize => Here(i)' = NoUnit
               /\ Gone + i < RcvSize /\ ~Ahead(Gone + i) => Here(i)' = Here(Gone + i)
               /\ Gone + i < RcvSize /\ Ahead(Gone + i) =>
                    /\ Here(i)'.flag = 2 /\ Here(i)'.m = Here(Gone + i).m
                    /\ Here(i)'.k = Here(Gone + i).k
    <2>1. Place(i)' = IF Gone + i < RcvSize THEN Place(Gone + i) ELSE Place(Gone + i - RcvSize)
      BY <1>1, <1>2, Moved
    <2>2. Here(i)' = unit'[Place(i)']
      BY DEF Here
    <2>3. i \in Nat /\ i < RcvSize
      BY <1>1, <1>8
    <2>4. CASE Gone + i >= RcvSize
      <3>1. PICK j \in Nat : j = Gone + i - RcvSize
        BY <1>1, <1>3, <2>3, <2>4
      <3>2. j \in 0 .. RcvSize - 1 /\ j < Gone /\ ~(Gone + i < RcvSize)
        BY <1>1, <1>3, <2>3, <2>4, <3>1
      <3>3. unit'[Place(j)] = NoUnit
        BY <3>2, UnitsLeft
      <3>4. Here(i)' = NoUnit
        BY <2>1, <2>2, <3>1, <3>2, <3>3
      <3>5. QED
        BY <2>4, <3>2, <3>4
    <2>5. CASE Gone + i < RcvSize
      <3>1. PICK j \in Nat : j = Gone + i
        BY <1>3, <2>3
      <3>2. j \in 0 .. RcvSize - 1 /\ j >= Gone /\ ~(Gone + i >= RcvSize)
        BY <1>1, <1>3, <2>3, <2>5, <3>1
      <3>3. Here(i)' = unit'[Place(j)]
        BY <2>1, <2>2, <2>5, <3>1
      <3>4. Here(j) \in Units
        BY <3>2, UnitAt
      <3>5. CASE ~Ahead(j)
        <4>1. Here(i)' = Here(j)
          BY <3>2, <3>3, <3>5, UnitsLeft
        <4>2. QED
          BY <3>1, <3>2, <3>5, <4>1
      <3>6. CASE Ahead(j)
        <4>1. Here(i)' = [Here(j) EXCEPT !.flag = 2]
          BY <3>2, <3>3, <3>6, UnitsLeft
        <4>2. Here(i)'.flag = 2 /\ Here(i)'.m = Here(j).m /\ Here(i)'.k = Here(j).k
          BY <3>4, <4>1 DEF Units
        <4>3. QED
          BY <3>1, <3>2, <3>6, <4>2
      <3>7. QED
        BY <3>5, <3>6
    <2>6. QED
      BY <1>1, <1>3, <2>3, <2>4, <2>5
  <1>9. QED
    BY <1>7, <1>8

(* What is read is a whole message that was not read before, in its turn.   *)
LEMMA ReadIs ==
  ASSUME CoreInv, AlignedInv, Finds # {}
  PROVE  /\ Returned = [k \in 1 .. Lens[FoundMsg] |-> [m |-> FoundMsg, k |-> k]]
         /\ Returned[1].m = FoundMsg /\ FoundMsg \notin Delivered
         /\ FoundMsg \in Ordered =>
              Q < RcvDataSize /\ \A m \in 1 .. FoundMsg - 1 : m \in Msgs /\ Settled(m)
  <1>1. BufInv /\ ArrivedInv /\ MarkedInv /\ ReadInv /\ RcvType
    BY DEF AlignedInv, CoreInv
  <1>2. /\ FoundMsg \in Msgs /\ StartNo + P = Start[FoundMsg]
        /\ StartNo + Q = Start[FoundMsg + 1] - 1 /\ Q < RcvSize /\ StartNo + Q <= rcv.seq
        /\ \A i \in P .. Q : /\ i \in 0 .. RcvSize - 1 /\ Here(i).flag = 1
                             /\ Here(i).m = FoundMsg /\ Here(i).k = i - P + 1
    BY <1>1, FoundWhole
  <1>3. /\ Q \in Nat /\ P \in Nat /\ Skipped <= P /\ P <= Q /\ Complete(Q)
    BY <1>1, FindsIs
  <1>4. /\ StartNo \in Int /\ rcv.seq \in Int /\ Skipped \in Nat /\ StartNo >= 0
        /\ Start[FoundMsg] \in Nat /\ Lens[FoundMsg] \in Nat /\ Lens[FoundMsg] >= 1
        /\ Start[FoundMsg + 1] = Start[FoundMsg] + Lens[FoundMsg] /\ FoundMsg \in Nat
    BY <1>1, <1>2, CountsAre, RcvFields, SkippedIs, Starts DEF BufInv
  <1>5. Q - P + 1 = Lens[FoundMsg]
    BY <1>2, <1>3, <1>4
  <1>6. Returned = [k \in 1 .. Lens[FoundMsg] |-> [m |-> FoundMsg, k |-> k]]
    <2>1. ASSUME NEW k \in 1 .. Lens[FoundMsg]
          PROVE  Here(P + k - 1).m = FoundMsg /\ Here(P + k - 1).k = k
      <3>1. PICK i \in Nat : i = P + k - 1 /\ P <= i /\ i <= Q /\ i - P + 1 = k
        BY <1>3, <1>4, <1>5
      <3>2. i \in P .. Q
        BY <1>3, <3>1
      <3>3. QED
        BY <1>2, <3>1, <3>2
    <2>2. QED
      BY <1>5, <2>1 DEF Returned
  <1>7. Returned[1].m = FoundMsg
    <2>1. 1 \in 1 .. Lens[FoundMsg]
      BY <1>4
    <2>2. Returned[1] = [m |-> FoundMsg, k |-> 1]
      BY <1>6, <2>1
    <2>3. QED
      BY <2>2
  <1>8. FoundMsg \notin Delivered
    <2>1. SUFFICES ASSUME FoundMsg \in Delivered PROVE FALSE
      OBVIOUS
    <2>2. PICK n \in Int : n = StartNo + P /\ n - StartNo = P
      BY <1>3, <1>4
    <2>3. n \in StartNo .. rcv.seq /\ In(n, FoundMsg)
      BY <1>2, <1>3, <1>4, <2>2 DEF In
    <2>4. Here(P).flag \in {2, 3}
      BY <1>1, <2>1, <2>2, <2>3 DEF MarkedInv
    <2>5. P \in P .. Q
      BY <1>3
    <2>6. QED
      BY <1>2, <2>4, <2>5
  <1>9. ASSUME FoundMsg \in Ordered
        PROVE  Q < RcvDataSize /\ \A m \in 1 .. FoundMsg - 1 : m \in Msgs /\ Settled(m)
    <2>1. Q < RcvDataSize
      <3>1. Q \in P .. Q
        BY <1>3
      <3>2. Here(Q).m = FoundMsg
        BY <1>2, <3>1
      <3>3. QED
        BY <1>3, <1>9, <3>2 DEF Complete, InTurn
    <2>2. P = Skipped
      BY <1>1, <2>1, FoundFirst
    <2>3. ASSUME NEW m \in 1 .. FoundMsg - 1 PROVE m \in Msgs /\ Settled(m)
      <3>1. m \in Msgs /\ m < FoundMsg
        BY <1>2, <1>4, <2>3, Sizes DEF Msgs
      <3>2. Start[m] < Start[FoundMsg] /\ Start[m] \in Nat
        BY <1>2, <3>1, After, Starts
      <3>3. ~Settled(m) => Start[m] >= StartNo + Skipped
        BY <1>1, <3>1, NotSkipped
      <3>4. QED
        BY <1>2, <1>4, <2>2, <3>1, <3>2, <3>3
    <2>4. QED
      BY <2>1, <2>3
  <1>10. QED
    BY <1>6, <1>7, <1>8, <1>9

(* What has been delivered, after it.                                      *)
LEMMA DeliveredNext ==
  ASSUME CoreInv, AlignedInv, recvmsg
  PROVE  /\ Finds = {} => read' = read /\ Delivered' = Delivered
         /\ Finds # {} => /\ read' = Append(read, Returned)
                          /\ Delivered' = Delivered \cup {FoundMsg}
  <1>1. read \in Seq(Seq([m : Nat, k : Nat]))
    BY DEF AlignedInv, ReadInv
  <1>2. CASE Finds = {}
    BY <1>2, RecvStep DEF ReadNone, ReadNext, ReadAhead, Delivered
  <1>3. CASE Finds # {}
    <2>1. read' = Append(read, Returned)
      BY <1>3, RecvStep DEF ReadNone, ReadNext, ReadAhead
    <2>2. Returned[1].m = FoundMsg
      BY <1>3, ReadIs
    <2>3. PICK y : y = Returned
      OBVIOUS
    <2>4. PICK l \in Nat : l = Len(read)
      BY <1>1
    <2>5. DOMAIN read = 1 .. l /\ DOMAIN read' = 1 .. l + 1 /\ read'[l + 1] = y
          /\ \A i \in 1 .. l : read'[i] = read[i]
      BY <1>1, <2>1, <2>3, <2>4
    <2>6. l + 1 \in DOMAIN read' /\ \A i \in DOMAIN read' : i \in 1 .. l \/ i = l + 1
      BY <2>4, <2>5
    <2>7. \A i \in DOMAIN read : i \in DOMAIN read' /\ read'[i] = read[i]
      BY <2>4, <2>5
    <2>8. ASSUME NEW m \in Delivered' PROVE m \in Delivered \cup {FoundMsg}
      <3>1. PICK i \in DOMAIN read' : m = read'[i][1].m
        BY <2>8 DEF Delivered
      <3>2. CASE i \in 1 .. l
        BY <2>5, <3>1, <3>2 DEF Delivered
      <3>3. CASE i = l + 1
        BY <2>2, <2>3, <2>5, <3>1, <3>3
      <3>4. QED
        BY <2>6, <3>2, <3>3
    <2>9. ASSUME NEW m \in Delivered \cup {FoundMsg} PROVE m \in Delivered'
      <3>1. CASE m \in Delivered
        <4>1. PICK i \in DOMAIN read : m = read[i][1].m
          BY <3>1 DEF Delivered
        <4>2. i \in DOMAIN read' /\ m = read'[i][1].m
          BY <2>7, <4>1
        <4>3. QED
          BY <4>2 DEF Delivered
      <3>2. CASE m = FoundMsg
        <4>1. m = read'[l + 1][1].m
          BY <2>2, <2>3, <2>5, <3>2
        <4>2. QED
          BY <2>6, <4>1 DEF Delivered
      <3>3. QED
        BY <2>9, <3>1, <3>2
    <2>10. QED
      BY <1>3, <2>1, <2>8, <2>9
  <1>4. QED
    BY <1>2, <1>3

(* The units that stay are those that were there.                          *)
LEMMA RecvBuf ==
  ASSUME CoreInv, BufInv, recvmsg
  PROVE  BufInv' /\ StartNo' = StartNo + Gone
  <1>1. /\ RcvType /\ RcvSize \in Nat /\ StartNo \in Int /\ rcv.seq \in Int /\ rcv.maxPos \in Nat
        /\ RcvDataSize \in Nat /\ RcvDataSize < RcvSize
    BY CountsAre, RcvFields, Sizes DEF CoreInv
  <1>2. /\ Gone \in 0 .. RcvDataSize /\ rcv'.start = Place(Gone) /\ rcv'.seq = rcv.seq
        /\ rcv'.ackPos = rcv.ackPos /\ rcv'.maxPos = rcv.maxPos /\ rcv'.ack = rcv.ack
    BY <1>1, RecvFields
  <1>3. Gone \in Nat /\ Gone <= RcvDataSize
    BY <1>1, <1>2
  <1>4. RcvDataSize' = RcvDataSize - Gone /\ StartNo' = StartNo + Gone
    BY <1>1, <1>2, Moved
  <1>5. StartNo >= 0 /\ rcv.seq <= snd.seq /\ rcv.seq <= StartNo + RcvSize - 2
        /\ RcvDataSize + rcv.maxPos <= RcvSize - 1
    BY DEF BufInv
  <1>6. StartNo' >= 0 /\ rcv'.seq <= StartNo' + RcvSize - 2
        /\ RcvDataSize' + rcv'.maxPos <= RcvSize - 1
    BY <1>1, <1>2, <1>3, <1>4, <1>5
  <1>7. rcv'.seq <= snd'.seq
    BY <1>2, <1>5, RecvStep
  <1>8. ASSUME NEW i \in 0 .. RcvSize - 1
        PROVE  \/ Here(i)' = NoUnit
               \/ /\ Here(i)'.flag # 0 /\ At(StartNo' + i, Here(i)'.m, Here(i)'.k)
                  /\ StartNo' + i <= rcv'.seq
    <2>1. i \in Nat
      BY <1>1, <1>8
    <2>2. CASE Gone + i >= RcvSize
      BY <2>2, HereLeft
    <2>3. CASE Gone + i < RcvSize
      <3>1. PICK j \in 0 .. RcvSize - 1 : j = Gone + i
        BY <1>1, <1>3, <2>1, <2>3
      <3>2. StartNo' + i = StartNo + j
        BY <1>1, <1>3, <1>4, <2>1, <3>1
      <3>3. \/ Here(j) = NoUnit
            \/ Here(j).flag # 0 /\ At(StartNo + j, Here(j).m, Here(j).k) /\ StartNo + j <= rcv.seq
        BY DEF BufInv
      <3>4. CASE ~Ahead(j)
        <4>1. Here(i)' = Here(j)
          BY <2>3, <3>1, <3>4, HereLeft
        <4>2. QED
          BY <1>2, <3>2, <3>3, <4>1
      <3>5. CASE Ahead(j)
        <4>1. Here(i)'.flag = 2 /\ Here(i)'.m = Here(j).m /\ Here(i)'.k = Here(j).k
          BY <2>3, <3>1, <3>5, HereLeft
        <4>2. j \in P .. Q
          <5>1. P \in Nat /\ Q \in Nat /\ j \in Nat /\ P <= j /\ j <= Q
            BY <1>1, <3>1, <3>5, FindsIs DEF Ahead
          <5>2. QED
            BY <5>1
        <4>3. Here(j).flag = 1
          BY <3>5, <4>2, FoundWhole DEF Ahead
        <4>4. NoUnit.flag = 0
          BY DEF NoUnit
        <4>5. QED
          BY <1>2, <3>2, <3>3, <4>1, <4>3, <4>4
      <3>6. QED
        BY <3>4, <3>5
    <2>4. QED
      BY <1>1, <1>3, <2>1, <2>2, <2>3
  <1>9. unit' \in [0 .. RcvSize - 1 -> Units]
    BY HereLeft
  <1>10. QED
    BY <1>4, <1>6, <1>7, <1>8, <1>9 DEF BufInv

LEMMA RecvRead ==
  ASSUME CoreInv, AlignedInv, recvmsg
  PROVE  ReadInv'
  <1>1. ReadInv /\ given' = given
    BY RecvStep DEF AlignedInv
  <1>2. CASE Finds = {}
    BY <1>1, <1>2, DeliveredNext, NothingRead
  <1>3. CASE Finds # {}
    <2>1. /\ Returned = [k \in 1 .. Lens[FoundMsg] |-> [m |-> FoundMsg, k |-> k]]
          /\ Returned[1].m = FoundMsg /\ FoundMsg \notin Delivered
          /\ FoundMsg \in Ordered => \A m \in 1 .. FoundMsg - 1 : m \in Msgs /\ Settled(m)
      BY <1>3, ReadIs
    <2>2. FoundMsg \in Msgs
      BY <1>3, FoundWhole DEF AlignedInv
    <2>3. PICK y : y = Returned
      OBVIOUS
    <2>4. read \in Seq(Seq([m : Nat, k : Nat]))
      BY <1>1 DEF ReadInv
    <2>5. PICK l \in Nat : l = Len(read)
      BY <2>4
    <2>6. y \in Seq([m : Nat, k : Nat]) /\ Whole(y)
      <3>1. FoundMsg \in Nat /\ Lens[FoundMsg] \in Nat
        BY <2>2, Starts
      <3>2. y = [k \in 1 .. Lens[FoundMsg] |-> [m |-> FoundMsg, k |-> k]]
        BY <2>1, <2>3
      <3>3. Whole(y)
        BY <2>2, <3>2 DEF Whole
      <3>4. \A k \in 1 .. Lens[FoundMsg] : [m |-> FoundMsg, k |-> k] \in [m : Nat, k : Nat]
        BY <3>1
      <3>5. y \in [1 .. Lens[FoundMsg] -> [m : Nat, k : Nat]]
        BY <3>2, <3>4
      <3>6. PICK N \in Nat : N = Lens[FoundMsg]
        BY <3>1
      <3>7. y \in [1 .. N -> [m : Nat, k : Nat]]
        BY <3>5, <3>6
      <3>8. y \in Seq([m : Nat, k : Nat])
        <4>1. \A S : \A n \in Nat : \A f \in [1 .. n -> S] : f \in Seq(S)
          OBVIOUS
        <4>2. QED
          BY <3>7, <4>1
      <3>9. QED
        BY <3>3, <3>8
    <2>7. read' = Append(read, y)
      BY <1>3, <2>3, DeliveredNext
    <2>8. /\ read' \in Seq(Seq([m : Nat, k : Nat])) /\ Len(read') = l + 1 /\ read'[l + 1] = y
          /\ \A i \in 1 .. l : read'[i] = read[i]
      BY <2>4, <2>5, <2>6, <2>7
    <2>9. \A i \in 1 .. l + 1 : i \in 1 .. l \/ i = l + 1
      BY <2>5
    <2>10. \A i \in 1 .. l : read[i][1].m \in Delivered /\ read[i][1].m \in Msgs
      BY <1>1, <2>5, DeliveredAre
    <2>11. \A i \in 1 .. Len(read') : Whole(read'[i])
      <3>1. \A i \in 1 .. l : Whole(read[i])
        BY <1>1, <2>5 DEF ReadInv
      <3>2. QED
        BY <2>6, <2>8, <2>9, <3>1
    <2>12. ASSUME NEW i \in 1 .. l + 1, NEW j \in 1 .. l + 1, i < j PROVE read'[i] # read'[j]
      <3>1. i \in 1 .. l
        BY <2>5, <2>12
      <3>2. CASE j \in 1 .. l
        BY <1>1, <2>5, <2>8, <2>12, <3>1, <3>2 DEF ReadInv
      <3>3. CASE j = l + 1
        <4>1. y[1].m \notin Delivered
          BY <2>1, <2>3
        <4>2. read[i][1].m \in Delivered
          BY <2>10, <3>1
        <4>3. read[i] # y
          BY <4>1, <4>2
        <4>4. QED
          BY <2>8, <3>1, <3>3, <4>3
      <3>4. QED
        BY <2>9, <3>2, <3>3
    <2>13. ASSUME NEW j \in 1 .. l + 1, read'[j][1].m \in Ordered,
                  NEW m \in 1 .. read'[j][1].m - 1
           PROVE  \/ m \in given.dropped \cup given.exposed
                  \/ \E i \in 1 .. j - 1 : read'[i][1].m = m
      <3>1. CASE j \in 1 .. l
        <4>1. \/ m \in given.dropped \cup given.exposed
              \/ \E i \in 1 .. j - 1 : read[i][1].m = m
          BY <1>1, <2>5, <2>8, <2>13, <3>1 DEF ReadInv
        <4>2. \A i \in 1 .. j - 1 : i \in 1 .. l
          BY <2>5, <3>1
        <4>3. QED
          BY <2>8, <4>1, <4>2
      <3>2. CASE j = l + 1
        <4>1. Settled(m)
          BY <2>1, <2>3, <2>8, <2>13, <3>2
        <4>2. CASE m \in given.dropped \cup given.exposed
          BY <4>2
        <4>3. CASE m \in Delivered
          <5>1. PICK i \in 1 .. l : m = read[i][1].m
            BY <2>4, <2>5, <4>3 DEF Delivered
          <5>2. i \in 1 .. j - 1 /\ read'[i][1].m = m
            BY <2>5, <2>8, <3>2, <5>1
          <5>3. QED
            BY <5>2
        <4>4. QED
          BY <4>1, <4>2, <4>3 DEF Settled
      <3>3. QED
        BY <2>9, <3>1, <3>2
    <2>14. QED
      BY <1>1, <2>8, <2>11, <2>12, <2>13 DEF ReadInv
  <1>4. QED
    BY <1>2, <1>3

LEMMA RecvAligned ==
  ASSUME CoreInv, AlignedInv, recvmsg
  PROVE  AlignedInv'
  <1>1. /\ SndInv /\ PktInv /\ BufInv /\ ArrivedInv /\ MarkedInv /\ DoneInv /\ ReadInv /\ RcvType
    BY DEF AlignedInv, CoreInv
  <1>2. /\ StartNo \in Int /\ rcv.seq \in Int /\ RcvSize \in Nat /\ RcvDataSize \in Nat
        /\ Skipped \in Nat /\ Skipped <= RcvDataSize /\ RcvDataSize < RcvSize
    BY <1>1, CountsAre, RcvFields, SkippedIs, Sizes
  <1>3. Gone \in Nat /\ rcv'.seq = rcv.seq
    <2>1. Gone \in 0 .. RcvDataSize /\ rcv'.seq = rcv.seq
      BY <1>1, RecvFields
    <2>2. QED
      BY <1>2, <2>1
  <1>4. BufInv' /\ StartNo' = StartNo + Gone
    BY <1>1, RecvBuf
  <1>5. UNCHANGED <<made, snd, sndLost, packets, given, rcvLost>>
    BY RecvStep
  <1>6. SndInv' /\ PktInv'
    <2>1. StartNo' \in Int /\ StartNo <= StartNo'
      BY <1>2, <1>3, <1>4
    <2>2. QED
      BY <1>1, <1>5, <2>1, ReceiverSide
  <1>7. Delivered' = Delivered \/ (Finds # {} /\ Delivered' = Delivered \cup {FoundMsg})
    BY DeliveredNext
  <1>8. \A m : ~Settled(m)' => ~Settled(m) /\ (Finds # {} => m # FoundMsg)
    BY <1>5, DeliveredNext DEF Settled
  <1>9. ASSUME NEW n \in StartNo' .. rcv'.seq
        PROVE  /\ n \in Int /\ n \in StartNo .. rcv.seq
               /\ n - StartNo' \in 0 .. RcvSize - 1 /\ Gone + (n - StartNo') = n - StartNo
               /\ n - StartNo \in 0 .. RcvSize - 1
    <2>1. rcv.seq <= StartNo + RcvSize - 2
      BY <1>1 DEF BufInv
    <2>2. n \in Int /\ StartNo + Gone <= n /\ n <= rcv.seq
      BY <1>2, <1>3, <1>4, <1>9
    <2>3. QED
      BY <1>2, <1>3, <1>4, <2>1, <2>2
  <1>10. ASSUME NEW m \in Msgs, ~Settled(m)' PROVE Start[m] >= StartNo'
    <2>1. ~Settled(m) /\ (Finds # {} => m # FoundMsg)
      BY <1>8, <1>10
    <2>2. Start[m] >= StartNo + Skipped /\ Start[m] \in Nat
      BY <1>1, <2>1, NotSkipped, Starts
    <2>3. CASE Finds # {} /\ Q < RcvDataSize
      <3>1. /\ FoundMsg \in Msgs /\ StartNo + P = Start[FoundMsg]
            /\ StartNo + Q = Start[FoundMsg + 1] - 1 /\ P = Skipped
        BY <1>1, <2>3, FoundWhole, FoundFirst
      <3>2. ~(m < FoundMsg)
        <4>1. m < FoundMsg => Start[m] < Start[FoundMsg]
          BY <3>1, After
        <4>2. Start[FoundMsg] <= Start[m] /\ Start[FoundMsg] \in Nat
          BY <2>2, <3>1, Starts
        <4>3. QED
          BY <2>2, <4>1, <4>2
      <3>3. FoundMsg < m
        <4>1. m \in Nat /\ FoundMsg \in Nat /\ m # FoundMsg
          BY <2>1, <2>3, <3>1, Starts
        <4>2. QED
          BY <3>2, <4>1
      <3>4. Start[FoundMsg + 1] <= Start[m] /\ Start[FoundMsg + 1] \in Nat
        BY <3>1, <3>3, After, Starts
      <3>5. Gone = Q + 1 /\ Q \in Nat
        BY <1>1, <2>3, FindsIs DEF Gone
      <3>6. QED
        BY <1>2, <1>4, <2>2, <3>1, <3>4, <3>5
    <2>4. CASE ~(Finds # {} /\ Q < RcvDataSize)
      BY <1>4, <2>2, <2>4 DEF Gone
    <2>5. QED
      BY <2>3, <2>4
  <1>11. ASSUME NEW j \in 0 .. RcvSize - 1, Ahead(j)
         PROVE  Here(j).flag = 1 /\ Here(j).m = FoundMsg
    <2>1. P \in Nat /\ Q \in Nat /\ j \in Nat /\ P <= j /\ j <= Q /\ Finds # {}
      BY <1>1, <1>2, <1>11, FindsIs DEF Ahead
    <2>2. j \in P .. Q
      BY <2>1
    <2>3. QED
      BY <1>1, <2>1, <2>2, FoundWhole
  <1>12. ASSUME NEW m \in Msgs, ~Settled(m)', NEW n \in StartNo' .. rcv'.seq, In(n, m),
                n \notin rcvLost'
         PROVE  Fresh(n - StartNo)'
    <2>1. PICK i \in 0 .. RcvSize - 1 : i = n - StartNo'
      BY <1>9
    <2>2. PICK j \in 0 .. RcvSize - 1 : j = n - StartNo /\ j = Gone + i
      BY <1>9, <2>1
    <2>3. n \in Int /\ n \in StartNo .. rcv.seq /\ StartNo + j = n
      BY <1>2, <1>9, <2>2
    <2>4. ~Settled(m) /\ (Finds # {} => m # FoundMsg)
      BY <1>8, <1>12
    <2>5. Here(j).flag = 1
      BY <1>1, <1>5, <1>12, <2>2, <2>3, <2>4 DEF ArrivedInv, Fresh
    <2>6. Here(j).m = m
      <3>1. Here(j).m \in Msgs /\ In(StartNo + j, Here(j).m)
        BY <1>1, <2>5, UnitAt
      <3>2. QED
        BY <1>12, <2>3, <3>1, OneMessage
    <2>7. ~Ahead(j)
      BY <1>11, <2>4, <2>6 DEF Ahead
    <2>8. Gone + i < RcvSize
      BY <1>2, <2>2
    <2>9. Here(i)' = Here(j)
      BY <1>1, <2>2, <2>7, <2>8, HereLeft
    <2>10. Here(i)'.flag = 1
      BY <2>5, <2>9
    <2>11. QED
      BY <2>1, <2>10 DEF Fresh, Here
  <1>13. ArrivedInv'
    BY <1>10, <1>12 DEF ArrivedInv
  <1>14. MarkedInv'
    <2>1. ASSUME NEW m \in Delivered', NEW n \in StartNo' .. rcv'.seq, In(n, m)
          PROVE  Here(n - StartNo)'.flag \in {2, 3}
      <3>1. PICK i \in 0 .. RcvSize - 1 : i = n - StartNo'
        BY <1>9
      <3>2. PICK j \in 0 .. RcvSize - 1 : j = n - StartNo /\ j = Gone + i
        BY <1>9, <3>1
      <3>3. n \in Int /\ n \in StartNo .. rcv.seq /\ StartNo + j = n /\ Gone + i < RcvSize
        BY <1>2, <1>9, <3>2
      <3>4. CASE Ahead(j)
        <4>1. Here(i)'.flag = 2
          BY <1>1, <3>2, <3>3, <3>4, HereLeft
        <4>2. QED
          BY <3>1, <4>1 DEF Here
      <3>5. CASE ~Ahead(j)
        <4>1. m \in Delivered
          <5>1. SUFFICES ASSUME m = FoundMsg, Finds # {} PROVE FALSE
            BY <1>7, <2>1
          <5>2. /\ FoundMsg \in Msgs /\ StartNo + P = Start[FoundMsg]
                /\ StartNo + Q = Start[FoundMsg + 1] - 1
            BY <1>1, <5>1, FoundWhole
          <5>3. /\ Start[FoundMsg] \in Nat /\ Start[FoundMsg + 1] \in Nat
                /\ Q \in Nat /\ P \in Nat /\ j \in Nat
            BY <1>1, <1>2, <3>2, <5>1, <5>2, Starts, FindsIs
          <5>4. P <= j /\ j <= Q
            BY <1>2, <2>1, <3>3, <5>1, <5>2, <5>3 DEF In
          <5>5. Q < RcvDataSize
            BY <3>5, <5>1, <5>4 DEF Ahead
          <5>6. Gone = Q + 1
            BY <5>1, <5>5 DEF Gone
          <5>7. i \in Nat
            BY <1>2, <3>1
          <5>8. QED
            BY <3>2, <5>3, <5>4, <5>6, <5>7
        <4>2. Here(j).flag \in {2, 3}
          BY <1>1, <2>1, <3>2, <3>3, <4>1 DEF MarkedInv
        <4>3. Here(i)' = Here(j)
          BY <1>1, <3>2, <3>3, <3>5, HereLeft
        <4>4. Here(i)'.flag \in {2, 3}
          BY <4>2, <4>3
        <4>5. QED
          BY <3>1, <4>4 DEF Here
      <3>6. QED
        BY <3>4, <3>5
    <2>2. QED
      BY <2>1 DEF MarkedInv
  <1>15. DoneInv'
    <2>1. ASSUME NEW m \in Delivered' PROVE Start[m + 1] - 1 <= rcv'.seq
      <3>1. CASE m \in Delivered
        BY <1>1, <1>3, <3>1 DEF DoneInv
      <3>2. CASE m = FoundMsg /\ Finds # {}
        <4>1. StartNo + Q = Start[FoundMsg + 1] - 1 /\ StartNo + Q <= rcv.seq
          BY <1>1, <3>2, FoundWhole
        <4>2. QED
          BY <1>3, <3>2, <4>1
      <3>3. QED
        BY <1>7, <2>1, <3>1, <3>2
    <2>2. QED
      BY <2>1 DEF DoneInv
  <1>16. ReadInv'
    BY RecvRead
  <1>17. QED
    BY <1>4, <1>6, <1>13, <1>14, <1>15, <1>16 DEF AlignedInv

-----------------------------------------------------------------------------
(* The theorems.                                                           *)

LEMMA AlignedInit == MsgInit => AlignedInv
  <1> SUFFICES ASSUME MsgInit PROVE AlignedInv
    OBVIOUS
  <1>1. /\ made = 0 /\ sndLost = {} /\ packets = {} /\ read = <<>> /\ rcvLost = {}
        /\ snd = [first |-> 0, curr |-> 0, count |-> 0, ack |-> 0, seq |-> -1,
                  window |-> RcvSize]
        /\ rcv = [start |-> 0, ackPos |-> 0, maxPos |-> 0, ack |-> 0, seq |-> -1]
        /\ unit = [i \in 0 .. RcvSize - 1 |-> NoUnit]
    BY DEF MsgInit
  <1>2. CoreInv
    BY CoreInit
  <1>3. RcvDataSize = 0 /\ StartNo = 0
    <2>1. RcvType /\ rcv.start = 0 /\ rcv.ackPos = 0 /\ rcv.ack = 0
      BY <1>1, <1>2 DEF CoreInv
    <2>2. RcvDataSize = 0
      BY <2>1, DataSizeIs
    <2>3. QED
      BY <2>1, <2>2 DEF StartNo
  <1>4. /\ snd.curr = 0 /\ snd.ack = 0 /\ snd.seq = -1 /\ snd.window = RcvSize
        /\ rcv.seq = -1 /\ rcv.maxPos = 0 /\ RcvSize \in Nat /\ RcvSize >= 2
    BY <1>1, Sizes
  <1>5. SndInv
    <2>1. LastBlock = 0
      BY <1>1, Starts DEF LastBlock
    <2>2. QED
      BY <1>1, <1>3, <1>4, <2>1 DEF SndInv
  <1>6. PktInv
    BY <1>1 DEF PktInv
  <1>7. BufInv
    <2>1. NoUnit \in Units
      BY DEF NoUnit, Units
    <2>2. unit \in [0 .. RcvSize - 1 -> Units]
      BY <1>1, <2>1
    <2>3. ASSUME NEW i \in 0 .. RcvSize - 1 PROVE Here(i) = NoUnit
      <3>1. i \in 0 .. RcvSize /\ RcvType
        BY <1>2, <1>4 DEF CoreInv
      <3>2. Place(i) \in 0 .. RcvSize - 1
        BY <3>1, PlaceIs
      <3>3. QED
        BY <1>1, <3>2 DEF Here
    <2>4. QED
      BY <1>3, <1>4, <2>2, <2>3 DEF BufInv
  <1>8. Delivered = {} /\ ReadInv
    BY <1>1 DEF Delivered, ReadInv
  <1>9. MarkedInv /\ DoneInv
    BY <1>8 DEF MarkedInv, DoneInv
  <1>10. ArrivedInv
    <2>1. \A m \in Msgs : Start[m] >= StartNo
      BY <1>3, Starts
    <2>2. StartNo .. rcv.seq = {}
      BY <1>3, <1>4
    <2>3. QED
      BY <2>1, <2>2 DEF ArrivedInv
  <1>11. QED
    BY <1>5, <1>6, <1>7, <1>8, <1>9, <1>10 DEF AlignedInv

LEMMA MsgInitInv == MsgInit => MsgInv
  BY CoreInit, AlignedInit DEF MsgInv

LEMMA MsgStepInv == MsgInv /\ [MsgNext]_msgVars => MsgInv'
  <1> SUFFICES ASSUME MsgInv, [MsgNext]_msgVars PROVE MsgInv'
    OBVIOUS
  <1>1. CoreInv /\ CoreInv'
    BY CoreStep DEF MsgInv
  <1>2. ASSUME Aligned' PROVE AlignedInv'
    <2>1. Aligned
      BY <1>1, <1>2, WasAligned
    <2>2. AlignedInv
      BY <2>1 DEF MsgInv
    <2>3. CASE sendmsg \/ ExpResend \/ Nak \/ \E m \in Msgs : LifeEnds(m)
      BY <1>1, <2>2, <2>3, QuietStep
    <2>4. CASE packNew
      BY <1>1, <2>1, <2>2, <2>4, NewStep
    <2>5. CASE packLost
      BY <1>1, <1>2, <2>1, <2>2, <2>5, LostAligned
    <2>6. CASE Ack
      BY <1>1, <2>1, <2>2, <2>6, AckAligned
    <2>7. CASE recvmsg
      BY <1>1, <2>2, <2>7, RecvAligned
    <2>8. CASE \E p \in packets : RecvData(p) \/ RecvDrop(p)
      BY <1>1, <2>2, <2>8, DataAligned, DropReqAligned
    <2>9. CASE UNCHANGED msgVars
      <3>1. /\ UNCHANGED <<made, expired, snd, sndLost, given>>
            /\ UNCHANGED <<unit, rcv, rcvLost, read, packets>>
        BY <2>9 DEF msgVars, sndVars, rcvVars
      <3>2. snd'.seq \in Int /\ snd.seq <= snd'.seq
        <4>1. snd.seq \in Int
          BY <1>1, SndFields DEF CoreInv
        <4>2. QED
          BY <3>1, <4>1
      <3>3. SndInv' /\ PktInv'
        <4>1. StartNo \in Int /\ StartNo' = StartNo
          BY <1>1, <3>1, CountsAre DEF CoreInv, StartNo, RcvDataSize
        <4>2. StartNo' \in Int /\ StartNo <= StartNo'
          BY <4>1
        <4>3. SndInv /\ PktInv
          BY <2>2 DEF AlignedInv
        <4>4. QED
          BY <1>1, <3>1, <4>2, <4>3, ReceiverSide
      <3>4. QED
        BY <1>1, <2>2, <3>1, <3>2, <3>3, SenderSide
    <2>10. QED
      BY <2>3, <2>4, <2>5, <2>6, <2>7, <2>8, <2>9 DEF MsgNext
  <1>3. QED
    BY <1>1, <1>2 DEF MsgInv

(* The invariant holds of every behaviour.                                 *)
THEOREM MsgInvariance == MsgSpec => []MsgInv
  BY MsgInitInv, MsgStepInv, PTL DEF MsgSpec

(* recvmsg returns each message whole, at most once, and one sent in order   *)
(* after all before it that were not dropped or named with one dropped.      *)
THEOREM AlwaysDeliveredWhole == MsgSpec => []DeliveredWhole
  <1>1. MsgInv => DeliveredWhole
    <2> SUFFICES ASSUME MsgInv, Aligned PROVE
          /\ \A i \in DOMAIN read : Whole(read[i])
          /\ \A i, j \in DOMAIN read : i < j => read[i] # read[j]
          /\ \A j \in DOMAIN read : read[j][1].m \in Ordered =>
               \A m \in 1 .. read[j][1].m - 1 :
                 m \in given.dropped \cup given.exposed \/ \E i \in 1 .. j - 1 : read[i][1].m = m
      BY DEF DeliveredWhole
    <2>1. ReadInv
      BY DEF MsgInv, AlignedInv
    <2>2. DOMAIN read = 1 .. Len(read)
      BY <2>1 DEF ReadInv
    <2>3. QED
      BY <2>1, <2>2 DEF ReadInv
  <1>2. QED
    BY <1>1, MsgInvariance, PTL

(* What the sender has forgotten was delivered, waits whole in the receive   *)
(* buffer, or was dropped or named with one dropped.                        *)
THEOREM AlwaysNothingForgotten == MsgSpec => []NothingForgotten
  <1>1. MsgInv => NothingForgotten
    <2> SUFFICES ASSUME MsgInv, NEW m \in Msgs, Acked(m), Aligned, ~Settled(m) PROVE Kept(m)
      BY DEF NothingForgotten, Settled
    <2>1. CoreInv /\ BufInv /\ ArrivedInv
      BY DEF MsgInv, AlignedInv
    <2>2. /\ StartNo \in Int /\ RcvDataSize \in Nat /\ StartNo = rcv.ack - RcvDataSize
          /\ rcv.ack \in Nat /\ rcv.ack = snd.first /\ RcvType
      BY <2>1, CountsAre, RcvFields DEF CoreInv
    <2>3. /\ Start[m] \in Nat /\ Lens[m] \in Nat /\ Start[m + 1] = Start[m] + Lens[m]
          /\ Start[m] >= StartNo /\ Start[m + 1] <= rcv.ack
      BY <2>1, <2>2, Starts DEF ArrivedInv, Acked
    <2>4. ASSUME NEW k \in 1 .. Lens[m]
          PROVE  \E x \in DOMAIN unit : unit[x] = [m |-> m, k |-> k, flag |-> 1]
      <3>1. PICK j \in Nat : j = Start[m] + k - 1 - StartNo /\ j < RcvDataSize
                             /\ StartNo + j = Start[m] + k - 1
        BY <2>2, <2>3
      <3>2. In(StartNo + j, m)
        BY <2>2, <2>3, <3>1 DEF In
      <3>3. Here(j).flag = 1 /\ Here(j).m = m /\ j \in 0 .. RcvSize - 1
        BY <2>1, <3>1, <3>2, AckedFresh
      <3>4. Here(j) \in Units /\ Here(j).k = StartNo + j - Start[m] + 1
        BY <2>1, <3>3, UnitAt
      <3>5. Here(j).k = k
        <4>1. StartNo + j - Start[m] + 1 = k
          BY <2>2, <2>3, <3>1
        <4>2. QED
          BY <3>4, <4>1
      <3>6. Here(j) = [m |-> m, k |-> k, flag |-> 1]
        <4>1. PICK u \in Units : u = Here(j)
          BY <3>4
        <4>2. u.m = m /\ u.k = k /\ u.flag = 1
          BY <3>3, <3>5, <4>1
        <4>3. u = [m |-> m, k |-> k, flag |-> 1]
          BY <4>2 DEF Units
        <4>4. QED
          BY <4>1, <4>3
      <3>7. Place(j) \in DOMAIN unit
        <4>1. DOMAIN unit = 0 .. RcvSize - 1 /\ j \in 0 .. RcvSize
          BY <2>1, <3>3, Sizes DEF BufInv
        <4>2. QED
          BY <2>2, <4>1, PlaceIs
      <3>8. QED
        BY <3>6, <3>7 DEF Here
    <2>5. QED
      BY <2>4 DEF Kept
  <1>2. QED
    BY <1>1, MsgInvariance, PTL

-----------------------------------------------------------------------------
(* Messages without a life time.                                           *)

(* Nothing outlives its time, so nothing is dropped and no number skipped.  *)
Immortal ==
  expired = {} /\ given = [dropped |-> {}, exposed |-> {}] /\ Aligned

(* No step ends a life time if no message has one.                         *)
LEMMA ImmortalStep ==
  ASSUME Mortal = {}, MsgInv, MsgInv', Immortal, [MsgNext]_msgVars
  PROVE  Immortal'
  <1>1. SndType /\ SndType'
    BY DEF MsgInv, CoreInv
  <1>2. /\ snd.seq \in Int /\ snd.ack \in Int /\ snd.curr \in Int /\ snd.first \in Int
        /\ snd.seq - snd.ack = snd.curr - 1 - snd.first
    BY <1>1 DEF SndType, Immortal, Aligned
  <1>4. ASSUME UNCHANGED <<expired, given>>,
               snd'.seq - snd'.ack = snd'.curr - 1 - snd'.first
        PROVE  Immortal'
    BY <1>4 DEF Immortal, Aligned
  <1>5. ASSUME UNCHANGED <<expired, given>>,
               UNCHANGED <<snd.seq, snd.ack, snd.curr, snd.first>>
        PROVE  Immortal'
    BY <1>2, <1>4, <1>5
  <1>6. CASE sendmsg
    BY <1>1, <1>5, <1>6 DEF sendmsg, SndType
  <1>7. CASE packNew
    <2>1. /\ snd'.seq = snd.seq + 1 /\ snd'.curr = snd.curr + 1
          /\ snd'.ack = snd.ack /\ snd'.first = snd.first
      BY <1>1, <1>7 DEF packNew, SndType
    <2>2. QED
      BY <1>2, <1>4, <1>7, <2>1 DEF packNew
  <1>8. CASE packLost
    <2>1. ~Outlived(snd.first + (Min(sndLost) - snd.ack))
      BY DEF Outlived, Immortal
    <2>2. UNCHANGED <<expired, given, snd>>
      BY <1>8, <2>1 DEF packLost
    <2>3. QED
      BY <1>5, <2>2
  <1>9. CASE ExpResend \/ Nak
    BY <1>5, <1>9 DEF ExpResend, Nak
  <1>10. CASE Ack
    <2>1. /\ snd'.seq = snd.seq /\ snd'.curr = snd.curr
          /\ snd'.ack = AckPoint /\ snd'.first = snd.first + (AckPoint - snd.ack)
      BY <1>1, <1>10 DEF Ack, SndType
    <2>2. AckPoint \in Int
      BY <1>1, <2>1 DEF SndType
    <2>3. QED
      BY <1>2, <1>4, <1>10, <2>1, <2>2 DEF Ack
  <1>11. CASE recvmsg
    BY <1>5, <1>11 DEF recvmsg, sndVars
  <1>12. CASE \E m \in Msgs : LifeEnds(m)
    BY <1>12 DEF LifeEnds
  <1>13. CASE \E p \in packets : RecvData(p) \/ RecvDrop(p)
    BY <1>5, <1>13 DEF RecvData, RecvDrop, sndVars
  <1>14. CASE UNCHANGED msgVars
    BY <1>5, <1>14 DEF msgVars, sndVars
  <1>15. QED
    BY <1>6, <1>7, <1>8, <1>9, <1>10, <1>11, <1>12, <1>13, <1>14 DEF MsgNext

(* What t-msg.htm says of messages without a life time holds if no message   *)
(* has one: then each that the sender has forgotten was delivered or waits.  *)
THEOREM ImmortalDelivered ==
  ASSUME Mortal = {}
  PROVE  MsgSpec => []AlwaysDelivered
  <1>1. MsgInit => Immortal
    BY DEF MsgInit, Immortal, Aligned
  <1>2. MsgInv /\ MsgInv' /\ Immortal /\ [MsgNext]_msgVars => Immortal'
    BY ImmortalStep
  <1>3. MsgSpec => []NothingForgotten
    BY AlwaysNothingForgotten
  <1>4. Immortal /\ NothingForgotten => AlwaysDelivered
    BY DEF Immortal, NothingForgotten, AlwaysDelivered
  <1>5. QED
    BY <1>1, <1>2, <1>3, <1>4, MsgInvariance, PTL DEF MsgSpec
=============================================================================
