------------------------------ MODULE Messages ------------------------------
(***************************************************************************)
(* Message mode (SOCK_DGRAM): sendmsg with a life time and an order flag,   *)
(* the drop requests of packData, and recvmsg's search of the receive       *)
(* buffer (CRcvBuffer::scanMsg), which may read a message before it is      *)
(* acknowledged.  What Transfer shows of ACKs and NAKs is taken as one step *)
(* here.  A data packet or drop request, once sent, may arrive at any time,  *)
(* any number of times, or never.                                          *)
(*                                                                         *)
(* Sequence numbers start at 0 and do not wrap.  Message m has Lens[m]      *)
(* packets; block b of the send buffer is the b-th packet ever added, and   *)
(* one not yet filled has message number 0.                                *)
(***************************************************************************)
EXTENDS Integers, Sequences, FiniteSets, FiniteSetsExt

CONSTANTS Lens,        \* packets of each message
          Mortal,      \* the messages with a life time (TTL >= 0)
          Ordered,     \* those to be delivered in order
          Window,      \* the largest congestion window
          RcvSize      \* places in the receive buffer

ASSUME MessagesAssumption ==
  /\ Lens \in Seq(Nat \ {0})
  /\ Mortal \subseteq DOMAIN Lens /\ Ordered \subseteq DOMAIN Lens
  /\ Window \in Nat \ {0} /\ RcvSize \in Nat \ {0, 1}

Msgs == 1 .. Len(Lens)

VARIABLES
  made,      \* messages given to sendmsg so far
  expired,   \* those whose life time is over
  snd,       \* first, curr (blocks), count, ack, seq (numbers), window: the sender
  sndLost,   \* m_pSndLossList
  unit,      \* m_pUnit
  rcv,       \* start, ackPos, maxPos, ack, seq: the receiver
  rcvLost,   \* m_pRcvLossList
  packets,   \* data packets and drop requests sent so far
  read,      \* history: what each recvmsg returned
  given      \* history: messages a drop request was sent for ("dropped"),
             \* and those whose first packet it named too ("exposed")

sndVars == <<made, expired, snd, sndLost, given>>
rcvVars == <<unit, rcv, rcvLost, read>>
msgVars == <<sndVars, rcvVars, packets>>

Start[m \in 1 .. Len(Lens) + 1] == IF m = 1 THEN 0 ELSE Start[m - 1] + Lens[m - 1]
LastBlock == Start[made + 1]

NoMsg  == [m |-> 0, k |-> 0]
Block(b) ==
  IF b >= LastBlock THEN NoMsg
  ELSE LET m == CHOOSE x \in 1 .. made : Start[x] <= b /\ b < Start[x + 1]
       IN  [m |-> m, k |-> b - Start[m] + 1]

IsHead(x) == x.m # 0 /\ x.k = 1
IsTail(x) == x.m # 0 /\ x.k = Lens[x.m]

NoUnit == [m |-> 0, k |-> 0, flag |-> 0]

MsgInit ==
  /\ made = 0 /\ expired = {} /\ sndLost = {}
  /\ snd = [first |-> 0, curr |-> 0, count |-> 0, ack |-> 0, seq |-> -1,
            window |-> RcvSize]
  /\ unit = [i \in 0 .. RcvSize - 1 |-> NoUnit]
  /\ rcv = [start |-> 0, ackPos |-> 0, maxPos |-> 0, ack |-> 0, seq |-> -1]
  /\ rcvLost = {} /\ packets = {} /\ read = <<>>
  /\ given = [dropped |-> {}, exposed |-> {}]

-----------------------------------------------------------------------------
(* The sender.                                                             *)

sendmsg ==
  /\ made < Len(Lens)
  /\ made' = made + 1
  /\ snd' = [snd EXCEPT !.count = @ + Lens[made']]
  /\ UNCHANGED <<expired, sndLost, given, rcvVars, packets>>

(* The life time starts when the message is added.                         *)
LifeEnds(m) ==
  /\ m \in Mortal \ expired /\ m <= made
  /\ expired' = expired \cup {m}
  /\ UNCHANGED <<made, snd, sndLost, given, rcvVars, packets>>

Data(s, b) == [type |-> "data", lo |-> s, hi |-> s, m |-> Block(b).m, k |-> Block(b).k]
DropReq(lo, hi, m) == [type |-> "drop", lo |-> lo, hi |-> hi, m |-> m, k |-> 0]

CongWindow == IF snd.window < Window THEN snd.window ELSE Window

packNew ==
  /\ sndLost = {}
  /\ CongWindow >= snd.seq + 2 - snd.ack /\ snd.curr # LastBlock
  /\ snd' = [snd EXCEPT !.seq = @ + 1, !.curr = @ + 1]
  /\ packets' = packets \cup {Data(snd.seq + 1, snd.curr)}
  /\ UNCHANGED <<made, expired, sndLost, given, rcvVars>>

(* readData(offset) for the least lost number s: the block again, or -1 and *)
(* the number of packets from this one to the end of its message.           *)
Outlived(b) == Block(b).m \in expired
MsgEnd(b)  == Start[Block(b).m + 1]
DropLen(b) == MsgEnd(b) - b

packLost ==
  LET s == Min(sndLost)
      b == snd.first + (s - snd.ack)
      hi == s + DropLen(b)
  IN  /\ sndLost # {}
      /\ IF s < snd.ack
           THEN sndLost' = sndLost \ {s} /\ UNCHANGED <<snd, packets, given>>
         ELSE IF ~Outlived(b)
           THEN /\ sndLost' = sndLost \ {s}
                /\ packets' = packets \cup {Data(s, b)}
                /\ UNCHANGED <<snd, given>>
         ELSE /\ sndLost' = {x \in sndLost : x > hi}
              /\ packets' = packets \cup {DropReq(s, hi, Block(b).m)}
              /\ snd' = [snd EXCEPT !.seq = IF @ < hi + 1 THEN hi + 1 ELSE @,
                                    !.curr = IF b < @ /\ @ < MsgEnd(b) THEN MsgEnd(b) ELSE @]
              /\ given' = [dropped |-> given.dropped \cup {Block(b).m},
                           exposed |-> given.exposed \cup {Block(b).m + 1}]
      /\ UNCHANGED <<made, expired, rcvVars>>

(* EXP: nothing was heard of what is on the way.                           *)
ExpResend ==
  /\ sndLost = {} /\ snd.count > 0 /\ snd.seq + 1 # snd.ack
  /\ sndLost' = snd.ack .. snd.seq
  /\ UNCHANGED <<made, expired, snd, given, rcvVars, packets>>

(* The receiver's periodic NAK, and its ACK (sendCtrl and processCtrl).     *)
Nak ==
  /\ rcvLost # {}
  /\ sndLost' = sndLost \cup {s \in rcvLost : s >= snd.ack}
  /\ UNCHANGED <<made, expired, snd, given, rcvVars, packets>>

RcvDataSize  == (rcv.ackPos - rcv.start + RcvSize) % RcvSize
AvailBufSize == RcvSize - RcvDataSize - 1

AckLatest == rcv.seq + 1
AckPoint  == IF rcvLost = {} THEN rcv.seq + 1 ELSE Min(rcvLost)

(* The least window granted, "to break potential deadlock".                *)
Granted(avail) == IF avail < 2 THEN 2 ELSE avail

(* An ACK of nothing new goes out again until its ACK2 has come; nothing is *)
(* to be acknowledged before the first number.                             *)
Ack ==
  LET n == AckPoint - rcv.ack
  IN  /\ n > 0 \/ rcv.ack > 0
      /\ rcv' = [rcv EXCEPT !.ack = AckPoint, !.ackPos = (@ + n) % RcvSize,
                            !.maxPos = IF @ > n THEN @ - n ELSE 0]
      /\ snd' = [snd EXCEPT !.first = @ + (AckPoint - snd.ack), !.ack = AckPoint,
                            !.count = @ - (AckPoint - snd.ack),
                            !.window = Granted(AvailBufSize')]
      /\ sndLost' = {s \in sndLost : s >= AckPoint}
      /\ UNCHANGED <<made, expired, given, unit, rcvLost, read, packets>>

-----------------------------------------------------------------------------
(* The receiver.                                                           *)

Place(i) == (rcv.start + i) % RcvSize

RecvData(p) ==
  LET offset == p.lo - rcv.ack
      pos    == (rcv.ackPos + offset) % RcvSize
  IN  /\ p.type = "data"
      /\ IF offset < 0 \/ offset >= AvailBufSize
           THEN UNCHANGED rcvVars
         ELSE LET most == IF offset > rcv.maxPos THEN offset ELSE rcv.maxPos
              IN IF unit[pos].flag # 0
                   THEN rcv' = [rcv EXCEPT !.maxPos = most] /\ UNCHANGED <<unit, rcvLost, read>>
                   ELSE /\ unit' = [unit EXCEPT ![pos] = [m |-> p.m, k |-> p.k, flag |-> 1]]
                        /\ rcv' = [rcv EXCEPT !.maxPos = most, !.seq = IF p.lo > @ THEN p.lo ELSE @]
                        /\ rcvLost' = (rcvLost \cup (rcv.seq + 1 .. p.lo - 1)) \ {p.lo}
                        /\ UNCHANGED read
      /\ UNCHANGED <<sndVars, packets>>

(* dropMsg compares whole message number fields, flags included, so it      *)
(* finds only the middle packets of a message without order.               *)
DropsUnit(x, p) == x.flag # 0 /\ x.m = p.m /\ ~IsHead(x) /\ ~IsTail(x) /\ x.m \notin Ordered

RecvDrop(p) ==
  LET range == {Place(i) : i \in 0 .. RcvDataSize + rcv.maxPos - 1}
  IN  /\ p.type = "drop"
      /\ unit' = [i \in DOMAIN unit |->
                    IF i \in range /\ DropsUnit(unit[i], p)
                      THEN [unit[i] EXCEPT !.flag = 3] ELSE unit[i]]
      /\ rcvLost' = rcvLost \ (p.lo .. p.hi)
      /\ rcv' = [rcv EXCEPT !.seq = IF p.lo <= @ + 1 /\ p.hi > @ THEN p.hi ELSE @]
      /\ UNCHANGED <<read, sndVars, packets>>

(* scanMsg, first part.  The message at the start is good when no hole      *)
(* comes before its tail, as far as it is acknowledged; what is not goes.   *)
Here(i)  == unit[Place(i)]
Fresh(i) == Here(i).flag = 1
Good(i)  ==
  /\ Fresh(i) /\ IsHead(Here(i))
  /\ \A e \in i .. RcvDataSize - 1 :
       (\A f \in i .. e - 1 : ~IsTail(Here(f))) => Fresh(e)

Skipped == Min({i \in 0 .. RcvDataSize : i = RcvDataSize \/ Good(i)})

(* Second part: the first tail that ends a message without a hole and is    *)
(* acknowledged, or needs no order.  Places are counted from the start.     *)
(* (scanMsg's last branch, for a message without a tail that fills the      *)
(* buffer, ends with q next to p: readMsg then takes nothing and, as the    *)
(* search has passed the ACK, m_iStartPos stays.  It is as if none is found.) *)
Heads(i)    == {h \in Skipped .. i : IsHead(Here(h)) /\ \A j \in h .. i : Fresh(j)}
AnyOrder(i) == TRUE
InTurn(i)   == i < RcvDataSize \/ Here(i).m \notin Ordered
Complete(i) == Heads(i) # {} /\ IsTail(Here(i)) /\ InTurn(i)
Finds       == {i \in Skipped .. RcvDataSize + rcv.maxPos : Complete(i)}

recvmsg ==
  LET q == Min(Finds)
      p == Max(Heads(q))
      dropped(i) == i \in {Place(j) : j \in 0 .. Skipped - 1}
      taken(i)   == i \in {Place(j) : j \in p .. q}
  IN  /\ RcvDataSize > 0 \/ rcv.maxPos > 0
      /\ IF Finds = {}
           THEN /\ unit' = [i \in DOMAIN unit |-> IF dropped(i) THEN NoUnit ELSE unit[i]]
                /\ rcv' = [rcv EXCEPT !.start = Place(Skipped)]
                /\ UNCHANGED read
           ELSE /\ read' = Append(read, [i \in 1 .. q - p + 1 |->
                                           [m |-> Here(p + i - 1).m, k |-> Here(p + i - 1).k]])
                /\ IF q < RcvDataSize
                     THEN /\ unit' = [i \in DOMAIN unit |->
                                        IF dropped(i) \/ taken(i) THEN NoUnit ELSE unit[i]]
                          /\ rcv' = [rcv EXCEPT !.start = Place(q + 1)]
                     ELSE /\ unit' = [i \in DOMAIN unit |->
                                        IF dropped(i) THEN NoUnit
                                        ELSE IF taken(i) THEN [unit[i] EXCEPT !.flag = 2]
                                        ELSE unit[i]]
                          /\ rcv' = [rcv EXCEPT !.start = Place(Skipped)]
      /\ UNCHANGED <<rcvLost, sndVars, packets>>

-----------------------------------------------------------------------------
MsgNext ==
  \/ sendmsg \/ packNew \/ packLost \/ ExpResend \/ Nak \/ Ack \/ recvmsg
  \/ \E m \in Msgs : LifeEnds(m)
  \/ \E p \in packets : RecvData(p) \/ RecvDrop(p)

MsgSpec == MsgInit /\ [][MsgNext]_msgVars

-----------------------------------------------------------------------------
(* Every sequence number on the way is that of the block next to it.       *)
Aligned == snd.seq - snd.ack = snd.curr - 1 - snd.first

Whole(x) == \E m \in Msgs : x = [k \in 1 .. Lens[m] |-> [m |-> m, k |-> k]]
Delivered == {read[i][1].m : i \in DOMAIN read}

(* t-msg.htm: "a message will be either completely delivered or not         *)
(* delivered at all", once, and one sent in order after all before it that  *)
(* were not dropped.  It holds as long as no drop request has made the      *)
(* sender skip numbers it never used: from then on it resends the wrong     *)
(* blocks.                                                                 *)
DeliveredWhole ==
  Aligned =>
    /\ \A i \in DOMAIN read : Whole(read[i])
    /\ \A i, j \in DOMAIN read : i < j => read[i] # read[j]
    /\ \A j \in DOMAIN read : read[j][1].m \in Ordered =>
         \A m \in 1 .. read[j][1].m - 1 :
           m \in given.dropped \cup given.exposed \/ \E i \in 1 .. j - 1 : read[i][1].m = m

Kept(m) == \A k \in 1 .. Lens[m] :
             \E i \in DOMAIN unit : unit[i] = [m |-> m, k |-> k, flag |-> 1]
(* All packets of m were sent and are acknowledged.  (m_iSndLastDataAck may  *)
(* be past snd.curr, after an ACK of skipped numbers.)                      *)
Acked(m) == m <= made /\ Start[m + 1] <= snd.curr /\ Start[m + 1] <= snd.first

(* A message the sender has forgotten has been delivered or waits, whole,   *)
(* in the receive buffer; but for those dropped, the one after a dropped    *)
(* one, whose first packet the request names too, and skipped numbers.      *)
NothingForgotten ==
  \A m \in Msgs :
    Acked(m) => \/ m \in Delivered \/ Kept(m)
                \/ m \in given.dropped \cup given.exposed \/ ~Aligned

(* t-msg.htm of the life time: "The default value is infinite, which means  *)
(* that the message will always be delivered."                             *)
AlwaysDelivered ==
  \A m \in Msgs \ Mortal : Acked(m) => m \in Delivered \/ Kept(m)
=============================================================================
