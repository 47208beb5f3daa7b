------------------------------ MODULE Transfer ------------------------------
(***************************************************************************)
(* One direction of an established stream connection (UDT_STREAM): the     *)
(* application's send(), the sending worker (CSndUList::pop, packData and   *)
(* sendto), the receiving worker of the sending host (processCtrl and the   *)
(* EXP branch of checkTimers), the network, the receiving worker of the     *)
(* receiving host (processData, the ACK branch of checkTimers) and the      *)
(* application's recv().                                                    *)
(*                                                                         *)
(* Sequence numbers are unwrapped and the initial one is 0; LossListProofs  *)
(* shows that the circular arithmetic of CSeqNo agrees with this reading.   *)
(* The loss lists are sets (SndLossList and RcvLossList implement them).    *)
(* Block b is the b-th packet's worth of data the application handed to     *)
(* send().                                                                 *)
(***************************************************************************)
EXTENDS Integers, Sequences, FiniteSets

CONSTANTS
  DataSize,      \* packets' worth of data the application sends (a bound)
  SendSizes,     \* the lengths of the send() calls, in packets
  SndBufSize,    \* m_iSndBufSize of the sender, in packets
  BlockRing,     \* m_iSize of the send buffer as it starts (it only grows)
  RcvBufSize,    \* m_iRcvBufSize of the receiver, in packets
  FlightFlag,    \* the receiver's flight flag: the initial m_iFlowWindowSize
  CongWindows,   \* the values the congestion controller gives its window
  ExpLimit,      \* expirations after which a silent peer may be given up (16)
  MayDie,        \* whether the peer may stay silent for the 5 seconds it takes
  EagerTimer,    \* whether the EXP timer may expire while threads have work
  PeerTraffic,   \* whether the peer sends data of its own on this connection
  Duplicates,    \* TRUE: a packet is delivered any number of times, or never
  Ack2Sent,      \* whether an ACK is answered: {TRUE}, or BOOLEAN if rationed
  LiteAcks,      \* whether the receiver sends light ACKs as well
  MaxLoss,       \* FALSE: it is delivered once, unless it is among MaxLoss lost
  Garbled        \* the payload read from a block the send buffer is refilling

ASSUME SizeAssumption ==
  /\ DataSize \in Nat /\ SndBufSize \in Nat \ {0} /\ BlockRing \in Nat \ {0}
  /\ RcvBufSize \in Nat /\ RcvBufSize >= 2
  /\ FlightFlag \in Nat \ {0}
  /\ SendSizes \subseteq Nat \ {0}
  /\ CongWindows \subseteq Nat \ {0}
  /\ ExpLimit \in Nat /\ MaxLoss \in Nat
ASSUME SwitchAssumption ==
  /\ MayDie \in BOOLEAN /\ PeerTraffic \in BOOLEAN /\ Duplicates \in BOOLEAN
  /\ EagerTimer \in BOOLEAN /\ LiteAcks \in BOOLEAN /\ Ack2Sent \in SUBSET BOOLEAN
ASSUME GarbledAssumption == Garbled \notin Int

VARIABLES
  \* the sending application and the send buffer (CSndBuffer)
  appPc,           \* where send() is: "idle", "count" or "update"
  appSize,         \* the blocks this send() is adding
  lastBlock,       \* m_pLastBlock: blocks appended so far
  currBlock,       \* m_pCurrBlock: the next block never sent
  firstBlock,      \* m_pFirstBlock: the first block not acknowledged
  count,           \* m_iCount
  \* sending state shared by the two workers of the sending host
  sndCurrSeqNo, sndLastAck, sndLastDataAck, flowWindowSize,
  sndLossList,     \* CSndLossList, as the set of numbers it holds
  scheduled,       \* the socket is on the CSndUList heap
  broken,          \* "no", "insecure" (a check tripped) or "timeout"
  \* the sending worker
  sndPc,           \* "idle", "rexmit", "window", "new" or "xmit"
  sndSeqNo,        \* packet.m_iSeqNo
  sndBlock,        \* the block packet.m_pcData points into
  sndWindow,       \* the local cwnd
  \* the receiving worker of the sending host
  ctrlPc,          \* "idle", "ack" or "update"
  ctrlAck,         \* the ACK number being processed
  expDue,          \* currtime > next_exp_time
  expCount,        \* m_iEXPCount
  \* the receiving host
  rcvBuf,          \* CRcvBuffer: the packets its units hold
  startPos,        \* m_iStartPos, unwrapped
  readPos,         \* the local p of readBuffer
  readEnd,         \* the local lastack of readBuffer
  rcvLastAck, rcvLastAckAck, rcvCurrSeqNo,
  rcvLossList,     \* CRcvLossList, as the set of numbers it holds
  delivered,       \* the payloads recv() has returned, in order
  \* the network
  net, losses

appVars  == <<appPc, appSize, lastBlock>>
ackVars  == <<firstBlock, sndLastAck, sndLastDataAck, flowWindowSize>>
wrkVars  == <<sndPc, sndSeqNo, sndBlock, sndWindow>>
ctrlVars == <<ctrlPc, ctrlAck>>
expVars  == <<expDue, expCount>>
readVars == <<startPos, readPos, readEnd, delivered>>
rcvVars  == <<rcvBuf, rcvLastAck, rcvLastAckAck, rcvCurrSeqNo, rcvLossList>>
netVars  == <<net, losses>>
sndVars  == <<appVars, ackVars, wrkVars, ctrlVars, expVars, currBlock, count,
              sndCurrSeqNo, sndLossList, scheduled, broken>>
vars     == <<sndVars, readVars, rcvVars, netVars>>

-----------------------------------------------------------------------------
(* The packets.  An ACK carries the flow window; the ACK sequence number    *)
(* that pairs it with its ACK2 is kept by CACKWindow (module AckWindow), so *)
(* an ACK2 carries the data ACK that window would return for it.           *)
DataPkt(s, d)  == [type |-> "data", seq |-> s, data |-> d]
AckPkt(a, w)   == [type |-> "ack",  ack |-> a, window |-> w]
LitePkt(a)     == [type |-> "lite", ack |-> a]
Ack2Pkt(a)     == [type |-> "ack2", ack |-> a]
NakPkt(lo, hi) == [type |-> "nak",  lo |-> lo, hi |-> hi]

After(m, sent) == (IF Duplicates THEN net ELSE net \ {m}) \cup sent
Received(m, sent) == net' = After(m, sent) /\ UNCHANGED losses
Sent(sent) == net' = net \cup sent /\ UNCHANGED losses

Lose(m) == /\ ~Duplicates /\ losses < MaxLoss
           /\ net' = net \ {m} /\ losses' = losses + 1
           /\ UNCHANGED <<sndVars, readVars, rcvVars>>

(* The least element of a set of numbers, as a set of at most one element.  *)
Least(S) == {s \in S : \A t \in S : s <= t}
Smaller(a, b) == IF a < b THEN a ELSE b
Larger(a, b)  == IF a > b THEN a ELSE b

-----------------------------------------------------------------------------
(* The sending application.  addBuffer publishes m_pLastBlock before it     *)
(* takes m_BufLock to raise m_iCount, and send() schedules the socket last. *)

AddBuffer(len) ==
  /\ broken = "no" /\ appPc = "idle"
  /\ count < SndBufSize /\ lastBlock < DataSize
  /\ appSize' = Smaller(len, Smaller(SndBufSize - count, DataSize - lastBlock))
  /\ lastBlock' = lastBlock + appSize'
  /\ appPc' = "count"
  /\ expDue' = (expDue /\ count # 0)
  /\ UNCHANGED <<ackVars, wrkVars, ctrlVars, expCount, currBlock, count,
                 sndCurrSeqNo, sndLossList, scheduled, broken,
                 readVars, rcvVars, netVars>>

AddCount ==
  /\ appPc = "count"
  /\ count' = count + appSize
  /\ appPc' = "update"
  /\ appSize' = 0
  /\ UNCHANGED <<lastBlock, ackVars, wrkVars, ctrlVars, expVars, currBlock,
                 sndCurrSeqNo, sndLossList, scheduled, broken,
                 readVars, rcvVars, netVars>>

(* CSndUList::update takes the list lock, which pop holds through packData. *)
ListFree == sndPc \in {"idle", "xmit"}

AppUpdate ==
  /\ appPc = "update" /\ ListFree
  /\ scheduled' = TRUE
  /\ appPc' = "idle"
  /\ UNCHANGED <<appSize, lastBlock, ackVars, wrkVars, ctrlVars, expVars,
                 currBlock, count, sndCurrSeqNo, sndLossList, broken,
                 readVars, rcvVars, netVars>>

-----------------------------------------------------------------------------
(* The sending worker.  pop takes the socket off the heap and packs one     *)
(* packet under the list lock, and puts the socket back only if there was   *)
(* one; sendto runs after the lock is released, on a packet whose payload   *)
(* still lies in the send buffer.                                          *)

Pop ==
  /\ sndPc = "idle" /\ scheduled
  /\ scheduled' = FALSE
  /\ IF broken # "no"
       THEN UNCHANGED <<sndPc, sndSeqNo, sndLossList>>
       ELSE \/ \E s \in Least(sndLossList) :
                 /\ sndLossList' = sndLossList \ {s}
                 /\ sndSeqNo' = s
                 /\ sndPc' = "rexmit"
            \/ /\ sndLossList = {}
               /\ sndPc' = "window"
               /\ UNCHANGED <<sndSeqNo, sndLossList>>
  /\ UNCHANGED <<sndBlock, sndWindow, appVars, ackVars, ctrlVars, expVars,
                 currBlock, count, sndCurrSeqNo, broken,
                 readVars, rcvVars, netVars>>

Idle == sndPc' = "idle" /\ sndSeqNo' = 0 /\ sndBlock' = 0 /\ sndWindow' = 0

(* readData(offset): the block offset places after m_pFirstBlock.           *)
LostBlockFromLastAck(s) == firstBlock + (s - sndLastAck)
LostBlockAfter(s)       == firstBlock + (s - sndLastDataAck) + 1
LostBlock(s)            == firstBlock + (s - sndLastDataAck)

(* The retransmission branch, under m_AckLock.                             *)
PackLost ==
  /\ sndPc = "rexmit"
  /\ IF sndSeqNo < sndLastDataAck
       THEN Idle /\ UNCHANGED scheduled
       ELSE /\ sndBlock' = LostBlock(sndSeqNo)
            /\ sndPc' = "xmit"
            /\ scheduled' = TRUE
            /\ UNCHANGED <<sndSeqNo, sndWindow>>
  /\ UNCHANGED <<appVars, ackVars, ctrlVars, expVars, currBlock, count,
                 sndCurrSeqNo, sndLossList, broken, readVars, rcvVars, netVars>>

(* The branch for a new packet reads m_iFlowWindowSize first ...            *)
ReadWindow ==
  /\ sndPc = "window"
  /\ \E c \in CongWindows : sndWindow' = Smaller(flowWindowSize, c)
  /\ sndPc' = "new"
  /\ UNCHANGED <<sndSeqNo, sndBlock, appVars, ackVars, ctrlVars, expVars,
                 currBlock, count, sndCurrSeqNo, sndLossList, scheduled, broken,
                 readVars, rcvVars, netVars>>

(* ... and m_iSndLastAck after it, with no lock in between.                 *)
WindowOpen == sndWindow >= sndCurrSeqNo + 1 - sndLastAck + 1

PackNew ==
  /\ sndPc = "new"
  /\ IF WindowOpen /\ currBlock # lastBlock
       THEN /\ currBlock' = currBlock + 1
            /\ sndCurrSeqNo' = sndCurrSeqNo + 1
            /\ sndSeqNo' = sndCurrSeqNo + 1
            /\ sndBlock' = currBlock
            /\ sndWindow' = 0
            /\ sndPc' = "xmit"
            /\ scheduled' = TRUE
       ELSE Idle /\ UNCHANGED <<currBlock, sndCurrSeqNo, scheduled>>
  /\ UNCHANGED <<appVars, ackVars, ctrlVars, expVars, count, sndLossList,
                 broken, readVars, rcvVars, netVars>>

(* What sendto reads through packet.m_pcData: once block b is acknowledged, *)
(* addBuffer may put block b + BlockRing, or a part of it, in its place.    *)
Payloads(b) == IF b < firstBlock /\ b + BlockRing < lastBlock
                 THEN {b, Garbled} ELSE {b}

SendTo ==
  /\ sndPc = "xmit"
  /\ \E d \in Payloads(sndBlock) : Sent({DataPkt(sndSeqNo, d)})
  /\ Idle
  /\ UNCHANGED <<appVars, ackVars, ctrlVars, expVars, currBlock, count,
                 sndCurrSeqNo, sndLossList, scheduled, broken, readVars, rcvVars>>

-----------------------------------------------------------------------------
(* The receiving worker of the sending host.  Any packet resets the         *)
(* expiration timer and its count.                                         *)

Listening == broken = "no" /\ ctrlPc = "idle"
Heard     == expDue' = FALSE /\ expCount' = 1

RecvLiteAck(m) ==
  /\ Listening /\ m.type = "lite"
  /\ Heard
  /\ IF m.ack >= sndLastAck
       THEN /\ flowWindowSize' = flowWindowSize - (m.ack - sndLastAck)
            /\ sndLastAck' = m.ack
       ELSE UNCHANGED <<flowWindowSize, sndLastAck>>
  /\ Received(m, {})
  /\ UNCHANGED <<firstBlock, sndLastDataAck, appVars, wrkVars, ctrlVars,
                 currBlock, count, sndCurrSeqNo, sndLossList, scheduled, broken,
                 readVars, rcvVars>>

(* An ACK overtaken by a later one must not take the cursor back.           *)
AnyAck(ack)   == TRUE
NewerAck(ack) == ack >= sndLastAck

(* The first part of a full ACK, up to m_AckLock; the ACK2 is rationed to   *)
(* one per SYN interval, so it may be left out.                            *)
RecvAck(m, ack2) ==
  /\ Listening /\ m.type = "ack"
  /\ Heard
  /\ Received(m, IF ack2 THEN {Ack2Pkt(m.ack)} ELSE {})
  /\ IF m.ack > sndCurrSeqNo + 1
       THEN /\ broken' = "insecure"
            /\ UNCHANGED <<flowWindowSize, sndLastAck, ctrlVars>>
       ELSE /\ IF NewerAck(m.ack)
                 THEN flowWindowSize' = m.window /\ sndLastAck' = m.ack
                 ELSE UNCHANGED <<flowWindowSize, sndLastAck>>
            /\ ctrlPc' = "ack"
            /\ ctrlAck' = m.ack
            /\ UNCHANGED broken
  /\ UNCHANGED <<firstBlock, sndLastDataAck, appVars, wrkVars, currBlock, count,
                 sndCurrSeqNo, sndLossList, scheduled, readVars, rcvVars>>

RepeatedByLastAck(ack) == ack <= sndLastAck
Repeated(ack)          == ack <= sndLastDataAck
AckedAndNext(ack)      == ack - sndLastDataAck + 1
Acked(ack)             == ack - sndLastDataAck

(* The part under m_AckLock: free the acknowledged blocks, move             *)
(* m_iSndLastDataAck and clear the sender's loss list up to it.             *)
CommitAck ==
  /\ ctrlPc = "ack"
  /\ ctrlAck' = 0
  /\ IF Repeated(ctrlAck)
       THEN /\ ctrlPc' = "idle"
            /\ UNCHANGED <<firstBlock, count, sndLastDataAck, sndLossList>>
       ELSE /\ firstBlock' = firstBlock + Acked(ctrlAck)
            /\ count' = count - Acked(ctrlAck)
            /\ sndLastDataAck' = ctrlAck
            /\ sndLossList' = {s \in sndLossList : s > ctrlAck - 1}
            /\ ctrlPc' = "update"
  /\ UNCHANGED <<sndLastAck, flowWindowSize, appVars, wrkVars, expVars,
                 currBlock, sndCurrSeqNo, scheduled, broken,
                 readVars, rcvVars, netVars>>

CtrlUpdate ==
  /\ ctrlPc = "update" /\ ListFree
  /\ scheduled' = TRUE
  /\ ctrlPc' = "idle"
  /\ UNCHANGED <<ctrlAck, appVars, ackVars, wrkVars, expVars, currBlock, count,
                 sndCurrSeqNo, sndLossList, broken, readVars, rcvVars, netVars>>

RecvNak(m) ==
  /\ Listening /\ m.type = "nak"
  /\ Heard
  /\ Received(m, {})
  /\ IF m.lo > m.hi \/ m.hi > sndCurrSeqNo
       THEN broken' = "insecure" /\ UNCHANGED <<sndLossList, ctrlPc>>
       ELSE /\ sndLossList' = sndLossList \cup (Larger(m.lo, sndLastAck) .. m.hi)
            /\ ctrlPc' = "update"
            /\ UNCHANGED broken
  /\ UNCHANGED <<ctrlAck, appVars, ackVars, wrkVars, currBlock, count,
                 sndCurrSeqNo, scheduled, readVars, rcvVars>>

(* A data packet of the peer's own stream, or anything else it sends.       *)
RecvOther ==
  /\ PeerTraffic /\ Listening
  /\ expDue \/ expCount # 1
  /\ Heard
  /\ UNCHANGED <<appVars, ackVars, wrkVars, ctrlVars, currBlock, count,
                 sndCurrSeqNo, sndLossList, scheduled, broken,
                 readVars, rcvVars, netVars>>

(* Time passes without a word from the peer, 300 ms at least: unless        *)
(* EagerTimer, the threads of this host finish what they are doing first.  *)
ExpTick ==
  /\ broken = "no" /\ ~expDue
  /\ EagerTimer \/ (appPc = "idle" /\ sndPc = "idle" /\ ctrlPc = "idle" /\ ~scheduled)
  /\ expDue' = TRUE
  /\ UNCHANGED <<expCount, appVars, ackVars, wrkVars, ctrlVars, currBlock,
                 count, sndCurrSeqNo, sndLossList, scheduled, broken,
                 readVars, rcvVars, netVars>>

(* ... and checkTimers finds that it did: it gives up, or sends everything  *)
(* that is unacknowledged again, or only a keep-alive.                     *)
ExpTimeout ==
  /\ Listening /\ expDue
  /\ MayDie /\ expCount > ExpLimit
  /\ broken' = "timeout"
  /\ ctrlPc' = "update"
  /\ UNCHANGED <<ctrlAck, expVars, appVars, ackVars, wrkVars, currBlock, count,
                 sndCurrSeqNo, sndLossList, scheduled, readVars, rcvVars, netVars>>

ExpResend ==
  /\ Listening /\ expDue
  /\ expDue' = FALSE
  /\ expCount' = IF expCount > ExpLimit THEN expCount ELSE expCount + 1
  /\ IF count > 0
       THEN /\ sndLossList' = IF sndCurrSeqNo + 1 # sndLastAck /\ sndLossList = {}
                                THEN sndLastAck .. sndCurrSeqNo
                                ELSE sndLossList
            /\ ctrlPc' = "update"
       ELSE UNCHANGED <<sndLossList, ctrlPc>>
  /\ UNCHANGED <<ctrlAck, appVars, ackVars, wrkVars, currBlock, count,
                 sndCurrSeqNo, scheduled, broken, readVars, rcvVars, netVars>>

-----------------------------------------------------------------------------
(* The receiving host.  The unit of packet s sits at index s % RcvBufSize   *)
(* of m_pUnit: m_iLastAckPos and m_iStartPos are rcvLastAck and startPos    *)
(* modulo the size.                                                        *)

Slot(s) == s % RcvBufSize
RcvDataSize  == (rcvLastAck - startPos) % RcvBufSize
WholeBuf     == RcvBufSize - RcvDataSize
AvailBufSize == RcvBufSize - RcvDataSize - 1

(* The numbers a packet shows to be missing.                               *)
GapButFirst(s) == rcvCurrSeqNo + 2 .. s - 1
Gap(s)         == rcvCurrSeqNo + 1 .. s - 1

RecvData(m) ==
  /\ m.type = "data"
  /\ LET offset == m.seq - rcvLastAck
     IN  IF \/ offset < 0 \/ offset >= AvailBufSize
            \/ \E u \in rcvBuf : Slot(u.seq) = Slot(m.seq)
           THEN Received(m, {}) /\ UNCHANGED rcvVars
           ELSE /\ rcvBuf' = rcvBuf \cup {[seq |-> m.seq, data |-> m.data]}
                /\ rcvLossList' = (rcvLossList \cup Gap(m.seq)) \ {m.seq}
                /\ rcvCurrSeqNo' = Larger(m.seq, rcvCurrSeqNo)
                /\ Received(m, IF Gap(m.seq) = {} THEN {}
                               ELSE {NakPkt(rcvCurrSeqNo + 1, m.seq - 1)})
                /\ UNCHANGED <<rcvLastAck, rcvLastAckAck>>
  /\ UNCHANGED <<sndVars, readVars>>

AckLargest == {rcvCurrSeqNo}
AckBeyond  == {rcvCurrSeqNo + 2}
AckNext    == {rcvCurrSeqNo + 1}
AckPoint   == IF rcvLossList = {} THEN {rcvCurrSeqNo + 1} ELSE Least(rcvLossList)

(* The receiver reports a number until an ACK2 says it was heard.           *)
Unheard(ack)   == ack # rcvLastAckAck

(* The flow window granted with it: at least 2, "to break potential         *)
(* deadlock" when the buffer is full.                                      *)
GrantedRoom(ack) == RcvBufSize - ((ack - startPos) % RcvBufSize) - 1
Granted(ack) == Larger(RcvBufSize - ((ack - startPos) % RcvBufSize) - 1, 2)

(* sendCtrl(2): the numbers below the first loss are passed to the reader   *)
(* (ackData) and reported until the sender is known to have heard.  An ACK  *)
(* of nothing new is repeated only after RTT + 4 * RTTVar: any time here.   *)
SendAck ==
  \E ack \in AckPoint :
    /\ Unheard(ack) /\ ack >= rcvLastAck
    /\ rcvLastAck' = ack
    /\ IF ack > rcvLastAckAck
         THEN Sent({AckPkt(ack, Granted(ack))})
         ELSE UNCHANGED netVars
    /\ UNCHANGED <<rcvBuf, rcvLastAckAck, rcvCurrSeqNo, rcvLossList,
                   sndVars, readVars>>

SendLiteAck ==
  /\ LiteAcks
  /\ \E ack \in AckPoint : Unheard(ack) /\ Sent({LitePkt(ack)})
  /\ UNCHANGED <<sndVars, readVars, rcvVars>>

RecvAck2(m) ==
  /\ m.type = "ack2"
  /\ rcvLastAckAck' = Larger(m.ack, rcvLastAckAck)
  /\ Received(m, {})
  /\ UNCHANGED <<rcvBuf, rcvLastAck, rcvCurrSeqNo, rcvLossList, sndVars, readVars>>

(* recv(): readBuffer notes where the acknowledged data ends, hands units   *)
(* over and frees them one by one, and moves m_iStartPos when it is done.   *)
ReadBegin ==
  /\ readPos = readEnd /\ startPos = readPos
  /\ rcvLastAck > startPos
  /\ readEnd' = rcvLastAck
  /\ UNCHANGED <<startPos, readPos, delivered, sndVars, rcvVars, netVars>>

ReadUnit ==
  /\ readPos < readEnd
  /\ \E u \in rcvBuf :
       /\ Slot(u.seq) = Slot(readPos)
       /\ delivered' = Append(delivered, u.data)
       /\ rcvBuf' = rcvBuf \ {u}
  /\ readPos' = readPos + 1
  /\ UNCHANGED <<startPos, readEnd, rcvLastAck, rcvLastAckAck, rcvCurrSeqNo,
                 rcvLossList, sndVars, netVars>>

ReadEnd ==
  /\ readPos > startPos
  /\ startPos' = readPos
  /\ readEnd' = readPos
  /\ UNCHANGED <<readPos, delivered, sndVars, rcvVars, netVars>>

-----------------------------------------------------------------------------
Init ==
  /\ appPc = "idle" /\ appSize = 0 /\ lastBlock = 0 /\ currBlock = 0
  /\ firstBlock = 0 /\ count = 0
  /\ sndCurrSeqNo = -1 /\ sndLastAck = 0 /\ sndLastDataAck = 0
  /\ flowWindowSize = FlightFlag
  /\ sndLossList = {} /\ scheduled = FALSE /\ broken = "no"
  /\ sndPc = "idle" /\ sndSeqNo = 0 /\ sndBlock = 0 /\ sndWindow = 0
  /\ ctrlPc = "idle" /\ ctrlAck = 0 /\ expDue = FALSE /\ expCount = 1
  /\ rcvBuf = {} /\ startPos = 0 /\ readPos = 0 /\ readEnd = 0
  /\ rcvLastAck = 0 /\ rcvLastAckAck = 0 /\ rcvCurrSeqNo = -1
  /\ rcvLossList = {} /\ delivered = <<>>
  /\ net = {} /\ losses = 0

App    == (\E len \in SendSizes : AddBuffer(len)) \/ AddCount \/ AppUpdate
Worker == Pop \/ PackLost \/ ReadWindow \/ PackNew \/ SendTo
Ctrl   == CommitAck \/ CtrlUpdate
Timer  == ExpTick \/ ExpTimeout \/ ExpResend
Reader == ReadBegin \/ ReadUnit \/ ReadEnd

Arrive(m) == \/ RecvLiteAck(m) \/ RecvNak(m) \/ RecvData(m) \/ RecvAck2(m)
             \/ \E ack2 \in Ack2Sent : RecvAck(m, ack2)

Next == \/ App \/ Worker \/ Ctrl \/ Timer \/ Reader
        \/ RecvOther \/ SendAck \/ SendLiteAck
        \/ \E m \in net : Arrive(m) \/ Lose(m)

Spec == Init /\ [][Next]_vars

-----------------------------------------------------------------------------
(* Fairness.  Each worker thread keeps running, so an enabled step of it is *)
(* taken; the applications keep calling send() and recv(); a packet that is *)
(* not lost arrives.  The ACK2 is skipped at most for one SYN interval, and *)
(* repeated ACKs are further apart, so infinitely many ACKs get an ACK2.   *)
Fairness ==
  /\ WF_vars(App) /\ WF_vars(Worker) /\ WF_vars(Ctrl) /\ WF_vars(Reader)
  /\ WF_vars(ExpTick \/ ExpResend) /\ WF_vars(SendAck)
  /\ \A s \in 0 .. DataSize - 1 : WF_vars(\E m \in net : m.type = "data" /\ m.seq = s /\ RecvData(m))
  /\ SF_vars(\E m \in net : RecvAck(m, TRUE))
  /\ WF_vars(\E m \in net : RecvAck2(m))

LiveSpec == Spec /\ Fairness

-----------------------------------------------------------------------------
(* Type invariant: every variable holds a value of its C++ counterpart.     *)
Payload == Nat \cup {Garbled}
Packet ==
  [type : {"data"}, seq : Nat, data : Payload]
    \cup [type : {"ack"}, ack : Nat, window : Nat]
    \cup [type : {"lite", "ack2"}, ack : Nat]
    \cup [type : {"nak"}, lo : Nat, hi : Nat]

TypeOK ==
  /\ appPc \in {"idle", "count", "update"} /\ appSize \in Nat
  /\ lastBlock \in Nat /\ currBlock \in Nat /\ firstBlock \in Nat /\ count \in Int
  /\ sndCurrSeqNo \in Nat \cup {-1} /\ sndLastAck \in Nat /\ sndLastDataAck \in Nat
  /\ flowWindowSize \in Int /\ sndLossList \in SUBSET Nat
  /\ scheduled \in BOOLEAN /\ broken \in {"no", "insecure", "timeout"}
  /\ sndPc \in {"idle", "rexmit", "window", "new", "xmit"}
  /\ sndSeqNo \in Nat /\ sndBlock \in Nat /\ sndWindow \in Int
  /\ ctrlPc \in {"idle", "ack", "update"} /\ ctrlAck \in Nat
  /\ expDue \in BOOLEAN /\ expCount \in Nat
  /\ rcvBuf \in SUBSET [seq : Nat, data : Payload]
  /\ startPos \in Nat /\ readPos \in Nat /\ readEnd \in Nat
  /\ rcvLastAck \in Nat /\ rcvLastAckAck \in Nat
  /\ rcvCurrSeqNo \in Nat \cup {-1} /\ rcvLossList \in SUBSET Nat
  /\ delivered \in Seq(Payload)
  /\ net \in SUBSET Packet /\ losses \in Nat

(* recv() returns what send() was given: every packet's worth once, in      *)
(* order, and never bytes of a block that was being refilled when sendto    *)
(* read it (packData hands out a pointer into the send buffer).            *)
InOrder == delivered = [i \in 1 .. Len(delivered) |-> i - 1]

(* A packet that went out with the wrong payload, because its block was     *)
(* acknowledged and refilled between readData and sendto, is one the        *)
(* receiver has acknowledged already, so processData discards it.          *)
GarbledIsOld ==
  \A m \in net : m.type = "data" /\ m.data # m.seq => m.seq < rcvLastAck

(* readBuffer dereferences m_pUnit[p] for every p up to m_iLastAckPos        *)
(* without a NULL test: none of those units may be missing.                *)
NoHole ==
  \A s \in readPos .. rcvLastAck - 1 :
    \E u \in rcvBuf : Slot(u.seq) = Slot(s)

(* Every number between the ACK point and the largest one seen is either in *)
(* the buffer or in the receiver's loss list, and never in both: a hole     *)
(* that is not on the list would be acknowledged.                          *)
LossAccounted ==
  \A s \in rcvLastAck .. rcvCurrSeqNo :
    s \in rcvLossList <=> ~ \E u \in rcvBuf : u.seq = s

(* The receiver stops repeating an ACK only once the sender has freed what  *)
(* it acknowledges, or is about to: otherwise the sender would keep the     *)
(* blocks with nobody left to tell it.                                     *)
AckAckKnown == rcvLastAckAck <= Larger(sndLastDataAck, ctrlAck)

(* The checks marked "attack or bug" in processCtrl (an ACK or a NAK beyond *)
(* m_iSndCurrSeqNo) never break a connection whose peer is this same code,  *)
(* whatever the network loses, repeats or reorders.                        *)
HonestPeerKept == broken # "insecure"

(* The blocks between m_pFirstBlock and m_pCurrBlock are the packets        *)
(* between m_iSndLastDataAck and m_iSndCurrSeqNo: the two ends are moved in *)
(* different threads and classes, and a retransmission finds its block by   *)
(* the distance between the sequence numbers alone.                        *)
SeqMatchesBlock ==
  /\ currBlock = sndCurrSeqNo + 1
  /\ firstBlock = sndLastDataAck
  /\ sndPc = "xmit" => sndBlock = sndSeqNo

(* A packet never lands in the slot of another one that is still unread.    *)
RingFits ==
  \A u \in rcvBuf : u.seq >= readPos /\ u.seq < startPos + RcvBufSize - 1

(* No acknowledgement is ever taken back, at either end.                    *)
CursorsAdvance ==
  [][ /\ sndLastAck' >= sndLastAck /\ sndLastDataAck' >= sndLastDataAck
      /\ sndCurrSeqNo' >= sndCurrSeqNo
      /\ rcvLastAck' >= rcvLastAck /\ rcvLastAckAck' >= rcvLastAckAck
      /\ rcvCurrSeqNo' >= rcvCurrSeqNo /\ startPos' >= startPos ]_vars

(* The inductive invariant behind all of these: what each host knows of its  *)
(* own data, and what a packet in the network, however old, may still say.  *)
SenderInv ==
  /\ currBlock = sndCurrSeqNo + 1 /\ firstBlock = sndLastDataAck
  /\ currBlock <= lastBlock /\ lastBlock <= DataSize
  /\ sndLastDataAck <= sndLastAck /\ ctrlAck <= sndLastAck
  /\ ctrlPc # "ack" => ctrlAck = 0
  /\ \A s \in sndLossList : s <= sndCurrSeqNo
  /\ sndPc \in {"rexmit", "xmit"} => sndSeqNo <= sndCurrSeqNo
  /\ sndPc = "xmit" => sndBlock = sndSeqNo

ReceiverInv ==
  /\ startPos <= readPos /\ readPos <= readEnd /\ readEnd <= rcvLastAck
  /\ rcvLastAckAck <= rcvLastAck /\ rcvLastAck <= rcvCurrSeqNo + 1
  /\ rcvCurrSeqNo <= startPos + RcvBufSize - 2
  /\ \A s \in rcvLossList : rcvLastAck <= s /\ s <= rcvCurrSeqNo
  /\ \A u \in rcvBuf : u.data = u.seq /\ readPos <= u.seq /\ u.seq <= rcvCurrSeqNo
  /\ \A s \in readPos .. rcvCurrSeqNo : s \in rcvLossList <=> ~ \E u \in rcvBuf : u.seq = s
  /\ delivered = [i \in 1 .. readPos |-> i - 1]

(* Everything below a has reached the receiving host.                       *)
Contiguous(a) == a <= rcvCurrSeqNo + 1 /\ \A s \in rcvLossList : a <= s

PacketInv(m) ==
  /\ m.type = "data" => m.seq <= sndCurrSeqNo /\ (m.data = m.seq \/ m.seq < rcvLastAck)
  /\ m.type = "ack"  => m.ack <= rcvLastAck
  /\ m.type = "lite" => Contiguous(m.ack)
  /\ m.type = "ack2" => m.ack <= Larger(sndLastDataAck, ctrlAck)
  /\ m.type = "nak"  => m.lo <= m.hi /\ m.hi <= rcvCurrSeqNo

ChannelInv ==
  /\ rcvCurrSeqNo <= sndCurrSeqNo
  /\ Contiguous(sndLastAck)
  /\ sndLastDataAck <= rcvLastAck /\ ctrlAck <= rcvLastAck
  /\ rcvLastAckAck <= Larger(sndLastDataAck, ctrlAck)
  /\ broken # "insecure"
  /\ \A m \in net : PacketInv(m)

IInv == TypeOK /\ SenderInv /\ ReceiverInv /\ ChannelInv

(* The transfer as a custody chain (module ReliableStream): what is         *)
(* m_pLastBlock, m_iRcvLastAck and m_pFirstBlock in the code.               *)
Stream == INSTANCE ReliableStream
            WITH accepted <- lastBlock, received <- rcvLastAck, released <- firstBlock

(* recv() returns only what send() accepted, in order and once, and the     *)
(* sender frees only what the receiver holds, under loss, duplication,      *)
(* reordering and every interleaving of the threads.                       *)
StreamSafe == Stream!Safe

(* And when losses stop, everything accepted is delivered and freed: recv() *)
(* gets it all, and a lingering close() does not wait for ever.             *)
StreamImplemented == Stream!Spec

(* "rely on the sender's EXP for retransmission" (core.cpp:2565): with the  *)
(* EXP timer as the only cure for a lost last packet, everything sent is    *)
(* delivered at last, whatever the peer itself sends on the connection.    *)
AllDelivered == <>(Len(delivered) = DataSize)
=============================================================================
