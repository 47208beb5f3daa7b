--------------------------- MODULE TransferProofs ---------------------------
(***************************************************************************)
(* Theorems about Transfer, for every value of its constants.              *)
(***************************************************************************)
EXTENDS Transfer, TLAPS

(* Every packet the hosts build from numbers and a payload is well formed. *)
LEMMA PacketTypes ==
  /\ \A s \in Nat, d \in Payload : DataPkt(s, d) \in Packet
  /\ \A a, w \in Nat : AckPkt(a, w) \in Packet
  /\ \A a \in Nat : LitePkt(a) \in Packet /\ Ack2Pkt(a) \in Packet
  /\ \A lo, hi \in Nat : NakPkt(lo, hi) \in Packet
  BY DEF Packet, DataPkt, AckPkt, LitePkt, Ack2Pkt, NakPkt

(* The fields of a well-formed packet are numbers and a payload.           *)
LEMMA PacketFields ==
  ASSUME NEW m \in Packet
  PROVE  /\ m.type = "data" => m.seq \in Nat /\ m.data \in Payload
         /\ m.type = "ack"  => m.ack \in Nat /\ m.window \in Nat
         /\ m.type \in {"lite", "ack2"} => m.ack \in Nat
         /\ m.type = "nak"  => m.lo \in Nat /\ m.hi \in Nat
  BY DEF Packet

(* Taking a packet in and sending well-formed ones keeps the network       *)
(* typed.                                                                  *)
LEMMA NetType ==
  ASSUME NEW m, NEW sent \in SUBSET Packet, net \in SUBSET Packet, losses \in Nat,
         Received(m, sent) \/ Sent(sent)
  PROVE  net' \in SUBSET Packet /\ losses' \in Nat
  BY DEF Received, Sent, After

(* A new connection is typed.                                              *)
LEMMA TypeInit == Init => TypeOK
  <1> SUFFICES ASSUME Init PROVE TypeOK
    OBVIOUS
  <1>1. delivered \in Seq(Payload) /\ net \in SUBSET Packet
    BY DEF Init
  <1>2. flowWindowSize \in Int /\ expCount \in Nat
    BY SizeAssumption DEF Init
  <1>3. rcvBuf \in SUBSET [seq : Nat, data : Payload]
    BY DEF Init
  <1>4. rcvCurrSeqNo \in Nat \cup {-1} /\ sndCurrSeqNo \in Nat \cup {-1}
    BY DEF Init
  <1>5. rcvLossList \in SUBSET Nat /\ sndLossList \in SUBSET Nat
    BY DEF Init
  <1>6. scheduled \in BOOLEAN /\ expDue \in BOOLEAN
    BY DEF Init
  <1>7. QED
    BY <1>1, <1>2, <1>3, <1>4, <1>5, <1>6 DEF Init, TypeOK

(* The tuples of variables an action leaves unchanged stay expanded.        *)
USE SizeAssumption
USE DEF appVars, ackVars, wrkVars, ctrlVars, expVars, readVars, rcvVars, netVars,
        sndVars

(* send() keeps the types.                                                 *)
LEMMA TypeApp == TypeOK /\ App => TypeOK'
  <1> SUFFICES ASSUME TypeOK, App PROVE TypeOK'
    OBVIOUS
  <1>1. ASSUME NEW len \in SendSizes, AddBuffer(len) PROVE TypeOK'
    BY <1>1 DEF TypeOK, AddBuffer, Smaller
  <1>2. CASE AddCount
    BY <1>2 DEF TypeOK, AddCount
  <1>3. CASE AppUpdate
    BY <1>3 DEF TypeOK, AppUpdate
  <1>4. QED
    BY <1>1, <1>2, <1>3 DEF App

(* The sending worker keeps the types.                                     *)
LEMMA TypeWorker == TypeOK /\ Worker => TypeOK'
  <1> SUFFICES ASSUME TypeOK, Worker PROVE TypeOK'
    OBVIOUS
  <1>1. CASE Pop
    BY <1>1 DEF TypeOK, Pop, Least
  <1>2. CASE PackLost
    <2>1. CASE sndSeqNo < sndLastDataAck
      BY <1>2, <2>1 DEF TypeOK, PackLost, Idle
    <2>2. CASE ~ sndSeqNo < sndLastDataAck
      <3>1. LostBlock(sndSeqNo) \in Nat
        BY <2>2 DEF TypeOK, LostBlock
      <3>2. QED
        BY <1>2, <2>2, <3>1 DEF TypeOK, PackLost
    <2>3. QED
      BY <2>1, <2>2
  <1>3. CASE ReadWindow
    BY <1>3 DEF TypeOK, ReadWindow, Smaller
  <1>4. CASE PackNew
    <2>1. CASE WindowOpen /\ currBlock # lastBlock
      BY <1>4, <2>1 DEF TypeOK, PackNew
    <2>2. CASE ~ (WindowOpen /\ currBlock # lastBlock)
      BY <1>4, <2>2 DEF TypeOK, PackNew, Idle
    <2>3. QED
      BY <2>1, <2>2
  <1>5. CASE SendTo
    <2>1. PICK d \in Payloads(sndBlock) : Sent({DataPkt(sndSeqNo, d)})
      BY <1>5 DEF SendTo
    <2>2. d \in Payload
      BY DEF TypeOK, Payloads, Payload
    <2>3. net' \in SUBSET Packet /\ losses' \in Nat
      <3>1. {DataPkt(sndSeqNo, d)} \in SUBSET Packet
        BY <2>2, PacketTypes DEF TypeOK
      <3>2. QED
        BY <2>1, <3>1, NetType DEF TypeOK
    <2>4. QED
      BY <1>5, <2>3 DEF TypeOK, SendTo, Idle
  <1>6. QED
    BY <1>1, <1>2, <1>3, <1>4, <1>5 DEF Worker

(* The rest of ACK processing, the timers and peer traffic keep the types. *)
LEMMA TypeCtrl == TypeOK /\ (Ctrl \/ Timer \/ RecvOther) => TypeOK'
  <1> SUFFICES ASSUME TypeOK, Ctrl \/ Timer \/ RecvOther PROVE TypeOK'
    OBVIOUS
  <1>1. CASE CommitAck
    <2>1. CASE Repeated(ctrlAck)
      BY <1>1, <2>1 DEF TypeOK, CommitAck
    <2>2. CASE ~ Repeated(ctrlAck)
      <3>1. /\ firstBlock' \in Nat /\ count' \in Int /\ sndLastDataAck' \in Nat
            /\ ctrlAck' \in Nat /\ ctrlPc' = "update"
        BY <1>1, <2>2 DEF TypeOK, CommitAck, Acked, Repeated
      <3>2. sndLossList' \in SUBSET Nat
        BY <1>1, <2>2 DEF TypeOK, CommitAck
      <3>3. QED
        BY <1>1, <3>1, <3>2 DEF TypeOK, CommitAck
    <2>3. QED
      BY <2>1, <2>2
  <1>2. CASE CtrlUpdate
    BY <1>2 DEF TypeOK, CtrlUpdate
  <1>3. CASE ExpTick
    BY <1>3 DEF TypeOK, ExpTick
  <1>4. CASE ExpTimeout
    BY <1>4 DEF TypeOK, ExpTimeout, Listening
  <1>5. CASE ExpResend
    <2>1. sndLastAck .. sndCurrSeqNo \in SUBSET Nat
      BY DEF TypeOK
    <2>2. expCount' \in Nat /\ expDue' \in BOOLEAN
      <3>1. expCount' = IF expCount > ExpLimit THEN expCount ELSE expCount + 1
        BY <1>5 DEF ExpResend
      <3>2. expDue' = FALSE
        BY <1>5 DEF ExpResend
      <3>3. expCount' \in Nat
        BY <3>1 DEF TypeOK
      <3>4. QED
        BY <3>2, <3>3
    <2>3. CASE count > 0
      <3>1. ctrlPc' = "update"
        BY <1>5, <2>3 DEF ExpResend
      <3>2. sndLossList' \in SUBSET Nat
        BY <1>5, <2>1, <2>3 DEF TypeOK, ExpResend
      <3>3. QED
        BY <1>5, <2>2, <3>1, <3>2 DEF TypeOK, ExpResend
    <2>4. CASE ~ count > 0
      BY <1>5, <2>2, <2>4 DEF TypeOK, ExpResend
    <2>5. QED
      BY <2>3, <2>4
  <1>6. CASE RecvOther
    <2>1. expDue' \in BOOLEAN /\ expCount' \in Nat
      BY <1>6 DEF RecvOther, Heard
    <2>2. QED
      BY <1>6, <2>1 DEF TypeOK, RecvOther
  <1>7. QED
    BY <1>1, <1>2, <1>3, <1>4, <1>5, <1>6 DEF Ctrl, Timer

(* recv() keeps the types.                                                 *)
LEMMA TypeReader == TypeOK /\ Reader => TypeOK'
  <1> SUFFICES ASSUME TypeOK, Reader PROVE TypeOK'
    OBVIOUS
  <1>1. CASE ReadBegin
    BY <1>1 DEF TypeOK, ReadBegin
  <1>2. CASE ReadUnit
    BY <1>2 DEF TypeOK, ReadUnit
  <1>3. CASE ReadEnd
    BY <1>3 DEF TypeOK, ReadEnd
  <1>4. QED
    BY <1>1, <1>2, <1>3 DEF Reader

(* What the receiver puts in an ACK is a number.                            *)
LEMMA AckPointType ==
  ASSUME TypeOK, NEW ack \in AckPoint
  PROVE  ack \in Nat /\ Granted(ack) \in Nat
  <1>1. ack \in Nat
    BY DEF TypeOK, AckPoint, Least
  <1>2. (ack - startPos) % RcvBufSize \in Int
    BY <1>1 DEF TypeOK
  <1>3. QED
    BY <1>1, <1>2 DEF Granted, Larger

(* Acknowledging keeps the types.                                          *)
LEMMA TypeAck == TypeOK /\ (SendAck \/ SendLiteAck) => TypeOK'
  <1> SUFFICES ASSUME TypeOK, SendAck \/ SendLiteAck PROVE TypeOK'
    OBVIOUS
  <1>1. CASE SendAck
    <2>1. PICK ack \in AckPoint :
             /\ rcvLastAck' = ack
             /\ IF ack > rcvLastAckAck
                  THEN Sent({AckPkt(ack, Granted(ack))})
                  ELSE UNCHANGED netVars
             /\ UNCHANGED <<rcvBuf, rcvLastAckAck, rcvCurrSeqNo, rcvLossList,
                            sndVars, readVars>>
      BY <1>1 DEF SendAck
    <2>2. net' \in SUBSET Packet /\ losses' \in Nat
      <3>1. {AckPkt(ack, Granted(ack))} \in SUBSET Packet
        BY AckPointType, PacketTypes
      <3>2. QED
        BY <2>1, <3>1, NetType DEF TypeOK
    <2>3. QED
      BY <2>1, <2>2, AckPointType DEF TypeOK
  <1>2. CASE SendLiteAck
    <2>1. PICK ack \in AckPoint : Sent({LitePkt(ack)})
      BY <1>2 DEF SendLiteAck
    <2>2. {LitePkt(ack)} \in SUBSET Packet
      BY AckPointType, PacketTypes
    <2>3. net' \in SUBSET Packet /\ losses' \in Nat
      BY <2>1, <2>2, NetType DEF TypeOK
    <2>4. QED
      BY <1>2, <2>3 DEF TypeOK, SendLiteAck
  <1>3. QED
    BY <1>1, <1>2

(* Every packet handler keeps the types.                                   *)
LEMMA TypeArrive ==
  ASSUME TypeOK, NEW m \in net, Arrive(m) \/ Lose(m)
  PROVE  TypeOK'
  <1> m \in Packet
    BY DEF TypeOK
  <1>1. CASE RecvLiteAck(m)
    <2>1. net' \in SUBSET Packet /\ losses' \in Nat
      BY <1>1, NetType DEF TypeOK, RecvLiteAck
    <2>2. m.ack \in Nat
      BY <1>1, PacketFields DEF RecvLiteAck
    <2>3. flowWindowSize' \in Int /\ sndLastAck' \in Nat
      BY <1>1, <2>2 DEF TypeOK, RecvLiteAck
    <2>4. QED
      BY <1>1, <2>1, <2>3 DEF TypeOK, RecvLiteAck, Heard
  <1>2. CASE RecvNak(m)
    <2>1. net' \in SUBSET Packet /\ losses' \in Nat
      BY <1>2, NetType DEF TypeOK, RecvNak
    <2>2. m.lo \in Nat /\ m.hi \in Nat
      BY <1>2, PacketFields DEF RecvNak
    <2>3. sndLossList' \in SUBSET Nat
      <3>1. Larger(m.lo, sndLastAck) \in Nat
        BY <2>2 DEF TypeOK, Larger
      <3>2. Larger(m.lo, sndLastAck) .. m.hi \in SUBSET Nat
        BY <3>1, <2>2
      <3>3. QED
        BY <1>2, <3>2 DEF TypeOK, RecvNak
    <2>4. broken' \in {"no", "insecure", "timeout"} /\ ctrlPc' \in {"idle", "ack", "update"}
      BY <1>2 DEF TypeOK, RecvNak
    <2>5. QED
      BY <1>2, <2>1, <2>3, <2>4 DEF TypeOK, RecvNak, Heard
  <1>3. CASE RecvData(m)
    <2>1. m.seq \in Nat /\ m.data \in Payload
      BY <1>3, PacketFields DEF RecvData
    <2>2. Gap(m.seq) # {} => NakPkt(rcvCurrSeqNo + 1, m.seq - 1) \in Packet
      BY <2>1, PacketTypes DEF TypeOK, Gap
    <2>3. net' \in SUBSET Packet /\ losses' \in Nat
      BY <1>3, <2>2, NetType DEF TypeOK, RecvData
    <2>4. rcvBuf' \in SUBSET [seq : Nat, data : Payload]
      BY <1>3, <2>1 DEF TypeOK, RecvData
    <2>5. /\ rcvLossList' \in SUBSET Nat
          /\ rcvCurrSeqNo' \in Nat \cup {-1}
          /\ rcvLastAck' \in Nat /\ rcvLastAckAck' \in Nat
      <3>1. Gap(m.seq) \in SUBSET Nat
        BY <2>1 DEF TypeOK, Gap
      <3>2. Larger(m.seq, rcvCurrSeqNo) \in Nat
        BY <2>1 DEF TypeOK, Larger
      <3>3. QED
        BY <1>3, <3>1, <3>2 DEF TypeOK, RecvData
    <2>6. QED
      BY <1>3, <2>3, <2>4, <2>5 DEF TypeOK, RecvData
  <1>4. CASE RecvAck2(m)
    <2>1. net' \in SUBSET Packet /\ losses' \in Nat
      BY <1>4, NetType DEF TypeOK, RecvAck2
    <2>2. m.ack \in Nat
      BY <1>4, PacketFields DEF RecvAck2
    <2>3. QED
      BY <1>4, <2>1, <2>2 DEF TypeOK, RecvAck2, Larger
  <1>5. ASSUME NEW ack2 \in Ack2Sent, RecvAck(m, ack2) PROVE TypeOK'
    <2>1. m.ack \in Nat /\ m.window \in Nat
      BY <1>5, PacketFields DEF RecvAck
    <2>2. net' \in SUBSET Packet /\ losses' \in Nat
      BY <1>5, <2>1, NetType, PacketTypes DEF TypeOK, RecvAck
    <2>3. QED
      <3>1. CASE m.ack > sndCurrSeqNo + 1
        BY <1>5, <3>1, <2>2 DEF TypeOK, RecvAck, Heard
      <3>2. CASE ~ m.ack > sndCurrSeqNo + 1
        <4>1. flowWindowSize' \in Int /\ sndLastAck' \in Nat
          BY <1>5, <3>2, <2>1 DEF TypeOK, RecvAck
        <4>2. ctrlPc' = "ack" /\ ctrlAck' \in Nat /\ UNCHANGED broken
          BY <1>5, <3>2, <2>1 DEF RecvAck
        <4>3. QED
          BY <1>5, <4>1, <4>2, <2>2 DEF TypeOK, RecvAck, Heard
      <3>3. QED
        BY <3>1, <3>2
  <1>6. CASE Lose(m)
    BY <1>6 DEF TypeOK, Lose
  <1>7. QED
    BY <1>1, <1>2, <1>3, <1>4, <1>5, <1>6 DEF Arrive

(* Every step keeps the types.                                             *)
LEMMA TypeNext == TypeOK /\ [Next]_vars => TypeOK'
  <1>1. CASE UNCHANGED vars
    BY <1>1 DEF TypeOK, vars
  <1>2. CASE Next
    BY <1>2, TypeApp, TypeWorker, TypeCtrl, TypeReader, TypeAck, TypeArrive DEF Next
  <1>3. QED
    BY <1>1, <1>2

(* Every variable always holds a value of its C++ counterpart: no cursor of *)
(* either buffer leaves its range below, whatever the threads and the       *)
(* network do.                                                             *)
THEOREM TypeCorrect == Spec => []TypeOK
  BY TypeInit, TypeNext, PTL DEF Spec

-----------------------------------------------------------------------------
(* The inductive invariant.  SenderInv speaks of the sending host alone,    *)
(* ReceiverInv of the receiving host alone, ChannelInv of what one may      *)
(* believe of the other; a packet stays true while the cursors advance.     *)

Advance ==
  /\ sndCurrSeqNo <= sndCurrSeqNo' /\ rcvCurrSeqNo <= rcvCurrSeqNo'
  /\ rcvLastAck <= rcvLastAck'
  /\ Larger(sndLastDataAck, ctrlAck) <= Larger(sndLastDataAck', ctrlAck')
  /\ \A s \in rcvLossList' : s \in rcvLossList \/ rcvCurrSeqNo < s

(* The cursors are numbers: the part of TypeOK that arithmetic needs.       *)
Cursors ==
  {rcvCurrSeqNo, sndCurrSeqNo, rcvLastAck, rcvLastAckAck, sndLastAck,
   sndLastDataAck, ctrlAck, startPos, readPos, readEnd} \cup rcvLossList \subseteq Int

(* The cursors of a typed state are numbers.                               *)
LEMMA CursorTypes == (TypeOK => Cursors) /\ (TypeOK' => Cursors')
  <1>1. TypeOK => Cursors
    BY DEF TypeOK, Cursors
  <1>2. TypeOK' => Cursors'
    BY <1>1, PTL
  <1>3. QED
    BY <1>1, <1>2

(* What was received without a hole below stays so.                        *)
LEMMA ContiguousKept ==
  ASSUME Cursors, Cursors', Advance, NEW a \in Nat, Contiguous(a)
  PROVE  Contiguous(a)'
  BY DEF Cursors, Advance, Contiguous

(* A packet in the network stays true while the cursors advance.           *)
LEMMA PacketKept ==
  ASSUME Cursors, Cursors', Advance, NEW m \in Packet, PacketInv(m)
  PROVE  PacketInv(m)'
  <1>1. m.type = "data" => m.seq <= sndCurrSeqNo' /\ (m.data = m.seq \/ m.seq < rcvLastAck')
    <2> SUFFICES ASSUME m.type = "data"
                 PROVE  m.seq <= sndCurrSeqNo' /\ (m.data = m.seq \/ m.seq < rcvLastAck')
      OBVIOUS
    <2>1. m.seq \in Int /\ m.seq <= sndCurrSeqNo /\ (m.data = m.seq \/ m.seq < rcvLastAck)
      BY PacketFields DEF PacketInv
    <2>2. QED
      BY <2>1 DEF Cursors, Advance
  <1>2. m.type = "ack" => m.ack <= rcvLastAck'
    BY PacketFields DEF Cursors, Advance, PacketInv
  <1>3. m.type = "lite" => Contiguous(m.ack)'
    BY PacketFields, ContiguousKept DEF PacketInv
  <1>4. m.type = "ack2" => m.ack <= Larger(sndLastDataAck', ctrlAck')
    BY PacketFields DEF Cursors, Advance, PacketInv, Larger
  <1>5. m.type = "nak" => m.lo <= m.hi /\ m.hi <= rcvCurrSeqNo'
    BY PacketFields DEF Cursors, Advance, PacketInv
  <1>6. QED
    BY <1>1, <1>2, <1>3, <1>4, <1>5 DEF PacketInv

(* So the network stays true if the one packet added to it is.             *)
LEMMA NetKept ==
  ASSUME TypeOK, Cursors', Advance, ChannelInv, NEW p,
         net' \subseteq net \cup {p}, PacketInv(p)'
  PROVE  \A m \in net' : PacketInv(m)'
  <1> SUFFICES ASSUME NEW m \in net', m \in net PROVE PacketInv(m)'
    OBVIOUS
  <1>1. m \in Packet /\ PacketInv(m) /\ Cursors
    BY CursorTypes DEF TypeOK, ChannelInv
  <1>2. QED
    BY <1>1, PacketKept

(* And it stays true if nothing is added.                                  *)
LEMMA NetSame ==
  ASSUME TypeOK, Cursors', Advance, ChannelInv, net' \subseteq net
  PROVE  \A m \in net' : PacketInv(m)'
  <1> SUFFICES ASSUME NEW m \in net PROVE PacketInv(m)'
    OBVIOUS
  <1>1. m \in Packet /\ PacketInv(m) /\ Cursors
    BY CursorTypes DEF TypeOK, ChannelInv
  <1>2. QED
    BY <1>1, PacketKept

channelVars == <<sndCurrSeqNo, sndLastAck, sndLastDataAck, ctrlAck, rcvCurrSeqNo,
                 rcvLastAck, rcvLastAckAck, rcvLossList, net>>

(* A step that touches no cursor and no packet keeps ChannelInv.           *)
LEMMA ChannelSame ==
  ASSUME ChannelInv, UNCHANGED channelVars, broken' # "insecure"
  PROVE  ChannelInv'
  BY DEF ChannelInv, channelVars, Contiguous, PacketInv

SafeInv == SenderInv /\ ReceiverInv /\ ChannelInv

(* A new connection satisfies the inductive invariant.                     *)
LEMMA InvInit == Init => IInv
  <1> SUFFICES ASSUME Init PROVE IInv
    OBVIOUS
  <1>1. SenderInv
    BY DEF Init, SenderInv
  <1>2. ReceiverInv
    BY DEF Init, ReceiverInv
  <1>3. ChannelInv
    BY DEF Init, ChannelInv, Contiguous, Larger
  <1>4. QED
    BY <1>1, <1>2, <1>3, TypeInit DEF IInv

(* send() appends blocks beyond every cursor.                              *)
LEMMA InvApp ==
  ASSUME IInv, Cursors', App
  PROVE  SafeInv'
  <1> USE DEF IInv, SafeInv
  <1>1. ReceiverInv'
    BY DEF App, AddBuffer, AddCount, AppUpdate, ReceiverInv
  <1>2. ChannelInv'
    <2>1. UNCHANGED channelVars /\ UNCHANGED broken
      BY DEF App, AddBuffer, AddCount, AppUpdate, channelVars
    <2>2. QED
      BY <2>1, ChannelSame DEF ChannelInv
  <1>3. SenderInv'
    <2>1. ASSUME NEW len \in SendSizes, AddBuffer(len) PROVE SenderInv'
      BY <2>1 DEF TypeOK, SenderInv, AddBuffer, Smaller
    <2>2. CASE AddCount \/ AppUpdate
      BY <2>2 DEF AddCount, AppUpdate, SenderInv
    <2>3. QED
      BY <2>1, <2>2 DEF App
  <1>4. QED
    BY <1>1, <1>2, <1>3

(* The sending worker sends numbers with the blocks they stand for.        *)
LEMMA InvWorker ==
  ASSUME IInv, Cursors', Worker
  PROVE  SafeInv'
  <1> USE DEF IInv, SafeInv
  <1>1. ReceiverInv'
    BY DEF Worker, Pop, PackLost, ReadWindow, PackNew, SendTo, ReceiverInv, Sent
  <1>2. CASE Pop \/ PackLost \/ ReadWindow
    <2>1. UNCHANGED channelVars /\ UNCHANGED broken
      BY <1>2 DEF Pop, PackLost, ReadWindow, Idle, channelVars
    <2>2. ChannelInv'
      BY <2>1, ChannelSame DEF ChannelInv
    <2>3. CASE Pop
      BY <1>1, <2>2, <2>3 DEF Pop, SenderInv, Least
    <2>4. CASE PackLost
      BY <1>1, <2>2, <2>4 DEF TypeOK, PackLost, SenderInv, LostBlock, Idle
    <2>5. CASE ReadWindow
      BY <1>1, <2>2, <2>5 DEF ReadWindow, SenderInv
    <2>6. QED
      BY <1>2, <2>3, <2>4, <2>5
  <1>3. CASE PackNew
    <2>1. SenderInv'
      <3>1. CASE WindowOpen /\ currBlock # lastBlock
        BY <1>3, <3>1 DEF TypeOK, PackNew, SenderInv
      <3>2. CASE ~ (WindowOpen /\ currBlock # lastBlock)
        BY <1>3, <3>2 DEF TypeOK, PackNew, SenderInv, Idle
      <3>3. QED
        BY <3>1, <3>2
    <2>2. Advance
      BY <1>3 DEF TypeOK, PackNew, Advance, Larger
    <2>3. \A m \in net' : PacketInv(m)'
      BY <1>3, <2>2, NetSame DEF PackNew
    <2>4. ChannelInv'
      BY <1>3, <2>3 DEF TypeOK, PackNew, ChannelInv, Contiguous
    <2>5. QED
      BY <1>1, <2>1, <2>4
  <1>4. CASE SendTo
    <2>0. PICK d \in Payloads(sndBlock) : Sent({DataPkt(sndSeqNo, d)})
      BY <1>4 DEF SendTo
    <2>1. PICK p : p = DataPkt(sndSeqNo, d) /\ Sent({p})
      BY <2>0
    <2>2. SenderInv'
      BY <1>4 DEF SendTo, SenderInv, Idle
    <2>3. Advance
      BY <1>4, <2>1 DEF TypeOK, SendTo, Advance, Larger
    <2>4. PacketInv(p)'
      <3>1. sndSeqNo <= sndCurrSeqNo /\ (d = sndSeqNo \/ sndSeqNo < rcvLastAck)
        BY <1>4 DEF TypeOK, SendTo, SenderInv, ChannelInv, Payloads
      <3>2. QED
        BY <1>4, <2>1, <3>1 DEF SendTo, PacketInv, DataPkt
    <2>5. \A m \in net' : PacketInv(m)'
      BY <2>1, <2>3, <2>4, NetKept DEF Sent
    <2>6. ChannelInv'
      BY <1>4, <2>5 DEF SendTo, ChannelInv, Contiguous
    <2>7. QED
      BY <1>1, <2>2, <2>6
  <1>5. QED
    BY <1>2, <1>3, <1>4 DEF Worker

(* Freeing blocks and the timers keep the invariant.                       *)
LEMMA InvCtrl ==
  ASSUME IInv, Cursors', Ctrl \/ Timer \/ RecvOther
  PROVE  SafeInv'
  <1> USE DEF IInv, SafeInv
  <1>1. ReceiverInv'
    BY DEF Ctrl, Timer, CommitAck, CtrlUpdate, ExpTick, ExpTimeout, ExpResend, RecvOther,
           ReceiverInv
  <1>2. CASE CommitAck
    <2>1. CASE Repeated(ctrlAck)
      <3>1. SenderInv'
        <4>1. 0 <= sndLastAck
          BY DEF TypeOK
        <4>2. ctrlAck' = 0 /\ UNCHANGED <<firstBlock, sndLastDataAck, sndLossList>>
          BY <1>2, <2>1 DEF CommitAck
        <4>3. QED
          BY <1>2, <4>1, <4>2 DEF CommitAck, SenderInv
      <3>2. Advance
        BY <1>2, <2>1 DEF TypeOK, CommitAck, Advance, Larger, Repeated
      <3>3. \A m \in net' : PacketInv(m)'
        BY <1>2, <3>2, NetSame DEF CommitAck
      <3>4. ChannelInv'
        <4>1. /\ sndLastDataAck' = sndLastDataAck /\ ctrlAck' = 0
              /\ Larger(sndLastDataAck, ctrlAck) = sndLastDataAck
              /\ Larger(sndLastDataAck', ctrlAck') = sndLastDataAck
          BY <1>2, <2>1 DEF TypeOK, CommitAck, Repeated, Larger
        <4>2. 0 <= rcvLastAck
          BY DEF TypeOK
        <4>3. QED
          BY <1>2, <3>3, <4>1, <4>2 DEF CommitAck, ChannelInv, Contiguous
      <3>5. QED
        BY <1>1, <3>1, <3>4
    <2>2. CASE ~ Repeated(ctrlAck)
      <3>1. SenderInv'
        <4>1. 0 <= sndLastAck /\ firstBlock + Acked(ctrlAck) = ctrlAck
          BY DEF TypeOK, SenderInv, Acked
        <4>2. /\ ctrlAck' = 0 /\ firstBlock' = ctrlAck /\ sndLastDataAck' = ctrlAck
              /\ sndLossList' \subseteq sndLossList
          BY <1>2, <2>2, <4>1 DEF CommitAck
        <4>3. QED
          BY <1>2, <4>1, <4>2 DEF CommitAck, SenderInv
      <3>2. Advance
        BY <1>2, <2>2 DEF TypeOK, CommitAck, Advance, Larger, Repeated
      <3>3. \A m \in net' : PacketInv(m)'
        BY <1>2, <3>2, NetSame DEF CommitAck
      <3>4. ChannelInv'
        <4>1. /\ sndLastDataAck' = ctrlAck /\ ctrlAck' = 0
              /\ Larger(sndLastDataAck, ctrlAck) = ctrlAck
              /\ Larger(sndLastDataAck', ctrlAck') = ctrlAck
          BY <1>2, <2>2 DEF TypeOK, CommitAck, Repeated, Larger
        <4>2. 0 <= rcvLastAck
          BY DEF TypeOK
        <4>3. QED
          BY <1>2, <3>3, <4>1, <4>2 DEF CommitAck, ChannelInv, Contiguous
      <3>5. QED
        BY <1>1, <3>1, <3>4
    <2>3. QED
      BY <2>1, <2>2
  <1>3. CASE CtrlUpdate \/ Timer \/ RecvOther
    <2>1. UNCHANGED channelVars /\ broken' \in {broken, "timeout"}
      BY <1>3 DEF CtrlUpdate, Timer, ExpTick, ExpTimeout, ExpResend, RecvOther, channelVars
    <2>2. ChannelInv'
      BY <2>1, ChannelSame DEF ChannelInv
    <2>3. SenderInv'
      <3>1. CASE CtrlUpdate
        BY <3>1 DEF CtrlUpdate, SenderInv
      <3>2. CASE ExpTick \/ RecvOther
        BY <3>2 DEF ExpTick, RecvOther, SenderInv
      <3>3. CASE ExpTimeout
        BY <3>3 DEF ExpTimeout, Listening, SenderInv
      <3>4. CASE ExpResend
        <4>1. \A s \in sndLossList' : s <= sndCurrSeqNo
          <5>1. CASE sndLossList' = sndLossList
            BY <5>1 DEF SenderInv
          <5>2. CASE sndLossList' = sndLastAck .. sndCurrSeqNo
            BY <5>2 DEF TypeOK
          <5>3. QED
            BY <3>4, <5>1, <5>2 DEF ExpResend
        <4>2. QED
          BY <3>4, <4>1 DEF ExpResend, Listening, SenderInv
      <3>5. QED
        BY <1>3, <3>1, <3>2, <3>3, <3>4 DEF Timer
    <2>4. QED
      BY <1>1, <2>2, <2>3
  <1>4. QED
    BY <1>2, <1>3 DEF Ctrl

(* Division with remainder.                                                *)
LEMMA DivMod ==
  ASSUME NEW a \in Int, NEW r \in Int, r >= 2
  PROVE  a = r * (a \div r) + (a % r)
  OBVIOUS

(* A multiple of r in 0 .. r - 1 is 0.                                     *)
LEMMA SmallMultiple ==
  ASSUME NEW r \in Int, r >= 2, NEW q \in Int, 0 <= r * q, r * q < r
  PROVE  r * q = 0
  <1>1. CASE q >= 1
    <2>1. r * q >= r
      BY <1>1
    <2>2. QED
      BY <2>1
  <1>2. CASE q = 0
    BY <1>2
  <1>3. CASE q <= -1
    <2>1. r * q <= -r
      BY <1>3
    <2>2. QED
      BY <2>1
  <1>4. QED
    BY <1>1, <1>2, <1>3

(* Two numbers less than a buffer apart do not share a slot.               *)
LEMMA SlotUnique ==
  ASSUME NEW r \in Int, r >= 2, NEW a \in Int, NEW b \in Int, a % r = b % r, a <= b, b < a + r
  PROVE  a = b
  <1> DEFINE p == a \div r
             q == b \div r
             m == a % r
  <1>1. p \in Int /\ q \in Int /\ m \in Int
    OBVIOUS
  <1>2. a = r * p + m /\ b = r * q + m
    <2>1. a = r * (a \div r) + (a % r)
      BY DivMod
    <2>2. b = r * (b \div r) + (b % r)
      BY DivMod
    <2>3. QED
      BY <2>1, <2>2
  <1> HIDE DEF p, q, m
  <1>3. b - a = r * (q - p)
    BY <1>1, <1>2
  <1>4. r * (q - p) = 0
    BY <1>1, <1>3, SmallMultiple
  <1>5. QED
    BY <1>3, <1>4

(* A number below r is its own remainder.                                  *)
LEMMA SmallMod ==
  ASSUME NEW r \in Int, r >= 2, NEW x \in Int, 0 <= x, x < r
  PROVE  x % r = x
  OBVIOUS

(* The unit readBuffer finds at its position is the packet it expects.      *)
LEMMA UnitAtSlot ==
  ASSUME IInv, NEW u \in rcvBuf, Slot(u.seq) = Slot(readPos)
  PROVE  u.seq = readPos /\ u.data = readPos
  <1> USE DEF IInv
  <1>1. u.seq \in Int /\ u.data = u.seq /\ readPos <= u.seq /\ u.seq <= rcvCurrSeqNo
    BY DEF TypeOK, ReceiverInv
  <1>2. readPos \in Int /\ u.seq < readPos + RcvBufSize
    BY <1>1 DEF TypeOK, ReceiverInv
  <1>3. readPos % RcvBufSize = u.seq % RcvBufSize
    BY DEF Slot
  <1>4. QED
    BY <1>1, <1>2, <1>3, SlotUnique

(* recv() takes units in order and frees what it took.                     *)
LEMMA InvReader ==
  ASSUME IInv, Cursors', Reader
  PROVE  SafeInv'
  <1> USE DEF IInv, SafeInv
  <1>1. SenderInv'
    BY DEF Reader, ReadBegin, ReadUnit, ReadEnd, SenderInv
  <1>2. ChannelInv'
    <2>1. UNCHANGED channelVars /\ UNCHANGED broken
      BY DEF Reader, ReadBegin, ReadUnit, ReadEnd, channelVars
    <2>2. QED
      BY <2>1, ChannelSame DEF ChannelInv
  <1>3. CASE ReadBegin
    <2>1. ReceiverInv'
      BY <1>3 DEF TypeOK, ReadBegin, ReceiverInv
    <2>2. QED
      BY <1>1, <1>2, <2>1
  <1>4. CASE ReadEnd
    <2>1. ReceiverInv'
      BY <1>4 DEF TypeOK, ReadEnd, ReceiverInv
    <2>2. QED
      BY <1>1, <1>2, <2>1
  <1>5. CASE ReadUnit
    <2>1. PICK u \in rcvBuf :
             /\ Slot(u.seq) = Slot(readPos)
             /\ delivered' = Append(delivered, u.data)
             /\ rcvBuf' = rcvBuf \ {u}
      BY <1>5 DEF ReadUnit
    <2>2. u.seq \in Nat /\ u.data = u.seq
      BY DEF TypeOK, ReceiverInv
    <2>3. u.seq = readPos
      BY <2>1, UnitAtSlot
    <2>4. \A v \in rcvBuf' : v.data = v.seq /\ readPos + 1 <= v.seq /\ v.seq <= rcvCurrSeqNo
      <3> SUFFICES ASSUME NEW v \in rcvBuf, v # u
                   PROVE  v.data = v.seq /\ readPos + 1 <= v.seq /\ v.seq <= rcvCurrSeqNo
        BY <2>1
      <3>1. v \in [seq : Nat, data : Payload] /\ u \in [seq : Nat, data : Payload]
        BY DEF TypeOK
      <3>2. v.data = v.seq /\ readPos <= v.seq /\ v.seq <= rcvCurrSeqNo
        BY DEF ReceiverInv
      <3>3. v.seq # readPos
        BY <2>2, <2>3, <3>1, <3>2
      <3>4. QED
        BY <3>1, <3>2, <3>3 DEF TypeOK
    <2>5. \A s \in readPos + 1 .. rcvCurrSeqNo :
             s \in rcvLossList <=> ~ \E v \in rcvBuf' : v.seq = s
      BY <2>1, <2>3 DEF TypeOK, ReceiverInv
    <2>6. delivered' = [i \in 1 .. readPos + 1 |-> i - 1]
      <3>1. delivered = [i \in 1 .. readPos |-> i - 1] /\ Len(delivered) = readPos
        BY DEF TypeOK, ReceiverInv
      <3>2. QED
        BY <2>1, <2>2, <2>3, <3>1 DEF TypeOK
    <2>7. ReceiverInv'
      BY <1>5, <2>4, <2>5, <2>6 DEF TypeOK, ReadUnit, ReceiverInv
    <2>8. QED
      BY <1>1, <1>2, <2>7
  <1>6. QED
    BY <1>3, <1>4, <1>5 DEF Reader

(* The ACK point promises only what has been received.                     *)
LEMMA InvAck ==
  ASSUME IInv, Cursors', SendAck \/ SendLiteAck
  PROVE  SafeInv'
  <1> USE DEF IInv, SafeInv
  <1>1. SenderInv'
    BY DEF SendAck, SendLiteAck, SenderInv
  <1>2. \A ack \in AckPoint : Contiguous(ack) /\ ack \in Nat
    <2>1. \A ack \in AckPoint : Contiguous(ack)
      BY DEF TypeOK, AckPoint, Least, Contiguous, ReceiverInv
    <2>2. QED
      BY <2>1, AckPointType
  <1>3. CASE SendAck
    <2>0. PICK ack \in AckPoint :
             /\ ack >= rcvLastAck
             /\ rcvLastAck' = ack
             /\ Sent({AckPkt(ack, Granted(ack))}) \/ UNCHANGED netVars
             /\ UNCHANGED <<rcvBuf, rcvLastAckAck, rcvCurrSeqNo, rcvLossList,
                            sndVars, readVars>>
      BY <1>3 DEF SendAck
    <2>1. PICK p : p = AckPkt(ack, Granted(ack)) /\ (Sent({p}) \/ UNCHANGED netVars)
      BY <2>0
    <2>2. ReceiverInv'
      BY <1>2, <2>0, <2>1 DEF TypeOK, ReceiverInv, Contiguous
    <2>3. Advance
      BY <1>2, <2>0, <2>1 DEF TypeOK, Advance, Larger
    <2>4. PacketInv(p)'
      BY <1>2, <2>0, <2>1 DEF PacketInv, AckPkt
    <2>5. \A m \in net' : PacketInv(m)'
      BY <2>0, <2>1, <2>3, <2>4, NetKept DEF Sent
    <2>6. ChannelInv'
      BY <1>2, <2>0, <2>1, <2>5 DEF TypeOK, ChannelInv, Contiguous
    <2>7. QED
      BY <1>1, <2>2, <2>6
  <1>4. CASE SendLiteAck
    <2>0. PICK ack \in AckPoint : Sent({LitePkt(ack)})
      BY <1>4 DEF SendLiteAck
    <2>1. PICK p : p = LitePkt(ack) /\ Sent({p})
      BY <2>0
    <2>2. ReceiverInv'
      BY <1>4 DEF SendLiteAck, ReceiverInv
    <2>3. Advance
      BY <1>4 DEF TypeOK, SendLiteAck, Advance, Larger
    <2>4. PacketInv(p)'
      BY <1>2, <1>4, <2>1 DEF SendLiteAck, PacketInv, LitePkt, Contiguous
    <2>5. \A m \in net' : PacketInv(m)'
      BY <2>1, <2>3, <2>4, NetKept DEF Sent
    <2>6. ChannelInv'
      BY <1>4, <2>5 DEF SendLiteAck, ChannelInv, Contiguous
    <2>7. QED
      BY <1>1, <2>2, <2>6
  <1>5. QED
    BY <1>3, <1>4

(* A packet processData accepts falls inside the buffer, is new, and        *)
(* carries its own block.                                                  *)
Accepted(m) ==
  /\ m.seq \in Int /\ m.data = m.seq
  /\ rcvLastAck <= m.seq /\ m.seq <= sndCurrSeqNo
  /\ m.seq <= startPos + RcvBufSize - 2
  /\ \A u \in rcvBuf : u.seq # m.seq

Taken(m) ==
  /\ rcvBuf' = rcvBuf \cup {[seq |-> m.seq, data |-> m.data]}
  /\ rcvLossList' = (rcvLossList \cup Gap(m.seq)) \ {m.seq}
  /\ rcvCurrSeqNo' = Larger(m.seq, rcvCurrSeqNo)
  /\ Received(m, IF Gap(m.seq) = {} THEN {} ELSE {NakPkt(rcvCurrSeqNo + 1, m.seq - 1)})
  /\ UNCHANGED <<rcvLastAck, rcvLastAckAck, sndVars, readVars>>

(* processData either discards a packet or stores a new one.               *)
LEMMA DataAccepted ==
  ASSUME IInv, NEW m \in net, RecvData(m)
  PROVE  \/ Received(m, {}) /\ UNCHANGED <<rcvVars, sndVars, readVars>>
         \/ Accepted(m) /\ Taken(m)
  <1> USE DEF IInv
  <1>1. m \in Packet /\ PacketInv(m) /\ m.type = "data"
    BY DEF TypeOK, ChannelInv, RecvData
  <1>2. m.seq \in Nat /\ m.seq <= sndCurrSeqNo /\ (m.data = m.seq \/ m.seq < rcvLastAck)
    BY <1>1, PacketFields DEF PacketInv
  <1>3. CASE Received(m, {}) /\ UNCHANGED rcvVars
    BY <1>3 DEF RecvData
  <1>4. CASE ~ (Received(m, {}) /\ UNCHANGED rcvVars)
    <2>1. /\ Taken(m)
          /\ ~ m.seq - rcvLastAck < 0 /\ ~ m.seq - rcvLastAck >= AvailBufSize
          /\ ~ \E u \in rcvBuf : Slot(u.seq) = Slot(m.seq)
      BY <1>4 DEF RecvData, Taken
    <2>2. RcvDataSize = rcvLastAck - startPos
      <3>1. rcvLastAck - startPos \in Int /\ 0 <= rcvLastAck - startPos
            /\ rcvLastAck - startPos < RcvBufSize
        BY DEF TypeOK, ReceiverInv
      <3>2. QED
        BY <3>1, SmallMod DEF RcvDataSize
    <2>3. rcvLastAck <= m.seq /\ m.seq <= startPos + RcvBufSize - 2
      BY <1>2, <2>1, <2>2 DEF TypeOK, AvailBufSize
    <2>4. m.data = m.seq
      BY <1>2, <2>3 DEF TypeOK
    <2>5. \A u \in rcvBuf : u.seq # m.seq
      BY <2>1
    <2>6. QED
      BY <1>2, <2>1, <2>3, <2>4, <2>5 DEF Accepted
  <1>5. QED
    BY <1>3, <1>4

(* Storing a packet keeps buffer and loss list complementary.              *)
LEMMA InvTaken ==
  ASSUME IInv, Cursors', NEW m \in net, Accepted(m), Taken(m)
  PROVE  SafeInv'
  <1> USE DEF IInv, SafeInv
  <1> DEFINE s == m.seq
  <1>1. s \in Int /\ s <= sndCurrSeqNo
    BY DEF Accepted
  <1>2. SenderInv'
    BY DEF Taken, SenderInv
  <1>3. rcvCurrSeqNo' \in {s, rcvCurrSeqNo} /\ s <= rcvCurrSeqNo' /\ rcvCurrSeqNo <= rcvCurrSeqNo'
    BY <1>1 DEF Taken, TypeOK, Larger
  <1>4. \A t \in rcvLossList' : t \in Int /\ t # s /\ (t \in rcvLossList \/ (rcvCurrSeqNo < t /\ t < s))
    BY <1>1 DEF Taken, TypeOK, Gap
  <1>5. ReceiverInv'
    <2>1. \A t \in rcvLossList' : rcvLastAck <= t /\ t <= rcvCurrSeqNo'
      BY <1>1, <1>3, <1>4 DEF TypeOK, ReceiverInv
    <2>2. \A u \in rcvBuf' : u.data = u.seq /\ readPos <= u.seq /\ u.seq <= rcvCurrSeqNo'
      <3>1. SUFFICES ASSUME NEW u \in rcvBuf'
                     PROVE  u.data = u.seq /\ readPos <= u.seq /\ u.seq <= rcvCurrSeqNo'
        OBVIOUS
      <3>2. CASE u \in rcvBuf
        <4>1. u.seq \in Int /\ u.data = u.seq /\ readPos <= u.seq /\ u.seq <= rcvCurrSeqNo
          BY <3>2 DEF TypeOK, ReceiverInv
        <4>2. QED
          BY <1>1, <1>3, <4>1 DEF TypeOK
      <3>3. CASE u = [seq |-> s, data |-> m.data]
        BY <1>3, <3>3 DEF TypeOK, ReceiverInv, Accepted
      <3>4. QED
        BY <3>2, <3>3 DEF Taken
    <2>3. \A t \in readPos .. rcvCurrSeqNo' :
             t \in rcvLossList' <=> ~ \E u \in rcvBuf' : u.seq = t
      <3>1. SUFFICES ASSUME NEW t \in Int, readPos <= t, t <= rcvCurrSeqNo'
                     PROVE  t \in rcvLossList' <=> ~ \E u \in rcvBuf' : u.seq = t
        BY DEF TypeOK
      <3>2. CASE t = s
        <4>1. s \notin rcvLossList'
          BY DEF Taken
        <4>2. [seq |-> s, data |-> m.data] \in rcvBuf'
          BY DEF Taken
        <4>3. QED
          BY <3>2, <4>1, <4>2
      <3>3. CASE t # s /\ t <= rcvCurrSeqNo
        <4>1. t \in rcvLossList' <=> t \in rcvLossList
          BY <3>3 DEF Taken, TypeOK, Gap
        <4>2. (\E u \in rcvBuf' : u.seq = t) <=> \E u \in rcvBuf : u.seq = t
          BY <3>3 DEF Taken
        <4>3. t \in rcvLossList <=> ~ \E u \in rcvBuf : u.seq = t
          BY <3>1, <3>3 DEF TypeOK, ReceiverInv
        <4>4. QED
          BY <4>1, <4>2, <4>3
      <3>4. CASE t # s /\ ~ t <= rcvCurrSeqNo
        <4>1. rcvCurrSeqNo < t /\ t < s
          <5>1. rcvCurrSeqNo \in Int
            BY DEF TypeOK
          <5>2. rcvCurrSeqNo' = s
            BY <1>3, <3>1, <3>4
          <5>3. QED
            BY <1>1, <3>1, <3>4, <5>1, <5>2
        <4>2. t \in rcvLossList'
          BY <1>1, <3>4, <4>1 DEF Taken, TypeOK, Gap
        <4>3. \A u \in rcvBuf' : u.seq # t
          BY <3>4, <4>1 DEF Taken, TypeOK, ReceiverInv
        <4>4. QED
          BY <4>2, <4>3
      <3>5. QED
        BY <3>2, <3>3, <3>4
    <2>4. rcvLastAck - 1 <= rcvCurrSeqNo' /\ rcvCurrSeqNo' <= startPos + RcvBufSize - 2
      BY <1>1, <1>3 DEF TypeOK, ReceiverInv, Accepted
    <2>5. rcvLastAck <= rcvCurrSeqNo' + 1
      BY <1>3 DEF TypeOK, ReceiverInv, Accepted
    <2>6. QED
      BY <2>1, <2>2, <2>3, <2>4, <2>5 DEF Taken, ReceiverInv
  <1>6. Advance
    BY <1>3, <1>4 DEF TypeOK, Taken, Advance, Larger
  <1>7. \A n \in net' : PacketInv(n)'
    <2>1. CASE Gap(s) = {}
      <3>1. net' \subseteq net
        BY <2>1 DEF Taken, Received, After
      <3>2. QED
        BY <1>6, <3>1, NetSame
    <2>2. CASE Gap(s) # {}
      <3>1. PICK p : p = NakPkt(rcvCurrSeqNo + 1, s - 1)
        OBVIOUS
      <3>2. net' \subseteq net \cup {p}
        BY <2>2, <3>1 DEF Taken, Received, After
      <3>3. rcvCurrSeqNo + 1 <= s - 1 /\ s - 1 <= rcvCurrSeqNo'
        BY <1>1, <1>3, <2>2 DEF TypeOK, Gap
      <3>4. PacketInv(p)'
        BY <3>1, <3>3 DEF PacketInv, NakPkt
      <3>5. QED
        BY <1>6, <3>2, <3>4, NetKept
    <2>3. QED
      BY <2>1, <2>2
  <1>8. Contiguous(sndLastAck)'
    <2>1. PICK a : a = sndLastAck
      OBVIOUS
    <2>2. a \in Nat /\ Contiguous(a) /\ Cursors
      BY <2>1, CursorTypes DEF TypeOK, ChannelInv
    <2>3. Contiguous(a)' /\ sndLastAck' = a
      BY <1>6, <2>1, <2>2, ContiguousKept DEF Taken
    <2>4. QED
      BY <2>3 DEF Contiguous
  <1>9. ChannelInv'
    BY <1>1, <1>3, <1>7, <1>8 DEF Taken, ChannelInv
  <1>10. QED
    BY <1>2, <1>5, <1>9

(* Every packet handler keeps the invariant.                               *)
LEMMA InvArrive ==
  ASSUME IInv, Cursors', NEW m \in net, Arrive(m) \/ Lose(m)
  PROVE  SafeInv'
  <1> USE DEF IInv, SafeInv
  <1> m \in Packet /\ PacketInv(m)
    BY DEF TypeOK, ChannelInv
  <1>1. CASE RecvLiteAck(m)
    <2>1. m.ack \in Nat /\ Contiguous(m.ack)
      BY <1>1, PacketFields DEF RecvLiteAck, PacketInv
    <2>2. /\ sndLastAck <= sndLastAck' /\ Contiguous(sndLastAck')
          /\ sndLastAck' \in {sndLastAck, m.ack}
      BY <1>1, <2>1 DEF TypeOK, RecvLiteAck, ChannelInv
    <2>3. SenderInv'
      BY <1>1, <2>1, <2>2 DEF TypeOK, RecvLiteAck, SenderInv
    <2>4. ReceiverInv'
      BY <1>1 DEF RecvLiteAck, ReceiverInv
    <2>5. Advance /\ net' \subseteq net
      BY <1>1 DEF TypeOK, RecvLiteAck, Advance, Larger, Received, After
    <2>6. \A n \in net' : PacketInv(n)'
      BY <2>5, NetSame
    <2>7. ChannelInv'
      BY <1>1, <2>2, <2>6 DEF RecvLiteAck, ChannelInv, Contiguous
    <2>8. QED
      BY <2>3, <2>4, <2>7
  <1>2. CASE RecvNak(m)
    <2>1. m.lo \in Nat /\ m.hi \in Nat /\ m.lo <= m.hi /\ m.hi <= sndCurrSeqNo
      BY <1>2, PacketFields DEF TypeOK, RecvNak, PacketInv, ChannelInv
    <2>2. sndLossList' = sndLossList \cup (Larger(m.lo, sndLastAck) .. m.hi) /\ UNCHANGED broken
      BY <1>2, <2>1 DEF TypeOK, RecvNak
    <2>3. SenderInv'
      <3>1. \A s \in sndLossList' : s <= sndCurrSeqNo
        BY <2>1, <2>2 DEF TypeOK, SenderInv, Larger
      <3>2. ctrlPc' = "update" \/ ctrlPc' = ctrlPc
        BY <1>2 DEF RecvNak
      <3>3. ctrlPc = "idle"
        BY <1>2 DEF RecvNak, Listening
      <3>4. QED
        BY <1>2, <3>1, <3>2, <3>3 DEF RecvNak, SenderInv
    <2>4. ReceiverInv'
      BY <1>2 DEF RecvNak, ReceiverInv
    <2>5. Advance /\ net' \subseteq net
      BY <1>2 DEF TypeOK, RecvNak, Advance, Larger, Received, After
    <2>6. \A n \in net' : PacketInv(n)'
      BY <2>5, NetSame
    <2>7. ChannelInv'
      BY <1>2, <2>2, <2>6 DEF RecvNak, ChannelInv, Contiguous
    <2>8. QED
      BY <2>3, <2>4, <2>7
  <1>3. ASSUME NEW ack2 \in Ack2Sent, RecvAck(m, ack2) PROVE SafeInv'
    <2>1. m.ack \in Nat /\ m.ack <= rcvLastAck /\ Contiguous(m.ack)
      BY <1>3, PacketFields DEF TypeOK, RecvAck, PacketInv, ReceiverInv, Contiguous
    <2>2. ~ m.ack > sndCurrSeqNo + 1
      BY <2>1 DEF TypeOK, ChannelInv, Contiguous
    <2>3. /\ sndLastAck' \in {sndLastAck, m.ack}
          /\ sndLastAck <= sndLastAck' /\ m.ack <= sndLastAck'
          /\ ctrlPc' = "ack" /\ ctrlAck' = m.ack /\ UNCHANGED broken
      BY <1>3, <2>1, <2>2 DEF TypeOK, RecvAck, NewerAck
    <2>4. ctrlAck = 0
      BY <1>3 DEF RecvAck, Listening, SenderInv
    <2>5. SenderInv'
      BY <1>3, <2>1, <2>3 DEF TypeOK, RecvAck, SenderInv
    <2>6. ReceiverInv'
      BY <1>3 DEF RecvAck, ReceiverInv
    <2>7. Advance
      BY <1>3, <2>1, <2>3, <2>4 DEF TypeOK, RecvAck, Advance, Larger
    <2>8. PICK p : p = Ack2Pkt(m.ack)
      OBVIOUS
    <2>9. PacketInv(p)'
      BY <1>3, <2>1, <2>3, <2>8 DEF TypeOK, RecvAck, PacketInv, Ack2Pkt, Larger
    <2>10. net' \subseteq net \cup {p}
      BY <1>3, <2>8 DEF RecvAck, Received, After
    <2>11. \A n \in net' : PacketInv(n)'
      BY <2>7, <2>9, <2>10, NetKept
    <2>12. rcvLastAckAck <= Larger(sndLastDataAck', ctrlAck')
      BY <2>1, <2>3, <2>4, <1>3 DEF TypeOK, RecvAck, ChannelInv, Larger
    <2>13. ChannelInv'
      BY <1>3, <2>1, <2>3, <2>11, <2>12 DEF RecvAck, ChannelInv, Contiguous
    <2>14. QED
      BY <2>5, <2>6, <2>13
  <1>4. CASE RecvAck2(m)
    <2>1. /\ m.ack \in Nat /\ m.ack <= Larger(sndLastDataAck, ctrlAck)
          /\ rcvLastAckAck' \in {rcvLastAckAck, m.ack}
      BY <1>4, PacketFields DEF TypeOK, RecvAck2, PacketInv, Larger
    <2>2. m.ack <= rcvLastAck
      BY <2>1 DEF TypeOK, ChannelInv, Larger
    <2>3. SenderInv'
      BY <1>4 DEF RecvAck2, SenderInv
    <2>4. ReceiverInv'
      BY <1>4, <2>1, <2>2 DEF RecvAck2, ReceiverInv
    <2>5. Advance /\ net' \subseteq net
      BY <1>4 DEF TypeOK, RecvAck2, Advance, Larger, Received, After
    <2>6. \A n \in net' : PacketInv(n)'
      BY <2>5, NetSame
    <2>7. ChannelInv'
      BY <1>4, <2>1, <2>6 DEF RecvAck2, ChannelInv, Contiguous
    <2>8. QED
      BY <2>3, <2>4, <2>7
  <1>5. CASE Lose(m)
    <2>1. SenderInv' /\ ReceiverInv'
      BY <1>5 DEF Lose, SenderInv, ReceiverInv
    <2>2. Advance /\ net' \subseteq net
      BY <1>5 DEF TypeOK, Lose, Advance, Larger
    <2>3. \A n \in net' : PacketInv(n)'
      BY <2>2, NetSame
    <2>4. ChannelInv'
      BY <1>5, <2>3 DEF Lose, ChannelInv, Contiguous
    <2>5. QED
      BY <2>1, <2>4
  <1>6. CASE RecvData(m)
    <2>1. CASE Received(m, {}) /\ UNCHANGED <<rcvVars, sndVars, readVars>>
      <3>1. SenderInv' /\ ReceiverInv'
        BY <2>1 DEF SenderInv, ReceiverInv
      <3>2. Advance /\ net' \subseteq net
        BY <2>1 DEF TypeOK, Advance, Larger, Received, After
      <3>3. \A n \in net' : PacketInv(n)'
        BY <3>2, NetSame
      <3>4. ChannelInv'
        BY <2>1, <3>3 DEF ChannelInv, Contiguous
      <3>5. QED
        BY <3>1, <3>4
    <2>2. CASE Accepted(m) /\ Taken(m)
      BY <2>2, InvTaken
    <2>3. QED
      BY <1>6, <2>1, <2>2, DataAccepted
  <1>7. QED
    BY <1>1, <1>2, <1>3, <1>4, <1>5, <1>6 DEF Arrive

(* The invariant is inductive.                                             *)
LEMMA InvNext == IInv /\ [Next]_vars => IInv'
  <1> SUFFICES ASSUME IInv, [Next]_vars PROVE IInv'
    OBVIOUS
  <1>1. TypeOK' /\ Cursors'
    BY TypeNext, CursorTypes DEF IInv
  <1>2. CASE UNCHANGED vars
    <2>1. SenderInv' /\ ReceiverInv'
      BY <1>2 DEF IInv, SenderInv, ReceiverInv, vars
    <2>2. ChannelInv'
      BY <1>2, ChannelSame DEF IInv, ChannelInv, channelVars, vars
    <2>3. QED
      BY <1>1, <2>1, <2>2 DEF IInv
  <1>3. CASE Next
    <2>1. SafeInv'
      BY <1>1, <1>3, InvApp, InvWorker, InvCtrl, InvReader, InvAck, InvArrive DEF Next
    <2>2. QED
      BY <1>1, <2>1 DEF IInv, SafeInv
  <1>4. QED
    BY <1>2, <1>3

(* What each host believes of the other is never ahead of the truth, and    *)
(* no packet still in the network, however old, says more than it should.   *)
THEOREM Invariance == Spec => []IInv
  BY InvInit, InvNext, PTL DEF Spec

-----------------------------------------------------------------------------
(* recv() returns the stream send() was given, in order and once.           *)
THEOREM InOrderAlways == Spec => []InOrder
  <1>1. IInv => InOrder
    BY DEF IInv, TypeOK, ReceiverInv, InOrder
  <1>2. QED
    BY <1>1, Invariance, PTL

(* A packet sent from a block that was being refilled is always an old one, *)
(* which processData discards.                                             *)
THEOREM GarbledAlwaysOld == Spec => []GarbledIsOld
  <1>1. IInv => GarbledIsOld
    BY DEF IInv, ChannelInv, PacketInv, GarbledIsOld
  <1>2. QED
    BY <1>1, Invariance, PTL

(* readBuffer never meets a missing unit.                                   *)
THEOREM NoHoleAlways == Spec => []NoHole
  <1>1. IInv => NoHole
    <2>1. SUFFICES ASSUME IInv, NEW s \in readPos .. rcvLastAck - 1
                   PROVE  \E u \in rcvBuf : Slot(u.seq) = Slot(s)
      BY DEF NoHole
    <2>2. s \notin rcvLossList /\ s \in readPos .. rcvCurrSeqNo
      BY <2>1 DEF IInv, TypeOK, ReceiverInv
    <2>3. PICK u \in rcvBuf : u.seq = s
      BY <2>1, <2>2 DEF IInv, ReceiverInv
    <2>4. QED
      BY <2>3
  <1>2. QED
    BY <1>1, Invariance, PTL

(* Every hole below the largest number seen is on the receiver's loss list. *)
THEOREM LossAlwaysAccounted == Spec => []LossAccounted
  <1>1. IInv => LossAccounted
    BY DEF IInv, TypeOK, ReceiverInv, LossAccounted
  <1>2. QED
    BY <1>1, Invariance, PTL

(* No packet is stored over an unread one.                                  *)
THEOREM RingAlwaysFits == Spec => []RingFits
  <1>1. IInv => RingFits
    BY DEF IInv, TypeOK, ReceiverInv, RingFits
  <1>2. QED
    BY <1>1, Invariance, PTL

(* The receiver believes an ACK heard only when the sender has freed what   *)
(* it covers, or is about to.                                              *)
THEOREM AckAckAlwaysKnown == Spec => []AckAckKnown
  <1>1. IInv => AckAckKnown
    BY DEF IInv, ChannelInv, AckAckKnown
  <1>2. QED
    BY <1>1, Invariance, PTL

(* The "attack or bug" checks of processCtrl never fire between two hosts   *)
(* running this code.                                                      *)
THEOREM HonestPeerAlwaysKept == Spec => []HonestPeerKept
  <1>1. IInv => HonestPeerKept
    BY DEF IInv, ChannelInv, HonestPeerKept
  <1>2. QED
    BY <1>1, Invariance, PTL

(* The send buffer and the sequence numbers always move together.           *)
THEOREM SeqAlwaysMatchesBlock == Spec => []SeqMatchesBlock
  <1>1. IInv => SeqMatchesBlock
    BY DEF IInv, SenderInv, SeqMatchesBlock
  <1>2. QED
    BY <1>1, Invariance, PTL

-----------------------------------------------------------------------------
(* The steps.  An ACK below the last one is ignored, so every cursor only   *)
(* moves up; and each step of the connection is a step of the custody chain *)
(* of ReliableStream, or none of its business.                             *)

cursorVars == <<sndLastAck, sndLastDataAck, sndCurrSeqNo, rcvLastAck, rcvLastAckAck,
                rcvCurrSeqNo, startPos>>

CursorStep ==
  /\ sndLastAck' >= sndLastAck /\ sndLastDataAck' >= sndLastDataAck
  /\ sndCurrSeqNo' >= sndCurrSeqNo
  /\ rcvLastAck' >= rcvLastAck /\ rcvLastAckAck' >= rcvLastAckAck
  /\ rcvCurrSeqNo' >= rcvCurrSeqNo /\ startPos' >= startPos

(* A step that touches no cursor takes none back.                          *)
LEMMA CursorSame ==
  ASSUME TypeOK, UNCHANGED cursorVars PROVE CursorStep
  BY DEF TypeOK, cursorVars, CursorStep

(* Every step keeps or advances every cursor.                              *)
LEMMA CursorNext ==
  ASSUME IInv, Next PROVE CursorStep
  <1> USE DEF IInv
  <1>1. CASE App \/ ReadBegin \/ ReadUnit \/ Timer \/ RecvOther \/ SendLiteAck
             \/ CtrlUpdate \/ Pop \/ PackLost \/ ReadWindow \/ SendTo
    <2>1. UNCHANGED cursorVars
      BY <1>1 DEF App, AddBuffer, AddCount, AppUpdate, ReadBegin, ReadUnit, Timer, ExpTick,
                  ExpTimeout, ExpResend, RecvOther, SendLiteAck, CtrlUpdate, Pop, PackLost,
                  ReadWindow, SendTo, cursorVars
    <2>2. QED
      BY <2>1, CursorSame
  <1>2. CASE PackNew
    BY <1>2 DEF TypeOK, PackNew, CursorStep
  <1>3. CASE CommitAck
    BY <1>3 DEF TypeOK, CommitAck, Repeated, CursorStep
  <1>4. CASE ReadEnd
    BY <1>4 DEF TypeOK, ReadEnd, CursorStep
  <1>5. CASE SendAck
    BY <1>5 DEF TypeOK, SendAck, CursorStep
  <1>6. ASSUME NEW m \in net, Arrive(m) \/ Lose(m) PROVE CursorStep
    <2> m \in Packet
      BY DEF TypeOK
    <2>1. CASE RecvLiteAck(m)
      BY <2>1, PacketFields DEF TypeOK, RecvLiteAck, CursorStep
    <2>2. CASE RecvNak(m) \/ Lose(m)
      <3>1. UNCHANGED cursorVars
        BY <2>2 DEF RecvNak, Lose, cursorVars
      <3>2. QED
        BY <3>1, CursorSame
    <2>3. CASE RecvData(m)
      <3>1. CASE UNCHANGED <<rcvVars, sndVars, readVars>>
        <4>1. UNCHANGED cursorVars
          BY <3>1 DEF cursorVars
        <4>2. QED
          BY <4>1, CursorSame
      <3>2. CASE Accepted(m) /\ Taken(m)
        <4>1. rcvCurrSeqNo' >= rcvCurrSeqNo
          BY <3>2 DEF TypeOK, Accepted, Taken, Larger
        <4>2. QED
          BY <3>2, <4>1 DEF TypeOK, Taken, CursorStep
      <3>3. QED
        BY <2>3, <3>1, <3>2, DataAccepted
    <2>4. CASE RecvAck2(m)
      BY <2>4, PacketFields DEF TypeOK, RecvAck2, Larger, CursorStep
    <2>5. ASSUME NEW ack2 \in Ack2Sent, RecvAck(m, ack2) PROVE CursorStep
      <3>1. m.ack \in Nat
        BY <2>5, PacketFields DEF RecvAck
      <3>2. sndLastAck' >= sndLastAck
        BY <2>5, <3>1 DEF TypeOK, RecvAck, NewerAck
      <3>3. QED
        BY <2>5, <3>2 DEF TypeOK, RecvAck, CursorStep
    <2>6. QED
      BY <1>6, <2>1, <2>2, <2>3, <2>4, <2>5 DEF Arrive
  <1>7. QED
    BY <1>1, <1>2, <1>3, <1>4, <1>5, <1>6 DEF Next, Worker, Ctrl, Reader

(* No acknowledgement is ever taken back, at either end.                    *)
THEOREM CursorsAlwaysAdvance == Spec => CursorsAdvance
  <1>1. IInv /\ [Next]_vars =>
          [ /\ sndLastAck' >= sndLastAck /\ sndLastDataAck' >= sndLastDataAck
            /\ sndCurrSeqNo' >= sndCurrSeqNo
            /\ rcvLastAck' >= rcvLastAck /\ rcvLastAckAck' >= rcvLastAckAck
            /\ rcvCurrSeqNo' >= rcvCurrSeqNo /\ startPos' >= startPos ]_vars
    BY CursorNext DEF CursorStep
  <1>2. QED
    BY <1>1, Invariance, PTL DEF Spec, CursorsAdvance

(* Every step is a step of the custody chain or leaves it alone.           *)
LEMMA StreamNext ==
  ASSUME IInv, Next PROVE [Stream!Next]_(Stream!vars)
  <1> USE DEF IInv, Stream!vars
  <1>1. ASSUME NEW len \in SendSizes, AddBuffer(len) PROVE Stream!Accept
    <2>1. PICK n : n = Smaller(len, Smaller(SndBufSize - count, DataSize - lastBlock))
      OBVIOUS
    <2>2. n \in Nat /\ 1 <= n /\ lastBlock + n <= DataSize
      BY <1>1, <2>1 DEF TypeOK, AddBuffer, Smaller
    <2>3. lastBlock' = lastBlock + n /\ UNCHANGED <<rcvLastAck, firstBlock, delivered>>
      BY <1>1, <2>1 DEF AddBuffer
    <2>4. lastBlock + n \in lastBlock + 1 .. DataSize
      BY <2>2 DEF TypeOK
    <2>5. QED
      BY <2>3, <2>4 DEF Stream!Accept
  <1>2. CASE CommitAck
    <2>1. CASE Repeated(ctrlAck)
      BY <1>2, <2>1 DEF CommitAck
    <2>2. CASE ~ Repeated(ctrlAck)
      <3>1. firstBlock' = ctrlAck /\ firstBlock + 1 <= ctrlAck /\ ctrlAck <= rcvLastAck
        BY <1>2, <2>2 DEF TypeOK, SenderInv, ChannelInv, CommitAck, Acked, Repeated
      <3>2. firstBlock' \in firstBlock + 1 .. rcvLastAck
        BY <3>1 DEF TypeOK
      <3>3. QED
        BY <1>2, <3>2 DEF CommitAck, Stream!Next, Stream!Release
    <2>3. QED
      BY <2>1, <2>2
  <1>3. CASE SendAck
    <2>1. PICK ack \in AckPoint :
             /\ ack >= rcvLastAck /\ rcvLastAck' = ack
             /\ UNCHANGED <<sndVars, readVars>>
      BY <1>3 DEF SendAck
    <2>2. ack \in Nat /\ ack <= rcvCurrSeqNo + 1
      BY AckPointType DEF TypeOK, ReceiverInv, AckPoint, Least
    <2>3. ack <= lastBlock
      BY <2>2 DEF TypeOK, SenderInv, ChannelInv
    <2>4. rcvLastAck' = rcvLastAck \/ rcvLastAck' \in rcvLastAck + 1 .. lastBlock
      BY <2>1, <2>2, <2>3 DEF TypeOK
    <2>5. QED
      BY <2>1, <2>4 DEF Stream!Next, Stream!Receive
  <1>4. CASE ReadUnit
    <2>1. delivered' = Append(delivered, Len(delivered)) /\ Len(delivered) < rcvLastAck
      <3>1. Len(delivered) = readPos
        BY DEF TypeOK, ReceiverInv
      <3>2. PICK u \in rcvBuf : Slot(u.seq) = Slot(readPos) /\ delivered' = Append(delivered, u.data)
        BY <1>4 DEF ReadUnit
      <3>3. u.data = readPos
        BY <3>2, UnitAtSlot
      <3>4. QED
        BY <1>4, <3>1, <3>2, <3>3 DEF TypeOK, ReadUnit, ReceiverInv
    <2>2. QED
      BY <1>4, <2>1 DEF ReadUnit, Stream!Next, Stream!Deliver
  <1>5. CASE AddCount \/ AppUpdate \/ Worker \/ CtrlUpdate \/ Timer \/ RecvOther
             \/ ReadBegin \/ ReadEnd \/ SendLiteAck
    BY <1>5 DEF AddCount, AppUpdate, Worker, Pop, PackLost, ReadWindow, PackNew, SendTo,
                CtrlUpdate, Timer, ExpTick, ExpTimeout, ExpResend, RecvOther,
                ReadBegin, ReadEnd, SendLiteAck
  <1>6. ASSUME NEW m \in net, Arrive(m) \/ Lose(m)
        PROVE  UNCHANGED <<lastBlock, rcvLastAck, firstBlock, delivered>>
    BY <1>6 DEF Arrive, RecvLiteAck, RecvNak, RecvData, RecvAck2, RecvAck, Lose
  <1>7. QED
    BY <1>1, <1>2, <1>3, <1>4, <1>5, <1>6 DEF Next, App, Ctrl, Reader, Stream!Next

(* The connection implements the safety part of ReliableStream: what is     *)
(* accepted is received, then released and delivered, in order and once.    *)
THEOREM StreamAlwaysSafe == Spec => StreamSafe
  <1>1. Init => Stream!Init
    BY DEF Init, Stream!Init
  <1>2. IInv /\ [Next]_vars => [Stream!Next]_(Stream!vars)
    <2>1. CASE UNCHANGED vars
      BY <2>1 DEF vars, Stream!vars
    <2>2. QED
      BY <2>1, StreamNext
  <1>3. QED
    BY <1>1, <1>2, Invariance, PTL DEF Spec, StreamSafe, Stream!Safe
=============================================================================
