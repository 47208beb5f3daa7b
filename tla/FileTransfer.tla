---------------------------- MODULE FileTransfer ----------------------------
(***************************************************************************)
(* sendfile at one end, recvfile at the other: when each waits, what wakes  *)
(* it, and what the send buffer counts when the file is shorter than asked. *)
(* The data arrives in order and its ACKs in the end, as Transfer shows;    *)
(* the one message by which recvfile reports a failing disk may be lost.    *)
(* Sizes are in blocks of the send buffer.                                 *)
(***************************************************************************)
EXTENDS Integers

CONSTANTS SndBlocks,   \* m_iSndBufSize
          RcvBlocks,   \* what the receive buffer holds
          Asked,        \* the size given to sendfile and to recvfile
          Chunk         \* the parameter block

ASSUME FileTransferAssumption ==
  /\ SndBlocks \in Nat \ {0} /\ RcvBlocks \in Nat \ {0}
  /\ Asked \in Nat \ {0} /\ Chunk \in Nat \ {0}

VARIABLES
  syn,        \* m_bSynSending and m_bSynRecving: UDT_SNDSYN, UDT_RCVSYN
  file,       \* what the file still holds, and failed (ifs.fail)
  sender,     \* sendfile: at, left; the buffer: count (m_iCount), blocks in it
  receiver,   \* recvfile: at, left, broken (ofs.fail); data in the buffer
  healthy,    \* m_bPeerHealth
  toAck,      \* arrived, and the sender does not know
  errors,     \* error messages (type 8): none, sent or lost
  bells       \* who is about to be signalled

ftVars == <<syn, file, sender, receiver, healthy, toAck, errors, bells>>

FtInit ==
  /\ syn \in BOOLEAN
  /\ file \in [left : {Asked, IF Asked > 2 THEN Asked - 2 ELSE 0}, failed : {FALSE}]
  /\ sender = [at |-> "loop", left |-> Asked, count |-> 0, blocks |-> 0]
  /\ receiver = [at |-> "loop", left |-> Asked, data |-> 0, broken |-> FALSE]
  /\ healthy = TRUE /\ toAck = 0 /\ errors = "none" /\ bells = {}

Least(a, b) == IF a < b THEN a ELSE b

-----------------------------------------------------------------------------
(* sendfile.  The test and the wait are one step, under m_SendBlockLock.    *)
(* The connection lasts: the ways out of both calls on m_bBroken and        *)
(* m_bClosing are not followed.                                            *)

BufferFull  == SndBlocks <= sender.count
MustWait    == BufferFull /\ healthy

SendLoop ==
  /\ sender.at = "loop"
  /\ sender' = [sender EXCEPT !.at = IF sender.left = 0 THEN "done"
                                     ELSE IF file.failed THEN "failed"
                                     ELSE IF MustWait THEN "wait" ELSE "go"]
  /\ UNCHANGED <<syn, file, receiver, healthy, toAck, errors, bells>>

(* A sender that was woken tests again.                                    *)
SendAgain ==
  /\ sender.at = "woken"
  /\ sender' = [sender EXCEPT !.at = IF MustWait THEN "wait" ELSE "go"]
  /\ UNCHANGED <<syn, file, receiver, healthy, toAck, errors, bells>>

(* addBufferFromFile counts the blocks it was asked for, not those it read. *)
addBufferFromFile(size) ==
  LET real == Least(size, file.left)
  IN  /\ sender' = [at |-> "loop", left |-> sender.left - real,
                    count |-> sender.count + size, blocks |-> sender.blocks + real]
      /\ file' = [left |-> file.left - real, failed |-> real < size]

SendBlock ==
  /\ sender.at = "go"
  /\ IF healthy
       THEN addBufferFromFile(Least(sender.left, Chunk)) /\ UNCHANGED healthy
       ELSE /\ healthy' = TRUE
            /\ sender' = [sender EXCEPT !.at = "peer_error"]
            /\ UNCHANGED file
  /\ UNCHANGED <<syn, receiver, toAck, errors, bells>>

-----------------------------------------------------------------------------
(* The workers: data arrives and is acknowledged.  Each signals a waiting   *)
(* call only when its side is synchronous.                                 *)

RingSilent(who) == {}
RingSyn(who)    == IF syn THEN {who} ELSE {}
RingFor(who)    == RingSyn(who)

Arrive(n) ==
  /\ n <= sender.blocks - toAck /\ n <= RcvBlocks - receiver.data
  /\ receiver' = [receiver EXCEPT !.data = @ + n]
  /\ toAck' = toAck + n
  /\ bells' = bells \cup RingFor("rcv")
  /\ UNCHANGED <<syn, file, sender, healthy, errors>>

AckData ==
  /\ toAck > 0
  /\ sender' = [at |-> sender.at, left |-> sender.left,
                count |-> sender.count - toAck, blocks |-> sender.blocks - toAck]
  /\ toAck' = 0
  /\ bells' = bells \cup RingFor("snd")
  /\ UNCHANGED <<syn, file, receiver, healthy, errors>>

Ring ==
  \E who \in bells :
    /\ bells' = bells \ {who}
    /\ sender' = [sender EXCEPT !.at = IF who = "snd" /\ @ = "wait" THEN "woken" ELSE @]
    /\ receiver' = [receiver EXCEPT !.at = IF who = "rcv" /\ @ = "wait" THEN "woken" ELSE @]
    /\ UNCHANGED <<syn, file, healthy, toAck, errors>>

(* processCtrl, type 8: the blocked sendfile is not signalled.             *)
PeerError ==
  /\ errors = "sent"
  /\ \/ errors' = "none" /\ healthy' = FALSE
     \/ errors' = "lost" /\ UNCHANGED healthy
  /\ UNCHANGED <<syn, file, sender, receiver, toAck, bells>>

-----------------------------------------------------------------------------
(* recvfile                                                                *)

ReceiveLoop ==
  /\ receiver.at = "loop"
  /\ receiver' = [receiver EXCEPT !.at = IF receiver.left = 0 THEN "done"
                                         ELSE IF receiver.broken THEN "failed"
                                         ELSE IF receiver.data = 0 THEN "wait" ELSE "go"]
  /\ errors' = IF receiver.left > 0 /\ receiver.broken THEN "sent" ELSE errors
  /\ UNCHANGED <<syn, file, sender, healthy, toAck, bells>>

ReceiveAgain ==
  /\ receiver.at = "woken"
  /\ receiver' = [receiver EXCEPT !.at = IF receiver.data = 0 THEN "wait" ELSE "go"]
  /\ UNCHANGED <<syn, file, sender, healthy, toAck, errors, bells>>

(* readBufferToFile, up to a write that fails.                             *)
ReceiveBlock ==
  LET size == Least(Least(receiver.left, Chunk), receiver.data)
  IN  /\ receiver.at = "go"
      /\ \E n \in 0 .. size :
           receiver' = [at |-> "loop", left |-> receiver.left - n,
                        data |-> receiver.data - n, broken |-> n < size]
      /\ UNCHANGED <<syn, file, sender, healthy, toAck, errors, bells>>

-----------------------------------------------------------------------------
FtNext ==
  \/ SendLoop \/ SendAgain \/ SendBlock
  \/ (\E n \in 1 .. RcvBlocks : Arrive(n)) \/ AckData \/ Ring \/ PeerError
  \/ ReceiveLoop \/ ReceiveAgain \/ ReceiveBlock

FtSpec == FtInit /\ [][FtNext]_ftVars

-----------------------------------------------------------------------------
Short == file.failed
Receiving == receiver.at \in {"loop", "woken", "go"}

(* A waiting sendfile is going to be woken: a signal, an ACK, data that     *)
(* fits the peer's buffer, or a peer at work is on the way; and a waiting   *)
(* recvfile when there is data.  But for a socket that is not synchronous,  *)
(* which nobody signals, and a failing disk, whose message signals nobody   *)
(* either (core.cpp: "blcoked sendfile/send should return immediately").    *)
(* The buffer counts what it holds, unless the file ended early.           *)
FileMoves ==
  /\ syn /\ healthy /\ sender.at = "wait" /\ receiver.at \notin {"failed", "done"} =>
       \/ "snd" \in bells \/ toAck > 0
       \/ sender.blocks > toAck /\ (receiver.data < RcvBlocks \/ Receiving \/ "rcv" \in bells)
  /\ syn /\ receiver.at = "wait" => receiver.data = 0 \/ "rcv" \in bells
  /\ ~Short => sender.count = sender.blocks
=============================================================================
