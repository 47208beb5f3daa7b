---------------------------- MODULE MCContainers ----------------------------
(***************************************************************************)
(* The parts of the library that share no state with one another, one per   *)
(* behaviour: `which` picks the one that runs, and the others stay as they  *)
(* start.                                                                  *)
(***************************************************************************)
EXTENDS SndLossList, RcvLossList, AckWindow, EPoll, Congestion, UnitQueue, RcvQueue,
        FileTransfer, Messages, SndQueue, PeerCache

VARIABLE which

allVars == <<which, vars, slVars, rlVars, msgVars, sqVars, epVars, ccVars, uqVars, rqVars,
             pcVars, ftVars>>

Parts == {"snd", "rcv", "ack", "msg", "queue", "epoll", "congestion", "units", "receive",
          "cache", "file"}

(* A message of three packets, which fills the window, and two of one.      *)
LongFirst == <<3, 1, 1>>

(* Three that share a bucket, one of another, and one that has no key.      *)
Peers == {1, 10, 19, 2, -1}

MCInit ==
  /\ which \in Parts
  /\ Init /\ SlInit /\ RlInit /\ MsgInit /\ SqInit /\ EpInit
  /\ CcInit /\ UqInit /\ RqInit /\ PcInit /\ FtInit
  /\ which # "file" => syn /\ file.left = Asked

StillBut(part) ==
  /\ UNCHANGED which
  /\ IF part = "snd" THEN TRUE ELSE UNCHANGED slVars
  /\ IF part = "rcv" THEN TRUE ELSE UNCHANGED rlVars
  /\ IF part = "ack" THEN TRUE ELSE UNCHANGED vars
  /\ IF part = "msg" THEN TRUE ELSE UNCHANGED msgVars
  /\ IF part = "queue" THEN TRUE ELSE UNCHANGED sqVars
  /\ IF part = "epoll" THEN TRUE ELSE UNCHANGED epVars
  /\ IF part = "congestion" THEN TRUE ELSE UNCHANGED ccVars
  /\ IF part = "units" THEN TRUE ELSE UNCHANGED uqVars
  /\ IF part = "receive" THEN TRUE ELSE UNCHANGED rqVars
  /\ IF part = "cache" THEN TRUE ELSE UNCHANGED pcVars
  /\ IF part = "file" THEN TRUE ELSE UNCHANGED ftVars

(* A sender that has skipped numbers resends the wrong blocks, which the    *)
(* run msg_drop shows: this one goes no further.                           *)
MCNext ==
  \/ which = "snd"        /\ SlNext  /\ StillBut("snd")
  \/ which = "rcv"        /\ RlNext  /\ StillBut("rcv")
  \/ which = "ack"        /\ Next    /\ StillBut("ack")
  \/ which = "msg"        /\ Aligned /\ MsgNext /\ StillBut("msg")
  \/ which = "queue"      /\ SqNext  /\ StillBut("queue")
  \/ which = "epoll"      /\ EpNext  /\ StillBut("epoll")
  \/ which = "congestion" /\ CcNext  /\ StillBut("congestion")
  \/ which = "units"      /\ UqNext  /\ StillBut("units")
  \/ which = "receive"    /\ RqNext  /\ StillBut("receive")
  \/ which = "cache"      /\ PcNext  /\ StillBut("cache")
  \/ which = "file"       /\ FtNext  /\ StillBut("file")

MCSpec == MCInit /\ [][MCNext]_allVars
=============================================================================
