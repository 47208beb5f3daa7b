------------------------------ MODULE RcvQueue ------------------------------
(***************************************************************************)
(* The receiving worker and its lists: the new connections that other       *)
(* threads leave in m_vNewEntry, CRcvUList in the order in which its        *)
(* sockets were last served, and CHash, which finds the socket of a packet. *)
(* A socket that nobody writes to has its timers checked by the worker      *)
(* alone, and one that broke is taken off the lists there.                  *)
(***************************************************************************)
EXTENDS Integers, Sequences, SequencesExt

CONSTANTS Ids,         \* the sockets, by m_SocketID
          HashSize,    \* m_iHashSize
          Interval,    \* a socket not served for longer is (0.1 s)
          MaxClock     \* the clock stops here

ASSUME RcvQueueAssumption ==
  /\ Ids \subseteq Nat
  /\ HashSize \in Nat \ {0} /\ Interval \in Nat \ {0} /\ MaxClock \in Nat \ {0}

VARIABLES
  clock,       \* CTimer::rdtsc
  sockState,   \* of each socket: new, up, dead (broken or closing)
  newEntry,    \* m_vNewEntry
  uList,       \* CRcvUList, from m_pUList to m_pLast
  stamp,       \* m_llTimeStamp
  bucket,      \* CHash
  onList,      \* m_bOnList
  rcvPc,       \* where the worker is: take, receive or check
  currTime     \* its currtime, read before the check

rqVars == <<clock, sockState, newEntry, uList, stamp, bucket, onList, rcvPc, currTime>>

RqInit ==
  /\ clock = 0 /\ sockState = [i \in Ids |-> "new"]
  /\ newEntry = <<>> /\ uList = <<>> /\ stamp = [i \in Ids |-> 0]
  /\ bucket = [h \in 0 .. HashSize - 1 |-> <<>>]
  /\ onList = [i \in Ids |-> FALSE] /\ rcvPc = "take" /\ currTime = 0

-----------------------------------------------------------------------------
(* The lists.                                                              *)

BucketOf(i) == i % HashSize
Found(i)    == Contains(bucket[BucketOf(i)], i)

(* A node is taken out where it is found.                                  *)
Without(l, i) ==
  IF Contains(l, i) THEN RemoveAt(l, CHOOSE n \in DOMAIN l : l[n] = i) ELSE l

HashInsert(i) == bucket' = [bucket EXCEPT ![BucketOf(i)] = <<i>> \o @]
HashRemove(i) == bucket' = [bucket EXCEPT ![BucketOf(i)] = Without(@, i)]

Dropped(i) == uList' = Without(uList, i)
Insert(i) ==
  /\ uList' = Append(uList, i)
  /\ stamp' = [stamp EXCEPT ![i] = clock]

UpdatedInPlace(l, i) == l
MovedToEnd(l, i) == IF i = Last(l) THEN l ELSE Append(Without(l, i), i)
Updated(l, i)    == MovedToEnd(l, i)

Update(i) ==
  /\ uList' = Updated(uList, i)
  /\ stamp' = [stamp EXCEPT ![i] = clock]

-----------------------------------------------------------------------------
(* The other threads: connect and newConnection, then a close, a shutdown   *)
(* or an expiration.                                                       *)

setNewEntry(i) ==
  /\ sockState[i] = "new"
  /\ sockState' = [sockState EXCEPT ![i] = "up"]
  /\ onList' = [onList EXCEPT ![i] = TRUE]
  /\ newEntry' = Append(newEntry, i)
  /\ UNCHANGED <<clock, uList, stamp, bucket, rcvPc, currTime>>

Break(i) ==
  /\ sockState[i] = "up"
  /\ sockState' = [sockState EXCEPT ![i] = "dead"]
  /\ UNCHANGED <<clock, newEntry, uList, stamp, bucket, onList, rcvPc, currTime>>

Tick ==
  /\ clock < MaxClock /\ clock' = clock + 1
  /\ UNCHANGED <<sockState, newEntry, uList, stamp, bucket, onList, rcvPc, currTime>>

-----------------------------------------------------------------------------
(* CRcvQueue::worker                                                       *)

TakeEntry ==
  /\ rcvPc = "take" /\ newEntry # <<>>
  /\ Insert(Head(newEntry)) /\ HashInsert(Head(newEntry))
  /\ newEntry' = Tail(newEntry)
  /\ UNCHANGED <<clock, sockState, onList, rcvPc, currTime>>

Taken ==
  /\ rcvPc = "take" /\ newEntry = <<>>
  /\ rcvPc' = "receive"
  /\ UNCHANGED <<clock, sockState, newEntry, uList, stamp, bucket, onList, currTime>>

(* A packet for i; its checkTimers may break the socket, see Break.         *)
Serve(i) ==
  /\ Found(i) /\ sockState[i] = "up"
  /\ Update(i)

(* A packet for nobody, none at all, or no unit to put one in.              *)
Pass == UNCHANGED <<uList, stamp>>

Receive ==
  /\ rcvPc = "receive"
  /\ Pass \/ \E i \in Ids : Serve(i)
  /\ rcvPc' = "check" /\ currTime' = clock
  /\ UNCHANGED <<clock, sockState, newEntry, bucket, onList>>

Overdue == uList # <<>> /\ stamp[Head(uList)] < currTime - Interval

Check ==
  LET i == Head(uList)
  IN  /\ rcvPc = "check" /\ Overdue
      /\ IF sockState[i] = "up"
           THEN Update(i) /\ UNCHANGED <<bucket, onList>>
           ELSE /\ HashRemove(i)
                /\ Dropped(i)
                /\ onList' = [onList EXCEPT ![i] = FALSE]
                /\ UNCHANGED stamp
      /\ UNCHANGED <<clock, sockState, newEntry, rcvPc, currTime>>

Checked ==
  /\ rcvPc = "check" /\ ~Overdue
  /\ rcvPc' = "take"
  /\ UNCHANGED <<clock, sockState, newEntry, uList, stamp, bucket, onList, currTime>>

RqNext ==
  \/ \E i \in Ids : setNewEntry(i) \/ Break(i)
  \/ Tick \/ TakeEntry \/ Taken \/ Receive \/ Check \/ Checked

RqSpec == RqInit /\ [][RqNext]_rqVars

-----------------------------------------------------------------------------
(* The check stops at the first socket that is not overdue: still, after a  *)
(* round none is, so that every timer runs and every broken socket leaves.  *)
(* What the garbage collector goes by before it frees a socket, m_bOnList,  *)
(* is true as long as the worker can reach it; and a packet finds just the  *)
(* sockets on the list.                                                    *)
ListServed ==
  /\ rcvPc # "check" => \A i \in ToSet(uList) : stamp[i] >= currTime - Interval
  /\ \A i \in Ids : onList[i] <=> Contains(newEntry \o uList, i)
  /\ \A i \in Ids : Found(i) <=> Contains(uList, i)
=============================================================================
