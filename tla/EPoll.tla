-------------------------------- MODULE EPoll --------------------------------
(***************************************************************************)
(* CEPoll with one poll and one UDT socket, whose two directions are told   *)
(* apart: IN is ready while the receive buffer holds data, OUT while the    *)
(* send buffer has room.  recv and send take from a direction, test it and  *)
(* then clear its event; the receiving worker gives to it (an ACK sent or   *)
(* received) and then sets its event; a third thread adds and removes the   *)
(* socket.  Each step under m_EPollLock, and each test without it, is an    *)
(* action.                                                                 *)
(*                                                                         *)
(* Nothing enters m_sUDTSocksEx, so an UDT_EPOLL_ERR never reaches the      *)
(* exceptions that wait() reports, and they are left out.                   *)
(***************************************************************************)
EXTENDS Naturals

CONSTANT Room        \* how much a direction holds

ASSUME EPollAssumption == Room \in Nat \ {0}

Dirs == {"IN", "OUT"}

VARIABLES
  pollOpen,  \* the poll is in m_mPolls
  watch,     \* the directions whose m_sUDTSocksIn/Out holds the socket
  result,    \* those whose m_sUDTReads/Writes does: what wait() reports
  polled,    \* m_sPollID of the socket holds the poll
  level,     \* data in the receive buffer, room in the send buffer
  taker,     \* per direction: idle, test or clear (recv, send)
  giver,     \* per direction: idle or set (the worker)
  third,     \* epoll_add_usock and epoll_remove_usock: idle or the next step
  sock,      \* up, expiring, expired, shutdown or closed
  lost       \* history, per direction: the event was set after the taker's
             \* test, or a broken socket's was cleared, or it joined broken

epVars == <<pollOpen, watch, result, polled, level, taker, giver, third, sock, lost>>

EpInit ==
  /\ pollOpen = TRUE /\ watch = {} /\ result = {} /\ polled = FALSE
  /\ level = [d \in Dirs |-> IF d = "OUT" THEN Room ELSE 0]
  /\ taker = [d \in Dirs |-> "idle"] /\ giver = [d \in Dirs |-> "idle"]
  /\ third = "idle" /\ sock = "up" /\ lost = [d \in Dirs |-> FALSE]

-----------------------------------------------------------------------------
(* update_events: only what is watched can be set, and a poll that is gone  *)
(* leaves m_sPollID.                                                       *)

SetEvents(ds) ==
  /\ result' = IF polled /\ pollOpen THEN result \cup (ds \cap watch) ELSE result
  /\ lost' = [d \in Dirs |-> IF d \in ds THEN taker[d] = "clear" ELSE lost[d]]
  /\ polled' = (polled /\ pollOpen)

ClearEvents(ds) ==
  /\ result' = IF polled /\ pollOpen THEN result \ ds ELSE result
  /\ polled' = (polled /\ pollOpen)

(* recv, recvfile, recvmsg and send, sendmsg, sendfile.                     *)
MayTake(d) ==
  /\ level[d] > 0
  /\ \/ sock = "up"
     \/ d = "IN" /\ sock \in {"expiring", "expired", "shutdown"}

Take(d) ==
  /\ taker[d] = "idle" /\ MayTake(d)
  /\ \E left \in 0 .. level[d] - 1 : level' = [level EXCEPT ![d] = left]
  /\ taker' = [taker EXCEPT ![d] = "test"]
  /\ UNCHANGED <<pollOpen, watch, result, polled, giver, third, sock, lost>>

Test(d) ==
  /\ taker[d] = "test"
  /\ taker' = [taker EXCEPT ![d] = IF level[d] = 0 THEN "clear" ELSE "idle"]
  /\ UNCHANGED <<pollOpen, watch, result, polled, level, giver, third, sock, lost>>

Clear(d) ==
  /\ taker[d] = "clear"
  /\ taker' = [taker EXCEPT ![d] = "idle"]
  /\ ClearEvents({d})
  /\ lost' = [lost EXCEPT ![d] = @ \/ sock = "expired"]
  /\ UNCHANGED <<pollOpen, watch, level, giver, third, sock>>

(* The worker: sendCtrl's ackData for IN, an ACK's ackData for OUT.         *)
Give(d) ==
  /\ giver[d] = "idle" /\ level[d] < Room /\ sock = "up"
  /\ \A e \in Dirs : giver[e] = "idle"
  /\ \E more \in level[d] + 1 .. Room : level' = [level EXCEPT ![d] = more]
  /\ giver' = [giver EXCEPT ![d] = "set"]
  /\ UNCHANGED <<pollOpen, watch, result, polled, taker, third, sock, lost>>

Given(d) ==
  /\ giver[d] = "set"
  /\ giver' = [giver EXCEPT ![d] = "idle"]
  /\ SetEvents({d})
  /\ UNCHANGED <<pollOpen, watch, level, taker, third, sock>>

(* Too many expirations break the connection and tell every poll; a         *)
(* shutdown from the peer breaks it and tells none.                        *)
Expire ==
  /\ sock = "up" /\ \A d \in Dirs : giver[d] = "idle"
  /\ sock' = "expiring"
  /\ UNCHANGED <<pollOpen, watch, result, polled, level, taker, giver, third, lost>>
Expired ==
  /\ sock = "expiring"
  /\ sock' = "expired"
  /\ SetEvents(Dirs)
  /\ UNCHANGED <<pollOpen, watch, level, taker, giver, third>>

Shutdown ==
  /\ sock = "up" /\ \A d \in Dirs : giver[d] = "idle"
  /\ sock' = "shutdown"
  /\ UNCHANGED <<pollOpen, watch, result, polled, level, taker, giver, third, lost>>

(* CUDT::close: remove_usock for every poll, but their results stay; not    *)
(* during the worker's report of an expiration.                            *)
Close ==
  /\ sock # "closed" /\ sock # "expiring"
  /\ sock' = "closed"
  /\ watch' = IF polled THEN {} ELSE watch
  /\ polled' = (polled /\ pollOpen)
  /\ UNCHANGED <<pollOpen, result, level, taker, giver, third, lost>>

-----------------------------------------------------------------------------
(* epoll_add_usock: watch, then addEPoll: join, and tell what is ready.     *)

Add(events) ==
  /\ third = "idle" /\ pollOpen /\ sock # "closed"
  /\ watch' = watch \cup events
  /\ third' = "join"
  /\ UNCHANGED <<pollOpen, result, polled, level, taker, giver, sock, lost>>

JoinAsIs == third = "join" /\ polled' = TRUE /\ third' = "idle"
JoinAndTest ==
  /\ third = "join" /\ polled' = TRUE
  /\ third' = IF sock = "up" THEN "test_IN" ELSE "idle"
JoinPoll == JoinAndTest
Join ==
  /\ JoinPoll
  /\ lost' = [d \in Dirs |-> lost[d] \/ sock = "expired"]
  /\ UNCHANGED <<pollOpen, watch, result, level, taker, giver, sock>>

Testing  == [IN |-> "test_IN", OUT |-> "test_OUT"]
Setting  == [IN |-> "set_IN", OUT |-> "set_OUT"]
After(d) == IF d = "IN" THEN "test_OUT" ELSE "idle"
TestReady(d) ==
  /\ third = Testing[d]
  /\ third' = IF level[d] > 0 THEN Setting[d] ELSE After(d)
  /\ UNCHANGED <<pollOpen, watch, result, polled, level, taker, giver, sock, lost>>
SetReady(d) ==
  /\ third = Setting[d]
  /\ third' = After(d)
  /\ SetEvents({d})
  /\ UNCHANGED <<pollOpen, watch, level, taker, giver, sock>>

(* epoll_remove_usock; locate does not find a socket once it is deleted.    *)
RemoveUsock ==
  /\ third = "idle" /\ pollOpen
  /\ watch' = {}
  /\ third' \in IF sock = "closed" THEN {"forget", "idle"} ELSE {"forget"}
  /\ UNCHANGED <<pollOpen, result, polled, level, taker, giver, sock, lost>>

ForgetEvents == result' = IF pollOpen THEN {} ELSE result
Forget ==
  /\ third = "forget"
  /\ ForgetEvents
  /\ third' = "leave"
  /\ UNCHANGED <<pollOpen, watch, polled, level, taker, giver, sock, lost>>
Leave ==
  /\ third = "leave"
  /\ polled' = FALSE
  /\ third' = "idle"
  /\ UNCHANGED <<pollOpen, watch, result, level, taker, giver, sock, lost>>

release ==
  /\ third = "idle" /\ pollOpen
  /\ pollOpen' = FALSE /\ watch' = {} /\ result' = {}
  /\ UNCHANGED <<polled, level, taker, giver, third, sock, lost>>

-----------------------------------------------------------------------------
EpNext ==
  \/ \E d \in Dirs : \/ Take(d) \/ Test(d) \/ Clear(d) \/ Give(d) \/ Given(d)
                     \/ TestReady(d) \/ SetReady(d)
  \/ Expire \/ Expired \/ Shutdown \/ Close
  \/ \E events \in SUBSET Dirs \ {{}} : Add(events)
  \/ Join \/ RemoveUsock \/ Forget \/ Leave \/ release

EpSpec == EpInit /\ [][EpNext]_epVars

-----------------------------------------------------------------------------
Settled(d) == third = "idle" /\ taker[d] = "idle" /\ giver[d] = "idle"

(* What select and selectEx, which look at the socket itself, would report. *)
SelectSays(d) == level[d] > 0 \/ sock # "up"

(* What is watched and select would report, epoll reports when no call is   *)
(* under way; except that the event was set between a call's test and its   *)
(* clear, that a broken connection's event was cleared by reading the last  *)
(* data or never set since it was added too late, and that a shutdown by    *)
(* the peer is told to no poll.  What is not watched is not reported;       *)
(* except for a closed socket.                                             *)
EventsAgree ==
  /\ \A d \in watch :
       Settled(d) /\ SelectSays(d) =>
         d \in result \/ lost[d] \/ sock \in {"expiring", "shutdown", "closed"}
  /\ third = "idle" /\ sock # "closed" => result \subseteq watch
=============================================================================
