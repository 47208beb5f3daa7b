-------------------------- MODULE SocketLifecycle --------------------------
(***************************************************************************)
(* The life of the sockets of one process (CUDTUnited): the application's   *)
(* calls, the garbage collector, and the receiving worker of every          *)
(* multiplexer, which creates sockets for a listener and completes          *)
(* asynchronous connects.  What is at stake is who may still hold a CUDT    *)
(* when the collector deletes it.                                          *)
(*                                                                         *)
(* Sockets are numbered as they are made; a multiplexer has the number of   *)
(* the socket it was made for (m_iID), as in updateMux.                     *)
(***************************************************************************)
EXTENDS Integers, FiniteSets

CONSTANTS MaxSockets,    \* how many sockets are ever made (a bound)
          MaxOwn,        \* how many of them the application makes (a bound)
          Clients,       \* which of them it may connect (a bound)
          Backlog,       \* m_uiBackLog
          AsyncSend,     \* whether close() may find m_bSynSending cleared
          LateRequests   \* whether connection requests still arrive when a
                         \* closed listener's extra 3 seconds are over

ASSUME LifecycleAssumption ==
  /\ MaxSockets \in Nat \ {0} /\ MaxOwn \in Nat \ {0} /\ Backlog \in Nat \ {0}
  /\ Clients \subseteq Nat /\ AsyncSend \in BOOLEAN /\ LateRequests \in BOOLEAN

Sockets == 1 .. MaxSockets
None == 0

VARIABLES
  made,        \* sockets made so far
  where,       \* "none", "new" (in newConnection), "live" (m_Sockets),
               \* "closed" (m_ClosedSockets) or "freed"
  status,      \* m_Status
  flags,       \* the flags m_bOpened, ..., m_bBroken that are set
  aged,        \* sockets whose removal timer (from m_TimeStamp) is over
  linger,      \* sockets with m_ullLingerExpiration set
  sndData,     \* sockets with data in the send buffer
  call,        \* where the close() that holds the socket's lock is
  acceptPc,    \* where the accept() on a listener is
  queued,      \* m_pQueuedSockets
  listenSocket,
  mux, refCount, \* m_iMuxID, and m_iRefCount of each multiplexer
  listener,    \* m_pListener of each multiplexer
  connectors,  \* sockets in a rendezvous queue
  newEntry, ulist, \* sockets in m_vNewEntry, and on m_pRcvUList and m_pHash
  onList,      \* sockets with m_pRNode->m_bOnList
  sndList,     \* sockets on a CSndUList
  worker,      \* per multiplexer: where its receiving worker is
  gc,          \* where the collector is, and the sockets it has to remove
  aborted,     \* an exception left a function declared throw()
  lingered     \* history: sockets whose linger ran out with data left

sockVars == <<made, where, status, flags, aged, linger, sndData, listenSocket>>
appVars  == <<call, acceptPc, queued>>
muxVars  == <<mux, refCount, listener, connectors>>
listVars == <<newEntry, ulist, onList, sndList>>
histVars == <<aborted, lingered>>
vars == <<sockVars, appVars, muxVars, listVars, histVars, worker, gc>>

Idle == [pc |-> "idle", sock |-> None, new |-> None]
Resting == [pc |-> "idle", todo |-> {}, mux |-> None]

Init ==
  /\ made = 0
  /\ where = [s \in Sockets |-> "none"] /\ status = [s \in Sockets |-> "INIT"]
  /\ flags = [s \in Sockets |-> {}]
  /\ aged = {} /\ linger = {} /\ sndData = {}
  /\ call = [s \in Sockets |-> "none"] /\ acceptPc = [s \in Sockets |-> "none"]
  /\ queued = [s \in Sockets |-> {}] /\ listenSocket = [s \in Sockets |-> None]
  /\ mux = [s \in Sockets |-> None] /\ refCount = [m \in Sockets |-> 0]
  /\ listener = [m \in Sockets |-> None] /\ connectors = {}
  /\ newEntry = {} /\ ulist = {} /\ onList = {} /\ sndList = {}
  /\ worker = [m \in Sockets |-> Idle] /\ gc = Resting
  /\ aborted = FALSE /\ lingered = {}

-----------------------------------------------------------------------------
(* m_ControlLock is held across steps by the collector only; everyone else  *)
(* takes it for one step (locate, updateMux, an insertion) and waits here.  *)
ControlFree == gc.pc = "idle"

Located(s) == where[s] = "live" /\ status[s] # "CLOSED"
On(s, f)   == f \in flags[s]
Working(s) == On(s, "connected") /\ ~On(s, "broken") /\ ~On(s, "closing")

(* A worker between two packets, which is not being joined.                 *)
Ready(m) == m # None /\ refCount[m] > 0 /\ worker[m].pc = "idle" /\ gc.mux # m

-----------------------------------------------------------------------------
(* The application: socket, bind, listen, accept, connect, send.            *)

(* The application has the number of a socket it made or accepted, and one  *)
(* thread at a time calls close() or the like on it.                       *)
Callable(s) ==
  /\ ControlFree /\ Located(s) /\ call[s] = "none"
  /\ \A l \in Sockets : s \notin queued[l] /\ worker[l].new # s

NewSocket ==
  /\ ControlFree /\ made < MaxSockets
  /\ Cardinality({s \in 1 .. made : listenSocket[s] = None}) < MaxOwn
  /\ made' = made + 1
  /\ where' = [where EXCEPT ![made'] = "live"]
  /\ UNCHANGED <<status, flags, aged, linger, sndData, listenSocket, appVars,
                 muxVars, listVars, histVars, worker, gc>>

(* updateMux: the multiplexer of the port if it may be shared, or a new one. *)
JoinUncounted(s, m) == mux' = [mux EXCEPT ![s] = m] /\ UNCHANGED refCount
JoinMux(s, m) == mux' = [mux EXCEPT ![s] = m] /\ refCount' = [refCount EXCEPT ![m] = @ + 1]
AnyMux(s) == {s} \cup {m \in Sockets : refCount[m] > 0}

Bind(s) ==
  /\ Callable(s) /\ status[s] = "INIT"
  /\ \E m \in AnyMux(s) : JoinMux(s, m)
  /\ flags' = [flags EXCEPT ![s] = @ \cup {"opened"}]
  /\ status' = [status EXCEPT ![s] = "OPENED"]
  /\ UNCHANGED <<made, where, aged, linger, sndData, listenSocket, appVars, listener,
                 connectors, listVars, histVars, worker, gc>>

(* A port has one listener: setListener refuses a second one.               *)
setListener(s) ==
  /\ listener[mux[s]] = None
  /\ listener' = [listener EXCEPT ![mux[s]] = s]

removeListener(s) ==
  listener' = [m \in Sockets |-> IF listener[m] = s THEN None ELSE listener[m]]

listen(s) ==
  /\ setListener(s)
  /\ flags' = [flags EXCEPT ![s] = @ \cup {"listening"}]

Listen(s) ==
  /\ Callable(s) /\ status[s] = "OPENED"
  /\ listen(s)
  /\ status' = [status EXCEPT ![s] = "LISTENING"]
  /\ UNCHANGED <<made, where, aged, linger, sndData, listenSocket, appVars, mux, refCount,
                 connectors, listVars, histVars, worker, gc>>

(* accept() on a listener that is already broken throws and changes nothing. *)
AcceptBegin(l) ==
  /\ Callable(l) /\ status[l] = "LISTENING" /\ ~On(l, "broken") /\ acceptPc[l] = "none"
  /\ acceptPc' = [acceptPc EXCEPT ![l] = "check"]
  /\ UNCHANGED <<sockVars, call, queued, muxVars, listVars, histVars, worker, gc>>

(* One turn of accept's loop under m_AcceptLock.                           *)
AcceptTurn(l) ==
  /\ acceptPc[l] = "check"
  /\ \/ /\ status[l] # "LISTENING" \/ On(l, "broken")
        /\ acceptPc' = [acceptPc EXCEPT ![l] = "none"]
        /\ UNCHANGED queued
     \/ /\ status[l] = "LISTENING" /\ ~On(l, "broken")
        /\ \E a \in queued[l] : queued' = [queued EXCEPT ![l] = @ \ {a}]
        /\ acceptPc' = [acceptPc EXCEPT ![l] = "none"]
     \/ /\ status[l] = "LISTENING" /\ ~On(l, "broken") /\ queued[l] = {}
        /\ acceptPc' = [acceptPc EXCEPT ![l] = "wait"]
        /\ UNCHANGED queued
  /\ UNCHANGED <<sockVars, call, muxVars, listVars, histVars, worker, gc>>

(* m_AcceptCond: a thread that waits takes another turn.                    *)
NotWoken(l) == acceptPc[l]
Woken(l)    == IF acceptPc[l] = "wait" THEN "check" ELSE acceptPc[l]

(* An asynchronous connect: it registers with the worker and returns.       *)
Connect(s) ==
  /\ Callable(s) /\ s \in Clients
  /\ \/ status[s] = "INIT" /\ JoinMux(s, s)
     \/ status[s] = "OPENED" /\ UNCHANGED <<mux, refCount>>
  /\ flags' = [flags EXCEPT ![s] = @ \cup {"opened", "connecting"}]
  /\ status' = [status EXCEPT ![s] = "CONNECTING"]
  /\ connectors' = connectors \cup {s}
  /\ UNCHANGED <<made, where, aged, linger, sndData, listenSocket, appVars, listener,
                 listVars, histVars, worker, gc>>

Send(s) ==
  /\ Callable(s) /\ Working(s)
  /\ sndData' = sndData \cup {s}
  /\ sndList' = sndList \cup {s}
  /\ UNCHANGED <<made, where, status, flags, aged, linger, listenSocket, appVars,
                 muxVars, newEntry, ulist, onList, histVars, worker, gc>>

-----------------------------------------------------------------------------
(* close().  A listener is only marked: the collector does the rest.        *)

CloseListener(l) ==
  /\ Callable(l)
  /\ status[l] = "LISTENING" /\ ~On(l, "broken")
  /\ flags' = [flags EXCEPT ![l] = @ \cup {"broken"}]
  /\ aged' = aged \ {l}
  /\ acceptPc' = [acceptPc EXCEPT ![l] = Woken(l)]
  /\ UNCHANGED <<made, where, status, linger, sndData, listenSocket, call, queued,
                 muxVars, listVars, histVars, worker, gc>>

CloseBegin(s) ==
  /\ Callable(s) /\ status[s] # "LISTENING"
  /\ call' = [call EXCEPT ![s] = IF On(s, "opened") THEN "linger" ELSE "move"]
  /\ UNCHANGED <<sockVars, acceptPc, queued, muxVars, listVars, histVars, worker, gc>>

(* CUDT::close: with data left and asynchronous sending the rest is left to *)
(* the collector; a blocking close goes on when the data or the time is out. *)
Unsent(s) == On(s, "connected") /\ ~On(s, "broken") /\ s \in sndData

CloseLinger(s) ==
  /\ call[s] = "linger"
  /\ \/ /\ AsyncSend /\ Unsent(s)
        /\ linger' = linger \cup {s}
        /\ call' = [call EXCEPT ![s] = "move"]
     \/ /\ call' = [call EXCEPT ![s] = "stop"]
        /\ UNCHANGED linger
  /\ UNCHANGED <<made, where, status, flags, aged, sndData, listenSocket, acceptPc,
                 queued, muxVars, listVars, histVars, worker, gc>>

CloseStop(s) ==
  /\ call[s] = "stop"
  /\ sndList' = IF On(s, "connected") THEN sndList \ {s} ELSE sndList
  /\ flags' = [flags EXCEPT ![s] = @ \cup {"closing"}]
  /\ call' = [call EXCEPT ![s] = "unlink"]
  /\ UNCHANGED <<made, where, status, aged, linger, sndData, listenSocket, acceptPc,
                 queued, muxVars, newEntry, ulist, onList, histVars, worker, gc>>

(* The part under m_ConnectionLock; m_bConnecting stays as it is.           *)
CloseUnlink(s) ==
  /\ call[s] = "unlink"
  /\ connectors' = IF On(s, "connecting") THEN connectors \ {s} ELSE connectors
  /\ flags' = [flags EXCEPT ![s] = @ \ {"connected", "opened"}]
  /\ call' = [call EXCEPT ![s] = "move"]
  /\ UNCHANGED <<made, where, status, aged, linger, sndData, listenSocket, acceptPc,
                 queued, mux, refCount, listener, listVars, histVars, worker, gc>>

CloseMove(s) ==
  /\ ControlFree /\ call[s] = "move"
  /\ call' = [call EXCEPT ![s] = "none"]
  /\ IF Located(s)
       THEN /\ where' = [where EXCEPT ![s] = "closed"]
            /\ status' = [status EXCEPT ![s] = "CLOSED"]
            /\ aged' = aged \ {s}
       ELSE UNCHANGED <<where, status, aged>>
  /\ UNCHANGED <<made, flags, linger, sndData, listenSocket, acceptPc, queued,
                 muxVars, listVars, histVars, worker, gc>>

-----------------------------------------------------------------------------
(* The receiving worker: a connection request for the listener.            *)

Late(l) == l \in aged \/ where[l] # "live"

Request(m) ==
  /\ Ready(m) /\ listener[m] # None
  /\ Late(listener[m]) => LateRequests
  /\ worker' = [worker EXCEPT ![m] = [Idle EXCEPT !.pc = "listen", !.sock = listener[m]]]
  /\ UNCHANGED <<sockVars, appVars, muxVars, listVars, histVars, gc>>

(* newConnection.  A repeated request whose connection is broken by now     *)
(* closes that one first; the request of a live one gets the old answer.    *)
Superseded(l, a) == where[a] = "live" /\ listenSocket[a] = l /\ On(a, "broken")

NewConnection(m) ==
  LET l == worker[m].sock
      Open(old) ==
        /\ status' = [s \in Sockets |-> IF s \in old THEN "CLOSED" ELSE status[s]]
        /\ aged' = aged \ old
        /\ queued' = [queued EXCEPT ![l] = @ \ old]
        /\ IF made < MaxSockets /\ Cardinality(queued[l] \ old) < Backlog
             THEN /\ made' = made + 1
                  /\ where' = [where EXCEPT ![made'] = "new"]
                  /\ listenSocket' = [listenSocket EXCEPT ![made'] = l]
                  /\ worker' = [worker EXCEPT ![m].pc = "mux", ![m].new = made']
             ELSE /\ worker' = [worker EXCEPT ![m] = Idle]
                  /\ UNCHANGED <<made, where, listenSocket>>
  IN  /\ worker[m].pc = "listen" /\ ControlFree
      /\ \/ Located(l) /\ Open({})
         \/ Located(l) /\ \E a \in Sockets : Superseded(l, a) /\ Open({a})
         \/ /\ ~Located(l) \/ \E a \in Sockets : where[a] = "live" /\ listenSocket[a] = l /\ ~On(a, "broken")
            /\ worker' = [worker EXCEPT ![m] = Idle]
            /\ UNCHANGED <<made, where, status, aged, listenSocket, queued>>
      /\ UNCHANGED <<flags, linger, sndData, call, acceptPc, muxVars, listVars, histVars, gc>>

(* m_bOnList is set before the worker can find the socket in m_vNewEntry.   *)
Unlisted(s) == newEntry' = newEntry \cup {s} /\ UNCHANGED onList
Listed(s)   == onList' = onList \cup {s} /\ newEntry' = newEntry \cup {s}

NewMux(m) ==
  LET a == worker[m].new
  IN  /\ worker[m].pc = "mux" /\ ControlFree
      /\ JoinMux(a, m)
      /\ flags' = [flags EXCEPT ![a] = {"opened", "connected"}]
      /\ status' = [status EXCEPT ![a] = "CONNECTED"]
      /\ Listed(a)
      /\ worker' = [worker EXCEPT ![m].pc = "insert"]
      /\ UNCHANGED <<made, where, aged, linger, sndData, listenSocket, appVars, listener,
                     connectors, ulist, sndList, histVars, gc>>

NewInsert(m) ==
  /\ worker[m].pc = "insert" /\ ControlFree
  /\ where' = [where EXCEPT ![worker[m].new] = "live"]
  /\ worker' = [worker EXCEPT ![m].pc = "queue"]
  /\ UNCHANGED <<made, status, flags, aged, linger, sndData, listenSocket, appVars,
                 muxVars, listVars, histVars, gc>>

NewQueue(m) ==
  LET l == worker[m].sock
  IN  /\ worker[m].pc = "queue"
      /\ queued' = [queued EXCEPT ![l] = @ \cup {worker[m].new}]
      /\ acceptPc' = [acceptPc EXCEPT ![l] = Woken(l)]
      /\ worker' = [worker EXCEPT ![m] = Idle]
      /\ UNCHANGED <<sockVars, call, muxVars, listVars, histVars, gc>>

(* ... and the answer to an asynchronous connect.  retrieve finds the       *)
(* socket in the rendezvous queue; connect(response) is declared throw().   *)
Response(c) ==
  /\ c \in connectors /\ Ready(mux[c])
  /\ worker' = [worker EXCEPT ![mux[c]] = [Idle EXCEPT !.pc = "connect", !.sock = c]]
  /\ UNCHANGED <<sockVars, appVars, muxVars, listVars, histVars, gc>>

PostConnect(m) ==
  LET c == worker[m].sock
  IN  /\ worker[m].pc = "connect"
      /\ IF On(c, "connecting")
           THEN /\ connectors' = connectors \ {c}
                /\ flags' = [flags EXCEPT ![c] = (@ \ {"connecting"}) \cup {"connected"}]
                /\ Listed(c)
                /\ worker' = [worker EXCEPT ![m].pc = "complete"]
           ELSE /\ worker' = [worker EXCEPT ![m] = Idle]
                /\ UNCHANGED <<connectors, flags, newEntry, onList>>
      /\ UNCHANGED <<made, where, status, aged, linger, sndData, listenSocket, appVars,
                     mux, refCount, listener, ulist, sndList, histVars, gc>>

ConnectComplete(m) ==
  LET c == worker[m].sock
  IN  /\ worker[m].pc = "complete" /\ ControlFree
      /\ IF Located(c)
           THEN status' = [status EXCEPT ![c] = "CONNECTED"] /\ UNCHANGED aborted
           ELSE aborted' = TRUE /\ UNCHANGED status
      /\ worker' = [worker EXCEPT ![m] = Idle]
      /\ UNCHANGED <<made, where, flags, aged, linger, sndData, listenSocket, appVars,
                     muxVars, listVars, lingered, gc>>

(* updateConnStatus: the 3 seconds of a connect are over.                  *)
Expire(c) ==
  /\ c \in connectors /\ Ready(mux[c]) /\ On(c, "connecting")
  /\ flags' = [flags EXCEPT ![c] = @ \ {"connecting"}]
  /\ UNCHANGED <<made, where, status, aged, linger, sndData, listenSocket, appVars,
                 muxVars, listVars, histVars, worker, gc>>

(* The worker's lists: new sockets are put on, dead ones taken off.         *)
TakeEntry(s) ==
  /\ s \in newEntry /\ Ready(mux[s])
  /\ newEntry' = newEntry \ {s}
  /\ ulist' = ulist \cup {s}
  /\ UNCHANGED <<sockVars, appVars, muxVars, onList, sndList, histVars, worker, gc>>

DropDead(s) ==
  /\ s \in ulist /\ Ready(mux[s]) /\ ~Working(s)
  /\ ulist' = ulist \ {s}
  /\ onList' = onList \ {s}
  /\ UNCHANGED <<sockVars, appVars, muxVars, newEntry, sndList, histVars, worker, gc>>

(* A shutdown from the peer, or its silence, breaks a connection.           *)
Break(s) ==
  /\ s \in ulist /\ Ready(mux[s]) /\ Working(s)
  /\ flags' = [flags EXCEPT ![s] = @ \cup {"closing", "broken"}]
  /\ UNCHANGED <<made, where, status, aged, linger, sndData, listenSocket, appVars,
                 muxVars, listVars, histVars, worker, gc>>

(* An ACK may free all the data, and puts the socket on the sending list.   *)
Ack(s) ==
  /\ s \in ulist /\ Ready(mux[s]) /\ Working(s) /\ s \in sndData
  /\ sndData' = sndData \ {s}
  /\ sndList' = sndList \cup {s}
  /\ UNCHANGED <<made, where, status, flags, aged, linger, listenSocket, appVars,
                 muxVars, newEntry, ulist, onList, histVars, worker, gc>>

(* The sending worker finds nothing to send for the socket it popped.       *)
SndPop(s) ==
  /\ s \in sndList
  /\ sndList' = sndList \ {s}
  /\ UNCHANGED <<sockVars, appVars, muxVars, newEntry, ulist, onList, histVars, worker, gc>>

-----------------------------------------------------------------------------
(* Time.  A removal timer runs out when no thread is still in a call that   *)
(* found the socket before (that is what the second is for), and when the   *)
(* sending worker has popped a socket it will not put back: pop looks at    *)
(* m_bConnected and m_bBroken only, so one with data left stays.           *)
Untouched(s) ==
  /\ call[s] = "none" /\ acceptPc[s] = "none"
  /\ \A m \in Sockets : worker[m].sock # s /\ worker[m].new # s
  /\ s \in sndList => Unsent(s)

Age(s) ==
  /\ s \notin aged /\ Untouched(s)
  /\ where[s] = "closed" \/ (where[s] = "live" /\ status[s] = "LISTENING" /\ On(s, "broken"))
  /\ aged' = aged \cup {s}
  /\ UNCHANGED <<made, where, status, flags, linger, sndData, listenSocket, appVars,
                 muxVars, listVars, histVars, worker, gc>>

-----------------------------------------------------------------------------
(* The garbage collector.  One pass of checkBrokenSockets up to the removal *)
(* of sockets; `over` are the lingers whose time is out.  A broken socket   *)
(* with unread data may be left for m_iBrokenCounter passes more: not here. *)

DoomedConnections == {s \in Sockets : where[s] = "live" /\ On(s, "broken") /\ status[s] # "LISTENING"}
Doomed == {s \in Sockets : /\ where[s] = "live" /\ On(s, "broken")
                           /\ status[s] = "LISTENING" => s \in aged}

RemovableAny(s) == TRUE
Removable(s)    == s \notin onList

AllQueued(l)    == queued[l]
StillQueued(l)  == queued[l] \ Doomed

CheckBroken(over) ==
  LET closed == Doomed \cup {s \in Sockets : where[s] = "closed"}
      ended  == {s \in closed \cap linger : s \notin sndData \/ s \in over}
      fresh  == aged \ (Doomed \cup ended)
      tbr    == {s \in closed \cap fresh : Removable(s)}
  IN  /\ gc.pc = "idle"
      /\ where' = [s \in Sockets |-> IF s \in Doomed THEN "closed" ELSE where[s]]
      /\ status' = [s \in Sockets |-> IF s \in Doomed THEN "CLOSED" ELSE status[s]]
      /\ queued' = [l \in Sockets |-> StillQueued(l)]
      /\ flags' = [s \in Sockets |-> IF s \in ended THEN flags[s] \cup {"closing"} ELSE flags[s]]
      /\ aged' = fresh
      /\ linger' = linger \ ended
      /\ lingered' = lingered \cup (ended \cap sndData)
      /\ gc' = IF tbr = {} THEN Resting ELSE [Resting EXCEPT !.pc = "remove", !.todo = tbr]
      /\ UNCHANGED <<made, sndData, listenSocket, call, acceptPc, muxVars, listVars,
                     aborted, worker>>

(* What CUDT::close does to a set of sockets when the collector calls it:   *)
(* one with asynchronous sending and data left returns early once more.     *)
Returns(s) == ~On(s, "opened") \/ (AsyncSend /\ Unsent(s))

removeSocket(s) ==
  LET q     == queued[s]
      ends  == q \cup (IF Returns(s) THEN {} ELSE {s})
      last  == mux[s] # None /\ refCount[mux[s]] = 1
      todo  == gc.todo \ {s}
  IN  /\ gc.pc = "remove" /\ s \in gc.todo
      /\ where' = [x \in Sockets |-> IF x = s THEN "freed"
                                     ELSE IF x \in q THEN "closed" ELSE where[x]]
      /\ status' = [x \in Sockets |-> IF x \in q THEN "CLOSED" ELSE status[x]]
      /\ flags' = [x \in Sockets |->
                     IF x = s THEN flags[x] \cap {"connecting"}
                     ELSE IF x \in ends
                       THEN (flags[x] \cup {"closing"} \cup (IF x \in q THEN {"broken"} ELSE {}))
                              \ {"opened", "connected", "listening"}
                       ELSE flags[x]]
      /\ aged' = aged \ (q \cup {s})
      /\ linger' = linger \ {s}
      /\ queued' = [queued EXCEPT ![s] = {}]
      /\ sndList' = sndList \ {x \in ends : On(x, "connected")}
      /\ connectors' = IF s \in ends /\ On(s, "connecting") THEN connectors \ {s} ELSE connectors
      /\ IF s \in ends THEN removeListener(s) ELSE UNCHANGED listener
      /\ refCount' = IF mux[s] = None THEN refCount ELSE [refCount EXCEPT ![mux[s]] = @ - 1]
      /\ gc' = IF last THEN [gc EXCEPT !.pc = "join", !.todo = todo, !.mux = mux[s]]
               ELSE IF todo = {} THEN Resting ELSE [gc EXCEPT !.todo = todo]
      /\ UNCHANGED <<made, sndData, listenSocket, call, acceptPc, mux,
                     newEntry, ulist, onList, histVars, worker>>

(* The last socket of a multiplexer is gone: ~CRcvQueue waits for the worker *)
(* to end, and its lists go with it.                                        *)
JoinWorker ==
  LET theirs == {s \in Sockets : mux[s] = gc.mux}
  IN  /\ gc.pc = "join" /\ worker[gc.mux].pc = "idle"
      /\ connectors' = connectors \ theirs
      /\ newEntry' = newEntry \ theirs
      /\ ulist' = ulist \ theirs
      /\ sndList' = sndList \ theirs
      /\ listener' = [listener EXCEPT ![gc.mux] = None]
      /\ gc' = IF gc.todo = {} THEN Resting ELSE [gc EXCEPT !.pc = "remove", !.mux = None]
      /\ UNCHANGED <<sockVars, appVars, mux, refCount, onList, histVars, worker>>

-----------------------------------------------------------------------------
Api(s) == Bind(s) \/ Listen(s) \/ AcceptBegin(s) \/ Connect(s) \/ Send(s)
            \/ CloseListener(s) \/ CloseBegin(s)
Closing(s) == CloseLinger(s) \/ CloseStop(s) \/ CloseUnlink(s) \/ CloseMove(s)
Serving(m) == NewConnection(m) \/ NewMux(m) \/ NewInsert(m) \/ NewQueue(m)
                \/ PostConnect(m) \/ ConnectComplete(m)
Listing(s) == TakeEntry(s) \/ DropDead(s)
Peer(s)    == Request(s) \/ Response(s) \/ Expire(s) \/ Break(s) \/ Ack(s)

Next ==
  /\ ~aborted
  /\ \/ NewSocket
     \/ \E s \in Sockets :
          \/ Api(s) \/ AcceptTurn(s) \/ Closing(s) \/ Serving(s) \/ Listing(s)
          \/ Peer(s) \/ SndPop(s) \/ Age(s) \/ removeSocket(s)
     \/ \E over \in SUBSET linger : CheckBroken(over)
     \/ JoinWorker

Spec == Init /\ [][Next]_vars

(* The collector and the workers loop for ever and a thread inside a call   *)
(* goes on.  A worker looks at its lists in every round and time passes     *)
(* whatever else happens: those two are strong.  Nothing is assumed of the  *)
(* application's calls, nor of what the peers send.                        *)
Fairness ==
  /\ \A s \in Sockets :
       /\ WF_vars(~aborted /\ (AcceptTurn(s) \/ Closing(s) \/ SndPop(s)))
       /\ WF_vars(~aborted /\ Serving(s))
       /\ SF_vars(~aborted /\ Listing(s))
       /\ SF_vars(~aborted /\ Age(s))
       /\ WF_vars(~aborted /\ removeSocket(s))
  /\ WF_vars(~aborted /\ CheckBroken(linger))
  /\ WF_vars(~aborted /\ JoinWorker)

LiveSpec == Spec /\ Fairness

-----------------------------------------------------------------------------
States == {"INIT", "OPENED", "LISTENING", "CONNECTING", "CONNECTED", "CLOSED"}
Flags  == {"opened", "listening", "connecting", "connected", "closing", "broken"}

(* Type invariant: sockets and threads are in one of the code's states.     *)
TypeOK ==
  /\ made \in 0 .. MaxSockets
  /\ where \in [Sockets -> {"none", "new", "live", "closed", "freed"}]
  /\ status \in [Sockets -> States] /\ flags \in [Sockets -> SUBSET Flags]
  /\ aged \subseteq Sockets /\ linger \subseteq Sockets /\ sndData \subseteq Sockets
  /\ call \in [Sockets -> {"none", "linger", "stop", "unlink", "move"}]
  /\ acceptPc \in [Sockets -> {"none", "check", "wait"}]
  /\ queued \in [Sockets -> SUBSET Sockets]
  /\ listenSocket \in [Sockets -> Sockets \cup {None}]
  /\ mux \in [Sockets -> Sockets \cup {None}] /\ refCount \in [Sockets -> 0 .. MaxSockets]
  /\ listener \in [Sockets -> Sockets \cup {None}] /\ connectors \subseteq Sockets
  /\ newEntry \subseteq Sockets /\ ulist \subseteq Sockets
  /\ onList \subseteq Sockets /\ sndList \subseteq Sockets
  /\ worker \in [Sockets ->
       [pc : {"idle", "listen", "mux", "insert", "queue", "connect", "complete"},
        sock : Sockets \cup {None}, new : Sockets \cup {None}]]
  /\ gc \in [pc : {"idle", "remove", "join"}, todo : SUBSET Sockets,
             mux : Sockets \cup {None}]
  /\ aborted \in BOOLEAN /\ lingered \subseteq Sockets

(* When the collector deletes a CUDT no list of a worker holds it, nor does *)
(* a worker: m_bOnList and the second of delay are all that sees to it.     *)
(* The two ways out that the code leaves open are named: a connect that     *)
(* updateConnStatus gave up stays in the rendezvous queue, because close()  *)
(* removes a socket from it only while m_bConnecting is set; and a linger   *)
(* that ran out with data left leaves the socket on the sending list,       *)
(* because the collector's own close() returns early as well.              *)
FreedUnused ==
  \A s \in Sockets : where[s] = "freed" =>
    /\ s \notin newEntry \cup ulist
    /\ s \in connectors => ~On(s, "connecting")
    /\ s \in sndList => s \in lingered
    /\ \A m \in Sockets :
         /\ listener[m] # s
         /\ worker[m].sock = s => worker[m].pc = "connect" /\ ~On(s, "connecting")
         /\ worker[m].new # s

(* The multiplexer of every socket that is not freed is there, and counts   *)
(* the sockets that use it: one too few and the queues are deleted under a  *)
(* socket, one too many and they are never deleted.                        *)
MuxCounted ==
  \A m \in Sockets :
    refCount[m] = Cardinality({s \in Sockets : mux[s] = m /\ where[s] # "freed"})

(* removeSocket looks every queued socket up in m_Sockets without a test:   *)
(* one that was closed or collected meanwhile would be a NULL pointer.     *)
QueuedLive ==
  \A l \in Sockets : \A a \in queued[l] : where[a] = "live"

(* "the socket will be removed after approximately 1 second" (api.cpp:851): *)
(* every socket that was closed is deleted in the end, a broken one too,    *)
(* though the worker, the collector and close() wait for one another.       *)
Collected ==
  \A s \in Sockets : (where[s] = "closed" \/ (where[s] = "live" /\ On(s, "broken")))
                        ~> (where[s] = "freed" \/ aborted)

(* An accept() that waits returns when its listener is closed or has a      *)
(* connection for it (unless that breaks first): m_bBroken is set before    *)
(* the broadcast, and a queued socket is in the queue before the signal.   *)
AcceptEnds ==
  \A l \in Sockets : (acceptPc[l] # "none" /\ (On(l, "broken") \/ queued[l] # {}))
       ~> (acceptPc[l] = "none" \/ (~On(l, "broken") /\ queued[l] = {}) \/ aborted)
=============================================================================
