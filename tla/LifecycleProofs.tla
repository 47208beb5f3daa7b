-------------------------- MODULE LifecycleProofs --------------------------
(***************************************************************************)
(* Theorems about SocketLifecycle, for every number of sockets, backlog and *)
(* choice of the other constants.                                          *)
(*                                                                         *)
(* The inductive invariant Inv says of each socket, worker and collector    *)
(* state what else must be so for the next step not to free a socket that   *)
(* is in use.  Its parts are stated one after the other.                    *)
(***************************************************************************)
EXTENDS SocketLifecycle, FiniteSetTheorems, TLAPS

(* The types, without the bound on the counters: that one needs MuxCounted. *)
TypeInv ==
  /\ made \in 0 .. MaxSockets
  /\ where \in [Sockets -> {"none", "new", "live", "closed", "freed"}]
  /\ status \in [Sockets -> States] /\ flags \in [Sockets -> SUBSET Flags]
  /\ aged \subseteq Sockets /\ linger \subseteq Sockets /\ sndData \subseteq Sockets
  /\ call \in [Sockets -> {"none", "linger", "stop", "unlink", "move"}]
  /\ acceptPc \in [Sockets -> {"none", "check", "wait"}]
  /\ queued \in [Sockets -> SUBSET Sockets]
  /\ listenSocket \in [Sockets -> Sockets \cup {None}]
  /\ mux \in [Sockets -> Sockets \cup {None}] /\ refCount \in [Sockets -> Int]
  /\ listener \in [Sockets -> Sockets \cup {None}] /\ connectors \subseteq Sockets
  /\ newEntry \subseteq Sockets /\ ulist \subseteq Sockets
  /\ onList \subseteq Sockets /\ sndList \subseteq Sockets
  /\ worker \in [Sockets ->
       [pc : {"idle", "listen", "mux", "insert", "queue", "connect", "complete"},
        sock : Sockets \cup {None}, new : Sockets \cup {None}]]
  /\ gc \in [pc : {"idle", "remove", "join"}, todo : SUBSET Sockets,
             mux : Sockets \cup {None}]
  /\ aborted \in BOOLEAN /\ lingered \subseteq Sockets

(* Where a worker holds a listener, and where the socket it makes for it.   *)
Listening == {"listen", "mux", "insert", "queue"}
Making    == {"mux", "insert", "queue"}

(* A socket's place among the sockets, and its status.                      *)
Places(s) ==
  /\ where[s] = "none" <=> s > made
  /\ where[s] \in {"closed", "freed"} => status[s] = "CLOSED"
  /\ where[s] = "none" => status[s] = "INIT"
  /\ where[s] \in {"none", "new"} => s \notin aged /\ call[s] = "none" /\ acceptPc[s] = "none"
  /\ call[s] # "none" => where[s] # "freed"

(* One that has not tried to connect or listen yet is on no list.           *)
Untried(s) ==
  status[s] \in {"INIT", "OPENED"} =>
    /\ flags[s] \subseteq {"opened", "closing"}
    /\ "closing" \in flags[s] => call[s] \in {"unlink", "move"}
    /\ s \notin connectors \cup newEntry \cup ulist \cup onList \cup sndList
    /\ s \notin linger \cup sndData
    /\ where[s] # "new" => listenSocket[s] = None
    /\ status[s] = "OPENED" => "opened" \in flags[s] \/ call[s] = "move"
    /\ status[s] = "INIT" => mux[s] = None

(* A listener is open, and its own close() ran in the collector.            *)
Listens(s) ==
  /\ status[s] = "LISTENING" =>
       /\ call[s] = "none" /\ where[s] = "live" /\ listenSocket[s] = None
       /\ "opened" \in flags[s] /\ flags[s] \cap {"connecting", "connected"} = {}
  /\ \A m \in Sockets : listener[m] = s =>
       /\ status[s] \in {"LISTENING", "CLOSED"} /\ where[s] \in {"live", "closed"}
       /\ call[s] = "none" /\ listenSocket[s] = None
       /\ "opened" \in flags[s] /\ flags[s] \cap {"connecting", "connected"} = {}

(* One that connects is on no list of the worker's before its connection.   *)
Connects(s) ==
  /\ "connecting" \in flags[s] =>
       /\ s \notin newEntry \cup ulist \cup onList \cup sndList
       /\ "connected" \notin flags[s] /\ listenSocket[s] = None
       /\ {"opened", "closing"} \cap flags[s] # {} \/ where[s] = "freed"
  /\ s \in connectors =>
       /\ status[s] \in {"CONNECTING", "CONNECTED", "CLOSED"}
       /\ "connecting" \in flags[s] =>
            /\ where[s] = "live" /\ call[s] # "move"
            /\ "opened" \in flags[s] /\ "broken" \notin flags[s]

(* m_bOnList is set as long as a list of the worker holds the socket, and   *)
(* as long as its connection works; a socket on the sending list has one.   *)
Lists(s) ==
  /\ s \in newEntry \cup ulist => s \in onList
  /\ s \notin newEntry \cap ulist
  /\ Working(s) => s \in onList /\ "opened" \in flags[s]
  /\ s \in onList => where[s] \notin {"none", "freed"}
  /\ s \in sndList /\ where[s] # "freed" => {"opened", "connected"} \subseteq flags[s]
  /\ call[s] = "unlink" => "closing" \in flags[s] /\ s \notin sndList

(* Why an open socket may be closing.                                       *)
Closes(s) ==
  {"opened", "closing"} \subseteq flags[s] =>
    \/ "broken" \in flags[s] \/ call[s] = "unlink" \/ s \in lingered
    \/ where[s] = "closed" /\ s \notin sndData

(* When the timer has run out no call is in the socket.                     *)
Ages(s) ==
  s \in aged =>
    /\ call[s] = "none" /\ acceptPc[s] = "none"
    /\ where[s] = "closed" \/ (status[s] = "LISTENING" /\ On(s, "broken"))

(* What a worker holds: a listener, the socket it makes for it, or one that *)
(* connects.                                                               *)
Holds(m) ==
  /\ worker[m].pc = "idle" => worker[m] = Idle
  /\ worker[m].new # None => worker[m].pc \in Making
  /\ worker[m].pc # "idle" => worker[m].sock # None
  /\ worker[m].pc \in {"connect", "complete"} =>
       status[worker[m].sock] \in {"CONNECTING", "CONNECTED", "CLOSED"}
  /\ worker[m].pc = "complete" => worker[m].sock \notin aged

(* newConnection's new socket is its worker's alone until it is queued.    *)
Makes(m) ==
  worker[m].pc \in Making =>
    LET a == worker[m].new
    IN  /\ a # None /\ a \notin aged /\ call[a] = "none"
        /\ listenSocket[a] = worker[m].sock
        /\ \A l \in Sockets : a \notin queued[l]
        /\ \A n \in Sockets : worker[n].new = a => n = m
        /\ worker[m].pc = "mux" => where[a] = "new" /\ status[a] = "INIT"
        /\ worker[m].pc \in {"insert", "queue"} =>
             /\ status[a] = "CONNECTED" /\ flags[a] = {"opened", "connected"} /\ mux[a] = m
        /\ worker[m].pc = "insert" => where[a] = "new"
        /\ worker[m].pc = "queue" => where[a] = "live"

(* A socket that is aged or freed is held by a worker at most to hear that  *)
(* its connect was given up.                                               *)
Held(s) ==
  where[s] = "freed" \/ s \in aged =>
    \A m \in Sockets : worker[m].sock = s =>
      \/ worker[m].pc = "connect" /\ "connecting" \notin flags[s]
      \/ LateRequests /\ worker[m].pc \in Listening

(* The sockets that wait for accept() are live, and nobody closes them.     *)
Queues(l) ==
  \A a \in queued[l] :
    /\ where[a] = "live" /\ listenSocket[a] = l /\ call[a] = "none"
    /\ status[a] \in {"CONNECTED", "CLOSED"}

(* What the collector is about to free is off the lists and aged.           *)
Collects ==
  /\ gc.pc = "idle" => gc.todo = {}
  /\ \A s \in gc.todo : s \in aged /\ where[s] = "closed" /\ s \notin onList

(* A freed socket is left behind on a list only in the ways FreedUnused names. *)
Left(s) == where[s] = "freed" /\ s \in sndList => s \in lingered

(* The inductive invariant.                                                *)
Inv ==
  /\ TypeInv /\ Collects
  /\ \A s \in Sockets :
       /\ Places(s) /\ Untried(s) /\ Listens(s) /\ Connects(s) /\ Lists(s) /\ Closes(s)
       /\ Ages(s) /\ Holds(s) /\ Makes(s) /\ Held(s) /\ Queues(s) /\ Left(s)

-----------------------------------------------------------------------------
(* No socket has the number that stands for none. *)
LEMMA NoneIsNone == None \notin Sockets
  BY DEF None, Sockets

USE DEF sockVars, appVars, muxVars, listVars, histVars, On, None, Idle, Resting

(* A part of the invariant is kept by a step that changes nothing it speaks of. *)
LEMMA Frames ==
  ASSUME NEW s \in Sockets
  PROVE  /\ UNCHANGED <<made, where, status, aged, call, acceptPc>> /\ Places(s) => Places(s)'
         /\ /\ UNCHANGED <<status, flags, call, connectors, newEntry, ulist, onList, sndList,
                          linger, sndData, where, listenSocket, mux>>
            /\ Untried(s)
            => Untried(s)'
         /\ UNCHANGED <<status, call, where, listenSocket, flags, listener>> /\ Listens(s)
            => Listens(s)'
         /\ /\ UNCHANGED <<flags, newEntry, ulist, onList, sndList, listenSocket, connectors,
                          status, where, call>>
            /\ Connects(s)
            => Connects(s)'
         /\ UNCHANGED <<newEntry, ulist, onList, where, flags, sndList, call>> /\ Lists(s)
            => Lists(s)'
         /\ UNCHANGED <<flags, call, lingered, where, sndData>> /\ Closes(s) => Closes(s)'
         /\ UNCHANGED <<aged, call, acceptPc, where, status, flags>> /\ Ages(s) => Ages(s)'
         /\ UNCHANGED <<worker, status, aged>> /\ Holds(s) => Holds(s)'
         /\ /\ UNCHANGED <<worker, aged, call, listenSocket, queued, where, status, flags, mux>>
            /\ Makes(s)
            => Makes(s)'
         /\ UNCHANGED <<where, aged, worker, flags>> /\ Held(s) => Held(s)'
         /\ UNCHANGED <<queued, where, listenSocket, call, status>> /\ Queues(s) => Queues(s)'
         /\ UNCHANGED <<where, sndList, lingered>> /\ Left(s) => Left(s)'
  BY DEF Places, Untried, Listens, Connects, Lists, Closes, Ages, Holds, Makes, Held, Queues,
     Left, Working

-----------------------------------------------------------------------------
(* The application's calls.  Below, x is the socket or multiplexer that takes *)
(* the step, and s is any socket.                                           *)

(* socket(): the new socket is on no list yet.                             *)
LEMMA NewSocketStep ==
  ASSUME Inv, NewSocket
  PROVE  Inv'
  <1>1. made + 1 \in Sockets /\ made' = made + 1 /\ where' = [where EXCEPT ![made + 1] = "live"]
    BY LifecycleAssumption DEF Inv, TypeInv, NewSocket, Sockets
  <1>2. made' \in 0 .. MaxSockets
    BY <1>1 DEF Sockets
  <1>3. TypeInv'
    BY <1>1, <1>2 DEF Inv, TypeInv, NewSocket
  <1>4. Collects'
    BY <1>1, <1>2 DEF Inv, Collects, NewSocket, ControlFree
  <1>5. ASSUME NEW s \in Sockets PROVE Holds(s)'
    BY Frames, <1>1, <1>2 DEF Inv, NewSocket
  <1>6. ASSUME NEW s \in Sockets PROVE Places(s)'
    BY <1>1, <1>2 DEF Inv, TypeInv, Places, NewSocket, Sockets
  <1>7. ASSUME NEW s \in Sockets PROVE Untried(s)'
    BY <1>1, <1>2 DEF Inv, TypeInv, Untried, Places, NewSocket
  <1>8. ASSUME NEW s \in Sockets PROVE Listens(s)'
    BY <1>1, <1>2 DEF Inv, Listens, NewSocket
  <1>9. ASSUME NEW s \in Sockets PROVE Connects(s)'
    BY <1>1, <1>2 DEF Inv, TypeInv, Connects, Places, NewSocket
  <1>10. ASSUME NEW s \in Sockets PROVE Lists(s)'
    BY <1>1, <1>2 DEF Inv, TypeInv, Lists, Places, NewSocket, Working
  <1>11. ASSUME NEW s \in Sockets PROVE Closes(s)'
    BY <1>1, <1>2 DEF Inv, TypeInv, Closes, Places, NewSocket
  <1>12. ASSUME NEW s \in Sockets PROVE Ages(s)'
    BY <1>1, <1>2 DEF Inv, TypeInv, Ages, Places, NewSocket
  <1>13. ASSUME NEW s \in Sockets PROVE Makes(s)'
    BY <1>1, <1>2 DEF Inv, TypeInv, Makes, Places, NewSocket
  <1>14. ASSUME NEW s \in Sockets PROVE Held(s)'
    BY <1>1, <1>2 DEF Inv, Held, NewSocket
  <1>15. ASSUME NEW s \in Sockets PROVE Queues(s)'
    BY <1>1, <1>2 DEF Inv, Queues, NewSocket
  <1>16. ASSUME NEW s \in Sockets PROVE Left(s)'
    BY <1>1, <1>2 DEF Inv, Left, NewSocket
  <1>17. QED
    BY <1>3, <1>4, <1>5, <1>6, <1>7, <1>8, <1>9, <1>10, <1>11, <1>12, <1>13, <1>14, <1>15,
       <1>16 DEF Inv

(* bind(): the socket has not been tried, so only its status and           *)
(* multiplexer change.                                                     *)
LEMMA BindStep ==
  ASSUME Inv, NEW x \in Sockets, Bind(x)
  PROVE  Inv'
  <1>1. TypeInv'
    BY DEF Inv, TypeInv, Bind, AnyMux, JoinMux, States, Flags
  <1>2. Collects'
    BY DEF Inv, Collects, Bind
  <1>3. ASSUME NEW s \in Sockets PROVE Left(s)'
    BY Frames DEF Inv, Bind
  <1>4. ASSUME NEW s \in Sockets PROVE Places(s)'
    BY DEF Inv, Places, Bind, Callable, Located
  <1>5. ASSUME NEW s \in Sockets PROVE Untried(s)'
    BY DEF Inv, TypeInv, Untried, Bind, JoinMux
  <1>6. ASSUME NEW s \in Sockets PROVE Listens(s)'
    BY DEF Inv, Listens, Bind
  <1>7. ASSUME NEW s \in Sockets PROVE Connects(s)'
    BY DEF Inv, Connects, Bind
  <1>8. ASSUME NEW s \in Sockets PROVE Lists(s)'
    BY DEF Inv, Lists, Bind, Working
  <1>9. ASSUME NEW s \in Sockets PROVE Closes(s)'
    BY DEF Inv, Closes, Untried, Bind, Callable
  <1>10. ASSUME NEW s \in Sockets PROVE Ages(s)'
    BY DEF Inv, Ages, Bind
  <1>11. ASSUME NEW s \in Sockets PROVE Holds(s)'
    BY DEF Inv, Holds, Bind
  <1>12. ASSUME NEW s \in Sockets PROVE Makes(s)'
    BY DEF Inv, TypeInv, Makes, Bind, Callable, JoinMux
  <1>13. ASSUME NEW s \in Sockets PROVE Held(s)'
    BY DEF Inv, Held, Bind
  <1>14. ASSUME NEW s \in Sockets PROVE Queues(s)'
    BY DEF Inv, Queues, Bind
  <1>15. QED
    BY <1>1, <1>2, <1>3, <1>4, <1>5, <1>6, <1>7, <1>8, <1>9, <1>10, <1>11, <1>12, <1>13,
       <1>14 DEF Inv

(* listen(): the multiplexer's listener is open and has never connected.   *)
LEMMA ListenStep ==
  ASSUME Inv, NEW x \in Sockets, Listen(x)
  PROVE  Inv'
  <1>1. TypeInv'
    BY DEF Inv, TypeInv, Listen, listen, setListener, States, Flags
  <1>2. Collects'
    BY DEF Inv, Collects, Listen
  <1>3. ASSUME NEW s \in Sockets PROVE Left(s)'
    BY Frames DEF Inv, Listen
  <1>4. ASSUME NEW s \in Sockets PROVE Places(s)'
    BY DEF Inv, Places, Listen
  <1>5. ASSUME NEW s \in Sockets PROVE Untried(s)'
    BY DEF Inv, TypeInv, Untried, Listen, listen
  <1>6. ASSUME NEW s \in Sockets PROVE Listens(s)'
    BY DEF Inv, TypeInv, Listens, Untried, Listen, Callable, Located, listen, setListener
  <1>7. ASSUME NEW s \in Sockets PROVE Connects(s)'
    BY DEF Inv, Connects, Listen, listen
  <1>8. ASSUME NEW s \in Sockets PROVE Lists(s)'
    BY DEF Inv, Lists, Listen, listen, Working
  <1>9. ASSUME NEW s \in Sockets PROVE Closes(s)'
    BY DEF Inv, Closes, Listen, listen
  <1>10. ASSUME NEW s \in Sockets PROVE Ages(s)'
    BY DEF Inv, Ages, Listen, listen
  <1>11. ASSUME NEW s \in Sockets PROVE Holds(s)'
    BY DEF Inv, Holds, Listen
  <1>12. ASSUME NEW s \in Sockets PROVE Makes(s)'
    BY DEF Inv, Makes, Listen, listen
  <1>13. ASSUME NEW s \in Sockets PROVE Held(s)'
    BY DEF Inv, Held, Listen, listen
  <1>14. ASSUME NEW s \in Sockets PROVE Queues(s)'
    BY DEF Inv, Queues, Listen
  <1>15. QED
    BY <1>1, <1>2, <1>3, <1>4, <1>5, <1>6, <1>7, <1>8, <1>9, <1>10, <1>11, <1>12, <1>13,
       <1>14 DEF Inv

(* accept() starts on a live listener, whose removal timer is not over.    *)
LEMMA AcceptBeginStep ==
  ASSUME Inv, NEW x \in Sockets, AcceptBegin(x)
  PROVE  Inv'
  <1>1. TypeInv'
    BY DEF Inv, TypeInv, AcceptBegin
  <1>2. Collects'
    BY DEF Inv, Collects, AcceptBegin
  <1>3. ASSUME NEW s \in Sockets
        PROVE  Untried(s)' /\ Listens(s)' /\ Connects(s)' /\ Lists(s)' /\ Closes(s)' /\
                  Holds(s)' /\ Makes(s)' /\ Held(s)' /\ Queues(s)' /\ Left(s)'
    BY Frames DEF Inv, AcceptBegin
  <1>4. ASSUME NEW s \in Sockets PROVE Places(s)'
    BY DEF Inv, Places, AcceptBegin, Callable, Located
  <1>5. ASSUME NEW s \in Sockets PROVE Ages(s)'
    BY DEF Inv, Ages, AcceptBegin, Callable, Located
  <1>6. QED
    BY <1>1, <1>2, <1>3, <1>4, <1>5 DEF Inv

(* accept() takes a socket off the queue, or waits.                        *)
LEMMA AcceptTurnStep ==
  ASSUME Inv, NEW x \in Sockets, AcceptTurn(x)
  PROVE  Inv'
  <1>1. TypeInv'
    <2>1. queued' \in [Sockets -> SUBSET Sockets]
      BY DEF Inv, TypeInv, AcceptTurn
    <2>2. acceptPc' \in [Sockets -> {"none", "check", "wait"}]
      BY DEF Inv, TypeInv, AcceptTurn
    <2>3. QED
      BY <2>1, <2>2 DEF Inv, TypeInv, AcceptTurn
  <1>2. Collects'
    BY DEF Inv, Collects, AcceptTurn
  <1>3. ASSUME NEW s \in Sockets
        PROVE  Untried(s)' /\ Listens(s)' /\ Connects(s)' /\ Lists(s)' /\ Closes(s)' /\
                  Holds(s)' /\ Held(s)' /\ Left(s)'
    BY Frames DEF Inv, AcceptTurn
  <1>4. ASSUME NEW s \in Sockets PROVE Places(s)'
    BY DEF Inv, TypeInv, Places, AcceptTurn
  <1>5. ASSUME NEW s \in Sockets PROVE Ages(s)'
    BY DEF Inv, TypeInv, Ages, AcceptTurn
  <1>6. ASSUME NEW s \in Sockets PROVE Makes(s)'
    BY DEF Inv, TypeInv, Makes, AcceptTurn
  <1>7. ASSUME NEW s \in Sockets PROVE Queues(s)'
    BY DEF Inv, TypeInv, Queues, AcceptTurn
  <1>8. QED
    BY <1>1, <1>2, <1>3, <1>4, <1>5, <1>6, <1>7 DEF Inv

(* connect(): the socket is on no list but the rendezvous queue.           *)
LEMMA ConnectStep ==
  ASSUME Inv, NEW x \in Sockets, Connect(x)
  PROVE  Inv'
  <1>1. TypeInv'
    <2>1. mux' \in [Sockets -> Sockets \cup {None}] /\ refCount' \in [Sockets -> Int]
      BY DEF Inv, TypeInv, Connect, JoinMux
    <2>2. status' \in [Sockets -> States] /\ flags' \in [Sockets -> SUBSET Flags]
      BY DEF Inv, TypeInv, Connect, States, Flags
    <2>3. QED
      BY <2>1, <2>2 DEF Inv, TypeInv, Connect
  <1>2. Collects'
    BY DEF Inv, Collects, Connect
  <1>3. ASSUME NEW s \in Sockets PROVE Left(s)'
    BY Frames DEF Inv, Connect
  <1>4. ASSUME NEW s \in Sockets PROVE Places(s)'
    BY DEF Inv, Places, Connect, Callable, Located
  <1>5. ASSUME NEW s \in Sockets PROVE Untried(s)'
    BY DEF Inv, TypeInv, Untried, Connect, JoinMux
  <1>6. ASSUME NEW s \in Sockets PROVE Listens(s)'
    BY DEF Inv, Listens, Connect
  <1>7. ASSUME NEW s \in Sockets PROVE Connects(s)'
    <2>1. CASE s = x
      <3>1. /\ flags'[s] = flags[s] \cup {"opened", "connecting"} /\ status'[s] = "CONNECTING"
            /\ UNCHANGED <<where, call, listenSocket, newEntry, ulist, onList, sndList>>
        BY <2>1 DEF Inv, TypeInv, Connect
      <3>2. where[s] = "live" /\ call[s] = "none" /\ status[s] \in {"INIT", "OPENED"}
        BY <2>1 DEF Connect, Callable, Located
      <3>3. flags[s] \subseteq {"opened", "closing"} /\ listenSocket[s] = None
        BY <3>2 DEF Inv, Untried
      <3>4. s \notin newEntry \cup ulist \cup onList \cup sndList
        BY <3>2 DEF Inv, Untried
      <3>5. QED
        BY <3>1, <3>2, <3>3, <3>4 DEF Connects
    <2>2. CASE s # x
      <3>1. /\ flags'[s] = flags[s] /\ status'[s] = status[s]
            /\ s \in connectors' <=> s \in connectors
        BY <2>2 DEF Inv, TypeInv, Connect
      <3>2. UNCHANGED <<where, call, listenSocket, newEntry, ulist, onList, sndList>>
        BY DEF Connect
      <3>3. Connects(s)
        BY DEF Inv
      <3>4. QED
        BY <3>1, <3>2, <3>3 DEF Connects
    <2>3. QED
      BY <2>1, <2>2
  <1>8. ASSUME NEW s \in Sockets PROVE Lists(s)'
    BY DEF Inv, Lists, Connect, Working
  <1>9. ASSUME NEW s \in Sockets PROVE Closes(s)'
    BY DEF Inv, Closes, Untried, Connect, Callable
  <1>10. ASSUME NEW s \in Sockets PROVE Ages(s)'
    BY DEF Inv, Ages, Connect
  <1>11. ASSUME NEW s \in Sockets PROVE Holds(s)'
    BY DEF Inv, Holds, Connect
  <1>12. ASSUME NEW s \in Sockets PROVE Makes(s)'
    BY DEF Inv, TypeInv, Makes, Connect, Callable, JoinMux
  <1>13. ASSUME NEW s \in Sockets PROVE Held(s)'
    BY DEF Inv, Held, Ages, Places, Connect
  <1>14. ASSUME NEW s \in Sockets PROVE Queues(s)'
    BY DEF Inv, Queues, Connect
  <1>15. QED
    BY <1>1, <1>2, <1>3, <1>4, <1>5, <1>6, <1>7, <1>8, <1>9, <1>10, <1>11, <1>12, <1>13,
       <1>14 DEF Inv

(* send(): a socket that works is open and connected, as the sending list  *)
(* asks.                                                                   *)
LEMMA SendStep ==
  ASSUME Inv, NEW x \in Sockets, Send(x)
  PROVE  Inv'
  <1>1. TypeInv'
    BY DEF Inv, TypeInv, Send
  <1>2. Collects'
    BY DEF Inv, Collects, Send
  <1>3. ASSUME NEW s \in Sockets
        PROVE  Places(s)' /\ Listens(s)' /\ Ages(s)' /\ Holds(s)' /\ Makes(s)' /\ Held(s)'
                  /\ Queues(s)'
    BY Frames DEF Inv, Send
  <1>4. ASSUME NEW s \in Sockets PROVE Untried(s)'
    BY DEF Inv, Untried, Send, Working
  <1>5. ASSUME NEW s \in Sockets PROVE Connects(s)'
    BY DEF Inv, Connects, Send, Working
  <1>6. ASSUME NEW s \in Sockets PROVE Lists(s)'
    BY DEF Inv, Lists, Send, Working
  <1>7. ASSUME NEW s \in Sockets PROVE Closes(s)'
    BY DEF Inv, Closes, Send, Callable, Located
  <1>8. ASSUME NEW s \in Sockets PROVE Left(s)'
    BY DEF Inv, Left, Send, Callable, Located
  <1>9. QED
    BY <1>1, <1>2, <1>3, <1>4, <1>5, <1>6, <1>7, <1>8 DEF Inv

(* close() of a listener breaks it and starts its removal timer.           *)
LEMMA CloseListenerStep ==
  ASSUME Inv, NEW x \in Sockets, CloseListener(x)
  PROVE  Inv'
  <1>1. TypeInv'
    BY DEF Inv, TypeInv, CloseListener, Woken, Flags
  <1>2. Collects'
    BY DEF Inv, Collects, CloseListener, Callable, Located
  <1>3. ASSUME NEW s \in Sockets PROVE Queues(s)' /\ Left(s)'
    BY Frames DEF Inv, CloseListener
  <1>4. ASSUME NEW s \in Sockets PROVE Places(s)'
    BY DEF Inv, Places, CloseListener, Callable, Located
  <1>5. ASSUME NEW s \in Sockets PROVE Untried(s)'
    BY DEF Inv, Untried, CloseListener
  <1>6. ASSUME NEW s \in Sockets PROVE Listens(s)'
    BY DEF Inv, Listens, CloseListener
  <1>7. ASSUME NEW s \in Sockets PROVE Connects(s)'
    BY DEF Inv, Connects, CloseListener
  <1>8. ASSUME NEW s \in Sockets PROVE Lists(s)'
    BY DEF Inv, Lists, CloseListener, Working
  <1>9. ASSUME NEW s \in Sockets PROVE Closes(s)'
    BY DEF Inv, Closes, CloseListener
  <1>10. ASSUME NEW s \in Sockets PROVE Ages(s)'
    BY DEF Inv, Ages, CloseListener
  <1>11. ASSUME NEW s \in Sockets PROVE Holds(s)'
    BY DEF Inv, Holds, CloseListener
  <1>12. ASSUME NEW s \in Sockets PROVE Makes(s)'
    BY DEF Inv, Makes, CloseListener
  <1>13. ASSUME NEW s \in Sockets PROVE Held(s)'
    BY DEF Inv, Held, CloseListener
  <1>14. QED
    BY <1>1, <1>2, <1>3, <1>4, <1>5, <1>6, <1>7, <1>8, <1>9, <1>10, <1>11, <1>12, <1>13 DEF Inv

(* close() starts on a socket that no worker makes and no queue holds.     *)
LEMMA CloseBeginStep ==
  ASSUME Inv, NEW x \in Sockets, CloseBegin(x)
  PROVE  Inv'
  <1>1. TypeInv'
    BY DEF Inv, TypeInv, CloseBegin
  <1>2. Collects'
    BY DEF Inv, Collects, CloseBegin
  <1>3. ASSUME NEW s \in Sockets PROVE Holds(s)' /\ Held(s)' /\ Left(s)'
    BY Frames DEF Inv, CloseBegin
  <1>4. ASSUME NEW s \in Sockets PROVE Places(s)'
    BY DEF Inv, Places, CloseBegin, Callable, Located
  <1>5. ASSUME NEW s \in Sockets PROVE Untried(s)'
    BY DEF Inv, Untried, CloseBegin, Callable
  <1>6. ASSUME NEW s \in Sockets PROVE Listens(s)'
    BY DEF Inv, Listens, CloseBegin, Callable, Located
  <1>7. ASSUME NEW s \in Sockets PROVE Connects(s)'
    BY DEF Inv, Connects, CloseBegin
  <1>8. ASSUME NEW s \in Sockets PROVE Lists(s)'
    BY DEF Inv, Lists, CloseBegin, Working
  <1>9. ASSUME NEW s \in Sockets PROVE Closes(s)'
    BY DEF Inv, Closes, CloseBegin, Callable
  <1>10. ASSUME NEW s \in Sockets PROVE Ages(s)'
    BY DEF Inv, Ages, CloseBegin, Callable, Located
  <1>11. ASSUME NEW s \in Sockets PROVE Makes(s)'
    BY DEF Inv, Makes, CloseBegin, Callable
  <1>12. ASSUME NEW s \in Sockets PROVE Queues(s)'
    BY DEF Inv, Queues, CloseBegin, Callable
  <1>13. QED
    BY <1>1, <1>2, <1>3, <1>4, <1>5, <1>6, <1>7, <1>8, <1>9, <1>10, <1>11, <1>12 DEF Inv

(* close() of a socket that lingers, or goes on.                           *)
LEMMA CloseLingerStep ==
  ASSUME Inv, NEW x \in Sockets, CloseLinger(x)
  PROVE  Inv'
  <1>1. TypeInv'
    BY DEF Inv, TypeInv, CloseLinger
  <1>2. Collects'
    BY DEF Inv, Collects, CloseLinger
  <1>3. ASSUME NEW s \in Sockets PROVE Holds(s)' /\ Held(s)' /\ Left(s)'
    BY Frames DEF Inv, CloseLinger
  <1>4. ASSUME NEW s \in Sockets PROVE Places(s)'
    BY DEF Inv, TypeInv, Places, CloseLinger
  <1>5. ASSUME NEW s \in Sockets PROVE Untried(s)'
    BY DEF Inv, TypeInv, Untried, CloseLinger, Unsent
  <1>6. ASSUME NEW s \in Sockets PROVE Listens(s)'
    BY DEF Inv, TypeInv, Listens, CloseLinger
  <1>7. ASSUME NEW s \in Sockets PROVE Connects(s)'
    BY DEF Inv, TypeInv, Connects, CloseLinger, Unsent
  <1>8. ASSUME NEW s \in Sockets PROVE Lists(s)'
    BY DEF Inv, TypeInv, Lists, CloseLinger, Working
  <1>9. ASSUME NEW s \in Sockets PROVE Closes(s)'
    BY DEF Inv, TypeInv, Closes, CloseLinger
  <1>10. ASSUME NEW s \in Sockets PROVE Ages(s)'
    BY DEF Inv, TypeInv, Ages, CloseLinger
  <1>11. ASSUME NEW s \in Sockets PROVE Makes(s)'
    BY DEF Inv, TypeInv, Makes, CloseLinger
  <1>12. ASSUME NEW s \in Sockets PROVE Queues(s)'
    BY DEF Inv, TypeInv, Queues, CloseLinger
  <1>13. QED
    BY <1>1, <1>2, <1>3, <1>4, <1>5, <1>6, <1>7, <1>8, <1>9, <1>10, <1>11, <1>12 DEF Inv

(* close() takes the socket off the sending list and marks it closing.     *)
LEMMA CloseStopStep ==
  ASSUME Inv, NEW x \in Sockets, CloseStop(x)
  PROVE  Inv'
  <1>1. TypeInv'
    BY DEF Inv, TypeInv, CloseStop, Flags
  <1>2. Collects'
    BY DEF Inv, Collects, CloseStop
  <1>3. ASSUME NEW s \in Sockets PROVE Holds(s)'
    BY Frames DEF Inv, CloseStop
  <1>4. ASSUME NEW s \in Sockets PROVE Places(s)'
    BY DEF Inv, Places, CloseStop
  <1>5. ASSUME NEW s \in Sockets PROVE Untried(s)'
    BY DEF Inv, TypeInv, Untried, CloseStop
  <1>6. ASSUME NEW s \in Sockets PROVE Listens(s)'
    BY DEF Inv, Listens, CloseStop
  <1>7. ASSUME NEW s \in Sockets PROVE Connects(s)'
    BY DEF Inv, Connects, CloseStop
  <1>8. ASSUME NEW s \in Sockets PROVE Lists(s)'
    BY DEF Inv, TypeInv, Lists, Places, CloseStop, Working
  <1>9. ASSUME NEW s \in Sockets PROVE Closes(s)'
    BY DEF Inv, TypeInv, Closes, CloseStop
  <1>10. ASSUME NEW s \in Sockets PROVE Ages(s)'
    BY DEF Inv, Ages, CloseStop
  <1>11. ASSUME NEW s \in Sockets PROVE Makes(s)'
    BY DEF Inv, Makes, CloseStop
  <1>12. ASSUME NEW s \in Sockets PROVE Held(s)'
    BY DEF Inv, Held, CloseStop
  <1>13. ASSUME NEW s \in Sockets PROVE Queues(s)'
    BY DEF Inv, Queues, CloseStop
  <1>14. ASSUME NEW s \in Sockets PROVE Left(s)'
    BY DEF Inv, Left, CloseStop
  <1>15. QED
    BY <1>1, <1>2, <1>3, <1>4, <1>5, <1>6, <1>7, <1>8, <1>9, <1>10, <1>11, <1>12, <1>13,
       <1>14 DEF Inv

(* close() leaves the rendezvous queue while the socket still connects.    *)
LEMMA CloseUnlinkStep ==
  ASSUME Inv, NEW x \in Sockets, CloseUnlink(x)
  PROVE  Inv'
  <1>1. TypeInv'
    BY DEF Inv, TypeInv, CloseUnlink
  <1>2. Collects'
    BY DEF Inv, Collects, CloseUnlink
  <1>3. ASSUME NEW s \in Sockets PROVE Holds(s)' /\ Left(s)'
    BY Frames DEF Inv, CloseUnlink
  <1>4. ASSUME NEW s \in Sockets PROVE Places(s)'
    BY DEF Inv, Places, CloseUnlink
  <1>5. ASSUME NEW s \in Sockets PROVE Untried(s)'
    BY DEF Inv, TypeInv, Untried, CloseUnlink
  <1>6. ASSUME NEW s \in Sockets PROVE Listens(s)'
    BY DEF Inv, Listens, CloseUnlink
  <1>7. ASSUME NEW s \in Sockets PROVE Connects(s)'
    BY DEF Inv, Connects, Lists, CloseUnlink
  <1>8. ASSUME NEW s \in Sockets PROVE Lists(s)'
    BY DEF Inv, Lists, CloseUnlink, Working
  <1>9. ASSUME NEW s \in Sockets PROVE Closes(s)'
    BY DEF Inv, TypeInv, Closes, CloseUnlink
  <1>10. ASSUME NEW s \in Sockets PROVE Ages(s)'
    BY DEF Inv, Ages, CloseUnlink
  <1>11. ASSUME NEW s \in Sockets PROVE Makes(s)'
    BY DEF Inv, Makes, CloseUnlink
  <1>12. ASSUME NEW s \in Sockets PROVE Held(s)'
    BY DEF Inv, Held, CloseUnlink
  <1>13. ASSUME NEW s \in Sockets PROVE Queues(s)'
    BY DEF Inv, Queues, CloseUnlink
  <1>14. QED
    BY <1>1, <1>2, <1>3, <1>4, <1>5, <1>6, <1>7, <1>8, <1>9, <1>10, <1>11, <1>12, <1>13 DEF Inv

(* close() moves the socket to the closed ones; the timer starts.          *)
LEMMA CloseMoveStep ==
  ASSUME Inv, NEW x \in Sockets, CloseMove(x)
  PROVE  Inv'
  <1>1. TypeInv'
    BY DEF Inv, TypeInv, CloseMove, Located, ControlFree, States, Flags
  <1>2. Collects'
    BY DEF Inv, TypeInv, Collects, CloseMove, Located
  <1>3. ASSUME NEW s \in Sockets PROVE Places(s)'
    BY DEF Inv, TypeInv, Places, CloseMove
  <1>4. ASSUME NEW s \in Sockets PROVE Untried(s)'
    BY DEF Inv, TypeInv, Untried, Places, CloseMove, Located
  <1>5. ASSUME NEW s \in Sockets PROVE Listens(s)'
    BY DEF Inv, TypeInv, Listens, CloseMove
  <1>6. ASSUME NEW s \in Sockets PROVE Connects(s)'
    BY DEF Inv, TypeInv, Connects, CloseMove, Located
  <1>7. ASSUME NEW s \in Sockets PROVE Lists(s)'
    BY DEF Inv, TypeInv, Lists, CloseMove, Located, Working
  <1>8. ASSUME NEW s \in Sockets PROVE Closes(s)'
    BY DEF Inv, TypeInv, Closes, CloseMove
  <1>9. ASSUME NEW s \in Sockets PROVE Ages(s)'
    BY DEF Inv, TypeInv, Ages, CloseMove
  <1>10. ASSUME NEW s \in Sockets PROVE Holds(s)'
    BY DEF Inv, TypeInv, Holds, CloseMove
  <1>11. ASSUME NEW s \in Sockets PROVE Makes(s)'
    BY DEF Inv, TypeInv, Makes, CloseMove
  <1>12. ASSUME NEW s \in Sockets PROVE Held(s)'
    BY DEF Inv, TypeInv, Held, CloseMove
  <1>13. ASSUME NEW s \in Sockets PROVE Queues(s)'
    BY DEF Inv, TypeInv, Queues, CloseMove
  <1>14. ASSUME NEW s \in Sockets PROVE Left(s)'
    BY DEF Inv, TypeInv, Left, CloseMove
  <1>15. QED
    BY <1>1, <1>2, <1>3, <1>4, <1>5, <1>6, <1>7, <1>8, <1>9, <1>10, <1>11, <1>12, <1>13,
       <1>14 DEF Inv

-----------------------------------------------------------------------------
(* The receiving workers.                                                  *)

(* A worker takes a connection request for its listener.                   *)
LEMMA RequestStep ==
  ASSUME Inv, NEW x \in Sockets, Request(x)
  PROVE  Inv'
  <1>1. TypeInv'
    BY DEF Inv, TypeInv, Request
  <1>2. Collects'
    BY DEF Inv, Collects, Request
  <1>3. ASSUME NEW s \in Sockets
        PROVE  Places(s)' /\ Untried(s)' /\ Listens(s)' /\ Connects(s)' /\ Lists(s)' /\
                  Closes(s)' /\ Ages(s)' /\ Queues(s)' /\ Left(s)'
    BY Frames DEF Inv, Request
  <1>4. ASSUME NEW s \in Sockets PROVE Holds(s)'
    BY DEF Inv, Holds, Request
  <1>5. ASSUME NEW s \in Sockets PROVE Makes(s)'
    BY DEF Inv, Makes, Request, Making
  <1>6. ASSUME NEW s \in Sockets PROVE Held(s)'
    BY DEF Inv, Held, Request, Late, Listening
  <1>7. QED
    BY <1>1, <1>2, <1>3, <1>4, <1>5, <1>6 DEF Inv

(* What newConnection does to the sockets of a repeated request.            *)
Supersedes(l, old) ==
  /\ \A a \in old : where[a] = "live" /\ listenSocket[a] = l /\ On(a, "broken")
  /\ status' = [s \in Sockets |-> IF s \in old THEN "CLOSED" ELSE status[s]]
  /\ aged' = aged \ old
  /\ queued' = [queued EXCEPT ![l] = @ \ old]
  /\ UNCHANGED <<flags, linger, sndData, call, acceptPc, mux, refCount, listener, connectors,
                 newEntry, ulist, onList, sndList, aborted, lingered, gc>>

(* newConnection gives up, or makes no socket; a broken connection of the  *)
(* same peer is closed.                                                    *)
LEMMA Dropped ==
  ASSUME Inv, NEW x \in Sockets, NEW l \in Sockets, NEW old \in SUBSET Sockets,
         Supersedes(l, old), gc.pc = "idle", worker' = [worker EXCEPT ![x] = Idle],
         UNCHANGED <<made, where, listenSocket>>
  PROVE  Inv'
  <1>1. TypeInv'
    BY DEF Inv, TypeInv, Supersedes, States
  <1>2. Collects'
    BY DEF Inv, Collects, Supersedes
  <1>3. ASSUME NEW s \in Sockets PROVE Lists(s)' /\ Closes(s)' /\ Left(s)'
    BY Frames DEF Inv, Supersedes
  <1>4. ASSUME NEW s \in Sockets PROVE Places(s)'
    BY DEF Inv, Places, Supersedes
  <1>5. ASSUME NEW s \in Sockets PROVE Untried(s)'
    BY DEF Inv, Untried, Supersedes
  <1>6. ASSUME NEW s \in Sockets PROVE Listens(s)'
    BY DEF Inv, Listens, Supersedes
  <1>7. ASSUME NEW s \in Sockets PROVE Connects(s)'
    BY DEF Inv, Connects, Supersedes
  <1>8. ASSUME NEW s \in Sockets PROVE Ages(s)'
    BY DEF Inv, Ages, Supersedes
  <1>9. ASSUME NEW s \in Sockets PROVE Holds(s)'
    BY DEF Inv, TypeInv, Holds, Supersedes
  <1>10. ASSUME NEW s \in Sockets PROVE Makes(s)'
    <2>1. CASE s = x
      BY <2>1 DEF Inv, TypeInv, Makes, Making
    <2>2. CASE s # x
      <3>1. /\ worker'[s] = worker[s]
            /\ \A n \in Sockets : worker'[n].new # None => worker'[n] = worker[n]
        BY <2>2 DEF Inv, TypeInv
      <3>2. worker[s].pc \in Making => worker[s].new \in Sockets /\ worker[s].new \notin old
        BY DEF Inv, TypeInv, Makes, Making, Supersedes
      <3>3. QED
        BY <2>2, <3>1, <3>2 DEF Inv, Makes, Supersedes
    <2>3. QED
      BY <2>1, <2>2
  <1>11. ASSUME NEW s \in Sockets PROVE Held(s)'
    BY NoneIsNone DEF Inv, Held, Supersedes
  <1>12. ASSUME NEW s \in Sockets PROVE Queues(s)'
    BY DEF Inv, TypeInv, Queues, Supersedes
  <1>13. QED
    BY <1>1, <1>2, <1>3, <1>4, <1>5, <1>6, <1>7, <1>8, <1>9, <1>10, <1>11, <1>12 DEF Inv

(* newConnection makes a socket: its number was not in use.                *)
LEMMA Made ==
  ASSUME Inv, NEW x \in Sockets, NEW l \in Sockets, NEW old \in SUBSET Sockets,
         NEW a \in Sockets, where[a] = "none", made' = a, a = made + 1,
         Supersedes(l, old), gc.pc = "idle", worker[x].pc = "listen", worker[x].sock = l,
         worker' = [worker EXCEPT ![x] = [pc |-> "mux", sock |-> l, new |-> a]],
         where' = [where EXCEPT ![a] = "new"],
         listenSocket' = [listenSocket EXCEPT ![a] = l]
  PROVE  Inv'
  <1>1. TypeInv'
    <2>1. status' \in [Sockets -> States] /\ queued' \in [Sockets -> SUBSET Sockets]
      BY DEF Inv, TypeInv, Supersedes, States
    <2>2. /\ where' \in [Sockets -> {"none", "new", "live", "closed", "freed"}]
          /\ made' \in 0 .. MaxSockets
      BY DEF Inv, TypeInv, Sockets
    <2>3. listenSocket' \in [Sockets -> Sockets \cup {None}] /\ aged' \subseteq Sockets
      BY DEF Inv, TypeInv, Supersedes
    <2>4. QED
      BY <2>1, <2>2, <2>3 DEF Inv, TypeInv, Supersedes
  <1>2. Collects'
    BY DEF Inv, Collects, Supersedes
  <1>3. ASSUME NEW s \in Sockets PROVE Places(s)'
    BY DEF Inv, TypeInv, Places, Supersedes
  <1>4. ASSUME NEW s \in Sockets PROVE Untried(s)'
    BY DEF Inv, TypeInv, Untried, Supersedes
  <1>5. ASSUME NEW s \in Sockets PROVE Listens(s)'
    BY DEF Inv, Listens, Supersedes
  <1>6. ASSUME NEW s \in Sockets PROVE Connects(s)'
    BY DEF Inv, Connects, Untried, Places, Supersedes
  <1>7. ASSUME NEW s \in Sockets PROVE Lists(s)'
    BY DEF Inv, Lists, Supersedes, Working
  <1>8. ASSUME NEW s \in Sockets PROVE Closes(s)'
    BY DEF Inv, Closes, Supersedes
  <1>9. ASSUME NEW s \in Sockets PROVE Ages(s)'
    BY DEF Inv, Ages, Supersedes
  <1>10. ASSUME NEW s \in Sockets PROVE Holds(s)'
    BY DEF Inv, TypeInv, Holds, Supersedes, Making
  <1>11. ASSUME NEW s \in Sockets PROVE Makes(s)'
    <2>1. /\ a \notin aged /\ call[a] = "none" /\ status[a] = "INIT" /\ a \notin old
          /\ \A n \in Sockets : a \notin queued[n] /\ worker[n].new # a
      <3>1. a \notin aged /\ call[a] = "none" /\ status[a] = "INIT"
        BY DEF Inv, Places
      <3>2. a \notin old
        BY DEF Supersedes
      <3>3. ASSUME NEW n \in Sockets PROVE a \notin queued[n]
        BY DEF Inv, Queues
      <3>4. ASSUME NEW n \in Sockets, worker[n].new = a PROVE FALSE
        <4>1. worker[n].pc \in Making
          BY <3>4, NoneIsNone DEF Inv, Holds
        <4>2. Makes(n)
          BY DEF Inv
        <4>3. worker[n].pc \in {"insert", "queue"} => status[a] = "CONNECTED"
          BY <3>4, <4>1, <4>2 DEF Makes
        <4>4. worker[n].pc = "mux" => where[a] = "new"
          BY <3>4, <4>1, <4>2 DEF Makes
        <4>5. QED
          BY <3>1, <4>1, <4>3, <4>4 DEF Making
      <3>5. QED
        BY <3>1, <3>2, <3>3, <3>4
    <2>2. CASE s = x
      BY <2>1, <2>2, NoneIsNone DEF Inv, TypeInv, Makes, Supersedes
    <2>3. CASE s # x
      <3>1. worker'[s] = worker[s] /\ \A n \in Sockets : n # x => worker'[n] = worker[n]
        BY <2>3 DEF Inv, TypeInv
      <3>2. worker[s].pc \in Making =>
              worker[s].new \in Sockets /\ worker[s].new \notin old /\ worker[s].new # a
        BY <2>1 DEF Inv, TypeInv, Makes, Making, Supersedes
      <3>3. QED
        BY <2>1, <2>3, <3>1, <3>2 DEF Inv, Makes, Supersedes
    <2>4. QED
      BY <2>2, <2>3
  <1>12. ASSUME NEW s \in Sockets PROVE Held(s)'
    BY DEF Inv, Held, Supersedes, Listening
  <1>13. ASSUME NEW s \in Sockets PROVE Queues(s)'
    BY DEF Inv, TypeInv, Queues, Supersedes
  <1>14. ASSUME NEW s \in Sockets PROVE Left(s)'
    BY DEF Inv, Left, Supersedes
  <1>15. QED
    BY <1>1, <1>2, <1>3, <1>4, <1>5, <1>6, <1>7, <1>8, <1>9, <1>10, <1>11, <1>12, <1>13,
       <1>14 DEF Inv

(* What newConnection does to the caller: it makes a socket, or gives up.   *)
Answers(m, l) ==
  \/ worker' = [worker EXCEPT ![m] = Idle] /\ UNCHANGED <<made, where, listenSocket>>
  \/ /\ made < MaxSockets
     /\ made' = made + 1
     /\ where' = [where EXCEPT ![made + 1] = "new"]
     /\ listenSocket' = [listenSocket EXCEPT ![made + 1] = l]
     /\ worker' = [worker EXCEPT ![m].pc = "mux", ![m].new = made + 1]

(* newConnection, over both outcomes.                                      *)
LEMMA NewConnectionStep ==
  ASSUME Inv, NEW x \in Sockets, NewConnection(x)
  PROVE  Inv'
  <1> DEFINE l == worker[x].sock
  <1>1. l \in Sockets /\ worker[x].pc = "listen" /\ gc.pc = "idle"
    BY NoneIsNone DEF Inv, TypeInv, Holds, NewConnection, ControlFree
  <1>2. UNCHANGED <<flags, linger, sndData, call, acceptPc, mux, refCount, listener, connectors,
                    newEntry, ulist, onList, sndList, aborted, lingered, gc>>
    BY DEF NewConnection
  <1>3. PICK old \in SUBSET Sockets : Supersedes(l, old) /\ Answers(x, l)
    <2>1. CASE /\ \A a \in {} : TRUE
               /\ status' = [s \in Sockets |-> IF s \in {} THEN "CLOSED" ELSE status[s]]
               /\ aged' = aged \ {} /\ queued' = [queued EXCEPT ![l] = @ \ {}]
               /\ Answers(x, l)
      <3>1. Supersedes(l, {})
        BY <1>2, <2>1 DEF Supersedes
      <3>2. {} \in SUBSET Sockets
        OBVIOUS
      <3>3. QED
        BY <2>1, <3>1, <3>2
    <2>2. CASE UNCHANGED <<made, where, status, aged, listenSocket, queued>>
                 /\ worker' = [worker EXCEPT ![x] = Idle]
      <3>1. Supersedes(l, {})
        BY <1>1, <1>2, <2>2 DEF Inv, TypeInv, Supersedes
      <3>2. QED
        BY <2>2, <3>1 DEF Answers
    <2>3. CASE \E a \in Sockets :
                 /\ Superseded(l, a)
                 /\ status' = [s \in Sockets |-> IF s \in {a} THEN "CLOSED" ELSE status[s]]
                 /\ aged' = aged \ {a} /\ queued' = [queued EXCEPT ![l] = @ \ {a}]
                 /\ Answers(x, l)
      <3>1. PICK a \in Sockets : Supersedes(l, {a}) /\ Answers(x, l)
        BY <1>2, <2>3 DEF Superseded, Supersedes
      <3>2. QED
        BY <3>1
    <2>4. QED
      BY <2>1, <2>2, <2>3 DEF NewConnection, Answers
  <1>4. CASE worker' = [worker EXCEPT ![x] = Idle] /\ UNCHANGED <<made, where, listenSocket>>
    BY <1>1, <1>3, <1>4, Dropped
  <1>5. CASE /\ made < MaxSockets /\ made' = made + 1
             /\ where' = [where EXCEPT ![made + 1] = "new"]
             /\ listenSocket' = [listenSocket EXCEPT ![made + 1] = l]
             /\ worker' = [worker EXCEPT ![x].pc = "mux", ![x].new = made + 1]
    <2>1. made + 1 \in Sockets /\ made \in Int
      BY <1>5, LifecycleAssumption DEF Inv, TypeInv, Sockets
    <2>2. where[made + 1] = "none"
      BY <2>1 DEF Inv, Places, Sockets
    <2>3. worker' = [worker EXCEPT ![x] = [pc |-> "mux", sock |-> l, new |-> made + 1]]
      <3> DEFINE q == [worker EXCEPT ![x].pc = "mux"]
      <3>1. worker' = [q EXCEPT ![x].new = made + 1]
        BY <1>5
      <3>2. /\ worker[x] \in [pc : {"idle", "listen", "mux", "insert", "queue", "connect",
                                   "complete"},
                              sock : Sockets \cup {None}, new : Sockets \cup {None}]
            /\ DOMAIN worker = Sockets
        BY DEF Inv, TypeInv
      <3>3. q = [worker EXCEPT ![x] = [worker[x] EXCEPT !.pc = "mux"]]
        OBVIOUS
      <3>4. q[x] = [worker[x] EXCEPT !.pc = "mux"] /\ DOMAIN q = Sockets
        BY <3>2, <3>3
      <3>5. \A n \in Sockets : n # x => q[n] = worker[n]
        BY <3>2, <3>3
      <3>6. q[x].pc = "mux" /\ q[x].sock = l /\ DOMAIN q[x] = {"pc", "sock", "new"}
        BY <3>2, <3>4
      <3>7. q[x] = [pc |-> "mux", sock |-> l, new |-> worker[x].new]
        BY <3>2, <3>4
      <3> HIDE DEF q
      <3>8. worker'[x] = [pc |-> "mux", sock |-> l, new |-> made + 1]
        BY <3>1, <3>4, <3>7
      <3>9. QED
        BY <3>1, <3>2, <3>4, <3>5, <3>8
    <2>4. QED
      BY <1>1, <1>3, <1>5, <2>1, <2>2, <2>3, Made
  <1>6. QED
    BY <1>3, <1>4, <1>5 DEF Answers

(* newConnection puts the socket it makes on the worker's lists: no other  *)
(* worker and no queue has it.                                             *)
LEMMA NewMuxStep ==
  ASSUME Inv, NEW x \in Sockets, NewMux(x)
  PROVE  Inv'
  <1>1. PICK a \in Sockets :
       /\ worker[x].new = a /\ a \notin aged /\ call[a] = "none"
       /\ listenSocket[a] = worker[x].sock /\ worker[x].sock \in Sockets
       /\ \A n \in Sockets : a \notin queued[n]
       /\ \A n \in Sockets : worker[n].new = a => n = x
       /\ worker[x].pc = "mux" /\ where[a] = "new" /\ status[a] = "INIT"
       /\ mux' = [mux EXCEPT ![a] = x] /\ refCount' = [refCount EXCEPT ![x] = @ + 1]
       /\ flags' = [flags EXCEPT ![a] = {"opened", "connected"}]
       /\ status' = [status EXCEPT ![a] = "CONNECTED"]
       /\ onList' = onList \cup {a} /\ newEntry' = newEntry \cup {a}
       /\ worker' = [worker EXCEPT ![x].pc = "insert"]
       /\ UNCHANGED <<made, where, aged, linger, sndData, listenSocket, call, acceptPc,
                    queued, listener, connectors, ulist, sndList, aborted, lingered, gc>>
    BY NoneIsNone DEF Inv, TypeInv, Holds, Makes, Making, NewMux, JoinMux, Listed
  <1>2. TypeInv'
    BY <1>1 DEF Inv, TypeInv, States, Flags
  <1>3. Collects'
    BY <1>1 DEF Inv, TypeInv, Collects
  <1>4. ASSUME NEW s \in Sockets PROVE Left(s)'
    BY Frames, <1>1 DEF Inv
  <1>5. ASSUME NEW s \in Sockets PROVE Places(s)'
    BY <1>1 DEF Inv, TypeInv, Places
  <1>6. ASSUME NEW s \in Sockets PROVE Untried(s)'
    BY <1>1 DEF Inv, TypeInv, Untried
  <1>7. ASSUME NEW s \in Sockets PROVE Listens(s)'
    BY <1>1 DEF Inv, TypeInv, Listens
  <1>8. ASSUME NEW s \in Sockets PROVE Connects(s)'
    BY <1>1 DEF Inv, TypeInv, Connects
  <1>9. ASSUME NEW s \in Sockets PROVE Lists(s)'
    BY <1>1 DEF Inv, Lists, Untried, Working
  <1>10. ASSUME NEW s \in Sockets PROVE Closes(s)'
    BY <1>1 DEF Inv, TypeInv, Closes
  <1>11. ASSUME NEW s \in Sockets PROVE Ages(s)'
    BY <1>1 DEF Inv, TypeInv, Ages
  <1>12. ASSUME NEW s \in Sockets PROVE Holds(s)'
    BY <1>1 DEF Inv, Holds, Making
  <1>13. ASSUME NEW s \in Sockets PROVE Makes(s)'
    BY <1>1 DEF Inv, TypeInv, Makes, Making
  <1>14. ASSUME NEW s \in Sockets PROVE Held(s)'
    BY <1>1 DEF Inv, Held, Listening
  <1>15. ASSUME NEW s \in Sockets PROVE Queues(s)'
    BY <1>1 DEF Inv, TypeInv, Queues
  <1>16. QED
    BY <1>2, <1>3, <1>4, <1>5, <1>6, <1>7, <1>8, <1>9, <1>10, <1>11, <1>12, <1>13, <1>14,
       <1>15 DEF Inv

(* newConnection enters the new socket among the live ones.                *)
LEMMA NewInsertStep ==
  ASSUME Inv, NEW x \in Sockets, NewInsert(x)
  PROVE  Inv'
  <1>1. PICK a \in Sockets :
       /\ worker[x].new = a /\ a \notin aged /\ call[a] = "none"
       /\ listenSocket[a] = worker[x].sock /\ worker[x].sock \in Sockets
       /\ \A n \in Sockets : a \notin queued[n]
       /\ \A n \in Sockets : worker[n].new = a => n = x
       /\ status[a] = "CONNECTED" /\ flags[a] = {"opened", "connected"} /\ mux[a] = x
       /\ worker[x].pc = "insert" /\ where[a] = "new"
       /\ where' = [where EXCEPT ![a] = "live"]
       /\ worker' = [worker EXCEPT ![x].pc = "queue"]
       /\ UNCHANGED <<made, status, flags, aged, linger, sndData, listenSocket, call,
                    acceptPc, queued, mux, refCount, listener, connectors, newEntry,
                    ulist, onList, sndList, aborted, lingered, gc>>
    BY NoneIsNone DEF Inv, TypeInv, Holds, Makes, Making, NewInsert
  <1>2. TypeInv'
    BY <1>1 DEF Inv, TypeInv, States, Flags
  <1>3. Collects'
    BY <1>1 DEF Inv, TypeInv, Collects
  <1>4. ASSUME NEW s \in Sockets PROVE Places(s)'
    BY <1>1 DEF Inv, TypeInv, Places
  <1>5. ASSUME NEW s \in Sockets PROVE Untried(s)'
    BY <1>1 DEF Inv, TypeInv, Untried
  <1>6. ASSUME NEW s \in Sockets PROVE Listens(s)'
    BY <1>1 DEF Inv, TypeInv, Listens
  <1>7. ASSUME NEW s \in Sockets PROVE Connects(s)'
    BY <1>1 DEF Inv, TypeInv, Connects
  <1>8. ASSUME NEW s \in Sockets PROVE Lists(s)'
    BY <1>1 DEF Inv, Lists, Working
  <1>9. ASSUME NEW s \in Sockets PROVE Closes(s)'
    BY <1>1 DEF Inv, TypeInv, Closes
  <1>10. ASSUME NEW s \in Sockets PROVE Ages(s)'
    BY <1>1 DEF Inv, TypeInv, Ages
  <1>11. ASSUME NEW s \in Sockets PROVE Holds(s)'
    BY <1>1 DEF Inv, Holds, Making
  <1>12. ASSUME NEW s \in Sockets PROVE Makes(s)'
    BY <1>1 DEF Inv, TypeInv, Makes, Making
  <1>13. ASSUME NEW s \in Sockets PROVE Held(s)'
    BY <1>1 DEF Inv, Held, Listening
  <1>14. ASSUME NEW s \in Sockets PROVE Queues(s)'
    BY <1>1 DEF Inv, TypeInv, Queues
  <1>15. ASSUME NEW s \in Sockets PROVE Left(s)'
    BY <1>1 DEF Inv, TypeInv, Left
  <1>16. QED
    BY <1>2, <1>3, <1>4, <1>5, <1>6, <1>7, <1>8, <1>9, <1>10, <1>11, <1>12, <1>13, <1>14,
       <1>15 DEF Inv

(* newConnection queues the new socket, still live and not closed.         *)
LEMMA NewQueueStep ==
  ASSUME Inv, NEW x \in Sockets, NewQueue(x)
  PROVE  Inv'
  <1>1. PICK a \in Sockets, l \in Sockets :
       /\ worker[x].sock = l
       /\ worker[x].new = a /\ a \notin aged /\ call[a] = "none"
       /\ listenSocket[a] = worker[x].sock /\ worker[x].sock \in Sockets
       /\ \A n \in Sockets : a \notin queued[n]
       /\ \A n \in Sockets : worker[n].new = a => n = x
       /\ status[a] = "CONNECTED" /\ flags[a] = {"opened", "connected"} /\ mux[a] = x
       /\ worker[x].pc = "queue" /\ where[a] = "live"
       /\ queued' = [queued EXCEPT ![l] = @ \cup {a}]
       /\ acceptPc' = [acceptPc EXCEPT ![l] = Woken(l)]
       /\ worker' = [worker EXCEPT ![x] = Idle]
       /\ UNCHANGED <<made, where, status, flags, aged, linger, sndData, listenSocket, call,
                    mux, refCount, listener, connectors, newEntry, ulist, onList, sndList,
                    aborted, lingered, gc>>
    BY NoneIsNone DEF Inv, TypeInv, Holds, Makes, Making, NewQueue
  <1>2. TypeInv'
    BY <1>1 DEF Inv, TypeInv, Woken
  <1>3. Collects'
    BY <1>1 DEF Inv, Collects
  <1>4. ASSUME NEW s \in Sockets
        PROVE  Untried(s)' /\ Listens(s)' /\ Connects(s)' /\ Lists(s)' /\ Closes(s)' /\
                  Left(s)'
    BY Frames, <1>1 DEF Inv
  <1>5. ASSUME NEW s \in Sockets PROVE Places(s)'
    BY <1>1 DEF Inv, Places, Woken
  <1>6. ASSUME NEW s \in Sockets PROVE Ages(s)'
    BY <1>1 DEF Inv, Ages, Woken
  <1>7. ASSUME NEW s \in Sockets PROVE Holds(s)'
    BY <1>1 DEF Inv, TypeInv, Holds
  <1>8. ASSUME NEW s \in Sockets PROVE Makes(s)'
    BY <1>1 DEF Inv, TypeInv, Makes, Making
  <1>9. ASSUME NEW s \in Sockets PROVE Held(s)'
    BY <1>1, NoneIsNone DEF Inv, TypeInv, Held
  <1>10. ASSUME NEW s \in Sockets PROVE Queues(s)'
    BY <1>1 DEF Inv, TypeInv, Queues
  <1>11. QED
    BY <1>2, <1>3, <1>4, <1>5, <1>6, <1>7, <1>8, <1>9, <1>10 DEF Inv

(* A worker finds a socket that connects in the rendezvous queue.          *)
LEMMA ResponseStep ==
  ASSUME Inv, NEW x \in Sockets, Response(x)
  PROVE  Inv'
  <1>1. /\ mux[x] \in Sockets /\ x \in connectors
       /\ worker' = [worker EXCEPT ![mux[x]] = [Idle EXCEPT !.pc = "connect", !.sock = x]]
       /\ UNCHANGED <<made, where, status, flags, aged, linger, sndData, listenSocket, call,
                    acceptPc, queued, mux, refCount, listener, connectors, newEntry,
                    ulist, onList, sndList, aborted, lingered, gc>>
    BY DEF Inv, TypeInv, Response, Ready
  <1>2. TypeInv'
    BY <1>1 DEF Inv, TypeInv, States
  <1>3. Collects'
    BY <1>1 DEF Inv, Collects
  <1>4. ASSUME NEW s \in Sockets
        PROVE  Places(s)' /\ Untried(s)' /\ Listens(s)' /\ Connects(s)' /\ Lists(s)' /\
                  Closes(s)' /\ Ages(s)' /\ Queues(s)' /\ Left(s)'
    BY Frames, <1>1 DEF Inv
  <1>5. ASSUME NEW s \in Sockets PROVE Holds(s)'
    BY <1>1, NoneIsNone DEF Inv, Holds, Connects
  <1>6. ASSUME NEW s \in Sockets PROVE Makes(s)'
    BY <1>1 DEF Inv, Makes, Making
  <1>7. ASSUME NEW s \in Sockets PROVE Held(s)'
    BY <1>1 DEF Inv, Held, Ages, Connects
  <1>8. QED
    BY <1>2, <1>3, <1>4, <1>5, <1>6, <1>7 DEF Inv

(* postConnect when the socket is still connecting: connected, and on the  *)
(* worker's lists.                                                         *)
LEMMA Established ==
  ASSUME Inv, NEW x \in Sockets, PostConnect(x), On(worker[x].sock, "connecting")
  PROVE  Inv'
  <1>1. PICK c \in Sockets :
       /\ worker[x].sock = c /\ worker[x].pc = "connect" /\ worker[x].new = None
       /\ "connecting" \in flags[c] /\ status[c] \in {"CONNECTING", "CONNECTED", "CLOSED"}
       /\ connectors' = connectors \ {c}
       /\ flags' = [flags EXCEPT ![c] = (@ \ {"connecting"}) \cup {"connected"}]
       /\ onList' = onList \cup {c} /\ newEntry' = newEntry \cup {c}
       /\ worker' = [worker EXCEPT ![x].pc = "complete"]
       /\ UNCHANGED <<made, where, status, aged, linger, sndData, listenSocket, call,
                    acceptPc, queued, mux, refCount, listener, ulist, sndList, aborted,
                    lingered, gc>>
    BY NoneIsNone DEF Inv, TypeInv, Holds, Making, PostConnect, Listed
  <1>2. TypeInv'
    BY <1>1 DEF Inv, TypeInv, Flags
  <1>3. Collects'
    BY <1>1 DEF Inv, Collects, Held, Listening
  <1>4. ASSUME NEW s \in Sockets PROVE Places(s)' /\ Queues(s)' /\ Left(s)'
    BY Frames, <1>1 DEF Inv
  <1>5. ASSUME NEW s \in Sockets PROVE Untried(s)'
    BY <1>1 DEF Inv, TypeInv, Untried
  <1>6. ASSUME NEW s \in Sockets PROVE Listens(s)'
    BY <1>1 DEF Inv, TypeInv, Listens
  <1>7. ASSUME NEW s \in Sockets PROVE Connects(s)'
    BY <1>1 DEF Inv, TypeInv, Connects
  <1>8. ASSUME NEW s \in Sockets PROVE Lists(s)'
    BY <1>1 DEF Inv, TypeInv, Lists, Connects, Held, Places, Working, Listening
  <1>9. ASSUME NEW s \in Sockets PROVE Closes(s)'
    BY <1>1 DEF Inv, TypeInv, Closes
  <1>10. ASSUME NEW s \in Sockets PROVE Ages(s)'
    BY <1>1 DEF Inv, TypeInv, Ages
  <1>11. ASSUME NEW s \in Sockets PROVE Holds(s)'
    BY <1>1 DEF Inv, Holds, Held, Making, Listening
  <1>12. ASSUME NEW s \in Sockets PROVE Makes(s)'
    BY <1>1 DEF Inv, Makes, Making
  <1>13. ASSUME NEW s \in Sockets PROVE Held(s)'
    BY <1>1 DEF Inv, Held, Listening
  <1>14. QED
    BY <1>2, <1>3, <1>4, <1>5, <1>6, <1>7, <1>8, <1>9, <1>10, <1>11, <1>12, <1>13 DEF Inv

(* postConnect when the connect was given up meanwhile.                    *)
LEMMA GaveUp ==
  ASSUME Inv, NEW x \in Sockets, PostConnect(x), ~On(worker[x].sock, "connecting")
  PROVE  Inv'
  <1>1. PICK c \in Sockets :
       /\ worker[x].sock = c /\ worker[x].pc = "connect" /\ worker[x].new = None
       /\ worker' = [worker EXCEPT ![x] = Idle]
       /\ UNCHANGED <<made, where, status, flags, aged, linger, sndData, listenSocket, call,
                    acceptPc, queued, mux, refCount, listener, connectors, newEntry,
                    ulist, onList, sndList, aborted, lingered, gc>>
    BY NoneIsNone DEF Inv, TypeInv, Holds, Making, PostConnect
  <1>2. TypeInv'
    BY <1>1 DEF Inv, TypeInv, States
  <1>3. Collects'
    BY <1>1 DEF Inv, Collects
  <1>4. ASSUME NEW s \in Sockets
        PROVE  Places(s)' /\ Untried(s)' /\ Listens(s)' /\ Connects(s)' /\ Lists(s)' /\
                  Closes(s)' /\ Ages(s)' /\ Queues(s)' /\ Left(s)'
    BY Frames, <1>1 DEF Inv
  <1>5. ASSUME NEW s \in Sockets PROVE Holds(s)'
    BY <1>1 DEF Inv, TypeInv, Holds
  <1>6. ASSUME NEW s \in Sockets PROVE Makes(s)'
    BY <1>1 DEF Inv, Makes, Making
  <1>7. ASSUME NEW s \in Sockets PROVE Held(s)'
    BY <1>1, NoneIsNone DEF Inv, TypeInv, Held
  <1>8. QED
    BY <1>2, <1>3, <1>4, <1>5, <1>6, <1>7 DEF Inv

(* connect(response) and postConnect, when the connect was given up or not. *)
LEMMA PostConnectStep ==
  ASSUME Inv, NEW x \in Sockets, PostConnect(x)
  PROVE  Inv'
  BY Established, GaveUp DEF PostConnect

(* connect_complete marks a socket that is still there.                    *)
LEMMA ConnectCompleteStep ==
  ASSUME Inv, NEW x \in Sockets, ConnectComplete(x)
  PROVE  Inv'
  <1>1. PICK c \in Sockets :
       /\ worker[x].sock = c /\ worker[x].pc = "complete"
       /\ status[c] \in {"CONNECTING", "CONNECTED", "CLOSED"}
       /\ \/ status' = status
          \/ /\ where[c] = "live" /\ status[c] # "CLOSED"
             /\ status' = [status EXCEPT ![c] = "CONNECTED"]
       /\ aborted' \in {aborted, TRUE}
       /\ worker' = [worker EXCEPT ![x] = Idle]
       /\ UNCHANGED <<made, where, flags, aged, linger, sndData, listenSocket, call,
                    acceptPc, queued, mux, refCount, listener, connectors, newEntry,
                    ulist, onList, sndList, lingered, gc>>
    BY NoneIsNone DEF Inv, TypeInv, Holds, ConnectComplete, Located
  <1>2. TypeInv'
    BY <1>1 DEF Inv, TypeInv, States, Flags
  <1>3. Collects'
    BY <1>1 DEF Inv, Collects
  <1>4. ASSUME NEW s \in Sockets PROVE Lists(s)' /\ Closes(s)' /\ Left(s)'
    BY Frames, <1>1 DEF Inv
  <1>5. ASSUME NEW s \in Sockets PROVE Places(s)'
    BY <1>1 DEF Inv, TypeInv, Places
  <1>6. ASSUME NEW s \in Sockets PROVE Untried(s)'
    BY <1>1 DEF Inv, TypeInv, Untried
  <1>7. ASSUME NEW s \in Sockets PROVE Listens(s)'
    BY <1>1, NoneIsNone DEF Inv, TypeInv, Listens
  <1>8. ASSUME NEW s \in Sockets PROVE Connects(s)'
    BY <1>1 DEF Inv, TypeInv, Connects
  <1>9. ASSUME NEW s \in Sockets PROVE Ages(s)'
    BY <1>1 DEF Inv, TypeInv, Ages
  <1>10. ASSUME NEW s \in Sockets PROVE Holds(s)'
    BY <1>1, NoneIsNone DEF Inv, TypeInv, Holds
  <1>11. ASSUME NEW s \in Sockets PROVE Makes(s)'
    BY <1>1 DEF Inv, TypeInv, Makes, Making
  <1>12. ASSUME NEW s \in Sockets PROVE Held(s)'
    BY <1>1, NoneIsNone DEF Inv, TypeInv, Held
  <1>13. ASSUME NEW s \in Sockets PROVE Queues(s)'
    BY <1>1 DEF Inv, TypeInv, Queues
  <1>14. QED
    BY <1>2, <1>3, <1>4, <1>5, <1>6, <1>7, <1>8, <1>9, <1>10, <1>11, <1>12, <1>13 DEF Inv

(* A connect that is given up stays in the rendezvous queue, no longer     *)
(* connecting.                                                             *)
LEMMA ExpireStep ==
  ASSUME Inv, NEW x \in Sockets, Expire(x)
  PROVE  Inv'
  <1>1. TypeInv'
    BY DEF Inv, TypeInv, Expire
  <1>2. Collects'
    BY DEF Inv, Collects, Expire
  <1>3. ASSUME NEW s \in Sockets PROVE Places(s)' /\ Holds(s)' /\ Queues(s)' /\ Left(s)'
    BY Frames DEF Inv, Expire
  <1>4. ASSUME NEW s \in Sockets PROVE Untried(s)'
    BY DEF Inv, Untried, Expire
  <1>5. ASSUME NEW s \in Sockets PROVE Listens(s)'
    BY DEF Inv, Listens, Expire
  <1>6. ASSUME NEW s \in Sockets PROVE Connects(s)'
    BY DEF Inv, Connects, Expire
  <1>7. ASSUME NEW s \in Sockets PROVE Lists(s)'
    BY DEF Inv, Lists, Expire, Working
  <1>8. ASSUME NEW s \in Sockets PROVE Closes(s)'
    BY DEF Inv, Closes, Expire
  <1>9. ASSUME NEW s \in Sockets PROVE Ages(s)'
    BY DEF Inv, Ages, Expire
  <1>10. ASSUME NEW s \in Sockets PROVE Makes(s)'
    BY DEF Inv, Makes, Expire
  <1>11. ASSUME NEW s \in Sockets PROVE Held(s)'
    BY DEF Inv, Held, Expire
  <1>12. QED
    BY <1>1, <1>2, <1>3, <1>4, <1>5, <1>6, <1>7, <1>8, <1>9, <1>10, <1>11 DEF Inv

(* A worker takes a new socket onto its lists.                             *)
LEMMA TakeEntryStep ==
  ASSUME Inv, NEW x \in Sockets, TakeEntry(x)
  PROVE  Inv'
  <1>1. TypeInv'
    BY DEF Inv, TypeInv, TakeEntry
  <1>2. Collects'
    BY DEF Inv, Collects, TakeEntry
  <1>3. ASSUME NEW s \in Sockets
        PROVE  Places(s)' /\ Listens(s)' /\ Closes(s)' /\ Ages(s)' /\ Holds(s)' /\ Makes(s)'
                  /\ Held(s)' /\ Queues(s)' /\ Left(s)'
    BY Frames DEF Inv, TakeEntry
  <1>4. ASSUME NEW s \in Sockets PROVE Untried(s)'
    BY DEF Inv, Untried, TakeEntry
  <1>5. ASSUME NEW s \in Sockets PROVE Connects(s)'
    BY DEF Inv, Connects, TakeEntry
  <1>6. ASSUME NEW s \in Sockets PROVE Lists(s)'
    BY DEF Inv, Lists, TakeEntry, Working
  <1>7. QED
    BY <1>1, <1>2, <1>3, <1>4, <1>5, <1>6 DEF Inv

(* A worker drops a socket that no longer works.                           *)
LEMMA DropDeadStep ==
  ASSUME Inv, NEW x \in Sockets, DropDead(x)
  PROVE  Inv'
  <1>1. TypeInv'
    BY DEF Inv, TypeInv, DropDead
  <1>2. Collects'
    BY DEF Inv, Collects, DropDead
  <1>3. ASSUME NEW s \in Sockets
        PROVE  Places(s)' /\ Listens(s)' /\ Closes(s)' /\ Ages(s)' /\ Holds(s)' /\ Makes(s)'
                  /\ Held(s)' /\ Queues(s)' /\ Left(s)'
    BY Frames DEF Inv, DropDead
  <1>4. ASSUME NEW s \in Sockets PROVE Untried(s)'
    BY DEF Inv, Untried, DropDead
  <1>5. ASSUME NEW s \in Sockets PROVE Connects(s)'
    BY DEF Inv, Connects, DropDead
  <1>6. ASSUME NEW s \in Sockets PROVE Lists(s)'
    BY DEF Inv, Lists, DropDead, Working
  <1>7. QED
    BY <1>1, <1>2, <1>3, <1>4, <1>5, <1>6 DEF Inv

(* A connection breaks: the socket is closing, and broken.                 *)
LEMMA BreakStep ==
  ASSUME Inv, NEW x \in Sockets, Break(x)
  PROVE  Inv'
  <1>1. TypeInv'
    BY DEF Inv, TypeInv, Break, Flags
  <1>2. Collects'
    BY DEF Inv, Collects, Break
  <1>3. ASSUME NEW s \in Sockets PROVE Places(s)' /\ Holds(s)' /\ Queues(s)' /\ Left(s)'
    BY Frames DEF Inv, Break
  <1>4. ASSUME NEW s \in Sockets PROVE Untried(s)'
    BY DEF Inv, Untried, Break
  <1>5. ASSUME NEW s \in Sockets PROVE Listens(s)'
    BY DEF Inv, Listens, Break
  <1>6. ASSUME NEW s \in Sockets PROVE Connects(s)'
    BY DEF Inv, Connects, Break
  <1>7. ASSUME NEW s \in Sockets PROVE Lists(s)'
    BY DEF Inv, Lists, Break, Working
  <1>8. ASSUME NEW s \in Sockets PROVE Closes(s)'
    BY DEF Inv, Closes, Break
  <1>9. ASSUME NEW s \in Sockets PROVE Ages(s)'
    BY DEF Inv, Ages, Break
  <1>10. ASSUME NEW s \in Sockets PROVE Makes(s)'
    BY DEF Inv, Makes, Break, Ready
  <1>11. ASSUME NEW s \in Sockets PROVE Held(s)'
    BY DEF Inv, Held, Break
  <1>12. QED
    BY <1>1, <1>2, <1>3, <1>4, <1>5, <1>6, <1>7, <1>8, <1>9, <1>10, <1>11 DEF Inv

(* An ACK frees the data of a socket that works.                           *)
LEMMA AckStep ==
  ASSUME Inv, NEW x \in Sockets, Ack(x)
  PROVE  Inv'
  <1>1. TypeInv'
    BY DEF Inv, TypeInv, Ack
  <1>2. Collects'
    BY DEF Inv, Collects, Ack
  <1>3. ASSUME NEW s \in Sockets
        PROVE  Places(s)' /\ Listens(s)' /\ Ages(s)' /\ Holds(s)' /\ Makes(s)' /\ Held(s)'
                  /\ Queues(s)'
    BY Frames DEF Inv, Ack
  <1>4. ASSUME NEW s \in Sockets PROVE Untried(s)'
    BY DEF Inv, Untried, Ack
  <1>5. ASSUME NEW s \in Sockets PROVE Connects(s)'
    BY DEF Inv, Connects, Ack
  <1>6. ASSUME NEW s \in Sockets PROVE Lists(s)'
    BY DEF Inv, Lists, Ack, Working
  <1>7. ASSUME NEW s \in Sockets PROVE Closes(s)'
    BY DEF Inv, Closes, Ack
  <1>8. ASSUME NEW s \in Sockets PROVE Left(s)'
    BY DEF Inv, Left, Lists, Ack
  <1>9. QED
    BY <1>1, <1>2, <1>3, <1>4, <1>5, <1>6, <1>7, <1>8 DEF Inv

(* The sending worker pops a socket.                                       *)
LEMMA SndPopStep ==
  ASSUME Inv, NEW x \in Sockets, SndPop(x)
  PROVE  Inv'
  <1>1. TypeInv'
    BY DEF Inv, TypeInv, SndPop
  <1>2. Collects'
    BY DEF Inv, Collects, SndPop
  <1>3. ASSUME NEW s \in Sockets
        PROVE  Places(s)' /\ Listens(s)' /\ Closes(s)' /\ Ages(s)' /\ Holds(s)' /\ Makes(s)'
                  /\ Held(s)' /\ Queues(s)'
    BY Frames DEF Inv, SndPop
  <1>4. ASSUME NEW s \in Sockets PROVE Untried(s)'
    BY DEF Inv, Untried, SndPop
  <1>5. ASSUME NEW s \in Sockets PROVE Connects(s)'
    BY DEF Inv, Connects, SndPop
  <1>6. ASSUME NEW s \in Sockets PROVE Lists(s)'
    BY DEF Inv, Lists, SndPop, Working
  <1>7. ASSUME NEW s \in Sockets PROVE Left(s)'
    BY DEF Inv, Left, SndPop
  <1>8. QED
    BY <1>1, <1>2, <1>3, <1>4, <1>5, <1>6, <1>7 DEF Inv

(* The removal timer runs out when no call is in the socket.               *)
LEMMA AgeStep ==
  ASSUME Inv, NEW x \in Sockets, Age(x)
  PROVE  Inv'
  <1>1. TypeInv'
    BY DEF Inv, TypeInv, Age
  <1>2. Collects'
    BY DEF Inv, Collects, Age
  <1>3. ASSUME NEW s \in Sockets
        PROVE  Untried(s)' /\ Listens(s)' /\ Connects(s)' /\ Lists(s)' /\ Closes(s)' /\
                  Queues(s)' /\ Left(s)'
    BY Frames DEF Inv, Age
  <1>4. ASSUME NEW s \in Sockets PROVE Places(s)'
    BY DEF Inv, Places, Age
  <1>5. ASSUME NEW s \in Sockets PROVE Ages(s)'
    BY DEF Inv, Ages, Age, Untouched
  <1>6. ASSUME NEW s \in Sockets PROVE Holds(s)'
    BY DEF Inv, Holds, Age, Untouched
  <1>7. ASSUME NEW s \in Sockets PROVE Makes(s)'
    BY DEF Inv, Makes, Age, Untouched
  <1>8. ASSUME NEW s \in Sockets PROVE Held(s)'
    BY DEF Inv, Held, Age, Untouched
  <1>9. QED
    BY <1>1, <1>2, <1>3, <1>4, <1>5, <1>6, <1>7, <1>8 DEF Inv

-----------------------------------------------------------------------------
(* The garbage collector.                                                  *)

(* checkBrokenSockets: what is to be removed is closed, aged and off the   *)
(* worker's lists.                                                         *)
LEMMA CheckBrokenStep ==
  ASSUME Inv, NEW over \in SUBSET linger, CheckBroken(over)
  PROVE  Inv'
  <1>1. TypeInv'
    BY DEF Inv, TypeInv, CheckBroken, StillQueued, States, Flags
  <1>2. Collects'
    BY DEF Inv, Collects, CheckBroken, Removable
  <1>3. ASSUME NEW s \in Sockets PROVE Places(s)'
    BY DEF Inv, Places, CheckBroken, Doomed
  <1>4. ASSUME NEW s \in Sockets PROVE Untried(s)'
    BY DEF Inv, Untried, CheckBroken
  <1>5. ASSUME NEW s \in Sockets PROVE Listens(s)'
    BY DEF Inv, Listens, CheckBroken
  <1>6. ASSUME NEW s \in Sockets PROVE Connects(s)'
    BY DEF Inv, Connects, CheckBroken, Doomed
  <1>7. ASSUME NEW s \in Sockets PROVE Lists(s)'
    BY DEF Inv, Lists, CheckBroken, Doomed, Working
  <1>8. ASSUME NEW s \in Sockets PROVE Closes(s)'
    BY DEF Inv, Closes, CheckBroken
  <1>9. ASSUME NEW s \in Sockets PROVE Ages(s)'
    BY DEF Inv, Ages, CheckBroken
  <1>10. ASSUME NEW s \in Sockets PROVE Holds(s)'
    BY DEF Inv, TypeInv, Holds, CheckBroken
  <1>11. ASSUME NEW s \in Sockets PROVE Makes(s)'
    <2>1. /\ aged' \subseteq aged /\ UNCHANGED <<call, listenSocket, mux, worker>>
          /\ \A l \in Sockets : queued'[l] \subseteq queued[l]
      BY DEF CheckBroken, StillQueued
    <2>2. ASSUME NEW a \in Sockets, where[a] \in {"new", "live"},
                 where[a] = "live" => "broken" \notin flags[a]
          PROVE  where'[a] = where[a] /\ status'[a] = status[a] /\ flags'[a] = flags[a]
      BY <2>2 DEF CheckBroken, Doomed
    <2>3. worker[s].pc \in Making =>
            LET a == worker[s].new
            IN  /\ a \in Sockets /\ where[a] \in {"new", "live"}
                /\ where[a] = "live" => "broken" \notin flags[a]
      BY DEF Inv, TypeInv, Makes, Making
    <2>4. QED
      BY <2>1, <2>2, <2>3 DEF Inv, Makes
  <1>12. ASSUME NEW s \in Sockets PROVE Held(s)'
    BY DEF Inv, Held, CheckBroken
  <1>13. ASSUME NEW s \in Sockets PROVE Queues(s)'
    BY DEF Inv, TypeInv, Queues, CheckBroken, StillQueued
  <1>14. ASSUME NEW s \in Sockets PROVE Left(s)'
    BY DEF Inv, Left, CheckBroken
  <1>15. QED
    BY <1>1, <1>2, <1>3, <1>4, <1>5, <1>6, <1>7, <1>8, <1>9, <1>10, <1>11, <1>12, <1>13,
       <1>14 DEF Inv

(* removeSocket frees a socket, and closes those still queued at it.       *)
LEMMA RemoveSocketStep ==
  ASSUME Inv, NEW x \in Sockets, removeSocket(x)
  PROVE  Inv'
  <1>1. PICK q \in SUBSET Sockets, ends \in SUBSET Sockets :
       q = queued[x] /\ ends = q \cup (IF Returns(x) THEN {} ELSE {x})
    BY DEF Inv, TypeInv
  <1>2. 
       /\ where[x] = "closed" /\ x \in aged /\ x \notin onList /\ x \notin q
       /\ \A a \in q : /\ where[a] = "live" /\ listenSocket[a] = x /\ call[a] = "none"
                      /\ status[a] \in {"CONNECTED", "CLOSED"}
       /\ where' = [s \in Sockets |-> IF s = x THEN "freed"
                                       ELSE IF s \in q THEN "closed" ELSE where[s]]
       /\ status' = [s \in Sockets |-> IF s \in q THEN "CLOSED" ELSE status[s]]
       /\ flags' = [s \in Sockets |->
                       IF s = x THEN flags[s] \cap {"connecting"}
                       ELSE IF s \in ends
                         THEN (flags[s] \cup {"closing"} \cup (IF s \in q THEN {"broken"} ELSE {}))
                                \ {"opened", "connected", "listening"}
                         ELSE flags[s]]
       /\ aged' = aged \ (q \cup {x}) /\ linger' = linger \ {x}
       /\ queued' = [queued EXCEPT ![x] = {}]
       /\ sndList' = sndList \ {s \in ends : "connected" \in flags[s]}
       /\ connectors' = IF x \in ends /\ "connecting" \in flags[x]
                          THEN connectors \ {x} ELSE connectors
       /\ listener' = IF x \in ends
                        THEN [m \in Sockets |-> IF listener[m] = x THEN None ELSE listener[m]]
                        ELSE listener
       /\ UNCHANGED <<made, sndData, listenSocket, call, acceptPc, mux, newEntry, ulist,
                    onList, aborted, lingered, worker>>
    BY <1>1 DEF Inv, Collects, Queues, removeSocket, removeListener
  <1>3. TypeInv'
    <2>1. where' \in [Sockets -> {"none", "new", "live", "closed", "freed"}]
      BY <1>1, <1>2 DEF Inv, TypeInv
    <2>2. status' \in [Sockets -> States] /\ flags' \in [Sockets -> SUBSET Flags]
      BY <1>1, <1>2 DEF Inv, TypeInv, States, Flags
    <2>3. /\ aged' \subseteq Sockets /\ linger' \subseteq Sockets
          /\ sndList' \subseteq Sockets /\ connectors' \subseteq Sockets
      BY <1>1, <1>2 DEF Inv, TypeInv
    <2>4. queued' \in [Sockets -> SUBSET Sockets] /\ listener' \in [Sockets -> Sockets \cup {None}]
      BY <1>1, <1>2 DEF Inv, TypeInv
    <2>5. refCount' \in [Sockets -> Int]
      BY DEF Inv, TypeInv, removeSocket
    <2>6. gc' \in [pc : {"idle", "remove", "join"}, todo : SUBSET Sockets,
                   mux : Sockets \cup {None}]
      BY DEF Inv, TypeInv, removeSocket
    <2>7. QED
      BY <1>1, <1>2, <2>1, <2>2, <2>3, <2>4, <2>5, <2>6 DEF Inv, TypeInv
  <1>4. Collects'
    <2>1. gc'.todo \subseteq gc.todo \ {x} /\ (gc'.pc = "idle" => gc'.todo = {})
      BY DEF Inv, TypeInv, removeSocket
    <2>2. QED
      BY <1>1, <1>2, <2>1 DEF Inv, TypeInv, Collects
  <1>5. ASSUME NEW s \in Sockets PROVE Places(s)'
    BY <1>1, <1>2 DEF Inv, Places, Ages
  <1>6. ASSUME NEW s \in Sockets PROVE Untried(s)'
    BY <1>1, <1>2 DEF Inv, Places, Untried
  <1>7. ASSUME NEW s \in Sockets PROVE Listens(s)'
    BY <1>1, <1>2, NoneIsNone DEF Inv, Listens, Returns, Unsent
  <1>8. ASSUME NEW s \in Sockets PROVE Connects(s)'
    BY <1>1, <1>2, NoneIsNone DEF Inv, TypeInv, Connects
  <1>9. ASSUME NEW s \in Sockets PROVE Lists(s)'
    BY <1>1, <1>2 DEF Inv, Lists, Ages, Working
  <1>10. ASSUME NEW s \in Sockets PROVE Closes(s)'
    BY <1>1, <1>2 DEF Inv, TypeInv, Closes
  <1>11. ASSUME NEW s \in Sockets PROVE Ages(s)'
    BY <1>1, <1>2 DEF Inv, TypeInv, Ages
  <1>12. ASSUME NEW s \in Sockets PROVE Holds(s)'
    BY <1>1, <1>2 DEF Inv, TypeInv, Holds
  <1>13. ASSUME NEW s \in Sockets PROVE Makes(s)'
    BY <1>1, <1>2 DEF Inv, TypeInv, Makes
  <1>14. ASSUME NEW s \in Sockets PROVE Held(s)'
    BY <1>1, <1>2 DEF Inv, TypeInv, Held
  <1>15. ASSUME NEW s \in Sockets PROVE Queues(s)'
    BY <1>1, <1>2 DEF Inv, TypeInv, Queues
  <1>16. ASSUME NEW s \in Sockets PROVE Left(s)'
    <2>1. CASE s = x
      <3>1. x \in sndList => {"opened", "connected"} \subseteq flags[x] /\ ~Working(x)
        BY <1>1, <1>2 DEF Inv, Lists
      <3>2. x \in sndList' => x \in sndList /\ Returns(x)
        BY <1>1, <1>2, <3>1
      <3>3. x \in sndList' => x \in sndData /\ "broken" \notin flags[x] /\ "closing" \in flags[x]
        BY <3>1, <3>2 DEF Returns, Unsent, Working
      <3>4. call[x] = "none"
        BY <1>1, <1>2 DEF Inv, Ages
      <3>5. QED
        BY <1>1, <1>2, <2>1, <3>1, <3>2, <3>3, <3>4 DEF Inv, Closes, Left
    <2>2. CASE s # x
      BY <1>1, <1>2, <2>2 DEF Inv, TypeInv, Left
    <2>3. QED
      BY <2>1, <2>2
  <1>17. QED
    BY <1>3, <1>4, <1>5, <1>6, <1>7, <1>8, <1>9, <1>10, <1>11, <1>12, <1>13, <1>14, <1>15,
       <1>16 DEF Inv

(* The lists of a multiplexer that ends are emptied.                       *)
LEMMA JoinWorkerStep ==
  ASSUME Inv, JoinWorker
  PROVE  Inv'
  <1>1. TypeInv'
    BY DEF Inv, TypeInv, JoinWorker
  <1>2. Collects'
    BY DEF Inv, Collects, JoinWorker
  <1>3. ASSUME NEW s \in Sockets
        PROVE  Places(s)' /\ Closes(s)' /\ Ages(s)' /\ Holds(s)' /\ Makes(s)' /\ Held(s)' /\
                  Queues(s)'
    BY Frames DEF Inv, JoinWorker
  <1>4. ASSUME NEW s \in Sockets PROVE Untried(s)'
    BY DEF Inv, Untried, JoinWorker
  <1>5. ASSUME NEW s \in Sockets PROVE Listens(s)'
    BY NoneIsNone DEF Inv, Listens, JoinWorker
  <1>6. ASSUME NEW s \in Sockets PROVE Connects(s)'
    BY DEF Inv, Connects, JoinWorker
  <1>7. ASSUME NEW s \in Sockets PROVE Lists(s)'
    BY DEF Inv, Lists, JoinWorker, Working
  <1>8. ASSUME NEW s \in Sockets PROVE Left(s)'
    BY DEF Inv, Left, JoinWorker
  <1>9. QED
    BY <1>1, <1>2, <1>3, <1>4, <1>5, <1>6, <1>7, <1>8 DEF Inv

-----------------------------------------------------------------------------
(* The theorems.                                                           *)

(* No socket is made at first.                                             *)
LEMMA InitInv == Init => Inv
  <1> SUFFICES ASSUME Init PROVE Inv
    OBVIOUS
  <1>1. TypeInv
    <2>1. made \in 0 .. MaxSockets
      BY LifecycleAssumption DEF Init
    <2>2. worker \in [Sockets ->
            [pc : {"idle", "listen", "mux", "insert", "queue", "connect", "complete"},
             sock : Sockets \cup {None}, new : Sockets \cup {None}]]
      BY DEF Init
    <2>3. gc \in [pc : {"idle", "remove", "join"}, todo : SUBSET Sockets, mux : Sockets \cup {None}]
      BY DEF Init
    <2>4. /\ where \in [Sockets -> {"none", "new", "live", "closed", "freed"}]
          /\ status \in [Sockets -> States] /\ flags \in [Sockets -> SUBSET Flags]
          /\ call \in [Sockets -> {"none", "linger", "stop", "unlink", "move"}]
          /\ acceptPc \in [Sockets -> {"none", "check", "wait"}]
          /\ queued \in [Sockets -> SUBSET Sockets]
      BY DEF Init, States
    <2>5. /\ listenSocket \in [Sockets -> Sockets \cup {None}]
          /\ mux \in [Sockets -> Sockets \cup {None}] /\ refCount \in [Sockets -> Int]
          /\ listener \in [Sockets -> Sockets \cup {None}]
      BY DEF Init
    <2>6. QED
      BY <2>1, <2>2, <2>3, <2>4, <2>5 DEF Init, TypeInv
  <1>2. Collects
    BY DEF Init, Collects
  <1>3. ASSUME NEW s \in Sockets
        PROVE  Places(s) /\ Untried(s) /\ Connects(s) /\ Lists(s) /\ Closes(s) /\ Ages(s) /\ Left(s)
    BY DEF Init, Places, Untried, Connects, Lists, Working, Closes, Ages, Left, Sockets
  <1>4. ASSUME NEW s \in Sockets
        PROVE  Listens(s) /\ Holds(s) /\ Makes(s) /\ Held(s) /\ Queues(s)
    BY NoneIsNone DEF Init, Listens, Holds, Makes, Making, Held, Queues
  <1>5. QED
    BY <1>1, <1>2, <1>3, <1>4 DEF Inv

(* Every step keeps the invariant: one lemma above per action.             *)
LEMMA StepInv == Inv /\ [Next]_vars => Inv'
  <1> SUFFICES ASSUME Inv, [Next]_vars PROVE Inv'
    OBVIOUS
  <1>1. CASE UNCHANGED vars
    <2>1. TypeInv' /\ Collects'
      BY <1>1 DEF Inv, TypeInv, Collects, vars
    <2>2. ASSUME NEW s \in Sockets
          PROVE  /\ Places(s)' /\ Untried(s)' /\ Listens(s)' /\ Connects(s)' /\ Lists(s)'
                 /\ Closes(s)' /\ Ages(s)' /\ Holds(s)' /\ Makes(s)' /\ Held(s)'
                 /\ Queues(s)' /\ Left(s)'
      BY <1>1, Frames DEF Inv, vars
    <2>3. QED
      BY <2>1, <2>2 DEF Inv
  <1>2. CASE NewSocket
    BY <1>2, NewSocketStep
  <1>3. ASSUME NEW s \in Sockets, Api(s) \/ AcceptTurn(s) \/ Closing(s)
        PROVE  Inv'
    BY <1>3, BindStep, ListenStep, AcceptBeginStep, ConnectStep, SendStep, CloseListenerStep,
       CloseBeginStep, AcceptTurnStep, CloseLingerStep, CloseStopStep, CloseUnlinkStep,
       CloseMoveStep DEF Api, Closing
  <1>4. ASSUME NEW m \in Sockets, Serving(m)
        PROVE  Inv'
    BY <1>4, NewConnectionStep, NewMuxStep, NewInsertStep, NewQueueStep, PostConnectStep,
       ConnectCompleteStep DEF Serving
  <1>5. ASSUME NEW s \in Sockets, Listing(s) \/ Peer(s) \/ SndPop(s) \/ Age(s)
        PROVE  Inv'
    BY <1>5, TakeEntryStep, DropDeadStep, RequestStep, ResponseStep, ExpireStep, BreakStep,
       AckStep, SndPopStep, AgeStep DEF Listing, Peer
  <1>6. ASSUME NEW s \in Sockets, removeSocket(s)
        PROVE  Inv'
    BY <1>6, RemoveSocketStep
  <1>7. ASSUME NEW over \in SUBSET linger, CheckBroken(over)
        PROVE  Inv'
    BY <1>7, CheckBrokenStep
  <1>8. CASE JoinWorker
    BY <1>8, JoinWorkerStep
  <1>9. QED
    BY <1>1, <1>2, <1>3, <1>4, <1>5, <1>6, <1>7, <1>8 DEF Next

(* The inductive invariant holds in every reachable state.                  *)
THEOREM Invariance == Spec => []Inv
  BY InitInv, StepInv, PTL DEF Spec

-----------------------------------------------------------------------------
(* Reference counts.                                                       *)

(* The sockets that use multiplexer m, for the collector has not freed them.*)
Users(m) == {s \in Sockets : mux[s] = m /\ where[s] # "freed"}

(* There are finitely many.                                                *)
LEMMA UsersFinite ==
  ASSUME NEW m
  PROVE  IsFiniteSet(Users(m)) /\ Cardinality(Users(m)) \in 0 .. MaxSockets
  <1>1. IsFiniteSet(Sockets) /\ Cardinality(Sockets) = MaxSockets
    BY FS_Interval, LifecycleAssumption DEF Sockets
  <1>2. Users(m) \subseteq Sockets
    BY DEF Users
  <1>3. QED
    BY <1>1, <1>2, FS_Subset, FS_CardinalityType, LifecycleAssumption

(* One more socket uses a multiplexer, and it counts one more.             *)
LEMMA JoinCounted ==
  ASSUME Inv, MuxCounted, NEW s \in Sockets, NEW m \in Sockets, mux[s] = None, where[s] # "freed",
         JoinMux(s, m), UNCHANGED where
  PROVE  MuxCounted'
  <1> SUFFICES ASSUME NEW n \in Sockets PROVE refCount'[n] = Cardinality(Users(n)')
    BY DEF MuxCounted, Users
  <1>1. mux \in [Sockets -> Sockets \cup {None}] /\ refCount \in [Sockets -> Int]
    BY DEF Inv, TypeInv
  <1>2. CASE n = m
    <2>1. Users(n)' = Users(n) \cup {s} /\ s \notin Users(n)
      BY <1>1, <1>2, NoneIsNone DEF Users, JoinMux
    <2>2. Cardinality(Users(n)') = Cardinality(Users(n)) + 1
      BY <2>1, UsersFinite, FS_AddElement
    <2>3. QED
      BY <1>1, <1>2, <2>2 DEF MuxCounted, Users, JoinMux
  <1>3. CASE n # m
    <2>1. Users(n)' = Users(n)
      BY <1>1, <1>3, NoneIsNone DEF Users, JoinMux
    <2>2. QED
      BY <1>1, <1>3, <2>1 DEF MuxCounted, Users, JoinMux
  <1>4. QED
    BY <1>2, <1>3

(* One socket is freed, and its multiplexer counts one less.               *)
LEMMA RemoveCounted ==
  ASSUME Inv, MuxCounted, NEW x \in Sockets, removeSocket(x)
  PROVE  MuxCounted'
  <1> SUFFICES ASSUME NEW n \in Sockets PROVE refCount'[n] = Cardinality(Users(n)')
    BY DEF MuxCounted, Users
  <1>1. /\ mux \in [Sockets -> Sockets \cup {None}] /\ refCount \in [Sockets -> Int]
        /\ where[x] = "closed" /\ \A a \in queued[x] : where[a] = "live"
    BY DEF Inv, TypeInv, Collects, Queues, removeSocket
  <1>2. \A s \in Sockets : where'[s] = "freed" <=> s = x \/ where[s] = "freed"
    BY <1>1 DEF removeSocket
  <1>3. Users(n)' = Users(n) \ {x}
    BY <1>2 DEF Users, removeSocket
  <1>4. CASE n = mux[x]
    <2>1. Cardinality(Users(n)') = Cardinality(Users(n)) - 1
      <3>1. x \in Users(n)
        BY <1>1, <1>4 DEF Users
      <3>2. QED
        BY <1>3, <3>1, UsersFinite, FS_RemoveElement
    <2>2. refCount'[n] = refCount[n] - 1
      BY <1>1, <1>4, NoneIsNone DEF removeSocket
    <2>3. QED
      BY <2>1, <2>2 DEF MuxCounted, Users
  <1>5. CASE n # mux[x]
    <2>1. Users(n)' = Users(n)
      BY <1>3, <1>5 DEF Users
    <2>2. refCount'[n] = refCount[n]
      BY <1>1, <1>5 DEF removeSocket
    <2>3. QED
      BY <2>1, <2>2 DEF MuxCounted, Users
  <1>6. QED
    BY <1>4, <1>5

(* A step that binds no socket to a multiplexer and frees none.            *)
LEMMA StillCounted ==
  ASSUME MuxCounted, UNCHANGED <<mux, refCount>>,
         \A s \in Sockets : where'[s] = "freed" <=> where[s] = "freed"
  PROVE  MuxCounted'
  <1>1. \A n \in Sockets : Users(n)' = Users(n)
    BY DEF Users
  <1>2. QED
    BY <1>1 DEF MuxCounted, Users

(* Only a socket that joins a multiplexer, by bind, listen, connect or     *)
(* newConnection, or is freed changes a count.                             *)
LEMMA StepCounted == Inv /\ MuxCounted /\ [Next]_vars => MuxCounted'
  <1> SUFFICES ASSUME Inv, MuxCounted, [Next]_vars PROVE MuxCounted'
    OBVIOUS
  <1>1. CASE UNCHANGED vars
    BY <1>1, StillCounted DEF vars
  <1>2. CASE NewSocket
    <2>1. /\ where[made + 1] = "none"
          /\ where \in [Sockets -> {"none", "new", "live", "closed", "freed"}]
      BY <1>2, LifecycleAssumption DEF Inv, TypeInv, Places, NewSocket, Sockets
    <2>2. QED
      BY <1>2, <2>1, StillCounted DEF NewSocket
  <1>3. ASSUME NEW s \in Sockets, Bind(s)
        PROVE  MuxCounted'
    BY <1>3, JoinCounted DEF Inv, Untried, Bind, AnyMux, Callable, Located
  <1>4. ASSUME NEW s \in Sockets, Connect(s)
        PROVE  MuxCounted'
    BY <1>4, JoinCounted, StillCounted DEF Inv, Untried, Connect, Callable, Located
  <1>5. ASSUME NEW m \in Sockets, NewMux(m)
        PROVE  MuxCounted'
    <2>1. worker[m].new \in Sockets /\ where[worker[m].new] = "new" /\ mux[worker[m].new] = None
      BY <1>5 DEF Inv, TypeInv, Makes, Making, Untried, NewMux
    <2>2. QED
      BY <1>5, <2>1, JoinCounted DEF NewMux
  <1>6. ASSUME NEW s \in Sockets, removeSocket(s)
        PROVE  MuxCounted'
    BY <1>6, RemoveCounted
  <1>7. ASSUME NEW m \in Sockets, NewConnection(m)
        PROVE  MuxCounted'
    <2>1. \A s \in Sockets : where'[s] = "freed" <=> where[s] = "freed"
      <3>1. CASE UNCHANGED where
        BY <3>1
      <3>2. CASE made < MaxSockets /\ where' = [where EXCEPT ![made + 1] = "new"]
        <4>1. /\ where[made + 1] = "none"
              /\ where \in [Sockets -> {"none", "new", "live", "closed", "freed"}]
          BY <3>2, LifecycleAssumption DEF Inv, TypeInv, Places, Sockets
        <4>2. QED
          BY <3>2, <4>1
      <3>3. QED
        BY <1>7, <3>1, <3>2 DEF NewConnection
    <2>2. QED
      BY <1>7, <2>1, StillCounted DEF NewConnection
  <1>8. ASSUME NEW m \in Sockets, NewInsert(m)
        PROVE  MuxCounted'
    BY <1>8, StillCounted DEF Inv, Makes, Making, NewInsert
  <1>9. ASSUME NEW s \in Sockets, CloseMove(s)
        PROVE  MuxCounted'
    BY <1>9, StillCounted DEF Inv, TypeInv, CloseMove, Located
  <1>10. ASSUME NEW over \in SUBSET linger, CheckBroken(over)
         PROVE  MuxCounted'
    BY <1>10, StillCounted DEF CheckBroken, Doomed
  <1>11. ASSUME NEW s \in Sockets,
                \/ Listen(s) \/ AcceptBegin(s) \/ Send(s) \/ CloseListener(s) \/ CloseBegin(s)
                \/ AcceptTurn(s) \/ CloseLinger(s) \/ CloseStop(s) \/ CloseUnlink(s)
                \/ NewQueue(s) \/ PostConnect(s) \/ ConnectComplete(s) \/ Listing(s) \/ Peer(s)
                \/ SndPop(s) \/ Age(s)
         PROVE  MuxCounted'
    BY <1>11, StillCounted DEF Listen, AcceptBegin, Send, CloseListener, CloseBegin, AcceptTurn,
       CloseLinger, CloseStop, CloseUnlink, NewQueue, PostConnect, ConnectComplete, Listing,
       TakeEntry, DropDead, Peer, Request, Response, Expire, Break, Ack, SndPop, Age
  <1>12. CASE JoinWorker
    BY <1>12, StillCounted DEF JoinWorker
  <1>13. QED
    BY <1>1, <1>2, <1>3, <1>4, <1>5, <1>6, <1>7, <1>8, <1>9, <1>10, <1>11, <1>12 DEF Next, Api,
       Closing, Serving

(* MuxCounted: a multiplexer counts the sockets that use it, so that its    *)
(* queues go with the last of them and not before.                         *)
THEOREM AlwaysCounted == Spec => []MuxCounted
  <1>1. Init => MuxCounted
    <2> SUFFICES ASSUME Init, NEW m \in Sockets PROVE refCount[m] = Cardinality(Users(m))
      BY DEF MuxCounted, Users
    <2>1. Users(m) = {}
      BY NoneIsNone DEF Init, Users
    <2>2. QED
      BY <2>1, FS_EmptySet DEF Init
  <1>2. QED
    BY <1>1, StepCounted, Invariance, PTL DEF Spec

(* TypeOK: the types, and the bound on the reference counts.               *)
THEOREM AlwaysTyped == Spec => []TypeOK
  <1>1. TypeInv /\ MuxCounted => TypeOK
    <2> SUFFICES ASSUME TypeInv, MuxCounted PROVE TypeOK
      OBVIOUS
    <2>1. ASSUME NEW m \in Sockets PROVE refCount[m] \in 0 .. MaxSockets
      <3>1. refCount[m] = Cardinality(Users(m))
        BY DEF MuxCounted, Users
      <3>2. QED
        BY <3>1, UsersFinite
    <2>2. refCount \in [Sockets -> 0 .. MaxSockets]
      BY <2>1 DEF TypeInv
    <2>3. QED
      BY <2>2 DEF TypeInv, TypeOK
  <1>2. Inv => TypeInv
    BY DEF Inv
  <1>3. QED
    BY <1>1, <1>2, Invariance, AlwaysCounted, PTL

(* QueuedLive: removeSocket finds every socket it looks up.                *)
THEOREM AlwaysQueuedLive == Spec => []QueuedLive
  <1>1. Inv => QueuedLive
    BY DEF Inv, Queues, QueuedLive
  <1>2. QED
    BY <1>1, Invariance, PTL

(* FreedUnused: when no request comes in for a listener that is about to be *)
(* freed, nothing holds a CUDT that is deleted but in the two ways named.   *)
THEOREM AlwaysUnused ==
  ASSUME LateRequests = FALSE
  PROVE  Spec => []FreedUnused
  <1>1. Inv => FreedUnused
    <2> SUFFICES ASSUME Inv, NEW s \in Sockets, where[s] = "freed"
                 PROVE  /\ s \notin newEntry \cup ulist
                        /\ s \in connectors => ~On(s, "connecting")
                        /\ s \in sndList => s \in lingered
                        /\ \A m \in Sockets :
                             /\ listener[m] # s
                             /\ worker[m].sock = s =>
                                  worker[m].pc = "connect" /\ ~On(s, "connecting")
                             /\ worker[m].new # s
      BY DEF FreedUnused
    <2>1. s \notin newEntry \cup ulist
      BY DEF Inv, Lists
    <2>2. s \in connectors => ~On(s, "connecting")
      BY DEF Inv, Connects
    <2>3. s \in sndList => s \in lingered
      BY DEF Inv, Left
    <2>4. ASSUME NEW m \in Sockets
          PROVE  /\ listener[m] # s
                 /\ worker[m].sock = s => worker[m].pc = "connect" /\ ~On(s, "connecting")
                 /\ worker[m].new # s
      <3>1. listener[m] # s
        BY DEF Inv, Listens
      <3>2. worker[m].sock = s => worker[m].pc = "connect" /\ ~On(s, "connecting")
        BY DEF Inv, Held
      <3>3. worker[m].new # s
        BY NoneIsNone DEF Inv, Holds, Makes, Making
      <3>4. QED
        BY <3>1, <3>2, <3>3
    <2>5. QED
      BY <2>1, <2>2, <2>3, <2>4
  <1>2. QED
    BY <1>1, Invariance, PTL
=============================================================================
