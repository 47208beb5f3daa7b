----------------------------- MODULE Handshake -----------------------------
(***************************************************************************)
(* Connection set-up: a caller's CUDT::connect, the listener's cookie and   *)
(* CUDTUnited::newConnection, and the rendezvous of two callers, over a     *)
(* network that delays, repeats and reorders packets (a packet once sent    *)
(* may arrive at any later time, any number of times, or never).           *)
(*                                                                         *)
(* Regular callers connect to one listener, the address Server; the two     *)
(* sockets of Pair connect to each other.  A socket is known by its number, *)
(* which is also its address unless it shares one (Addr).                  *)
(***************************************************************************)
EXTENDS Integers, Sequences, FiniteSets

CONSTANTS
  Callers, Pair,    \* regular callers; {} or two rendezvous sockets
  Sync,             \* those with UDT_RCVSYN set: connect() blocks
  Impatient,        \* those whose time may run out (a bound)
  Scenes,           \* the sets of sockets that may connect in one behaviour
  Addr, ISN, MSS,   \* of a caller: its address, m_iISN and m_iMSS
  ServerMSS,        \* the listener's m_iMSS
  Shift30,          \* 1 << 30: an m_iISN is below twice it (smaller here, a bound)
  Acceptors,        \* numbers for the sockets the listener makes (a bound)
  Breakable,        \* those whose connection may break (a bound)
  Backlog,          \* m_uiBackLog
  MaxMinute,        \* how often the cookie changes, and
  Turning,          \* in which scenes it does (bounds)
  MaxStored         \* packets kept for one caller (a bound; 17 in the code)

Socks  == Callers \cup Pair
Server == 0
Nobody == 0

ASSUME HandshakeAssumption ==
  /\ Callers \subseteq Nat \ {0} /\ Pair \subseteq Nat \ {0} /\ Acceptors \subseteq Nat \ {0}
  /\ Callers \cap Pair = {} /\ Acceptors \cap Socks = {}
  /\ Pair = {} \/ \E p, q \in Pair : p # q /\ Pair = {p, q}
  /\ Sync \subseteq Socks /\ Scenes \subseteq SUBSET Socks
  /\ Shift30 \in Nat \ {0}
  /\ \A c \in Socks : ISN[c] \in 0 .. 2 * Shift30 - 1 /\ MSS[c] \in Nat /\ Addr[c] \in Nat
  /\ ServerMSS \in Nat /\ Backlog \in Nat /\ MaxMinute \in Nat /\ MaxStored \in Nat

VARIABLES
  active,      \* the sockets of this behaviour
  status,      \* m_Status
  connecting, connected, \* sockets with m_bConnecting, m_bConnected
  registered,  \* sockets in their rendezvous queue
  timeOver,    \* sockets whose entry is past its m_ullTTL
  req, res,    \* m_ConnReq (type and cookie) and m_ConnRes
  peer,        \* m_PeerID, m_iPeerISN and m_iMSS once connected
  result,      \* what a blocking connect() returned
  stored,      \* m_mBuffer: packets kept for a blocking connect
  acc,         \* the sockets made by newConnection
  queued,      \* m_pQueuedSockets
  minute,      \* the time that goes into the cookie
  net          \* every packet ever sent

callVars == <<status, connecting, connected, registered, req, res, peer>>
syncVars == <<result, stored>>
servVars == <<acc, queued, minute>>
vars == <<active, timeOver, callVars, syncVars, servVars, net>>

NoHandshake == [type |-> 0, sock |-> 0, isn |-> 0, mss |-> 0, cookie |-> -1, known |-> FALSE]
NoSocket    == [peer |-> Nobody, isn |-> 0, mss |-> 0, state |-> "none"]

Init ==
  /\ active \in Scenes
  /\ status = [c \in Socks |-> "OPENED"]
  /\ connecting = {} /\ connected = {} /\ registered = {} /\ timeOver = {}
  /\ req = [c \in Socks |-> [type |-> 0, cookie |-> -1]]
  /\ res = [c \in Socks |-> NoHandshake] /\ peer = [c \in Socks |-> NoHandshake]
  /\ result = [c \in Socks |-> "none"] /\ stored = [c \in Socks |-> <<>>]
  /\ acc = [a \in Acceptors |-> NoSocket] /\ queued = {} /\ minute = 0 /\ net = {}

-----------------------------------------------------------------------------
(* Packets.  A handshake carries its sender's fields; id 0 is a request for *)
(* the listener or for whoever waits in the rendezvous queue.              *)
Handshake(from, to, id, type, sock, isn, mss, cookie) ==
  [kind |-> "hs", from |-> from, to |-> to, id |-> id, type |-> type, sock |-> sock,
   isn |-> isn, mss |-> mss, cookie |-> cookie]
DataPkt(from, to) ==
  [Handshake(from, to, to, 0, 0, 0, 0, -1) EXCEPT !.kind = "data"]

Fields(m) == [type |-> m.type, sock |-> m.sock, isn |-> m.isn, mss |-> m.mss,
              cookie |-> m.cookie, known |-> TRUE]

Partner(c) == CHOOSE d \in Pair : d # c
Far(c)     == IF c \in Pair THEN Partner(c) ELSE Server

Request(c, q, id) == Handshake(c, Far(c), id, q.type, c, ISN[c], MSS[c], q.cookie)

-----------------------------------------------------------------------------
(* The caller.  CUDT::connect(addr) refuses a socket that is connecting or  *)
(* connected and leaves it OPENED.                                         *)
(* The rendezvous queue, and the packets kept for a blocking connect.       *)
registerConnector(c) == registered' = registered \cup {c}
removeConnector(c)   == registered' = registered \ {c}
Dropped(c)           == [stored EXCEPT ![c] = <<>>]

Connect(c) ==
  LET q == [req[c] EXCEPT !.type = IF c \in Pair THEN 0 ELSE 1]
  IN  /\ c \in active /\ status[c] = "OPENED"
      /\ c \notin connecting \cup connected
      /\ status' = [status EXCEPT ![c] = "CONNECTING"]
      /\ connecting' = connecting \cup {c} /\ registerConnector(c)
      /\ req' = [req EXCEPT ![c] = q]
      /\ result' = [result EXCEPT ![c] = "none"]
      /\ net' = net \cup {Request(c, q, 0)}
      /\ UNCHANGED <<active, timeOver, connected, res, peer, stored, servVars>>

(* updateConnStatus and the loop of a blocking connect repeat the request.  *)
Resend(c) ==
  /\ c \in registered /\ c \notin timeOver
  /\ net' = net \cup {Request(c, req[c], IF c \in Pair THEN res[c].sock ELSE 0)}
  /\ UNCHANGED <<active, timeOver, callVars, syncVars, servVars>>

TimeOver(c) ==
  /\ c \in (registered \cap Impatient) \ timeOver
  /\ timeOver' = timeOver \cup {c}
  /\ UNCHANGED <<active, callVars, syncVars, servVars, net>>

(* updateConnStatus past the deadline; the entry stays in the queue.        *)
Expire(c) ==
  /\ c \in registered \cap timeOver
  /\ connecting' = connecting \ {c}
  /\ UNCHANGED <<active, timeOver, status, connected, registered, req, res, peer,
                 syncVars, servVars, net>>

-----------------------------------------------------------------------------
(* connect(response): -1 error, 0 done, 1 another handshake is needed.      *)

IsHs(m) == m.kind = "hs"

(* A data packet tells a rendezvous socket that its peer is connected: the  *)
(* handshake it has already is used.                                       *)
Implied(c, m) == c \in Pair /\ ~IsHs(m) /\ res[c].known
UnfinishedTwoWay(c, m) == IsHs(m) /\ (c \notin Pair) /\ m.type = 1
Unfinished(c, m) ==
  /\ IsHs(m)
  /\ IF c \in Pair THEN m.type # 1 /\ (req[c].type = 0 \/ m.type = 0) ELSE m.type = 1

Outcome(c, m) ==
  IF c \notin connecting THEN -1
  ELSE IF Unfinished(c, m) THEN 1
  ELSE IF Implied(c, m) \/ (IsHs(m) /\ ~(c \in Pair /\ m.type = 1)) THEN 0
  ELSE -1

Noted(c, m) == IF c \in connecting /\ IsHs(m) THEN Fields(m) ELSE res[c]

(* The cookie goes into every request from now on.                          *)
EchoedNone(c, m) == req[c].cookie
Echoed(c, m)     == IF c \in Pair THEN req[c].cookie ELSE m.cookie

connectResponse(c, m, st) ==
  LET out == Outcome(c, m)
  IN  /\ res' = [res EXCEPT ![c] = Noted(c, m)]
      /\ req' = IF out = 1
                  THEN [req EXCEPT ![c].type = -1, ![c].cookie = Echoed(c, m)]
                  ELSE req
      /\ IF out = 0
           THEN /\ removeConnector(c)
                /\ connecting' = connecting \ {c}
                /\ connected' = connected \cup {c}
                /\ peer' = [peer EXCEPT ![c] = Noted(c, m)]
                /\ status' = [status EXCEPT ![c] = st]
           ELSE /\ status' = [status EXCEPT ![c] = IF st = "OPENED" THEN st ELSE @]
                /\ UNCHANGED <<registered, connecting, connected, peer>>

(* A blocking connect takes the next stored packet; anything but 1 ends it, *)
(* and the checks after the loop decide what it returns.                   *)
EndedUnchecked(c, m) == IF Outcome(c, m) = 1 THEN "none" ELSE "ok"
Ended(c, m) ==
  IF Outcome(c, m) = 1 THEN "none"
  ELSE IF Noted(c, m).type = 1002 THEN "error"
  ELSE IF c \notin Pair /\ Noted(c, m).isn # ISN[c] THEN "error"
  ELSE "ok"

Waiting(c) == c \in Sync /\ status[c] = "CONNECTING" /\ result[c] = "none"

TakeStored(c) ==
  LET m == Head(stored[c])
  IN  /\ Waiting(c) /\ stored[c] # <<>>
      /\ connectResponse(c, m, IF Ended(c, m) = "error" THEN "OPENED" ELSE "CONNECTED")
      /\ result' = [result EXCEPT ![c] = Ended(c, m)]
      /\ stored' = IF Outcome(c, m) = 0 THEN Dropped(c) ELSE [stored EXCEPT ![c] = Tail(@)]
      /\ UNCHANGED <<active, timeOver, servVars, net>>

(* ... or gives up.  m_bConnecting and the queue entry stay.                *)
SyncTimeout(c) ==
  /\ Waiting(c) /\ c \in timeOver
  /\ result' = [result EXCEPT ![c] = "error"]
  /\ status' = [status EXCEPT ![c] = "OPENED"]
  /\ UNCHANGED <<active, timeOver, connecting, connected, registered, req, res, peer,
                 stored, servVars, net>>

-----------------------------------------------------------------------------
(* The caller's receiving worker.                                          *)

(* A connected rendezvous socket answers the handshakes of a peer that is   *)
(* not, with type -2.  (A regular one answers late ones of the listener,    *)
(* and its peer ignores that.)                                             *)
AnswersNew(m) == m.type = 0
Answers(m)    == m.type # -2

Rehandshake(c, m) ==
  /\ c \in connected /\ m.id = c /\ IsHs(m) /\ c \in Pair /\ Answers(m)
  /\ net' = net \cup {Handshake(c, Far(c), peer[c].sock, -2, c, ISN[c], peer[c].mss, -1)}
  /\ UNCHANGED <<active, timeOver, callVars, syncVars, servVars>>

(* An asynchronous connect goes on in the worker; a packet for a blocking   *)
(* one is kept for its thread.                                             *)
Respond(c, m) ==
  /\ c \in registered \ (connected \cup Sync)
  /\ connectResponse(c, m, "CONNECTED")
  /\ UNCHANGED <<active, timeOver, syncVars, servVars, net>>

storePkt(c, m) ==
  /\ c \in (registered \cap Sync) \ connected /\ Len(stored[c]) < MaxStored
  /\ stored' = [stored EXCEPT ![c] = Append(@, m)]
  /\ UNCHANGED <<active, timeOver, callVars, result, servVars, net>>

Deliver(c, m) ==
  /\ m.to = c /\ m.id \in {0, c}
  /\ Rehandshake(c, m) \/ Respond(c, m) \/ storePkt(c, m)

(* A connected rendezvous socket sends data.                               *)
SendData(c) ==
  /\ c \in connected \cap Pair
  /\ net' = net \cup {DataPkt(c, Far(c))}
  /\ UNCHANGED <<active, timeOver, callVars, syncVars, servVars>>

-----------------------------------------------------------------------------
(* The listener.                                                           *)

(* The first request is answered with a cookie; nothing is kept.            *)
SynCookie(m) ==
  /\ m.to = Server /\ m.type = 1
  /\ net' = net \cup {[m EXCEPT !.from = Server, !.to = m.sock, !.id = m.sock, !.cookie = minute]}
  /\ UNCHANGED <<active, timeOver, callVars, syncVars, servVars>>

(* The cookie of the last minute is not accepted either: the string that    *)
(* should give it again is appended to the one before.                     *)
CookieGood(m) == m.cookie = minute

(* The key of m_PeerRec is (id << 30) + isn, computed in 32 bits: two bits  *)
(* of the id are left, and they overlap the sequence number's highest.     *)
PeerKey(id, isn) == (id * Shift30 + isn) % (4 * Shift30)

SameIsn(a, m) ==
  /\ acc[a].state \in {"live", "broken"}
  /\ Addr[acc[a].peer] = Addr[m.sock] /\ acc[a].isn = m.isn
NeverSame(a, m) == FALSE
SameRequest(a, m) ==
  /\ acc[a].state \in {"live", "broken"}
  /\ Addr[acc[a].peer] = Addr[m.sock]
  /\ PeerKey(acc[a].peer, acc[a].isn) = PeerKey(m.sock, m.isn)

Known(m) == {a \in Acceptors : SameRequest(a, m)}

(* The backlog, with the sockets that are closed first taken off.           *)
FullBeyond(old) == Cardinality(queued \ old) > Backlog
Full(old)       == Cardinality(queued \ old) >= Backlog

Theirs(i, j)  == j
Smaller(i, j) == IF i <= j THEN i ELSE j
(* The answers echo the cookie too, which no caller reads again.            *)
Accepted(a, c, isn, mss) == Handshake(Server, c, c, -1, a, isn, mss, -1)
Rejected(m)         == Handshake(Server, m.sock, m.sock, 1002, m.sock, m.isn, m.mss, -1)

(* A socket that is known and alive: its answer was lost, or late.          *)
RepeatAnswer(m) ==
  \E a \in Known(m) :
    /\ acc[a].state = "live"
    /\ net' = net \cup {Accepted(a, m.sock, acc[a].isn, acc[a].mss)}
    /\ UNCHANGED <<acc, queued>>

Refuse(m, old) ==
  /\ Full(old)
  /\ net' = net \cup {Rejected(m)}
  /\ acc' = [a \in Acceptors |-> IF a \in old THEN [acc[a] EXCEPT !.state = "closed"] ELSE acc[a]]
  /\ queued' = queued \ old

Establish(m, old) ==
  LET mss == Smaller(ServerMSS, m.mss)
  IN  /\ ~Full(old)
      /\ \E a \in Acceptors :
           /\ acc[a].state = "none" /\ \A b \in Acceptors : b < a => acc[b].state # "none"
           /\ acc' = [b \in Acceptors |->
                        IF b = a THEN [peer |-> m.sock, isn |-> m.isn, mss |-> mss, state |-> "live"]
                        ELSE IF b \in old THEN [acc[b] EXCEPT !.state = "closed"] ELSE acc[b]]
           /\ queued' = (queued \ old) \cup {a}
           /\ net' = net \cup {Accepted(a, m.sock, m.isn, mss)}

(* newConnection, and the answer of listen().                              *)
NewConnection(m) ==
  /\ m.to = Server /\ m.type = -1 /\ CookieGood(m)
  /\ \/ RepeatAnswer(m)
     \/ /\ \A a \in Known(m) : acc[a].state = "broken"
        /\ Refuse(m, Known(m)) \/ Establish(m, Known(m))
  /\ UNCHANGED <<active, timeOver, callVars, syncVars, minute>>

Minute ==
  /\ minute < MaxMinute /\ active \in Turning
  /\ minute' = minute + 1
  /\ UNCHANGED <<active, timeOver, callVars, syncVars, acc, queued, net>>

(* The server's application, and the end of its connections.               *)
Accept(a) ==
  /\ a \in queued /\ queued' = queued \ {a}
  /\ UNCHANGED <<active, timeOver, callVars, syncVars, acc, minute, net>>

(* Data that overtakes the answer matters to a blocking connect only.       *)
AccData(a) ==
  /\ acc[a].state = "live" /\ acc[a].peer \in Sync
  /\ net' = net \cup {DataPkt(Server, acc[a].peer)}
  /\ UNCHANGED <<active, timeOver, callVars, syncVars, servVars>>

AccBreak(a) ==
  /\ acc[a].state = "live" /\ a \in Breakable
  /\ acc' = [acc EXCEPT ![a].state = "broken"]
  /\ UNCHANGED <<active, timeOver, callVars, syncVars, queued, minute, net>>

AccCollect(a) ==
  /\ acc[a].state = "broken"
  /\ acc' = [acc EXCEPT ![a].state = "closed"] /\ queued' = queued \ {a}
  /\ UNCHANGED <<active, timeOver, callVars, syncVars, minute, net>>

-----------------------------------------------------------------------------
Listen(m) == SynCookie(m) \/ NewConnection(m)
Caller(c) == Connect(c) \/ Resend(c) \/ TimeOver(c) \/ Expire(c) \/ TakeStored(c)
               \/ SyncTimeout(c) \/ SendData(c)
Acceptor(a) == Accept(a) \/ AccData(a) \/ AccBreak(a) \/ AccCollect(a)

Next ==
  \/ \E c \in Socks : Caller(c) \/ \E m \in net : Deliver(c, m)
  \/ \E m \in net : Listen(m)
  \/ \E a \in Acceptors : Acceptor(a)
  \/ Minute

Spec == Init /\ [][Next]_vars

(* A request is repeated, and one that is repeated arrives in the end; so   *)
(* does an answer that takes the caller further, whatever else arrives.     *)
Further(c, m) == IsHs(m) /\ (m.type \in {0, 1} => req[c].type # -1)
Fairness ==
  /\ \A c \in Socks :
       /\ WF_vars(Resend(c))
       /\ SF_vars(\E m \in net : Further(c, m) /\ Deliver(c, m))
  /\ \A c \in Sync : WF_vars(TakeStored(c))
  /\ \A c \in Callers : WF_vars(\E m \in net : m.sock = c /\ Listen(m))

LiveSpec == Spec /\ Fairness

-----------------------------------------------------------------------------
HsRecord == [type : {-2, -1, 0, 1, 1002}, sock : Nat, isn : Nat, mss : Nat, cookie : Int, known : BOOLEAN]

(* Type invariant: every field holds what its C++ counterpart may hold, and *)
(* the accept queue no more than the backlog.                              *)
TypeOK ==
  /\ active \in Scenes
  /\ status \in [Socks -> {"OPENED", "CONNECTING", "CONNECTED"}]
  /\ connecting \subseteq active /\ connected \subseteq active
  /\ registered \subseteq active /\ timeOver \subseteq active
  /\ \A c \in Socks : req[c].type \in {-1, 0, 1} /\ req[c].cookie \in -1 .. MaxMinute
  /\ res \in [Socks -> HsRecord] /\ peer \in [Socks -> HsRecord]
  /\ result \in [Socks -> {"none", "ok", "error"}]
  /\ \A c \in Socks : Len(stored[c]) <= MaxStored
  /\ \A a \in Acceptors : acc[a].state \in {"none", "live", "broken", "closed"}
                            /\ acc[a].peer \in Callers \cup {Nobody}
  /\ queued \subseteq Acceptors /\ Cardinality(queued) <= Backlog
  /\ minute \in 0 .. MaxMinute

Refused(c) == peer[c].type = 1002

(* A caller that is connected, and was not refused, is connected to the     *)
(* socket the listener made for it: both know each other and use the same   *)
(* initial sequence number and packet size, whatever was lost or repeated.  *)
BothEndsAgree ==
  \A c \in connected \cap Callers : Refused(c) \/
    \E a \in Acceptors :
      /\ peer[c].sock = a /\ acc[a].peer = c
      /\ acc[a].isn = ISN[c] /\ peer[c].isn = ISN[c]
      /\ peer[c].mss = acc[a].mss

(* However often a request is repeated, one live socket serves it.          *)
OneConnection ==
  \A a, b \in Acceptors :
    /\ acc[a].state = "live" /\ acc[b].state = "live"
    /\ acc[a].peer = acc[b].peer /\ acc[a].isn = acc[b].isn
    => a = b

(* Rendezvous sockets that are connected agree, and one that is connected   *)
(* has been heard by its peer: a handshake of the peer now bears its id, so *)
(* it reaches the connected socket and not the empty rendezvous queue.      *)
RendezvousAgree ==
  \A c \in connected \cap Pair :
    /\ peer[c].sock = Partner(c) /\ peer[c].isn = ISN[Partner(c)]
    /\ res[Partner(c)].known /\ res[Partner(c)].sock = c

(* No end sends packets larger than its peer's receiving queue was made     *)
(* for, although the ends of a rendezvous take each other's size.  The way  *)
(* out that the code leaves open is named: the third handshake (type -2)    *)
(* carries the size its sender took over, which is the receiver's own.      *)
PacketsFit ==
  /\ \A c \in connected \cap Callers : ~Refused(c) => peer[c].mss <= ServerMSS
  /\ \A c \in connected \cap Pair : peer[c].type = -2 \/ peer[c].mss <= MSS[Partner(c)]
  /\ \A a \in Acceptors : acc[a].state = "live" => acc[a].mss <= MSS[acc[a].peer]

(* A blocking connect that returns success is connected, but for the two    *)
(* ways the code leaves open: its time ran out just before an answer was    *)
(* read, or data overtook the answer.                                      *)
SuccessConnected ==
  \A c \in Sync : result[c] = "ok" =>
    \/ c \in connected /\ ~Refused(c)
    \/ c \in timeOver /\ c \notin connecting
    \/ DataPkt(Far(c), c) \in net

(* Once one end of a rendezvous is connected the other will be, unless its  *)
(* time is out: the third handshake is repeated until it arrives.           *)
RendezvousEnds ==
  \A c \in Pair : (c \in connected /\ Partner(c) \in connecting)
                     ~> (Partner(c) \in connected \cup timeOver \/ result[Partner(c)] # "none")

(* A caller is answered in the end, unless its time is out or the minute    *)
(* turns after it got its cookie (it never asks for another one).           *)
Settled(c) == c \in connected \cup timeOver \/ result[c] # "none"
Served ==
  \A c \in Callers :
    c \in connecting ~> Settled(c) \/ req[c].cookie \in 0 .. minute - 1

(* So is one that goes on with the cookie of the last minute: listen()      *)
(* means to accept that too, and draft-gg-udt-xx.txt 5.1 says of the server *)
(* "it must send back response packet as long as it receives any further    *)
(* handshakes from the same client".                                       *)
ServedLate ==
  \A c \in Callers : \A k \in 0 .. MaxMinute :
    (c \in connecting /\ req[c].cookie = k)
       ~> Settled(c) \/ req[c].cookie # k \/ k < minute - 1
=============================================================================
