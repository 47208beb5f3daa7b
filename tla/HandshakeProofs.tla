-------------------------- MODULE HandshakeProofs --------------------------
(***************************************************************************)
(* Theorems about Handshake, for any callers, addresses, packet sizes and   *)
(* backlog.  The inductive invariant says what a packet on the network      *)
(* proves of the socket that sent it: packets stay for ever, so only facts  *)
(* that once true stay true may be read from them.                         *)
(***************************************************************************)
EXTENDS Handshake, FiniteSetTheorems, TLAPS

Addresses == Socks \cup {Server}
Packet ==
  [kind : {"hs", "data"}, from : Addresses, to : Addresses, id : Nat,
   type : {-2, -1, 0, 1, 1002}, sock : Nat, isn : Nat, mss : Nat, cookie : Int]
Socket == [peer : Callers \cup {Nobody}, isn : Nat, mss : Nat,
           state : {"none", "live", "broken", "closed"}]

(* The types, without the bound on the queue, which is Queueing's.          *)
TypeInv ==
  /\ active \in Scenes
  /\ status \in [Socks -> {"OPENED", "CONNECTING", "CONNECTED"}]
  /\ connecting \subseteq active /\ connected \subseteq active
  /\ registered \subseteq active /\ timeOver \subseteq active
  /\ req \in [Socks -> [type : {-1, 0, 1}, cookie : -1 .. MaxMinute]]
  /\ res \in [Socks -> HsRecord] /\ peer \in [Socks -> HsRecord]
  /\ result \in [Socks -> {"none", "ok", "error"}]
  /\ stored \in [Socks -> Seq(net)]
  /\ acc \in [Acceptors -> Socket]
  /\ queued \subseteq Acceptors
  /\ minute \in 0 .. MaxMinute
  /\ net \subseteq Packet

(* The accept queue never grows past the backlog.                          *)
Queueing == IsFiniteSet(queued) /\ Cardinality(queued) <= Backlog

(* A handshake of socket d: of its sequence number and, unless it is the    *)
(* third, its packet size.                                                 *)
Bears(h, d) ==
  /\ h.sock = d /\ h.isn = ISN[d]
  /\ h.type = -2 \/ (h.type \in {-1, 0} /\ h.mss = MSS[d])

(* To the listener: a request of the caller it names.                      *)
ToServer(m) ==
  /\ m.kind = "hs" /\ m.type \in {-1, 1}
  /\ m.sock \in Callers /\ m.isn = ISN[m.sock] /\ m.mss = MSS[m.sock]

(* No two callers behind one address come to the same key of m_PeerRec: the*)
(* key keeps two bits of the identifier, laid over the sequence number, so the*)
(* code has no more than the odds of it.                                   *)
DistinctKeys ==
  \A c, d \in Callers :
    Addr[c] = Addr[d] /\ PeerKey(c, ISN[c]) = PeerKey(d, ISN[d]) => c = d

(* The socket that answered h, and, if keys are distinct, that it serves c.*)
Serves(a, h, c) ==
  /\ h.sock = a /\ h.mss = acc[a].mss /\ acc[a].state # "none"
  /\ DistinctKeys => h.isn = ISN[c] /\ acc[a].peer = c /\ acc[a].isn = ISN[c]

(* To a caller: a cookie, a refusal, the answer of the socket that serves it,*)
(* or data.                                                                *)
ToCaller(m) ==
  \/ m.kind = "hs" /\ m.type = 1 /\ m.cookie \in 0 .. MaxMinute
  \/ m.kind = "hs" /\ m.type = 1002
  \/ m.kind = "hs" /\ m.type = -1 /\ \E a \in Acceptors : Serves(a, m, m.to)
  \/ m.kind = "data" /\ m = DataPkt(Server, m.to)

(* To a rendezvous socket: its partner's handshake; beyond the first, or with*)
(* data, the partner had noted one of its own.                             *)
ToPair(m) ==
  LET d == Partner(m.to)
  IN  /\ m.type # 0 \/ m.kind = "data" => res[d].known
      /\ \/ m.kind = "hs" /\ Bears(m, d)
         \/ m.kind = "data" /\ m = DataPkt(d, m.to)

(* What a packet on the network proves.                                    *)
Carries(m) ==
  /\ m.to = Server => ToServer(m)
  /\ m.to \in Callers => ToCaller(m)
  /\ m.to \in Pair => ToPair(m)

(* A caller.                                                               *)
Calls(c) ==
  /\ c \in connected => c \notin connecting
  /\ status[c] = "CONNECTING" => c \in connecting \cup timeOver
  /\ c \in registered => req[c].type \in {-1, IF c \in Pair THEN 0 ELSE 1}
  /\ Len(stored[c]) <= MaxStored
  /\ \A i \in 1 .. Len(stored[c]) : stored[c][i].to = c

(* A caller that is connected heard so from the socket that serves it.      *)
Answered(c) ==
  c \in connected \cap Callers => Refused(c) \/ \E a \in Acceptors : Serves(a, peer[c], c)

(* A rendezvous socket noted handshakes of its partner only, and sends      *)
(* type -1 when it has noted one.                                          *)
Meets(c) ==
  c \in Pair =>
    /\ res[c].known => Bears(res[c], Partner(c))
    /\ req[c].type = -1 => res[c].known
    /\ c \in connected => /\ Bears(peer[c], Partner(c))
                          /\ res[c].known /\ res[Partner(c)].known

(* The sockets newConnection made.                                         *)
Made(a) ==
  IF acc[a].state = "none" THEN acc[a] = NoSocket
  ELSE LET c == acc[a].peer
       IN  c \in Callers /\ acc[a].isn = ISN[c] /\ acc[a].mss <= ServerMSS /\ acc[a].mss <= MSS[c]

(* What a blocking connect that returned success knows.                    *)
Succeeded(c) ==
  result[c] = "ok" =>
    \/ c \in connected /\ ~Refused(c)
    \/ c \in timeOver /\ c \notin connecting
    \/ DataPkt(Far(c), c) \in net

Inv ==
  /\ TypeInv /\ Queueing /\ OneConnection
  /\ \A m \in net : Carries(m)
  /\ \A c \in Socks : Calls(c) /\ Answered(c) /\ Meets(c) /\ Succeeded(c)
  /\ \A a \in Acceptors : Made(a)
-----------------------------------------------------------------------------
USE DEF callVars, syncVars, servVars, Server, Nobody

(* The listener, the callers and the rendezvous sockets are told apart.     *)
LEMMA Apart ==
  /\ Server \notin Socks /\ Server \notin Callers /\ Server \notin Pair
  /\ Callers \cap Pair = {} /\ Socks = Callers \cup Pair
  /\ Socks \subseteq Nat /\ Acceptors \subseteq Nat /\ \A s \in Scenes : s \subseteq Socks
  BY HandshakeAssumption DEF Socks

(* The constants are numbers.                                              *)
LEMMA Numbers ==
  /\ ServerMSS \in Nat /\ Backlog \in Nat /\ MaxMinute \in Nat /\ MaxStored \in Nat
  /\ \A c \in Socks : ISN[c] \in Nat /\ MSS[c] \in Nat
  BY HandshakeAssumption

(* Partner pairs the two rendezvous sockets with each other.               *)
LEMMA Partners ==
  ASSUME NEW c \in Pair
  PROVE  Partner(c) \in Pair /\ Partner(c) # c /\ Partner(Partner(c)) = c
  <1>1. PICK p, q \in Pair : p # q /\ Pair = {p, q}
    BY HandshakeAssumption
  <1>2. \A d \in Pair : Partner(d) \in Pair /\ Partner(d) # d
    BY <1>1 DEF Partner
  <1>3. QED
    BY <1>1, <1>2

(* The one data packet of a direction is a packet.                         *)
LEMMA DataType ==
  ASSUME NEW from \in Addresses, NEW to \in Addresses
  PROVE  /\ DataPkt(from, to) \in Packet
         /\ DataPkt(from, to).kind = "data" /\ DataPkt(from, to).to = to
         /\ DataPkt(from, to).type = 0
  <1>1. to \in Nat
    BY Apart DEF Addresses
  <1>2. QED
    BY <1>1 DEF DataPkt, Handshake, Packet

(* What a step that changes nothing a part speaks of keeps.                 *)
LEMMA Frames ==
  ASSUME NEW c \in Socks
  PROVE  /\ /\ Calls(c)
            /\ UNCHANGED <<status, connecting, connected, registered, timeOver, req, stored>>
            => Calls(c)'
         /\ Answered(c) /\ UNCHANGED <<connected, peer, acc>> => Answered(c)'
         /\ Meets(c) /\ UNCHANGED <<connected, req, res, peer>> => Meets(c)'
         /\ /\ Succeeded(c) /\ net \subseteq net'
            /\ UNCHANGED <<result, connecting, connected, timeOver, peer>>
            => Succeeded(c)'
  BY DEF Calls, Answered, Serves, Refused, Meets, Bears, Succeeded

(* A packet says no more than its sender's state does, which stays.         *)
Kept ==
  /\ \A c \in Pair : res[c].known => res'[c].known
  /\ \A a \in Acceptors : acc[a].state # "none" =>
       /\ acc'[a].state # "none" /\ acc'[a].peer = acc[a].peer
       /\ acc'[a].isn = acc[a].isn /\ acc'[a].mss = acc[a].mss

(* What an answer says of the socket that sent it stays true.              *)
LEMMA ServesKept ==
  ASSUME Kept, NEW a \in Acceptors, NEW h, NEW c, Serves(a, h, c)
  PROVE  Serves(a, h, c)'
  BY DEF Kept, Serves

(* So what a packet says of its sender stays true.                         *)
LEMMA CarriesKept ==
  ASSUME Kept, NEW m, Carries(m)
  PROVE  Carries(m)'
  <1>1. m.to \in Callers => ToCaller(m)'
    <2> SUFFICES ASSUME m.to \in Callers PROVE ToCaller(m)'
      OBVIOUS
    <2>1. CASE m.kind = "hs" /\ m.type = -1 /\ \E a \in Acceptors : Serves(a, m, m.to)
      BY <2>1, ServesKept DEF ToCaller
    <2>2. QED
      BY <2>1 DEF Carries, ToCaller
  <1>2. m.to \in Pair => ToPair(m)'
    BY Partners DEF Kept, Carries, ToPair, Bears
  <1>3. QED
    BY <1>1, <1>2 DEF Carries, ToServer

(* A step that only sends a packet.                                        *)
LEMMA SendStep ==
  ASSUME Inv, NEW p \in Packet, Carries(p), net' = net \cup {p},
         UNCHANGED <<active, timeOver, callVars, syncVars, servVars>>
  PROVE  Inv'
  <1>1. TypeInv'
    BY DEF Inv, TypeInv
  <1>2. ASSUME NEW m \in net' PROVE Carries(m)'
    BY CarriesKept DEF Inv, Kept
  <1>3. ASSUME NEW c \in Socks PROVE (Calls(c) /\ Answered(c) /\ Meets(c) /\ Succeeded(c))'
    BY Frames DEF Inv
  <1>4. (Queueing /\ OneConnection /\ \A a \in Acceptors : Made(a))'
    BY DEF Inv, Queueing, OneConnection, Made
  <1>5. QED
    BY <1>1, <1>2, <1>3, <1>4 DEF Inv

(* The request of a caller says what it is, and a rendezvous socket sends   *)
(* type -1 only when it has heard its partner.                             *)
LEMMA RequestCarries ==
  ASSUME Inv, NEW c \in Socks, NEW id \in Nat,
         NEW q \in [type : {-1, 0, 1}, cookie : -1 .. MaxMinute],
         c \in Callers => q.type \in {-1, 1},
         c \in Pair => q.type = 0 \/ (q.type = -1 /\ res[c].known)
  PROVE  Request(c, q, id) \in Packet /\ Carries(Request(c, q, id))
  <1> DEFINE p == Request(c, q, id)
  <1>1. /\ Far(c) \in Addresses /\ c \in Addresses /\ c \in Nat
        /\ ISN[c] \in Nat /\ MSS[c] \in Nat
        /\ q.type \in {-2, -1, 0, 1, 1002} /\ q.cookie \in Int
    BY Apart, Partners, Numbers DEF Far, Addresses
  <1>2. p \in Packet
    BY <1>1 DEF Request, Handshake, Packet
  <1>3. /\ p.kind = "hs" /\ p.to = Far(c) /\ p.type = q.type
        /\ p.sock = c /\ p.isn = ISN[c] /\ p.mss = MSS[c]
    BY DEF Request, Handshake
  <1> HIDE DEF p
  <1>4. ASSUME c \in Callers PROVE Carries(p)
    <2>1. p.to = Server /\ p.type \in {-1, 1}
      BY <1>3, <1>4, Apart DEF Far
    <2>2. QED
      BY <1>3, <1>4, <2>1, Apart DEF Carries, ToServer
  <1>5. ASSUME c \in Pair PROVE Carries(p)
    <2>1. p.to \in Pair /\ Partner(p.to) = c
      BY <1>3, <1>5, Partners DEF Far
    <2>2. QED
      BY <1>3, <1>5, <2>1, Apart DEF Carries, ToPair, Bears
  <1>6. QED
    BY <1>2, <1>4, <1>5 DEF Socks, p

(* connect() sends the first request and registers the socket.             *)
LEMMA ConnectStep ==
  ASSUME Inv, NEW c \in Socks, Connect(c)
  PROVE  Inv'
  <1> DEFINE q == [req[c] EXCEPT !.type = IF c \in Pair THEN 0 ELSE 1]
             p == Request(c, q, 0)
  <1>1. /\ q \in [type : {-1, 0, 1}, cookie : -1 .. MaxMinute]
        /\ q.type = IF c \in Pair THEN 0 ELSE 1
    BY DEF Inv, TypeInv
  <1>2. p \in Packet /\ Carries(p)
    BY <1>1, RequestCarries, Apart
  <1> HIDE DEF q
  <1>3. /\ c \in active /\ c \notin connecting \cup connected
        /\ status' = [status EXCEPT ![c] = "CONNECTING"]
        /\ connecting' = connecting \cup {c} /\ registered' = registered \cup {c}
        /\ req' = [req EXCEPT ![c] = q] /\ result' = [result EXCEPT ![c] = "none"]
        /\ net' = net \cup {p}
        /\ UNCHANGED <<active, timeOver, connected, res, peer, stored, acc, queued, minute>>
    BY DEF Connect, registerConnector, q
  <1> HIDE DEF p
  <1>4. TypeInv'
    BY <1>1, <1>2, <1>3 DEF Inv, TypeInv
  <1>5. ASSUME NEW m \in net' PROVE Carries(m)'
    BY <1>2, <1>3, CarriesKept DEF Inv, Kept
  <1>6. ASSUME NEW s \in Socks PROVE Calls(s)'
    BY <1>1, <1>3 DEF Inv, TypeInv, Calls
  <1>7. ASSUME NEW s \in Socks PROVE Answered(s)'
    BY <1>3, Frames DEF Inv
  <1>8. ASSUME NEW s \in Socks PROVE Meets(s)'
    BY <1>1, <1>3 DEF Inv, TypeInv, Meets, Bears
  <1>9. ASSUME NEW s \in Socks PROVE Succeeded(s)'
    BY <1>3 DEF Inv, TypeInv, Succeeded, Refused
  <1>10. (Queueing /\ OneConnection /\ \A a \in Acceptors : Made(a))'
    BY <1>3 DEF Inv, Queueing, OneConnection, Made
  <1>11. QED
    BY <1>4, <1>5, <1>6, <1>7, <1>8, <1>9, <1>10 DEF Inv

(* The worker sends the request again, of the same type.                   *)
LEMMA ResendStep ==
  ASSUME Inv, NEW c \in Socks, Resend(c)
  PROVE  Inv'
  <1> DEFINE id == IF c \in Pair THEN res[c].sock ELSE 0
  <1>1. id \in Nat /\ req[c] \in [type : {-1, 0, 1}, cookie : -1 .. MaxMinute]
    BY DEF Inv, TypeInv, HsRecord
  <1>2. /\ c \in Callers => req[c].type \in {-1, 1}
        /\ c \in Pair => req[c].type = 0 \/ (req[c].type = -1 /\ res[c].known)
    BY Apart DEF Inv, Calls, Meets, Resend
  <1>3. Request(c, req[c], id) \in Packet /\ Carries(Request(c, req[c], id))
    BY <1>1, <1>2, RequestCarries
  <1>4. QED
    BY <1>3, SendStep DEF Resend

(* The deadline of a connector passes.                                     *)
LEMMA TimeOverStep ==
  ASSUME Inv, NEW c \in Socks, TimeOver(c)
  PROVE  Inv'
  <1>1. TypeInv'
    BY DEF Inv, TypeInv, TimeOver
  <1>2. ASSUME NEW m \in net' PROVE Carries(m)'
    BY CarriesKept DEF Inv, Kept, TimeOver
  <1>3. ASSUME NEW s \in Socks PROVE (Answered(s) /\ Meets(s))'
    BY Frames DEF Inv, TimeOver
  <1>4. ASSUME NEW s \in Socks PROVE (Calls(s) /\ Succeeded(s))'
    BY DEF Inv, Calls, Succeeded, Refused, TimeOver
  <1>5. (Queueing /\ OneConnection /\ \A a \in Acceptors : Made(a))'
    BY DEF Inv, Queueing, OneConnection, Made, TimeOver
  <1>6. QED
    BY <1>1, <1>2, <1>3, <1>4, <1>5 DEF Inv

(* updateConnStatus gives a connector up.                                  *)
LEMMA ExpireStep ==
  ASSUME Inv, NEW c \in Socks, Expire(c)
  PROVE  Inv'
  <1>1. TypeInv'
    BY DEF Inv, TypeInv, Expire
  <1>2. ASSUME NEW m \in net' PROVE Carries(m)'
    BY CarriesKept DEF Inv, Kept, Expire
  <1>3. ASSUME NEW s \in Socks PROVE (Answered(s) /\ Meets(s))'
    BY Frames DEF Inv, Expire
  <1>4. ASSUME NEW s \in Socks PROVE (Calls(s) /\ Succeeded(s))'
    BY DEF Inv, Calls, Succeeded, Refused, Expire
  <1>5. (Queueing /\ OneConnection /\ \A a \in Acceptors : Made(a))'
    BY DEF Inv, Queueing, OneConnection, Made, Expire
  <1>6. QED
    BY <1>1, <1>2, <1>3, <1>4, <1>5 DEF Inv

(* A blocking connect gives up.                                            *)
LEMMA SyncTimeoutStep ==
  ASSUME Inv, NEW c \in Socks, SyncTimeout(c)
  PROVE  Inv'
  <1>1. TypeInv'
    BY DEF Inv, TypeInv, SyncTimeout
  <1>2. ASSUME NEW m \in net' PROVE Carries(m)'
    BY CarriesKept DEF Inv, Kept, SyncTimeout
  <1>3. ASSUME NEW s \in Socks PROVE (Answered(s) /\ Meets(s))'
    BY Frames DEF Inv, SyncTimeout
  <1>4. ASSUME NEW s \in Socks PROVE (Calls(s) /\ Succeeded(s))'
    BY DEF Inv, TypeInv, Calls, Succeeded, Refused, SyncTimeout
  <1>5. (Queueing /\ OneConnection /\ \A a \in Acceptors : Made(a))'
    BY DEF Inv, Queueing, OneConnection, Made, SyncTimeout
  <1>6. QED
    BY <1>1, <1>2, <1>3, <1>4, <1>5 DEF Inv

(* A connected socket sends its data.                                      *)
LEMMA SendDataStep ==
  ASSUME Inv, NEW c \in Socks, SendData(c)
  PROVE  Inv'
  <1>1. c \in Pair /\ res[c].known /\ net' = net \cup {DataPkt(c, Partner(c))}
    BY DEF Inv, Meets, SendData, Far
  <1>2. /\ Partner(c) \in Pair /\ Partner(Partner(c)) = c
        /\ c \in Addresses /\ Partner(c) \in Addresses
    BY <1>1, Partners, Apart DEF Addresses
  <1>a. /\ DataPkt(c, Partner(c)) \in Packet /\ DataPkt(c, Partner(c)).kind = "data"
        /\ DataPkt(c, Partner(c)).to = Partner(c)
    BY <1>2, DataType
  <1>3. Carries(DataPkt(c, Partner(c)))
    BY <1>1, <1>2, <1>a, Apart DEF Carries, ToPair
  <1>4. QED
    BY <1>1, <1>a, <1>3, SendStep DEF SendData

(* A connected rendezvous socket answers a late handshake.                 *)
LEMMA RehandshakeStep ==
  ASSUME Inv, NEW c \in Socks, NEW m \in net, Rehandshake(c, m)
  PROVE  Inv'
  <1> DEFINE p == Handshake(c, Far(c), peer[c].sock, -2, c, ISN[c], peer[c].mss, -1)
  <1>1. c \in Pair /\ res[c].known /\ peer[c] \in HsRecord /\ Far(c) = Partner(c)
    BY DEF Inv, TypeInv, Meets, Rehandshake, Far
  <1>2. /\ c \in Addresses /\ Partner(c) \in Addresses /\ Partner(c) \in Pair
        /\ Partner(Partner(c)) = c
    BY <1>1, Partners, Apart DEF Addresses
  <1>3. p \in Packet
    <2>1. peer[c].sock \in Nat /\ peer[c].mss \in Nat /\ c \in Nat /\ ISN[c] \in Nat
      BY <1>1, Numbers, Apart DEF HsRecord
    <2>2. QED
      BY <1>1, <1>2, <2>1 DEF Handshake, Packet
  <1>4. Carries(p)
    BY <1>1, <1>2, Apart DEF Handshake, Carries, ToPair, Bears
  <1>5. QED
    BY <1>3, <1>4, SendStep DEF Rehandshake

(* The worker stores a packet for a blocking connect.                      *)
LEMMA StorePktStep ==
  ASSUME Inv, NEW c \in Socks, NEW m \in net, m.to = c, storePkt(c, m)
  PROVE  Inv'
  <1>1. TypeInv'
    BY DEF Inv, TypeInv, storePkt
  <1>2. ASSUME NEW n \in net' PROVE Carries(n)'
    BY CarriesKept DEF Inv, Kept, storePkt
  <1>3. ASSUME NEW s \in Socks PROVE (Answered(s) /\ Meets(s) /\ Succeeded(s))'
    BY Frames DEF Inv, storePkt
  <1>4. ASSUME NEW s \in Socks PROVE Calls(s)'
    <2>1. CASE s = c
      <3>1. /\ stored[c] \in Seq(net) /\ stored'[c] = Append(stored[c], m)
            /\ Len(stored[c]) < MaxStored
        BY DEF Inv, TypeInv, storePkt
      <3>2. Len(stored'[c]) <= MaxStored /\ \A i \in 1 .. Len(stored'[c]) : stored'[c][i].to = c
        BY <3>1, Numbers DEF Inv, Calls
      <3>3. QED
        BY <2>1, <3>2 DEF Inv, Calls, storePkt
    <2>2. CASE s # c
      BY <2>2 DEF Inv, TypeInv, Calls, storePkt
    <2>3. QED
      BY <2>1, <2>2
  <1>5. (Queueing /\ OneConnection /\ \A a \in Acceptors : Made(a))'
    BY DEF Inv, Queueing, OneConnection, Made, storePkt
  <1>6. QED
    BY <1>1, <1>2, <1>3, <1>4, <1>5 DEF Inv

-----------------------------------------------------------------------------
(* connect(response): what it notes is a handshake of the partner, or of    *)
(* the socket that serves the caller.                                      *)
LEMMA NotedFacts ==
  ASSUME Inv, NEW c \in Socks, NEW m \in net, m.to = c
  PROVE  /\ Noted(c, m) \in HsRecord
         /\ res[c].known => Noted(c, m).known
         /\ c \in Pair /\ Noted(c, m).known => Bears(Noted(c, m), Partner(c))
         /\ Outcome(c, m) \in {-1, 0, 1}
         /\ Outcome(c, m) = 1 => /\ c \in Pair => Noted(c, m).known
                                 /\ c \in Callers => m.cookie \in 0 .. MaxMinute
         /\ Outcome(c, m) = 0 /\ c \in Pair => Noted(c, m).known /\ res[Partner(c)].known
         /\ Outcome(c, m) = 0 /\ c \in Callers =>
              \/ Noted(c, m).type = 1002
              \/ \E a \in Acceptors : Serves(a, Noted(c, m), c)
         /\ Outcome(c, m) = 0 => c \in connecting
         /\ Outcome(c, m) = -1 /\ c \in connecting => m = DataPkt(Far(c), c)
  <1>1. m \in Packet /\ Carries(m) /\ res[c] \in HsRecord /\ Meets(c)
    BY DEF Inv, TypeInv
  <1>2. Fields(m) \in HsRecord /\ Fields(m).known
    BY <1>1 DEF Packet, Fields, HsRecord
  <1>3. Noted(c, m) \in HsRecord /\ (res[c].known => Noted(c, m).known)
    BY <1>1, <1>2 DEF Noted
  <1>4. Outcome(c, m) \in {-1, 0, 1}
    BY DEF Outcome
  <1>5. ASSUME c \in Pair
        PROVE  /\ Noted(c, m).known => Bears(Noted(c, m), Partner(c))
               /\ Outcome(c, m) = 1 => Noted(c, m).known
               /\ Outcome(c, m) = 0 => Noted(c, m).known /\ res[Partner(c)].known
               /\ Outcome(c, m) = -1 /\ c \in connecting => m = DataPkt(Far(c), c)
    <2>1. ToPair(m)
      BY <1>1, <1>5 DEF Carries
    <2>2. Noted(c, m).known => Bears(Noted(c, m), Partner(c))
      BY <1>1, <1>5, <2>1 DEF ToPair, Noted, IsHs, Fields, Meets, Bears
    <2>3. Outcome(c, m) = 1 => Noted(c, m).known
      BY <1>2 DEF Outcome, Unfinished, Noted
    <2>4. Outcome(c, m) = 0 => Noted(c, m).known /\ res[Partner(c)].known
      BY <1>1, <1>2, <1>5, <2>1 DEF ToPair, Bears, Outcome, Unfinished, Implied, Noted, IsHs, Packet
    <2>5. Outcome(c, m) = -1 /\ c \in connecting => m = DataPkt(Far(c), c)
      <3>1. SUFFICES ASSUME Outcome(c, m) = -1, c \in connecting PROVE m = DataPkt(Far(c), c)
        OBVIOUS
      <3>2. ~IsHs(m)
        BY <1>5, <2>1, <3>1 DEF ToPair, Bears, Outcome, Unfinished, IsHs
      <3>3. QED
        BY <1>5, <2>1, <3>2 DEF ToPair, IsHs, Far
    <2>6. QED
      BY <2>2, <2>3, <2>4, <2>5
  <1>6. ASSUME c \in Callers
        PROVE  /\ Outcome(c, m) = 1 => m.cookie \in 0 .. MaxMinute
               /\ Outcome(c, m) = 0 => \/ Noted(c, m).type = 1002
                                       \/ \E a \in Acceptors : Serves(a, Noted(c, m), c)
               /\ Outcome(c, m) = -1 /\ c \in connecting => m = DataPkt(Far(c), c)
    <2>1. ToCaller(m) /\ c \notin Pair
      BY <1>1, <1>6, Apart DEF Carries
    <2>2. Outcome(c, m) = 1 => m.cookie \in 0 .. MaxMinute
      BY <1>6, <2>1 DEF ToCaller, Outcome, Unfinished, IsHs
    <2>3. Outcome(c, m) = 0 => \/ Noted(c, m).type = 1002
                               \/ \E a \in Acceptors : Serves(a, Noted(c, m), c)
      <3>1. SUFFICES ASSUME Outcome(c, m) = 0
                     PROVE  \/ Noted(c, m).type = 1002
                            \/ \E a \in Acceptors : Serves(a, Noted(c, m), c)
        OBVIOUS
      <3>2. IsHs(m) /\ m.type # 1 /\ Noted(c, m) = Fields(m)
        BY <2>1, <3>1 DEF Outcome, Unfinished, Implied, Noted
      <3>3. CASE m.type = 1002
        BY <3>2, <3>3 DEF Fields
      <3>4. CASE \E a \in Acceptors : Serves(a, m, m.to)
        BY <3>2, <3>4 DEF Serves, Fields
      <3>5. QED
        BY <2>1, <3>2, <3>3, <3>4 DEF ToCaller, IsHs
    <2>4. Outcome(c, m) = -1 /\ c \in connecting => m = DataPkt(Far(c), c)
      BY <2>1 DEF ToCaller, Outcome, Unfinished, Implied, IsHs, Far
    <2>5. QED
      BY <2>2, <2>3, <2>4
  <1>7. Outcome(c, m) = 0 => c \in connecting
    BY DEF Outcome
  <1>8. QED
    BY <1>3, <1>4, <1>5, <1>6, <1>7 DEF Socks

(* CUDT::connect(response) by either path, as far as the two paths agree: they*)
(* differ in what the blocking caller is told, which is Succeeded.         *)
LEMMA ResponseKeeps ==
  ASSUME Inv, NEW c \in Socks, NEW m \in net, m.to = c, NEW st \in {"OPENED", "CONNECTED"},
         connectResponse(c, m, st), UNCHANGED <<active, timeOver, acc, queued, minute, net>>,
         stored' \in [Socks -> Seq(net)], result' \in [Socks -> {"none", "ok", "error"}],
         \A s \in Socks : /\ Len(stored'[s]) <= MaxStored
                          /\ \A i \in 1 .. Len(stored'[s]) : stored'[s][i].to = s,
         \A s \in Socks : Succeeded(s)'
  PROVE  Inv'
  <1>1. /\ Noted(c, m) \in HsRecord
        /\ res[c].known => Noted(c, m).known
        /\ Outcome(c, m) \in {-1, 0, 1}
    BY NotedFacts
  <1>2. CASE Outcome(c, m) = 1
    <2>1. /\ res' = [res EXCEPT ![c] = Noted(c, m)]
          /\ req' = [req EXCEPT ![c].type = -1, ![c].cookie = Echoed(c, m)]
          /\ status' = [status EXCEPT ![c] = IF st = "OPENED" THEN st ELSE @]
          /\ UNCHANGED <<registered, connecting, connected, peer>>
      BY <1>2 DEF connectResponse
    <2>2. /\ c \in Pair => Noted(c, m).known /\ Bears(Noted(c, m), Partner(c))
          /\ c \in Callers => m.cookie \in 0 .. MaxMinute
      BY <1>2, NotedFacts
    <2>3. TypeInv'
      <3>1. req' \in [Socks -> [type : {-1, 0, 1}, cookie : -1 .. MaxMinute]]
        BY <2>1, <2>2, Numbers, Apart DEF Inv, TypeInv, Echoed
      <3>2. /\ res' \in [Socks -> HsRecord]
            /\ status' \in [Socks -> {"OPENED", "CONNECTING", "CONNECTED"}]
        BY <1>1, <2>1 DEF Inv, TypeInv
      <3>3. QED
        BY <2>1, <3>1, <3>2 DEF Inv, TypeInv
    <2>4. ASSUME NEW s \in Socks PROVE Calls(s)'
      BY <2>1, <2>3 DEF Inv, TypeInv, Calls
    <2>5. ASSUME NEW s \in Socks PROVE Answered(s)'
      BY <2>1, Frames DEF Inv
    <2>6. ASSUME NEW s \in Socks PROVE Meets(s)'
      BY <1>1, <2>1, <2>2, <2>3, Partners DEF Inv, TypeInv, Meets, Bears
    <2>7. \A p \in net' : Carries(p)'
      BY <1>1, <2>1, CarriesKept DEF Inv, TypeInv, Kept
    <2>8. QED
      BY <2>3, <2>4, <2>5, <2>6, <2>7 DEF Inv, Queueing, OneConnection, Made
  <1>3. CASE Outcome(c, m) = 0
    <2>1. /\ res' = [res EXCEPT ![c] = Noted(c, m)] /\ UNCHANGED req
          /\ registered' = registered \ {c} /\ connecting' = connecting \ {c}
          /\ connected' = connected \cup {c}
          /\ peer' = [peer EXCEPT ![c] = Noted(c, m)]
          /\ status' = [status EXCEPT ![c] = st]
      BY <1>3 DEF connectResponse, removeConnector
    <2>2. /\ c \in Pair => /\ Noted(c, m).known /\ res[Partner(c)].known
                           /\ Bears(Noted(c, m), Partner(c))
          /\ c \in Callers => \/ Noted(c, m).type = 1002
                              \/ \E a \in Acceptors : Serves(a, Noted(c, m), c)
          /\ c \in connecting
      BY <1>3, NotedFacts
    <2>3. TypeInv'
      BY <1>1, <2>1, <2>2 DEF Inv, TypeInv
    <2>4. ASSUME NEW s \in Socks PROVE Calls(s)'
      BY <2>1 DEF Inv, TypeInv, Calls
    <2>5. ASSUME NEW s \in Socks PROVE Answered(s)'
      BY <2>1, <2>2 DEF Inv, TypeInv, Answered, Refused, Serves
    <2>6. ASSUME NEW s \in Socks PROVE Meets(s)'
      <3>1. \A d \in Pair : res[d].known => res'[d].known
        BY <1>1, <2>1 DEF Inv, TypeInv
      <3>2. CASE s = c
        BY <2>1, <2>2, <3>1, <3>2, Partners DEF Inv, TypeInv, Meets, Bears
      <3>3. CASE s # c
        BY <2>1, <3>1, <3>3, Partners DEF Inv, TypeInv, Meets, Bears
      <3>4. QED
        BY <3>2, <3>3
    <2>7. \A p \in net' : Carries(p)'
      BY <1>1, <2>1, CarriesKept DEF Inv, TypeInv, Kept
    <2>8. QED
      BY <2>3, <2>4, <2>5, <2>6, <2>7 DEF Inv, Queueing, OneConnection, Made
  <1>4. CASE Outcome(c, m) = -1
    <2>1. /\ res' = [res EXCEPT ![c] = Noted(c, m)] /\ UNCHANGED req
          /\ status' = [status EXCEPT ![c] = IF st = "OPENED" THEN st ELSE @]
          /\ UNCHANGED <<registered, connecting, connected, peer>>
      BY <1>4 DEF connectResponse
    <2>2. c \in Pair /\ Noted(c, m).known => Bears(Noted(c, m), Partner(c))
      BY NotedFacts
    <2>3. TypeInv'
      BY <1>1, <2>1 DEF Inv, TypeInv
    <2>4. ASSUME NEW s \in Socks PROVE Calls(s)'
      BY <2>1 DEF Inv, TypeInv, Calls
    <2>5. ASSUME NEW s \in Socks PROVE Answered(s)'
      BY <2>1, Frames DEF Inv
    <2>6. ASSUME NEW s \in Socks PROVE Meets(s)'
      BY <1>1, <2>1, <2>2, Partners, Apart DEF Inv, TypeInv, Meets, Bears
    <2>7. \A p \in net' : Carries(p)'
      BY <1>1, <2>1, CarriesKept DEF Inv, TypeInv, Kept
    <2>8. QED
      BY <2>3, <2>4, <2>5, <2>6, <2>7 DEF Inv, Queueing, OneConnection, Made
  <1>5. QED
    BY <1>1, <1>2, <1>3, <1>4

(* A blocking connect is not answered by the worker.                       *)
LEMMA RespondStep ==
  ASSUME Inv, NEW c \in Socks, NEW m \in net, m.to = c, Respond(c, m)
  PROVE  Inv'
  <1>1. /\ connectResponse(c, m, "CONNECTED") /\ c \notin connected
        /\ UNCHANGED <<active, timeOver, result, stored, acc, queued, minute, net>>
    BY DEF Respond
  <1>2. ASSUME NEW s \in Socks PROVE Succeeded(s)'
    <2>1. /\ connecting' \subseteq connecting /\ connected \subseteq connected'
          /\ peer' = peer \/ peer' = [peer EXCEPT ![c] = Noted(c, m)]
      BY <1>1 DEF connectResponse
    <2>2. ASSUME NEW d \in connected PROVE peer'[d] = peer[d]
      <3>1. d \in Socks /\ d # c
        BY <1>1, Apart DEF Inv, TypeInv
      <3>2. QED
        BY <2>1, <3>1 DEF Inv, TypeInv
    <2>3. CASE s \in connected /\ ~Refused(s)
      BY <2>1, <2>2, <2>3 DEF Succeeded, Refused
    <2>4. CASE ~(s \in connected /\ ~Refused(s))
      BY <1>1, <2>1, <2>4 DEF Inv, Succeeded
    <2>5. QED
      BY <2>3, <2>4
  <1>3. QED
    BY <1>1, <1>2, ResponseKeeps DEF Inv, TypeInv, Calls

(* A blocking connect returns success only when it is connected, or in the  *)
(* two ways that Succeeded names.                                          *)
LEMMA TakeStoredStep ==
  ASSUME Inv, NEW c \in Socks, TakeStored(c)
  PROVE  Inv'
  <1> DEFINE m == Head(stored[c])
             st == IF Ended(c, m) = "error" THEN "OPENED" ELSE "CONNECTED"
  <1>1. /\ stored[c] \in Seq(net) /\ stored[c] # <<>> /\ Len(stored[c]) <= MaxStored
        /\ \A i \in 1 .. Len(stored[c]) : stored[c][i].to = c
    BY DEF Inv, TypeInv, Calls, TakeStored
  <1>2. m \in net /\ m.to = c
    BY <1>1
  <1>3. /\ connectResponse(c, m, st) /\ Waiting(c)
        /\ result' = [result EXCEPT ![c] = Ended(c, m)]
        /\ stored' = IF Outcome(c, m) = 0 THEN Dropped(c) ELSE [stored EXCEPT ![c] = Tail(@)]
        /\ UNCHANGED <<active, timeOver, acc, queued, minute, net>>
    BY DEF TakeStored
  <1>4. /\ Tail(stored[c]) \in Seq(net) /\ Len(Tail(stored[c])) <= MaxStored
        /\ \A i \in 1 .. Len(Tail(stored[c])) : Tail(stored[c])[i].to = c
    BY <1>1, Numbers
  <1> HIDE DEF m, st
  <1>5. stored' \in [Socks -> Seq(net)]
    BY <1>3, <1>4 DEF Inv, TypeInv, Dropped
  <1>6. \A s \in Socks : /\ Len(stored'[s]) <= MaxStored
                         /\ \A i \in 1 .. Len(stored'[s]) : stored'[s][i].to = s
    BY <1>3, <1>4, Numbers DEF Inv, TypeInv, Calls, Dropped
  <1>7. Ended(c, m) \in {"none", "ok", "error"} /\ st \in {"OPENED", "CONNECTED"}
    BY DEF Ended, st
  <1>8. ASSUME NEW s \in Socks PROVE Succeeded(s)'
    <2>1. CASE s = c /\ Outcome(c, m) = 0
      <3>1. connected' = connected \cup {c} /\ peer' = [peer EXCEPT ![c] = Noted(c, m)]
        BY <1>3, <2>1 DEF connectResponse
      <3>2. Ended(c, m) = "ok" => Noted(c, m).type # 1002
        BY <2>1 DEF Ended
      <3>3. QED
        BY <1>3, <2>1, <3>1, <3>2 DEF Inv, TypeInv, Succeeded, Refused
    <2>2. CASE s = c /\ Outcome(c, m) = 1
      BY <1>3, <2>2 DEF Inv, TypeInv, Ended, Succeeded
    <2>3. CASE s = c /\ Outcome(c, m) = -1
      <3>1. UNCHANGED <<connecting, connected, peer>>
        BY <1>3, <2>3 DEF connectResponse
      <3>2. c \in connecting \cup timeOver
        BY <1>3 DEF Inv, Calls, Waiting
      <3>3. c \in connecting => DataPkt(Far(c), c) \in net
        BY <1>2, <2>3, NotedFacts
      <3>4. QED
        BY <1>3, <2>3, <3>1, <3>2, <3>3 DEF Succeeded
    <2>4. CASE s # c
      <3>1. /\ s \in connecting' <=> s \in connecting
            /\ s \in connected' <=> s \in connected
            /\ peer'[s] = peer[s] /\ result'[s] = result[s]
        BY <1>3, <2>4 DEF Inv, TypeInv, connectResponse
      <3>2. Succeeded(s) /\ UNCHANGED <<timeOver, net>>
        BY <1>3 DEF Inv
      <3>3. Refused(s)' <=> Refused(s)
        BY <3>1 DEF Refused
      <3>4. QED
        BY <3>1, <3>2, <3>3 DEF Succeeded
    <2>5. QED
      BY <2>1, <2>2, <2>3, <2>4, <1>2, NotedFacts
  <1>9. result' \in [Socks -> {"none", "ok", "error"}]
    BY <1>3, <1>7 DEF Inv, TypeInv
  <1>10. QED
    BY <1>2, <1>3, <1>5, <1>6, <1>7, <1>8, <1>9, ResponseKeeps

(* What the worker does with a packet for a connector.                     *)
LEMMA DeliverStep ==
  ASSUME Inv, NEW c \in Socks, NEW m \in net, Deliver(c, m)
  PROVE  Inv'
  BY RehandshakeStep, RespondStep, StorePktStep DEF Deliver

-----------------------------------------------------------------------------
(* The listener.                                                           *)

(* One more element makes a finite set at most one larger.                 *)
LEMMA AddOne ==
  ASSUME NEW S, IsFiniteSet(S), NEW e
  PROVE  IsFiniteSet(S \cup {e}) /\ Cardinality(S \cup {e}) <= Cardinality(S) + 1
  <1>1. Cardinality(S) \in Nat
    BY FS_CardinalityType
  <1>2. CASE e \in S
    <2>1. S \cup {e} = S
      BY <1>2
    <2>2. QED
      BY <1>1, <2>1
  <1>3. CASE e \notin S
    BY <1>1, <1>3, FS_AddElement
  <1>4. QED
    BY <1>2, <1>3

(* The first request is returned with a cookie.                            *)
LEMMA SynCookieStep ==
  ASSUME Inv, NEW m \in net, SynCookie(m)
  PROVE  Inv'
  <1> DEFINE p == [m EXCEPT !.from = Server, !.to = m.sock, !.id = m.sock, !.cookie = minute]
  <1>1. m \in Packet /\ ToServer(m) /\ m.type = 1 /\ minute \in 0 .. MaxMinute
    BY DEF Inv, TypeInv, Carries, SynCookie
  <1>2. m.sock \in Callers /\ m.sock \in Socks /\ m.sock \in Nat
    BY <1>1, Apart DEF ToServer
  <1>3. p \in Packet
    <2>1. m.sock \in Addresses /\ Server \in Addresses /\ minute \in Int
      BY <1>1, <1>2, Numbers DEF Addresses
    <2> DEFINE q == [m EXCEPT !.from = Server]
               r == [q EXCEPT !.to = m.sock]
               t == [r EXCEPT !.id = m.sock]
    <2>2. p = [t EXCEPT !.cookie = minute]
      OBVIOUS
    <2>3. q \in Packet
      BY <1>1, <2>1 DEF Packet
    <2>4. r \in Packet
      <3> HIDE DEF q
      <3>1. QED
        BY <1>2, <2>1, <2>3 DEF Packet
    <2>5. t \in Packet
      <3> HIDE DEF r
      <3>1. QED
        BY <1>2, <2>4 DEF Packet
    <2>6. QED
      <3> HIDE DEF p, t
      <3>1. QED
        BY <2>1, <2>2, <2>5 DEF Packet
  <1>4. p.to \in Callers /\ p.kind = "hs" /\ p.type = 1 /\ p.cookie \in 0 .. MaxMinute
    BY <1>1, <1>2 DEF ToServer, Packet
  <1>5. Carries(p)
    BY <1>4, Apart DEF Carries, ToCaller
  <1>6. QED
    BY <1>3, <1>5, SendStep DEF SynCookie

(* The answers to a caller.                                                *)
LEMMA AcceptedCarries ==
  ASSUME NEW a \in Acceptors, NEW c \in Callers, NEW isn \in Nat, NEW mss \in Nat,
         Serves(a, Accepted(a, c, isn, mss), c)
  PROVE  Accepted(a, c, isn, mss) \in Packet /\ Carries(Accepted(a, c, isn, mss))
  <1> DEFINE p == Accepted(a, c, isn, mss)
  <1>1. /\ p \in Packet /\ p.kind = "hs" /\ p.type = -1 /\ p.to = c
    BY Apart DEF Accepted, Handshake, Packet, Addresses
  <1> HIDE DEF p
  <1>2. Serves(a, p, c)
    BY DEF p
  <1>3. Carries(p)
    BY <1>1, <1>2, Apart DEF Carries, ToCaller
  <1>4. QED
    BY <1>1, <1>3 DEF p

(* A refusal says nothing of a socket.                                     *)
LEMMA RejectedCarries ==
  ASSUME NEW m \in Packet, ToServer(m)
  PROVE  Rejected(m) \in Packet /\ Carries(Rejected(m))
  <1> DEFINE p == Rejected(m)
  <1>1. p \in Packet /\ p.kind = "hs" /\ p.type = 1002 /\ p.to \in Callers
    BY Apart DEF ToServer, Rejected, Handshake, Packet, Addresses
  <1> HIDE DEF p
  <1>2. Carries(p)
    BY <1>1, Apart DEF Carries, ToCaller
  <1>3. QED
    BY <1>1, <1>2 DEF p

(* A step of the listener's sockets, which keep whom they serve.            *)
LEMMA SocketsStep ==
  ASSUME Inv, Kept, UNCHANGED <<active, timeOver, callVars, syncVars, minute>>,
         acc' \in [Acceptors -> Socket], queued' \subseteq Acceptors, Queueing', OneConnection',
         net \subseteq net', net' \subseteq Packet, \A p \in net' \ net : Carries(p)',
         \A a \in Acceptors : Made(a)'
  PROVE  Inv'
  <1>1. TypeInv'
    BY DEF Inv, TypeInv
  <1>2. ASSUME NEW m \in net' PROVE Carries(m)'
    BY CarriesKept DEF Inv
  <1>3. ASSUME NEW c \in Socks PROVE Answered(c)'
    BY ServesKept DEF Inv, Answered, Refused
  <1>4. ASSUME NEW c \in Socks PROVE (Calls(c) /\ Meets(c) /\ Succeeded(c))'
    BY Frames DEF Inv
  <1>5. QED
    BY <1>1, <1>2, <1>3, <1>4 DEF Inv

(* A repeated request is answered with the numbers of the socket that       *)
(* serves it: its own, unless another caller has the same key.              *)
LEMMA RepeatAnswerStep ==
  ASSUME Inv, NEW m \in net, NewConnection(m), RepeatAnswer(m)
  PROVE  Inv'
  <1>1. m \in Packet /\ ToServer(m)
    BY DEF Inv, TypeInv, Carries, NewConnection
  <1>2. PICK a \in Acceptors :
          /\ SameRequest(a, m) /\ acc[a].state = "live"
          /\ net' = net \cup {Accepted(a, m.sock, acc[a].isn, acc[a].mss)}
          /\ UNCHANGED <<acc, queued>>
    BY DEF RepeatAnswer, Known
  <1>3. acc[a] \in Socket /\ acc[a].peer \in Callers /\ acc[a].isn = ISN[acc[a].peer]
    BY <1>2 DEF Inv, TypeInv, Made
  <1>4. DistinctKeys => acc[a].peer = m.sock
    BY <1>1, <1>2, <1>3 DEF DistinctKeys, ToServer, SameRequest
  <1>5. Serves(a, Accepted(a, m.sock, acc[a].isn, acc[a].mss), m.sock)
    BY <1>2, <1>3, <1>4 DEF Serves, Accepted, Handshake
  <1>6. /\ Accepted(a, m.sock, acc[a].isn, acc[a].mss) \in Packet
        /\ Carries(Accepted(a, m.sock, acc[a].isn, acc[a].mss))
    BY <1>1, <1>3, <1>5, AcceptedCarries DEF ToServer, Socket
  <1>7. QED
    BY <1>2, <1>6, SendStep DEF NewConnection

(* newConnection closes the broken predecessors, and a full queue refuses. *)
LEMMA RefuseStep ==
  ASSUME Inv, NEW m \in net, NewConnection(m), Refuse(m, Known(m)),
         \A a \in Known(m) : acc[a].state = "broken"
  PROVE  Inv'
  <1>1. m \in Packet /\ ToServer(m)
    BY DEF Inv, TypeInv, Carries, NewConnection
  <1>2. Rejected(m) \in Packet /\ Carries(Rejected(m))
    BY <1>1, RejectedCarries
  <1>3. /\ net' = net \cup {Rejected(m)} /\ queued' = queued \ Known(m)
        /\ acc' = [a \in Acceptors |->
                     IF a \in Known(m) THEN [acc[a] EXCEPT !.state = "closed"] ELSE acc[a]]
        /\ UNCHANGED <<active, timeOver, callVars, syncVars, minute>>
    BY DEF Refuse, NewConnection
  <1>4. acc' \in [Acceptors -> Socket] /\ Kept /\ OneConnection'
    <2>1. \A a \in Acceptors : acc[a] \in Socket
      BY DEF Inv, TypeInv
    <2>2. \A a \in Acceptors : a \in Known(m) => acc[a].state = "broken"
      OBVIOUS
    <2>3. acc' \in [Acceptors -> Socket]
      BY <1>3, <2>1 DEF Socket
    <2>4. Kept
      BY <1>3, <2>1 DEF Kept, Socket
    <2>5. OneConnection'
      BY <1>3, <2>1, <2>2 DEF Inv, OneConnection, Socket
    <2>6. QED
      BY <2>3, <2>4, <2>5
  <1>5. \A a \in Acceptors : Made(a)'
    BY <1>3 DEF Inv, TypeInv, Made, Socket
  <1>6. Queueing'
    BY <1>3, FS_Subset, FS_CardinalityType, Numbers DEF Inv, Queueing
  <1>7. Carries(Rejected(m))'
    BY <1>2, <1>4, CarriesKept
  <1>8. QED
    BY <1>2, <1>3, <1>4, <1>5, <1>6, <1>7, SocketsStep DEF Inv, TypeInv

(* newConnection makes a socket: the broken predecessors are closed, so no *)
(* living socket has its key, and the answer tells what was made.          *)
LEMMA EstablishStep ==
  ASSUME Inv, NEW m \in net, NewConnection(m), Establish(m, Known(m)),
         \A a \in Known(m) : acc[a].state = "broken"
  PROVE  Inv'
  <1> DEFINE mss == Smaller(ServerMSS, m.mss)
  <1>1. m \in Packet /\ ToServer(m)
    BY DEF Inv, TypeInv, Carries, NewConnection
  <1>2. mss \in Nat /\ mss <= ServerMSS /\ mss <= MSS[m.sock] /\ m.isn \in Nat
    BY <1>1, Numbers DEF Smaller, ToServer, Packet
  <1> HIDE DEF mss
  <1>3. PICK a \in Acceptors :
          /\ acc[a].state = "none"
          /\ acc' = [b \in Acceptors |->
                       IF b = a THEN [peer |-> m.sock, isn |-> m.isn, mss |-> mss, state |-> "live"]
                       ELSE IF b \in Known(m) THEN [acc[b] EXCEPT !.state = "closed"] ELSE acc[b]]
          /\ queued' = (queued \ Known(m)) \cup {a}
          /\ net' = net \cup {Accepted(a, m.sock, m.isn, mss)}
    BY DEF Establish, mss
  <1>4. UNCHANGED <<active, timeOver, callVars, syncVars, minute>> /\ ~Full(Known(m))
    BY DEF NewConnection, Establish
  <1>5. /\ \A b \in Acceptors : acc[b] \in Socket
        /\ \A b \in Acceptors : b \in Known(m) => acc[b].state = "broken"
    BY DEF Inv, TypeInv
  <1>6. acc' \in [Acceptors -> Socket]
    BY <1>1, <1>2, <1>3, <1>5 DEF Socket, ToServer
  <1>7. Kept
    BY <1>3, <1>4, <1>5 DEF Kept, Socket
  <1>8. OneConnection'
    <2> SUFFICES ASSUME NEW b \in Acceptors, NEW d \in Acceptors,
                        acc'[b].state = "live", acc'[d].state = "live",
                        acc'[b].peer = acc'[d].peer, acc'[b].isn = acc'[d].isn
                 PROVE  b = d
      BY DEF OneConnection
    <2>1. ASSUME NEW e \in Acceptors, e # a, acc'[e].state = "live"
          PROVE  /\ acc'[e] = acc[e] /\ ~(acc[e].peer = m.sock /\ acc[e].isn = m.isn)
      BY <1>3, <1>5, <2>1 DEF Known, SameRequest, Socket
    <2>2. acc'[a].peer = m.sock /\ acc'[a].isn = m.isn
      BY <1>3
    <2>3. CASE b # a /\ d # a
      BY <2>1, <2>3 DEF Inv, OneConnection
    <2>4. CASE b = a \/ d = a
      BY <2>1, <2>2, <2>4
    <2>5. QED
      BY <2>3, <2>4
  <1>9. ASSUME NEW b \in Acceptors PROVE Made(b)'
    BY <1>1, <1>2, <1>3, <1>5 DEF Inv, Made, ToServer, Socket
  <1>10. Queueing'
    <2>1. IsFiniteSet(queued \ Known(m)) /\ Cardinality(queued \ Known(m)) \in Nat
      BY FS_Subset, FS_CardinalityType DEF Inv, Queueing
    <2>2. IsFiniteSet(queued') /\ Cardinality(queued') <= Cardinality(queued \ Known(m)) + 1
      BY <1>3, <2>1, AddOne
    <2>3. Cardinality(queued \ Known(m)) < Backlog
      BY <1>4, <2>1, Numbers DEF Full
    <2>4. Cardinality(queued') \in Nat
      BY <2>2, FS_CardinalityType
    <2>5. QED
      BY <2>1, <2>2, <2>3, <2>4, Numbers DEF Queueing
  <1>11. Accepted(a, m.sock, m.isn, mss) \in Packet /\ Carries(Accepted(a, m.sock, m.isn, mss))'
    <2> DEFINE p == Accepted(a, m.sock, m.isn, mss)
    <2>1. /\ p \in Packet /\ p.kind = "hs" /\ p.type = -1 /\ p.to = m.sock
          /\ p.sock = a /\ p.isn = m.isn /\ p.mss = mss
      BY <1>1, <1>2, Apart DEF ToServer, Accepted, Handshake, Packet, Addresses
    <2> HIDE DEF p
    <2>2. Serves(a, p, m.sock)'
      BY <1>1, <1>3, <2>1 DEF Serves, ToServer
    <2>3. Carries(p)'
      BY <1>1, <2>1, <2>2, Apart DEF Carries, ToCaller, ToServer
    <2>4. QED
      BY <2>1, <2>3 DEF p
  <1>12. QED
    BY <1>3, <1>4, <1>6, <1>7, <1>8, <1>9, <1>10, <1>11, SocketsStep DEF Inv, TypeInv

(* The cookie's minute passes; old cookies stay below it.                  *)
LEMMA MinuteStep ==
  ASSUME Inv, Minute
  PROVE  Inv'
  <1>1. TypeInv'
    BY Numbers DEF Inv, TypeInv, Minute
  <1>2. ASSUME NEW m \in net' PROVE Carries(m)'
    BY CarriesKept DEF Inv, Kept, Minute
  <1>3. ASSUME NEW c \in Socks PROVE (Calls(c) /\ Answered(c) /\ Meets(c) /\ Succeeded(c))'
    BY Frames DEF Inv, Minute
  <1>4. (Queueing /\ OneConnection /\ \A a \in Acceptors : Made(a))'
    BY DEF Inv, Queueing, OneConnection, Made, Minute
  <1>5. QED
    BY <1>1, <1>2, <1>3, <1>4 DEF Inv

(* accept() takes a socket out of the queue.                               *)
LEMMA AcceptStep ==
  ASSUME Inv, NEW a \in Acceptors, Accept(a)
  PROVE  Inv'
  <1>1. Queueing'
    BY FS_Subset, FS_CardinalityType, Numbers DEF Inv, Queueing, Accept
  <1>2. Kept /\ OneConnection' /\ \A b \in Acceptors : Made(b)'
    BY DEF Inv, Kept, OneConnection, Made, Accept
  <1>3. QED
    BY <1>1, <1>2, SocketsStep DEF Inv, TypeInv, Accept

(* An accepted socket sends data to the caller it serves.                  *)
LEMMA AccDataStep ==
  ASSUME Inv, NEW a \in Acceptors, AccData(a)
  PROVE  Inv'
  <1> DEFINE p == DataPkt(Server, acc[a].peer)
  <1>1. acc[a].peer \in Callers
    BY DEF Inv, TypeInv, Made, AccData
  <1>2. p \in Packet /\ p.kind = "data" /\ p.to = acc[a].peer
    BY <1>1, DataType, Apart DEF Addresses
  <1>3. Carries(p)
    BY <1>1, <1>2, Apart DEF Carries, ToCaller
  <1>4. QED
    BY <1>2, <1>3, SendStep DEF AccData

(* A socket of the listener breaks.                                        *)
LEMMA AccBreakStep ==
  ASSUME Inv, NEW a \in Acceptors, AccBreak(a)
  PROVE  Inv'
  <1>1. acc' \in [Acceptors -> Socket] /\ acc[a].state = "live"
    BY DEF Inv, TypeInv, Socket, AccBreak
  <1>2. Kept /\ OneConnection' /\ \A b \in Acceptors : Made(b)'
    BY <1>1 DEF Inv, TypeInv, Kept, OneConnection, Made, AccBreak
  <1>3. Queueing'
    BY DEF Inv, Queueing, AccBreak
  <1>4. QED
    BY <1>1, <1>2, <1>3, SocketsStep DEF Inv, TypeInv, AccBreak

(* A broken socket is closed by the garbage collection.                    *)
LEMMA AccCollectStep ==
  ASSUME Inv, NEW a \in Acceptors, AccCollect(a)
  PROVE  Inv'
  <1>1. acc' \in [Acceptors -> Socket] /\ acc[a].state = "broken"
    BY DEF Inv, TypeInv, Socket, AccCollect
  <1>2. Kept /\ OneConnection' /\ \A b \in Acceptors : Made(b)'
    BY <1>1 DEF Inv, TypeInv, Kept, OneConnection, Made, AccCollect
  <1>3. Queueing'
    BY FS_Subset, FS_CardinalityType, Numbers DEF Inv, Queueing, AccCollect
  <1>4. QED
    BY <1>1, <1>2, <1>3, SocketsStep DEF Inv, TypeInv, AccCollect

-----------------------------------------------------------------------------
(* Before any call, no packet is on the network and no socket is made.     *)
LEMMA InitInv == Init => Inv
  <1> SUFFICES ASSUME Init PROVE Inv
    OBVIOUS
  <1>1. TypeInv
    BY Numbers, Apart DEF Init, TypeInv, NoHandshake, NoSocket, HsRecord, Socket
  <1>2. Queueing /\ OneConnection /\ \A m \in net : Carries(m)
    BY FS_EmptySet, Numbers DEF Init, Queueing, OneConnection, NoSocket
  <1>3. ASSUME NEW c \in Socks PROVE Calls(c) /\ Answered(c) /\ Meets(c) /\ Succeeded(c)
    BY Numbers DEF Init, Calls, Answered, Meets, NoHandshake, Succeeded
  <1>4. ASSUME NEW a \in Acceptors PROVE Made(a)
    BY DEF Init, Made, NoSocket
  <1>5. QED
    BY <1>1, <1>2, <1>3, <1>4 DEF Inv

(* Every step keeps the invariant: one lemma above per action.             *)
LEMMA StepInv == Inv /\ [Next]_vars => Inv'
  <1> SUFFICES ASSUME Inv, [Next]_vars PROVE Inv'
    OBVIOUS
  <1>1. CASE UNCHANGED vars
    <2>1. TypeInv' /\ (Queueing /\ OneConnection /\ \A a \in Acceptors : Made(a))'
      BY <1>1 DEF Inv, TypeInv, Queueing, OneConnection, Made, vars
    <2>2. ASSUME NEW m \in net' PROVE Carries(m)'
      BY <1>1, CarriesKept DEF Inv, Kept, vars
    <2>3. ASSUME NEW c \in Socks PROVE (Calls(c) /\ Answered(c) /\ Meets(c) /\ Succeeded(c))'
      BY <1>1, Frames DEF Inv, vars
    <2>4. QED
      BY <2>1, <2>2, <2>3 DEF Inv
  <1>2. ASSUME NEW c \in Socks, Caller(c)
        PROVE  Inv'
    BY <1>2, ConnectStep, ResendStep, TimeOverStep, ExpireStep, TakeStoredStep, SyncTimeoutStep,
       SendDataStep DEF Caller
  <1>3. ASSUME NEW c \in Socks, NEW m \in net, Deliver(c, m)
        PROVE  Inv'
    BY <1>3, DeliverStep
  <1>4. ASSUME NEW m \in net, Listen(m)
        PROVE  Inv'
    BY <1>4, SynCookieStep, RepeatAnswerStep, RefuseStep, EstablishStep DEF Listen, NewConnection
  <1>5. ASSUME NEW a \in Acceptors, Acceptor(a)
        PROVE  Inv'
    BY <1>5, AcceptStep, AccDataStep, AccBreakStep, AccCollectStep DEF Acceptor
  <1>6. CASE Minute
    BY <1>6, MinuteStep
  <1>7. QED
    BY <1>1, <1>2, <1>3, <1>4, <1>5, <1>6 DEF Next

(* The inductive invariant holds in every reachable state.                  *)
THEOREM Invariance == Spec => []Inv
  BY InitInv, StepInv, PTL DEF Spec

(* TypeOK, with the bounds on the accept queue and on the packets kept.     *)
THEOREM AlwaysTyped == Spec => []TypeOK
  <1>1. Inv => TypeOK
    BY DEF Inv, TypeInv, Queueing, Calls, Socket, TypeOK
  <1>2. QED
    BY <1>1, Invariance, PTL

(* OneConnection: however often a request is repeated, and whatever breaks  *)
(* meanwhile, at most one live socket serves it.                           *)
THEOREM AlwaysOneConnection == Spec => []OneConnection
  <1>1. Inv => OneConnection
    BY DEF Inv
  <1>2. QED
    BY <1>1, Invariance, PTL

(* BothEndsAgree: when no two callers behind one address have the same key  *)
(* in m_PeerRec, a connected caller and the socket that serves it have      *)
(* each other's number, sequence number and packet size.                   *)
THEOREM AlwaysAgree ==
  ASSUME DistinctKeys
  PROVE  Spec => []BothEndsAgree
  <1>1. Inv => BothEndsAgree
    BY Apart DEF Inv, Answered, Serves, BothEndsAgree
  <1>2. QED
    BY <1>1, Invariance, PTL

(* RendezvousAgree: the ends of a rendezvous agree, and an end that is      *)
(* connected has been heard by the other.                                  *)
THEOREM AlwaysMet == Spec => []RendezvousAgree
  <1>1. Inv => RendezvousAgree
    BY Partners, Apart DEF Inv, Meets, Bears, RendezvousAgree
  <1>2. QED
    BY <1>1, Invariance, PTL

(* PacketsFit: no end sends larger packets than the other receives, but     *)
(* after a third handshake.                                                *)
THEOREM AlwaysFit == Spec => []PacketsFit
  <1>1. Inv => PacketsFit
    <2> SUFFICES ASSUME Inv PROVE PacketsFit
      OBVIOUS
    <2>1. \A c \in connected \cap Callers : ~Refused(c) => peer[c].mss <= ServerMSS
      BY Apart DEF Inv, Answered, Serves, Made
    <2>2. \A c \in connected \cap Pair : peer[c].type = -2 \/ peer[c].mss <= MSS[Partner(c)]
      BY Partners, Numbers, Apart DEF Inv, Meets, Bears
    <2>3. \A a \in Acceptors : acc[a].state = "live" => acc[a].mss <= MSS[acc[a].peer]
      BY DEF Inv, Made
    <2>4. QED
      BY <2>1, <2>2, <2>3 DEF PacketsFit
  <1>2. QED
    BY <1>1, Invariance, PTL

(* SuccessConnected: what a blocking connect that returned success knows.   *)
THEOREM AlwaysSucceeded == Spec => []SuccessConnected
  <1>1. Inv => SuccessConnected
    BY HandshakeAssumption DEF Inv, Succeeded, SuccessConnected
  <1>2. QED
    BY <1>1, Invariance, PTL
=============================================================================
