---------------------------- MODULE WaitingProofs ----------------------------
(***************************************************************************)
(* What a waiting application is told: a poll or a select reports what is   *)
(* ready, whatever the threads do to one another, and a blocked sendfile or *)
(* recvfile is signalled, for buffers, files and parameter blocks of any    *)
(* size, except in the ways that EventsAgree and FileMoves name.           *)
(***************************************************************************)
EXTENDS EPoll, FileTransfer, TLAPS

-----------------------------------------------------------------------------
(* Event polling.                                                          *)

(* The connection, the poll and the three threads.                          *)
EpTypeInv ==
  /\ pollOpen \in BOOLEAN /\ polled \in BOOLEAN
  /\ watch \subseteq Dirs /\ result \subseteq Dirs
  /\ level \in [Dirs -> 0 .. Room]
  /\ taker \in [Dirs -> {"idle", "test", "clear"}]
  /\ giver \in [Dirs -> {"idle", "set"}]
  /\ third \in {"idle", "join", "test_IN", "set_IN", "test_OUT", "set_OUT", "forget", "leave"}
  /\ sock \in {"up", "expiring", "expired", "shutdown", "closed"}
  /\ lost \in [Dirs -> BOOLEAN]

(* A poll is released only between the calls on it, and watches nothing     *)
(* then; a socket that is watched has joined, or is about to.               *)
Joined ==
  /\ ~pollOpen => third = "idle" /\ watch = {} /\ result = {}
  /\ third \in {"forget", "leave"} => watch = {}
  /\ polled \/ watch = {} \/ third = "join"

(* What is reported is watched, but for a removal under way.               *)
Watched == sock # "closed" /\ third # "forget" => result \subseteq watch

(* The worker gives only while the connection is up.                       *)
Quiet == sock \in {"expiring", "expired"} => \A d \in Dirs : giver[d] = "idle"

(* epoll_add_usock has yet to test d.                                      *)
Coming(d) ==
  \/ third \in {"join", "test_IN", "set_IN"}
  \/ d = "OUT" /\ third \in {"test_OUT", "set_OUT"}

(* What is ready is reported, or is going to be: by epoll_add_usock or by   *)
(* the worker.  While a call is about to clear the event, its being         *)
(* reported counts for nothing.                                            *)
Told(d) ==
  d \in watch =>
    /\ sock = "up" /\ level[d] > 0 =>
         (d \in result /\ taker[d] # "clear") \/ lost[d] \/ giver[d] = "set" \/ Coming(d)
    /\ sock = "expired" => d \in result \/ lost[d] \/ third = "join"

EpInv == EpTypeInv /\ Joined /\ Watched /\ Quiet /\ \A d \in Dirs : Told(d)
-----------------------------------------------------------------------------
(* recv or send takes some; what is left was told already.                 *)
LEMMA TakeStep ==
  ASSUME EpInv, NEW d \in Dirs, Take(d)
  PROVE  EpInv'
  <1>1. EpTypeInv'
    BY EPollAssumption DEF EpInv, EpTypeInv, Take
  <1>2. Joined' /\ Watched' /\ Quiet'
    BY DEF EpInv, Joined, Watched, Quiet, Take
  <1>3. ASSUME NEW e \in Dirs PROVE Told(e)'
    BY DEF EpInv, EpTypeInv, Told, Coming, Take
  <1>4. QED
    BY <1>1, <1>2, <1>3 DEF EpInv

(* A call that finds its direction empty will clear the event.             *)
LEMMA TestStep ==
  ASSUME EpInv, NEW d \in Dirs, Test(d)
  PROVE  EpInv'
  <1>1. EpTypeInv'
    BY EPollAssumption DEF EpInv, EpTypeInv, Test
  <1>2. Joined' /\ Watched' /\ Quiet'
    BY DEF EpInv, Joined, Watched, Quiet, Test
  <1>3. ASSUME NEW e \in Dirs PROVE Told(e)'
    BY DEF EpInv, Told, Coming, Test
  <1>4. QED
    BY <1>1, <1>2, <1>3 DEF EpInv

(* Clearing loses no event that is not marked lost or on its way.          *)
LEMMA ClearStep ==
  ASSUME EpInv, NEW d \in Dirs, Clear(d)
  PROVE  EpInv'
  <1>1. EpTypeInv'
    BY EPollAssumption DEF EpInv, EpTypeInv, Clear, ClearEvents
  <1>2. Joined' /\ Watched' /\ Quiet'
    BY DEF EpInv, Joined, Watched, Quiet, Clear, ClearEvents
  <1>3. ASSUME NEW e \in Dirs PROVE Told(e)'
    BY DEF EpInv, EpTypeInv, Told, Coming, Clear, ClearEvents
  <1>4. QED
    BY <1>1, <1>2, <1>3 DEF EpInv

(* The worker gives and has yet to set the event.                          *)
LEMMA GiveStep ==
  ASSUME EpInv, NEW d \in Dirs, Give(d)
  PROVE  EpInv'
  <1>1. EpTypeInv'
    BY EPollAssumption DEF EpInv, EpTypeInv, Give
  <1>2. Joined' /\ Watched' /\ Quiet'
    BY DEF EpInv, Joined, Watched, Quiet, Give
  <1>3. ASSUME NEW e \in Dirs PROVE Told(e)'
    BY DEF EpInv, EpTypeInv, Told, Coming, Give
  <1>4. QED
    BY <1>1, <1>2, <1>3 DEF EpInv

(* The worker sets the event.                                              *)
LEMMA GivenStep ==
  ASSUME EpInv, NEW d \in Dirs, Given(d)
  PROVE  EpInv'
  <1>1. EpTypeInv'
    BY EPollAssumption DEF EpInv, EpTypeInv, Given, SetEvents
  <1>2. Joined' /\ Watched' /\ Quiet'
    BY DEF EpInv, Joined, Watched, Quiet, Given, SetEvents
  <1>3. ASSUME NEW e \in Dirs PROVE Told(e)'
    BY DEF EpInv, EpTypeInv, Joined, Told, Coming, Given, SetEvents
  <1>4. QED
    BY <1>1, <1>2, <1>3 DEF EpInv

(* A connection that expires is exempt until every poll is told.           *)
LEMMA ExpireStep ==
  ASSUME EpInv, Expire
  PROVE  EpInv'
  <1>1. EpTypeInv'
    BY EPollAssumption DEF EpInv, EpTypeInv, Expire
  <1>2. Joined' /\ Watched' /\ Quiet'
    BY DEF EpInv, Joined, Watched, Quiet, Expire
  <1>3. ASSUME NEW e \in Dirs PROVE Told(e)'
    BY DEF EpInv, Told, Expire
  <1>4. QED
    BY <1>1, <1>2, <1>3 DEF EpInv

(* Every poll is told of the expiration.                                   *)
LEMMA ExpiredStep ==
  ASSUME EpInv, Expired
  PROVE  EpInv'
  <1>1. EpTypeInv'
    BY EPollAssumption DEF EpInv, EpTypeInv, Expired, SetEvents
  <1>2. Joined' /\ Watched' /\ Quiet'
    BY DEF EpInv, Joined, Watched, Quiet, Expired, SetEvents
  <1>3. ASSUME NEW e \in Dirs PROVE Told(e)'
    BY DEF EpInv, Joined, Told, Expired, SetEvents
  <1>4. QED
    BY <1>1, <1>2, <1>3 DEF EpInv

(* A shutdown is told to no poll.                                          *)
LEMMA ShutdownStep ==
  ASSUME EpInv, Shutdown
  PROVE  EpInv'
  <1>1. EpTypeInv'
    BY EPollAssumption DEF EpInv, EpTypeInv, Shutdown
  <1>2. Joined' /\ Watched' /\ Quiet'
    BY DEF EpInv, Joined, Watched, Quiet, Shutdown
  <1>3. ASSUME NEW e \in Dirs PROVE Told(e)'
    BY DEF EpInv, Told, Shutdown
  <1>4. QED
    BY <1>1, <1>2, <1>3 DEF EpInv

(* close() stops the watching.                                             *)
LEMMA CloseStep ==
  ASSUME EpInv, Close
  PROVE  EpInv'
  <1>1. EpTypeInv'
    BY EPollAssumption DEF EpInv, EpTypeInv, Close
  <1>2. Joined' /\ Watched' /\ Quiet'
    BY DEF EpInv, Joined, Watched, Quiet, Close
  <1>3. ASSUME NEW e \in Dirs PROVE Told(e)'
    BY DEF EpInv, Told, Close
  <1>4. QED
    BY <1>1, <1>2, <1>3 DEF EpInv

(* What epoll_add_usock adds, it is about to test.                         *)
LEMMA AddStep ==
  ASSUME EpInv, NEW events \in SUBSET Dirs, Add(events)
  PROVE  EpInv'
  <1>1. EpTypeInv'
    BY EPollAssumption DEF EpInv, EpTypeInv, Add
  <1>2. Joined' /\ Watched' /\ Quiet'
    BY DEF EpInv, Joined, Watched, Quiet, Add
  <1>3. ASSUME NEW e \in Dirs PROVE Told(e)'
    BY DEF EpInv, Told, Coming, Add
  <1>4. QED
    BY <1>1, <1>2, <1>3 DEF EpInv

(* It joins and goes on to test, or marks the event of an expired one lost.*)
LEMMA JoinStep ==
  ASSUME EpInv, Join
  PROVE  EpInv'
  <1>1. EpTypeInv'
    BY EPollAssumption DEF EpInv, EpTypeInv, Join, JoinPoll, JoinAndTest
  <1>2. Joined' /\ Watched' /\ Quiet'
    BY DEF EpInv, Joined, Watched, Quiet, Join, JoinPoll, JoinAndTest
  <1>3. ASSUME NEW e \in Dirs PROVE Told(e)'
    BY DEF EpInv, Told, Coming, Join, JoinPoll, JoinAndTest
  <1>4. QED
    BY <1>1, <1>2, <1>3 DEF EpInv

(* It tests a direction.                                                   *)
LEMMA TestReadyStep ==
  ASSUME EpInv, NEW d \in Dirs, TestReady(d)
  PROVE  EpInv'
  <1>1. EpTypeInv'
    BY EPollAssumption DEF EpInv, EpTypeInv, Dirs, TestReady, Setting, After
  <1>2. Joined' /\ Watched' /\ Quiet'
    BY DEF EpInv, Joined, Watched, Quiet, Dirs, TestReady, Testing, Setting, After
  <1>3. ASSUME NEW e \in Dirs PROVE Told(e)'
    BY DEF EpInv, Told, Coming, Dirs, TestReady, Testing, Setting, After
  <1>4. QED
    BY <1>1, <1>2, <1>3 DEF EpInv

(* It sets the event of a direction that is ready.                         *)
LEMMA SetReadyStep ==
  ASSUME EpInv, NEW d \in Dirs, SetReady(d)
  PROVE  EpInv'
  <1>1. EpTypeInv'
    BY EPollAssumption DEF EpInv, EpTypeInv, SetReady, SetEvents, After
  <1>2. Joined' /\ Watched' /\ Quiet'
    BY DEF EpInv, EpTypeInv, Joined, Watched, Quiet, Dirs, SetReady, SetEvents, Setting, After
  <1>3. ASSUME NEW e \in Dirs PROVE Told(e)'
    BY DEF EpInv, EpTypeInv, Joined, Told, Coming, Dirs, SetReady, SetEvents, Setting, After
  <1>4. QED
    BY <1>1, <1>2, <1>3 DEF EpInv

(* epoll_remove_usock stops the watching first.                            *)
LEMMA RemoveUsockStep ==
  ASSUME EpInv, RemoveUsock
  PROVE  EpInv'
  <1>1. EpTypeInv'
    BY EPollAssumption DEF EpInv, EpTypeInv, RemoveUsock
  <1>2. Joined' /\ Watched' /\ Quiet'
    BY DEF EpInv, Joined, Watched, Quiet, RemoveUsock
  <1>3. ASSUME NEW e \in Dirs PROVE Told(e)'
    BY DEF EpInv, Told, RemoveUsock
  <1>4. QED
    BY <1>1, <1>2, <1>3 DEF EpInv

(* Then it takes back the reports.                                         *)
LEMMA ForgetStep ==
  ASSUME EpInv, Forget
  PROVE  EpInv'
  <1>1. EpTypeInv'
    BY EPollAssumption DEF EpInv, EpTypeInv, Forget, ForgetEvents
  <1>2. Joined' /\ Watched' /\ Quiet'
    BY DEF EpInv, Joined, Watched, Quiet, Forget, ForgetEvents
  <1>3. ASSUME NEW e \in Dirs PROVE Told(e)'
    BY DEF EpInv, Joined, Told, Forget
  <1>4. QED
    BY <1>1, <1>2, <1>3 DEF EpInv

(* Then it leaves the poll.                                                *)
LEMMA LeaveStep ==
  ASSUME EpInv, Leave
  PROVE  EpInv'
  <1>1. EpTypeInv'
    BY EPollAssumption DEF EpInv, EpTypeInv, Leave
  <1>2. Joined' /\ Watched' /\ Quiet'
    BY DEF EpInv, Joined, Watched, Quiet, Leave
  <1>3. ASSUME NEW e \in Dirs PROVE Told(e)'
    BY DEF EpInv, Joined, Told, Leave
  <1>4. QED
    BY <1>1, <1>2, <1>3 DEF EpInv

(* A poll that is released watches and reports nothing.                    *)
LEMMA releaseStep ==
  ASSUME EpInv, release
  PROVE  EpInv'
  <1>1. EpTypeInv'
    BY EPollAssumption DEF EpInv, EpTypeInv, release
  <1>2. Joined' /\ Watched' /\ Quiet'
    BY DEF EpInv, Joined, Watched, Quiet, release
  <1>3. ASSUME NEW e \in Dirs PROVE Told(e)'
    BY DEF EpInv, Told, release
  <1>4. QED
    BY <1>1, <1>2, <1>3 DEF EpInv

-----------------------------------------------------------------------------
(* Nothing is watched at first.                                            *)
LEMMA EpInitInv == EpInit => EpInv
  <1> SUFFICES ASSUME EpInit PROVE EpInv
    OBVIOUS
  <1>1. EpTypeInv
    <2>1. Room \in 0 .. Room /\ 0 \in 0 .. Room
      BY EPollAssumption
    <2>2. level \in [Dirs -> 0 .. Room]
      BY <2>1 DEF EpInit
    <2>3. QED
      BY <2>2 DEF EpInit, EpTypeInv
  <1>2. Joined /\ Watched /\ Quiet /\ \A d \in Dirs : Told(d)
    BY DEF EpInit, Joined, Watched, Quiet, Told
  <1>3. QED
    BY <1>1, <1>2 DEF EpInv

(* Every step keeps the invariant: one lemma above per action.             *)
LEMMA EpStepInv == EpInv /\ [EpNext]_epVars => EpInv'
  <1> SUFFICES ASSUME EpInv, [EpNext]_epVars PROVE EpInv'
    OBVIOUS
  <1>1. CASE UNCHANGED epVars
    BY <1>1 DEF EpInv, EpTypeInv, Joined, Watched, Quiet, Told, Coming, epVars
  <1>2. ASSUME NEW d \in Dirs,
               \/ Take(d) \/ Test(d) \/ Clear(d) \/ Give(d) \/ Given(d)
               \/ TestReady(d) \/ SetReady(d)
        PROVE  EpInv'
    BY <1>2, TakeStep, TestStep, ClearStep, GiveStep, GivenStep, TestReadyStep, SetReadyStep
  <1>3. CASE Expire \/ Expired \/ Shutdown \/ Close
    BY <1>3, ExpireStep, ExpiredStep, ShutdownStep, CloseStep
  <1>4. ASSUME NEW events \in SUBSET Dirs, Add(events)
        PROVE  EpInv'
    BY <1>4, AddStep
  <1>5. CASE Join \/ RemoveUsock \/ Forget \/ Leave \/ release
    BY <1>5, JoinStep, RemoveUsockStep, ForgetStep, LeaveStep, releaseStep
  <1>6. QED
    BY <1>1, <1>2, <1>3, <1>4, <1>5 DEF EpNext

(* The inductive invariant holds in every reachable state.                  *)
THEOREM EpInvariance == EpSpec => []EpInv
  BY EpInitInv, EpStepInv, PTL DEF EpSpec

(* EventsAgree: when no call is under way, epoll reports what select would  *)
(* of a socket that is watched, but for the events it names as lost.        *)
THEOREM AlwaysAgree == EpSpec => []EventsAgree
  <1>1. EpInv => EventsAgree
    BY DEF EpInv, EpTypeInv, Watched, Told, Coming, EventsAgree, Settled, SelectSays
  <1>2. QED
    BY <1>1, EpInvariance, PTL

-----------------------------------------------------------------------------
(* File transfer.                                                          *)

(* Where sendfile and recvfile may be.                                      *)
Stages == {"loop", "woken", "wait", "go", "done", "failed"}

(* The two calls and their buffers.                                         *)
FtTypeInv ==
  /\ syn \in BOOLEAN /\ healthy \in BOOLEAN
  /\ file \in [left : Nat, failed : BOOLEAN]
  /\ sender \in [at : Stages \cup {"peer_error"}, left : Nat, count : Int, blocks : Int]
  /\ receiver \in [at : Stages, left : Nat, data : Nat, broken : BOOLEAN]
  /\ toAck \in Nat /\ bells \subseteq {"snd", "rcv"}

(* What is not acknowledged is in the buffer, which counts it; a file that  *)
(* ended early is not read again, and until then nothing else is counted.   *)
Counts ==
  /\ toAck <= sender.blocks
  /\ file.failed => sender.at \in {"loop", "done", "failed"}
  /\ ~file.failed => sender.count = sender.blocks

(* A synchronous call that waits is signalled before its reason is gone.    *)
SenderRings   == syn /\ sender.at = "wait" => "snd" \in bells \/ SndBlocks <= sender.count
ReceiverRings == syn /\ receiver.at = "wait" => "rcv" \in bells \/ receiver.data = 0

(* The inductive invariant.                                                 *)
FtInv == FtTypeInv /\ Counts /\ SenderRings /\ ReceiverRings

(* The transfer starts with nothing counted and nobody waiting.             *)
LEMMA FtInitInv ==
  ASSUME FtInit
  PROVE  FtInv
  <1>1. file \in [left : Nat, failed : BOOLEAN] /\ ~file.failed
    <2>1. {Asked, IF Asked > 2 THEN Asked - 2 ELSE 0} \subseteq Nat
      BY FileTransferAssumption
    <2>2. file \in [left : {Asked, IF Asked > 2 THEN Asked - 2 ELSE 0}, failed : {FALSE}]
      BY DEF FtInit
    <2>3. /\ file.left \in Nat /\ file.failed = FALSE
          /\ file = [left |-> file.left, failed |-> file.failed]
      BY <2>1, <2>2
    <2>4. QED
      BY <2>3
  <1>2. /\ sender = [at |-> "loop", left |-> Asked, count |-> 0, blocks |-> 0]
        /\ receiver = [at |-> "loop", left |-> Asked, data |-> 0, broken |-> FALSE]
        /\ toAck = 0 /\ bells = {} /\ syn \in BOOLEAN /\ healthy = TRUE
    BY DEF FtInit
  <1>3. FtTypeInv
    BY <1>1, <1>2, FileTransferAssumption DEF FtTypeInv, Stages
  <1>4. QED
    BY <1>1, <1>2, <1>3 DEF FtInv, Counts, SenderRings, ReceiverRings

(* The smaller of two numbers.                                              *)
LEMMA LeastOfTwo ==
  ASSUME NEW a \in Nat, NEW b \in Nat
  PROVE  Least(a, b) \in Nat /\ Least(a, b) <= a /\ Least(a, b) <= b
  BY DEF Least

(* sendfile waits for a full buffer only, and not once the file failed.     *)
LEMMA SendSteps ==
  ASSUME FtInv, SendLoop \/ SendAgain
  PROVE  FtInv'
  <1>1. /\ UNCHANGED <<syn, file, receiver, healthy, toAck, bells>>
        /\ sender'.at \in {"done", "failed", "wait", "go"}
        /\ sender'.at = "wait" => SndBlocks <= sender.count
        /\ file.failed => sender'.at \in {"done", "failed"}
        /\ sender' = [sender EXCEPT !.at = sender'.at]
    BY DEF FtInv, FtTypeInv, Counts, SendLoop, SendAgain, MustWait, BufferFull
  <1>2. sender' \in [at : Stages \cup {"peer_error"}, left : Nat, count : Int, blocks : Int]
    BY <1>1 DEF FtInv, FtTypeInv, Stages
  <1>3. sender'.count = sender.count /\ sender'.blocks = sender.blocks
    BY <1>1 DEF FtInv, FtTypeInv
  <1>4. QED
    BY <1>1, <1>2, <1>3 DEF FtInv, FtTypeInv, Counts, SenderRings, ReceiverRings

(* A block that is shorter than asked for is the last one.                  *)
LEMMA SendBlockStep ==
  ASSUME FtInv, SendBlock
  PROVE  FtInv'
  <1>1. CASE healthy
    <2> DEFINE size == Least(sender.left, Chunk)
               real == Least(size, file.left)
    <2>1. /\ size \in Nat /\ real \in Nat /\ real <= size /\ size <= sender.left
      BY LeastOfTwo, FileTransferAssumption DEF FtInv, FtTypeInv
    <2>2. /\ sender' = [at |-> "loop", left |-> sender.left - real,
                        count |-> sender.count + size, blocks |-> sender.blocks + real]
          /\ file' = [left |-> file.left - real, failed |-> real < size]
          /\ UNCHANGED <<syn, receiver, healthy, toAck, bells>>
      BY <1>1 DEF SendBlock, addBufferFromFile
    <2>3. real <= file.left /\ ~file.failed
      BY <2>1, LeastOfTwo DEF FtInv, FtTypeInv, Counts, SendBlock
    <2> HIDE DEF size, real
    <2>4. FtTypeInv'
      BY <2>1, <2>2, <2>3 DEF FtInv, FtTypeInv, Stages
    <2>5. Counts'
      <3>1. file'.failed <=> real < size
        BY <2>2
      <3>2. /\ sender'.count = sender.count + size /\ sender'.blocks = sender.blocks + real
            /\ sender'.at = "loop"
        BY <2>2
      <3>3. toAck <= sender.blocks /\ sender.count = sender.blocks
        BY <2>3 DEF FtInv, Counts
      <3>4. /\ sender.count \in Int /\ sender.blocks \in Int /\ toAck \in Nat
        BY DEF FtInv, FtTypeInv
      <3>5. QED
        BY <2>1, <2>2, <3>1, <3>2, <3>3, <3>4 DEF Counts
    <2>6. SenderRings' /\ ReceiverRings'
      BY <2>2 DEF FtInv, SenderRings, ReceiverRings
    <2>7. QED
      BY <2>4, <2>5, <2>6 DEF FtInv
  <1>2. CASE ~healthy
    BY <1>2 DEF FtInv, FtTypeInv, Stages, Counts, SenderRings, ReceiverRings, SendBlock
  <1>3. QED
    BY <1>1, <1>2

(* Data that arrives rings for the reader.                                  *)
LEMMA ArriveStep ==
  ASSUME FtInv, NEW n \in 1 .. RcvBlocks, Arrive(n)
  PROVE  FtInv'
  <1>1. receiver' \in [at : Stages, left : Nat, data : Nat, broken : BOOLEAN]
    BY FileTransferAssumption DEF FtInv, FtTypeInv, Arrive
  <1>2. syn => "rcv" \in bells'
    BY DEF Arrive, RingFor, RingSyn
  <1>3. bells \subseteq bells' /\ bells' \subseteq {"snd", "rcv"}
    BY DEF FtInv, FtTypeInv, Arrive, RingFor, RingSyn
  <1>4. toAck' \in Nat /\ toAck' <= sender.blocks /\ UNCHANGED <<syn, file, sender, healthy>>
    BY FileTransferAssumption DEF FtInv, FtTypeInv, Arrive
  <1>5. QED
    BY <1>1, <1>2, <1>3, <1>4 DEF FtInv, FtTypeInv, Counts, SenderRings, ReceiverRings

(* An ACK frees blocks, and rings for the writer.                           *)
LEMMA AckDataStep ==
  ASSUME FtInv, AckData
  PROVE  FtInv'
  <1>1. syn => "snd" \in bells'
    BY DEF AckData, RingFor, RingSyn
  <1>2. bells \subseteq bells' /\ bells' \subseteq {"snd", "rcv"}
    BY DEF FtInv, FtTypeInv, AckData, RingFor, RingSyn
  <1>3. QED
    BY <1>1, <1>2 DEF FtInv, FtTypeInv, Counts, SenderRings, ReceiverRings, AckData

(* Who is signalled does not wait any more.                                 *)
LEMMA RingStep ==
  ASSUME FtInv, Ring
  PROVE  FtInv'
  <1>1. PICK who \in bells :
          /\ bells' = bells \ {who}
          /\ sender' = [sender EXCEPT !.at = IF who = "snd" /\ @ = "wait" THEN "woken" ELSE @]
          /\ receiver' = [receiver EXCEPT !.at = IF who = "rcv" /\ @ = "wait" THEN "woken" ELSE @]
          /\ UNCHANGED <<syn, file, healthy, toAck, errors>>
    BY DEF Ring
  <1>2. /\ sender' \in [at : Stages \cup {"peer_error"}, left : Nat, count : Int, blocks : Int]
        /\ sender'.count = sender.count /\ sender'.blocks = sender.blocks
        /\ sender'.at = IF who = "snd" /\ sender.at = "wait" THEN "woken" ELSE sender.at
    BY <1>1 DEF FtInv, FtTypeInv, Stages
  <1>3. /\ receiver' \in [at : Stages, left : Nat, data : Nat, broken : BOOLEAN]
        /\ receiver'.data = receiver.data
        /\ receiver'.at = IF who = "rcv" /\ receiver.at = "wait" THEN "woken" ELSE receiver.at
    BY <1>1 DEF FtInv, FtTypeInv, Stages
  <1>4. QED
    BY <1>1, <1>2, <1>3 DEF FtInv, FtTypeInv, Counts, SenderRings, ReceiverRings

(* recvfile waits for an empty buffer only.                                 *)
LEMMA ReceiveSteps ==
  ASSUME FtInv, ReceiveLoop \/ ReceiveAgain
  PROVE  FtInv'
  <1>1. /\ receiver' \in [at : Stages, left : Nat, data : Nat, broken : BOOLEAN]
        /\ receiver'.at = "wait" => receiver'.data = 0
        /\ UNCHANGED <<syn, file, sender, healthy, toAck, bells>>
    BY DEF FtInv, FtTypeInv, Stages, ReceiveLoop, ReceiveAgain
  <1>2. QED
    BY <1>1 DEF FtInv, FtTypeInv, Counts, SenderRings, ReceiverRings

(* A block is written as far as the disk allows.                            *)
LEMMA ReceiveBlockStep ==
  ASSUME FtInv, ReceiveBlock
  PROVE  FtInv'
  <1> DEFINE size == Least(Least(receiver.left, Chunk), receiver.data)
             most == Least(receiver.left, Chunk)
  <1>1. receiver.left \in Nat /\ receiver.data \in Nat /\ Chunk \in Nat
    BY FileTransferAssumption DEF FtInv, FtTypeInv
  <1>2. most \in Nat /\ most <= receiver.left
    BY <1>1, LeastOfTwo
  <1> HIDE DEF most
  <1>3. Least(most, receiver.data) \in Nat /\ Least(most, receiver.data) <= most
        /\ Least(most, receiver.data) <= receiver.data
    BY <1>1, <1>2, LeastOfTwo
  <1>4. size \in Nat /\ size <= receiver.left /\ size <= receiver.data
    BY <1>1, <1>2, <1>3 DEF most
  <1>5. PICK n \in 0 .. size :
          receiver' = [at |-> "loop", left |-> receiver.left - n,
                       data |-> receiver.data - n, broken |-> n < size]
    BY DEF ReceiveBlock
  <1>6. UNCHANGED <<syn, file, sender, healthy, toAck, bells>>
    BY DEF ReceiveBlock
  <1> HIDE DEF size
  <1>7. QED
    BY <1>4, <1>5, <1>6 DEF FtInv, FtTypeInv, Stages, Counts, SenderRings, ReceiverRings

(* Every step keeps the invariant.                                          *)
LEMMA FtStepInv ==
  ASSUME FtInv, [FtNext]_ftVars
  PROVE  FtInv'
  <1>1. CASE UNCHANGED ftVars
    BY <1>1 DEF FtInv, FtTypeInv, Counts, SenderRings, ReceiverRings, ftVars
  <1>2. CASE PeerError
    BY <1>2 DEF FtInv, FtTypeInv, Counts, SenderRings, ReceiverRings, PeerError
  <1>3. QED
    BY <1>1, <1>2, SendSteps, SendBlockStep, ArriveStep, AckDataStep, RingStep, ReceiveSteps,
       ReceiveBlockStep DEF FtNext

(* A waiting call has a signal, data or a reason to wait.                  *)
LEMMA FtConsequence ==
  ASSUME FtInv
  PROVE  FileMoves
  <1>1. ASSUME syn, sender.at = "wait", receiver.at \notin {"failed", "done"}
        PROVE  \/ "snd" \in bells \/ toAck > 0
               \/ sender.blocks > toAck
                  /\ (receiver.data < RcvBlocks \/ Receiving \/ "rcv" \in bells)
    <2>1. "snd" \in bells \/ sender.blocks > 0
      BY <1>1, FileTransferAssumption DEF FtInv, FtTypeInv, Counts, SenderRings
    <2>2. receiver.at = "wait" => "rcv" \in bells \/ receiver.data < RcvBlocks
      BY <1>1, FileTransferAssumption DEF FtInv, ReceiverRings
    <2>3. receiver.at # "wait" => Receiving
      BY <1>1 DEF FtInv, FtTypeInv, Stages, Receiving
    <2>4. QED
      BY <2>1, <2>2, <2>3 DEF FtInv, FtTypeInv
  <1>2. QED
    BY <1>1 DEF FtInv, Counts, ReceiverRings, FileMoves, Short

(* The invariant, for buffers, files and parameter blocks of any size.      *)
THEOREM FtInvariance == FtSpec => []FtInv
  BY FtInitInv, FtStepInv, PTL DEF FtSpec

(* A blocked sendfile or recvfile is going to be woken, but for the two     *)
(* ways that FileMoves names, and the buffer counts what it holds.          *)
THEOREM AlwaysMoves == FtSpec => []FileMoves
  BY FtInvariance, FtConsequence, PTL
=============================================================================
