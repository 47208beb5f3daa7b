------------------------------ MODULE SndQueue ------------------------------
(***************************************************************************)
(* The sending schedule: the heap of CSndUList, the sending worker that     *)
(* takes its first entry when it is due, and CTimer, which other threads    *)
(* interrupt when an earlier entry arrives.                                *)
(*                                                                         *)
(* Every call on the list runs under m_ListLock, in one step here, except   *)
(* that insert_ goes on to lock m_WindowLock and signal: until then         *)
(* `ringing` holds and so does the list lock.  A socket is known by its     *)
(* place in the heap, since a call names any one of those that are in it.   *)
(***************************************************************************)
EXTENDS Integers, Sequences

CONSTANTS Sockets,     \* how many sockets send through this multiplexer
          MaxTime      \* the clock stops here

ASSUME SndQueueAssumption == Sockets \in Nat \ {0} /\ MaxTime \in Nat \ {0}

VARIABLES
  heap,      \* m_pHeap[0 .. m_iLastEntry], as time stamps
  now,       \* CTimer::rdtsc
  sched,     \* m_ullSchedTime
  sndPc,     \* where the worker is: next, check, sleep, pop, wait, done
  due,       \* the worker's ts, read by getNextProcTime
  ringing,   \* insert_ is about to signal m_WindowCond
  sndClosing,
  skewed,    \* history: the order was put at risk by a removal (remove_)
  missed     \* history: interrupted between reading the time and sleepto

sqVars == <<heap, now, sched, sndPc, due, ringing, sndClosing, skewed, missed>>

SqInit ==
  /\ heap = <<>> /\ now = 1 /\ sched = 0 /\ sndPc = "next" /\ due = 0
  /\ ringing = FALSE /\ sndClosing = FALSE /\ skewed = FALSE /\ missed = FALSE

-----------------------------------------------------------------------------
(* The heap.  An entry is exchanged with its parent or with its earlier     *)
(* child, until it is in order.  `next` leads from a place to the one the   *)
(* entry goes to, or to itself where the entry stays; what it meets moves   *)
(* the other way.                                                          *)
Path(next, q) ==
  {p \in DOMAIN next :
     \A P \in SUBSET DOMAIN next : (q \in P /\ \A r \in P : next[r] \in P) => p \in P}
Sifted(h, next, q) ==
  LET path == Path(next, q)
  IN  [p \in DOMAIN h |-> IF p \notin path THEN h[p]
                         ELSE IF next[p] = p THEN h[q] ELSE h[next[p]]]

(* insert_ sifts up; remove_ moves the last entry into the hole and sifts   *)
(* down only.                                                              *)
Up(h, ts) == [p \in DOMAIN h |-> IF p > 1 /\ h[p \div 2] > ts THEN p \div 2 ELSE p]

Child(h, p) == IF 2 * p + 1 <= Len(h) /\ h[2 * p] > h[2 * p + 1] THEN 2 * p + 1 ELSE 2 * p
Down(h, ts) ==
  [p \in DOMAIN h |-> IF 2 * p <= Len(h) /\ h[Child(h, p)] < ts THEN Child(h, p) ELSE p]

InsertedLast(h, ts) == Append(h, ts)
Inserted(h, ts) ==
  LET g == Append(h, ts) IN Sifted(g, Up(g, ts), Len(g))
TakesRoot(h, ts) == h = <<>> \/ Inserted(h, ts)[1] # h[1]

Shorter(h) == SubSeq(h, 1, Len(h) - 1)
Refilled(h, i) == [Shorter(h) EXCEPT ![i] = h[Len(h)]]
Removed(h, i) ==
  IF i = Len(h) THEN Shorter(h)
  ELSE Sifted(Refilled(h, i), Down(Refilled(h, i), h[Len(h)]), i)

(* A hole below the children of the root may take an entry that is earlier  *)
(* than its new parent, once the last entry is under the other child.       *)
Risky(h, i) == i >= 4 /\ Len(h) >= 6
Skew(h, i)  == skewed' = ((skewed \/ Risky(h, i)) /\ Len(h) > 2)

(* CTimer::interrupt sets the time the worker sleeps to; sleepto overwrites *)
(* one that came too early.                                                *)
Interrupt ==
  /\ sched' = now
  /\ missed' = (missed \/ sndPc = "check")
NoInterrupt == UNCHANGED <<sched, missed>>

(* insert_: wakes the worker for a new first entry, and one that waits for  *)
(* the list to fill.  `woken`: a remove_ in the same call interrupted it.   *)
insert_(h, ts, woken) ==
  /\ heap' = Inserted(h, ts)
  /\ ringing' = (h = <<>>)
  /\ IF woken \/ TakesRoot(h, ts) THEN Interrupt ELSE NoInterrupt

(* remove_: "the only event has been deleted" is tested as one being left.  *)
remove_(i) ==
  /\ heap' = Removed(heap, i)
  /\ Skew(heap, i)
  /\ IF Len(heap) = 2 THEN Interrupt ELSE NoInterrupt

-----------------------------------------------------------------------------
(* The other threads, which need the list lock.                            *)

ListFree == ~ringing /\ ~sndClosing

(* update(u, reschedule) for a socket that is not in the heap.             *)
Schedule ==
  /\ ListFree /\ Len(heap) < Sockets
  /\ insert_(heap, 1, FALSE)
  /\ UNCHANGED <<now, sndPc, due, sndClosing, skewed>>

(* update(u, true) for one that is: a NAK or a time-out wants it sent now.  *)
Reschedule(i) ==
  /\ ListFree
  /\ IF i = 1
       THEN /\ heap' = [heap EXCEPT ![1] = 1]
            /\ Interrupt
            /\ UNCHANGED <<ringing, skewed>>
       ELSE insert_(Removed(heap, i), 1, Len(heap) = 2) /\ Skew(heap, i)
  /\ UNCHANGED <<now, sndPc, due, sndClosing>>

(* CUDT::close                                                             *)
Unschedule(i) ==
  /\ ListFree
  /\ remove_(i)
  /\ UNCHANGED <<now, sndPc, due, ringing, sndClosing>>

(* close() of a socket that is not in the heap only interrupts.             *)
Unlisted ==
  /\ ListFree /\ Len(heap) = 1 /\ Len(heap) < Sockets
  /\ Interrupt
  /\ UNCHANGED <<heap, now, sndPc, due, ringing, sndClosing, skewed>>

(* The signal of insert_, under m_WindowLock.                              *)
Signal ==
  /\ ringing
  /\ ringing' = FALSE
  /\ sndPc' = IF sndPc = "wait" THEN "next" ELSE sndPc
  /\ UNCHANGED <<heap, now, sched, due, sndClosing, skewed, missed>>

(* ~CSndQueue, when the last socket has left.                              *)
CloseQueue ==
  /\ ListFree /\ heap = <<>>
  /\ sndClosing' = TRUE
  /\ sndPc' = IF sndPc = "wait" THEN "next" ELSE sndPc
  /\ UNCHANGED <<heap, now, sched, due, ringing, skewed, missed>>

ClockTick == now < MaxTime /\ now' = now + 1
        /\ UNCHANGED <<heap, sched, sndPc, due, ringing, sndClosing, skewed, missed>>

-----------------------------------------------------------------------------
(* CSndQueue::worker                                                       *)

getNextProcTime ==
  /\ sndPc = "next" /\ (sndClosing \/ ~ringing)
  /\ IF sndClosing THEN sndPc' = "done" /\ UNCHANGED due
     ELSE /\ due' = IF heap = <<>> THEN 0 ELSE heap[1]
          /\ sndPc' = IF heap = <<>> THEN "idle" ELSE "check"
  /\ missed' = FALSE
  /\ UNCHANGED <<heap, now, sched, ringing, sndClosing, skewed>>

(* The test and the wait are one step: the worker holds m_WindowLock.       *)
NothingToSend == ~sndClosing /\ heap = <<>>
OldNews       == ~sndClosing /\ due = 0
StillEmpty    == NothingToSend
Wait ==
  /\ sndPc = "idle"
  /\ sndPc' = IF StillEmpty THEN "wait" ELSE "next"
  /\ UNCHANGED <<heap, now, sched, due, ringing, sndClosing, skewed, missed>>

SleepTo ==
  /\ sndPc = "check"
  /\ IF now < due THEN sndPc' = "sleep" /\ sched' = due
                  ELSE sndPc' = "pop" /\ UNCHANGED sched
  /\ UNCHANGED <<heap, now, due, ringing, sndClosing, skewed, missed>>

Wake ==
  /\ sndPc = "sleep" /\ now >= sched
  /\ sndPc' = "pop"
  /\ UNCHANGED <<heap, now, sched, due, ringing, sndClosing, skewed, missed>>

(* pop, whose packData says when the socket is to send again, or not to.    *)
pop ==
  /\ sndPc = "pop" /\ ~ringing
  /\ sndPc' = "next"
  /\ IF \A i \in DOMAIN heap : heap[1] > now
       THEN UNCHANGED <<heap, sched, ringing, skewed, missed>>
       ELSE \/ remove_(1) /\ UNCHANGED ringing
            \/ \E ts \in now .. MaxTime :
                 insert_(Removed(heap, 1), ts, Len(heap) = 2) /\ Skew(heap, 1)
  /\ UNCHANGED <<now, due, sndClosing>>

-----------------------------------------------------------------------------
SqNext ==
  \/ Schedule \/ Unlisted \/ Signal \/ CloseQueue \/ ClockTick
  \/ \E i \in DOMAIN heap : Reschedule(i) \/ Unschedule(i)
  \/ getNextProcTime \/ Wait \/ SleepTo \/ Wake \/ pop

SqSpec == SqInit /\ [][SqNext]_sqVars

-----------------------------------------------------------------------------
(* The worker, which looks only at the first entry, serves them in the      *)
(* order of their times; except after a removal from the depth of a heap of *)
(* six or more.                                                            *)
FirstIsEarliest == skewed \/ \A i \in DOMAIN heap : heap[1] <= heap[i]

(* The worker neither waits while a socket is in the list, unless the       *)
(* signal is on its way, nor sleeps past the time of the first one, unless  *)
(* it was interrupted just before it slept.                                *)
WorkerAwake ==
  /\ sndPc = "wait" => ~sndClosing /\ (heap = <<>> \/ ringing)
  /\ sndPc = "sleep" /\ heap # <<>> => sched <= now \/ sched <= heap[1] \/ missed \/ skewed
=============================================================================
