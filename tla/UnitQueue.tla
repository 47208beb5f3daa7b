------------------------------ MODULE UnitQueue ------------------------------
(***************************************************************************)
(* The pool of packet units that the receiving worker fills and the         *)
(* applications empty (CUnitQueue, CRcvBuffer's addData and reads).         *)
(*                                                                         *)
(* Only the worker takes units.  m_iCount is changed by all threads without *)
(* a lock, so that each change is a read and a write; increase() counts     *)
(* again.  The scan for a free unit looks past the last one of each block.  *)
(***************************************************************************)
EXTENDS Integers, FiniteSets

CONSTANTS BlockSize,   \* units in a block (32)
          MaxBlocks,   \* no memory for more
          Num, Den     \* grow once Num / Den are used (9 / 10)

ASSUME UnitQueueAssumption ==
  /\ BlockSize \in Nat \ {0, 1} /\ MaxBlocks \in Nat \ {0}
  /\ Num \in Nat /\ Den \in Nat /\ Num < Den

VARIABLES
  blocks,    \* how many there are; m_iSize is BlockSize times that
  used,      \* the units whose m_iFlag is not 0
  avail,     \* m_pAvailUnit, in m_pCurrQueue
  count,     \* m_iCount
  adding,    \* what addData's ++ has read, or NoRead
  freeing,   \* what a reader's -- has read, or NoRead
  skips,     \* history: packets skipped in a row, at most two counted
  hadRoom    \* history: a unit other than the last of a block was free then

uqVars == <<blocks, used, avail, count, adding, freeing, skips, hadRoom>>

NoRead  == 0 - BlockSize * MaxBlocks * 10
First(b) == BlockSize * b
BlockOf(i) == i \div BlockSize
IsLast(i)  == i % BlockSize = BlockSize - 1

UqInit ==
  /\ blocks = 1 /\ used = {} /\ avail = 0 /\ count = 0
  /\ adding = NoRead /\ freeing = NoRead /\ skips = 0 /\ hadRoom = FALSE

(* increase(): the true count, and one more block if it is large.           *)
Grown == IF Cardinality(used) * Den >= blocks * BlockSize * Num /\ blocks < MaxBlocks
           THEN blocks + 1 ELSE blocks

(* The circular scan, from m_pAvailUnit to before the last unit, then the   *)
(* first one, then the next block, in a queue of n blocks.                 *)
BlocksAhead(i, n) == (BlockOf(i) - BlockOf(avail) + n) % n
Position(i)    == IF BlockOf(i) # BlockOf(avail) THEN i % BlockSize
                  ELSE IF i >= avail THEN i - avail ELSE BlockSize
Rank(i, n)     == BlocksAhead(i, n) * (BlockSize + 1) + Position(i)
Scanned(i)     == ~IsLast(i) /\ (BlockOf(i) # BlockOf(avail) \/ i >= avail \/ i = First(BlockOf(i)))

Rewound == First(BlockOf(avail))
Stays   == avail
Restart == Rewound

(* getNextAvailUnit, and what becomes of the unit: a data packet that       *)
(* addData accepts takes it, any other leaves it free.                     *)
getNextAvailUnit ==
  LET crowded == count * Den > blocks * BlockSize * Num
      n       == IF crowded THEN Grown ELSE blocks
      c       == IF crowded THEN Cardinality(used) ELSE count
      free    == {i \in 0 .. n * BlockSize - 1 : i \notin used /\ Scanned(i)}
      skip    == /\ skips' = (IF skips = 0 THEN 1 ELSE 2)
                 /\ hadRoom' = (\E i \in 0 .. n * BlockSize - 1 : i \notin used /\ ~IsLast(i))
                 /\ UNCHANGED <<used, adding>>
  IN  /\ adding = NoRead
      /\ IF c >= n * BlockSize
           THEN skip /\ blocks' = n /\ count' = c /\ UNCHANGED avail
         ELSE IF free = {}
           THEN skip /\ blocks' = Grown
                /\ count' = Cardinality(used) /\ avail' = Restart
         ELSE \E unit \in free :
              /\ \A j \in free : Rank(unit, n) <= Rank(j, n)
              /\ blocks' = n /\ count' = c /\ avail' = unit
              /\ skips' = 0 /\ hadRoom' = FALSE
              /\ \/ used' = used \cup {unit} /\ adding' = c
                 \/ UNCHANGED <<used, adding>>
      /\ UNCHANGED freeing

Added ==
  /\ adding # NoRead
  /\ count' = adding + 1 /\ adding' = NoRead
  /\ UNCHANGED <<blocks, used, avail, freeing, skips, hadRoom>>

(* A reader gives a unit back; one does so at a time.                      *)
Free(i) ==
  /\ freeing = NoRead
  /\ used' = used \ {i} /\ freeing' = count
  /\ UNCHANGED <<blocks, avail, count, adding, skips, hadRoom>>

Freed ==
  /\ freeing # NoRead
  /\ count' = freeing - 1 /\ freeing' = NoRead
  /\ UNCHANGED <<blocks, used, avail, adding, skips, hadRoom>>

(* Lost updates move m_iCount away from the truth by at most Drift here.    *)
Drift == 3
Bounded == count - Cardinality(used) \in -Drift .. Drift

UqNext == Bounded /\ (getNextAvailUnit \/ Added \/ Freed \/ \E i \in used : Free(i))

UqSpec == UqInit /\ [][UqNext]_uqVars

-----------------------------------------------------------------------------
(* getNextAvailUnit may skip a packet although units are free behind        *)
(* m_pAvailUnit, but not twice in a row: then only the last units of the    *)
(* blocks are free.  It holds whatever m_iCount has drifted to.            *)
SkipsOnce == skips = 2 => ~hadRoom
=============================================================================
