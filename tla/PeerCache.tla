----------------------------- MODULE PeerCache -----------------------------
(***************************************************************************)
(* CCache: what connections learned of their peers (CInfoBlock), the last   *)
(* updated first in m_StorageList, with iterators into that list in the     *)
(* buckets of a hash table.  A node of the list is the number of the update *)
(* that made it, so the largest number of an address is its latest value.   *)
(***************************************************************************)
EXTENDS Integers, Sequences, SequencesExt, FiniteSetsExt

CONSTANTS Addresses,   \* getKey() of each peer's address
          MaxSize,     \* m_iMaxSize
          MaxUpdates   \* the model updates no more often

ASSUME PeerCacheAssumption ==
  /\ Addresses \subseteq Int
  /\ MaxSize \in Nat \ {0, 1} /\ MaxUpdates \in Nat \ {0}

VARIABLES
  storage,     \* m_StorageList
  owner,       \* the address of each node
  hashPtr,     \* m_vHashPtr
  spoiled      \* buckets that an overflow has mixed up

pcVars == <<storage, owner, hashPtr, spoiled>>

HashLen == 3 * MaxSize

PcInit ==
  /\ storage = <<>> /\ owner = <<>> /\ spoiled = {}
  /\ hashPtr = [k \in 0 .. HashLen - 1 |-> <<>>]

-----------------------------------------------------------------------------
KeyOf(a) == IF a >= MaxSize THEN a % HashLen ELSE a

(* A search of a bucket ends at the address, or at an iterator whose node   *)
(* is gone: what the code does then is undefined.                          *)
Dangling(n) == ~Contains(storage, n)
Hits(l, a)  == {i \in DOMAIN l : Dangling(l[i]) \/ owner[l[i]] = a}
FindAt(l, a) == Min(Hits(l, a))
Find(l, a)  == IF Hits(l, a) = {} THEN 0 ELSE l[FindAt(l, a)]
Defined(l, a) == Find(l, a) # 0 => ~Dangling(Find(l, a))

lookup(a) == Find(hashPtr[KeyOf(a)], a)

New == Len(owner) + 1

(* The entry at a place is erased, and the new one put at the front.        *)
NotErased(l, i) == <<New>> \o l
ToFront(l, i) == <<New>> \o RemoveAt(l, i)
Renewed(l, i) == ToFront(l, i)

Renew(a) ==
  /\ lookup(a) # 0
  /\ storage' = Renewed(storage, CHOOSE i \in DOMAIN storage : storage[i] = lookup(a))
  /\ hashPtr' = [hashPtr EXCEPT ![KeyOf(a)] = Renewed(@, FindAt(@, a))]
  /\ UNCHANGED spoiled

InsertNew(a) ==
  /\ lookup(a) = 0 /\ Len(storage) + 1 < MaxSize
  /\ storage' = <<New>> \o storage
  /\ hashPtr' = [hashPtr EXCEPT ![KeyOf(a)] = <<New>> \o @]
  /\ UNCHANGED spoiled

(* item_list is a reference to the new entry's bucket: `item_list =         *)
(* m_vHashPtr[last_key]` copies the oldest entry's bucket over it, and the  *)
(* first entry of the oldest one's address is erased from the copy.         *)
Erased(l, a) == IF Hits(l, a) = {} THEN l ELSE RemoveAt(l, FindAt(l, a))

Overflow(a) ==
  LET last == Last(storage)
      from == owner[last] % HashLen
      rest == Erased(hashPtr[from], owner[last])
  IN  /\ lookup(a) = 0 /\ Len(storage) + 1 >= MaxSize
      /\ owner[last] = a \/ Defined(hashPtr[from], owner[last])
      /\ storage' = <<New>> \o Front(storage)
      /\ hashPtr' = [hashPtr EXCEPT ![KeyOf(a)] =
                       IF owner[last] = a THEN hashPtr[from]
                       ELSE IF from = KeyOf(a) THEN <<New>> \o rest ELSE rest]
      /\ spoiled' = IF from = KeyOf(a) THEN spoiled ELSE spoiled \cup {from, KeyOf(a)}

(* A negative key is refused.                                              *)
update(a) ==
  /\ a >= 0 /\ New <= MaxUpdates
  /\ Defined(hashPtr[KeyOf(a)], a)
  /\ Renew(a) \/ InsertNew(a) \/ Overflow(a)
  /\ owner' = Append(owner, a)

PcNext == \E a \in Addresses : update(a)

PcSpec == PcInit /\ [][PcNext]_pcVars

-----------------------------------------------------------------------------
Latest(a) == Max({0} \cup {n \in DOMAIN owner : owner[n] = a})
Later(a)  == {b \in Addresses : Latest(b) > Latest(a)}

(* The cache knows just the addresses updated last, with what the last      *)
(* update said.  Once an overflow has dropped an address from another       *)
(* bucket than the new one's, those two are mixed up, and the others still  *)
(* answer with the last update of what is stored or with nothing.           *)
CacheAnswers ==
  \A a \in Addresses : a >= 0 /\ KeyOf(a) \notin spoiled =>
    /\ lookup(a) = IF Contains(storage, Latest(a)) THEN Latest(a) ELSE 0
    /\ spoiled = {} /\ Latest(a) # 0 =>
         (lookup(a) # 0 <=> Cardinality(Later(a)) < MaxSize - 1)
=============================================================================
