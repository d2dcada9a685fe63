------------------------------ MODULE FIFOPolicy ------------------------------
(***************************************************************************)
(* src/cache/eviction_policies/FIFOPolicy.cpp: FIFOCache keeps cacheMap    *)
(* and a std::queue cacheQueue of the keys in insertion order.  put of a   *)
(* new key evicts the queue's front when the queue holds capacity keys,    *)
(* then pushes the key; put of a present key only overwrites its value.   *)
(* The class is used by one thread, so each method is one action; get and *)
(* isEmpty only read.                                                      *)
(***************************************************************************)
EXTENDS Integers, Sequences

CONSTANTS Keys, Values, Capacity

\* The constructor throws invalid_argument for a capacity of 0.
ASSUME Capacity \in Nat \ {0}

VARIABLES
    cacheMap,    \* a function from the cached keys to their values
    cacheQueue   \* the keys, front first

vars == <<cacheMap, cacheQueue>>

TypeOK ==
    /\ DOMAIN cacheMap \subseteq Keys
    /\ \A k \in DOMAIN cacheMap : cacheMap[k] \in Values
    /\ cacheQueue \in Seq(Keys) /\ Len(cacheQueue) <= Capacity

Init == cacheMap = [k \in {} |-> 0] /\ cacheQueue = <<>>

\* get: cacheMap[key], or -1 for a missing key.
Get(k) == IF k \in DOMAIN cacheMap THEN cacheMap[k] ELSE -1

\* The map with key k set to v.
Assign(m, k, v) == [x \in DOMAIN m \cup {k} |-> IF x = k THEN v ELSE m[x]]

-----------------------------------------------------------------------------
(* Mutant: evict() takes the most recent key, the queue's back.            *)
EvictBack(m, q) ==
    <<[x \in DOMAIN m \ {q[Len(q)]} |-> m[x]], SubSeq(q, 1, Len(q) - 1)>>

\* evict(): pop the front key and erase it from the map.
Evict(m, q) == <<[x \in DOMAIN m \ {Head(q)} |-> m[x]], Tail(q)>>

-----------------------------------------------------------------------------
(* Mutant: the full test written as size() > capacity.                     *)
PutEvictsAbove(k, v) ==
    LET mq == IF k \notin DOMAIN cacheMap /\ Len(cacheQueue) > Capacity
              THEN Evict(cacheMap, cacheQueue) ELSE <<cacheMap, cacheQueue>>
    IN  /\ cacheMap' = Assign(mq[1], k, v)
        /\ cacheQueue' = IF k \in DOMAIN cacheMap THEN mq[2] ELSE Append(mq[2], k)

\* put: for a new key, evict() if cacheQueue.size() == capacity and push
\* the key; then cacheMap[key] = value.
Put(k, v) ==
    LET mq == IF k \notin DOMAIN cacheMap /\ Len(cacheQueue) = Capacity
              THEN Evict(cacheMap, cacheQueue) ELSE <<cacheMap, cacheQueue>>
    IN  /\ cacheMap' = Assign(mq[1], k, v)
        /\ cacheQueue' = IF k \in DOMAIN cacheMap THEN mq[2] ELSE Append(mq[2], k)

\* clear: pop the queue empty, then cacheMap.clear().
Clear ==
    /\ cacheMap' = [k \in {} |-> 0]
    /\ cacheQueue' = <<>>

Next ==
    \/ \E k \in Keys, v \in Values : Put(k, v)
    \/ Clear

Spec == Init /\ [][Next]_vars

-----------------------------------------------------------------------------
(* Properties.                                                             *)

\* Every sequence of put and clear behaves as a FIFO table: at most
\* capacity entries, an update keeps the key's place, and a new key in a
\* full cache evicts the key inserted first (the queue's front stays in
\* step with the map, whatever updates of present keys do to neither).
Abstract == INSTANCE FIFOCache WITH
    entries <- cacheMap,
    before <- {<<cacheQueue[p[1]], cacheQueue[p[2]]>> :
                 p \in {ij \in (DOMAIN cacheQueue) \X (DOMAIN cacheQueue) : ij[1] < ij[2]}}

FIFOCacheRefined == Abstract!Spec
==============================================================================
