---------------------------- MODULE InMemoryStore ----------------------------
(***************************************************************************)
(* src/cache/InMemoryStore.cpp: the Local Store.  cache_list holds the     *)
(* CacheNodes most recently used first and cache_map indexes them by key;  *)
(* every public method holds cache_mutex for its whole body, so each call  *)
(* is one atomic step and the threads using the store interleave whole     *)
(* calls.  The two structures always hold the same keys at the end of a    *)
(* call, so the model keeps the list and derives the index from it.        *)
(* exists, size, printCache and getLRUKey only read; a get or remove of a  *)
(* missing key throws before changing anything.                            *)
(***************************************************************************)
EXTENDS Integers, Sequences

SeqExt == INSTANCE SequencesExt

CONSTANTS
    Keys,       \* the keys callers use
    Values,     \* the values callers store
    MaxSize,    \* max_size
    MaxClock    \* bound on the readings of steady_clock::now()

\* InMemoryStore(size) throws std::invalid_argument for size 0.
ASSUME MaxSize \in Nat \ {0} /\ MaxClock \in Nat

VARIABLES
    cacheList,  \* cache_list: <<[key, value, lastAccessed]>>, front first
    clock       \* steady_clock: monotonic, two readings may be equal

vars == <<cacheList, clock>>

CacheNode == [key : Keys, value : Values, lastAccessed : 0..MaxClock]

\* The keys cache_map holds.
Stored == {cacheList[i].key : i \in DOMAIN cacheList}

TypeOK ==
    /\ cacheList \in Seq(CacheNode)
    /\ Len(cacheList) <= MaxSize
    /\ clock \in 0..MaxClock

Init == cacheList = <<>> /\ clock = 0

\* Where cache_map[key] points.
Position(k) == CHOOSE i \in DOMAIN cacheList : cacheList[i].key = k

\* A call reads steady_clock::now() once.
Now(t) == t \in clock..MaxClock /\ clock' = t

-----------------------------------------------------------------------------
(* Mutant: touchNode updating last_accessed without the splice.          *)

TouchNodeInPlace(lst, i, t) == [lst EXCEPT ![i].lastAccessed = t]

-----------------------------------------------------------------------------

\* touchNode: stamp node i with now and splice it to the front.
TouchNode(lst, i, t) == <<[lst[i] EXCEPT !.lastAccessed = t]>> \o SeqExt!RemoveAt(lst, i)

\* Mutant: the size test off by one.
EvictIfNecessaryOffByOne(lst) ==
    IF Len(lst) > MaxSize + 1 THEN SubSeq(lst, 1, Len(lst) - 1) ELSE lst

\* evictIfNecessary: drop cache_list.back() once the list exceeds max_size.
EvictIfNecessary(lst) ==
    IF Len(lst) > MaxSize THEN SubSeq(lst, 1, Len(lst) - 1) ELSE lst

\* put: update and touch an existing node, or emplace a new node at the
\* front; then evictIfNecessary.
Put(k, v, t) ==
    /\ Now(t)
    /\ LET lst == IF k \in Stored
                  THEN TouchNode([cacheList EXCEPT ![Position(k)].value = v], Position(k), t)
                  ELSE <<[key |-> k, value |-> v, lastAccessed |-> t]>> \o cacheList
       IN  cacheList' = EvictIfNecessary(lst)

\* get of a stored key: touchNode, then return the value.
Get(k, t) ==
    /\ k \in Stored
    /\ Now(t)
    /\ cacheList' = TouchNode(cacheList, Position(k), t)

\* remove of a stored key: erase it from cache_list and cache_map.
Remove(k) ==
    /\ k \in Stored
    /\ cacheList' = SeqExt!RemoveAt(cacheList, Position(k))
    /\ UNCHANGED clock

\* clear: empty both structures.
Clear ==
    /\ cacheList' = <<>>
    /\ UNCHANGED clock

Next ==
    \/ \E k \in Keys, v \in Values, t \in 0..MaxClock : Put(k, v, t)
    \/ \E k \in Keys, t \in 0..MaxClock : Get(k, t)
    \/ \E k \in Keys : Remove(k)
    \/ Clear

Spec == Init /\ [][Next]_vars

-----------------------------------------------------------------------------
(* Properties.                                                             *)

\* The store implements the LRU table of module LRUCache: it never holds
\* more than max_size entries and an insert beyond it evicts an entry with
\* the oldest last_accessed (spec.md 8, first property), whatever sequence
\* of put, get, remove and clear the callers' threads make.
Abstract == INSTANCE LRUCache WITH
    Capacity <- MaxSize,
    entries <- [k \in Stored |-> [value |-> cacheList[Position(k)].value,
                                  stamp |-> cacheList[Position(k)].lastAccessed]]

LRUCacheRefined == Abstract!Spec
==============================================================================
