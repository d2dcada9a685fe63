------------------------------ MODULE SSDStore ------------------------------
(***************************************************************************)
(* src/cache/persistent_cache/SSDStore.cpp: an in-memory map cache_ in     *)
(* front of one file per key, with a std::queue of keys that decides       *)
(* eviction.  Every public method and the detached eviction thread hold    *)
(* mtx_ for their whole body (the thread lets it go only inside            *)
(* wait_for), so each is one atomic action.                                *)
(*                                                                         *)
(* The queue is never cleaned: put pushes a key each time, remove leaves   *)
(* it queued, and evict pops whatever is at the front.  For a popped key   *)
(* no longer in cache_, cache_[key] inserts "" and persistKeyValue writes  *)
(* that "" to the key's file.                                              *)
(*                                                                         *)
(* A file holds one line: persistKeyValue writes the value without a       *)
(* newline and loadFromFile reads it back with getline, so for values      *)
(* without a newline the round trip is exact.  A missing file reads as "". *)
(***************************************************************************)
EXTENDS Integers, Sequences, FiniteSets

Seqs == INSTANCE SequencesExt

CONSTANTS
    Keys,        \* the keys callers use
    Values,      \* the non-empty values callers put
    NoFile,      \* no file for the key in dirPath_
    CacheLimit,  \* cacheLimit_
    MaxQueue     \* bound on the length of evictionQueue_

ASSUME /\ CacheLimit \in Nat \ {0} /\ MaxQueue \in Nat
       /\ NoFile \notin Values \cup {""}

FileContent == Values \cup {""}

VARIABLES
    cache,     \* cache_: a function from its keys to values
    queue,     \* evictionQueue_, front first
    disk,      \* the file of each key: its content, or NoFile
    stop,      \* stopEviction_
    live,      \* the object has not been destroyed
    fault,     \* evict() called front() on an empty queue
    latest,    \* history: the value a get of the key should return
    removed    \* history: keys removed and not put since

vars == <<cache, queue, disk, stop, live, fault, latest, removed>>

TypeOK ==
    /\ DOMAIN cache \subseteq Keys /\ \A k \in DOMAIN cache : cache[k] \in FileContent
    /\ queue \in Seq(Keys) /\ Len(queue) <= MaxQueue + Cardinality(Keys)
    /\ disk \in [Keys -> FileContent \cup {NoFile}]
    /\ stop \in BOOLEAN /\ live \in BOOLEAN /\ fault \in BOOLEAN
    /\ latest \in [Keys -> FileContent]
    /\ removed \subseteq Keys

\* loadFromFile: the file's line, or "" when it cannot be opened.
LoadFromFile(d, k) == IF d[k] = NoFile THEN "" ELSE d[k]

\* get: cache_[key] if present, else loadFromFile(key).
Get(k) == IF k \in DOMAIN cache THEN cache[k] ELSE LoadFromFile(disk, k)

\* exists: the key is in cache_ or its file exists.
Exists(k) == k \in DOMAIN cache \/ disk[k] # NoFile

\* isCacheFull: cache_.size() >= cacheLimit_.
IsCacheFull(s) == Cardinality(DOMAIN s.c) >= CacheLimit

\* One pass of the evict() loop: pop the front key, write cache_[key] (which
\* inserts "" for a key not cached) to its file, erase the key.
EvictOne(s) ==
    LET k == Head(s.q)
        v == IF k \in DOMAIN s.c THEN s.c[k] ELSE ""
    IN  [s EXCEPT !.q = Tail(s.q),
                  !.d = [s.d EXCEPT ![k] = v],
                  !.c = [x \in DOMAIN s.c \ {k} |-> s.c[x]]]

-----------------------------------------------------------------------------
(* Mutant: the evicted key erased without being written to its file.      *)
RECURSIVE EvictWithoutPersist(_)
EvictWithoutPersist(s) ==
    IF ~IsCacheFull(s) THEN s
    ELSE IF s.q = <<>> THEN [s EXCEPT !.f = TRUE]
    ELSE EvictWithoutPersist([EvictOne(s) EXCEPT !.d = s.d])

\* evict(): while (isCacheFull()) evict the front key.  front() of an empty
\* queue is undefined; the model records it and stops.
RECURSIVE Evict(_)
Evict(s) ==
    IF ~IsCacheFull(s) THEN s
    ELSE IF s.q = <<>> THEN [s EXCEPT !.f = TRUE]
    ELSE Evict(EvictOne(s))

\* Apply a Store back to the variables.
SetStore(s) ==
    /\ cache' = s.c /\ queue' = s.q /\ disk' = s.d /\ fault' = s.f

Here == [c |-> cache, q |-> queue, d |-> disk, f |-> fault]

-----------------------------------------------------------------------------
(* Mutant: loadCache reads the files without queueing their keys.          *)
LoadCacheNoPush(d) ==
    {[c |-> [k \in {x \in Keys : d[x] # NoFile} |-> LoadFromFile(d, k)],
      q |-> <<>>, d |-> d, f |-> FALSE]}

\* loadCache: every file of the directory read into cache_ and its key
\* pushed, in the directory_iterator's order, which is unspecified.
LoadCache(d) ==
    LET files == {x \in Keys : d[x] # NoFile}
    IN  {[c |-> [k \in files |-> LoadFromFile(d, k)], q |-> o, d |-> d, f |-> FALSE]
            : o \in Seqs!SetToSeqs(files)}

\* The constructor on a directory a previous run left behind: loadCache(),
\* then the eviction thread starts.
Init ==
    /\ disk \in [Keys -> FileContent \cup {NoFile}]
    /\ \E s \in LoadCache(disk) : cache = s.c /\ queue = s.q /\ fault = s.f
    /\ stop = FALSE /\ live = TRUE
    /\ latest = [k \in Keys |-> LoadFromFile(disk, k)]
    /\ removed = {}

-----------------------------------------------------------------------------
(* Operations.                                                             *)

\* put: cache_[key] = value; push the key; if (isCacheFull()) evict().
Put(k, v) ==
    /\ live /\ Len(queue) < MaxQueue
    /\ SetStore(Evict([Here EXCEPT !.c = [x \in DOMAIN cache \cup {k} |->
                                            IF x = k THEN v ELSE cache[x]],
                                   !.q = Append(queue, k)]))
    /\ latest' = [latest EXCEPT ![k] = v]
    /\ removed' = removed \ {k}
    /\ UNCHANGED <<stop, live>>

(* Mutant: remove leaves the key cached with a tombstone.                  *)
RemoveTombstone(k) ==
    /\ live
    /\ cache' = [x \in DOMAIN cache \cup {k} |-> IF x = k THEN NoFile ELSE cache[x]]
    /\ disk' = [disk EXCEPT ![k] = NoFile]
    /\ latest' = [latest EXCEPT ![k] = ""]
    /\ removed' = removed \cup {k}
    /\ UNCHANGED <<queue, stop, live, fault>>

\* remove: cache_.erase(key); fs::remove(getFilePath(key)).  The queue keeps
\* the key.
Remove(k) ==
    /\ live
    /\ cache' = [x \in DOMAIN cache \ {k} |-> cache[x]]
    /\ disk' = [disk EXCEPT ![k] = NoFile]
    /\ latest' = [latest EXCEPT ![k] = ""]
    /\ removed' = removed \cup {k}
    /\ UNCHANGED <<queue, stop, live, fault>>

\* persist: every cached entry written to its file.
Persist ==
    /\ live
    /\ disk' = [k \in Keys |-> IF k \in DOMAIN cache THEN cache[k] ELSE disk[k]]
    /\ UNCHANGED <<cache, queue, stop, live, fault, latest, removed>>

(* Mutant: the test after wait_for inverted, if (stopEviction_) evict().  *)
EvictionThreadInverted ==
    /\ ~stop
    /\ UNCHANGED <<cache, queue, disk, fault>>
    /\ UNCHANGED <<stop, live, latest, removed>>

\* One round of evictionThread: wait_for returns on the predicate or after
\* five seconds, and unless stopEviction_ is set, evict() runs.
EvictionThread ==
    /\ ~stop
    /\ SetStore(Evict(Here))
    /\ UNCHANGED <<stop, live, latest, removed>>

\* ~SSDStore: stopEviction_ = true under mtx_; the object is gone.
Destroy ==
    /\ live
    /\ stop' = TRUE /\ live' = FALSE
    /\ UNCHANGED <<cache, queue, disk, fault, latest, removed>>

Next ==
    \/ \E k \in Keys, v \in Values : Put(k, v)
    \/ \E k \in Keys : Remove(k)
    \/ Persist
    \/ EvictionThread
    \/ Destroy

\* The detached eviction thread wakes at least every five seconds.
Spec == Init /\ [][Next]_vars /\ WF_vars(EvictionThread)

-----------------------------------------------------------------------------
(* Properties.                                                             *)

\* evict() never reaches front() on an empty queue while the cache is full:
\* every key in cache_ is still queued, whatever stale and duplicate keys
\* remove and repeated puts leave in the queue.
EvictNeverOnEmptyQueue == ~fault

\* get never returns an outdated value: after any sequence of puts,
\* removes, evictions and persists it returns the last value put for the
\* key or "" (the value may be lost, never rolled back).
NoStaleRead == \A k \in Keys : Get(k) \in {latest[k], ""}

\* A cache that loadCache filled up to the limit is brought under it by
\* the eviction thread unless the store is destroyed first.
OverfullEventuallyEvicted ==
    (live /\ Cardinality(DOMAIN cache) >= CacheLimit)
        ~> (Cardinality(DOMAIN cache) < CacheLimit \/ ~live)

\* A removed key stays removed until it is put again: exists() is false
\* for it (spec.md 4.1: exists after remove), whatever the eviction thread
\* and later puts pop from the queue in between.
RemovedStaysRemoved == \A k \in removed : ~Exists(k)
==============================================================================
