---------------------------- MODULE LastWriteWins ----------------------------
(***************************************************************************)
(* src/consistency/conflict_resolution/LastWriteWins.cpp: a cache of       *)
(* key -> (value, system_clock timestamp) under cache_mutex.  put stamps   *)
(* the write with system_clock::now() and replaces a present entry only if *)
(* now is strictly later; resolve_conflict does the same with a timestamp  *)
(* sent by another node.  Each method holds the mutex for its whole body,  *)
(* so each is one action; get and display_cache only read.                *)
(*                                                                         *)
(* system_clock is a wall clock: two readings can be equal, and it can be  *)
(* set back.  Time is kept as ticks 0..MaxTime.                            *)
(***************************************************************************)
EXTENDS Integers, Sequences

CONSTANTS
    Keys, Values,
    MaxTime,       \* the last tick the model lets the clock reach
    MaxStepsBack,  \* bound on the times the clock is set back
    MaxWrites      \* bound on the writes to a key, put and resolve_conflict together

Time == 0..MaxTime
CacheValue == [value : Values, timestamp : Time]

VARIABLES
    cache,    \* key -> CacheValue for the keys present
    now,      \* what system_clock::now() returns
    back,     \* times the clock was set back
    writes    \* history: per key, the (value, timestamp) of every write

vars == <<cache, now, back, writes>>

TypeOK ==
    /\ DOMAIN cache \subseteq Keys /\ \A k \in DOMAIN cache : cache[k] \in CacheValue
    /\ now \in Time /\ back \in 0..MaxStepsBack
    /\ writes \in [Keys -> Seq(CacheValue)]

Init ==
    /\ cache = [k \in {} |-> 0]
    /\ now \in Time
    /\ back = 0
    /\ writes = [k \in Keys |-> <<>>]

\* Record a write in the history.
Log(k, e) == writes' = [writes EXCEPT ![k] = Append(@, e)]

-----------------------------------------------------------------------------
(* Mutant: an equal timestamp also replaces the entry.                     *)
ApplyIfNotOlder(k, e) ==
    cache' = IF k \notin DOMAIN cache \/ e.timestamp >= cache[k].timestamp
             THEN [x \in DOMAIN cache \cup {k} |-> IF x = k THEN e ELSE cache[x]]
             ELSE cache

\* The entry is set if the key is absent or the write is strictly later.
ApplyIfNewer(k, e) ==
    cache' = IF k \notin DOMAIN cache \/ e.timestamp > cache[k].timestamp
             THEN [x \in DOMAIN cache \cup {k} |-> IF x = k THEN e ELSE cache[x]]
             ELSE cache

-----------------------------------------------------------------------------

\* put(key, value): now = system_clock::now(); insert, or update if now is
\* later than the stored timestamp.
Put(k, v) ==
    /\ Len(writes[k]) < MaxWrites
    /\ ApplyIfNewer(k, [value |-> v, timestamp |-> now])
    /\ Log(k, [value |-> v, timestamp |-> now])
    /\ UNCHANGED <<now, back>>

(* Mutant: the test written with cache[key] before cache.find(key), so a  *)
(* missing key is default-inserted as ("", epoch) and compared with that.  *)
ResolveLooksUpFirst(k, v, ts) ==
    /\ Len(writes[k]) < MaxWrites
    /\ LET cur == IF k \in DOMAIN cache THEN cache[k] ELSE [value |-> "", timestamp |-> 0]
           e == [value |-> v, timestamp |-> ts]
       IN  cache' = [x \in DOMAIN cache \cup {k} |->
                        IF x = k THEN (IF ts > cur.timestamp THEN e ELSE cur) ELSE cache[x]]
    /\ Log(k, [value |-> v, timestamp |-> ts])
    /\ UNCHANGED <<now, back>>

\* resolve_conflict(key, value, ts): the same test against a timestamp from
\* another node's clock (main() sends now + 5 s).
ResolveConflict(k, v, ts) ==
    /\ Len(writes[k]) < MaxWrites
    /\ ApplyIfNewer(k, [value |-> v, timestamp |-> ts])
    /\ Log(k, [value |-> v, timestamp |-> ts])
    /\ UNCHANGED <<now, back>>

\* The wall clock moves on ...
Tick ==
    /\ now < MaxTime
    /\ now' = now + 1
    /\ UNCHANGED <<cache, back, writes>>

\* ... or is set back.
StepBack ==
    /\ back < MaxStepsBack
    /\ now' \in 0..now - 1
    /\ back' = back + 1
    /\ UNCHANGED <<cache, writes>>

Next ==
    \/ \E k \in Keys, v \in Values : Put(k, v)
    \/ \E k \in Keys, v \in Values, ts \in Time : ResolveConflict(k, v, ts)
    \/ Tick
    \/ StepBack

Spec == Init /\ [][Next]_vars

-----------------------------------------------------------------------------
(* Properties.                                                             *)

\* The reference winner of a history, computed without replaying it: the
\* first write that carries the largest timestamp.
Winner(ws) ==
    LET top == CHOOSE t \in {w.timestamp : w \in {ws[i] : i \in DOMAIN ws}} :
                   \A i \in DOMAIN ws : ws[i].timestamp <= t
        at == CHOOSE i \in DOMAIN ws : ws[i].timestamp = top /\
                   \A j \in DOMAIN ws : ws[j].timestamp = top => i <= j
    IN  ws[at]

\* Whatever the interleaving of puts from several threads, conflicts from
\* other nodes, equal clock readings and clock steps back, every key holds
\* exactly the first write with the largest timestamp: a later write with
\* an equal or smaller timestamp, whichever thread issued it, is dropped.
KeepsFirstLatestWrite ==
    /\ DOMAIN cache = {k \in Keys : writes[k] # <<>>}
    /\ \A k \in DOMAIN cache : cache[k] = Winner(writes[k])
==============================================================================
