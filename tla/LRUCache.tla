------------------------------ MODULE LRUCache ------------------------------
(***************************************************************************)
(* What the Local Store promises (spec.md 4.1, 8): a table of at most      *)
(* Capacity entries, each stamped with the time it was last touched by a   *)
(* put or get; an insert beyond capacity drops an entry with the oldest    *)
(* stamp.  InMemoryStore is checked against this specification.           *)
(***************************************************************************)
EXTENDS Integers, FiniteSets

CONSTANTS Keys, Values, Capacity, MaxClock

VARIABLES
    entries,   \* key -> [value, stamp] for the keys the store holds
    clock      \* the time source the stamps are read from

vars == <<entries, clock>>

Entry == [value : Values, stamp : 0..MaxClock]

TypeOK ==
    /\ DOMAIN entries \subseteq Keys
    /\ \A k \in DOMAIN entries : entries[k] \in Entry
    /\ Cardinality(DOMAIN entries) <= Capacity
    /\ clock \in 0..MaxClock

Init == entries = [k \in {} |-> 0] /\ clock = 0

\* The entries after key k is given record e: k is added or replaced.
With(k, e) == [x \in DOMAIN entries \cup {k} |-> IF x = k THEN e ELSE entries[x]]

\* The entries without key k.
Without(f, k) == [x \in DOMAIN f \ {k} |-> f[x]]

\* The keys of f whose stamp no other key of f undercuts.
Oldest(f) == {k \in DOMAIN f : \A x \in DOMAIN f : f[k].stamp <= f[x].stamp}

\* The clock never runs backwards; two readings may be equal.
Tick(now) == now \in clock..MaxClock /\ clock' = now

Put(k, v, now) ==
    /\ Tick(now)
    /\ LET f == With(k, [value |-> v, stamp |-> now]) IN
       IF Cardinality(DOMAIN f) > Capacity
       THEN \E old \in Oldest(f) : entries' = Without(f, old)
       ELSE entries' = f

Get(k, now) ==
    /\ k \in DOMAIN entries
    /\ Tick(now)
    /\ entries' = With(k, [entries[k] EXCEPT !.stamp = now])

Remove(k) ==
    /\ k \in DOMAIN entries
    /\ entries' = Without(entries, k)
    /\ UNCHANGED clock

Clear ==
    /\ entries' = [k \in {} |-> 0]
    /\ UNCHANGED clock

Next ==
    \/ \E k \in Keys, v \in Values, now \in 0..MaxClock : Put(k, v, now)
    \/ \E k \in Keys, now \in 0..MaxClock : Get(k, now)
    \/ \E k \in Keys : Remove(k)
    \/ Clear

Spec == Init /\ [][Next]_vars
==============================================================================
