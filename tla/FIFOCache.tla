------------------------------ MODULE FIFOCache ------------------------------
(***************************************************************************)
(* What a FIFO eviction policy promises: a table of at most Capacity       *)
(* entries, and a strict order in which they were first inserted.  An      *)
(* update keeps a key's place; an insert into a full table drops the key   *)
(* inserted first; reads change nothing.  FIFOPolicy is checked against    *)
(* this specification.                                                     *)
(***************************************************************************)
EXTENDS Naturals, FiniteSets

CONSTANTS Keys, Values, Capacity

VARIABLES
    entries,   \* key -> value for the keys the table holds
    before     \* <<a, b>> \in before: a was inserted before b

vars == <<entries, before>>

TypeOK ==
    /\ DOMAIN entries \subseteq Keys
    /\ \A k \in DOMAIN entries : entries[k] \in Values
    /\ Cardinality(DOMAIN entries) <= Capacity
    /\ before \subseteq (DOMAIN entries) \X (DOMAIN entries)

Init == entries = [k \in {} |-> 0] /\ before = {}

\* The key every other key of the table was inserted after.
First == {k \in DOMAIN entries : \A x \in DOMAIN entries \ {k} : <<k, x>> \in before}

Update(k, v) ==
    /\ k \in DOMAIN entries
    /\ entries' = [entries EXCEPT ![k] = v]
    /\ UNCHANGED before

Insert(k, v) ==
    /\ k \notin DOMAIN entries
    /\ LET gone == IF Cardinality(DOMAIN entries) = Capacity THEN First ELSE {}
           kept == DOMAIN entries \ gone
       IN  /\ entries' = [x \in kept \cup {k} |-> IF x = k THEN v ELSE entries[x]]
           /\ before' = {p \in before : p[1] \in kept /\ p[2] \in kept}
                          \cup {<<x, k>> : x \in kept}

Clear ==
    /\ entries' = [k \in {} |-> 0]
    /\ before' = {}

Next ==
    \/ \E k \in Keys, v \in Values : Update(k, v) \/ Insert(k, v)
    \/ Clear

Spec == Init /\ [][Next]_vars
==============================================================================
