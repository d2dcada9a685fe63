-------------------------- MODULE RangePartitioning --------------------------
(***************************************************************************)
(* src/distributed/partitioning/RangePartitioning.cpp: a vector of         *)
(* RangePartition [startRange, endRange] -> node, searched in insertion    *)
(* order.  addPartition throws invalid_argument unless startRange <        *)
(* endRange and otherwise appends, with no test against the ranges already *)
(* there; findNodeForKey returns the node of the first range holding the   *)
(* key, or throws out_of_range.  The file's DistributedCache routes put    *)
(* and get through findNodeForKey and catches out_of_range.  One thread.   *)
(* A Node is its id; the address and port are not read.                    *)
(***************************************************************************)
EXTENDS Integers, Sequences

CONSTANTS
    Nodes,          \* the nodes partitions are bound to
    Bounds,         \* the ints callers pass as startRange and endRange
    QueryKeys,      \* the int keys callers route
    OutOfRange,     \* findNodeForKey threw out_of_range
    InvalidArgument,\* addPartition threw invalid_argument
    Ok,             \* addPartition returned
    MaxPartitions   \* bound on the partitions added

\* A partition as addPartition stores it.
Partition == {p \in [startRange : Bounds, endRange : Bounds, node : Nodes] :
                  p.startRange < p.endRange}
Outcome == Nodes \cup {OutOfRange, InvalidArgument, Ok}

VARIABLES
    partitions,  \* RangePartitioning::partitions, in insertion order
    outcome      \* what the last call returned or threw

vars == <<partitions, outcome>>

TypeOK ==
    /\ partitions \in Seq(Partition) /\ Len(partitions) <= MaxPartitions
    /\ outcome \in Outcome

\* main() builds an empty RangePartitioning.
Init == partitions = <<>> /\ outcome = Ok

\* RangePartition::isInRange: startRange <= key <= endRange.
IsInRange(p, key) == p.startRange <= key /\ key <= p.endRange

-----------------------------------------------------------------------------
\* findNodeForKey: the node of the first partition whose range holds key.
RECURSIVE FindNodeForKey(_, _)
FindNodeForKey(ps, key) ==
    IF ps = <<>> THEN OutOfRange
    ELSE IF IsInRange(Head(ps), key) THEN Head(ps).node
    ELSE FindNodeForKey(Tail(ps), key)

-----------------------------------------------------------------------------
(* Mutant: the check written as startRange > endRange.                     *)
AddPartitionAllowsEqual(s, e, n) ==
    /\ Len(partitions) < MaxPartitions
    /\ IF s > e
       THEN outcome' = InvalidArgument /\ UNCHANGED partitions
       ELSE /\ partitions' = Append(partitions, [startRange |-> s, endRange |-> e, node |-> n])
            /\ outcome' = Ok

(* Mutant: addPartition inserts the new range at the front.                *)
AddPartitionFront(s, e, n) ==
    /\ Len(partitions) < MaxPartitions
    /\ IF s >= e
       THEN outcome' = InvalidArgument /\ UNCHANGED partitions
       ELSE /\ partitions' = <<[startRange |-> s, endRange |-> e, node |-> n]>> \o partitions
            /\ outcome' = Ok

\* addPartition(startRange, endRange, node).
AddPartition(s, e, n) ==
    /\ Len(partitions) < MaxPartitions
    /\ IF s >= e
       THEN outcome' = InvalidArgument /\ UNCHANGED partitions
       ELSE /\ partitions' = Append(partitions, [startRange |-> s, endRange |-> e, node |-> n])
            /\ outcome' = Ok

\* DistributedCache::put and get: findNodeForKey, out_of_range caught.
Route(key) ==
    /\ outcome' = FindNodeForKey(partitions, key)
    /\ UNCHANGED partitions

CachePut(key) == Route(key)

CacheGet(key) == Route(key)

Next ==
    \/ \E s, e \in Bounds, n \in Nodes : AddPartition(s, e, n)
    \/ \E key \in QueryKeys : CachePut(key) \/ CacheGet(key)

Spec == Init /\ [][Next]_vars

-----------------------------------------------------------------------------
(* Properties (spec.md 4.3, 8).                                            *)

\* A key is routed to the same node whatever calls come later: once a
\* range holds it, no addPartition call moves it elsewhere, even one whose
\* range overlaps.
RoutingStable ==
    [][\A key \in QueryKeys :
          FindNodeForKey(partitions, key) # OutOfRange
              => FindNodeForKey(partitions', key) = FindNodeForKey(partitions, key)]_vars

\* spec.md 4.3 and 7: overlapping ranges are a configuration error that
\* addPartition (the load of the range table) rejects, so the configured
\* ranges are pairwise disjoint.
RangesDisjoint ==
    \A i, j \in DOMAIN partitions :
        i < j => partitions[i].endRange < partitions[j].startRange
                 \/ partitions[j].endRange < partitions[i].startRange
==============================================================================
