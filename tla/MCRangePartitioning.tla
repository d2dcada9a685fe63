------------------------- MODULE MCRangePartitioning -------------------------
(* Two partitions over the bounds 0..3, two nodes and keys 0..4: ranges    *)
(* may be disjoint, touch at a bound, nest or overlap.                      *)
EXTENDS RangePartitioning

CONSTANTS n1, n2
MCNodes == {n1, n2}
MCBounds == 0..3
MCQueryKeys == 0..4
==============================================================================
