-------------------------- MODULE MCDistributedCache --------------------------
(* The three nodes of main()'s peer list, node1 the leader, one key owned  *)
(* by node2 so that node1 and node3 forward it, and one crash: a follower  *)
(* or the leader can go down and come back.                                *)
EXTENDS DistributedCache, TLC

CONSTANTS n1, n2, n3, k1, v1
MCNodes == {n1, n2, n3}
MCOwner == (k1 :> n2)
==============================================================================
