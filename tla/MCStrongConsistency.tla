------------------------- MODULE MCStrongConsistency -------------------------
(***************************************************************************)
(* Model of StrongConsistency.cpp for TLC.  main() starts two proposer     *)
(* threads with "ValueA" and "ValueB" on a 5-node cluster; the model keeps *)
(* the two threads on 3 nodes (quorumSize 2).                              *)
(***************************************************************************)
EXTENDS StrongConsistency, TLC

CONSTANTS t1, t2, ValueA, ValueB

MCProposalValue == (t1 :> ValueA @@ t2 :> ValueB)
==============================================================================
