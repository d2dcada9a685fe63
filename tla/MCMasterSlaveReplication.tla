---------------------- MODULE MCMasterSlaveReplication ----------------------
(***************************************************************************)
(* Model of MasterSlaveReplication.cpp for TLC.  main() runs three slaves  *)
(* and two updateData calls; the model takes two slaves, two writes of two *)
(* possible strings, and as many live threads as two writes start.        *)
(***************************************************************************)
EXTENDS MasterSlaveReplication
==============================================================================
