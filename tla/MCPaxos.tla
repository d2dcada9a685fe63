------------------------------- MODULE MCPaxos -------------------------------
(***************************************************************************)
(* Model of Paxos.cpp for TLC.  main() starts two proposer threads with    *)
(* proposer ids 1 and 2 and values "Value_A" and "Value_B" over 5 nodes;   *)
(* the model keeps the two threads and takes 3 nodes (majority 2), the    *)
(* smallest cluster in which two majorities overlap in one node only.     *)
(* MCPaxos3 adds a third proposer thread.                                  *)
(***************************************************************************)
EXTENDS Paxos, TLC

CONSTANTS p1, p2, p3, ValueA, ValueB, ValueC

\* proposer_id * 1000 + rand() % 1000 for proposer ids 1, 2, 3
ThreadId == (p1 :> 1042 @@ p2 :> 2017 @@ p3 :> 3005)
ThreadValue == (p1 :> ValueA @@ p2 :> ValueB @@ p3 :> ValueC)
MCProposalId == [p \in Proposers |-> ThreadId[p]]
MCProposalValue == [p \in Proposers |-> ThreadValue[p]]

==============================================================================
