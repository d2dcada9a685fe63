-------------------------------- MODULE Paxos --------------------------------
(***************************************************************************)
(* src/coordination/leader_election/Paxos.cpp: PaxosNode (an acceptor      *)
(* whose prepare, accept and learn each run under the node's mutex) and    *)
(* PaxosSystem::propose, run once by each proposer thread.  propose walks  *)
(* the node vector in order twice: phase 1 calls prepare and then, in a    *)
(* separate critical section, learn on every node; phase 2 calls accept.   *)
(* Every call on a node is one atomic step, so the steps of the proposer   *)
(* threads interleave node by node.                                        *)
(***************************************************************************)
EXTENDS Integers, FiniteSets

CONSTANTS
    N,              \* number of PaxosNodes, nodes[0..N-1] (here 1..N)
    Proposers,      \* the proposer threads
    ProposalId,     \* ProposalId[p]: proposer_id * 1000 + rand() % 1000
    ProposalValue,  \* ProposalValue[p]: the value thread p proposes
    NoValue         \* an empty std::optional<std::string>

Nodes == 1..N
Value == {ProposalValue[p] : p \in Proposers}

ASSUME /\ N \in Nat \ {0}
       /\ ProposalId \in [Proposers -> Nat]
       \* proposer_id * 1000 + rand() % 1000 lies in the block of its thread
       /\ \A p, q \in Proposers : p # q => ProposalId[p] # ProposalId[q]
       /\ NoValue \notin Value

VARIABLES
    promisedId,     \* PaxosNode::promised_id
    acceptedId,     \* PaxosNode::accepted_id
    acceptedValue,  \* PaxosNode::accepted_value
    votes,          \* history: the <<proposal_id, value>> pairs each node accepted
    pc,             \* where each proposer thread is inside propose()
    idx,            \* the node the thread's current loop is at
    numPrepare,     \* num_prepare_accepted
    learned,        \* accepted_values: node id -> learned value, NoValue if absent
    decided,        \* decided_value
    numAccept,      \* num_accept_accepted
    result          \* what propose() returned

nodeVars == <<promisedId, acceptedId, acceptedValue, votes>>
procVars == <<pc, idx, numPrepare, learned, decided, numAccept, result>>
vars == <<nodeVars, procVars>>

TypeOK ==
    /\ promisedId \in [Nodes -> {-1} \cup Nat]
    /\ acceptedId \in [Nodes -> {-1} \cup Nat]
    /\ acceptedValue \in [Nodes -> Value \cup {NoValue}]
    /\ votes \in [Nodes -> SUBSET (Nat \X Value)]
    /\ pc \in [Proposers -> {"prepare", "learn", "decide", "accept", "done"}]
    /\ idx \in [Proposers -> Nodes]
    /\ numPrepare \in [Proposers -> 0..N]
    /\ learned \in [Proposers -> [Nodes -> Value \cup {NoValue}]]
    /\ decided \in [Proposers -> Value \cup {NoValue}]
    /\ numAccept \in [Proposers -> 0..N]
    /\ result \in [Proposers -> {"none", "accepted", "rejected"}]

\* PaxosNode(int id) : promised_id(-1), accepted_id(-1); no proposer has run.
Init ==
    /\ promisedId = [n \in Nodes |-> -1]
    /\ acceptedId = [n \in Nodes |-> -1]
    /\ acceptedValue = [n \in Nodes |-> NoValue]
    /\ votes = [n \in Nodes |-> {}]
    /\ pc = [p \in Proposers |-> "prepare"]
    /\ idx = [p \in Proposers |-> 1]
    /\ numPrepare = [p \in Proposers |-> 0]
    /\ learned = [p \in Proposers |-> [n \in Nodes |-> NoValue]]
    /\ decided = [p \in Proposers |-> NoValue]
    /\ numAccept = [p \in Proposers |-> 0]
    /\ result = [p \in Proposers |-> "none"]

\* Mutant: the loop bound tested one node late, so the index runs past the
\* last node.
AdvancePastEnd(p, here, after) ==
    IF idx[p] > N
    THEN /\ pc' = [pc EXCEPT ![p] = after]
         /\ idx' = [idx EXCEPT ![p] = 1]
    ELSE /\ pc' = [pc EXCEPT ![p] = here]
         /\ idx' = [idx EXCEPT ![p] = idx[p] + 1]

\* Move the thread's loop to the next node, or on to the phase that follows.
Advance(p, here, after) ==
    IF idx[p] = N
    THEN /\ pc' = [pc EXCEPT ![p] = after]
         /\ idx' = [idx EXCEPT ![p] = 1]
    ELSE /\ pc' = [pc EXCEPT ![p] = here]
         /\ idx' = [idx EXCEPT ![p] = idx[p] + 1]

-----------------------------------------------------------------------------
(* Mutants: plausible slips in Paxos.cpp, each of which one property of   *)
(* MCPaxos.cfg must catch when it replaces the definition it mutates.     *)

\* accept() without its promise check.
AcceptsUnguarded(b, n) == TRUE

\* decided_value = value, ignoring what the promising nodes reported.
CandidateValuesOwn(p) == {ProposalValue[p]}

\* Phase 1 counting promises without calling learn() (as StrongConsistency.cpp does).
LearnSkipped(p) ==
    /\ pc[p] = "learn"
    /\ Advance(p, "prepare", "decide")
    /\ UNCHANGED <<nodeVars, numPrepare, learned, decided, numAccept, result>>

-----------------------------------------------------------------------------
(* Node-side rules.                                                        *)

\* PaxosNode::prepare promises only a strictly higher proposal id.
Promises(b, n) == b > promisedId[n]

\* PaxosNode::accept takes any id not below the promise.
Accepts(b, n) == b >= promisedId[n]

\* Both majority tests of propose(): count > nodes.size() / 2.
Majority(count) == count > N \div 2

\* The value phase 2 sends: accepted_values.begin()->second if a promising
\* node returned a value, the caller's value otherwise.  begin() of an
\* unordered_map is an unspecified entry, so any learned value may come out.
CandidateValues(p) ==
    LET got == {learned[p][n] : n \in {m \in Nodes : learned[p][m] # NoValue}}
    IN  IF got = {} THEN {ProposalValue[p]} ELSE got

-----------------------------------------------------------------------------
(* Proposer steps, one per critical section of a PaxosNode.                *)

\* node->prepare(proposal_id); on true the thread goes on to node->learn().
Prepare(p) ==
    LET n == idx[p] IN
    /\ pc[p] = "prepare"
    /\ IF Promises(ProposalId[p], n)
       THEN /\ promisedId' = [promisedId EXCEPT ![n] = ProposalId[p]]
            /\ numPrepare' = [numPrepare EXCEPT ![p] = @ + 1]
            /\ pc' = [pc EXCEPT ![p] = "learn"]
            /\ UNCHANGED idx
       ELSE /\ Advance(p, "prepare", "decide")
            /\ UNCHANGED <<promisedId, numPrepare>>
    /\ UNCHANGED <<acceptedId, acceptedValue, votes, learned, decided,
                   numAccept, result>>

\* node->learn(), a second critical section: whatever the node has accepted
\* by now is recorded, whatever proposal id it was accepted under.
Learn(p) ==
    LET n == idx[p] IN
    /\ pc[p] = "learn"
    /\ IF acceptedValue[n] # NoValue
       THEN learned' = [learned EXCEPT ![p][n] = acceptedValue[n]]
       ELSE UNCHANGED learned
    /\ Advance(p, "prepare", "decide")
    /\ UNCHANGED <<nodeVars, numPrepare, decided, numAccept, result>>

\* The majority test after phase 1, then the choice of decided_value.
Decide(p) ==
    /\ pc[p] = "decide"
    /\ IF Majority(numPrepare[p])
       THEN /\ \E v \in CandidateValues(p) :
                  decided' = [decided EXCEPT ![p] = v]
            /\ pc' = [pc EXCEPT ![p] = "accept"]
            /\ UNCHANGED result
       ELSE /\ result' = [result EXCEPT ![p] = "rejected"]
            /\ pc' = [pc EXCEPT ![p] = "done"]
            /\ UNCHANGED decided
    /\ UNCHANGED <<nodeVars, idx, numPrepare, learned, numAccept>>

\* node->accept(proposal_id, *decided_value); after the last node propose()
\* returns whether a majority accepted.
Accept(p) ==
    LET n == idx[p]
        b == ProposalId[p]
        ok == Accepts(b, n)
        count == numAccept[p] + (IF ok THEN 1 ELSE 0)
    IN
    /\ pc[p] = "accept"
    /\ IF ok
       THEN /\ promisedId' = [promisedId EXCEPT ![n] = b]
            /\ acceptedId' = [acceptedId EXCEPT ![n] = b]
            /\ acceptedValue' = [acceptedValue EXCEPT ![n] = decided[p]]
            /\ votes' = [votes EXCEPT ![n] = @ \cup {<<b, decided[p]>>}]
       ELSE UNCHANGED nodeVars
    /\ numAccept' = [numAccept EXCEPT ![p] = count]
    /\ Advance(p, "accept", "done")
    /\ result' = IF n = N
                 THEN [result EXCEPT ![p] = IF Majority(count) THEN "accepted"
                                                                 ELSE "rejected"]
                 ELSE result
    /\ UNCHANGED <<numPrepare, learned, decided>>

Next == \E p \in Proposers :
            \/ Prepare(p)
            \/ Learn(p)
            \/ Decide(p)
            \/ Accept(p)

\* Each proposer is a std::thread that runs propose() to completion.
Fairness == \A p \in Proposers : WF_vars(Prepare(p) \/ Learn(p) \/ Decide(p) \/ Accept(p))

Spec == Init /\ [][Next]_vars /\ Fairness

-----------------------------------------------------------------------------
(* Properties.                                                             *)

\* v is chosen at b: a majority of nodes accepted proposal b with value v.
ChosenAt(b, v) == Majority(Cardinality({n \in Nodes : <<b, v>> \in votes[n]}))

ChosenValues == {v \in Value : \E b \in {ProposalId[p] : p \in Proposers} : ChosenAt(b, v)}

\* Agreement: two propose() calls that both return true sent the same
\* decided_value in their accept phase (spec.md 8, strong-mode safety).
Agreement ==
    \A p, q \in Proposers :
        result[p] = "accepted" /\ result[q] = "accepted" => decided[p] = decided[q]

\* Once a majority has accepted v under proposal b, no node accepts a
\* different value under a higher proposal id: propose() must re-send the
\* value a promising node reported (spec.md 4.5, strong mode).
ChosenValueKept ==
    \A b \in {ProposalId[p] : p \in Proposers}, v \in Value :
        ChosenAt(b, v) =>
            \A n \in Nodes : \A vote \in votes[n] : vote[1] > b => vote[2] = v

\* The protocol implements the abstract decision of module Consensus.
Decision == INSTANCE Consensus WITH chosen <- ChosenValues
ConsensusRefined == Decision!Spec
==============================================================================
