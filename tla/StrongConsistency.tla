--------------------------- MODULE StrongConsistency ---------------------------
(***************************************************************************)
(* src/consistency/StrongConsistency.cpp: Node (prepare is called propose, *)
(* then accept and learn, each under the node's mutex), Paxos::runPaxos    *)
(* (preparePhase, acceptPhase, learnPhase, each a loop over all nodes) and *)
(* ConsensusCluster::proposeValue, which numbers each round with           *)
(* ++proposalNum on a function-local static int that the proposer threads  *)
(* share without a lock.                                                   *)
(***************************************************************************)
EXTENDS Integers, FiniteSets

CONSTANTS
    N,              \* number of cluster Nodes (here 1..N)
    Threads,        \* the startProposer threads, each calls proposeValue once
    ProposalValue,  \* ProposalValue[t]: the value thread t proposes
    NoValue         \* Node::value and Node::acceptedValue before any write

Nodes == 1..N
Value == {ProposalValue[t] : t \in Threads}

\* Paxos(): quorumSize = nodes.size() / 2 + 1
QuorumSize == N \div 2 + 1

ASSUME /\ N \in Nat \ {0}
       /\ NoValue \notin Value

VARIABLES
    highestProposalNum,   \* Node::highestProposalNum
    acceptedProposalNum,  \* Node::acceptedProposalNum
    acceptedValue,        \* Node::acceptedValue
    value,                \* Node::value, set by learn()
    proposalNum,          \* the static int in proposeValue
    pc,                   \* where each thread is
    loaded,               \* the value of proposalNum the thread's ++ read
    num,                  \* the proposal number the thread runs Paxos with
    idx,                  \* the node the thread's current loop is at
    count,                \* promises / accepts counted by the current phase
    committed             \* history: threads whose acceptPhase returned true

nodeVars == <<highestProposalNum, acceptedProposalNum, acceptedValue, value>>
vars == <<nodeVars, proposalNum, pc, loaded, num, idx, count, committed>>

Phases == {"load", "store", "prepare", "accept", "learn", "done"}

TypeOK ==
    /\ highestProposalNum \in [Nodes -> {-1} \cup Nat]
    /\ acceptedProposalNum \in [Nodes -> {-1} \cup Nat]
    /\ acceptedValue \in [Nodes -> Value \cup {NoValue}]
    /\ value \in [Nodes -> Value \cup {NoValue}]
    /\ proposalNum \in Nat
    /\ pc \in [Threads -> Phases]
    /\ loaded \in [Threads -> Nat]
    /\ num \in [Threads -> Nat]
    /\ idx \in [Threads -> Nodes]
    /\ count \in [Threads -> 0..N]
    /\ committed \subseteq Threads

\* Node(int nodeId): highestProposalNum = -1, acceptedProposalNum = -1.
Init ==
    /\ highestProposalNum = [n \in Nodes |-> -1]
    /\ acceptedProposalNum = [n \in Nodes |-> -1]
    /\ acceptedValue = [n \in Nodes |-> NoValue]
    /\ value = [n \in Nodes |-> NoValue]
    /\ proposalNum = 0
    /\ pc = [t \in Threads |-> "load"]
    /\ loaded = [t \in Threads |-> 0]
    /\ num = [t \in Threads |-> 0]
    /\ idx = [t \in Threads |-> 1]
    /\ count = [t \in Threads |-> 0]
    /\ committed = {}

\* Mutant: the loop bound tested one node late.
AdvancePastEnd(t, here, after, c, ok) ==
    IF idx[t] > N
    THEN /\ pc' = [pc EXCEPT ![t] = IF ok THEN after ELSE "done"]
         /\ idx' = [idx EXCEPT ![t] = 1]
         /\ count' = [count EXCEPT ![t] = 0]
    ELSE /\ pc' = [pc EXCEPT ![t] = here]
         /\ idx' = [idx EXCEPT ![t] = idx[t] + 1]
         /\ count' = [count EXCEPT ![t] = c]

\* Step the thread's loop to the next node with the phase's count now c;
\* after the last node, go to phase `after` (with a fresh count) when the
\* phase succeeded, and stop otherwise.
Advance(t, here, after, c, ok) ==
    IF idx[t] = N
    THEN /\ pc' = [pc EXCEPT ![t] = IF ok THEN after ELSE "done"]
         /\ idx' = [idx EXCEPT ![t] = 1]
         /\ count' = [count EXCEPT ![t] = 0]
    ELSE /\ pc' = [pc EXCEPT ![t] = here]
         /\ idx' = [idx EXCEPT ![t] = idx[t] + 1]
         /\ count' = [count EXCEPT ![t] = c]

-----------------------------------------------------------------------------
(* Mutant: Node::propose with the non-strict test accept() uses.           *)
PromisesNotBelow(pn, n) == pn >= highestProposalNum[n]

\* Node::propose promises a strictly higher number.
Promises(pn, n) == pn > highestProposalNum[n]

\* Node::accept takes any number not below the highest promised.
Accepts(pn, n) == pn >= highestProposalNum[n]

-----------------------------------------------------------------------------
(* ++proposalNum is a read and a write of an unsynchronised int: two       *)
(* threads may both read the same value and so run with the same number.  *)

LoadCounter(t) ==
    /\ pc[t] = "load"
    /\ loaded' = [loaded EXCEPT ![t] = proposalNum]
    /\ pc' = [pc EXCEPT ![t] = "store"]
    /\ UNCHANGED <<nodeVars, proposalNum, num, idx, count, committed>>

StoreCounter(t) ==
    /\ pc[t] = "store"
    /\ proposalNum' = loaded[t] + 1
    /\ num' = [num EXCEPT ![t] = loaded[t] + 1]
    /\ pc' = [pc EXCEPT ![t] = "prepare"]
    /\ UNCHANGED <<nodeVars, loaded, idx, count, committed>>

\* preparePhase: node->propose(proposalNum, ""), counting promises; runPaxos
\* goes on to acceptPhase only if promises >= quorumSize.
Prepare(t) ==
    LET n == idx[t]
        ok == Promises(num[t], n)
        c == count[t] + (IF ok THEN 1 ELSE 0)
    IN
    /\ pc[t] = "prepare"
    /\ highestProposalNum' = IF ok THEN [highestProposalNum EXCEPT ![n] = num[t]]
                                   ELSE highestProposalNum
    /\ Advance(t, "prepare", "accept", c, c >= QuorumSize)
    /\ UNCHANGED <<acceptedProposalNum, acceptedValue, value, proposalNum,
                   loaded, num, committed>>

\* acceptPhase: node->accept(proposalNum, proposedValue), counting accepts;
\* runPaxos goes on to learnPhase only if accepts >= quorumSize.  The value
\* sent is always the thread's own: preparePhase returns no accepted value.
Accept(t) ==
    LET n == idx[t]
        ok == Accepts(num[t], n)
        c == count[t] + (IF ok THEN 1 ELSE 0)
    IN
    /\ pc[t] = "accept"
    /\ IF ok
       THEN /\ acceptedProposalNum' = [acceptedProposalNum EXCEPT ![n] = num[t]]
            /\ acceptedValue' = [acceptedValue EXCEPT ![n] = ProposalValue[t]]
       ELSE UNCHANGED <<acceptedProposalNum, acceptedValue>>
    /\ Advance(t, "accept", "learn", c, c >= QuorumSize)
    /\ committed' = IF idx[t] = N /\ c >= QuorumSize THEN committed \cup {t}
                                                      ELSE committed
    /\ UNCHANGED <<highestProposalNum, value, proposalNum, loaded, num>>

\* learnPhase: node->learn(value) on every node.
Learn(t) ==
    LET n == idx[t] IN
    /\ pc[t] = "learn"
    /\ value' = [value EXCEPT ![n] = ProposalValue[t]]
    /\ Advance(t, "learn", "done", 0, TRUE)
    /\ UNCHANGED <<highestProposalNum, acceptedProposalNum, acceptedValue,
                   proposalNum, loaded, num, committed>>

Next == \E t \in Threads :
            \/ LoadCounter(t)
            \/ StoreCounter(t)
            \/ Prepare(t)
            \/ Accept(t)
            \/ Learn(t)

\* Each startProposer thread runs proposeValue to completion.
Fairness == \A t \in Threads :
    WF_vars(LoadCounter(t) \/ StoreCounter(t) \/ Prepare(t) \/ Accept(t) \/ Learn(t))

Spec == Init /\ [][Next]_vars /\ Fairness

-----------------------------------------------------------------------------
(* Properties.                                                             *)

\* Two rounds that both commit (acceptPhase reached a quorum, so learnPhase
\* runs) commit the same value: spec.md 4.5 requires the later round to
\* re-propose a value a quorum already accepted, and 8 that both commits
\* agree.
Agreement ==
    \A t, u \in committed : ProposalValue[t] = ProposalValue[u]

\* Every call of proposeValue runs Paxos with its own proposal number
\* (spec.md glossary: proposal ids are strictly increasing).
ProposalNumbersUnique ==
    \A t, u \in Threads :
        t # u /\ pc[t] \notin {"load", "store"} /\ pc[u] \notin {"load", "store"}
            => num[t] # num[u]

\* Two rounds that run with the same number, because ++proposalNum raced,
\* never both commit: Node::propose promises a number strictly above its
\* highest, so two rounds with one number cannot both win a quorum.
CommittedNumbersUnique ==
    \A t, u \in committed : t # u => num[t] # num[u]
==============================================================================
