CONSTANTS
    N = 3
    p1 = p1
    p2 = p2
    p3 = p3
    ValueA = ValueA
    ValueB = ValueB
    ValueC = ValueC
    NoValue = NoValue
    Proposers = {p1, p2, p3}
    ProposalId <- MCProposalId
    ProposalValue <- MCProposalValue

SPECIFICATION Spec

INVARIANT Agreement

\* Each proposer thread runs propose() once and main() joins both threads:
\* the program stops when both have returned.
CHECK_DEADLOCK FALSE
