CONSTANTS
    N = 3
    t1 = t1
    t2 = t2
    ValueA = ValueA
    ValueB = ValueB
    NoValue = NoValue
    Threads = {t1, t2}
    ProposalValue <- MCProposalValue

SPECIFICATION Spec

INVARIANT Agreement


\* Each proposer thread runs proposeValue once and main() joins both.
CHECK_DEADLOCK FALSE
