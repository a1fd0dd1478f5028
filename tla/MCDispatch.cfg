\* Two daemons of one node and two jobs, with lost calls and restarts.
SPECIFICATION FairSpec
CONSTANTS
    n1 = n1
    Jobs = {j1, j2}
    Daemons = {d1, d2}
    Nodes = {n1, n2}
    NodeOf <- OneNode
    Timeout = 1
    Batch = 1
    MaxTime = 2
    Faults = TRUE
INVARIANTS ExecutedAtMostOnce VerdictsAreEarned AnswerMatchesJob
PROPERTIES FinalIsFinal NoStartAfterAnswer EveryWaiterReturns EveryJobCloses
