CONSTANTS
    Turns = {t1, t2}
    NodeIds <- MCNodeIds
    Tools <- MCTools
    Plans <- MCPlans
    Threshold = 2
    Recovery = 1
    Timeout = 1
SPECIFICATION FairSpec
INVARIANTS
    DependenciesSeen
    AcyclicPlansComplete
    DegradedMatchesFailures
    OpenCircuitIsEarned
PROPERTY EveryTurnEnds
CHECK_DEADLOCK FALSE
