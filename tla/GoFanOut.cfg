SPECIFICATION FairSpec
CONSTANTS
    NumTargets = 3
    Peers = {p1, p2}
    Limit = 2
    MaxRetries = 1
INVARIANT AllIsDoneAtReturn
INVARIANT ReportsTheCause
PROPERTY EveryCallReturns
