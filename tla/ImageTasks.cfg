SPECIFICATION FairSpec
CONSTANTS
    m1 = m1
    m2 = m2
    b1 = b1
    b2 = b2
    Targets = {m1, m2, b1}
    Images <- Retagged
    TaskId <- ById
    Permits = 1
INVARIANT OkMeansEveryTarget
INVARIANT WithinTheLimit
PROPERTY EveryCallReturns
