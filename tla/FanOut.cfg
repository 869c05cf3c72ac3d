SPECIFICATION FairSpec
CONSTANTS
    Peers = {p1, p2}
    ReplicaSet = {p1, p2}
    Replicas = 2
    Calls = {c1}
    MaxRetries = 1
INVARIANT OkMeansEverywhere
INVARIANT FailsForCause
PROPERTY EveryCallReturns
