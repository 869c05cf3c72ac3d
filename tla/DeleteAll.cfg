SPECIFICATION Spec
CONSTANTS
    Peers = {p1, p2}
    ReplicaSet = {p1}
    Replicas = 1
    Calls = {c1}
    MaxRetries = 0
INVARIANT DeleteAllRemovesFromEvery
