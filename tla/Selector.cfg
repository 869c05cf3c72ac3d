SPECIFICATION FairSpec
CONSTANTS
    a = a
    b = b
    empty = empty
    ip1 = ip1
    ip2 = ip2
    garbled = garbled
    NoTask = NoTask
    Names <- MCNames
    EmptyName = empty
    Ips = {ip1, ip2, garbled}
    UnparsableIps = {garbled}
    Clusters <- MCClusters
    Submissions <- MCSubmissions
    Refreshers = {r1, r2}
    Updaters = {u1}
    MaxChanges = 2
INVARIANT TypeOK
INVARIANT InStep
PROPERTY OnlyARefreshEmptiesTheTable
PROPERTY TableSpec
PROPERTY ListingsInOrder
PROPERTY CatchesUp
PROPERTY MutexReleased
