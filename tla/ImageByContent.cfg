SPECIFICATION Spec
CONSTANTS
    m1 = m1
    m2 = m2
    b1 = b1
    b2 = b2
    Targets = {m1, b1, b2}
    Images <- Fixed
    TaskId <- ByContent
    Permits = 2
INVARIANT EveryBlobIsDownloaded
