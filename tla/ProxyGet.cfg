SPECIFICATION FairSpec
CONSTANTS
    e1 = e1
    e2 = e2
    r1 = r1
    r2 = r2
    Endpoints = {e1, e2}
    Requests = {r1, r2}
    Replicas <- MCReplicas
    MaxFailedCount = 2
    Cooldown = 2
    MaxRetries = 2
    None = None
INVARIANT CountsFailuresInARow
INVARIANT EvenRotation
INVARIANT GivesUpOnlyAfterTheRound
PROPERTY EjectionEnds
PROPERTY RotationSpec
