SPECIFICATION FairSpec
CONSTANTS
    Endpoints = {e1, e2}
    Capacity = 1
    IdleTimeout = 1
    Requests = {r1, r2}
    MaxRetries = 1
    LookUps = {{e1}, {e2}, {e1, e2}}
INVARIANT OneTimerPerAttempt
INVARIANT GuardsAddUp
INVARIANT GivesUpForCause
INVARIANT EvenRotation
PROPERTY ClientsInUseStay
PROPERTY EveryCallReturns
