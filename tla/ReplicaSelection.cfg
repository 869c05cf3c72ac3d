SPECIFICATION SelectionSpec
CONSTANTS
    HostNames = {h1, h2, h3}
    MaxVNodes = 5
    MaxReplicas = 4
INVARIANT SelectsTheReplicas
PROPERTY SelectReturns
