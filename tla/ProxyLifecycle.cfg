SPECIFICATION FairLifecycleSpec
CONSTANTS
    Proxies = {p1, p2}
    Configs <- MCConfigs
    Bad = {"c"}
INVARIANT BuiltIsUsable
PROPERTY KeepsRefreshing
CHECK_DEADLOCK FALSE
