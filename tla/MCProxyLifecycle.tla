---------------------------- MODULE MCProxyLifecycle ----------------------------
(* Configurations at the limits of what is valid, and one endpoint given twice. *)
EXTENDS ProxyLifecycle

Config(of, timeout, interval, retries, given) ==
    [of |-> of, malformed |-> FALSE, timeout |-> timeout, interval |-> interval,
     retries |-> retries, given |-> given]

MCConfigs ==
    {Config("scheduler", 100, 1000, 10, <<>>),
     Config("scheduler", 100, 999, 10, <<>>),
     Config("seed peers", 0, 0, 0, <<"a", "b">>),
     Config("seed peers", 0, 0, 0, <<"a", "a">>),
     Config("endpoints", 0, 0, 1, <<"a", "a", "b">>),
     Config("endpoints", 0, 0, 1, <<"c">>),
     Config("endpoints", 0, 0, 11, <<"a">>)}
================================================================================
