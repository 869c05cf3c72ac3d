------------------------------- MODULE MCProxyGet -------------------------------
(* A request for a task of two proxies and beside it one for a task of the first   *)
(* of them alone, which may be unhealthy.                                          *)
EXTENDS ProxyGet, TLC

CONSTANTS r1, r2, e1, e2

MCReplicas == r1 :> {{e1, e2}} @@ r2 :> {{}, {e1}}
================================================================================
