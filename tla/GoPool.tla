--------------------------------- MODULE GoPool ---------------------------------
(***************************************************************************)
(* The client pool of the Go SDK (go/internal/pool/pool.go).  Entry cleans *)
(* up, at most every half idle timeout, and then takes the client of the   *)
(* key or makes one, all under one lock.  The requests under way with a    *)
(* client are counted by guards, taken after Entry has returned.           *)
(*                                                                         *)
(* Instead of the instants of the last use and of the last cleanup their   *)
(* ages are kept, up to where they make no more difference.  A client is   *)
(* known by its key: of one that was removed nothing is read again.        *)
(***************************************************************************)
EXTENDS Integers, FiniteSets

CONSTANTS
    Endpoints,      \* the keys of the pool
    Capacity,
    IdleTimeout

ASSUME PoolAssumption ==
    /\ Capacity \in Nat
    /\ IdleTimeout \in Nat

VARIABLES
    pooled,         \* the endpoints with a client in the pool
    active,         \* activeRequests of each, 0 without a client
    idle,           \* ticks since activedAt of each, 0 without a client
    sinceCleanup    \* ticks since cleanupAt

poolVars == <<pooled, active, idle, sinceCleanup>>

PoolTypeOK ==
    /\ pooled \in SUBSET Endpoints
    /\ active \in [Endpoints -> Nat]
    /\ idle \in [Endpoints -> 0 .. IdleTimeout + 1]
    /\ sinceCleanup \in 0 .. IdleTimeout

PoolInit ==
    /\ pooled = {}
    /\ active = [e \in Endpoints |-> 0]
    /\ idle = [e \in Endpoints |-> 0]
    /\ sinceCleanup = 0

Tick ==
    /\ \/ sinceCleanup < IdleTimeout
       \/ \E e \in pooled : idle[e] <= IdleTimeout
    /\ sinceCleanup' = IF sinceCleanup < IdleTimeout THEN sinceCleanup + 1 ELSE sinceCleanup
    /\ idle' = [e \in Endpoints |->
                   IF e \in pooled /\ idle[e] <= IdleTimeout THEN idle[e] + 1 ELSE idle[e]]
    /\ UNCHANGED <<pooled, active>>

--------------------------------------------------------------------------------

HotCleanup == 2 * sinceCleanup < IdleTimeout

Crowded == Cardinality(pooled) > Capacity

\* Mutant: a recent client stays in an uncrowded pool, any other goes, in use or not.
RetainedIfRecent(e) == ~Crowded /\ idle[e] <= IdleTimeout

Retained(e) == active[e] > 0 \/ (~Crowded /\ idle[e] <= IdleTimeout)

\* The clients the cleanup of a call of Entry removes now.
Swept == IF HotCleanup THEN {} ELSE {e \in pooled : ~Retained(e)}

\* The pool after that cleanup, with or without the client of e taken or made.
Entry(e) ==
    /\ pooled' = (pooled \ Swept) \cup {e}
    /\ active' = [k \in Endpoints |-> IF k \in Swept THEN 0 ELSE active[k]]
    /\ idle' = [k \in Endpoints |-> IF k \in Swept \cup {e} THEN 0 ELSE idle[k]]
    /\ sinceCleanup' = IF HotCleanup THEN sinceCleanup ELSE 0

\* Entry fails: there is no client of e and the factory makes none.
EntryFails(e) ==
    /\ e \notin pooled \ Swept
    /\ pooled' = pooled \ Swept
    /\ active' = [k \in Endpoints |-> IF k \in Swept THEN 0 ELSE active[k]]
    /\ idle' = [k \in Endpoints |-> IF k \in Swept THEN 0 ELSE idle[k]]
    /\ sinceCleanup' = IF HotCleanup THEN sinceCleanup ELSE 0

\* RequestGuard and Done of a client that is in the pool.
Guard(e) == active' = [active EXCEPT ![e] = @ + 1]
Done(e) == active' = [active EXCEPT ![e] = @ - 1]
================================================================================
