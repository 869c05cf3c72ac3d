------------------------------- MODULE ClientPool -------------------------------
(***************************************************************************)
(* The pool of HTTP clients, one per seed peer proxy (rust/src/pool.rs):   *)
(* entry first cleans up, at most every half idle timeout, and then takes  *)
(* the client of the key or makes one.  No lock spans a call: concurrent   *)
(* calls overlap between any two steps, and a cleanup visits the clients   *)
(* one shard after another while others are taken and inserted.            *)
(***************************************************************************)
EXTENDS Integers, FiniteSets

CONSTANTS
    Keys,           \* proxy endpoints
    Tasks,          \* concurrent callers of entry, one call after another each
    Capacity,
    IdleTimeout,
    MaxTime,        \* the clock stops here (bounds the model)
    MaxClients      \* clients made in all (bounds the model)

ASSUME PoolAssumption ==
    /\ Capacity \in Nat
    /\ {IdleTimeout, MaxTime, MaxClients} \subseteq Nat

VARIABLES
    clock,
    clients,        \* the client of each key, numbered as made, 0 for none
    activedAt,      \* when it was last taken
    cleanupAt,
    made,           \* clients made so far
    pc, key,        \* where each call is, and the key it is for
    now,            \* when the call began
    exceeds,        \* its cleanup found more clients than the capacity
    left,           \* the keys its cleanup has still to visit
    base, started,  \* the clients made when its cleanup began, and when (history)
    handed,         \* the clients handed out for each key since one was last
                    \* removed (history)
    handedAt        \* when one last was (history)

callVars == <<pc, key, now, exceeds, left, base, started>>
vars == <<clock, clients, activedAt, cleanupAt, made, callVars, handed, handedAt>>

TypeOK ==
    /\ clock \in 0 .. MaxTime
    /\ clients \in [Keys -> 0 .. made]
    /\ activedAt \in [Keys -> 0 .. clock]
    /\ cleanupAt \in 0 .. clock
    /\ made \in 0 .. MaxClients
    /\ pc \in [Tasks -> {"idle", "check", "retain", "stamp", "take", "make"}]
    /\ key \in [Tasks -> Keys]
    /\ now \in [Tasks -> 0 .. clock]
    /\ exceeds \in [Tasks -> BOOLEAN]
    /\ left \in [Tasks -> SUBSET Keys]
    /\ base \in [Tasks -> 0 .. made]
    /\ started \in [Tasks -> 0 .. clock]
    /\ handed \in [Keys -> SUBSET (1 .. made)]
    /\ handedAt \in [Keys -> 0 .. clock]

Init ==
    /\ clock = 0
    /\ clients = [k \in Keys |-> 0]
    /\ activedAt = [k \in Keys |-> 0]
    /\ cleanupAt = 0
    /\ made = 0
    /\ pc = [t \in Tasks |-> "idle"]
    /\ key \in [Tasks -> Keys]
    /\ now = [t \in Tasks |-> 0]
    /\ exceeds = [t \in Tasks |-> FALSE]
    /\ left = [t \in Tasks |-> {}]
    /\ base = [t \in Tasks |-> 0]
    /\ started = [t \in Tasks |-> 0]
    /\ handed = [k \in Keys |-> {}]
    /\ handedAt = [k \in Keys |-> 0]

Tick ==
    /\ clock < MaxTime
    /\ clock' = clock + 1
    /\ UNCHANGED <<clients, activedAt, cleanupAt, made, callVars, handed, handedAt>>

--------------------------------------------------------------------------------

Goto(t, label) == pc' = [pc EXCEPT ![t] = label]

Pooled == {k \in Keys : clients[k] # 0}

\* A call begins: now is read, then the lock of cleanup_at is awaited.
Call(t, k) ==
    /\ pc[t] = "idle"
    /\ Goto(t, "check")
    /\ key' = [key EXCEPT ![t] = k]
    /\ now' = [now EXCEPT ![t] = clock]
    /\ UNCHANGED <<clock, clients, activedAt, cleanupAt, made, exceeds, left, base,
                   started, handed, handedAt>>

\* Avoid hot cleanup, else see whether the pool is crowded.
HotCleanup(t) == 2 * (now[t] - cleanupAt) < IdleTimeout

CheckCleanup(t) ==
    /\ pc[t] = "check"
    /\ IF HotCleanup(t)
       THEN /\ Goto(t, "take")
            /\ UNCHANGED <<exceeds, left, base, started>>
       ELSE /\ Goto(t, "retain")
            /\ exceeds' = [exceeds EXCEPT ![t] = Cardinality(Pooled) > Capacity]
            /\ left' = [left EXCEPT ![t] = Keys]
            /\ base' = [base EXCEPT ![t] = made]
            /\ started' = [started EXCEPT ![t] = clock]
    /\ UNCHANGED <<clock, clients, activedAt, cleanupAt, made, key, now, handed, handedAt>>

\* Mutant: clients are removed only if the pool is crowded.
ShouldRetainWithRoom(t, k) == ~exceeds[t]

ShouldRetain(t, k) == ~exceeds[t] /\ clock - activedAt[k] <= IdleTimeout

\* retain visits one client, under the lock of its shard.
Retain(t, k) ==
    /\ pc[t] = "retain"
    /\ k \in left[t]
    /\ left' = [left EXCEPT ![t] = @ \ {k}]
    /\ IF k \in Pooled /\ ~ShouldRetain(t, k)
       THEN /\ clients' = [clients EXCEPT ![k] = 0]
            /\ handed' = [handed EXCEPT ![k] = {}]
       ELSE UNCHANGED <<clients, handed>>
    /\ IF left'[t] = {} THEN Goto(t, "stamp") ELSE UNCHANGED pc
    /\ UNCHANGED <<clock, activedAt, cleanupAt, made, key, now, exceeds, base, started,
                   handedAt>>

\* The cleanup is recorded, as of when the call began.
Stamp(t) ==
    /\ pc[t] = "stamp"
    /\ cleanupAt' = now[t]
    /\ Goto(t, "take")
    /\ UNCHANGED <<clock, clients, activedAt, made, key, now, exceeds, left, base,
                   started, handed, handedAt>>

\* The call returns client c of its key.
Return(t, c) ==
    /\ Goto(t, "idle")
    /\ handed' = [handed EXCEPT ![key[t]] = @ \cup {c}]
    /\ handedAt' = [handedAt EXCEPT ![key[t]] = clock]
    /\ now' = [now EXCEPT ![t] = 0]
    /\ exceeds' = [exceeds EXCEPT ![t] = FALSE]
    /\ base' = [base EXCEPT ![t] = 0]
    /\ started' = [started EXCEPT ![t] = 0]
    /\ UNCHANGED left

\* Mutant: a client taken from the pool is not marked as active.
TakeUnmarked(t) ==
    /\ pc[t] = "take"
    /\ IF key[t] \in Pooled
       THEN Return(t, clients[key[t]])
       ELSE Goto(t, "make") /\ UNCHANGED <<now, exceeds, left, base, started, handed, handedAt>>
    /\ UNCHANGED <<clock, clients, activedAt, cleanupAt, made, key>>

\* Take the client of the key if there is one.
Take(t) ==
    /\ pc[t] = "take"
    /\ IF key[t] \in Pooled
       THEN /\ Return(t, clients[key[t]])
            /\ activedAt' = [activedAt EXCEPT ![key[t]] = clock]
       ELSE /\ Goto(t, "make")
            /\ UNCHANGED <<activedAt, now, exceeds, left, base, started, handed, handedAt>>
    /\ UNCHANGED <<clock, clients, cleanupAt, made, key>>

\* Mutant: the client made takes the place of one inserted meanwhile.
InsertOver(t) ==
    /\ pc[t] = "make"
    /\ made < MaxClients
    /\ made' = made + 1
    /\ clients' = [clients EXCEPT ![key[t]] = made']
    /\ activedAt' = [activedAt EXCEPT ![key[t]] = clock]
    /\ Return(t, clients'[key[t]])
    /\ UNCHANGED <<clock, cleanupAt, key>>

\* Make a client and insert it, unless another call was faster: then that one's is
\* taken and this one dropped.
Insert(t) ==
    /\ pc[t] = "make"
    /\ made < MaxClients
    /\ made' = made + 1
    /\ clients' = [clients EXCEPT ![key[t]] = IF @ = 0 THEN made' ELSE @]
    /\ activedAt' = [activedAt EXCEPT ![key[t]] = clock]
    /\ Return(t, clients'[key[t]])
    /\ UNCHANGED <<clock, cleanupAt, key>>

\* The client cannot be made: the call fails.
MakeFails(t) ==
    /\ pc[t] = "make"
    /\ Goto(t, "idle")
    /\ UNCHANGED <<clock, clients, activedAt, cleanupAt, made, key, now, exceeds, left,
                   base, started, handed, handedAt>>

--------------------------------------------------------------------------------

Step(t) ==
    \/ CheckCleanup(t)
    \/ \E k \in Keys : Retain(t, k)
    \/ Stamp(t) \/ Take(t) \/ Insert(t) \/ MakeFails(t)

Next ==
    \/ Tick
    \/ \E t \in Tasks : Step(t) \/ \E k \in Keys : Call(t, k)

Spec == Init /\ [][Next]_vars

--------------------------------------------------------------------------------

\* Connections are reused: all calls for a key share one client until it is removed,
\* even those that found none and made one at the same time (pool.rs:150, 175-182).
CallsShareAClient ==
    \A k \in Pooled : handed[k] \subseteq {clients[k]}

\* A client that was handed out within the idle timeout is removed only by a cleanup
\* that began with more clients than the capacity.
OnlyCrowdingRemovesRecentClients ==
    [][\A k \in Pooled : clients'[k] = 0 =>
           \/ clock - handedAt[k] > IdleTimeout
           \/ \E t \in Tasks : pc[t] = "retain" /\ exceeds[t]]_vars

\* A cleanup is thorough in spite of the calls under way: when it is over, no client is
\* left that was there when it began and had then been idle for longer than the idle
\* timeout (pool.rs:84-86).
CleanupIsThorough ==
    \A t \in Tasks, k \in Pooled :
        pc[t] = "stamp" /\ clients[k] <= base[t] =>
            started[t] - activedAt[k] <= IdleTimeout

\* The inductive invariant behind them: a client is as active as it was handed out, no
\* key without a client has handed any out, and the keys a cleanup has visited hold
\* clients inserted since, or used recently.
Fresh == \A k \in Keys : handed[k] \subseteq {clients[k]} \ {0} /\ handedAt[k] = activedAt[k]

Visited(t) ==
    /\ pc[t] # "retain" => left[t] = {}
    /\ pc[t] \in {"retain", "stamp"} =>
        \A k \in Keys \ left[t] :
            clients[k] # 0 /\ clients[k] <= base[t] =>
                started[t] - activedAt[k] <= IdleTimeout

IndInv ==
    /\ TypeOK
    /\ Fresh
    /\ \A t \in Tasks : Visited(t)
================================================================================
