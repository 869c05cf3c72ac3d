---------------------------- MODULE ClientPoolProofs ----------------------------
(***************************************************************************)
(* Proofs about ClientPool, for any number of keys, calls and clients, any *)
(* capacity and idle timeout.                                              *)
(***************************************************************************)
EXTENDS ClientPool, TLAPS

\* The invariant holds at first.
LEMMA InitEstablishes == Init => IndInv
BY PoolAssumption DEF PoolAssumption, Init, IndInv, Fresh, TypeOK, Visited

\* Every step keeps the types.
LEMMA TypesPreserved == TypeOK /\ [Next]_vars => TypeOK'
<1> SUFFICES ASSUME TypeOK, [Next]_vars
             PROVE  TypeOK'
  OBVIOUS
<1> USE PoolAssumption DEF PoolAssumption, TypeOK
<1>1. CASE Tick
  BY <1>1 DEF Tick, callVars
<1>2. ASSUME NEW t \in Tasks, NEW k \in Keys, Call(t, k)
      PROVE  TypeOK'
  BY <1>2 DEF Call, Goto
<1>3. ASSUME NEW t \in Tasks, CheckCleanup(t)
      PROVE  TypeOK'
  <2>1. CASE HotCleanup(t)
    BY <1>3, <2>1 DEF CheckCleanup, Goto
  <2>2. CASE ~HotCleanup(t)
    <3> DEFINE crowded == Cardinality(Pooled) > Capacity
    <3>1. crowded \in BOOLEAN
      OBVIOUS
    <3> HIDE DEF crowded
    <3>2. exceeds' = [exceeds EXCEPT ![t] = crowded]
      BY <1>3, <2>2 DEF CheckCleanup, crowded
    <3>3. exceeds' \in [Tasks -> BOOLEAN]
      BY <3>1, <3>2
    <3>4. left' \in [Tasks -> SUBSET Keys] /\ base' \in [Tasks -> 0 .. made]
          /\ started' \in [Tasks -> 0 .. clock]
      BY <1>3, <2>2 DEF CheckCleanup
    <3>5. pc' \in [Tasks -> {"idle", "check", "retain", "stamp", "take", "make"}]
      BY <1>3, <2>2 DEF CheckCleanup, Goto
    <3>6. QED
      BY <1>3, <3>3, <3>4, <3>5 DEF CheckCleanup
  <2>3. QED
    BY <2>1, <2>2
<1>4. ASSUME NEW t \in Tasks, NEW k \in Keys, Retain(t, k)
      PROVE  TypeOK'
  <2>1. clients' \in [Keys -> 0 .. made] /\ handed' \in [Keys -> SUBSET (1 .. made)]
    <3>1. \/ clients' = [clients EXCEPT ![k] = 0] /\ handed' = [handed EXCEPT ![k] = {}]
          \/ UNCHANGED <<clients, handed>>
      BY <1>4 DEF Retain
    <3>2. QED
      BY <3>1
  <2>2. pc' \in [Tasks -> {"idle", "check", "retain", "stamp", "take", "make"}]
        /\ left' \in [Tasks -> SUBSET Keys]
    BY <1>4 DEF Retain, Goto
  <2>3. QED
    BY <1>4, <2>1, <2>2 DEF Retain
<1>5. ASSUME NEW t \in Tasks, Stamp(t)
      PROVE  TypeOK'
  BY <1>5 DEF Stamp, Goto
<1>6. ASSUME NEW t \in Tasks, Take(t)
      PROVE  TypeOK'
  <2>1. CASE key[t] \in Pooled
    <3>1. clients[key[t]] \in 1 .. made
      BY <2>1 DEF Pooled
    <3>2. handed' = [handed EXCEPT ![key[t]] = @ \cup {clients[key[t]]}]
      BY <1>6, <2>1 DEF Take, Return
    <3>3. handed' \in [Keys -> SUBSET (1 .. made)]
      BY <3>1, <3>2
    <3>4. activedAt' \in [Keys -> 0 .. clock] /\ handedAt' \in [Keys -> 0 .. clock]
      BY <1>6, <2>1 DEF Take, Return
    <3>5. /\ now' = [now EXCEPT ![t] = 0] /\ started' = [started EXCEPT ![t] = 0]
          /\ base' = [base EXCEPT ![t] = 0] /\ exceeds' = [exceeds EXCEPT ![t] = FALSE]
          /\ pc' = [pc EXCEPT ![t] = "idle"]
          /\ left' = left
      BY <1>6, <2>1 DEF Take, Return, Goto
    <3>6. clock \in Nat /\ made \in Nat
      OBVIOUS
    <3>7. now' \in [Tasks -> 0 .. clock] /\ started' \in [Tasks -> 0 .. clock]
      BY <3>5, <3>6
    <3>8. base' \in [Tasks -> 0 .. made] /\ exceeds' \in [Tasks -> BOOLEAN]
      BY <3>5, <3>6
    <3>9. QED
      BY <1>6, <3>3, <3>4, <3>5, <3>7, <3>8 DEF Take
  <2>2. CASE key[t] \notin Pooled
    BY <1>6, <2>2 DEF Take, Goto
  <2>3. QED
    BY <2>1, <2>2
<1>7. ASSUME NEW t \in Tasks, Insert(t)
      PROVE  TypeOK'
  BY <1>7 DEF Insert, Return, Goto
<1>8. ASSUME NEW t \in Tasks, MakeFails(t)
      PROVE  TypeOK'
  BY <1>8 DEF MakeFails, Goto
<1>9. CASE UNCHANGED vars
  BY <1>9 DEF vars, callVars
<1>10. QED
  BY <1>1, <1>2, <1>3, <1>4, <1>5, <1>6, <1>7, <1>8, <1>9 DEF Next, Step

\* A step that leaves the clients and their times alone keeps what a call that it also
\* leaves alone has visited.
LEMMA StepElsewhere ==
    ASSUME NEW t \in Tasks, Visited(t),
           UNCHANGED <<pc[t], left[t], exceeds[t], base[t], started[t], clients, activedAt>>
    PROVE  Visited(t)'
BY DEF Visited

\* What has been visited outlasts the removal, the use and the insertion of a client.
LEMMA ClientMoves ==
    ASSUME TypeOK, TypeOK', NEW t \in Tasks, Visited(t), NEW k \in Keys,
           UNCHANGED <<pc[t], left[t], exceeds[t], base[t], started[t]>>,
           \A q \in Keys \ {k} : clients'[q] = clients[q] /\ activedAt'[q] = activedAt[q],
           \/ clients'[k] = 0
           \/ clients'[k] = made + 1
           \/ clients'[k] = clients[k] /\ activedAt'[k] >= activedAt[k]
    PROVE  Visited(t)'
<1>1. ASSUME NEW q \in Keys \ left[t], pc[t] \in {"retain", "stamp"},
             clients'[q] # 0, clients'[q] <= base[t]
      PROVE  started[t] - activedAt'[q] <= IdleTimeout
  <2>1. q = k => clients'[k] = clients[k] /\ activedAt'[k] >= activedAt[k]
    BY <1>1 DEF TypeOK
  <2>2. started[t] - activedAt[q] <= IdleTimeout
    BY <1>1, <2>1 DEF Visited
  <2>3. activedAt'[q] >= activedAt[q]
    BY <2>1 DEF TypeOK
  <2>4. started[t] \in Nat /\ activedAt[q] \in Nat /\ activedAt'[q] \in Nat
    BY DEF TypeOK
  <2>5. IdleTimeout \in Nat
    BY PoolAssumption DEF PoolAssumption
  <2>6. QED
    BY <2>2, <2>3, <2>4, <2>5
<1>2. QED
  BY <1>1 DEF Visited

\* Every step keeps the invariant.
LEMMA NextPreserves == IndInv /\ [Next]_vars => IndInv'
<1> SUFFICES ASSUME IndInv, [Next]_vars
             PROVE  IndInv'
  OBVIOUS
<1>0. TypeOK /\ TypeOK' /\ Fresh /\ \A t \in Tasks : Visited(t)
  BY TypesPreserved DEF IndInv, Fresh
<1>a. SUFFICES Fresh' /\ \A t \in Tasks : Visited(t)'
  BY <1>0 DEF IndInv, Fresh
<1>1. CASE Tick
  BY <1>0, <1>1, StepElsewhere DEF Tick, callVars, Fresh
<1>2. ASSUME NEW t \in Tasks, NEW k \in Keys, Call(t, k)
      PROVE  Fresh' /\ \A u \in Tasks : Visited(u)'
  BY <1>0, <1>2 DEF Call, Goto, Fresh, Visited, TypeOK
<1>3. ASSUME NEW t \in Tasks, CheckCleanup(t)
      PROVE  Fresh' /\ \A u \in Tasks : Visited(u)'
  BY <1>0, <1>3 DEF CheckCleanup, Goto, Fresh, Visited, TypeOK
<1>4. ASSUME NEW t \in Tasks, NEW k \in Keys, Retain(t, k)
      PROVE  Fresh' /\ \A u \in Tasks : Visited(u)'
  <2>1. Fresh'
    <3>1. \/ clients' = [clients EXCEPT ![k] = 0] /\ handed' = [handed EXCEPT ![k] = {}]
          \/ UNCHANGED <<clients, handed>>
      BY <1>4 DEF Retain
    <3>2. UNCHANGED <<activedAt, handedAt>>
      BY <1>4 DEF Retain
    <3>3. \A q \in Keys : handed'[q] \subseteq {clients'[q]} \ {0}
      <4>1. CASE UNCHANGED <<clients, handed>>
        BY <1>0, <4>1 DEF Fresh
      <4>2. CASE clients' = [clients EXCEPT ![k] = 0] /\ handed' = [handed EXCEPT ![k] = {}]
        <5>1. \A q \in Keys : handed'[q] = IF q = k THEN {} ELSE handed[q]
          BY <1>0, <4>2 DEF TypeOK
        <5>2. \A q \in Keys \ {k} : clients'[q] = clients[q]
          BY <1>0, <4>2 DEF TypeOK
        <5>3. QED
          BY <1>0, <5>1, <5>2 DEF Fresh
      <4>3. QED
        BY <3>1, <4>1, <4>2
    <3>4. QED
      BY <1>0, <3>2, <3>3 DEF Fresh
  <2>2. \A u \in Tasks \ {t} : Visited(u)'
    <3>1. \A q \in Keys \ {k} : clients'[q] = clients[q] /\ activedAt'[q] = activedAt[q]
      BY <1>0, <1>4 DEF Retain, TypeOK
    <3>2. \/ clients'[k] = 0
          \/ clients'[k] = clients[k] /\ activedAt'[k] >= activedAt[k]
      BY <1>0, <1>4 DEF Retain, TypeOK
    <3>3. \A u \in Tasks \ {t} :
              UNCHANGED <<pc[u], left[u], exceeds[u], base[u], started[u]>>
      BY <1>0, <1>4 DEF Retain, Goto, TypeOK
    <3>4. QED
      BY <1>0, <3>1, <3>2, <3>3, ClientMoves
  <2>3. Visited(t)'
    <3>1. pc'[t] # "retain" => left'[t] = {}
      BY <1>0, <1>4 DEF Retain, Goto, TypeOK
    <3>2. ASSUME NEW q \in Keys \ left'[t], clients'[q] # 0, clients'[q] <= base'[t]
          PROVE  started'[t] - activedAt'[q] <= IdleTimeout
      <4>1. CASE q = k
        <5>1. clock - activedAt[k] <= IdleTimeout
          BY <1>0, <1>4, <3>2, <4>1 DEF Retain, Pooled, ShouldRetain, TypeOK
        <5>2. started[t] \in 0 .. clock /\ activedAt[k] \in 0 .. clock /\ clock \in Nat
          BY <1>0, PoolAssumption DEF TypeOK, PoolAssumption
        <5>3. UNCHANGED <<exceeds, started, activedAt>>
          BY <1>4 DEF Retain
        <5>4. QED
          BY <4>1, <5>1, <5>2, <5>3, PoolAssumption DEF PoolAssumption
      <4>2. CASE q # k
        <5>1. q \in Keys \ left[t] /\ clients'[q] = clients[q]
          BY <1>0, <1>4, <3>2, <4>2 DEF Retain, TypeOK
        <5>2. UNCHANGED <<exceeds, started, activedAt, base>> /\ pc[t] = "retain"
          BY <1>4 DEF Retain
        <5>3. QED
          BY <1>0, <3>2, <5>1, <5>2 DEF Visited
      <4>3. QED
        BY <4>1, <4>2
    <3>3. QED
      BY <3>1, <3>2 DEF Visited
  <2>4. QED
    BY <2>1, <2>2, <2>3
<1>5. ASSUME NEW t \in Tasks, Stamp(t)
      PROVE  Fresh' /\ \A u \in Tasks : Visited(u)'
  BY <1>0, <1>5 DEF Stamp, Goto, Fresh, Visited, TypeOK
<1>6. ASSUME NEW t \in Tasks, Take(t) \/ Insert(t)
      PROVE  Fresh' /\ \A u \in Tasks : Visited(u)'
  <2>1. Fresh'
    BY <1>0, <1>6 DEF Take, Insert, Return, Pooled, Fresh, TypeOK
  <2>2. Visited(t)'
    BY <1>0, <1>6 DEF Take, Insert, Return, Goto, Visited, TypeOK
  <2>3. \A u \in Tasks \ {t} : Visited(u)'
    <3> DEFINE k == key[t]
    <3>1. k \in Keys
      BY <1>0 DEF TypeOK
    <3>2. \A q \in Keys \ {k} : clients'[q] = clients[q] /\ activedAt'[q] = activedAt[q]
      BY <1>0, <1>6 DEF Take, Insert, TypeOK
    <3>3. \/ clients'[k] = made + 1
          \/ clients'[k] = clients[k] /\ activedAt'[k] >= activedAt[k]
      BY <1>0, <1>6, <3>1, PoolAssumption DEF Take, Insert, TypeOK, PoolAssumption
    <3>4. \A u \in Tasks \ {t} :
              UNCHANGED <<pc[u], left[u], exceeds[u], base[u], started[u]>>
      BY <1>0, <1>6 DEF Take, Insert, Return, Goto, TypeOK
    <3>5. QED
      BY <1>0, <3>1, <3>2, <3>3, <3>4, ClientMoves
  <2>4. QED
    BY <2>2, <2>1, <2>3
<1>7. ASSUME NEW t \in Tasks, MakeFails(t)
      PROVE  Fresh' /\ \A u \in Tasks : Visited(u)'
  BY <1>0, <1>7 DEF MakeFails, Goto, Fresh, Visited, TypeOK
<1>8. CASE UNCHANGED vars
  BY <1>0, <1>8, StepElsewhere DEF vars, callVars, Fresh
<1>9. QED
  BY <1>1, <1>2, <1>3, <1>4, <1>5, <1>6, <1>7, <1>8 DEF Next, Step

\* IndInv holds in every reachable state.
THEOREM Invariance == Spec => []IndInv
BY InitEstablishes, NextPreserves, PTL DEF Spec

\* Every variable has its type in every reachable state.
THEOREM TypeCorrect == Spec => []TypeOK
<1>1. IndInv => TypeOK
  BY DEF IndInv
<1>2. QED
  BY <1>1, Invariance, PTL

\* However many calls for a key overlap, all of them share one client until a cleanup
\* removes it.
THEOREM ClientsAreShared == Spec => []CallsShareAClient
<1>1. IndInv => CallsShareAClient
  BY DEF IndInv, Fresh, CallsShareAClient, Pooled
<1>2. QED
  BY <1>1, Invariance, PTL

\* A cleanup leaves no client that was there when it began and idle for too long then,
\* whatever the calls beside it take and insert.
THEOREM CleanupsAreThorough == Spec => []CleanupIsThorough
<1>1. IndInv => CleanupIsThorough
  BY DEF IndInv, Visited, CleanupIsThorough, Pooled
<1>2. QED
  BY <1>1, Invariance, PTL

\* No step removes a client used within the idle timeout, but those of a cleanup that
\* began with too many clients.
THEOREM RecentClientsStay == Spec => OnlyCrowdingRemovesRecentClients
<1> DEFINE Removal ==
        \A k \in Pooled : clients'[k] = 0 =>
            \/ clock - handedAt[k] > IdleTimeout
            \/ \E t \in Tasks : pc[t] = "retain" /\ exceeds[t]
<1>1. IndInv /\ Next => Removal
  <2> SUFFICES ASSUME IndInv, Next, NEW k \in Pooled, clients'[k] = 0
               PROVE  \/ clock - handedAt[k] > IdleTimeout
                      \/ \E t \in Tasks : pc[t] = "retain" /\ exceeds[t]
    OBVIOUS
  <2>1. k \in Keys /\ clients[k] \in Nat \ {0} /\ made \in Nat /\ handedAt[k] = activedAt[k]
        /\ clock \in Nat /\ activedAt[k] \in Nat
    BY PoolAssumption DEF IndInv, Fresh, TypeOK, Pooled, PoolAssumption
  <2>2. PICK t \in Tasks, q \in Keys : Retain(t, q)
    BY <2>1 DEF Next, Step, Tick, Call, CheckCleanup, Stamp, Take, Insert, MakeFails,
                IndInv, TypeOK
  <2>3. q = k
    BY <2>1, <2>2 DEF Retain, IndInv, TypeOK
  <2>4. ~ShouldRetain(t, k) /\ pc[t] = "retain"
    BY <2>1, <2>2, <2>3 DEF Retain
  <2>5. QED
    BY <2>1, <2>4, PoolAssumption DEF ShouldRetain, PoolAssumption
<1>2. IndInv /\ [Next]_vars => [Removal]_vars
  BY <1>1
<1>3. QED
  BY <1>2, Invariance, PTL DEF Spec, OnlyCrowdingRemovesRecentClients
=================================================================================
