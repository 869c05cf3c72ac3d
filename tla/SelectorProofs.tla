----------------------------- MODULE SelectorProofs -----------------------------
(***************************************************************************)
(* Proofs about the selector and what keeps it, for every value of the     *)
(* constants: SeedPeerSelector (table, ring and refresh), where IndInv is  *)
(* inductive and every step is a step of SeedPeerTable or leaves its       *)
(* variables unchanged; ReplicaSelection (the walk of select), where       *)
(* SelectionInv is; and ProxyLifecycle (the builders and the service),     *)
(* where LifecycleInv is.                                                  *)
(***************************************************************************)
EXTENDS SeedPeerSelector, ReplicaSelection, ProxyLifecycle, FiniteSetTheorems,
        SequenceTheorems, WellFoundedInduction, TLAPS

--------------------------------------------------------------------------------
(* SeedPeerSelector. *)

\* What the members of HostTables are.
LEMMA HostTableFacts ==
    ASSUME NEW f \in HostTables
    PROVE  /\ DOMAIN f \in SUBSET Names
           /\ f \in [DOMAIN f -> SeedPeers]
           /\ \A n \in DOMAIN f : f[n].host.name = n
BY DEF HostTables

\* A map of seed peers that has each under its own name is a host table.
LEMMA HostTableIntro ==
    ASSUME NEW S \in SUBSET Names, NEW f \in [S -> SeedPeers],
           \A n \in S : f[n].host.name = n
    PROVE  f \in HostTables
BY DEF HostTables

\* The empty map is the only host table without a name.
LEMMA NoHostsFacts ==
    /\ NoHosts \in HostTables
    /\ DOMAIN NoHosts = {}
<1>1. DOMAIN NoHosts = {} /\ NoHosts \in [{} -> SeedPeers]
  BY DEF NoHosts
<1>2. QED
  BY <1>1, HostTableIntro

\* Whatever the health checks answer, they make a host table of the listed
\* hosts, with the names of those hosts.
LEMMA CollectedFacts ==
    ASSUME NEW hs \in SUBSET Hosts, NEW f \in CollectedFrom(hs)
    PROVE  f \in HostTables
<1> DEFINE S == {h.name : h \in hs}
<1>1. f \in [S -> [host : hs, healthy : BOOLEAN]] /\ \A n \in S : f[n].host.name = n
  BY DEF CollectedFrom
<1>2. S \in SUBSET Names
  BY DEF Hosts
<1>3. f \in [S -> SeedPeers]
  BY <1>1 DEF SeedPeers
<1>4. QED
  BY <1>1, <1>2, <1>3, HostTableIntro

\* A submitted list makes a host table, with some name when the list is valid.
LEMMA HostsOfFacts ==
    ASSUME NEW s \in Submissions
    PROVE  /\ HostsOf(s) \in HostTables
           /\ Valid(s) => DOMAIN HostsOf(s) # {}
<1> DEFINE S == {s[i].host.name : i \in DOMAIN s}
           pos(n) == CHOOSE i \in DOMAIN s : s[i].host.name = n
<1>1. \A i \in DOMAIN s : s[i] \in SeedPeers
  BY ConstantsAssumption DEF ConstantsAssumption
<1>2. S \in SUBSET Names
  BY <1>1 DEF SeedPeers, Hosts
<1>3. \A n \in S : pos(n) \in DOMAIN s /\ s[pos(n)].host.name = n
  OBVIOUS
<1>4. HostsOf(s) = [n \in S |-> s[pos(n)]]
  BY DEF HostsOf
<1>5. HostsOf(s) \in [S -> SeedPeers] /\ \A n \in S : HostsOf(s)[n].host.name = n
  BY <1>1, <1>3, <1>4
<1>6. HostsOf(s) \in HostTables
  BY <1>2, <1>5, HostTableIntro
<1>7. Valid(s) => DOMAIN HostsOf(s) # {}
  BY <1>4 DEF Valid
<1>8. QED
  BY <1>6, <1>7

--------------------------------------------------------------------------------
(* Type correctness.  Each action is taken once; Return is expanded with it. *)

LEMMA InitType == Init => TypeOK
BY ConstantsAssumption, NoHostsFacts DEF ConstantsAssumption, Init, TypeOK

LEMMA NextType ==
    ASSUME TypeOK, [Next]_vars
    PROVE  TypeOK'
<1> USE DEF TypeOK, Tasks
<1>0. NoHosts \in HostTables
  BY NoHostsFacts
<1>1. ASSUME NEW c \in Clusters, SchedulerChange(c)
      PROVE  TypeOK'
  BY <1>1, ConstantsAssumption
     DEF ConstantsAssumption, SchedulerChange, selectorVars, taskVars
<1>2. ASSUME NEW t \in Refreshers, StartRefresh(t)
      PROVE  TypeOK'
  BY <1>2 DEF StartRefresh, schedulerVars
<1>3. ASSUME NEW t \in Refreshers, ListHosts(t)
      PROVE  TypeOK'
  BY <1>3 DEF ListHosts, selectorVars, schedulerVars
<1>4. ASSUME NEW t \in Refreshers, ListUnparsable(t) \/ ListFails(t)
      PROVE  TypeOK'
  BY <1>0, <1>4 DEF ListUnparsable, ListFails, Return, schedulerVars
<1>5. ASSUME NEW t \in Refreshers, CheckHealth(t)
      PROVE  TypeOK'
  <2>1. \A f \in CollectedFrom(listed[t]) : f \in HostTables
    BY CollectedFacts
  <2>2. QED
    BY <1>5, <2>1 DEF CheckHealth, selectorVars, schedulerVars
<1>6. ASSUME NEW t \in Updaters, NEW s \in Submissions, CallUpdate(t, s)
      PROVE  TypeOK'
  <2>1. HostsOf(s) \in HostTables
    BY HostsOfFacts
  <2>2. QED
    BY <1>6, <2>1 DEF CallUpdate, selectorVars, schedulerVars
<1>7. ASSUME NEW t \in Updaters, Cancel(t)
      PROVE  TypeOK'
  BY <1>0, <1>7 DEF Cancel, Return, schedulerVars
<1>8. ASSUME NEW t \in Tasks, ReplaceRecords(t)
      PROVE  TypeOK'
  BY <1>0, <1>8 DEF ReplaceRecords, Return, StampTable, schedulerVars
<1>9. ASSUME NEW t \in Tasks, Rebuild(t)
      PROVE  TypeOK'
  BY <1>9 DEF Rebuild, selectorVars, schedulerVars
<1>10. ASSUME NEW t \in Tasks, Install(t)
       PROVE  TypeOK'
  <2>1. DOMAIN fresh[t] \in SUBSET Names
    BY HostTableFacts
  <2>2. QED
    BY <1>0, <1>10, <2>1 DEF Install, Return, StampTable, schedulerVars
<1>11. CASE UNCHANGED vars
  BY <1>11 DEF vars, selectorVars, taskVars, schedulerVars
<1>12. QED
  BY <1>1, <1>2, <1>3, <1>4, <1>5, <1>6, <1>7, <1>8, <1>9, <1>10, <1>11
     DEF Next, Refresh, Update

\* Every variable always has its type: in particular the table always keys a
\* host by its own name, however the scheduler or a caller listed it.
THEOREM TypeCorrect == Spec => []TypeOK
<1>1. Init => TypeOK
  BY InitType
<1>2. TypeOK /\ [Next]_vars => TypeOK'
  BY NextType
<1>3. QED
  BY <1>1, <1>2, PTL DEF Spec

--------------------------------------------------------------------------------
(* The inductive invariant, one lemma for each of its parts. *)

LEMMA NextInStep ==
    ASSUME InStep, [Next]_vars
    PROVE  InStep'
<1> USE DEF InStep
<1>1. ASSUME NEW t \in Tasks, ReplaceRecords(t)
      PROVE  InStep'
  BY <1>1 DEF ReplaceRecords, SameNames
<1>2. ASSUME NEW t \in Tasks, Install(t)
      PROVE  InStep'
  BY <1>2 DEF Install
<1>3. CASE UNCHANGED <<hosts, ring>>
  BY <1>3
<1>4. \/ \E t \in Tasks : ReplaceRecords(t) \/ Install(t)
      \/ UNCHANGED <<hosts, ring>>
  BY DEF Next, Refresh, Update, SchedulerChange, StartRefresh, ListHosts,
         ListUnparsable, ListFails, CheckHealth, CallUpdate, Cancel, Rebuild,
         vars, selectorVars
<1>5. QED
  BY <1>1, <1>2, <1>3, <1>4

LEMMA NextMutexOwner ==
    ASSUME TypeOK, MutexOwner, [Next]_vars
    PROVE  MutexOwner'
<1> USE ConstantsAssumption DEF ConstantsAssumption, TypeOK, MutexOwner, Tasks
<1>1. ASSUME NEW t \in Refreshers, StartRefresh(t)
      PROVE  MutexOwner'
  BY <1>1 DEF StartRefresh
<1>2. ASSUME NEW t \in Refreshers,
             ListHosts(t) \/ ListUnparsable(t) \/ ListFails(t) \/ CheckHealth(t)
      PROVE  MutexOwner'
  BY <1>2 DEF ListHosts, ListUnparsable, ListFails, CheckHealth, Return, selectorVars
<1>3. ASSUME NEW t \in Updaters,
             Cancel(t) \/ \E s \in Submissions : CallUpdate(t, s)
      PROVE  MutexOwner'
  BY <1>3 DEF Cancel, CallUpdate, Return, selectorVars
<1>4. ASSUME NEW t \in Tasks, Update(t)
      PROVE  MutexOwner'
  BY <1>4 DEF Update, ReplaceRecords, Rebuild, Install, Return, selectorVars
<1>5. CASE UNCHANGED <<selectorVars, taskVars>>
  BY <1>5 DEF selectorVars, taskVars
<1>6. QED
  BY <1>1, <1>2, <1>3, <1>4, <1>5 DEF Next, Refresh, SchedulerChange, vars

LEMMA NextSeenAfterTable ==
    ASSUME TypeOK, MutexOwner, SeenAfterTable, [Next]_vars
    PROVE  SeenAfterTable'
<1> USE DEF TypeOK, SeenAfterTable, Tasks
<1>1. ASSUME NEW c \in Clusters, SchedulerChange(c)
      PROVE  SeenAfterTable'
  BY <1>1 DEF SchedulerChange, selectorVars, taskVars
<1>2. ASSUME NEW t \in Refreshers,
             StartRefresh(t) \/ ListUnparsable(t) \/ ListFails(t) \/ CheckHealth(t)
      PROVE  SeenAfterTable'
  BY <1>2 DEF StartRefresh, ListUnparsable, ListFails, CheckHealth, Return,
              selectorVars, schedulerVars
<1>3. ASSUME NEW t \in Refreshers, ListHosts(t)
      PROVE  SeenAfterTable'
  BY <1>3 DEF ListHosts, schedulerVars
<1>4. ASSUME NEW t \in Updaters,
             Cancel(t) \/ \E s \in Submissions : CallUpdate(t, s)
      PROVE  SeenAfterTable'
  BY <1>4, ConstantsAssumption
     DEF Cancel, CallUpdate, Return, schedulerVars, ConstantsAssumption
<1>5. ASSUME NEW t \in Tasks, Rebuild(t)
      PROVE  SeenAfterTable'
  BY <1>5 DEF Rebuild, schedulerVars
\* Here the mutex matters: while a refresh replaces the table no other refresh
\* holds a listing that the new one would make stale.
<1>6. ASSUME NEW t \in Tasks, ReplaceRecords(t) \/ Install(t)
      PROVE  SeenAfterTable'
  <2>1. CASE t \in Refreshers
    <3>1. \A r \in Refreshers \ {t} : pc[r] = "idle"
      BY <1>6, <2>1 DEF MutexOwner, ReplaceRecords, Install
    <3>2. QED
      BY <1>6, <2>1, <3>1 DEF ReplaceRecords, Install, Return, StampTable, schedulerVars
  <2>2. CASE t \notin Refreshers
    BY <1>6, <2>2 DEF ReplaceRecords, Install, Return, StampTable, schedulerVars
  <2>3. QED
    BY <2>1, <2>2
<1>7. CASE UNCHANGED vars
  BY <1>7 DEF vars, taskVars, schedulerVars
<1>8. QED
  BY <1>1, <1>2, <1>3, <1>4, <1>5, <1>6, <1>7 DEF Next, Refresh, Update

LEMMA NextUpdatesBringSeedPeers ==
    ASSUME TypeOK, UpdatesBringSeedPeers, [Next]_vars
    PROVE  UpdatesBringSeedPeers'
<1> USE ConstantsAssumption
    DEF ConstantsAssumption, TypeOK, UpdatesBringSeedPeers, Tasks
<1>1. ASSUME NEW t \in Refreshers, Refresh(t)
      PROVE  UpdatesBringSeedPeers'
  BY <1>1 DEF Refresh, StartRefresh, ListHosts, ListUnparsable, ListFails,
              CheckHealth, Return
<1>2. ASSUME NEW t \in Updaters, NEW s \in Submissions, CallUpdate(t, s)
      PROVE  UpdatesBringSeedPeers'
  <2>1. DOMAIN HostsOf(s) # {}
    BY <1>2, HostsOfFacts DEF CallUpdate
  <2>2. QED
    BY <1>2, <2>1 DEF CallUpdate
<1>3. ASSUME NEW t \in Tasks, Update(t) \/ Cancel(t)
      PROVE  UpdatesBringSeedPeers'
  BY <1>3 DEF Update, ReplaceRecords, Rebuild, Install, Cancel, Return
<1>4. CASE UNCHANGED taskVars
  BY <1>4 DEF taskVars
<1>5. QED
  BY <1>1, <1>2, <1>3, <1>4 DEF Next, SchedulerChange, vars

\* IndInv holds in every reachable state.
THEOREM Invariance == Spec => []IndInv
<1>1. Init => IndInv
  BY InitType, NoHostsFacts, ConstantsAssumption
     DEF Init, IndInv, InStep, MutexOwner, SeenAfterTable, UpdatesBringSeedPeers,
         ConstantsAssumption, Tasks
<1>2. IndInv /\ [Next]_vars => IndInv'
  BY NextType, NextInStep, NextMutexOwner, NextSeenAfterTable,
     NextUpdatesBringSeedPeers DEF IndInv
<1>3. QED
  BY <1>1, <1>2, PTL DEF Spec

--------------------------------------------------------------------------------
(* The properties. *)

\* However many updates and refreshes race between the comparison and the
\* installation, the ring names exactly the hosts of the table.
THEOREM HostsAndRingInStep == Spec => []InStep
<1>1. IndInv => InStep
  BY DEF IndInv
<1>2. QED
  BY <1>1, Invariance, PTL

\* A refresh never puts an older listing over a newer one.
THEOREM RefreshesInOrder == Spec => ListingsInOrder
<1>1. IndInv /\ [Next]_vars => [tableAt' >= tableAt]_vars
  <2>1. SUFFICES ASSUME IndInv, Next
                 PROVE  tableAt' >= tableAt
    OBVIOUS
  <2>2. ASSUME NEW t \in Tasks, ReplaceRecords(t) \/ Install(t)
        PROVE  tableAt' >= tableAt
    BY <2>1, <2>2
       DEF IndInv, TypeOK, SeenAfterTable, ReplaceRecords, Install, StampTable, Tasks
  <2>3. CASE UNCHANGED tableAt
    BY <2>1, <2>3 DEF IndInv, TypeOK
  <2>4. QED
    BY <2>1, <2>2, <2>3
       DEF Next, Refresh, Update, SchedulerChange, StartRefresh, ListHosts,
           ListUnparsable, ListFails, CheckHealth, CallUpdate, Cancel, Rebuild
<1>2. QED
  BY <1>1, Invariance, PTL DEF Spec, ListingsInOrder

\* update_seed_peers never empties the table.
THEOREM UpdatesKeepSeedPeers == Spec => OnlyARefreshEmptiesTheTable
<1>1. IndInv /\ [Next]_vars
        => [hosts # NoHosts /\ hosts' = NoHosts => mutex # NoTask]_vars
  <2>1. SUFFICES ASSUME IndInv, Next, hosts # NoHosts, hosts' = NoHosts
                 PROVE  mutex # NoTask
    OBVIOUS
  <2>2. PICK t \in Tasks : ReplaceRecords(t) \/ Install(t)
    BY <2>1
       DEF Next, Refresh, Update, SchedulerChange, StartRefresh, ListHosts,
           ListUnparsable, ListFails, CheckHealth, CallUpdate, Cancel, Rebuild,
           selectorVars
  <2>3. fresh[t] = NoHosts /\ pc[t] # "idle"
    BY <2>1, <2>2 DEF ReplaceRecords, Install
  <2>4. t \in Refreshers
    BY <2>1, <2>3, NoHostsFacts DEF IndInv, UpdatesBringSeedPeers, Tasks
  <2>5. QED
    BY <2>1, <2>3, <2>4, ConstantsAssumption
       DEF IndInv, MutexOwner, ConstantsAssumption, Tasks
<1>2. QED
  BY <1>1, Invariance, PTL DEF Spec, OnlyARefreshEmptiesTheTable

--------------------------------------------------------------------------------
(* The refinement: CheckHealth and CallUpdate offer a listing, Rebuild is    *)
(* invisible, ReplaceRecords and Install take the listing over, Cancel       *)
(* abandons it, and nothing else touches the table or an offer.              *)

LEMMA InitRefines == Init => Table!Init
BY NoHostsFacts DEF Init, Table!Init, Offered

LEMMA NextRefines ==
    ASSUME IndInv, [Next]_vars
    PROVE  [Table!Next]_(Table!vars)
<1> USE DEF IndInv, TypeOK, Tasks, Offered
<1>1. ASSUME NEW t \in Refreshers,
             StartRefresh(t) \/ ListHosts(t) \/ ListUnparsable(t) \/ ListFails(t)
      PROVE  UNCHANGED Table!vars
  BY <1>1 DEF StartRefresh, ListHosts, ListUnparsable, ListFails, Return,
              selectorVars, Table!vars
<1>2. ASSUME NEW t \in Refreshers, CheckHealth(t)
      PROVE  Table!Next
  <2>1. PICK f \in CollectedFrom(listed[t]) : fresh' = [fresh EXCEPT ![t] = f]
    BY <1>2 DEF CheckHealth
  <2>2. f \in HostTables
    BY CollectedFacts
  <2>3. Table!Offer(t, f)
    BY <1>2, <2>1 DEF CheckHealth, Table!Offer, selectorVars
  <2>4. QED
    BY <2>2, <2>3 DEF Table!Next
<1>3. ASSUME NEW t \in Updaters, NEW s \in Submissions, CallUpdate(t, s)
      PROVE  Table!Next
  <2>1. HostsOf(s) \in HostTables
    BY HostsOfFacts
  <2>2. Table!Offer(t, HostsOf(s))
    BY <1>3 DEF CallUpdate, Table!Offer, selectorVars
  <2>3. QED
    BY <2>1, <2>2 DEF Table!Next
<1>4. ASSUME NEW t \in Updaters, Cancel(t)
      PROVE  Table!Next
  <2>1. Table!Abandon(t)
    BY <1>4 DEF Cancel, Return, Table!Abandon
  <2>2. QED
    BY <2>1 DEF Table!Next
<1>5. ASSUME NEW t \in Tasks, Rebuild(t)
      PROVE  UNCHANGED Table!vars
  BY <1>5 DEF Rebuild, selectorVars, Table!vars
<1>6. ASSUME NEW t \in Tasks, ReplaceRecords(t) \/ Install(t)
      PROVE  Table!Next
  <2>1. hosts' = fresh[t] /\ ring' = DOMAIN fresh[t]
    BY <1>6 DEF ReplaceRecords, Install, InStep, SameNames
  <2>2. Table!TakeOver(t)
    BY <1>6, <2>1 DEF ReplaceRecords, Install, Return, Table!TakeOver
  <2>3. QED
    BY <2>2 DEF Table!Next
<1>7. CASE UNCHANGED <<selectorVars, taskVars>>
  BY <1>7 DEF selectorVars, taskVars, Table!vars
<1>8. QED
  BY <1>1, <1>2, <1>3, <1>4, <1>5, <1>6, <1>7
     DEF Next, Refresh, Update, SchedulerChange, vars

\* The selector implements the atomic table of SeedPeerTable.
THEOREM Refinement == Spec => TableSpec
<1>1. Spec => []IndInv
  BY Invariance
<1>2. QED
  BY <1>1, InitRefines, NextRefines, PTL DEF Spec, TableSpec, Table!Spec

--------------------------------------------------------------------------------
(* ReplicaSelection. *)

\* A set of naturals that is not empty has a least element.
LEMMA LeastNatural ==
    ASSUME NEW S \in SUBSET Nat, S # {}
    PROVE  \E n \in S : \A m \in S : n <= m
<1> DEFINE R == {ss \in Nat \X Nat : ss[1] < ss[2]}
<1>1. IsWellFoundedOn(R, Nat)
  BY NatLessThanWellFounded DEF OpToRel
<1>2. PICK n \in S : \A m \in S : ~ (<<m, n>> \in R)
  <2> HIDE DEF R
  <2> QED
    BY <1>1, WFMin
<1>3. ASSUME NEW m \in S, m < n PROVE FALSE
  <2>1. <<m, n>> \in R
    BY <1>3
  <2> QED
    BY <2>1, <1>2
<1>4. \A m \in S : n <= m
  BY <1>3
<1> QED
  BY <1>4

LEMMA UpTo ==
    ASSUME NEW n \in Nat
    PROVE  IsFiniteSet(1 .. n) /\ Cardinality(1 .. n) = n
<1>1. 1 \in Int /\ n \in Int
  OBVIOUS
<1>2. IsFiniteSet(1 .. n) /\ Cardinality(1 .. n) = IF 1 > n THEN 0 ELSE n - 1 + 1
  BY <1>1, FS_Interval
<1> QED
  BY <1>2

LEMMA WalkFacts ==
    ASSUME walk \in Walks
    PROVE  /\ Len(walk) \in Nat /\ Len(walk) <= MaxVNodes
           /\ DOMAIN walk = 1 .. Len(walk)
           /\ \A i \in DOMAIN walk : walk[i] \in OnRing
BY SelectionAssumption DEF SelectionAssumption, Walks, OnRing

\* Every host on the ring has a place: that of its first virtual node.
LEMMA PlaceFacts ==
    ASSUME walk \in Walks, NEW h \in OnRing
    PROVE  /\ Place(h) \in DOMAIN walk /\ Place(h) \in Nat
           /\ walk[Place(h)] = h
           /\ \A i \in DOMAIN walk : walk[i] = h => Place(h) <= i
<1> DEFINE S == {i \in DOMAIN walk : walk[i] = h}
<1>1. DOMAIN walk = 1 .. Len(walk) /\ Len(walk) \in Nat
  BY WalkFacts
<1>2. S # {} /\ S \in SUBSET Nat
  BY <1>1 DEF OnRing
<1>3. PICK n \in S : \A m \in S : n <= m
  BY <1>2, LeastNatural
<1>4. n \in DOMAIN walk /\ walk[n] = h /\ \A j \in 1 .. n - 1 : walk[j] # h
  BY <1>1, <1>3
<1>5. Place(h) \in DOMAIN walk /\ walk[Place(h)] = h
      /\ \A j \in 1 .. Place(h) - 1 : walk[j] # h
  BY <1>4 DEF Place
<1>6. ASSUME NEW i \in DOMAIN walk, walk[i] = h PROVE Place(h) <= i
  BY <1>1, <1>5, <1>6
<1> QED
  BY <1>1, <1>5, <1>6

LEMMA PlaceInjective ==
    ASSUME walk \in Walks, NEW g \in OnRing, NEW h \in OnRing, Place(g) = Place(h)
    PROVE  g = h
BY PlaceFacts

\* The ring is finite and has no more hosts than virtual nodes.
LEMMA RingFacts ==
    ASSUME walk \in Walks
    PROVE  /\ IsFiniteSet(OnRing) /\ Cardinality(OnRing) \in Nat
           /\ Cardinality(OnRing) <= Len(walk)
           /\ OnRing # {} => Cardinality(OnRing) >= 1
<1>1. DOMAIN walk = 1 .. Len(walk) /\ Len(walk) \in Nat
  BY WalkFacts
<1>2. walk \in Surjection(1 .. Len(walk), OnRing)
  BY <1>1, WalkFacts DEF Surjection, OnRing, Walks
<1>3. IsFiniteSet(1 .. Len(walk)) /\ Cardinality(1 .. Len(walk)) = Len(walk)
  BY <1>1, UpTo
<1>4. IsFiniteSet(OnRing) /\ Cardinality(OnRing) <= Len(walk)
  BY <1>2, <1>3, FS_Surjection
<1>5. Cardinality(OnRing) \in Nat
  BY <1>4, FS_CardinalityType
<1>6. OnRing # {} => Cardinality(OnRing) # 0
  BY <1>4, FS_EmptySet
<1> QED
  BY <1>4, <1>5, <1>6

LEMMA ExpectedFacts ==
    ASSUME walk \in Walks, replicas \in 1 .. MaxReplicas
    PROVE  /\ Expected \in Nat /\ replicas \in Nat
           /\ Expected <= Cardinality(OnRing) /\ Expected <= replicas
           /\ Expected = Cardinality(OnRing) \/ Expected = replicas
           /\ OnRing # {} => Expected >= 1
BY RingFacts, SelectionAssumption DEF SelectionAssumption, Expected, Least

\* As many hosts as there are positions, when they come in the order of their places.
LEMMA NearestCounts ==
    ASSUME walk \in Walks, NEW s \in Seq(OnRing), Nearest(s), NEW k \in 0 .. Len(s)
    PROVE  /\ IsFiniteSet({s[j] : j \in 1 .. k})
           /\ Cardinality({s[j] : j \in 1 .. k}) = k
<1> DEFINE T == {s[j] : j \in 1 .. k}
           f == [j \in 1 .. k |-> s[j]]
<1>0. Len(s) \in Nat /\ DOMAIN s = 1 .. Len(s) /\ \A j \in DOMAIN s : s[j] \in OnRing
  BY LenProperties, ElementOfSeq
<1>1. ASSUME NEW i \in 1 .. k, NEW j \in 1 .. k, s[i] = s[j] PROVE i = j
  <2>1. i \in DOMAIN s /\ j \in DOMAIN s
    BY <1>0
  <2>2. \A h \in OnRing : Place(h) \in Nat
    BY PlaceFacts
  <2>3. Place(s[i]) \in Nat /\ Place(s[i]) = Place(s[j])
    BY <2>1, <2>2, <1>0, <1>1
  <2>4. ~ (Place(s[i]) < Place(s[j])) /\ ~ (Place(s[j]) < Place(s[i]))
    BY <2>3
  <2>5. ~ (i < j) /\ ~ (j < i)
    BY <2>1, <2>4 DEF Nearest
  <2> QED
    BY <2>5, <1>0
<1>2. f \in Bijection(1 .. k, T)
  BY <1>1 DEF Bijection, Injection, IsInjective, Surjection
<1>3. ExistsBijection(1 .. k, T)
  BY <1>2 DEF ExistsBijection
<1>4. k \in Nat
  BY <1>0
<1>5. Cardinality(T) = k
  BY <1>3, <1>4, FS_CountingElements
<1>6. IsFiniteSet(T)
  BY <1>3, <1>4, FS_NatBijection
<1> QED
  BY <1>5, <1>6

\* Hosts in the order of their places that leave no nearer one out: those ahead of one
\* are those before it.
LEMMA AheadIsBefore ==
    ASSUME walk \in Walks, NEW s \in Seq(OnRing), Nearest(s),
           \A g \in OnRing, k \in DOMAIN s : Place(g) < Place(s[k]) => g \in Members(s),
           NEW k \in DOMAIN s
    PROVE  Ahead(s[k]) = {s[j] : j \in 1 .. k - 1}
<1>0. Len(s) \in Nat /\ DOMAIN s = 1 .. Len(s) /\ \A j \in DOMAIN s : s[j] \in OnRing
  BY LenProperties, ElementOfSeq
<1>1. \A h \in OnRing : Place(h) \in Nat
  BY PlaceFacts
<1>2. ASSUME NEW g \in Ahead(s[k]) PROVE g \in {s[j] : j \in 1 .. k - 1}
  <2>1. g \in OnRing /\ Place(g) < Place(s[k])
    BY DEF Ahead
  <2>2. PICK j \in DOMAIN s : s[j] = g
    BY <2>1 DEF Members
  <2>3. ~ (k < j) /\ k # j
    BY <2>1, <2>2, <1>0, <1>1 DEF Nearest
  <2> QED
    BY <2>2, <2>3, <1>0
<1>3. ASSUME NEW j \in 1 .. k - 1 PROVE s[j] \in Ahead(s[k])
  <2>1. j \in DOMAIN s /\ j < k
    BY <1>0
  <2> QED
    BY <2>1, <1>0 DEF Ahead, Nearest
<1> QED
  BY <1>2, <1>3

\* Such hosts are the replicas when they are as many as expected or all there are.
LEMMA FoundAreReplicas ==
    ASSUME walk \in Walks, replicas \in 1 .. MaxReplicas,
           NEW s \in Seq(OnRing), Nearest(s), Len(s) <= Expected,
           \A g \in OnRing, k \in DOMAIN s : Place(g) < Place(s[k]) => g \in Members(s),
           Len(s) = Expected \/ Members(s) = OnRing
    PROVE  Members(s) = ReplicaSet
<1>0. Len(s) \in Nat /\ DOMAIN s = 1 .. Len(s) /\ \A j \in DOMAIN s : s[j] \in OnRing
  BY LenProperties, ElementOfSeq
<1>1. IsFiniteSet(Members(s)) /\ Cardinality(Members(s)) = Len(s)
  <2>1. Members(s) = {s[j] : j \in 1 .. Len(s)}
    BY <1>0 DEF Members
  <2>2. Len(s) \in 0 .. Len(s)
    BY <1>0
  <2> QED
    BY <2>1, <2>2, NearestCounts
<1>2. Members(s) \subseteq OnRing
  BY <1>0 DEF Members
<1>3. ASSUME NEW k \in DOMAIN s PROVE s[k] \in ReplicaSet
  <2>1. k - 1 \in 0 .. Len(s) /\ k <= Len(s)
    BY <1>0
  <2>2. Cardinality(Ahead(s[k])) = k - 1
    BY <2>1, AheadIsBefore, NearestCounts
  <2> QED
    BY <2>1, <2>2, <1>0, ExpectedFacts DEF ReplicaSet
<1>4. ASSUME NEW h \in ReplicaSet, h \notin Members(s) PROVE FALSE
  <2>1. h \in OnRing /\ Cardinality(Ahead(h)) < replicas
    BY DEF ReplicaSet
  <2>2. Members(s) # OnRing /\ Len(s) = Expected
    BY <2>1, <1>4
  <2>3. Expected # Cardinality(OnRing)
    BY <2>2, <1>1, <1>2, RingFacts, FS_Subset
  <2>4. Len(s) = replicas
    BY <2>2, <2>3, ExpectedFacts
  <2>5. ASSUME NEW k \in DOMAIN s PROVE s[k] \in Ahead(h)
    <3>1. s[k] \in OnRing /\ Place(s[k]) \in Nat /\ Place(h) \in Nat
      BY <1>0, <2>1, PlaceFacts
    <3>2. Place(s[k]) # Place(h)
      BY <3>1, <2>1, <1>4, PlaceInjective DEF Members
    <3>3. ~ (Place(h) < Place(s[k]))
      BY <2>1, <1>4
    <3> QED
      BY <3>1, <3>2, <3>3 DEF Ahead
  <2>6. Members(s) \subseteq Ahead(h)
    BY <2>5 DEF Members
  <2>7. Ahead(h) \subseteq OnRing
    BY DEF Ahead
  <2>8. IsFiniteSet(Ahead(h)) /\ Cardinality(Ahead(h)) \in Nat
    BY <2>7, RingFacts, FS_Subset, FS_CardinalityType
  <2>9. Cardinality(Members(s)) <= Cardinality(Ahead(h))
    BY <2>6, <2>8, FS_Subset
  <2> QED
    BY <2>1, <2>4, <2>8, <2>9, <1>1, ExpectedFacts
<1> QED
  BY <1>3, <1>4 DEF Members

LEMMA InputStays ==
    ASSUME UNCHANGED input
    PROVE  /\ walk' = walk /\ healthy' = healthy /\ replicas' = replicas
           /\ OnRing' = OnRing /\ Expected' = Expected
           /\ ReplicaSet' = ReplicaSet
           /\ \A h : Place(h)' = Place(h)
<1>1. walk' = walk /\ healthy' = healthy /\ replicas' = replicas
  BY DEF input
<1>2. OnRing' = OnRing
  BY <1>1 DEF OnRing
<1>3. \A h : Place(h)' = Place(h)
  BY <1>1 DEF Place
<1>4. Expected' = Expected
  BY <1>1, <1>2 DEF Expected
<1>5. \A h : Ahead(h)' = Ahead(h)
  BY <1>2, <1>3 DEF Ahead
<1>6. ReplicaSet' = ReplicaSet
  BY <1>1, <1>2, <1>5 DEF ReplicaSet
<1> QED
  BY <1>1, <1>2, <1>3, <1>4, <1>6

LEMMA NearestStays ==
    ASSUME UNCHANGED input
    PROVE  /\ Nearest(found)' <=> Nearest(found')
           /\ Nearest(result)' <=> Nearest(result')
<1>1. \A h : Place(h)' = Place(h)
  BY InputStays
<1>2. Nearest(found)' <=> Nearest(found')
  BY <1>1 DEF Nearest
<1>3. Nearest(result)' <=> Nearest(result')
  BY <1>1 DEF Nearest
<1> QED
  BY <1>2, <1>3

\* What Append does to hosts in the order of their places.
LEMMA AppendFacts ==
    ASSUME NEW S, NEW s \in Seq(S), NEW h \in S
    PROVE  /\ Append(s, h) \in Seq(S)
           /\ Len(s) \in Nat /\ Len(Append(s, h)) = Len(s) + 1
           /\ DOMAIN s = 1 .. Len(s) /\ DOMAIN Append(s, h) = 1 .. Len(s) + 1
           /\ \A i \in DOMAIN s : Append(s, h)[i] = s[i]
           /\ Append(s, h)[Len(s) + 1] = h
           /\ Members(Append(s, h)) = Members(s) \cup {h}
<1>1. /\ Append(s, h) \in Seq(S)
      /\ Len(s) \in Nat /\ Len(Append(s, h)) = Len(s) + 1
      /\ DOMAIN s = 1 .. Len(s) /\ DOMAIN Append(s, h) = 1 .. Len(s) + 1
      /\ \A i \in DOMAIN s : Append(s, h)[i] = s[i]
      /\ Append(s, h)[Len(s) + 1] = h
  OBVIOUS
<1>2. Members(Append(s, h)) \subseteq Members(s) \cup {h}
  BY <1>1 DEF Members
<1>3. Members(s) \cup {h} \subseteq Members(Append(s, h))
  BY <1>1 DEF Members
<1> QED
  BY <1>1, <1>2, <1>3

\* A host behind all the others keeps the order.
LEMMA NearestAppend ==
    ASSUME NEW S, NEW s \in Seq(S), NEW h \in S, Nearest(s),
           \A i \in DOMAIN s : Place(s[i]) < Place(h)
    PROVE  Nearest(Append(s, h))
<1> DEFINE t == Append(s, h)
<1> SUFFICES ASSUME NEW i \in DOMAIN t, NEW j \in DOMAIN t, i < j
             PROVE  Place(t[i]) < Place(t[j])
  BY DEF Nearest
<1>1. i \in DOMAIN s /\ t[i] = s[i]
  BY AppendFacts
<1>2. CASE j \in DOMAIN s
  <2>1. t[j] = s[j]
    BY <1>2, AppendFacts
  <2> HIDE DEF t
  <2> QED
    BY <1>1, <1>2, <2>1 DEF Nearest
<1>3. CASE j = Len(s) + 1
  <2>1. t[j] = h
    BY <1>3, AppendFacts
  <2> HIDE DEF t
  <2> QED
    BY <1>1, <2>1
<1> QED
  BY <1>2, <1>3, AppendFacts

LEMMA EmptyFacts == Members(<<>>) = {} /\ Nearest(<<>>)
BY DEF Members, Nearest

LEMMA SelectionInitially == SelectionInit => SelectionInv
<1> SUFFICES ASSUME SelectionInit PROVE SelectionInv
  OBVIOUS
<1>1. Len(walk) \in Nat /\ MaxVNodes \in Nat
  BY WalkFacts, SelectionAssumption DEF SelectionInit, SelectionAssumption
<1>2. SelectionTypeOK
  BY <1>1 DEF SelectionInit, SelectionTypeOK
<1> QED
  BY <1>2 DEF SelectionInit, SelectionInv, Windows, Passed, Collected, SelectsTheReplicas

LEMMA StartStep ==
    ASSUME SelectionInv, Start
    PROVE  SelectionInv'
<1> USE DEF SelectionInv
<1>0. /\ OnRing' = OnRing /\ Expected' = Expected /\ ReplicaSet' = ReplicaSet
      /\ walk' = walk /\ healthy' = healthy /\ replicas' = replicas
  BY InputStays DEF Start
<1>1. walk \in Walks /\ replicas \in 1 .. MaxReplicas /\ Len(walk) \in Nat
      /\ Len(walk) <= MaxVNodes /\ MaxVNodes \in Nat
  BY WalkFacts, SelectionAssumption DEF SelectionAssumption, SelectionTypeOK
<1>2. Expected \in Nat /\ Expected <= Len(walk)
  BY <1>1, ExpectedFacts, RingFacts
<1>3. result = <<>> /\ at = "start"
  BY DEF Collected, Start
<1>4. SelectionTypeOK'
  BY <1>0, <1>1, <1>2 DEF SelectionTypeOK, Start
<1>5. Windows'
  BY <1>0, <1>1, <1>2 DEF Windows, Start
<1>6. Passed' /\ Collected'
  BY <1>3 DEF Passed, Collected, Start
<1>7. SelectsTheReplicas'
  <2> SUFFICES ASSUME at' = "returned" PROVE SelectsTheReplicas'
    BY DEF SelectsTheReplicas
  <2>1. OnRing = {} /\ result' = <<>>
    BY <1>3 DEF Start
  <2>2. ReplicaSet' = {}
    BY <1>0, <2>1 DEF ReplicaSet
  <2> QED
    BY <2>1, <2>2 DEF SelectsTheReplicas
<1> QED
  BY <1>4, <1>5, <1>6, <1>7

LEMMA FetchStep ==
    ASSUME SelectionInv, Fetch
    PROVE  SelectionInv'
<1> USE DEF SelectionInv
<1>0. /\ OnRing' = OnRing /\ Expected' = Expected
      /\ walk' = walk /\ healthy' = healthy /\ replicas' = replicas
  BY InputStays DEF Fetch
<1>1. walk \in Walks /\ replicas \in 1 .. MaxReplicas /\ Len(walk) \in Nat
      /\ window \in Nat /\ OnRing # {} /\ result = <<>>
  BY WalkFacts, SelectionAssumption
  DEF SelectionAssumption, SelectionTypeOK, Windows, Collected, Fetch
<1>2. Expected \in Nat /\ Expected >= 1
  BY <1>1, ExpectedFacts
<1>3. PICK n \in {window, window + 1} : vnodes' = Least(n, Len(walk))
  BY DEF Fetch
<1>4. vnodes' \in 0 .. Len(walk) /\ (window <= vnodes' \/ vnodes' = Len(walk))
  BY <1>1, <1>3 DEF Least
<1>5. SelectionTypeOK'
  BY <1>0, <1>1, <1>2, <1>4 DEF SelectionTypeOK, Fetch
<1>6. Windows'
  BY <1>0, <1>1, <1>4 DEF Windows, Fetch
<1>7. Passed'
  BY <1>0, <1>2, <1>4, EmptyFacts DEF Passed, Fetch, Nearest, Members
<1>8. Collected' /\ SelectsTheReplicas'
  BY <1>1 DEF Collected, SelectsTheReplicas, Fetch
<1> QED
  BY <1>5, <1>6, <1>7, <1>8

LEMMA LookStep ==
    ASSUME SelectionInv, Look
    PROVE  SelectionInv'
<1> USE DEF SelectionInv
<1> DEFINE w == walk[next]
<1>0. /\ OnRing' = OnRing /\ Expected' = Expected
      /\ walk' = walk /\ healthy' = healthy /\ replicas' = replicas
      /\ UNCHANGED input
  BY InputStays DEF Look
<1>1. walk \in Walks /\ replicas \in 1 .. MaxReplicas /\ Len(walk) \in Nat
      /\ DOMAIN walk = 1 .. Len(walk)
      /\ next \in DOMAIN walk /\ w \in OnRing /\ next <= vnodes
      /\ vnodes \in 0 .. Len(walk) /\ result = <<>> /\ OnRing # {}
  <2>1. walk \in Walks /\ replicas \in 1 .. MaxReplicas /\ vnodes \in 0 .. Len(walk)
        /\ next \in 1 .. Len(walk) + 1
    BY DEF SelectionTypeOK
  <2>2. result = <<>> /\ OnRing # {} /\ next <= vnodes
    BY DEF Collected, Look, Windows
  <2>3. Len(walk) \in Nat /\ DOMAIN walk = 1 .. Len(walk)
    BY <2>1, WalkFacts
  <2>4. next \in DOMAIN walk
    BY <2>1, <2>2, <2>3
  <2> QED
    BY <2>1, <2>2, <2>3, <2>4, WalkFacts
<1>2. Expected \in Nat /\ Expected <= replicas /\ replicas \in Nat
  BY <1>1, ExpectedFacts
<1>3. /\ seen = {walk[i] : i \in 1 .. next - 1} /\ Members(found) = seen
      /\ Nearest(found) /\ Len(found) < Expected
      /\ found \in Seq(OnRing) /\ Len(found) \in Nat
  BY DEF Passed, Look, SelectionTypeOK
<1>4. seen' = {walk[i] : i \in 1 .. next' - 1} /\ next' = next + 1
  BY <1>1, <1>3 DEF Look
<1>5. /\ found' \in Seq(OnRing) /\ Members(found') = seen' /\ Nearest(found')
      /\ Len(found') \in Nat /\ Len(found') <= Len(found) + 1
  <2>1. CASE w \in seen
    BY <1>3, <2>1 DEF Look
  <2>2. CASE w \notin seen
    <3>1. found' = Append(found, w) /\ seen' = seen \cup {w}
      BY <1>1, <2>2 DEF Look
    <3>2. Place(w) = next
      <4>1. Place(w) \in 1 .. next /\ walk[Place(w)] = w
        BY <1>1, PlaceFacts
      <4>2. Place(w) \notin 1 .. next - 1
        BY <4>1, <1>3, <2>2
      <4> QED
        BY <4>1, <4>2, <1>1
    <3>3. ASSUME NEW k \in DOMAIN found PROVE Place(found[k]) < Place(w)
      <4>1. found[k] \in seen
        BY <1>3 DEF Members
      <4>2. PICK i \in 1 .. next - 1 : walk[i] = found[k]
        BY <4>1, <1>3
      <4>3. i \in DOMAIN walk /\ i < next
        BY <4>2, <1>1
      <4>4. Place(found[k]) \in Nat /\ Place(found[k]) <= i
        BY <4>2, <4>3, <1>1, PlaceFacts, WalkFacts
      <4> QED
        BY <4>3, <4>4, <3>2, <1>1
    <3>4. Nearest(Append(found, w))
      BY <1>1, <1>3, <3>3, NearestAppend
    <3> QED
      BY <1>1, <1>3, <3>1, <3>4, AppendFacts
  <2> QED
    BY <2>1, <2>2
<1>6. SelectionTypeOK'
  <2>1. seen' \in SUBSET OnRing
    BY <1>1 DEF Look, SelectionTypeOK
  <2> QED
    BY <1>0, <1>1, <1>2, <1>3, <1>4, <1>5, <2>1 DEF SelectionTypeOK, Look
<1>7. Windows'
  BY <1>0, <1>1 DEF Windows, Look
<1>8. Passed'
  <2>1. Nearest(found)'
    BY <1>0, <1>5, NearestStays
  <2>2. vnodes' = vnodes /\ next' <= vnodes' + 1
    BY <1>1, <1>4 DEF Look
  <2>3. at' = IF Len(found') = Expected THEN "check" ELSE "walk"
    BY DEF Look
  <2> QED
    BY <1>0, <1>2, <1>3, <1>4, <1>5, <2>1, <2>2, <2>3 DEF Passed
<1>9. Collected' /\ SelectsTheReplicas'
  BY <1>1 DEF Collected, SelectsTheReplicas, Look
<1> QED
  BY <1>6, <1>7, <1>8, <1>9

LEMMA EndOfWindowStep ==
    ASSUME SelectionInv, EndOfWindow
    PROVE  SelectionInv'
<1> USE DEF SelectionInv
<1>0. /\ OnRing' = OnRing /\ Expected' = Expected
      /\ walk' = walk /\ healthy' = healthy /\ replicas' = replicas
      /\ UNCHANGED input
  BY InputStays DEF EndOfWindow
<1>1. next \in Nat /\ vnodes \in Nat /\ result = <<>>
  BY WalkFacts DEF SelectionTypeOK, Collected, EndOfWindow
<1>2. SelectionTypeOK'
  BY <1>0 DEF SelectionTypeOK, EndOfWindow
<1>3. Windows'
  BY <1>0 DEF Windows, EndOfWindow
<1>4. Passed'
  <2>1. Nearest(found)'
    BY <1>0, NearestStays DEF Passed, EndOfWindow
  <2>2. next = vnodes + 1
    BY <1>1 DEF Passed, EndOfWindow
  <2> QED
    BY <1>0, <2>1, <2>2 DEF Passed, EndOfWindow
<1>5. Collected' /\ SelectsTheReplicas'
  BY <1>1 DEF Collected, SelectsTheReplicas, EndOfWindow
<1> QED
  BY <1>2, <1>3, <1>4, <1>5

LEMMA CheckStep ==
    ASSUME SelectionInv, Check
    PROVE  SelectionInv'
<1>0. /\ OnRing' = OnRing /\ Expected' = Expected /\ ReplicaSet' = ReplicaSet
      /\ walk' = walk /\ healthy' = healthy /\ replicas' = replicas
      /\ UNCHANGED input
  BY InputStays DEF Check
<1>1. SelectionTypeOK /\ at = "check"
  BY DEF SelectionInv, Check
<1>2. walk \in Walks /\ replicas \in 1 .. MaxReplicas
  BY <1>1 DEF SelectionTypeOK
<1>3. Len(walk) \in Nat /\ DOMAIN walk = 1 .. Len(walk) /\ Len(walk) <= MaxVNodes
      /\ MaxVNodes \in Nat
  BY <1>2, WalkFacts, SelectionAssumption DEF SelectionAssumption
<1>4. next \in 1 .. Len(walk) + 1 /\ vnodes \in 0 .. Len(walk) /\ window \in Nat
  BY <1>1, <1>3 DEF SelectionTypeOK
<1>5. result = <<>> /\ OnRing # {} /\ (window <= vnodes \/ vnodes = Len(walk))
  BY <1>1 DEF SelectionInv, Collected, Windows
<1>6. found \in Seq(OnRing) /\ DOMAIN found = 1 .. Len(found) /\ Len(found) \in Nat
  BY <1>1, LenProperties DEF SelectionTypeOK
<1>7. Expected \in Nat /\ Expected <= Cardinality(OnRing)
  BY <1>2, ExpectedFacts
<1>8. /\ seen = {walk[i] : i \in 1 .. next - 1} /\ Members(found) = seen
      /\ Nearest(found)
      /\ Len(found) = Expected \/ (Len(found) < Expected /\ next = vnodes + 1)
  BY <1>1 DEF SelectionInv, Passed
<1>9. CASE Len(found) = Expected \/ Covered
  <2>1. /\ at' = "filter" /\ next' = 1 /\ window' = window
        /\ UNCHANGED <<vnodes, seen, found, result>>
    BY <1>9 DEF Check
  <2>2. Members(found) = ReplicaSet
    <3>1. ASSUME NEW g \in OnRing, NEW k \in DOMAIN found, Place(g) < Place(found[k])
          PROVE  g \in Members(found)
      <4>1. PICK i \in 1 .. next - 1 : walk[i] = found[k]
        BY <1>8 DEF Members
      <4>2. i \in DOMAIN walk /\ i \in Nat
        BY <4>1, <1>3, <1>4
      <4>3. walk[i] \in OnRing
        BY <4>2, <1>2, WalkFacts
      <4>4. Place(found[k]) <= i /\ Place(found[k]) \in Nat
        BY <4>1, <4>2, <4>3, <1>2, PlaceFacts
      <4>5. Place(g) \in DOMAIN walk /\ walk[Place(g)] = g
        BY <1>2, PlaceFacts
      <4>6. Place(g) \in 1 .. next - 1
        BY <4>1, <4>2, <4>4, <4>5, <3>1, <1>3, <1>4
      <4> QED
        BY <4>5, <4>6, <1>8
    <3>2. Len(found) = Expected \/ Members(found) = OnRing
      <4>1. CASE Len(found) # Expected
        <5>1. next - 1 = Len(walk)
          BY <4>1, <1>9, <1>3, <1>4, <1>8 DEF Covered
        <5> QED
          BY <5>1, <1>3, <1>8 DEF OnRing
      <4> QED
        BY <4>1
    <3>3. Len(found) <= Expected
      <4>1. CASE Len(found) = Expected
        BY <4>1, <1>7
      <4>2. CASE Len(found) < Expected
        BY <4>2, <1>6, <1>7
      <4> QED
        BY <4>1, <4>2, <1>8
    <3> QED
      BY <3>1, <3>2, <3>3, <1>2, <1>6, <1>8, FoundAreReplicas
  <2>3. SelectionTypeOK'
    BY <2>1, <1>0, <1>1, <1>3 DEF SelectionTypeOK
  <2>4. Windows' /\ Passed' /\ SelectsTheReplicas'
    BY <2>1, <1>0, <1>5 DEF Windows, Passed, SelectsTheReplicas
  <2>5. Collected'
    <3>1. Nearest(found)' /\ Nearest(result)'
      BY <2>1, <1>0, <1>5, <1>8, NearestStays, EmptyFacts
    <3>2. Members(result') = {} /\ next' - 1 = 0
      BY <2>1, <1>5, EmptyFacts
    <3>3. Members(result') = {found'[i] : i \in 1 .. next' - 1} \cap healthy'
      BY <3>2
    <3>4. next' <= Len(found') + 1
      BY <2>1, <1>6
    <3> QED
      BY <3>1, <3>3, <3>4, <2>1, <2>2, <1>0 DEF Collected
  <2> QED
    BY <2>3, <2>4, <2>5 DEF SelectionInv
<1>10. CASE ~ (Len(found) = Expected \/ Covered)
  <2>1. /\ at' = "fetch" /\ window' = window * 2
        /\ UNCHANGED <<vnodes, next, seen, found, result>>
    BY <1>10 DEF Check
  <2>2. window <= vnodes /\ vnodes < Len(walk)
    <3>1. ~ (vnodes >= Len(walk))
      BY <1>10 DEF Covered
    <3>2. vnodes \in Int /\ vnodes < Len(walk)
      BY <3>1, <1>3, <1>4
    <3> QED
      BY <3>2, <1>5
  <2>3. window' \in Nat /\ window' <= 2 * Len(walk) /\ window' \in 0 .. 2 * MaxVNodes
    BY <2>1, <2>2, <1>3, <1>4
  <2>4. SelectionTypeOK'
    BY <2>1, <2>3, <1>0, <1>1 DEF SelectionTypeOK
  <2>5. Windows' /\ Passed' /\ SelectsTheReplicas'
    BY <2>1, <2>3, <1>0, <1>5 DEF Windows, Passed, SelectsTheReplicas
  <2>6. Collected'
    BY <2>1, <1>5 DEF Collected
  <2> QED
    BY <2>4, <2>5, <2>6 DEF SelectionInv
<1> QED
  BY <1>9, <1>10

LEMMA FilterStep ==
    ASSUME SelectionInv, Filter
    PROVE  SelectionInv'
<1> USE DEF SelectionInv
<1> DEFINE h == found[next]
<1>0. /\ OnRing' = OnRing /\ Expected' = Expected /\ ReplicaSet' = ReplicaSet
      /\ walk' = walk /\ healthy' = healthy /\ replicas' = replicas
      /\ UNCHANGED input
  BY InputStays DEF Filter
<1>1. walk \in Walks /\ replicas \in 1 .. MaxReplicas /\ Len(walk) \in Nat
      /\ found \in Seq(OnRing) /\ DOMAIN found = 1 .. Len(found) /\ Len(found) \in Nat
      /\ next \in DOMAIN found /\ h \in OnRing
      /\ OnRing # {} /\ at = "filter" /\ healthy \in SUBSET OnRing
      /\ result \in Seq(healthy)
  BY WalkFacts, LenProperties, ElementOfSeq DEF SelectionTypeOK, Filter, Windows
<1>2. /\ Members(found) = ReplicaSet /\ Nearest(found) /\ Nearest(result)
      /\ Members(result) = {found[i] : i \in 1 .. next - 1} \cap healthy
  BY <1>1 DEF Collected
<1>3. at' = "filter" /\ next' = next + 1 /\ UNCHANGED <<window, vnodes, seen, found>>
  BY <1>1 DEF Filter
<1>4. Len(found) <= Len(walk)
  <2>1. IsFiniteSet(Members(found)) /\ Cardinality(Members(found)) = Len(found)
    <3>1. Members(found) = {found[j] : j \in 1 .. Len(found)} /\ Len(found) \in 0 .. Len(found)
      BY <1>1 DEF Members
    <3> QED
      BY <3>1, <1>1, <1>2, NearestCounts
  <2>2. Members(found) \subseteq OnRing
    BY <1>1 DEF Members
  <2> QED
    BY <2>1, <2>2, <1>1, RingFacts, FS_Subset
<1>5. {found[i] : i \in 1 .. next' - 1} = {found[i] : i \in 1 .. next - 1} \cup {h}
  <2>1. next \in Nat \ {0} /\ next' - 1 = next
    BY <1>1, <1>3
  <2>2. 1 .. next' - 1 = (1 .. next - 1) \cup {next}
    BY <2>1
  <2> QED
    BY <2>2
<1>6. /\ result' \in Seq(healthy) /\ Nearest(result')
      /\ Members(result') = {found[i] : i \in 1 .. next' - 1} \cap healthy
  <2>1. CASE h \notin healthy
    BY <2>1, <1>1, <1>2, <1>5 DEF Filter
  <2>2. CASE h \in healthy
    <3>1. result' = Append(result, h)
      BY <2>2 DEF Filter
    <3>2. ASSUME NEW k \in DOMAIN result PROVE Place(result[k]) < Place(h)
      <4>1. PICK i \in 1 .. next - 1 : found[i] = result[k]
        BY <1>2 DEF Members
      <4>2. i \in DOMAIN found /\ i < next
        BY <4>1, <1>1
      <4> QED
        BY <4>1, <4>2, <1>1, <1>2 DEF Nearest
    <3>3. Nearest(Append(result, h))
      BY <2>2, <3>2, <1>1, <1>2, NearestAppend
    <3>4. Members(result') = Members(result) \cup {h} /\ result' \in Seq(healthy)
      BY <2>2, <3>1, <1>1, AppendFacts
    <3> QED
      BY <3>1, <3>3, <3>4, <2>2, <1>2, <1>5
  <2> QED
    BY <2>1, <2>2
<1>7. SelectionTypeOK'
  BY <1>0, <1>1, <1>3, <1>4, <1>6 DEF SelectionTypeOK
<1>8. Windows' /\ Passed' /\ SelectsTheReplicas'
  BY <1>0, <1>1, <1>3 DEF Windows, Passed, SelectsTheReplicas
<1>9. Collected'
  <2>1. Nearest(found)' /\ Nearest(result)'
    BY <1>0, <1>2, <1>3, <1>6, NearestStays
  <2>2. next' <= Len(found') + 1
    BY <1>1, <1>3
  <2> QED
    BY <2>1, <2>2, <1>0, <1>2, <1>3, <1>6 DEF Collected
<1> QED
  BY <1>7, <1>8, <1>9

LEMMA ReturnStep ==
    ASSUME SelectionInv, ReturnSelected
    PROVE  SelectionInv'
<1> USE DEF SelectionInv
<1>0. /\ OnRing' = OnRing /\ Expected' = Expected /\ ReplicaSet' = ReplicaSet
      /\ walk' = walk /\ healthy' = healthy /\ replicas' = replicas
      /\ UNCHANGED input
  BY InputStays DEF ReturnSelected
<1>1. /\ at' = "returned" /\ UNCHANGED <<window, vnodes, next, seen, found, result>>
      /\ at = "filter" /\ next > Len(found)
  BY DEF ReturnSelected
<1>2. /\ Members(found) = ReplicaSet /\ Nearest(result)
      /\ Members(result) = {found[i] : i \in 1 .. next - 1} \cap healthy
      /\ next <= Len(found) + 1
  BY <1>1 DEF Collected
<1>3. DOMAIN found = 1 .. Len(found) /\ Len(found) \in Nat /\ next \in Nat
  BY WalkFacts, LenProperties DEF SelectionTypeOK
<1>4. Members(result) = ReplicaSet \cap healthy
  <2>1. next - 1 = Len(found)
    BY <1>1, <1>2, <1>3
  <2>2. Members(found) = {found[i] : i \in 1 .. next - 1}
    BY <2>1, <1>3 DEF Members
  <2> QED
    BY <2>2, <1>2
<1>5. SelectionTypeOK'
  BY <1>0, <1>1 DEF SelectionTypeOK
<1>6. Windows' /\ Passed' /\ Collected'
  BY <1>1 DEF Windows, Passed, Collected
<1>7. SelectsTheReplicas'
  <2>1. Nearest(result)'
    BY <1>0, <1>1, <1>2, NearestStays
  <2>2. Members(result') = ReplicaSet' \cap healthy'
    BY <1>0, <1>1, <1>4
  <2> QED
    BY <2>1, <2>2 DEF SelectsTheReplicas, Nearest, Members
<1> QED
  BY <1>5, <1>6, <1>7

LEMMA SelectionStutters ==
    ASSUME SelectionInv, UNCHANGED selectionVars
    PROVE  SelectionInv'
<1> USE DEF SelectionInv
<1>0. /\ OnRing' = OnRing /\ Expected' = Expected /\ ReplicaSet' = ReplicaSet
      /\ UNCHANGED <<walk, healthy, replicas, at, window, vnodes, next, seen, found, result>>
      /\ UNCHANGED input /\ \A h : Place(h)' = Place(h)
  BY InputStays DEF selectionVars, input
<1>1. SelectionTypeOK'
  BY <1>0 DEF SelectionTypeOK
<1>2. Windows'
  BY <1>0 DEF Windows
<1>3. (Nearest(found)' <=> Nearest(found)) /\ (Nearest(result)' <=> Nearest(result))
  BY <1>0, NearestStays
<1>4. Passed'
  BY <1>0, <1>3 DEF Passed
<1>5. Collected'
  BY <1>0, <1>3 DEF Collected
<1>6. SelectsTheReplicas'
  BY <1>0 DEF SelectsTheReplicas
<1> QED
  BY <1>1, <1>2, <1>4, <1>5, <1>6

LEMMA SelectionStepwise == SelectionInv /\ [SelectionNext]_selectionVars => SelectionInv'
BY StartStep, FetchStep, LookStep, EndOfWindowStep, CheckStep, FilterStep, ReturnStep,
   SelectionStutters
DEF SelectionNext, Select, Done

\* The walk keeps to SelectionInv on every ring.
THEOREM SelectionInvariant == SelectionSpec => []SelectionInv
<1>1. SelectionInit => SelectionInv
  BY SelectionInitially
<1>2. SelectionInv /\ [SelectionNext]_selectionVars => SelectionInv'
  BY SelectionStepwise
<1> QED
  BY <1>1, <1>2, PTL DEF SelectionSpec

\* Every variable of the walk has its type in every reachable state.
THEOREM SelectionTypeCorrect == SelectionSpec => []SelectionTypeOK
<1>1. SelectionInv => SelectionTypeOK
  BY DEF SelectionInv
<1> QED
  BY <1>1, SelectionInvariant, PTL

\* A task is served by exactly the healthy ones among its replicas.
THEOREM SelectsTheReplicasHolds == SelectionSpec => []SelectsTheReplicas
<1>1. SelectionInv => SelectsTheReplicas
  BY DEF SelectionInv
<1> QED
  BY <1>1, SelectionInvariant, PTL

--------------------------------------------------------------------------------
(* ProxyLifecycle. *)

LEMMA ConfigFacts ==
    ASSUME LifecycleTypeOK, NEW p \in Proxies
    PROVE  /\ config[p] \in Configs
           /\ config[p].of \in {"scheduler", "seed peers", "endpoints"}
           /\ config[p].given \in Seq(ToSet(config[p].given))
           /\ DOMAIN config[p].given = 1 .. Len(config[p].given)
           /\ Len(config[p].given) \in Nat
<1>1. config[p] \in Configs
  BY DEF LifecycleTypeOK
<1>2. /\ config[p].of \in {"scheduler", "seed peers", "endpoints"}
      /\ config[p].given \in Seq(ToSet(config[p].given))
  BY <1>1, ConfigsAssumption DEF ConfigsAssumption
<1> QED
  BY <1>1, <1>2, LenProperties

LEMMA LifecycleInitially == LifecycleInit => LifecycleInv
BY DEF LifecycleInit, LifecycleInv, LifecycleTypeOK, Staged, Fit, BuiltIsUsable

\* A move of a build leaves the other builds alone, and is of a living process.
LEMMA MoveFacts ==
    ASSUME LifecycleTypeOK, NEW p \in Proxies, NEW from, NEW to, Move(p, from, to)
    PROVE  /\ build[p] = from /\ build'[p] = to
           /\ \A q \in Proxies : q # p => build'[q] = build[q]
           /\ DOMAIN build' = Proxies /\ build' = [build EXCEPT ![p] = to]
BY DEF LifecycleTypeOK, Move

\* A step that changes a build and nothing it has come with, to a stage it is fit for.
LEMMA MoveStep ==
    ASSUME LifecycleInv, NEW p \in Proxies, NEW from, NEW to, Move(p, from, to),
           UNCHANGED <<config, known, clients, services>>,
           to \in {"connecting", "refreshing", "clients", "ok", "failed"},
           to \in {"connecting", "refreshing"} => config[p].of = "scheduler",
           to = "clients" => config[p].of = "endpoints" /\ config[p].given # <<>>,
           to \in {"connecting", "refreshing", "clients"} => service[p] = "none",
           to = "ok" =>
            IF config[p].of = "endpoints"
            THEN clients[p] = ToSet(config[p].given) /\ clients[p] # {}
            ELSE known[p] /\ (config[p].of = "scheduler" <=> service[p] # "none")
    PROVE  LifecycleInv'
<1>1. /\ build[p] = from /\ build'[p] = to /\ build' = [build EXCEPT ![p] = to]
      /\ \A q \in Proxies : q # p => build'[q] = build[q]
  BY MoveFacts DEF LifecycleInv
<1>2. UNCHANGED <<config, known, clients, service, due, heard, caught, killed>>
  BY DEF services
<1>3. LifecycleTypeOK'
  BY <1>1, <1>2 DEF LifecycleInv, LifecycleTypeOK
<1>4. Staged'
  BY <1>1, <1>2 DEF LifecycleInv, Staged, Fit
<1>5. BuiltIsUsable'
  BY <1>1, <1>2 DEF LifecycleInv, BuiltIsUsable
<1> QED
  BY <1>3, <1>4, <1>5 DEF LifecycleInv

LEMMA BuildStep ==
    ASSUME LifecycleInv, NEW p \in Proxies, Build(p)
    PROVE  LifecycleInv'
<1>1. CASE config[p].of = "scheduler" /\ Move(p, "idle", "connecting")
  <2>1. service[p] = "none"
    BY <1>1, MoveFacts DEF LifecycleInv, Staged, Fit
  <2> QED
    BY <1>1, <2>1, MoveStep DEF Build
<1>2. CASE /\ config[p].of = "endpoints" /\ ValidEndpoints(config[p])
           /\ Move(p, "idle", "clients")
  <2>1. service[p] = "none"
    BY <1>2, MoveFacts DEF LifecycleInv, Staged, Fit
  <2> QED
    BY <1>2, <2>1, MoveStep DEF Build, ValidEndpoints
<1> QED
  BY <1>1, <1>2 DEF Build

LEMMA ConnectStep ==
    ASSUME LifecycleInv, NEW p \in Proxies, Connect(p)
    PROVE  LifecycleInv'
<1>1. Move(p, "connecting", "refreshing")
  BY DEF Connect
<1>2. config[p].of = "scheduler" /\ service[p] = "none"
  BY <1>1, MoveFacts DEF LifecycleInv, Staged, Fit
<1> QED
  BY <1>1, <1>2, MoveStep DEF Connect

LEMMA BuildProxyStep ==
    ASSUME LifecycleInv, NEW p \in Proxies, BuildProxy(p)
    PROVE  LifecycleInv'
<1>1. Move(p, "assembling", "ok")
  BY DEF BuildProxy
<1>2. /\ config[p].of # "endpoints" /\ known[p]
      /\ (config[p].of = "scheduler" <=> service[p] # "none")
  BY <1>1, MoveFacts DEF LifecycleInv, Staged, Fit
<1> QED
  BY <1>1, <1>2, MoveStep DEF BuildProxy

LEMMA BuildWithEndpointsStep ==
    ASSUME LifecycleInv, NEW p \in Proxies, BuildWithEndpoints(p)
    PROVE  LifecycleInv'
<1>1. Move(p, "clients", "ok") /\ Missing(p) = {}
  BY DEF BuildWithEndpoints
<1>2. config[p].of = "endpoints" /\ config[p].given # <<>>
  BY <1>1, MoveFacts DEF LifecycleInv, Staged, Fit
<1>3. clients[p] \subseteq ToSet(config[p].given)
  BY DEF LifecycleInv, Staged, Fit
<1>4. ToSet(config[p].given) \subseteq clients[p]
  BY <1>1 DEF Missing, ToSet
<1>5. ToSet(config[p].given) # {}
  <2>1. Len(config[p].given) \in Nat \ {0}
    BY <1>2, ConfigFacts, EmptySeq DEF LifecycleInv
  <2>2. DOMAIN config[p].given = 1 .. Len(config[p].given)
    BY ConfigFacts DEF LifecycleInv
  <2>3. 1 \in DOMAIN config[p].given
    BY <2>1, <2>2
  <2> QED
    BY <2>3 DEF ToSet
<1>6. clients[p] = ToSet(config[p].given) /\ clients[p] # {}
  BY <1>3, <1>4, <1>5
<1> QED
  BY <1>1, <1>2, <1>6, MoveStep DEF BuildWithEndpoints

LEMMA FailStep ==
    ASSUME LifecycleInv, NEW p \in Proxies, Fail(p)
    PROVE  LifecycleInv'
BY MoveStep DEF Fail

LEMMA BuildWithSeedPeersStep ==
    ASSUME LifecycleInv, NEW p \in Proxies, BuildWithSeedPeers(p)
    PROVE  LifecycleInv'
<1>1. /\ build[p] = "idle" /\ build' = [build EXCEPT ![p] = "assembling"]
      /\ build'[p] = "assembling"
      /\ \A q \in Proxies : q # p => build'[q] = build[q]
  BY MoveFacts DEF LifecycleInv, BuildWithSeedPeers
<1>2. /\ known' = [known EXCEPT ![p] = TRUE] /\ config[p].of = "seed peers"
      /\ UNCHANGED <<config, clients, service, due, heard, caught, killed>>
  BY DEF BuildWithSeedPeers, services
<1>3. service[p] = "none"
  BY <1>1 DEF LifecycleInv, Staged, Fit
<1>4. known \in [Proxies -> BOOLEAN]
  BY DEF LifecycleInv, LifecycleTypeOK
<1>5. known'[p] = TRUE /\ \A q \in Proxies : q # p => known'[q] = known[q]
  BY <1>2, <1>4
<1>6. LifecycleTypeOK'
  BY <1>1, <1>2 DEF LifecycleInv, LifecycleTypeOK
<1>7. Staged'
  <2>1. ASSUME NEW q \in Proxies, q # p PROVE Fit(q)'
    <3>1. Fit(q)
      BY DEF LifecycleInv, Staged
    <3>2. build'[q] = build[q] /\ known'[q] = known[q]
          /\ UNCHANGED <<config, clients, service>>
      BY <2>1, <1>1, <1>2, <1>5
    <3> QED
      BY <3>1, <3>2 DEF Fit
  <2>2. Fit(p)'
    <3>1. clients[p] \subseteq ToSet(config[p].given)
      BY DEF LifecycleInv, Staged, Fit
    <3> QED
      BY <3>1, <1>1, <1>2, <1>3, <1>5 DEF Fit
  <2> QED
    BY <2>1, <2>2 DEF Staged
<1>8. BuiltIsUsable'
  BY <1>1, <1>2, <1>3, <1>5 DEF LifecycleInv, BuiltIsUsable
<1> QED
  BY <1>6, <1>7, <1>8 DEF LifecycleInv

LEMMA SpawnStep ==
    ASSUME LifecycleInv, NEW p \in Proxies, Spawn(p)
    PROVE  LifecycleInv'
<1>1. /\ build[p] = "refreshing" /\ build' = [build EXCEPT ![p] = "assembling"]
      /\ build'[p] = "assembling"
      /\ \A q \in Proxies : q # p => build'[q] = build[q]
  BY MoveFacts DEF LifecycleInv, Spawn
<1>2. /\ known' = [known EXCEPT ![p] = TRUE]
      /\ service' = [service EXCEPT ![p] = "round"]
      /\ due' = [due EXCEPT ![p] = TRUE]
      /\ UNCHANGED <<config, clients, heard, caught, killed>>
  BY DEF Spawn
<1>3. config[p].of = "scheduler"
  BY <1>1 DEF LifecycleInv, Staged, Fit
<1>4. /\ known \in [Proxies -> BOOLEAN]
      /\ DOMAIN service = Proxies
  BY DEF LifecycleInv, LifecycleTypeOK
<1>5. /\ known'[p] = TRUE /\ \A q \in Proxies : q # p => known'[q] = known[q]
      /\ service'[p] = "round" /\ \A q \in Proxies : q # p => service'[q] = service[q]
  BY <1>2, <1>4
<1>6. LifecycleTypeOK'
  BY <1>1, <1>2 DEF LifecycleInv, LifecycleTypeOK
<1>7. Staged'
  BY <1>1, <1>2, <1>3, <1>5 DEF LifecycleInv, Staged, Fit
<1>8. BuiltIsUsable'
  BY <1>1, <1>2, <1>3, <1>5 DEF LifecycleInv, BuiltIsUsable
<1> QED
  BY <1>6, <1>7, <1>8 DEF LifecycleInv

LEMMA MakeClientStep ==
    ASSUME LifecycleInv, NEW p \in Proxies, MakeClient(p)
    PROVE  LifecycleInv'
<1> DEFINE Given == UNION {ToSet(c.given) : c \in Configs}
<1>1. PICK i \in Missing(p) :
            clients' = [clients EXCEPT ![p] = @ \cup {config[p].given[i]}]
  BY DEF MakeClient
<1>2. /\ build[p] = "clients" /\ build' = [build EXCEPT ![p] = "clients"]
      /\ \A q \in Proxies : build'[q] = build[q]
  BY MoveFacts DEF LifecycleInv, MakeClient
<1>3. UNCHANGED <<config, known, service, due, heard, caught, killed>>
  BY DEF MakeClient, services
<1>4. config[p].given[i] \in ToSet(config[p].given)
  BY DEF Missing, ToSet
<1>5. clients \in [Proxies -> SUBSET Given] /\ config[p] \in Configs
  BY ConfigFacts DEF LifecycleInv, LifecycleTypeOK
<1>6. config[p].given[i] \in Given
  BY <1>4, <1>5
<1>7. clients' \in [Proxies -> SUBSET Given]
  <2> HIDE DEF Given
  <2> QED
    BY <1>1, <1>5, <1>6
<1>8. /\ clients'[p] = clients[p] \cup {config[p].given[i]}
      /\ \A q \in Proxies : q # p => clients'[q] = clients[q]
  BY <1>1, <1>5
<1>9. LifecycleTypeOK'
  BY <1>2, <1>3, <1>7 DEF LifecycleInv, LifecycleTypeOK
<1>10. Staged'
  BY <1>2, <1>3, <1>4, <1>8 DEF LifecycleInv, Staged, Fit
<1>11. BuiltIsUsable'
  BY <1>2, <1>3, <1>8 DEF LifecycleInv, BuiltIsUsable
<1> QED
  BY <1>9, <1>10, <1>11 DEF LifecycleInv

\* A step of the services: it starts none and leaves what a build has come with.
LEMMA ServiceStep ==
    ASSUME LifecycleInv, UNCHANGED builders, LifecycleTypeOK',
           \A p \in Proxies : service'[p] = "none" <=> service[p] = "none"
    PROVE  LifecycleInv'
<1>1. UNCHANGED <<build, config, known, clients>>
  BY DEF builders
<1>2. Staged'
  BY <1>1 DEF LifecycleInv, Staged, Fit
<1>3. BuiltIsUsable'
  BY <1>1 DEF LifecycleInv, BuiltIsUsable
<1> QED
  BY <1>2, <1>3 DEF LifecycleInv

LEMMA ElapseStep ==
    ASSUME LifecycleInv, NEW p \in Proxies, Elapse(p)
    PROVE  LifecycleInv'
<1>1. LifecycleTypeOK'
  BY DEF LifecycleInv, LifecycleTypeOK, Elapse, builders
<1> QED
  BY <1>1, ServiceStep DEF Elapse

LEMMA RoundStep ==
    ASSUME LifecycleInv, NEW p \in Proxies, Round(p)
    PROVE  LifecycleInv'
<1>1. service \in [Proxies -> {"none", "round", "listening", "refreshing", "stopped"}]
      /\ caught \in BOOLEAN
  BY DEF LifecycleInv, LifecycleTypeOK
<1>2. PICK to \in {"refreshing", "listening"} : service' = [service EXCEPT ![p] = to]
  BY DEF Round
<1>3. caught' \in BOOLEAN
  BY <1>1 DEF Round
<1>4. LifecycleTypeOK'
  BY <1>2, <1>3 DEF LifecycleInv, LifecycleTypeOK, Round, builders
<1>5. \A q \in Proxies : service'[q] = "none" <=> service[q] = "none"
  BY <1>1, <1>2 DEF Round
<1> QED
  BY <1>4, <1>5, ServiceStep DEF Round

LEMMA TickStep ==
    ASSUME LifecycleInv, NEW p \in Proxies, Tick(p)
    PROVE  LifecycleInv'
<1>1. LifecycleTypeOK'
  BY DEF LifecycleInv, LifecycleTypeOK, Tick, builders
<1>2. \A q \in Proxies : service'[q] = "none" <=> service[q] = "none"
  BY DEF LifecycleInv, LifecycleTypeOK, Tick
<1> QED
  BY <1>1, <1>2, ServiceStep DEF Tick

LEMMA StopStep ==
    ASSUME LifecycleInv, NEW p \in Proxies, Stop(p)
    PROVE  LifecycleInv'
<1>1. LifecycleTypeOK'
  BY DEF LifecycleInv, LifecycleTypeOK, Stop, builders
<1>2. \A q \in Proxies : service'[q] = "none" <=> service[q] = "none"
  BY DEF LifecycleInv, LifecycleTypeOK, Stop
<1> QED
  BY <1>1, <1>2, ServiceStep DEF Stop

LEMMA RefreshEndsStep ==
    ASSUME LifecycleInv, NEW p \in Proxies, RefreshEnds(p)
    PROVE  LifecycleInv'
<1>1. LifecycleTypeOK'
  BY DEF LifecycleInv, LifecycleTypeOK, RefreshEnds, builders
<1>2. \A q \in Proxies : service'[q] = "none" <=> service[q] = "none"
  BY DEF LifecycleInv, LifecycleTypeOK, RefreshEnds
<1> QED
  BY <1>1, <1>2, ServiceStep DEF RefreshEnds

LEMMA SignalStep ==
    ASSUME LifecycleInv, Signal
    PROVE  LifecycleInv'
<1>1. heard' \in [Proxies -> BOOLEAN] /\ killed' \in BOOLEAN
  BY DEF LifecycleInv, LifecycleTypeOK, Signal
<1>2. LifecycleTypeOK'
  BY <1>1 DEF LifecycleInv, LifecycleTypeOK, Signal, builders
<1> QED
  BY <1>2, ServiceStep DEF Signal

LEMMA LifecycleStutters ==
    ASSUME LifecycleInv, UNCHANGED lifecycleVars
    PROVE  LifecycleInv'
<1>1. LifecycleTypeOK'
  BY DEF LifecycleInv, LifecycleTypeOK, lifecycleVars, builders, services
<1> QED
  BY <1>1, ServiceStep DEF lifecycleVars, services

LEMMA LifecycleStepwise == LifecycleInv /\ [LifecycleNext]_lifecycleVars => LifecycleInv'
BY BuildStep, BuildWithSeedPeersStep, ConnectStep, SpawnStep, BuildProxyStep,
   MakeClientStep, BuildWithEndpointsStep, FailStep, ElapseStep, RoundStep, TickStep,
   StopStep, RefreshEndsStep, SignalStep, LifecycleStutters
DEF LifecycleNext

\* What each stage of a build has come with.
THEOREM LifecycleInvariant == LifecycleSpec => []LifecycleInv
<1>1. LifecycleInit => LifecycleInv
  BY LifecycleInitially
<1>2. LifecycleInv /\ [LifecycleNext]_lifecycleVars => LifecycleInv'
  BY LifecycleStepwise
<1> QED
  BY <1>1, <1>2, PTL DEF LifecycleSpec

\* A proxy that was built has what its requests need.
THEOREM BuiltIsUsableHolds == LifecycleSpec => []BuiltIsUsable
<1>1. LifecycleInv => BuiltIsUsable
  BY DEF LifecycleInv
<1> QED
  BY <1>1, LifecycleInvariant, PTL
================================================================================
