---------------------------- MODULE ReplicaSelection ----------------------------
(***************************************************************************)
(* Selecting the replicas of a task (rust/src/selector.rs, select): walk   *)
(* the ring clockwise from the task's position, in a window that doubles   *)
(* until enough different seed peers are found or the ring is covered,     *)
(* then keep the healthy ones.                                             *)
(*                                                                         *)
(* The selector is read-locked throughout, so its table is constant here,  *)
(* and its ring names exactly its hosts (HostsAndRingInStep of             *)
(* SelectorProofs).  The ring is external: it is given as the names of its *)
(* virtual nodes in the order of the walk.                                 *)
(***************************************************************************)
EXTENDS Integers, Sequences, FiniteSets

CONSTANTS
    HostNames,
    MaxVNodes,      \* virtual nodes on the ring at most (bounds the model)
    MaxReplicas     \* replicas asked for at most (bounds the model)

ASSUME SelectionAssumption ==
    /\ IsFiniteSet(HostNames)
    /\ MaxVNodes \in Nat
    /\ MaxReplicas \in Nat

VARIABLES
    walk,           \* the ring from the position of the task on
    healthy,        \* the healthy hosts
    replicas,       \* asked for
    at,
    window,         \* virtual nodes to ask the ring for
    vnodes,         \* virtual nodes it gave
    next,           \* the one to look at next; in the end, the host found to look at
    seen,
    found,          \* replica_seed_peers
    result          \* the hosts selected, none being HostNotFound

input == <<walk, healthy, replicas>>
selectionVars == <<input, at, window, vnodes, next, seen, found, result>>

Walks == UNION {[1 .. n -> HostNames] : n \in 0 .. MaxVNodes}

OnRing == {walk[i] : i \in DOMAIN walk}

Least(a, b) == IF a < b THEN a ELSE b

SelectionTypeOK ==
    /\ walk \in Walks
    /\ healthy \in SUBSET OnRing
    /\ replicas \in 1 .. MaxReplicas
    /\ at \in {"start", "fetch", "walk", "check", "filter", "returned"}
    /\ window \in 0 .. 2 * MaxVNodes
    /\ vnodes \in 0 .. Len(walk)
    /\ next \in 1 .. Len(walk) + 1
    /\ seen \in SUBSET OnRing
    /\ found \in Seq(OnRing) /\ Len(found) <= replicas
    /\ result \in Seq(healthy)

SelectionInit ==
    /\ walk \in Walks
    /\ healthy \in SUBSET OnRing
    /\ replicas \in 1 .. MaxReplicas
    /\ at = "start"
    /\ window = 0
    /\ vnodes = 0
    /\ next = 1
    /\ seen = {}
    /\ found = <<>>
    /\ result = <<>>

--------------------------------------------------------------------------------

Expected == Least(replicas, Cardinality(OnRing))

Start ==
    /\ at = "start"
    /\ IF OnRing = {}
       THEN at' = "returned" /\ UNCHANGED window
       ELSE at' = "fetch" /\ window' = Expected * 2
    /\ UNCHANGED <<input, vnodes, next, seen, found, result>>

\* get_with_replicas gives the virtual node of the task and those after it, up to
\* the window, whether or not it counts the first, and no more than there are.
Fetch ==
    /\ at = "fetch"
    /\ at' = "walk"
    /\ \E n \in {window, window + 1} : vnodes' = Least(n, Len(walk))
    /\ next' = 1
    /\ seen' = {}
    /\ found' = <<>>
    /\ UNCHANGED <<input, window, result>>

\* Mutant: unhealthy seed peers do not count as replicas.
LookSkippingUnhealthy ==
    /\ at = "walk"
    /\ next <= vnodes
    /\ next' = next + 1
    /\ seen' = seen \cup {walk[next]}
    /\ found' = IF walk[next] \in seen \/ walk[next] \notin healthy
                THEN found ELSE Append(found, walk[next])
    /\ at' = IF Len(found') = Expected THEN "check" ELSE at
    /\ UNCHANGED <<input, window, vnodes, result>>

\* Look at one virtual node; stop at the last replica expected.
Look ==
    /\ at = "walk"
    /\ next <= vnodes
    /\ next' = next + 1
    /\ seen' = seen \cup {walk[next]}
    /\ found' = IF walk[next] \in seen \/ walk[next] \notin OnRing
                THEN found ELSE Append(found, walk[next])
    /\ at' = IF Len(found') = Expected THEN "check" ELSE at
    /\ UNCHANGED <<input, window, vnodes, result>>

EndOfWindow ==
    /\ at = "walk"
    /\ next > vnodes
    /\ at' = "check"
    /\ UNCHANGED <<input, window, vnodes, next, seen, found, result>>

Covered == vnodes >= Len(walk)

\* Mutant: the window is not grown.
CheckWithoutGrowing ==
    /\ at = "check"
    /\ IF Len(found) = Expected \/ Covered
       THEN at' = "filter" /\ next' = 1
       ELSE at' = "fetch" /\ UNCHANGED next
    /\ UNCHANGED <<input, window, vnodes, seen, found, result>>

Check ==
    /\ at = "check"
    /\ IF Len(found) = Expected \/ Covered
       THEN at' = "filter" /\ next' = 1 /\ UNCHANGED window
       ELSE at' = "fetch" /\ window' = window * 2 /\ UNCHANGED next
    /\ UNCHANGED <<input, vnodes, seen, found, result>>

\* One host found after another, the healthy ones are collected.
Filter ==
    /\ at = "filter"
    /\ next <= Len(found)
    /\ next' = next + 1
    /\ result' = IF found[next] \in healthy THEN Append(result, found[next]) ELSE result
    /\ UNCHANGED <<input, at, window, vnodes, seen, found>>

ReturnSelected ==
    /\ at = "filter"
    /\ next > Len(found)
    /\ at' = "returned"
    /\ UNCHANGED <<input, window, vnodes, next, seen, found, result>>

\* The selection has returned.
Done == at = "returned" /\ UNCHANGED selectionVars

Select == Start \/ Fetch \/ Look \/ EndOfWindow \/ Check \/ Filter \/ ReturnSelected

SelectionNext == Select \/ Done

\* The walk is a loop without waiting.
SelectionSpec == SelectionInit /\ [][SelectionNext]_selectionVars /\ WF_selectionVars(Select)

--------------------------------------------------------------------------------
(* What is selected, said without a walk: a host's place is that of its first
   virtual node, and the replicas are the hosts in the first places. *)

Place(h) == CHOOSE i \in DOMAIN walk : walk[i] = h /\ \A j \in 1 .. i - 1 : walk[j] # h

Ahead(h) == {g \in OnRing : Place(g) < Place(h)}

ReplicaSet == {h \in OnRing : Cardinality(Ahead(h)) < replicas}

\* A task is served by exactly the healthy ones among its replicas, nearest first,
\* whatever the windows were; an unhealthy replica is not replaced by another host
\* (selector.rs:187-197).
SelectsTheReplicas ==
    at = "returned" =>
        /\ {result[i] : i \in DOMAIN result} = ReplicaSet \cap healthy
        /\ \A i, j \in DOMAIN result : i < j => Place(result[i]) < Place(result[j])

\* The inductive invariant behind it.  A window is as wide as it was asked for or
\* covers the ring; what is found is what the walk has passed, each host once, nearest
\* first; after the walk it is the replicas, of which the healthy ones are collected in
\* this order.
Windows ==
    /\ at \in {"fetch", "walk", "check", "filter"} => OnRing # {}
    /\ at = "fetch" => window <= 2 * Len(walk)
    /\ at \in {"walk", "check"} => window <= vnodes \/ vnodes = Len(walk)

Nearest(hosts) == \A i, j \in DOMAIN hosts : i < j => Place(hosts[i]) < Place(hosts[j])

Members(hosts) == {hosts[i] : i \in DOMAIN hosts}

Passed ==
    at \in {"walk", "check"} =>
        /\ next <= vnodes + 1
        /\ seen = {walk[i] : i \in 1 .. next - 1}
        /\ Members(found) = seen
        /\ Nearest(found)
        /\ IF at = "walk" THEN Len(found) < Expected
           ELSE Len(found) = Expected \/ (Len(found) < Expected /\ next = vnodes + 1)

Collected ==
    IF at = "filter"
    THEN /\ Members(found) = ReplicaSet
         /\ Nearest(found)
         /\ Members(result) = {found[i] : i \in 1 .. next - 1} \cap healthy
         /\ Nearest(result)
         /\ next <= Len(found) + 1
    ELSE at # "returned" => result = <<>>

SelectionInv == SelectionTypeOK /\ Windows /\ Passed /\ Collected /\ SelectsTheReplicas

\* The walk ends on every ring.
SelectReturns == <>(at = "returned")
================================================================================
