---------------------------- MODULE SeedPeerSelector ----------------------------
(***************************************************************************)
(* The seed peer selector of the client (rust/src/selector.rs): the table  *)
(* of seed peers, the consistent hash ring built from their names, the     *)
(* refresh that lists them from the scheduler and the update that replaces *)
(* them, all run by concurrent tasks.                                      *)
(*                                                                         *)
(* A step is a stretch of code between two points where the task can be    *)
(* suspended or another task can take the lock: an .await, or the release  *)
(* of the write lock.  The ring is represented by the set of names on it:  *)
(* the positions of its virtual nodes are a hash of those names and of     *)
(* nothing else.                                                           *)
(***************************************************************************)
EXTENDS Integers, Sequences

CONSTANTS
    Names,          \* host names, "" among them
    EmptyName,      \* the name ""
    Ips,            \* the ip field of a host, a string
    UnparsableIps,  \* those that are not an IP address
    Clusters,       \* the sets of hosts the scheduler may come to list
    Submissions,    \* the lists of seed peers passed to update_seed_peers
    Refreshers,     \* the tasks that call refresh
    Updaters,       \* the tasks that call update_seed_peers
    NoTask,         \* the owner of a free mutex
    MaxChanges      \* bound on how often the scheduler's hosts change

Hosts == [name : Names, ip : Ips]

SeedPeers == [host : Hosts, healthy : BOOLEAN]

\* Maps from host names to seed peers of that name.
HostTables ==
    UNION {{f \in [S -> SeedPeers] : \A n \in S : f[n].host.name = n} :
               S \in SUBSET Names}

Tasks == Refreshers \cup Updaters

ASSUME ConstantsAssumption ==
    /\ EmptyName \in Names
    /\ UnparsableIps \subseteq Ips
    /\ Clusters \subseteq SUBSET Hosts
    /\ Submissions \subseteq Seq(SeedPeers)
    /\ Refreshers \cap Updaters = {}
    /\ NoTask \notin Tasks
    /\ MaxChanges \in Nat

VARIABLES
    hosts,      \* SeedPeers.hosts: the seed peers by host name
    ring,       \* SeedPeers.hashring: the names it was built from
    mutex,      \* who holds the refresh mutex
    pc,         \* where each task is
    fresh,      \* the map of hosts a task is about to install
    listed,     \* the hosts a refresh was answered, awaiting health checks
    seenAt,     \* the change count of the scheduler when it answered
    cluster,    \* the scheduler's seed peers
    changes,    \* how often they changed
    tableAt     \* the change count the table was listed at (history), -1
                \* before the first refresh

selectorVars == <<hosts, ring, mutex>>
taskVars == <<pc, fresh, listed, seenAt>>
schedulerVars == <<cluster, changes>>
vars == <<selectorVars, taskVars, schedulerVars, tableAt>>

NoHosts == [n \in {} |-> n]

TypeOK ==
    /\ hosts \in HostTables
    /\ ring \in SUBSET Names
    /\ mutex \in Refreshers \cup {NoTask}
    /\ pc \in [Tasks -> {"idle", "listing", "checking", "compare", "install"}]
    /\ fresh \in [Tasks -> HostTables]
    /\ listed \in [Refreshers -> SUBSET Hosts]
    /\ seenAt \in [Refreshers -> 0 .. MaxChanges]
    /\ cluster \in SUBSET Hosts
    /\ changes \in 0 .. MaxChanges
    /\ tableAt \in -1 .. MaxChanges

Init ==
    /\ hosts = NoHosts
    /\ ring = {}
    /\ mutex = NoTask
    /\ pc = [t \in Tasks |-> "idle"]
    /\ fresh = [t \in Tasks |-> NoHosts]
    /\ listed = [t \in Refreshers |-> {}]
    /\ seenAt = [t \in Refreshers |-> 0]
    /\ cluster \in Clusters
    /\ changes = 0
    /\ tableAt = -1

--------------------------------------------------------------------------------
(* The environment: seed peers join, leave or move at the scheduler. *)

SchedulerChange(c) ==
    /\ changes < MaxChanges
    /\ c # cluster
    /\ cluster' = c
    /\ changes' = changes + 1
    /\ UNCHANGED <<selectorVars, taskVars, tableAt>>

--------------------------------------------------------------------------------
(* Refresh. *)

\* Mutant: the guard outlives the call.
ReturnKeepingGuard(t) ==
    /\ pc' = [pc EXCEPT ![t] = "idle"]
    /\ fresh' = [fresh EXCEPT ![t] = NoHosts]
    /\ mutex' = mutex

\* A task returns to its caller; a refresh drops its mutex guard.
Return(t) ==
    /\ pc' = [pc EXCEPT ![t] = "idle"]
    /\ fresh' = [fresh EXCEPT ![t] = NoHosts]
    /\ mutex' = IF t \in Refreshers THEN NoTask ELSE mutex

\* Mutant: the mutex is taken without looking who holds it.
StartRefreshRegardless(t) ==
    /\ pc[t] = "idle"
    /\ mutex' = t
    /\ pc' = [pc EXCEPT ![t] = "listing"]
    /\ UNCHANGED <<hosts, ring, fresh, listed, seenAt, schedulerVars, tableAt>>

\* The mutex is only tried: a refresh that finds it held returns Ok without a
\* step of its own.
StartRefresh(t) ==
    /\ pc[t] = "idle"
    /\ mutex = NoTask
    /\ mutex' = t
    /\ pc' = [pc EXCEPT ![t] = "listing"]
    /\ UNCHANGED <<hosts, ring, fresh, listed, seenAt, schedulerVars, tableAt>>

\* The scheduler answers list_hosts.  A single host whose ip does not parse
\* fails the whole listing.
ListHosts(t) ==
    /\ pc[t] = "listing"
    /\ \A h \in cluster : h.ip \notin UnparsableIps
    /\ pc' = [pc EXCEPT ![t] = "checking"]
    /\ listed' = [listed EXCEPT ![t] = cluster]
    /\ seenAt' = [seenAt EXCEPT ![t] = changes]
    /\ UNCHANGED <<selectorVars, fresh, schedulerVars, tableAt>>

ListUnparsable(t) ==
    /\ pc[t] = "listing"
    /\ \E h \in cluster : h.ip \in UnparsableIps
    /\ Return(t)
    /\ UNCHANGED <<hosts, ring, listed, seenAt, schedulerVars, tableAt>>

\* The scheduler does not answer, or answers an error.
ListFails(t) ==
    /\ pc[t] = "listing"
    /\ Return(t)
    /\ UNCHANGED <<hosts, ring, listed, seenAt, schedulerVars, tableAt>>

\* The hosts by name with their health: the checks end in any order, so of two
\* hosts of one name either may be the last to be collected, and each check has
\* any outcome.
CollectedFrom(hs) ==
    {f \in [{h.name : h \in hs} -> [host : hs, healthy : BOOLEAN]] :
        \A n \in DOMAIN f : f[n].host.name = n}

CheckHealth(t) ==
    /\ pc[t] = "checking"
    /\ \E f \in CollectedFrom(listed[t]) : fresh' = [fresh EXCEPT ![t] = f]
    /\ pc' = [pc EXCEPT ![t] = "compare"]
    /\ listed' = [listed EXCEPT ![t] = {}]
    /\ UNCHANGED <<selectorVars, seenAt, schedulerVars, tableAt>>

--------------------------------------------------------------------------------
(* Update. *)

\* Mutant: no seed peer at all is accepted.
ValidOrNone(s) ==
    /\ \A i \in DOMAIN s : s[i].host.name # EmptyName
    /\ \A i, j \in DOMAIN s : s[i].host.name = s[j].host.name => i = j

\* validate_seed_peers: some seed peer, each with a name of its own.
Valid(s) ==
    /\ DOMAIN s # {}
    /\ \A i \in DOMAIN s : s[i].host.name # EmptyName
    /\ \A i, j \in DOMAIN s : s[i].host.name = s[j].host.name => i = j

\* Mutant: keyed by the ip of the host.
HostsByIp(s) ==
    [p \in {s[i].host.ip : i \in DOMAIN s} |->
        s[CHOOSE i \in DOMAIN s : s[i].host.ip = p]]

HostsOf(s) ==
    [n \in {s[i].host.name : i \in DOMAIN s} |->
        s[CHOOSE i \in DOMAIN s : s[i].host.name = n]]

\* An invalid list is ignored without a step of its own.
CallUpdate(t, s) ==
    /\ pc[t] = "idle"
    /\ Valid(s)
    /\ fresh' = [fresh EXCEPT ![t] = HostsOf(s)]
    /\ pc' = [pc EXCEPT ![t] = "compare"]
    /\ UNCHANGED <<selectorVars, listed, seenAt, schedulerVars, tableAt>>

\* The table now comes from the listing of t; only a refresh knows when the
\* scheduler made it.
StampTable(t) == tableAt' = IF t \in Refreshers THEN seenAt[t] ELSE tableAt

\* Mutant: the comparison of the lengths is missing.
NoNewNames(f, g) == DOMAIN g \subseteq DOMAIN f

SameNames(f, g) == DOMAIN f = DOMAIN g

\* Under the write lock: with the names unchanged the ring is reused, and only
\* the records and their health are replaced.
ReplaceRecords(t) ==
    /\ pc[t] = "compare"
    /\ SameNames(hosts, fresh[t])
    /\ hosts' = fresh[t]
    /\ StampTable(t)
    /\ Return(t)
    /\ UNCHANGED <<ring, listed, seenAt, schedulerVars>>

\* Mutant: the hosts are replaced at once, the ring only after the rebuild.
RebuildAfterReplacing(t) ==
    /\ pc[t] = "compare"
    /\ ~SameNames(hosts, fresh[t])
    /\ hosts' = fresh[t]
    /\ pc' = [pc EXCEPT ![t] = "install"]
    /\ UNCHANGED <<ring, mutex, fresh, listed, seenAt, schedulerVars, tableAt>>

\* Otherwise the lock is released and the new ring built outside it.
Rebuild(t) ==
    /\ pc[t] = "compare"
    /\ ~SameNames(hosts, fresh[t])
    /\ pc' = [pc EXCEPT ![t] = "install"]
    /\ UNCHANGED <<selectorVars, fresh, listed, seenAt, schedulerVars, tableAt>>

\* The write lock is taken again to install the hosts and their ring.
Install(t) ==
    /\ pc[t] = "install"
    /\ hosts' = fresh[t]
    /\ ring' = DOMAIN fresh[t]
    /\ StampTable(t)
    /\ Return(t)
    /\ UNCHANGED <<listed, seenAt, schedulerVars>>

\* The caller drops the future of update_seed_peers while it awaits the lock.
Cancel(t) ==
    /\ pc[t] \in {"compare", "install"}
    /\ Return(t)
    /\ UNCHANGED <<hosts, ring, listed, seenAt, schedulerVars, tableAt>>

--------------------------------------------------------------------------------

Update(t) == ReplaceRecords(t) \/ Rebuild(t) \/ Install(t)

Refresh(t) ==
    \/ StartRefresh(t)
    \/ ListHosts(t)
    \/ ListUnparsable(t)
    \/ ListFails(t)
    \/ CheckHealth(t)

Next ==
    \/ \E c \in Clusters : SchedulerChange(c)
    \/ \E t \in Refreshers : Refresh(t)
    \/ \E t \in Updaters : Cancel(t) \/ \E s \in Submissions : CallUpdate(t, s)
    \/ \E t \in Tasks : Update(t)

Spec == Init /\ [][Next]_vars

(* The run loop ticks for ever, the scheduler's answer and the health checks  *)
(* are bounded by timeouts, and tokio's locks are fair: a started task always *)
(* moves on.  That the scheduler answers infinitely often when asked for ever *)
(* is an assumption on the environment.                                       *)
Fairness ==
    /\ \A t \in Refreshers :
        /\ WF_vars(Refresh(t))
        /\ SF_vars(StartRefresh(t))
        /\ SF_vars(ListHosts(t))
    /\ \A t \in Tasks : WF_vars(Update(t))

FairSpec == Spec /\ Fairness

--------------------------------------------------------------------------------
(* Properties. *)

\* The hosts and the ring are always in step: every name on the ring has a host
\* record and every host is on the ring, whichever updates compared, rebuilt
\* and installed in between (the comment of update, selector.rs:266-269).
InStep == DOMAIN hosts = ring

\* Refreshes take effect in the order the scheduler answered them: a listing
\* never overwrites a later one, which is what the try_lock of refresh is for.  The SDK
\* itself refreshes in build and then in the loop of run only, one after the other; the
\* lock is for whoever else calls it.
ListingsInOrder == [][tableAt' >= tableAt]_vars

\* Once there are seed peers, update_seed_peers never leaves the table empty,
\* so select never reports HostNotFound for a want of hosts: only a refresh of
\* an emptied cluster does that.
OnlyARefreshEmptiesTheTable ==
    [][hosts # NoHosts /\ hosts' = NoHosts => mutex # NoTask]_vars

\* Every update is atomic for the readers, in spite of its two critical
\* sections: the table always is one listing whole, taken over with its ring in
\* one step while the call that brought it runs, and a cancelled or failed call
\* leaves nothing behind.
Offered ==
    [t \in Tasks |->
        IF pc[t] \in {"compare", "install"} THEN {fresh[t]} ELSE {}]

Table == INSTANCE SeedPeerTable WITH
    Callers <- Tasks,
    Tables <- HostTables,
    table <- hosts,
    offered <- Offered

TableSpec == Table!Spec

\* The inductive invariant behind these: the owner of the mutex is the one
\* refresh under way, what it saw is no older than the table, and an update
\* under way brings some seed peer.
MutexOwner ==
    \A t \in Refreshers : pc[t] # "idle" <=> mutex = t

SeenAfterTable ==
    /\ tableAt <= changes
    /\ \A t \in Refreshers :
           /\ seenAt[t] <= changes
           /\ pc[t] \in {"checking", "compare", "install"} => tableAt <= seenAt[t]

UpdatesBringSeedPeers ==
    \A t \in Updaters :
        /\ pc[t] \in {"idle", "compare", "install"}
        /\ pc[t] # "idle" => DOMAIN fresh[t] # {}

IndInv == TypeOK /\ InStep /\ MutexOwner /\ SeenAfterTable /\ UpdatesBringSeedPeers

\* When the scheduler's hosts can be listed, the selector catches up with them:
\* its ring comes to hold the current names, unless the scheduler changes or
\* comes to list a host whose ip does not parse, which blocks every refresh.
Listable == \A h \in cluster : h.ip \notin UnparsableIps

Current == tableAt = changes /\ ring = {h.name : h \in cluster}

CatchesUp == Listable ~> (Current \/ ~Listable)

\* No refresh keeps the mutex for ever, which would end every later refresh at
\* its try_lock.
MutexReleased == mutex # NoTask ~> mutex = NoTask
================================================================================
