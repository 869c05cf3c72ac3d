----------------------------- MODULE ProxyLifecycle -----------------------------
(***************************************************************************)
(* How the proxies of the Rust SDK are built, and the service that runs    *)
(* behind one that knows its seed peers from the scheduler                 *)
(* (rust/src/lib.rs: ProxyBuilder, ProxyWithSeedPeersBuilder and           *)
(* ProxyWithEndpointsBuilder; selector.rs: SeedPeerSelector::run;          *)
(* shutdown.rs).                                                           *)
(*                                                                         *)
(* The service refreshes the seed peers when its interval is over, until   *)
(* SIGINT, SIGTERM or SIGQUIT.  It hears a signal only while it listens:   *)
(* the streams of signals are made when a round of its loop first waits,   *)
(* and dropped when the round chooses to refresh.  The first stream takes  *)
(* the signals away from the process's default of ending, for good.        *)
(*                                                                         *)
(* What a refresh does is the subject of SeedPeerSelector.                 *)
(***************************************************************************)
EXTENDS Integers, Sequences, SequencesExt

CONSTANTS
    Proxies,
    Configs,        \* of the builders: [of, malformed, timeout, interval, retries, given],
                    \* times in milliseconds, given the seed peers or endpoints
    Bad             \* the endpoints no client can be made for

ASSUME ConfigsAssumption ==
    \A c \in Configs :
        /\ c.of \in {"scheduler", "seed peers", "endpoints"}
        /\ c.malformed \in BOOLEAN
        /\ {c.timeout, c.interval, c.retries} \subseteq Nat
        /\ c.given \in Seq(ToSet(c.given))

VARIABLES
    build,          \* where the call of build is
    config,
    known,          \* the proxy has a table of seed peers: those given, or the scheduler
                    \* has listed some, or none
    clients,        \* the endpoints it has a client for
    service,        \* where its service is
    due,            \* its interval is over
    heard,          \* its streams have a signal
    caught,         \* signals do not end the process any more
    killed          \* a signal has ended the process

builders == <<build, config, known, clients>>
services == <<service, due, heard, caught, killed>>
lifecycleVars == <<builders, services>>

LifecycleTypeOK ==
    /\ build \in [Proxies -> {"idle", "connecting", "refreshing", "clients",
                              "assembling", "ok", "failed"}]
    /\ config \in [Proxies -> Configs]
    /\ known \in [Proxies -> BOOLEAN]
    /\ clients \in [Proxies -> SUBSET UNION {ToSet(c.given) : c \in Configs}]
    /\ service \in [Proxies -> {"none", "round", "listening", "refreshing", "stopped"}]
    /\ due \in [Proxies -> BOOLEAN]
    /\ heard \in [Proxies -> BOOLEAN]
    /\ caught \in BOOLEAN
    /\ killed \in BOOLEAN

LifecycleInit ==
    /\ build = [p \in Proxies |-> "idle"]
    /\ config \in [Proxies -> Configs]
    /\ known = [p \in Proxies |-> FALSE]
    /\ clients = [p \in Proxies |-> {}]
    /\ service = [p \in Proxies |-> "none"]
    /\ due = [p \in Proxies |-> FALSE]
    /\ heard = [p \in Proxies |-> FALSE]
    /\ caught = FALSE
    /\ killed = FALSE

--------------------------------------------------------------------------------
(* Building.  Whatever a step meets, the process must be alive. *)

\* validate of the three builders.
ValidScheduler(c) ==
    /\ ~c.malformed
    /\ c.timeout >= 100
    /\ c.interval \div 1000 \in 1 .. 600
    /\ c.retries <= 10

ValidSeedPeers(c) == c.given # <<>> /\ IsInjective(c.given) /\ c.retries <= 10

ValidEndpoints(c) == c.given # <<>> /\ c.retries <= 10

Move(p, from, to) ==
    /\ ~killed
    /\ build[p] = from
    /\ build' = [build EXCEPT ![p] = to]

Build(p) ==
    /\ \/ config[p].of = "scheduler" /\ ValidScheduler(config[p])
          /\ Move(p, "idle", "connecting")
       \/ config[p].of = "endpoints" /\ ValidEndpoints(config[p])
          /\ Move(p, "idle", "clients")
    /\ UNCHANGED <<config, known, clients, services>>

\* The selector is filled with the seed peers that are given.
BuildWithSeedPeers(p) ==
    /\ config[p].of = "seed peers"
    /\ ValidSeedPeers(config[p])
    /\ Move(p, "idle", "assembling")
    /\ known' = [known EXCEPT ![p] = TRUE]
    /\ UNCHANGED <<config, clients, services>>

Connect(p) ==
    /\ Move(p, "connecting", "refreshing")
    /\ UNCHANGED <<config, known, clients, services>>

\* Mutant: the service may come after a first refresh that failed.
SpawnAnyway(p) ==
    /\ Move(p, "refreshing", "assembling")
    /\ known' \in {known, [known EXCEPT ![p] = TRUE]}
    /\ service' = [service EXCEPT ![p] = "round"]
    /\ due' = [due EXCEPT ![p] = TRUE]
    /\ UNCHANGED <<config, clients, heard, caught, killed>>

\* The first refresh succeeds and the service is spawned.  Its interval's first tick
\* is at once.
Spawn(p) ==
    /\ Move(p, "refreshing", "assembling")
    /\ known' = [known EXCEPT ![p] = TRUE]
    /\ service' = [service EXCEPT ![p] = "round"]
    /\ due' = [due EXCEPT ![p] = TRUE]
    /\ UNCHANGED <<config, clients, heard, caught, killed>>

\* Without a wait in between: the local address and the host name are looked up.
BuildProxy(p) ==
    /\ Move(p, "assembling", "ok")
    /\ UNCHANGED <<config, known, clients, services>>

\* Where the endpoints are that have no client yet.
Missing(p) == {i \in DOMAIN config[p].given : config[p].given[i] \notin clients[p]}

\* The client for the next of them.
MakeClient(p) ==
    /\ \E i \in Missing(p) :
        /\ \A j \in Missing(p) : i <= j
        /\ config[p].given[i] \notin Bad
        /\ clients' = [clients EXCEPT ![p] = @ \cup {config[p].given[i]}]
    /\ Move(p, "clients", "clients")
    /\ UNCHANGED <<config, known, services>>

BuildWithEndpoints(p) ==
    /\ Missing(p) = {}
    /\ Move(p, "clients", "ok")
    /\ UNCHANGED <<config, known, clients, services>>

\* Any step may fail: the configuration is invalid, the scheduler cannot be reached or
\* does not list, a client or the address cannot be had.  A service that was spawned
\* stays.  The caller may also drop the call, except when it assembles.
Fail(p) ==
    /\ \E from \in {"idle", "connecting", "refreshing", "clients", "assembling"} :
            Move(p, from, "failed")
    /\ UNCHANGED <<config, known, clients, services>>

--------------------------------------------------------------------------------
(* The service. *)

Running(p) == ~killed /\ service[p] \in {"round", "listening", "refreshing"}

\* Time passes: also while it refreshes.
Elapse(p) ==
    /\ Running(p)
    /\ ~due[p]
    /\ due' = [due EXCEPT ![p] = TRUE]
    /\ UNCHANGED <<builders, service, heard, caught, killed>>

\* A round polls its two branches in either order: a tick that is due is taken, before
\* or after the streams are made, and otherwise the round waits for either.
Round(p) ==
    /\ ~killed
    /\ service[p] = "round"
    /\ IF due[p]
       THEN /\ service' = [service EXCEPT ![p] = "refreshing"]
            /\ caught' \in {caught, TRUE}
       ELSE /\ service' = [service EXCEPT ![p] = "listening"]
            /\ caught' = TRUE
    /\ due' = [due EXCEPT ![p] = FALSE]
    /\ heard' = [heard EXCEPT ![p] = FALSE]
    /\ UNCHANGED <<builders, killed>>

\* The tick wakes it, and is polled before a signal that may have come too.
Tick(p) ==
    /\ ~killed
    /\ service[p] = "listening"
    /\ due[p]
    /\ service' = [service EXCEPT ![p] = "refreshing"]
    /\ due' = [due EXCEPT ![p] = FALSE]
    /\ heard' = [heard EXCEPT ![p] = FALSE]
    /\ UNCHANGED <<builders, caught, killed>>

\* The signal is polled before a tick that may be due too.
Stop(p) ==
    /\ ~killed
    /\ service[p] = "listening"
    /\ heard[p]
    /\ service' = [service EXCEPT ![p] = "stopped"]
    /\ UNCHANGED <<builders, due, heard, caught, killed>>

\* Mutant: a refresh that fails ends the service (an early return instead of a log).
RefreshReturns(p) ==
    /\ ~killed
    /\ service[p] = "refreshing"
    /\ \E to \in {"round", "none"} : service' = [service EXCEPT ![p] = to]
    /\ UNCHANGED <<builders, due, heard, caught, killed>>

\* Refreshed or not.
RefreshEnds(p) ==
    /\ ~killed
    /\ service[p] = "refreshing"
    /\ service' = [service EXCEPT ![p] = "round"]
    /\ UNCHANGED <<builders, due, heard, caught, killed>>

\* A signal is put into the streams there are, or ends the process if there never was
\* one.
Signal ==
    /\ ~killed
    /\ IF caught
       THEN heard' = [p \in Proxies |-> heard[p] \/ service[p] = "listening"]
            /\ UNCHANGED killed
       ELSE killed' = TRUE /\ UNCHANGED heard
    /\ UNCHANGED <<builders, service, due, caught>>

--------------------------------------------------------------------------------
LifecycleNext ==
    \/ \E p \in Proxies :
        \/ Build(p) \/ BuildWithSeedPeers(p) \/ Connect(p) \/ Spawn(p) \/ BuildProxy(p)
        \/ MakeClient(p) \/ BuildWithEndpoints(p) \/ Fail(p)
        \/ Elapse(p) \/ Round(p) \/ Tick(p) \/ Stop(p) \/ RefreshEnds(p)
    \/ Signal

LifecycleSpec == LifecycleInit /\ [][LifecycleNext]_lifecycleVars

\* The runtime polls a service that can move, a refresh ends by its timeouts and time
\* passes.
FairLifecycleSpec ==
    /\ LifecycleSpec
    /\ \A p \in Proxies :
        /\ WF_lifecycleVars(Elapse(p))
        /\ WF_lifecycleVars(Round(p))
        /\ WF_lifecycleVars(Tick(p) \/ Stop(p))
        /\ WF_lifecycleVars(RefreshEnds(p))

--------------------------------------------------------------------------------
\* A proxy that was built has what its requests start from: a table the scheduler has
\* answered for, with a service that keeps it fresh behind it, or the seed peers given,
\* or a client for every endpoint, given twice or not (lib.rs:1132-1152, 2028-2037, 2183-2199).
BuiltIsUsable ==
    \A p \in Proxies :
        /\ build[p] = "ok" =>
            IF config[p].of = "endpoints"
            THEN clients[p] = ToSet(config[p].given) /\ clients[p] # {}
            ELSE known[p] /\ (config[p].of = "scheduler" <=> service[p] # "none")
        /\ service[p] # "none" => known[p]

\* The inductive invariant behind it: what each stage of a build has come with.
Fit(p) ==
    /\ build[p] \in {"connecting", "refreshing"} => config[p].of = "scheduler"
    /\ build[p] = "clients" => config[p].of = "endpoints" /\ config[p].given # <<>>
    /\ build[p] = "assembling" =>
        /\ config[p].of # "endpoints"
        /\ known[p]
        /\ config[p].of = "scheduler" <=> service[p] # "none"
    /\ build[p] \in {"idle", "connecting", "refreshing", "clients"} => service[p] = "none"
    /\ clients[p] \subseteq ToSet(config[p].given)

Staged == \A p \in Proxies : Fit(p)

LifecycleInv == LifecycleTypeOK /\ Staged /\ BuiltIsUsable

\* A service refreshes again and again until it is stopped, whatever comes of the
\* refreshes, and whether its proxy was built in the end or dropped (selector.rs:229-237).
KeepsRefreshing ==
    \A p \in Proxies :
        <>(service[p] = "round") =>
            []<>(service[p] = "refreshing") \/ <>(service[p] = "stopped" \/ killed)
================================================================================
