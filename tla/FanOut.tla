--------------------------------- MODULE FanOut ---------------------------------
(***************************************************************************)
(* Preheating and deleting one file (rust/src/lib.rs, Proxy::preheat and   *)
(* Proxy::delete): a call picks the seed peers of its scope, has all of    *)
(* them download or delete the file at once, each with its own retries     *)
(* against the same seed peer (retry.rs, run), and returns when all have   *)
(* succeeded, or with the first failure, which aborts the others.          *)
(*                                                                         *)
(* The seed peers and the network are external: a request may be executed  *)
(* and its answer lost, and one given up on may still be executed later.   *)
(* Every address of the table has been parsed before (selector.rs:113,     *)
(* lib.rs:2083-2108), so parsing it again when spawning does not fail.     *)
(* The timeout of an attempt is that of its channel, which waits no longer *)
(* for an answer to begin; the answer to a download is a stream, and how   *)
(* long that takes to its end nothing bounds on this side.                 *)
(***************************************************************************)
EXTENDS Integers, FiniteSets

CONSTANTS
    Peers,          \* the seed peers of the table
    ReplicaSet,     \* those in the first places of the ring from the file's task id
    Replicas,       \* request.replicas
    Calls,          \* concurrent callers, each making one call after another
    MaxRetries      \* RetryPolicy.max_retries

ASSUME FanOutAssumption ==
    /\ MaxRetries \in Nat
    /\ Replicas \in Nat \ {0}
    /\ IsFiniteSet(Peers)
    /\ ReplicaSet \in SUBSET Peers
    /\ Cardinality(ReplicaSet) <= Replicas

VARIABLES
    holds,          \* the seed peers that hold the file
    stray,          \* requests nobody waits for that may still be executed
    pc,             \* where each call is
    kind,           \* what it does
    scope,          \* and where
    task,           \* its task for each seed peer it addresses
    attempts,       \* the attempts of that task
    undisturbed     \* the calls since whose beginning no call of the other kind
                    \* has run, nor a stray request of one (history)

callVars == <<pc, kind, scope, task, attempts, undisturbed>>
vars == <<holds, stray, callVars>>

Kinds == {"preheat", "delete"}
Scopes == {"default", "all"}

\* A task sends a request, a download streams, the seed peer has executed it ("done", or
\* "absent" when it had nothing to delete), and it ends well and is joined, or does not.
TaskStates ==
    {"none", "ready", "sent", "streaming", "done", "absent", "ok", "joined", "refused",
     "exhausted"}

NoTasks == [p \in Peers |-> "none"]
NoAttempts == [p \in Peers |-> 0]

TypeOK ==
    /\ holds \in SUBSET Peers
    /\ stray \in SUBSET (Kinds \X Peers)
    /\ pc \in [Calls -> {"idle", "joining", "ok", "failed"}]
    /\ kind \in [Calls -> Kinds]
    /\ scope \in [Calls -> Scopes]
    /\ task \in [Calls -> [Peers -> TaskStates]]
    /\ attempts \in [Calls -> [Peers -> 0 .. 1 + MaxRetries]]
    /\ undisturbed \in SUBSET Calls

Init ==
    /\ holds = {}
    /\ stray = {}
    /\ pc = [c \in Calls |-> "idle"]
    /\ kind = [c \in Calls |-> "preheat"]
    /\ scope = [c \in Calls |-> "default"]
    /\ task = [c \in Calls |-> NoTasks]
    /\ attempts = [c \in Calls |-> NoAttempts]
    /\ undisturbed = {}

--------------------------------------------------------------------------------
(* A call. *)

Active(c) == pc[c] = "joining"

\* The seed peers a call addresses.
Addressed(c) == {p \in Peers : task[c][p] # "none"}

\* select_seed_peers, when the seed peers H are healthy.
Selected(s, H) == IF s = "default" THEN ReplicaSet \cap H ELSE H

\* Mutant: preheat clamps the replicas to the available seed peers as delete does.
EnoughClamping(k, s, H) == Selected(s, H) # {}

\* A preheat of the default scope insists on all of its replicas.
Enough(k, s, H) ==
    /\ Selected(s, H) # {}
    /\ k = "preheat" /\ s = "default" => Cardinality(Selected(s, H)) >= Replicas

\* The calls a new call of kind k runs into, and whether it runs undisturbed.
Disturbed(k) == {d \in Calls : kind[d] # k}

Alone(k) ==
    /\ \A d \in Calls : Active(d) => kind[d] = k
    /\ \A q \in Kinds, p \in Peers : <<q, p>> \in stray => q = k

\* The call selects its seed peers, H being healthy now, and spawns their tasks.
Start(c, k, s, H) ==
    /\ pc[c] = "idle"
    /\ kind' = [kind EXCEPT ![c] = k]
    /\ scope' = [scope EXCEPT ![c] = s]
    /\ IF Enough(k, s, H)
       THEN /\ pc' = [pc EXCEPT ![c] = "joining"]
            /\ task' = [task EXCEPT
                   ![c] = [p \in Peers |-> IF p \in Selected(s, H) THEN "ready" ELSE "none"]]
            /\ undisturbed' = (undisturbed \ Disturbed(k)) \cup {d \in {c} : Alone(k)}
       ELSE /\ pc' = [pc EXCEPT ![c] = "failed"]
            /\ UNCHANGED <<task, undisturbed>>
    /\ UNCHANGED <<holds, stray, attempts>>

SetTask(c, p, state) == task' = [task EXCEPT ![c][p] = state]

\* Connect to the seed peer and send the request.
Send(c, p) ==
    /\ task[c][p] = "ready"
    /\ SetTask(c, p, "sent")
    /\ attempts' = [attempts EXCEPT ![c][p] = @ + 1]
    /\ UNCHANGED <<holds, stray, pc, kind, scope, undisturbed>>

Executed(k, p) == IF k = "preheat" THEN holds \cup {p} ELSE holds \ {p}

\* A seed peer that has begun to download answers with a stream, whose messages tell how
\* far it is.
Stream(c, p) ==
    /\ kind[c] = "preheat" /\ task[c][p] = "sent"
    /\ SetTask(c, p, "streaming")
    /\ UNCHANGED <<holds, stray, pc, kind, scope, attempts, undisturbed>>

\* The seed peer executes the request: it has downloaded the file, or has deleted
\* it or found none.
Execute(c, p) ==
    /\ task[c][p] = IF kind[c] = "preheat" THEN "streaming" ELSE "sent"
    /\ holds' = Executed(kind[c], p)
    /\ SetTask(c, p, IF kind[c] = "delete" /\ p \notin holds THEN "absent" ELSE "done")
    /\ UNCHANGED <<stray, pc, kind, scope, attempts, undisturbed>>

\* Mutant: the task gives up on NotFound like on any other failure.
AnswerNotFoundFails(c, p) ==
    /\ task[c][p] \in {"done", "absent"}
    /\ SetTask(c, p, IF task[c][p] = "done" THEN "ok" ELSE "exhausted")
    /\ UNCHANGED <<holds, stray, pc, kind, scope, attempts, undisturbed>>

\* The answer arrives, of a download to its end; NotFound counts as deleted.
Answer(c, p) ==
    /\ task[c][p] \in {"done", "absent"}
    /\ SetTask(c, p, "ok")
    /\ UNCHANGED <<holds, stray, pc, kind, scope, attempts, undisturbed>>

\* The requests of a call still on their way when it stops waiting for them.
OnTheWay(c, S) == {<<kind[c], p>> : p \in {q \in S : task[c][q] \in {"sent", "streaming"}}}

RetriesLeft(c, p) == attempts[c][p] < 1 + MaxRetries

\* Mutant: the retries are counted afresh after every failure.
TransientAfresh(c, p) ==
    /\ task[c][p] \in {"sent", "streaming", "done", "absent"}
    /\ SetTask(c, p, "ready")
    /\ attempts' = [attempts EXCEPT ![c][p] = 0]
    /\ stray' = stray \cup OnTheWay(c, {p})
    /\ UNCHANGED <<holds, pc, kind, scope, undisturbed>>

\* The attempt fails transiently, a timeout or a broken stream say, and is retried
\* on the same seed peer while retries are left.
Transient(c, p) ==
    /\ task[c][p] \in {"sent", "streaming", "done", "absent"}
    /\ SetTask(c, p, IF RetriesLeft(c, p) THEN "ready" ELSE "exhausted")
    /\ stray' = stray \cup OnTheWay(c, {p})
    /\ UNCHANGED <<holds, pc, kind, scope, attempts, undisturbed>>

\* The seed peer refuses the request definitively.
Refuse(c, p) ==
    /\ task[c][p] \in {"sent", "streaming"}
    /\ SetTask(c, p, "refused")
    /\ UNCHANGED <<holds, stray, pc, kind, scope, attempts, undisturbed>>

\* A request nobody waits for any more is executed, or is not.
Stray(k, p, executed) ==
    /\ <<k, p>> \in stray
    /\ stray' = stray \ {<<k, p>>}
    /\ holds' = IF executed THEN Executed(k, p) ELSE holds
    /\ UNCHANGED <<callVars>>

\* The call fails with the error of a task and aborts the others: its JoinSet is
\* dropped.
Failed(c, p) ==
    /\ pc' = [pc EXCEPT ![c] = "failed"]
    /\ task' = [task EXCEPT ![c] = [NoTasks EXCEPT ![p] = task[c][p]]]
    /\ attempts' = [attempts EXCEPT ![c] = [NoAttempts EXCEPT ![p] = attempts[c][p]]]
    /\ stray' = stray \cup OnTheWay(c, Peers)

Joined(c, p) ==
    /\ SetTask(c, p, "joined")
    /\ pc' = [pc EXCEPT
           ![c] = IF \A q \in Addressed(c) \ {p} : task[c][q] = "joined" THEN "ok" ELSE @]
    /\ UNCHANGED <<attempts, stray>>

\* join_next: the first failure is returned at once, the last success returns Ok.
Join(c, p) ==
    /\ Active(c)
    /\ \/ task[c][p] = "ok" /\ Joined(c, p)
       \/ task[c][p] \in {"refused", "exhausted"} /\ Failed(c, p)
    /\ UNCHANGED <<holds, kind, scope, undisturbed>>

Forget(c) ==
    /\ pc' = [pc EXCEPT ![c] = "idle"]
    /\ kind' = [kind EXCEPT ![c] = "preheat"]
    /\ scope' = [scope EXCEPT ![c] = "default"]
    /\ task' = [task EXCEPT ![c] = NoTasks]
    /\ attempts' = [attempts EXCEPT ![c] = NoAttempts]
    /\ undisturbed' = undisturbed \ {c}
    /\ UNCHANGED holds

\* The caller drops the call.
Drop(c) ==
    /\ Active(c)
    /\ stray' = stray \cup OnTheWay(c, Peers)
    /\ Forget(c)

\* The caller takes the result and may call again.
TakeResult(c) ==
    /\ pc[c] \in {"ok", "failed"}
    /\ Forget(c)
    /\ UNCHANGED stray

--------------------------------------------------------------------------------

Progress(c, p) ==
    \/ Send(c, p) \/ Stream(c, p) \/ Execute(c, p) \/ Answer(c, p)
    \/ Transient(c, p) \/ Refuse(c, p) \/ Join(c, p)

\* The task waits for the next message of a stream.
Streaming(c, p) ==
    kind[c] = "preheat" /\ task[c][p] \in {"streaming", "done"}

Next ==
    \/ \E k \in Kinds, p \in Peers, executed \in BOOLEAN : Stray(k, p, executed)
    \/ \E c \in Calls :
          \/ \E k \in Kinds, s \in Scopes, H \in SUBSET Peers : Start(c, k, s, H)
          \/ \E p \in Peers : Progress(c, p)
          \/ Drop(c)
          \/ TakeResult(c)

Spec == Init /\ [][Next]_vars

\* The tasks run, an attempt whose answer does not begin ends with the timeout of its
\* channel (lib.rs:1734-1738, 1820-1824), and the call waits for them.  A stream may stay
\* silent for ever: message() has no timeout (lib.rs:1755-1760), and whether the seed
\* peer keeps to the timeout in its request is up to it.
Bounded(c) == \E p \in Peers : ~Streaming(c, p) /\ Progress(c, p)

FairSpec == Spec /\ \A c \in Calls : WF_vars(Bounded(c))

--------------------------------------------------------------------------------
(* Properties. *)

\* A call that returned Ok has done its work on every seed peer it addressed, and
\* a preheat of the default scope on every replica of the file, whatever answers
\* were lost and attempts repeated, as long as no call of the other kind overlaps
\* it (lib.rs:202-214: "so the file lands on every replica").
OkMeansEverywhere ==
    \A c \in Calls :
        pc[c] = "ok" /\ c \in undisturbed =>
            IF kind[c] = "delete" THEN Addressed(c) \cap holds = {}
            ELSE /\ Addressed(c) \subseteq holds
                 /\ scope[c] = "default" => ReplicaSet \subseteq holds

\* A call fails only for too few seed peers, for one that refused definitively,
\* or for one whose attempts are used up: in particular a delete whose answer was
\* lost succeeds when it is repeated and finds nothing (lib.rs:212-214).
FailsForCause ==
    \A c \in Calls :
        pc[c] = "failed" =>
            \/ \A p \in Peers : task[c][p] = "none"
            \/ \E p \in Peers :
                  \/ task[c][p] = "refused"
                  \/ task[c][p] = "exhausted" /\ attempts[c][p] = 1 + MaxRetries

\* The inductive invariant behind these two.  An idle call has forgotten everything,
\* only a call under way has tasks at work, an exhausted task has made its attempts
\* and one about to make another has some left; a call is undisturbed as long as
\* all that may still be executed is of its kind, and then what a task has got done
\* stays done.
Underway == {"ready", "sent", "streaming", "done", "absent", "ok"}

CallsAndTasks ==
    \A c \in Calls :
        /\ pc[c] = "idle" => task[c] = NoTasks /\ attempts[c] = NoAttempts
        /\ pc[c] = "ok" => \A p \in Peers : task[c][p] \in {"none", "joined"}
        /\ pc[c] \in {"joining", "ok"} /\ kind[c] = "preheat" /\ scope[c] = "default" =>
               ReplicaSet \subseteq Addressed(c)
        /\ \A p \in Peers :
               /\ task[c][p] \in Underway => Active(c)
               /\ task[c][p] = "none" => attempts[c][p] = 0
               /\ task[c][p] = "streaming" => kind[c] = "preheat"
               /\ task[c][p] = "ready" => attempts[c][p] <= MaxRetries
               /\ task[c][p] = "exhausted" => attempts[c][p] = 1 + MaxRetries

WorkStaysDone ==
    \A c \in Calls :
        c \in undisturbed =>
            /\ \A d \in Calls : Active(d) => kind[d] = kind[c]
            /\ \A k \in Kinds, p \in Peers : <<k, p>> \in stray => k = kind[c]
            /\ pc[c] # "idle"
            /\ \A p \in Peers :
                   task[c][p] \in {"done", "absent", "ok", "joined"} =>
                       (p \in holds <=> kind[c] = "preheat")

IndInv ==
    /\ TypeOK
    /\ CallsAndTasks
    /\ WorkStaysDone
    /\ FailsForCause

\* Every call returns, whatever attempts fail, however slowly answers begin and whatever
\* the order its tasks end in, as long as no stream of a download it waits for stays
\* silent for ever: a delete always does (lib.rs:1847-1859).  The README promises more of
\* a preheat (rust/README.md:93-96: the timeout applies to each attempt).
EveryCallReturns ==
    \A c \in Calls :
        (\A p \in Peers : []<>~Streaming(c, p)) => []<>~Active(c)

\* What the Rust README says of a delete with the scope AllSeedPeers
\* (rust/README.md:63-65): it removes the file from every seed peer.
DeleteAllRemovesFromEvery ==
    \A c \in Calls :
        /\ pc[c] = "ok" /\ kind[c] = "delete" /\ scope[c] = "all"
        /\ c \in undisturbed
        => holds = {}
================================================================================
