-------------------------------- MODULE GoFanOut --------------------------------
(***************************************************************************)
(* Preheating and deleting an image with the Go SDK (go/preheat.go,        *)
(* go/delete.go): an errgroup runs the targets, the manifests and blobs,   *)
(* no more than Limit of them at a time, and each target runs the seed     *)
(* peers it addresses in an errgroup of its own, with retries against the  *)
(* same seed peer.  The first error of a group is the one it returns, and  *)
(* cancels the context of the others; the group waits for all of them      *)
(* nevertheless.  A file alone is an image of one target.                  *)
(*                                                                         *)
(* Preheating and deleting differ in the request and in what may go wrong  *)
(* when the seed peers are selected, which is free here.  What the seed    *)
(* peers hold afterwards is the subject of FanOut: here a request is       *)
(* answered or it fails.                                                   *)
(***************************************************************************)
EXTENDS Integers, FiniteSets

CONSTANTS
    NumTargets,     \* the targets are spawned in the order of their URLs
    Peers,          \* the seed peers
    Limit,          \* request.concurrentTaskCount
    MaxRetries      \* retryPolicy.maxRetries

ASSUME GoFanOutAssumption ==
    /\ NumTargets \in Nat
    /\ Limit \in Nat \ {0}
    /\ MaxRetries \in Nat
    /\ IsFiniteSet(Peers)

Targets == 1 .. NumTargets

VARIABLES
    pc,             \* where the call is
    target,         \* the goroutine of each target
    task,           \* and that of each seed peer of a target
    attempts,       \* its attempts
    innerErr,       \* the first error of the group of each target
    outerErr,       \* the first error of the group of the targets
    callerDone      \* the caller's context has ended

vars == <<pc, target, task, attempts, innerErr, outerErr, callerDone>>

Errors == {"cause", "cancelled"}

TypeOK ==
    /\ pc \in {"idle", "running", "ok", "failed"}
    /\ target \in [Targets -> {"none", "selecting", "waiting", "over"}]
    /\ task \in [Targets -> [Peers -> {"none", "ready", "sent", "ok", "failed"}]]
    /\ attempts \in [Targets -> [Peers -> 0 .. 1 + MaxRetries]]
    /\ innerErr \in [Targets -> Errors \cup {"none"}]
    /\ outerErr \in Errors \cup {"none"}
    /\ callerDone \in BOOLEAN

Nothing == [t \in Targets |-> [p \in Peers |-> "none"]]
NoAttempts == [t \in Targets |-> [p \in Peers |-> 0]]

Init ==
    /\ pc = "idle"
    /\ target = [t \in Targets |-> "none"]
    /\ task = Nothing
    /\ attempts = NoAttempts
    /\ innerErr = [t \in Targets |-> "none"]
    /\ outerErr = "none"
    /\ callerDone = FALSE

--------------------------------------------------------------------------------
(* The two levels of errgroups. *)

AtWork == {t \in Targets : target[t] \in {"selecting", "waiting"}}

\* The context the goroutines of target t run under.
CtxDone(t) == callerDone \/ outerErr # "none" \/ innerErr[t] # "none"

\* Mutant: the last error is kept.
Last(kept, err) == IF err = "none" THEN kept ELSE err

First(kept, err) == IF kept = "none" THEN err ELSE kept

\* The image has been resolved.
Call ==
    /\ pc = "idle"
    /\ pc' = "running"
    /\ UNCHANGED <<target, task, attempts, innerErr, outerErr, callerDone>>

\* It cannot be.
CallInVain ==
    /\ pc = "idle"
    /\ pc' = "failed"
    /\ outerErr' = "cause"
    /\ UNCHANGED <<target, task, attempts, innerErr, callerDone>>

\* Mutant: a goroutine that is over does not leave its place to the next one.
SpawnOverAll(t) ==
    /\ pc = "running"
    /\ target[t] = "none"
    /\ \A u \in 1 .. t - 1 : target[u] # "none"
    /\ t <= Limit
    /\ target' = [target EXCEPT ![t] = "selecting"]
    /\ UNCHANGED <<pc, task, attempts, innerErr, outerErr, callerDone>>

\* Go starts the goroutine of the next target, having waited for a place if need be;
\* also when the group has failed already.
Spawn(t) ==
    /\ pc = "running"
    /\ target[t] = "none"
    /\ \A u \in 1 .. t - 1 : target[u] # "none"
    /\ Cardinality(AtWork) < Limit
    /\ target' = [target EXCEPT ![t] = "selecting"]
    /\ UNCHANGED <<pc, task, attempts, innerErr, outerErr, callerDone>>

\* The goroutine of a target selects the seed peers S and starts theirs.
Select(t, S) ==
    /\ target[t] = "selecting"
    /\ target' = [target EXCEPT ![t] = "waiting"]
    /\ task' = [task EXCEPT ![t] = [p \in Peers |-> IF p \in S THEN "ready" ELSE "none"]]
    /\ UNCHANGED <<pc, attempts, innerErr, outerErr, callerDone>>

\* There are none, or too few to preheat.
SelectInVain(t) ==
    /\ target[t] = "selecting"
    /\ target' = [target EXCEPT ![t] = "over"]
    /\ outerErr' = First(outerErr, "cause")
    /\ UNCHANGED <<pc, task, attempts, innerErr, callerDone>>

\* The group of a target waits for all of its goroutines and returns its error.
Wait(t) ==
    /\ target[t] = "waiting"
    /\ \A p \in Peers : task[t][p] \in {"none", "ok", "failed"}
    /\ target' = [target EXCEPT ![t] = "over"]
    /\ outerErr' = First(outerErr, innerErr[t])
    /\ UNCHANGED <<pc, task, attempts, innerErr, callerDone>>

\* Mutant: the first error is returned at once.
ReturnAtOnce ==
    /\ pc = "running"
    /\ outerErr # "none" \/ \A t \in Targets : target[t] = "over"
    /\ pc' = IF outerErr = "none" THEN "ok" ELSE "failed"
    /\ UNCHANGED <<target, task, attempts, innerErr, outerErr, callerDone>>

\* All targets have been spawned and are over: Wait returns.
Return ==
    /\ pc = "running"
    /\ \A t \in Targets : target[t] = "over"
    /\ pc' = IF outerErr = "none" THEN "ok" ELSE "failed"
    /\ UNCHANGED <<target, task, attempts, innerErr, outerErr, callerDone>>

--------------------------------------------------------------------------------
(* One seed peer: retryPolicy.run of an attempt that sends one request. *)

SetTask(t, p, state) == task' = [task EXCEPT ![t][p] = state]

\* The goroutine fails; its attempts are forgotten.
Fail(t, p, err) ==
    /\ SetTask(t, p, "failed")
    /\ attempts' = [attempts EXCEPT ![t][p] = 0]
    /\ innerErr' = [innerErr EXCEPT ![t] = First(@, err)]

\* The request is sent, unless the context is done already.
Send(t, p) ==
    /\ task[t][p] = "ready"
    /\ ~CtxDone(t)
    /\ SetTask(t, p, "sent")
    /\ attempts' = [attempts EXCEPT ![t][p] = @ + 1]
    /\ UNCHANGED <<pc, target, innerErr, outerErr, callerDone>>

\* Its answer arrives, or the stream of a download ends; NotFound counts as deleted.
Answer(t, p) ==
    /\ task[t][p] = "sent"
    /\ SetTask(t, p, "ok")
    /\ attempts' = [attempts EXCEPT ![t][p] = 0]
    /\ UNCHANGED <<pc, target, innerErr, outerErr, callerDone>>

LastTry(t, p) == attempts[t][p] = 1 + MaxRetries

\* The attempt fails transiently, by its timeout at the latest.
Transient(t, p) ==
    /\ task[t][p] = "sent"
    /\ IF LastTry(t, p) THEN Fail(t, p, "cause")
       ELSE IF CtxDone(t) THEN Fail(t, p, "cancelled")
       ELSE SetTask(t, p, "ready") /\ UNCHANGED <<attempts, innerErr>>
    /\ UNCHANGED <<pc, target, outerErr, callerDone>>

\* The seed peer refuses the request definitively.
Refuse(t, p) ==
    /\ task[t][p] = "sent"
    /\ Fail(t, p, "cause")
    /\ UNCHANGED <<pc, target, outerErr, callerDone>>

\* The context is done: the attempt under way is cancelled, one that would begin
\* fails at once and a wait for the next ends.
Cancel(t, p) ==
    /\ task[t][p] \in {"ready", "sent"}
    /\ CtxDone(t)
    /\ Fail(t, p, "cancelled")
    /\ UNCHANGED <<pc, target, outerErr, callerDone>>

--------------------------------------------------------------------------------

CallerEnds ==
    /\ pc = "running"
    /\ ~callerDone
    /\ callerDone' = TRUE
    /\ UNCHANGED <<pc, target, task, attempts, innerErr, outerErr>>

\* The caller takes the result and may call again.
TakeResult ==
    /\ pc \in {"ok", "failed"}
    /\ pc' = "idle"
    /\ target' = [t \in Targets |-> "none"]
    /\ task' = Nothing
    /\ innerErr' = [t \in Targets |-> "none"]
    /\ outerErr' = "none"
    /\ callerDone' = FALSE
    /\ UNCHANGED attempts

\* What the goroutines of the call do by themselves, an attempt being bounded by
\* its timeout.
Progress ==
    \/ Return
    \/ \E t \in Targets :
          \/ Spawn(t) \/ SelectInVain(t) \/ Wait(t)
          \/ \E S \in (SUBSET Peers) \ {{}} : Select(t, S)
          \/ \E p \in Peers : Send(t, p) \/ Transient(t, p) \/ Cancel(t, p)

Next ==
    \/ Call \/ CallInVain \/ CallerEnds \/ TakeResult
    \/ Progress
    \/ \E t \in Targets, p \in Peers : Answer(t, p) \/ Refuse(t, p)

Spec == Init /\ [][Next]_vars

\* The goroutines run and the timeout of every attempt passes; nothing is assumed of
\* the seed peers.
FairSpec == Spec /\ WF_vars(Progress)

--------------------------------------------------------------------------------
(* Properties. *)

\* A call leaves no goroutine behind, whether it succeeds or fails, and when it
\* succeeds every target has been answered for by every seed peer it addressed
\* (preheat.go:167-171, "downloading ... manifests ... and each blob").
AllIsDoneAtReturn ==
    pc \in {"ok", "failed"} =>
        /\ AtWork = {}
        /\ \A t \in Targets, p \in Peers :
               task[t][p] \in (IF pc = "ok" THEN {"none", "ok"} ELSE {"none", "ok", "failed"})

\* A failed call reports what went wrong, never that one goroutine was cancelled
\* because of another; only its caller's context ending is reported as such
\* (preheat.go:103-113, retry.go:65-68).
ReportsTheCause ==
    pc = "failed" /\ ~callerDone => outerErr = "cause"

\* The inductive invariant behind these.  A goroutine has attempts to spare when it is
\* about to send, and what failed is kept as the error of its group; a target that is
\* over has handed its error on; and being cancelled is kept first only if the caller
\* cancelled, or if the outer group has a cause already.
Tried(t, p) ==
    /\ task[t][p] \in {"none", "ok", "failed"} => attempts[t][p] = 0
    /\ task[t][p] = "ready" => attempts[t][p] <= MaxRetries
    /\ task[t][p] = "failed" => innerErr[t] # "none"
    /\ target[t] = "over" => task[t][p] \in {"none", "ok", "failed"}
    /\ target[t] \in {"none", "selecting"} => task[t][p] = "none"

Kept(t) ==
    /\ target[t] = "none" => innerErr[t] = "none"
    /\ target[t] = "over" /\ innerErr[t] # "none" => outerErr # "none"
    /\ innerErr[t] = "cancelled" => callerDone \/ outerErr = "cause"

Stage ==
    /\ pc = "idle" => outerErr = "none" /\ \A t \in Targets : target[t] = "none"
    /\ pc = "ok" => outerErr = "none" /\ \A t \in Targets : target[t] = "over"
    /\ pc = "failed" =>
           outerErr # "none" /\ \E state \in {"none", "over"} :
                                    \A t \in Targets : target[t] = state
    /\ outerErr = "cancelled" => callerDone

IndInv ==
    /\ TypeOK
    /\ \A t \in Targets : Kept(t) /\ \A p \in Peers : Tried(t, p)
    /\ Stage

\* Every call returns, however many targets wait for a place.
EveryCallReturns == pc = "running" ~> pc # "running"
================================================================================
