---------------------------------- MODULE GoGet ----------------------------------
(***************************************************************************)
(* A GET of the Go SDK (go/proxy.go, Get and GetInto; go/retry.go): the    *)
(* endpoints are looked up and shuffled, and each attempt goes through the *)
(* pooled client of the next one under a timeout of its own.  The context  *)
(* of an attempt is cancelled when the attempt fails; that of the attempt  *)
(* that succeeds stays until its body has been read, has broken or is      *)
(* closed, by the caller of Get or by GetInto itself.                      *)
(*                                                                         *)
(* Which endpoints a look-up returns, and what the answers of the proxies  *)
(* do to their ejection, is the subject of ProxyGet: here it is any of     *)
(* LookUps.  Proxies and callers are external, the order of events free.   *)
(***************************************************************************)
EXTENDS GoPool, SequencesExt

CONSTANTS
    Requests,       \* concurrent callers, each making one call after another
    MaxRetries,     \* retryPolicy.maxRetries
    LookUps         \* the sets of endpoints a look-up may return

ASSUME GetAssumption ==
    /\ MaxRetries \in Nat
    /\ IsFiniteSet(Requests)
    /\ IsFiniteSet(Endpoints)
    /\ LookUps \subseteq (SUBSET Endpoints) \ {{}}

VARIABLES
    pc,             \* where each call is
    order,          \* its shuffled endpoints
    tries,          \* its attempts so far
    holds,          \* whether the client of its attempt is still in the pool
    live,           \* its attempts whose cancel function has not been called
    done,           \* whether and how its context has ended: only that of the current
                    \* attempt, by its timeout, or the caller's, for good
    result          \* what it returned

callVars == <<pc, order, tries, holds, live, done, result>>
vars == <<poolVars, callVars>>

Orders == UNION {SetToSeqs(E) : E \in LookUps}
Results == {"none", "ok", "definitive", "transient", "cancelled", "expired", "body"}

Ended == {"cancelled", "expired"}

TypeOK ==
    /\ PoolTypeOK
    /\ pc \in [Requests ->
                  {"idle", "ready", "guard", "sending", "streaming", "draining", "returned"}]
    /\ order \in [Requests -> Orders \cup {<<>>}]
    /\ tries \in [Requests -> 0 .. 1 + MaxRetries]
    /\ holds \in [Requests -> {"none", "pooled", "removed"}]
    /\ live \in [Requests -> SUBSET (1 .. 1 + MaxRetries)]
    /\ done \in [Requests -> {"no", "timeout", "cancelled", "expired"}]
    /\ result \in [Requests -> Results]

Init ==
    /\ PoolInit
    /\ pc = [r \in Requests |-> "idle"]
    /\ order = [r \in Requests |-> <<>>]
    /\ tries = [r \in Requests |-> 0]
    /\ holds = [r \in Requests |-> "none"]
    /\ live = [r \in Requests |-> {}]
    /\ done = [r \in Requests |-> "no"]
    /\ result = [r \in Requests |-> "none"]

--------------------------------------------------------------------------------
(* The call. *)

Goto(r, label) == pc' = [pc EXCEPT ![r] = label]

\* The call is over; the endpoints are forgotten.
Return(r, res) ==
    /\ Goto(r, "returned")
    /\ order' = [order EXCEPT ![r] = <<>>]
    /\ result' = [result EXCEPT ![r] = res]

\* Look up the endpoints and shuffle them.
Call(r, o) ==
    /\ pc[r] = "idle"
    /\ Goto(r, "ready")
    /\ order' = [order EXCEPT ![r] = o]
    /\ UNCHANGED <<poolVars, tries, holds, live, done, result>>

\* The request is invalid, or no seed peer is left to serve it.
CallInVain(r) ==
    /\ pc[r] = "idle"
    /\ Return(r, "definitive")
    /\ UNCHANGED <<poolVars, tries, holds, live, done>>

\* Mutant: the order advances with the retries, the first attempt not counted.
AimedByRetry(r, n) == order[r][((IF n = 1 THEN 0 ELSE n - 2) % Len(order[r])) + 1]

\* The endpoint of attempt n, and that of the attempt under way.
Aimed(r, n) == order[r][((n - 1) % Len(order[r])) + 1]
Target(r) == Aimed(r, tries[r])

LastTry(n) == n = 1 + MaxRetries

\* Mutant: the retries run under the context of the attempt.
DecideOnAttempt(r, n, err) ==
    IF err = "definitive" \/ LastTry(n) THEN Return(r, err)
    ELSE IF done[r] # "no" THEN Return(r, "expired")
    ELSE Goto(r, "ready") /\ UNCHANGED <<order, result>>

\* Attempt n has failed with err; what backoff.Retry does next.  When the caller's
\* context has ended the call says so: ErrInternal for a cancelled one,
\* ErrRequestTimeout for an expired one.
Decide(r, n, err) ==
    IF err = "definitive" \/ LastTry(n) THEN Return(r, err)
    ELSE IF done[r] \in Ended THEN Return(r, done[r])
    ELSE Goto(r, "ready") /\ UNCHANGED <<order, result>>

\* What request q holds after the cleanup of a call of Entry now.
HeldStill(q) ==
    IF holds[q] = "pooled" /\ Target(q) \in Swept THEN "removed" ELSE holds[q]

\* An attempt begins: its timeout starts and it gets the client of its endpoint.
Attempt(r) ==
    /\ pc[r] = "ready"
    /\ Goto(r, "guard")
    /\ tries' = [tries EXCEPT ![r] = @ + 1]
    /\ live' = [live EXCEPT ![r] = @ \cup {tries[r] + 1}]
    /\ Entry(Aimed(r, tries[r] + 1))
    /\ holds' = [q \in Requests |-> IF q = r THEN "pooled" ELSE HeldStill(q)]
    /\ UNCHANGED <<order, done, result>>

\* Or there is no making that client, and the attempt fails.
AttemptInVain(r) ==
    /\ pc[r] = "ready"
    /\ EntryFails(Aimed(r, tries[r] + 1))
    /\ tries' = [tries EXCEPT ![r] = @ + 1]
    /\ holds' = [q \in Requests |-> HeldStill(q)]
    /\ Decide(r, tries[r] + 1, "transient")
    /\ UNCHANGED <<live, done>>

TakeGuard(r) ==
    /\ pc[r] = "guard"
    /\ Goto(r, "sending")
    /\ IF holds[r] = "pooled" THEN Guard(Target(r)) ELSE UNCHANGED active
    /\ UNCHANGED <<pooled, idle, sinceCleanup, order, tries, holds, live, done,
                   result>>

\* The client is done with: the deferred Done.
Release(r) ==
    /\ IF holds[r] = "pooled" THEN Done(Target(r)) ELSE UNCHANGED active
    /\ holds' = [holds EXCEPT ![r] = "none"]
    /\ UNCHANGED <<pooled, idle, sinceCleanup>>

\* A response has come.  Up to here Get and GetInto are the same: now Get returns
\* it, for its caller to read ("streaming"), and GetInto reads it ("draining").
Respond(r, label) ==
    /\ pc[r] = "sending"
    /\ Goto(r, label)
    /\ order' = [order EXCEPT ![r] = <<>>]
    /\ Release(r)
    /\ UNCHANGED <<tries, live, done, result>>

\* Cancel the current attempt's context.
CancelAttempt(r) ==
    /\ live' = [live EXCEPT ![r] = @ \ {tries[r]}]
    /\ done' = [done EXCEPT ![r] = IF @ = "timeout" THEN "no" ELSE @]

\* Mutant: the error is returned before the guard is released.
FailUnreleased(r, err) ==
    /\ pc[r] = "sending"
    /\ holds' = [holds EXCEPT ![r] = "none"]
    /\ CancelAttempt(r)
    /\ Decide(r, tries[r], err)
    /\ UNCHANGED <<poolVars, tries>>

\* Mutant: a failed attempt's timer is left to run out.
FailUncancelled(r, err) ==
    /\ pc[r] = "sending"
    /\ Release(r)
    /\ done' = [done EXCEPT ![r] = IF @ = "timeout" THEN "no" ELSE @]
    /\ Decide(r, tries[r], err)
    /\ UNCHANGED <<tries, live>>

Fail(r, err) ==
    /\ pc[r] = "sending"
    /\ Release(r)
    /\ CancelAttempt(r)
    /\ Decide(r, tries[r], err)
    /\ UNCHANGED tries

\* The attempt fails because its context is done.
FailCtx(r) ==
    /\ done[r] # "no"
    /\ Fail(r, "transient")

\* The caller's context ends while the call waits to try again.
GiveUp(r) ==
    /\ pc[r] = "ready"
    /\ tries[r] > 0
    /\ done[r] \in Ended
    /\ Return(r, done[r])
    /\ UNCHANGED <<poolVars, tries, holds, live, done>>

Reading(r) == pc[r] \in {"streaming", "draining"}

\* The body is over: read to the end or closed by the caller (ok), or broken.
BodyEnds(r, ok) ==
    /\ Reading(r)
    /\ CancelAttempt(r)
    /\ Return(r, IF ok \/ pc[r] = "streaming" THEN "ok" ELSE "body")
    /\ UNCHANGED <<poolVars, tries, holds>>

BodyCtx(r) == done[r] # "no" /\ BodyEnds(r, FALSE)

\* The timeout of an attempt passes.
\* Mutant: it bounds the attempt up to the response only.
ExpireUnanswered(r) ==
    /\ pc[r] \in {"guard", "sending"}
    /\ done[r] = "no"
    /\ done' = [done EXCEPT ![r] = "timeout"]
    /\ UNCHANGED <<poolVars, pc, order, tries, holds, live, result>>

Expire(r) ==
    /\ live[r] # {}
    /\ done[r] = "no"
    /\ done' = [done EXCEPT ![r] = "timeout"]
    /\ UNCHANGED <<poolVars, pc, order, tries, holds, live, result>>

\* The caller cancels its context, or that expires.
CallerEnds(r, how) ==
    /\ pc[r] \notin {"idle", "returned"}
    /\ done[r] \notin Ended
    /\ done' = [done EXCEPT ![r] = how]
    /\ UNCHANGED <<poolVars, pc, order, tries, holds, live, result>>

\* The caller takes the result and may call again.
TakeResult(r) ==
    /\ pc[r] = "returned"
    /\ Goto(r, "idle")
    /\ tries' = [tries EXCEPT ![r] = 0]
    /\ done' = [done EXCEPT ![r] = "no"]
    /\ result' = [result EXCEPT ![r] = "none"]
    /\ UNCHANGED <<poolVars, order, holds, live>>

--------------------------------------------------------------------------------

\* What the call does by itself, its timeouts included.
Progress(r) ==
    \/ Attempt(r) \/ TakeGuard(r) \/ GiveUp(r)
    \/ Expire(r) \/ FailCtx(r) \/ BodyCtx(r)

Next ==
    \/ Tick /\ UNCHANGED callVars
    \/ \E r \in Requests :
          \/ \E o \in Orders : Call(r, o)
          \/ CallInVain(r)
          \/ Progress(r)
          \/ AttemptInVain(r)
          \/ \E label \in {"streaming", "draining"} : Respond(r, label)
          \/ \E err \in {"definitive", "transient"} : Fail(r, err)
          \/ \E ok \in BOOLEAN : BodyEnds(r, ok)
          \/ \E how \in Ended : CallerEnds(r, how)
          \/ TakeResult(r)

Spec == Init /\ [][Next]_vars

\* The goroutine of a call runs, timers fire, and net/http fails a request and the
\* reading of a body when their context is done.  Nothing is assumed of the proxies.
FairSpec == Spec /\ \A r \in Requests : WF_vars(Progress(r))

--------------------------------------------------------------------------------
(* Properties. *)

\* Only the attempt under way has a context to cancel, and its body is read under
\* it: no timer outlives its attempt, and none is cancelled while its response is
\* in the caller's hands (retry.go:102-104, proxy.go:440-465).
OneTimerPerAttempt ==
    \A r \in Requests :
        live[r] = IF Reading(r) \/ pc[r] \in {"guard", "sending"} THEN {tries[r]} ELSE {}

\* The count of active requests of a client is the number of requests being sent
\* through it, however they end and whatever is cleaned up meanwhile: a client is
\* neither kept for ever nor taken for idle (pool.go:32-41, 63-68).
GuardsAddUp ==
    \A e \in Endpoints :
        active[e] = Cardinality({r \in Requests :
                        pc[r] = "sending" /\ holds[r] = "pooled" /\ Target(r) = e})

\* A transient failure is returned only when the attempts are used up; else the
\* retries end only with the caller's context, never with the timeout of an
\* attempt, which is its child (retry.go:65-68, 127-135).
GivesUpForCause ==
    \A r \in Requests :
        pc[r] = "returned" =>
            /\ result[r] = "transient" => tries[r] = 1 + MaxRetries
            /\ result[r] \in Ended => done[r] = result[r]

\* A cleanup never removes a client a request is being sent through, and one just
\* handed out only from a crowded pool or when it has idled since (pool.go:167-190).
ClientsInUseStay ==
    [][ \A e \in pooled \ pooled', r \in Requests :
            holds[r] = "pooled" /\ Target(r) = e =>
                pc[r] = "guard" /\ (Crowded \/ idle[e] > IdleTimeout) ]_vars

\* The inductive invariant behind these: a call has endpoints, and an attempt to spare
\* when it is about to begin one; it holds a client from Entry to the end of the
\* attempt, which stays in the pool unless it is seen to be removed.
Holding(r) ==
    /\ pc[r] \in {"ready", "guard", "sending"} => order[r] # <<>>
    /\ pc[r] = "idle" => tries[r] = 0
    /\ pc[r] = "ready" => tries[r] <= MaxRetries
    /\ pc[r] \in {"guard", "sending"} => tries[r] >= 1
    /\ holds[r] # "none" <=> pc[r] \in {"guard", "sending"}
    /\ holds[r] = "pooled" => Target(r) \in pooled

IndInv ==
    /\ TypeOK
    /\ \A r \in Requests : Holding(r)
    /\ OneTimerPerAttempt
    /\ GuardsAddUp
    /\ GivesUpForCause

\* The retry policy of Rotation, as it is carried out here.  It is over when the
\* response has come; what becomes of the body is not its business.
Trying(r) == pc[r] \in {"ready", "guard", "sending"}

AimedAt(r, e) == {n \in 1 .. tries[r] : Aimed(r, n) = e}

Phase ==
    [r \in Requests |-> IF Trying(r) THEN "trying"
                       ELSE IF pc[r] = "idle" THEN "idle" ELSE "over"]
ServedBy == [r \in Requests |-> IF Trying(r) THEN ToSet(order[r]) ELSE {}]
Tried ==
    [r \in Requests |-> [e \in Endpoints |->
                            IF Trying(r) THEN Cardinality(AimedAt(r, e)) ELSE 0]]
Ending ==
    [r \in Requests |->
        IF Trying(r) \/ pc[r] = "idle" THEN "none"
        ELSE IF Reading(r) \/ result[r] \in {"ok", "body"} THEN "ok"
        ELSE IF result[r] \in Ended THEN "ended" ELSE result[r]]

Policy == INSTANCE Rotation
    WITH Callers <- Requests, phase <- Phase, serving <- ServedBy, tried <- Tried,
         made <- tries, ending <- Ending

\* The requests go by the retry policy: every attempt, to an endpoint tried least, and
\* every return (retry.go:51-153).
RotationSpec == Policy!Spec

\* So the retries of a call are spread evenly over its endpoints, wherever the rotation
\* wraps around (retry.go:84-86).
EvenRotation == Policy!EvenlyTried

\* What is invariant behind both: the attempts of the m-th lap of the order have reached
\* the endpoints up to tries % Len(order).
Lap(r, m) ==
    \A i \in DOMAIN order[r] :
        Cardinality(AimedAt(r, order[r][i])) =
            IF i <= tries[r] % Len(order[r]) THEN m + 1 ELSE m

InLaps == \A r \in Requests : Trying(r) => \E m \in 0 .. tries[r] : Lap(r, m)

\* Every call returns, whatever the proxies do: GetInto with the body read.
Calling(r) == pc[r] \in {"ready", "guard", "sending", "draining"}

EveryCallReturns == \A r \in Requests : []<>~Calling(r)
================================================================================
