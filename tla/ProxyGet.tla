-------------------------------- MODULE ProxyGet --------------------------------
(***************************************************************************)
(* GET requests through the seed peer proxies (rust/src/lib.rs, Proxy::get *)
(* and lookup_proxy_endpoints; retry.rs, run_with_endpoints), any number   *)
(* of them at once on clones of one Proxy sharing its ejections.           *)
(*                                                                         *)
(* A request looks its endpoints up once, shuffles them, and aims every    *)
(* attempt at the next one.  Proxies go down and come up meanwhile.        *)
(***************************************************************************)
EXTENDS Ejection, Sequences, FiniteSets

CONSTANTS
    Requests,       \* concurrent callers of get, each making one after another
    MaxRetries,     \* RetryPolicy.max_retries
    Replicas        \* the healthy replicas the task of a request may have, as they change

ASSUME RetryAssumption ==
    /\ MaxRetries \in Nat
    /\ IsFiniteSet(Endpoints)
    /\ Replicas \in [Requests -> SUBSET SUBSET Endpoints]

VARIABLES
    up,             \* the proxies that accept connections
    pc,             \* where each request is
    order,          \* its endpoints, shuffled
    attempts,       \* attempts made
    outcome,        \* of the last attempt
    tries           \* attempts per endpoint (history)

requestVars == <<pc, order, attempts, outcome, tries>>
vars == <<ejectionVars, up, requestVars>>

\* Outcomes of an attempt: success, or an error that is_retryable or is not.
Outcomes == {"ok", "transient", "definitive"}

NoTries == [e \in Endpoints |-> 0]

ElementsOf(s) == {s[i] : i \in DOMAIN s}

\* All orders of a set of endpoints.
Shuffles(S) ==
    {s \in [1 .. Cardinality(S) -> S] :
        \A i, j \in DOMAIN s : s[i] = s[j] => i = j}

TypeOK ==
    /\ EjectionTypeOK
    /\ up \in SUBSET Endpoints
    /\ pc \in [Requests -> {"idle", "send", "sent", "clear", "decide", "returned"}]
    /\ order \in [Requests -> Seq(Endpoints)]
    /\ attempts \in [Requests -> 0 .. 1 + MaxRetries]
    /\ outcome \in [Requests -> Outcomes]
    /\ tries \in [Requests -> [Endpoints -> Nat]]

Init ==
    /\ EjectionInit
    /\ up = Endpoints
    /\ pc = [r \in Requests |-> "idle"]
    /\ order = [r \in Requests |-> <<>>]
    /\ attempts = [r \in Requests |-> 0]
    /\ outcome = [r \in Requests |-> "ok"]
    /\ tries = [r \in Requests |-> NoTries]

Goto(r, label) == pc' = [pc EXCEPT ![r] = label]

\* A proxy crashes or comes back.
Flip(e) ==
    /\ up' = IF e \in up THEN up \ {e} ELSE up \cup {e}
    /\ UNCHANGED <<ejectionVars, requestVars>>

--------------------------------------------------------------------------------
(* One request. *)

\* Mutant: ejected proxies are not skipped.
ServingAll(S) == S

Serving(S) == {e \in S : ~IsEjected(e)}

\* lookup_proxy_endpoints: the healthy replicas S that are not ejected, or an
\* error when S is empty or all of it is ejected.
Lookup(r, S) ==
    /\ pc[r] = "idle"
    /\ IF Serving(S) = {}
       THEN /\ Goto(r, "returned")
            /\ outcome' = [outcome EXCEPT ![r] = "definitive"]
            /\ UNCHANGED order
       ELSE /\ Goto(r, "send")
            /\ \E s \in Shuffles(Serving(S)) : order' = [order EXCEPT ![r] = s]
            /\ UNCHANGED outcome
    /\ UNCHANGED <<ejectionVars, up, attempts, tries>>

\* Mutant: the order advances with the retries, the first attempt not counted.
RetryTarget(r) ==
    order[r][((IF attempts[r] = 0 THEN 0 ELSE attempts[r] - 1) % Len(order[r])) + 1]

Target(r) == order[r][(attempts[r] % Len(order[r])) + 1]

Aimed(r) == order[r][((attempts[r] - 1) % Len(order[r])) + 1]

Send(r) ==
    /\ pc[r] = "send"
    /\ Goto(r, "sent")
    /\ attempts' = [attempts EXCEPT ![r] = @ + 1]
    /\ tries' = [tries EXCEPT ![r][Target(r)] = @ + 1]
    /\ UNCHANGED <<ejectionVars, up, order, outcome>>

\* EjectionMiddleware: the connection is refused, or the proxy unreachable.
Refused(r) ==
    /\ pc[r] = "sent"
    /\ Aimed(r) \notin up
    /\ OnFailure(Aimed(r))
    /\ outcome' = [outcome EXCEPT ![r] = "transient"]
    /\ Goto(r, "decide")
    /\ UNCHANGED <<up, order, attempts, tries>>

\* EjectionMiddleware: any response is a success of the proxy, whatever its
\* status, and whether or not its body then breaks.
Answered(r, o) ==
    /\ pc[r] = "sent"
    /\ Aimed(r) \in up
    /\ outcome' = [outcome EXCEPT ![r] = o]
    /\ Goto(r, IF HasEntry(Aimed(r)) THEN "clear" ELSE "decide")
    /\ UNCHANGED <<ejectionVars, up, order, attempts, tries>>

Clear(r) ==
    /\ pc[r] = "clear"
    /\ RemoveEntry(Aimed(r))
    /\ Goto(r, "decide")
    /\ UNCHANGED <<up, order, attempts, outcome, tries>>

\* No answer and no refusal: a timeout or a reset connection, which are
\* transient, or headers that cannot be built, which is definitive.
Unrecorded(r, o) ==
    /\ pc[r] = "sent"
    /\ o # "ok"
    /\ outcome' = [outcome EXCEPT ![r] = o]
    /\ Goto(r, "decide")
    /\ UNCHANGED <<ejectionVars, up, order, attempts, tries>>

WillRetry(r) == outcome[r] = "transient" /\ attempts[r] < 1 + MaxRetries

\* Mutant: one retry too few.
DecideEarly(r) ==
    /\ pc[r] = "decide"
    /\ Goto(r, IF WillRetry(r) /\ attempts[r] < MaxRetries THEN "send" ELSE "returned")
    /\ UNCHANGED <<ejectionVars, up, order, attempts, outcome, tries>>

\* The retry loop: return, or go on to the next endpoint after the delay.
Decide(r) ==
    /\ pc[r] = "decide"
    /\ Goto(r, IF WillRetry(r) THEN "send" ELSE "returned")
    /\ UNCHANGED <<ejectionVars, up, order, attempts, outcome, tries>>

\* The caller takes the result and is free to make another request.
TakeResult(r) ==
    /\ pc[r] = "returned"
    /\ Goto(r, "idle")
    /\ order' = [order EXCEPT ![r] = <<>>]
    /\ attempts' = [attempts EXCEPT ![r] = 0]
    /\ outcome' = [outcome EXCEPT ![r] = "ok"]
    /\ tries' = [tries EXCEPT ![r] = NoTries]
    /\ UNCHANGED <<ejectionVars, up>>

--------------------------------------------------------------------------------

Progress(r) ==
    \/ Send(r)
    \/ Refused(r)
    \/ \E o \in Outcomes : Answered(r, o) \/ Unrecorded(r, o)
    \/ Clear(r)
    \/ Decide(r)
    \/ TakeResult(r)

TimePasses ==
    /\ Tick
    /\ UNCHANGED <<up, requestVars>>

Next ==
    \/ \E e \in Endpoints : Flip(e)
    \/ \E r \in Requests : Progress(r) \/ \E S \in Replicas[r] : Lookup(r, S)
    \/ TimePasses

Spec == Init /\ [][Next]_vars

\* Time does not stop.  Nothing is asked of the requests: they may hang.
FairSpec == Spec /\ WF_vars(TimePasses)

--------------------------------------------------------------------------------
(* Properties, beside CountsFailuresInARow of Ejection. *)

\* Retries are spread evenly: no endpoint of a request is ever two attempts ahead
\* of another, wherever the rotation wraps around (retry.rs:19-29).
EvenRotation ==
    \A r \in Requests : \A e, f \in ElementsOf(order[r]) :
        tries[r][e] <= tries[r][f] + 1

\* A request gives up on a transient failure only when its attempts are used up,
\* and if they are at least as many as its replicas none of these was left out:
\* a single live replica is always found.
GivesUpOnlyAfterTheRound ==
    \A r \in Requests :
        pc[r] = "returned" /\ outcome[r] = "transient" =>
            /\ attempts[r] = 1 + MaxRetries
            /\ 1 + MaxRetries >= Len(order[r]) =>
                   \A e \in ElementsOf(order[r]) : tries[r][e] > 0

\* The inductive invariant behind these two: a request on its way has an order of
\* different endpoints, attempts to spare before it sends and one at least after,
\* and the attempts of its m-th lap of the order have reached the endpoints up to
\* attempts % Len(order).
OnItsWay(r) ==
    /\ \A i, j \in DOMAIN order[r] : order[r][i] = order[r][j] => i = j
    /\ pc[r] \in {"send", "sent", "clear", "decide"} => order[r] # <<>>
    /\ pc[r] = "idle" => order[r] = <<>> /\ attempts[r] = 0 /\ tries[r] = NoTries
    /\ pc[r] = "send" => attempts[r] <= MaxRetries
    /\ pc[r] \in {"sent", "clear", "decide"} => attempts[r] >= 1
    /\ pc[r] = "returned" /\ outcome[r] = "transient" => attempts[r] = 1 + MaxRetries

Lap(r, m) ==
    /\ \A i \in DOMAIN order[r] :
           tries[r][order[r][i]] =
               IF i <= attempts[r] % Len(order[r]) THEN m + 1 ELSE m
    /\ m = 0 => attempts[r] < Len(order[r])

InsideALap(r) ==
    order[r] # <<>> => \E m \in 0 .. attempts[r] : Lap(r, m)

IndInv ==
    /\ TypeOK
    /\ CountsFailuresInARow
    /\ \A r \in Requests : OnItsWay(r) /\ InsideALap(r)

\* The retry policy of Rotation, as it is carried out here: what an attempt has met
\* is known to it when the next is made or the request returns.
Trying(r) == pc[r] \in {"send", "sent", "clear", "decide"}

Phase ==
    [r \in Requests |-> IF Trying(r) THEN "trying"
                       ELSE IF pc[r] = "idle" THEN "idle" ELSE "over"]
ServedBy == [r \in Requests |-> IF Trying(r) THEN ElementsOf(order[r]) ELSE {}]
Tried == [r \in Requests |-> IF Trying(r) THEN tries[r] ELSE NoTries]
Ending == [r \in Requests |-> IF pc[r] = "returned" THEN outcome[r] ELSE "none"]

Policy == INSTANCE Rotation
    WITH Callers <- Requests, phase <- Phase, serving <- ServedBy, tried <- Tried,
         made <- attempts, ending <- Ending

\* The requests go by the retry policy: every attempt, to an endpoint tried least, and
\* every return (retry.rs:95-159).
RotationSpec == Policy!Spec

\* No proxy stays ejected for ever, even one that stays down while requests keep
\* coming: those already under way may prolong its ejection, but no new request
\* is sent to it, so the cooldown runs out.
EjectionEnds == \A e \in Endpoints : []<>~IsEjected(e)
================================================================================
