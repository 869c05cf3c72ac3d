-------------------------------- MODULE Rotation --------------------------------
(***************************************************************************)
(* What the retry policy promises of a request, in both SDKs               *)
(* (rust/src/retry.rs, run_with_endpoints; go/retry.go, runWithEndpoints): *)
(* its endpoints stay as they were looked up, every attempt goes to one of *)
(* those tried least so far, there are 1 + MaxRetries attempts at most,    *)
(* and no transient failure is returned before they are made.  ProxyGet    *)
(* and GoGet implement this with a shuffled order and an index that wraps  *)
(* around.                                                                 *)
(***************************************************************************)
EXTENDS Naturals

CONSTANTS
    Callers,        \* each making one request after another
    Endpoints,
    MaxRetries

VARIABLES
    phase,          \* of the request of each caller
    serving,        \* the endpoints looked up for it
    tried,          \* its attempts at each endpoint
    made,           \* its attempts
    ending          \* what it returns

vars == <<phase, serving, tried, made, ending>>

\* The end of the caller's context ends a request in a way of its own.
Endings == {"ok", "transient", "definitive", "ended"}

Untried == [e \in Endpoints |-> 0]

Init ==
    /\ phase = [c \in Callers |-> "idle"]
    /\ serving = [c \in Callers |-> {}]
    /\ tried = [c \in Callers |-> Untried]
    /\ made = [c \in Callers |-> 0]
    /\ ending = [c \in Callers |-> "none"]

\* Some endpoints are looked up for it.
Begin(c) ==
    /\ phase[c] = "idle"
    /\ phase' = [phase EXCEPT ![c] = "trying"]
    /\ \E E \in SUBSET Endpoints :
        /\ E # {}
        /\ serving' = [serving EXCEPT ![c] = E]
    /\ UNCHANGED <<tried, made, ending>>

TriedLeast(c) == {e \in serving[c] : \A f \in serving[c] : tried[c][e] <= tried[c][f]}

\* One more attempt, which does not end the request yet.
Attempt(c) ==
    /\ phase[c] = "trying"
    /\ made[c] < 1 + MaxRetries
    /\ made' = [made EXCEPT ![c] = @ + 1]
    /\ \E e \in TriedLeast(c) : tried' = [tried EXCEPT ![c][e] = @ + 1]
    /\ UNCHANGED <<phase, serving, ending>>

End(c, how, n) ==
    /\ ending' = [ending EXCEPT ![c] = how]
    /\ made' = [made EXCEPT ![c] = n]
    /\ serving' = [serving EXCEPT ![c] = {}]
    /\ tried' = [tried EXCEPT ![c] = Untried]

\* It returns after n attempts, the last of which may be one that ends it at once.
Return(c) ==
    /\ phase[c] = "trying"
    /\ phase' = [phase EXCEPT ![c] = "over"]
    /\ \E how \in Endings, n \in {made[c], made[c] + 1} :
        /\ n <= 1 + MaxRetries
        /\ how = "ok" => n > 0
        /\ how = "transient" => n = 1 + MaxRetries
        /\ End(c, how, n)

\* The request is refused before any attempt.
ReturnInVain(c) ==
    /\ phase[c] = "idle"
    /\ phase' = [phase EXCEPT ![c] = "over"]
    /\ End(c, "definitive", 0)

Take(c) ==
    /\ phase[c] = "over"
    /\ phase' = [phase EXCEPT ![c] = "idle"]
    /\ made' = [made EXCEPT ![c] = 0]
    /\ ending' = [ending EXCEPT ![c] = "none"]
    /\ UNCHANGED <<serving, tried>>

Next ==
    \E c \in Callers :
        \/ Begin(c)
        \/ Attempt(c)
        \/ Return(c)
        \/ ReturnInVain(c)
        \/ Take(c)

Spec == Init /\ [][Next]_vars

\* So no endpoint of a request is ever two attempts ahead of another.
EvenlyTried ==
    \A c \in Callers : \A e, f \in serving[c] : tried[c][e] <= tried[c][f] + 1
================================================================================
