-------------------------------- MODULE Ejection --------------------------------
(***************************************************************************)
(* The ejection of seed peer proxies (rust/src/selector.rs, on_failure,    *)
(* on_success and is_ejected): a proxy whose connection is refused, or     *)
(* that is unreachable, MaxFailedCount times in a row is skipped for a     *)
(* cooldown; any answer of it clears its failures.                         *)
(*                                                                         *)
(* The records live in a concurrent map.  on_failure holds the shard lock  *)
(* of its entry, so it is one step; on_success looks for the entry and     *)
(* removes it under two locks, so it is two.  Instead of the instant of    *)
(* the ejection its age is kept, up to the cooldown: nothing reads more.   *)
(***************************************************************************)
EXTENDS Integers

CONSTANTS
    Endpoints,          \* proxy endpoints
    MaxFailedCount,     \* failures in a row before a proxy is ejected
    Cooldown,           \* ticks an ejected proxy is skipped
    None                \* the ejection time of a proxy not ejected

ASSUME EjectionAssumption ==
    /\ MaxFailedCount \in Nat \ {0}
    /\ Cooldown \in Nat \ {0}
    /\ None \notin Nat

VARIABLES
    known,      \* the endpoints with an entry in the map
    failed,     \* failed_count of each entry, 0 without one
    age,        \* time since ejected_at of each entry, None without one
    inARow      \* connection failures of each proxy since an answer of it was
                \* recorded; from MaxFailedCount on, counted modulo it (history)

ejectionVars == <<known, failed, age, inARow>>

EjectionTypeOK ==
    /\ known \in SUBSET Endpoints
    /\ failed \in [Endpoints -> 0 .. MaxFailedCount - 1]
    /\ age \in [Endpoints -> 0 .. Cooldown \cup {None}]
    /\ inARow \in [Endpoints -> 0 .. 2 * MaxFailedCount - 1]

EjectionInit ==
    /\ known = {}
    /\ failed = [e \in Endpoints |-> 0]
    /\ age = [e \in Endpoints |-> None]
    /\ inARow = [e \in Endpoints |-> 0]

OneMore(n) == IF n = 2 * MaxFailedCount - 1 THEN MaxFailedCount ELSE n + 1

\* Mutant: an ejected proxy keeps its count, so its next failure ejects again.
OnFailureKeepingCount(e) ==
    /\ known' = known \cup {e}
    /\ IF failed[e] + 1 >= MaxFailedCount
       THEN /\ age' = [age EXCEPT ![e] = 0]
            /\ UNCHANGED failed
       ELSE /\ failed' = [failed EXCEPT ![e] = @ + 1]
            /\ UNCHANGED age
    /\ inARow' = [inARow EXCEPT ![e] = OneMore(@)]

OnFailure(e) ==
    /\ known' = known \cup {e}
    /\ IF failed[e] + 1 >= MaxFailedCount
       THEN /\ failed' = [failed EXCEPT ![e] = 0]
            /\ age' = [age EXCEPT ![e] = 0]
       ELSE /\ failed' = [failed EXCEPT ![e] = @ + 1]
            /\ UNCHANGED age
    /\ inARow' = [inARow EXCEPT ![e] = OneMore(@)]

\* on_success, first half: is there an entry to remove?
HasEntry(e) == e \in known

\* on_success, second half: whatever was recorded in between goes too.
RemoveEntry(e) ==
    /\ known' = known \ {e}
    /\ failed' = [failed EXCEPT ![e] = 0]
    /\ age' = [age EXCEPT ![e] = None]
    /\ inARow' = [inARow EXCEPT ![e] = 0]

IsEjected(e) == age[e] # None /\ age[e] < Cooldown

\* Time passes.
Tick ==
    /\ \E e \in Endpoints : IsEjected(e)
    /\ age' = [e \in Endpoints |-> IF IsEjected(e) THEN age[e] + 1 ELSE age[e]]
    /\ UNCHANGED <<known, failed, inARow>>

--------------------------------------------------------------------------------

\* The count is that of failures in a row: fewer than MaxFailedCount of them leave
\* the proxy in service, every MaxFailedCount-th ejects it and starts the count
\* again, and an answer forgets everything (selector.rs:54-56, 291-313).  An
\* answer and a refusal recorded at the same time may not leave half an entry.
CountsFailuresInARow ==
    \A e \in Endpoints :
        /\ inARow[e] < MaxFailedCount => failed[e] = inARow[e] /\ age[e] = None
        /\ inARow[e] >= MaxFailedCount =>
               failed[e] = inARow[e] - MaxFailedCount /\ age[e] # None
        /\ e \notin known => inARow[e] = 0
================================================================================
