----------------------------- MODULE SeedPeerTable -----------------------------
(***************************************************************************)
(* What the seed peer selector promises its readers, whatever it does      *)
(* inside: the table of seed peers changes only by taking over ONE listing *)
(* whole, in a single step that lies between the call that brought the     *)
(* listing and its return, and the ring changes in that same step.         *)
(* SeedPeerSelector implements this with a comparison, a rebuild outside   *)
(* the lock and an installation.                                           *)
(***************************************************************************)

CONSTANTS
    Callers,    \* the tasks that refresh or update the table
    Tables      \* the tables a listing can make, functions from host names

VARIABLES
    table,      \* the seed peers by host name
    ring,       \* the names on the hash ring
    offered     \* per caller, the listing it has brought: none or one

vars == <<table, ring, offered>>

Init ==
    /\ table \in Tables /\ DOMAIN table = {}
    /\ ring = {}
    /\ offered = [t \in Callers |-> {}]

\* A caller brings a listing.
Offer(t, m) ==
    /\ offered[t] = {}
    /\ offered' = [offered EXCEPT ![t] = {m}]
    /\ UNCHANGED <<table, ring>>

\* The listing becomes the table, and its names the ring, at once.
TakeOver(t) ==
    /\ \E m \in offered[t] : table' = m /\ ring' = DOMAIN m
    /\ offered' = [offered EXCEPT ![t] = {}]

\* A listing may be abandoned, leaving no trace.
Abandon(t) ==
    /\ offered[t] # {}
    /\ offered' = [offered EXCEPT ![t] = {}]
    /\ UNCHANGED <<table, ring>>

Next ==
    \E t \in Callers :
        \/ \E m \in Tables : Offer(t, m)
        \/ TakeOver(t)
        \/ Abandon(t)

Spec == Init /\ [][Next]_vars
================================================================================
