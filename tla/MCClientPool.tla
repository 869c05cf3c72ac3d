----------------------------- MODULE MCClientPool -------------------------------
(* Two keys and two concurrent calls. *)
EXTENDS ClientPool, TLC

Symmetry == Permutations(Keys) \cup Permutations(Tasks)
================================================================================
