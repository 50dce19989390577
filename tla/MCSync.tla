------------------------------- MODULE MCSync -------------------------------
(* A small instance of Sync. *)
EXTENDS Sync, TLC

\* The clients differ by name only.
ClientSymmetry == Permutations(Clients)
=============================================================================
