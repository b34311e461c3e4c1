----------------------------- MODULE MCQueue ------------------------------
(* Instances of Queue for TLC: clients, and workers, are interchangeable. *)
EXTENDS Queue, TLC

Symmetry == Permutations(Client) \cup Permutations(Worker)
==========================================================================
