----------------------------- MODULE MCSubgraph ------------------------------
(* Subgraph for TLC: borrowers are interchangeable. *)
EXTENDS Subgraph

Symmetry == Permutations(Borrowers)
=============================================================================
