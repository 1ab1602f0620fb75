------------------------------ MODULE MCLoans -------------------------------
(* The ledger for TLC: borrowers are interchangeable. *)
EXTENDS HintHelpers

Symmetry == Permutations(Borrowers)
=============================================================================
