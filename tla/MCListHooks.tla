----------------------------- MODULE MCListHooks -----------------------------
(* Three requests under two IDs, two tools. *)
EXTENDS ListHooks, TLC

Symmetry == Permutations(Requests)
=============================================================================
