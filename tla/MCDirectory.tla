----------------------------- MODULE MCDirectory -----------------------------
(* Directory on small instances. *)
EXTENDS Directory, TLC

Symmetry == Permutations(Requests) \cup Permutations(RoleIds) \cup Permutations(Names)
=============================================================================
