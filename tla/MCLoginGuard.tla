---------------------------- MODULE MCLoginGuard ----------------------------
(* LoginGuard on small instances.  Requests are interchangeable. *)
EXTENDS LoginGuard, TLC

RequestSymmetry == Permutations(Requests)
=============================================================================
