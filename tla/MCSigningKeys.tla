---------------------------- MODULE MCSigningKeys ----------------------------
(* SigningKeys on small instances.  Kids and calls are interchangeable. *)
EXTENDS SigningKeys, TLC

KeySymmetry == Permutations(Keys) \cup Permutations(Callers)
=============================================================================
