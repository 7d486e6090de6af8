---------------------------- MODULE MCTokenGrants ----------------------------
(* TokenGrants on small instances.  Ids are interchangeable model values. *)
EXTENDS TokenGrants, TLC

RowSymmetry == Permutations(Codes) \cup Permutations(Tokens \ LegacyTokens)
               \cup Permutations(Requests)
=============================================================================
