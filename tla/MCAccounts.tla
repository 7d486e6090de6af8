----------------------------- MODULE MCAccounts -----------------------------
(* Instances of Accounts for TLC. *)
EXTENDS Accounts, TLC

Symmetry == Permutations(Requests) \cup Permutations(Links)
              \cup Permutations(Granting) \cup Permutations(Sessions \ Granting)
              \cup Permutations(Passwords)
=============================================================================
