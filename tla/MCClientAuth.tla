----------------------------- MODULE MCClientAuth -----------------------------
(* ClientAuth on small instances. *)
EXTENDS ClientAuth, TLC

CONSTANTS c1, k1, k2, j1, read

\* A good assertion, a later one that reuses its jti, one under another key,
\* and one for each check that fails.
Good == [issuer |-> c1, key |-> k1, asymmetric |-> TRUE, aud |-> TRUE,
         exp |-> 1, jti |-> j1]

MCAssertions ==
    {Good, [Good EXCEPT !.exp = 2], [Good EXCEPT !.key = k2],
     [Good EXCEPT !.asymmetric = FALSE]}

\* Another key with more scopes, and a public client.
Narrow == [method |-> "private_key_jwt", keys |-> {k1},
           allowClientCredentials |-> TRUE, allowedScopes |-> {}]

MCRegistrations ==
    {Narrow, [Narrow EXCEPT !.keys = {k2}, !.allowedScopes = {read}],
     [Narrow EXCEPT !.method = "none", !.keys = {}]}

RequestSymmetry == Permutations(Requests)
=============================================================================
