----------------------------- MODULE MCRegistry -----------------------------
(* Registry on small instances. *)
EXTENDS Registry, TLC

CONSTANTS public, openidScope

MCTrim == [s \in Strings |->
             CASE s = " https://a " -> "https://a"
               [] s = " " -> ""
               [] OTHER -> s]

MCFold == [s \in Strings |-> CASE s = "OpenID" -> "openid"
                               [] s = "Offline_Access" -> "offline_access"
                               [] OTHER -> s]

MCStrings == {"", " ", "openid", "OpenID", "offline_access", "Offline_Access", "read",
              "https://a", " https://a ", "/relative", "keys"}

\* The demo client of seedBundle.
Demo == [redirectURIs |-> <<"https://a">>,
         allowedScopes |-> <<"openid", "offline_access">>, requirePKCE |-> TRUE,
         allowRefreshTokens |-> TRUE, allowClientCredentials |-> FALSE,
         method |-> "none", jwks |-> "", lifetime |-> 0, expiration |-> 0]

MCSeeded == public :> Demo

\* Untidy bodies: duplicates and blanks, other cases, keys and credentials on a
\* public client, a profile that overrules the rest, and refused ones.
Untidy == [Demo EXCEPT !.redirectURIs = <<" https://a ", "https://a", " ">>,
                       !.allowedScopes = <<"Offline_Access", "read", "read">>,
                       !.requirePKCE = FALSE, !.allowClientCredentials = TRUE,
                       !.method = "", !.jwks = "keys"]
Blank == [Untidy EXCEPT !.redirectURIs = <<" ">>, !.allowedScopes = <<"offline_access">>,
                        !.allowRefreshTokens = FALSE]
Confidential == [Untidy EXCEPT !.method = "private_key_jwt", !.allowedScopes = Nil,
                               !.redirectURIs = Nil, !.allowRefreshTokens = FALSE]

MCBodies ==
    {[client |-> Untidy, profile |-> p] : p \in {"", "m2m"}}
    \cup {[client |-> Blank, profile |-> "web"], [client |-> Confidential, profile |-> "custom"],
          [client |-> Confidential, profile |-> "spa"],
          [client |-> [Untidy EXCEPT !.redirectURIs = <<"/relative">>], profile |-> "custom"],
          [client |-> [Confidential EXCEPT !.jwks = " "], profile |-> "web"]}

InstanceSymmetry == Permutations(Instances)
=============================================================================
