------------------------------- MODULE Clients -------------------------------
(***************************************************************************)
(* What a client registration goes through: the body of an admin request   *)
(* is overlaid on a client, a profile is applied, the result is normalised *)
(* and validated (domain/client.go, admin/api.go), encoded as a row and    *)
(* later decoded again (gormstore/entities.go, gormstore/json.go).         *)
(*                                                                         *)
(* Post-logout URIs are treated like redirect URIs and the three lifetimes *)
(* alike, so one list and one number stand for them; the display name and  *)
(* the properties are carried along unread and are left out.               *)
(***************************************************************************)
EXTENDS Integers, Sequences, FiniteSets, SequencesExt

CONSTANTS
    Strings,        \* entries of URI and scope lists, and JWKS documents
    Trim, Fold,     \* strings.TrimSpace; the classes of strings.EqualFold
    Empty,          \* the empty string
    Openid, OfflineAccess,
    AbsoluteURIs,   \* what validateAbsoluteURI accepts
    KeySets,        \* what validateJWKS accepts
    Nil             \* a nil slice

ASSUME StringsAssumption ==
    /\ {Empty, Openid, OfflineAccess} \cup AbsoluteURIs \cup KeySets \subseteq Strings
    /\ Trim \in [Strings -> Strings] /\ Fold \in [Strings -> Strings]
    /\ \A s \in Strings : Trim[Trim[s]] = Trim[s]
    /\ Trim[Empty] = Empty /\ Empty \notin KeySets \cup {Openid, OfflineAccess}
    /\ Trim[Openid] = Openid /\ Trim[OfflineAccess] = OfflineAccess
    /\ Fold[Openid] # Fold[OfflineAccess]

ASSUME NilAssumption == Nil \notin Seq(Strings)

\* "" is a method left out of the body, "other" any unknown one; a refresh
\* token expiration other than 0 and 1 is not valid.
Methods == {"", "none", "private_key_jwt", "other"}
Profiles == {"", "spa", "web", "m2m", "custom"}

List == {Nil} \cup Seq(Strings)

Client == [redirectURIs : List, allowedScopes : List, requirePKCE : BOOLEAN,
           allowRefreshTokens : BOOLEAN, allowClientCredentials : BOOLEAN,
           method : Methods, jwks : Strings, lifetime : Int, expiration : Int]

-----------------------------------------------------------------------------
(* domain/client.go *)

Items(xs) == IF xs = Nil THEN <<>> ELSE xs

containsFold(xs, target) == \E x \in ToSet(Items(xs)) : Fold[x] = Fold[target]

\* What a loop over xs that appends the entries at the indices I collects.
Entries(xs, I) ==
    [k \in 1..Cardinality(I) |->
       xs[CHOOSE i \in I : Cardinality({j \in I : j <= i}) = k]]

removeScope(xs, target) ==
    IF Items(xs) = <<>> THEN Nil
    ELSE Entries(xs, {i \in DOMAIN xs : Fold[xs[i]] # Fold[target]})

\* The first of each group of entries that are equal but for blanks; a list of
\* blanks only becomes an empty list, not nil.
cleanStringList(xs) ==
    LET trimmed == [i \in DOMAIN xs |-> Trim[xs[i]]]
        fresh == {i \in DOMAIN xs : /\ trimmed[i] # Empty
                                    /\ \A j \in 1..(i - 1) : trimmed[j] # trimmed[i]}
    IN  IF Items(xs) = <<>> THEN Nil ELSE Entries(trimmed, fresh)

\* Client.Profile
Profile(c) ==
    CASE c.method # "private_key_jwt" -> "spa"
      [] c.method = "private_key_jwt" /\ ~c.allowClientCredentials -> "web"
      [] c.method = "private_key_jwt" /\ c.allowClientCredentials ->
           IF Items(c.redirectURIs) = <<>> /\ ~c.allowRefreshTokens
           THEN "m2m" ELSE "custom"

\* Mutant: the service profile leaves the redirect URIs of the body.
ApplyProfileKeepsURIs(c, p) ==
    CASE p = "spa" -> [c EXCEPT !.method = "none", !.requirePKCE = TRUE,
                                !.allowClientCredentials = FALSE, !.jwks = Empty]
      [] p = "web" -> [c EXCEPT !.method = "private_key_jwt", !.requirePKCE = TRUE,
                                !.allowClientCredentials = FALSE]
      [] p = "m2m" -> [c EXCEPT !.method = "private_key_jwt", !.requirePKCE = FALSE,
                                !.allowClientCredentials = TRUE,
                                !.allowRefreshTokens = FALSE]
      [] OTHER -> c

ApplyProfile(c, p) ==
    CASE p = "spa" -> [c EXCEPT !.method = "none", !.requirePKCE = TRUE,
                                !.allowClientCredentials = FALSE, !.jwks = Empty]
      [] p = "web" -> [c EXCEPT !.method = "private_key_jwt", !.requirePKCE = TRUE,
                                !.allowClientCredentials = FALSE]
      [] p = "m2m" -> [c EXCEPT !.method = "private_key_jwt", !.requirePKCE = FALSE,
                                !.allowClientCredentials = TRUE,
                                !.allowRefreshTokens = FALSE, !.redirectURIs = Nil,
                                !.allowedScopes = removeScope(@, OfflineAccess)]
      [] OTHER -> c

\* Mutant: offline_access stays when refresh tokens are not allowed.
NormalScopesKeepOffline(xs, refresh) ==
    LET clean == cleanStringList(xs)
        open  == IF containsFold(clean, Openid) THEN clean
                 ELSE <<Openid>> \o Items(clean)
    IN  IF refresh /\ ~containsFold(open, OfflineAccess) THEN Append(open, OfflineAccess)
        ELSE open

\* The scopes Normalize leaves: openid first if it was missing, offline_access
\* there exactly when refresh tokens are allowed.
NormalScopes(xs, refresh) ==
    LET clean == cleanStringList(xs)
        open  == IF containsFold(clean, Openid) THEN clean
                 ELSE <<Openid>> \o Items(clean)
    IN  CASE refresh /\ ~containsFold(open, OfflineAccess) -> Append(open, OfflineAccess)
          [] refresh /\ containsFold(open, OfflineAccess) -> open
          [] ~refresh -> removeScope(open, OfflineAccess)

Normalize(c) ==
    LET method == IF c.method = "" THEN "none" ELSE c.method IN
    [c EXCEPT !.method = method,
              !.allowClientCredentials = @ /\ method # "none",
              !.jwks = IF method = "none" THEN Empty ELSE Trim[@],
              !.redirectURIs = cleanStringList(@),
              !.allowedScopes = NormalScopes(@, c.allowRefreshTokens)]

\* Validate, and the check of the key set that both handlers add.
Valid(c) ==
    /\ c.method \in {"none", "private_key_jwt"}
    /\ ToSet(Items(c.redirectURIs)) \subseteq AbsoluteURIs
    /\ c.lifetime >= 0
    /\ c.expiration \in {0, 1}
    /\ c.method = "private_key_jwt" => c.jwks \in KeySets

-----------------------------------------------------------------------------
(* gormstore: lists are JSON text in a column *)

\* encodeStringSlice: nil is "null", distinct from "[]".
encodeStringSlice(xs) ==
    IF xs = Nil THEN [json |-> "null", items |-> <<>>]
                ELSE [json |-> "array", items |-> xs]

decodeStringSlice(col) == IF col.json = "null" THEN Nil ELSE col.items

toClientEntity(c) ==
    [c EXCEPT !.redirectURIs = encodeStringSlice(@),
              !.allowedScopes = encodeStringSlice(@),
              !.method = IF @ = "" THEN "none" ELSE @]

toDomain(row) ==
    [row EXCEPT !.redirectURIs = decodeStringSlice(@),
                !.allowedScopes = decodeStringSlice(@)]

-----------------------------------------------------------------------------
(* admin/api.go *)

\* What createClient and updateClient make of a body: all columns but the id
\* come from it.
Submitted(body) == Normalize(ApplyProfile(body.client, body.profile))

\* The fields of a stored client agree with each other: normalising it again
\* changes nothing but a nil list, it is valid, offline_access goes with refresh
\* tokens, and only a confidential client has keys or client credentials.
Consistent(c) ==
    /\ Normalize(c) = [c EXCEPT !.redirectURIs = IF @ = <<>> THEN Nil ELSE @]
    /\ Valid(c)
    /\ c.allowRefreshTokens <=> containsFold(c.allowedScopes, OfflineAccess)
    /\ containsFold(c.allowedScopes, Openid)
    /\ Profile(c) = "spa" => ~c.allowClientCredentials /\ c.jwks = Empty
=============================================================================
