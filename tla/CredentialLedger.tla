-------------------------- MODULE CredentialLedger ---------------------------
(***************************************************************************)
(* What the token endpoint promises about a one-time credential (an        *)
(* authorization code or a refresh token), without requests, clocks or     *)
(* tables: it is created, spent once, may be extended once by a successor  *)
(* while it is spent, and is honoured by at most one response, which is    *)
(* the last thing that happens to it.                                      *)
(***************************************************************************)

CONSTANTS
    Credentials,  \* codes and refresh tokens
    Successors,   \* the credentials that only ever extend another (tokens)
    Preexisting   \* credentials that exist from the start

VARIABLE status

Statuses == {"absent", "fresh", "spent", "extended", "honoured"}

LInit == status = [x \in Credentials |->
                     IF x \in Preexisting THEN "fresh" ELSE "absent"]

\* A credential nobody had to present another one for.
Create(x) ==
    /\ x \notin Successors
    /\ status[x] = "absent"
    /\ status' = [status EXCEPT ![x] = "fresh"]

Spend(x) ==
    /\ status[x] = "fresh"
    /\ status' = [status EXCEPT ![x] = "spent"]

\* y takes over from x: only once, and only between spending and answering.
Extend(x, y) ==
    /\ y \in Successors
    /\ status[x] = "spent"
    /\ status[y] = "absent"
    /\ status' = [status EXCEPT ![x] = "extended", ![y] = "fresh"]

Honour(x) ==
    /\ status[x] \in {"spent", "extended"}
    /\ status' = [status EXCEPT ![x] = "honoured"]

\* x is the credential that moves.
LNext == \E x \in Credentials :
            /\ status'[x] # status[x]
            /\ \/ Create(x)
               \/ Spend(x)
               \/ \E y \in Credentials : Extend(x, y)
               \/ Honour(x)

LSpec == LInit /\ [][LNext]_status
=============================================================================
