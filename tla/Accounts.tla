------------------------------ MODULE Accounts ------------------------------
(***************************************************************************)
(* What the server promises about accounts: an account and everything it   *)
(* needs to log in come into being together, once, and stay; a login token *)
(* is made once per account; a connection is logged in to an account that  *)
(* exists.  Queries, locks, transactions and tasks are left out; module    *)
(* Login implements this one (server/src/users.rs).                        *)
(***************************************************************************)
CONSTANTS Clients, Users, NoUser

VARIABLES
    accounts,  \* the users that can log in
    tokens,    \* those that have a login token
    auth       \* the user each connection is logged in as, or NoUser

vars == <<accounts, tokens, auth>>

TypeOK ==
    /\ accounts \subseteq Users
    /\ tokens \subseteq Users
    /\ auth \in [Clients -> Users \union {NoUser}]

(* The database outlives the process: it may hold accounts already.        *)
Init ==
    /\ accounts \in SUBSET Users
    /\ tokens \in SUBSET accounts
    /\ auth = [c \in Clients |-> NoUser]

Register(u) ==
    /\ u \notin accounts
    /\ accounts' = accounts \union {u}
    /\ UNCHANGED <<tokens, auth>>

CreateToken(u) ==
    /\ u \in accounts \ tokens
    /\ tokens' = tokens \union {u}
    /\ UNCHANGED <<accounts, auth>>

Authenticate(c, u) ==
    /\ u \in accounts
    /\ auth' = [auth EXCEPT ![c] = u]
    /\ UNCHANGED <<accounts, tokens>>

(* Some connections end: one of them, or with the process all of them.     *)
Forget(lost) ==
    /\ auth' = [c \in Clients |-> IF c \in lost THEN NoUser ELSE auth[c]]
    /\ UNCHANGED <<accounts, tokens>>

Next ==
    \/ \E u \in Users : Register(u) \/ CreateToken(u)
    \/ \E c \in Clients, u \in Users : Authenticate(c, u)
    \/ \E lost \in SUBSET Clients : Forget(lost)

Spec == Init /\ [][Next]_vars

-----------------------------------------------------------------------------
(* Every connection that is logged in has an account, and so does every    *)
(* login token.                                                            *)
AuthenticatedExists ==
    /\ tokens \subseteq accounts
    /\ \A c \in Clients : auth[c] # NoUser => auth[c] \in accounts

=============================================================================
