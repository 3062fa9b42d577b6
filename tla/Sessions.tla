------------------------------ MODULE Sessions ------------------------------
(***************************************************************************)
(* What the auth service promises of accounts and refresh tokens (README.md, *)
(* internal/handler/auth_handler.go), with nothing of how: no statements, no  *)
(* tables, no faults.  An account is made once and only promoted; a token is  *)
(* given once, to an account; and it buys another for those that came while   *)
(* it was usable, once each, and not before it is used up.                    *)
(***************************************************************************)
CONSTANTS
    Accounts, Rows,   \* who may have an account, and what an account is
    Tokens, NoToken,
    Buyers,           \* who may be about to exchange a token
    Nobody            \* the absence of an account or an owner

VARIABLES
    account,  \* the row of each account
    owner,    \* the account each token was given to
    usable,   \* the tokens that can be exchanged
    buyers,   \* who has come with each token and not left
    parent    \* the token each one was exchanged for

sessions == <<account, owner, usable, buyers, parent>>

SessionsInit ==
    /\ account \in [Accounts -> Rows \cup {Nobody}]
    /\ owner = [t \in Tokens |-> Nobody]
    /\ usable = {}
    /\ buyers = [t \in Tokens |-> {}]
    /\ parent = [t \in Tokens |-> NoToken]

Join(a) ==
    /\ account[a] = Nobody
    /\ \E row \in Rows : account' = [account EXCEPT ![a] = row]
    /\ UNCHANGED <<owner, usable, buyers, parent>>

Promote(a) ==
    /\ account[a] # Nobody
    /\ account' = [account EXCEPT ![a].role = "admin"]
    /\ UNCHANGED <<owner, usable, buyers, parent>>

Give(t, a) ==
    /\ owner[t] = Nobody
    /\ owner' = [owner EXCEPT ![t] = a]
    /\ usable' = usable \cup {t}
    /\ UNCHANGED account

\* A login.
Open(t, a) ==
    /\ account[a] # Nobody
    /\ Give(t, a)
    /\ UNCHANGED <<buyers, parent>>

Come(b, t) ==
    /\ t \in usable
    /\ buyers' = [buyers EXCEPT ![t] = @ \cup {b}]
    /\ UNCHANGED <<account, owner, usable, parent>>

\* A token is exchanged for a new one of the same account.
Exchange(b, t, new) ==
    /\ b \in buyers[t] /\ t \notin usable
    /\ Give(new, owner[t])
    /\ buyers' = [buyers EXCEPT ![t] = @ \ {b}]
    /\ parent' = [parent EXCEPT ![new] = t]

\* Tokens are used up, revoked or expire; buyers leave with nothing.
Wane ==
    /\ usable' \subseteq usable
    /\ buyers' \in [Tokens -> SUBSET Buyers]
    /\ \A t \in Tokens : buyers'[t] \subseteq buyers[t]
    /\ UNCHANGED <<account, owner, parent>>

SessionsNext ==
    \/ Wane
    \/ \E a \in Accounts : Join(a) \/ Promote(a)
    \/ \E t \in Tokens, a \in Accounts : Open(t, a)
    \/ \E t \in Tokens, b \in Buyers : Come(b, t)
    \/ \E t, new \in Tokens, b \in Buyers : Exchange(b, t, new)

SessionsSpec == SessionsInit /\ [][SessionsNext]_sessions
=============================================================================
