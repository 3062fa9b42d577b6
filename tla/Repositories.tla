---------------------------- MODULE Repositories ----------------------------
(***************************************************************************)
(* The Postgres tables behind internal/repository, and the single-statement *)
(* operations its repositories run on them.                                 *)
(*                                                                          *)
(* Identities.  users.email is UNIQUE and never updated, and a row is never *)
(* deleted, so a user is named by its email.  A refresh token's id, hash    *)
(* and string determine one another, so one value stands for the three.     *)
(*                                                                          *)
(* Time.  A row's timestamp is kept relative to the present: `left' is how  *)
(* long until expires_at (-1 once it has passed), `age' how long since      *)
(* created_at (Window + 1 once outside the brute-force window).  There is   *)
(* one present: the code takes it from the pod that serves the request, so  *)
(* pods whose clocks are apart see a row by that much older or younger.     *)
(***************************************************************************)
EXTENDS Naturals, Integers, FiniteSets

CONSTANTS
    Emails,        \* email addresses (and so users)
    Passwords,     \* passwords; a stored hash is the password it was made from
    Tokens,        \* refresh token strings the service can draw
    Attempts,      \* ids of login attempt rows
    NoRow,         \* the absence of a row
    RefreshTTL,    \* lifetime of a refresh token, in ticks
    Window,        \* BRUTE_FORCE_WINDOW, in ticks
    InitialUsers   \* the users tables a deployment may start with

Roles == {"viewer", "analyst", "admin"}

UserRow    == [pw : Passwords, role : Roles]
TokenRow   == [user : Emails, revoked : BOOLEAN, left : -1 .. RefreshTTL]
AttemptRow == [email : Emails, successful : BOOLEAN, age : 0 .. Window + 1]

ASSUME TimesAssumption == RefreshTTL \in Nat /\ Window \in Nat
ASSUME NoRowAssumption == NoRow \notin UserRow \cup TokenRow \cup AttemptRow
ASSUME FiniteAssumption == IsFiniteSet(Tokens) /\ IsFiniteSet(Attempts)
ASSUME InitialUsersAssumption ==
    InitialUsers \subseteq [Emails -> UserRow \cup {NoRow}]

VARIABLES users, refreshTokens, loginAttempts

tables == <<users, refreshTokens, loginAttempts>>

TablesTypeOK ==
    /\ users \in [Emails -> UserRow \cup {NoRow}]
    /\ refreshTokens \in [Tokens -> TokenRow \cup {NoRow}]
    /\ loginAttempts \in [Attempts -> AttemptRow \cup {NoRow}]

TablesInit ==
    /\ users \in InitialUsers
    /\ refreshTokens = [t \in Tokens |-> NoRow]
    /\ loginAttempts = [i \in Attempts |-> NoRow]

-----------------------------------------------------------------------------
(* userRepository *)

FindUser(e) == users[e]

\* Variation: an INSERT ... ON CONFLICT DO UPDATE in place of the INSERT.
UpsertUser(e, p, role) == users' = [users EXCEPT ![e] = [pw |-> p, role |-> role]]

\* INSERT: the UNIQUE email rejects a second row for the same address.
CreateUser(e, p, role) ==
    /\ users[e] = NoRow
    /\ users' = [users EXCEPT ![e] = [pw |-> p, role |-> role]]

\* Variation: UpdateRole writes the whole row, the password included.
UpdateRoleAndPassword(e, role) ==
    users' = [users EXCEPT ![e] = [pw |-> CHOOSE p \in Passwords : p # users[e].pw,
                                   role |-> role]]

UpdateRole(e, role) == users' = [users EXCEPT ![e].role = role]

-----------------------------------------------------------------------------
(* tokenRepository *)

FindByHash(t) == IF t \in Tokens THEN refreshTokens[t] ELSE NoRow

UnusedTokens == {t \in Tokens : refreshTokens[t] = NoRow}

\* Variation: the expiry is set one tick too late.
CreateLongerToken(t, e) ==
    refreshTokens' = [refreshTokens EXCEPT ![t] =
        [user |-> e, revoked |-> FALSE, left |-> RefreshTTL + 1]]

CreateToken(t, e) ==
    refreshTokens' = [refreshTokens EXCEPT ![t] =
        [user |-> e, revoked |-> FALSE, left |-> RefreshTTL]]

\* Variation: the UPDATE matches no row.
RevokeNothing(t) == UNCHANGED refreshTokens

\* UPDATE ... SET revoked_at, whatever its value was.
Revoke(t) == refreshTokens' = [refreshTokens EXCEPT ![t].revoked = TRUE]

-----------------------------------------------------------------------------
(* loginAttemptRepository *)

\* The rows CountRecentFailed counts: created_at >= now - Window, inclusive.
RecentFailed(e) ==
    {i \in Attempts : /\ loginAttempts[i] # NoRow
                      /\ loginAttempts[i].email = e
                      /\ ~loginAttempts[i].successful
                      /\ loginAttempts[i].age <= Window}

\* Bound: the id of a row that has left the window is used again, since no
\* operation of this module can tell that row from none.
UnusedAttempts ==
    {i \in Attempts : loginAttempts[i] # NoRow => loginAttempts[i].age > Window}

CreateAttempt(i, e, ok) ==
    loginAttempts' = [loginAttempts EXCEPT ![i] =
        [email |-> e, successful |-> ok, age |-> 0]]

-----------------------------------------------------------------------------
\* One unit of time passes for every timestamp of the tables.
RowsAge ==
    /\ refreshTokens' = [t \in Tokens |->
          IF refreshTokens[t] = NoRow \/ refreshTokens[t].left = -1
          THEN refreshTokens[t]
          ELSE [refreshTokens[t] EXCEPT !.left = @ - 1]]
    /\ loginAttempts' = [i \in Attempts |->
          IF loginAttempts[i] = NoRow \/ loginAttempts[i].age > Window
          THEN loginAttempts[i]
          ELSE [loginAttempts[i] EXCEPT !.age = @ + 1]]
=============================================================================
