--------------------------- MODULE AuthProperties ---------------------------
(***************************************************************************)
(* What internal/service/auth_service.go is relied on for when its requests *)
(* interleave, fail half way and lose their processes.                      *)
(***************************************************************************)
EXTENDS AuthService

Rank(r) == CASE r = "viewer" -> 0 [] r = "analyst" -> 1 [] r = "admin" -> 2

Issued(t) == refreshTokens[t] # NoRow

\* The tokens bought with p, whether or not they reached a client.
Children(p) == {t \in Tokens : lineage[t] = p}

\* The requests that found p live and may still buy a token with it.
Holders(p) == {r \in Reqs : /\ pc[r] \in {"refresh.user", "refresh.revoke", "issue"}
                            /\ tok[r] = p}

\* The logins that passed the lock check and may still record a failure.
Guessing(e) == {r \in Reqs : /\ pc[r] \in {"login.find", "login.fail"}
                             /\ acct[r] = e}

-----------------------------------------------------------------------------
(* Rotation of refresh tokens *)

\* Refresh reads revoked_at, reads the user and only then writes revoked_at, so
\* one token may buy several.  What bounds it: every purchase but those already
\* past the check is refused, so a token and the requests still holding it never
\* account for more successors than there are concurrent requests.
RotationBound ==
    \A p \in Tokens :
        Cardinality(Children(p)) + Cardinality(Holders(p)) <= Cardinality(Reqs)

\* A token that was paid for with another exists only if the other is revoked,
\* and it belongs to the same user: no failure or crash between Revoke and
\* Create leaves a chain with two usable ends by itself.
LineageSound ==
    \A t \in Tokens :
        lineage[t] \in Tokens =>
            /\ Issued(t) /\ Issued(lineage[t])
            /\ refreshTokens[lineage[t]].revoked
            /\ refreshTokens[t].user = refreshTokens[lineage[t]].user

\* A revoked or expired token that no request still holds.
Spent(p) == /\ Issued(p)
            /\ refreshTokens[p].revoked \/ refreshTokens[p].left < 0
            /\ Holders(p) = {}

\* Once a token is spent no step makes it usable or buys anything with it: the
\* window left open by Refresh's check-then-act closes with the last holder.
SpentStaysSpent ==
    [][\A p \in Tokens : Spent(p) => Spent(p)' /\ Children(p)' = Children(p)]_vars

\* A refresh token in a client's hands has a row, and the row is of the account the
\* client logged in as, through however many rotations: the pair is returned only
\* after tokens.Create succeeded, and Refresh gets the user from the row it found.
DeliveredTokensBacked ==
    \A t \in Tokens :
        held[t] # NoRow => Issued(t) /\ refreshTokens[t].user = held[t]

\* Found by a refresh that starts now: it has a row that is neither revoked nor
\* past its lifetime.
Usable(t) == /\ Issued(t)
             /\ ~refreshTokens[t].revoked
             /\ refreshTokens[t].left >= 0

Owner == [t \in Tokens |-> IF Issued(t) THEN refreshTokens[t].user ELSE NoRow]
UsableTokens == {t \in Tokens : Usable(t)}
Buying == [t \in Tokens |-> Holders(t)]

\* Seen by those who hold accounts and tokens, the statements of concurrent
\* requests, those that fail and those that die in between are the sessions the
\* service promises: a new token only for an account that exists or for a token
\* that is used up, and for each request that came in time at most one.
Promised == INSTANCE Sessions WITH
                Accounts <- Emails, Rows <- UserRow, Buyers <- Reqs, Nobody <- NoRow,
                account <- users, owner <- Owner, usable <- UsableTokens,
                buyers <- Buying, parent <- lineage

ImplementsSessions == Promised!SessionsSpec

\* A refresh token buys one token: what auth_handler.go:80 promises of rotation.
SingleRotation == \A p \in Tokens : Cardinality(Children(p)) <= 1

-----------------------------------------------------------------------------
(* The brute-force lock *)

\* Login counts failures in one statement and records its own in another, so
\* concurrent logins overshoot the limit; by no more than their number, even
\* counting those about to record.
FailuresBounded ==
    \A e \in Emails :
        Cardinality(RecentFailed(e)) + Cardinality(Guessing(e))
            < MaxAttempts + Cardinality(Reqs)

\* A lock ends: a refused login records nothing, so the window slides past the
\* failures that caused it whatever the clients keep trying.
LockExpires == \A e \in Emails : Locked(e) ~> ~Locked(e)

\* Why it ends: once the logins that passed the check before the lock have
\* answered, no attempt on a locked account adds a failure or gets to the
\* password, so trying again never extends the lock.
LockedStaysQuiet ==
    [][\A e \in Emails :
           Locked(e) /\ Guessing(e) = {}
               => Guessing(e)' = {} /\ RecentFailed(e)' \subseteq RecentFailed(e)]_vars

-----------------------------------------------------------------------------
(* Accounts *)

\* An account confirmed with 201 holds the password of the request it was
\* confirmed to, whoever else registered the address at the same time and
\* whatever role the bootstrap has given it since.
CreatedAccountHoldsPassword ==
    \A r \in Reqs : resp[r] = "CREATED" =>
        users[acct[r]] # NoRow /\ users[acct[r]].pw = pw[r]

\* Of the registrations of an address that are still to be seen, at most one was
\* confirmed: the check in Register does not decide it, the UNIQUE email does.
ConfirmedOnce ==
    \A r, q \in Reqs :
        resp[r] = "CREATED" /\ resp[q] = "CREATED" /\ acct[r] = acct[q] => r = q

Covered(r) == /\ users[acct[r]] # NoRow
              /\ Rank(role[r]) <= Rank(users[acct[r]].role)

\* The role in an access token was read some statements before it was signed;
\* it is never above the role of the row, since rows are only promoted.
RoleClaimCovered == \A r \in Reqs : resp[r] = "TOKENS" => Covered(r)

\* The token r presented can buy nothing more.
UsedUp(r) == Issued(tok[r]) /\ refreshTokens[tok[r]].revoked

\* What a client may conclude from INTERNAL where every statement takes effect,
\* whether or not the service hears of it.  With a refresh or a logout: the token
\* it presented is used up, so that a refresh that is repeated is refused and its
\* user has to log in again.  With a registration: the address has an account, its
\* own or that of whoever it lost the race to, unless bcrypt refused the password.
\* With a login: no more than that the account is there, and it is to be repeated.
InternalTells ==
    "error" \notin Faults =>
        \A r \in Reqs : resp[r] = "INTERNAL" =>
            /\ tok[r] \in Tokens => UsedUp(r)
            /\ tok[r] \notin Tokens =>
                  pw[r] \in Unhashable \/ (acct[r] \in Emails /\ users[acct[r]] # NoRow)

\* While the database answers, an address that is taken is reported as 409
\* EMAIL_TAKEN (auth_handler.go:31) and never as an internal error, which is left
\* to the passwords bcrypt refuses.
TakenIsReported == \A r \in Reqs : resp[r] = "INTERNAL" => pw[r] \in Unhashable

-----------------------------------------------------------------------------
(* Why it holds *)

\* What a request has established about its parameters by the time it reaches a
\* statement: the rows it works on exist, and one that pays with a token has
\* found it, or made it, revoked.
RequestSound(r) ==
    /\ pc[r] \in RegisterSteps \cup LoginSteps =>
          acct[r] \in Emails /\ pw[r] \in Passwords /\ tok[r] = NoToken
    /\ pc[r] \in {"refresh.user", "refresh.revoke", "logout.revoke"} =>
          tok[r] \in Tokens /\ Issued(tok[r])
    /\ pc[r] \in {"refresh.user", "refresh.revoke"} =>
          acct[r] = refreshTokens[tok[r]].user
    /\ pc[r] = "issue" =>
          /\ acct[r] \in Emails
          /\ tok[r] \in Tokens =>
                /\ Issued(tok[r])
                /\ refreshTokens[tok[r]].revoked
                /\ acct[r] = refreshTokens[tok[r]].user

RequestsSound == \A r \in Reqs : RequestSound(r)

\* A request has no answer before its end, and the role it will claim is covered
\* from the moment it is read.
ClaimSound(r) ==
    /\ pc[r] # "idle" => resp[r] = "NONE"
    /\ pc[r] \in {"login.ok", "refresh.revoke", "issue"} => Covered(r)

\* The inductive invariant behind the theorems about rotation.
RotationInv == TypeOK /\ RequestsSound /\ LineageSound /\ RotationBound

-----------------------------------------------------------------------------
\* Every request ends, in an answer or with its process: no step of the service
\* waits for another request, whatever rows that one has written.
RequestsEnd == \A r \in Reqs : pc[r] # "idle" ~> pc[r] = "idle"
=============================================================================
