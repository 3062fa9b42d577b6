----------------------------- MODULE AuthService -----------------------------
(***************************************************************************)
(* internal/service/auth_service.go as it runs in production: each HTTP     *)
(* request is a goroutine of some pod, all of them share the database, and  *)
(* nothing but a single SQL statement is atomic.  One action per statement; *)
(* what a request does between two statements is part of the earlier one.   *)
(*                                                                          *)
(* A statement may fail without effect ("error": connection lost, context   *)
(* cancelled), take effect but report failure ("lostAck"), and a request's  *)
(* process may die ("crash").                                               *)
(***************************************************************************)
EXTENDS Repositories

CONSTANTS
    Reqs,         \* slots for concurrent requests, over all pods
    Ops,          \* the operations the clients call
    Faults,       \* the faults that may happen
    MaxAttempts,  \* BRUTE_FORCE_MAX_ATTEMPTS
    Unhashable,   \* passwords of more than 72 bytes, which bcrypt refuses
    NoToken,      \* a string that is no refresh token of the service
    AdminEmail,   \* BOOTSTRAP_ADMIN_EMAIL; not in Emails when unset
    AdminPassword \* BOOTSTRAP_ADMIN_PASSWORD

ASSUME ReqsAssumption == IsFiniteSet(Reqs)
ASSUME OpsAssumption == Ops \subseteq {"Register", "Login", "Refresh", "Logout"}
ASSUME FaultsAssumption == Faults \subseteq {"error", "lostAck", "crash"}
ASSUME MaxAttemptsAssumption == MaxAttempts \in Nat \ {0}
ASSUME UnhashableAssumption == Unhashable \subseteq Passwords
ASSUME NoTokenAssumption == NoToken \notin Tokens
ASSUME AdminAssumption == AdminPassword \in Passwords

LoginSteps    == {"login.count", "login.find", "login.fail", "login.ok"}
RefreshSteps  == {"refresh.find", "refresh.user", "refresh.revoke"}
LogoutSteps   == {"logout.find", "logout.revoke"}
RegisterSteps == {"register.find", "register.create"}
Steps == {"idle", "issue"} \cup LoginSteps \cup RefreshSteps
                           \cup LogoutSteps \cup RegisterSteps

\* The outcome of a request, by its code in internal/handler/response.go.
Codes == {"NONE", "CREATED", "TOKENS", "NO_CONTENT", "INTERNAL", "EMAIL_TAKEN",
          "INVALID_CREDENTIALS", "ACCOUNT_LOCKED", "INVALID_REFRESH_TOKEN",
          "USER_NOT_FOUND", "LOST"}

VARIABLES
    pc,      \* the next statement of each request
    acct,    \* the email, or the id, of the user it works for
    pw,      \* the password it was given
    tok,     \* the refresh token it was given; NoToken in Register and Login
    role,    \* the role read from the users row, the access token's claim
    resp,    \* the code of the slot's last answer
    held,    \* the account as which a client holds a token; NoRow: nobody does
    lineage  \* history: the token whose rotation paid for each token

params  == <<acct, pw, tok, role>>
control == <<pc, resp>>
vars    == <<tables, control, params, held, lineage>>

TypeOK ==
    /\ TablesTypeOK
    /\ pc \in [Reqs -> Steps]
    /\ acct \in [Reqs -> Emails \cup {NoRow}]
    /\ pw \in [Reqs -> Passwords \cup {NoRow}]
    /\ tok \in [Reqs -> Tokens \cup {NoToken}]
    /\ role \in [Reqs -> Roles]
    /\ resp \in [Reqs -> Codes]
    /\ held \in [Tokens -> Emails \cup {NoRow}]
    /\ lineage \in [Tokens -> Tokens \cup {NoToken}]

Init ==
    /\ TablesInit
    /\ pc = [r \in Reqs |-> "idle"]
    /\ acct = [r \in Reqs |-> NoRow]
    /\ pw = [r \in Reqs |-> NoRow]
    /\ tok = [r \in Reqs |-> NoToken]
    /\ role = [r \in Reqs |-> "viewer"]
    /\ resp = [r \in Reqs |-> "NONE"]
    /\ held = [t \in Tokens |-> NoRow]
    /\ lineage = [t \in Tokens |-> NoToken]

-----------------------------------------------------------------------------
(* Answers *)

\* respondError: the code a domain error is reported with.
RespondError(err) ==
    CASE err = "ErrEmailTaken"         -> "EMAIL_TAKEN"
      [] err = "ErrInvalidCredentials" -> "INVALID_CREDENTIALS"
      [] err = "ErrAccountLocked"      -> "ACCOUNT_LOCKED"
      [] err = "ErrUserNotFound"       -> "USER_NOT_FOUND"
      [] err \in {"ErrTokenNotFound", "ErrTokenRevoked", "ErrTokenExpired"}
                                       -> "INVALID_REFRESH_TOKEN"
      [] OTHER                         -> "INTERNAL"

Goto(r, step) == pc' = [pc EXCEPT ![r] = step] /\ UNCHANGED resp

Answer(r, code) == /\ pc' = [pc EXCEPT ![r] = "idle"]
                   /\ resp' = [resp EXCEPT ![r] = code]

Fail(r, err) == Answer(r, RespondError(err))

\* A statement without effect: the driver's error becomes INTERNAL.
StatementFails(r) == /\ "error" \in Faults
                     /\ Fail(r, "driver_error")

\* A statement that took effect while its caller saw an error.
AckLost(r) == /\ "lostAck" \in Faults
              /\ Fail(r, "driver_error")

-----------------------------------------------------------------------------
(* Requests arrive *)

\* Bound: a request that may create rows starts only if ids remain for it.
MayIssue == {r \in Reqs : pc[r] \in LoginSteps \cup RefreshSteps \cup {"issue"}}
MayRecord == {r \in Reqs : pc[r] \in LoginSteps}
SpareToken == Cardinality(UnusedTokens) > Cardinality(MayIssue)
SpareAttempt == Cardinality(UnusedAttempts) > Cardinality(MayRecord)

Arrive(r, op, step) ==
    /\ op \in Ops
    /\ pc[r] = "idle"
    /\ pc' = [pc EXCEPT ![r] = step]
    /\ resp' = [resp EXCEPT ![r] = "NONE"]
    /\ role' = [role EXCEPT ![r] = "viewer"]
    /\ UNCHANGED <<tables, held, lineage>>

WithCredentials(r) ==
    \E e \in Emails, p \in Passwords :
        /\ acct' = [acct EXCEPT ![r] = e]
        /\ pw' = [pw EXCEPT ![r] = p]
        /\ tok' = [tok EXCEPT ![r] = NoToken]

\* What clients send as refresh tokens: those they hold, and others.
WithToken(r) ==
    \E t \in {s \in Tokens : held[s] # NoRow} \cup {NoToken} :
        /\ acct' = [acct EXCEPT ![r] = NoRow]
        /\ pw' = [pw EXCEPT ![r] = NoRow]
        /\ tok' = [tok EXCEPT ![r] = t]

StartRegister(r) == Arrive(r, "Register", "register.find") /\ WithCredentials(r)

StartLogin(r) == /\ SpareToken /\ SpareAttempt
                 /\ Arrive(r, "Login", "login.count")
                 /\ WithCredentials(r)

StartRefresh(r) == /\ SpareToken
                   /\ Arrive(r, "Refresh", "refresh.find")
                   /\ WithToken(r)

StartLogout(r) == Arrive(r, "Logout", "logout.find") /\ WithToken(r)

-----------------------------------------------------------------------------
(* Register *)

\* A free address, whose password is hashed before the INSERT.
RegisterFind(r) ==
    /\ pc[r] = "register.find"
    /\ \/ FindUser(acct[r]) # NoRow /\ Fail(r, "ErrEmailTaken")
       \/ /\ FindUser(acct[r]) = NoRow
          /\ \/ pw[r] \notin Unhashable /\ Goto(r, "register.create")
             \/ pw[r] \in Unhashable /\ Fail(r, "bcrypt_error")
       \/ StatementFails(r)
    /\ UNCHANGED <<tables, params, held, lineage>>

\* Variation: the INSERT is retried until it succeeds.
RegisterCreateRetries(r) ==
    /\ pc[r] = "register.create"
    /\ \/ CreateUser(acct[r], pw[r], "viewer") /\ Answer(r, "CREATED")
       \/ users[acct[r]] # NoRow /\ UNCHANGED <<users, control>>
    /\ UNCHANGED <<refreshTokens, loginAttempts, params, held, lineage>>

\* A violated UNIQUE constraint is no domain error: it answers INTERNAL.
RegisterCreate(r) ==
    /\ pc[r] = "register.create"
    /\ \/ /\ CreateUser(acct[r], pw[r], "viewer")
          /\ Answer(r, "CREATED") \/ AckLost(r)
       \/ /\ users[acct[r]] # NoRow
          /\ Fail(r, "unique_violation")
          /\ UNCHANGED users
       \/ StatementFails(r) /\ UNCHANGED users
    /\ UNCHANGED <<refreshTokens, loginAttempts, params, held, lineage>>

-----------------------------------------------------------------------------
(* Login *)

\* Variation: the limit is passed one failure late.
LockedLate(e) == Cardinality(RecentFailed(e)) > MaxAttempts

Locked(e) == Cardinality(RecentFailed(e)) >= MaxAttempts

\* recordAttempt ignores the outcome of its INSERT.
RecordAttempt(r, ok) ==
    \/ \E i \in UnusedAttempts : CreateAttempt(i, acct[r], ok)
    \/ "error" \in Faults /\ UNCHANGED loginAttempts

\* Variation: an attempt on a locked account counts as a failed one.
LoginCountAndRecord(r) ==
    /\ pc[r] = "login.count"
    /\ \/ Locked(acct[r]) /\ Goto(r, "login.fail")
       \/ ~Locked(acct[r]) /\ Goto(r, "login.find")
       \/ StatementFails(r)
    /\ UNCHANGED <<tables, params, held, lineage>>

LoginCount(r) ==
    /\ pc[r] = "login.count"
    /\ \/ Locked(acct[r]) /\ Fail(r, "ErrAccountLocked")
       \/ ~Locked(acct[r]) /\ Goto(r, "login.find")
       \/ StatementFails(r)
    /\ UNCHANGED <<tables, params, held, lineage>>

CredentialsMatch(r) == /\ FindUser(acct[r]) # NoRow
                       /\ FindUser(acct[r]).pw = pw[r]

LoginFind(r) ==
    /\ pc[r] = "login.find"
    /\ \/ /\ CredentialsMatch(r)
          /\ role' = [role EXCEPT ![r] = FindUser(acct[r]).role]
          /\ Goto(r, "login.ok")
       \/ ~CredentialsMatch(r) /\ Goto(r, "login.fail") /\ UNCHANGED role
       \/ StatementFails(r) /\ UNCHANGED role
    /\ UNCHANGED <<tables, acct, pw, tok, held, lineage>>

LoginFail(r) ==
    /\ pc[r] = "login.fail"
    /\ RecordAttempt(r, FALSE)
    /\ Fail(r, "ErrInvalidCredentials")
    /\ UNCHANGED <<users, refreshTokens, params, held, lineage>>

LoginOK(r) ==
    /\ pc[r] = "login.ok"
    /\ RecordAttempt(r, TRUE)
    /\ Goto(r, "issue")
    /\ UNCHANGED <<users, refreshTokens, params, held, lineage>>

-----------------------------------------------------------------------------
(* issueTokens, the end of Login and of Refresh *)

\* The account r's client takes itself to be: the one it logged in as, which a
\* refresh carries over from the token it presents.
Holder(r) == IF tok[r] \in Tokens THEN held[tok[r]] ELSE acct[r]

\* Variation: the user is kept in the service, where another request sets it.
IssueShared(r) ==
    /\ pc[r] = "issue"
    /\ \E t \in UnusedTokens, q \in Reqs :
          /\ pc[q] \in {"refresh.revoke", "issue"}
          /\ CreateToken(t, acct[q])
          /\ lineage' = [lineage EXCEPT ![t] = tok[r]]
          /\ Answer(r, "TOKENS")
          /\ held' = [held EXCEPT ![t] = Holder(r)]
    /\ UNCHANGED <<users, loginAttempts, params>>

Issue(r) ==
    /\ pc[r] = "issue"
    /\ \/ \E t \in UnusedTokens :
             /\ CreateToken(t, acct[r])
             /\ lineage' = [lineage EXCEPT ![t] = tok[r]]
             /\ \/ Answer(r, "TOKENS") /\ held' = [held EXCEPT ![t] = Holder(r)]
                \/ AckLost(r) /\ UNCHANGED held
       \/ StatementFails(r) /\ UNCHANGED <<refreshTokens, lineage, held>>
    /\ UNCHANGED <<users, loginAttempts, params>>

-----------------------------------------------------------------------------
(* Refresh *)

\* Variation: an expired token is still accepted.
LiveIgnoringExpiry(t) == FindByHash(t) # NoRow /\ ~FindByHash(t).revoked

\* Found, not revoked, and not after expires_at.
Live(t) == /\ FindByHash(t) # NoRow
           /\ ~FindByHash(t).revoked
           /\ FindByHash(t).left >= 0

RefreshFind(r) ==
    /\ pc[r] = "refresh.find"
    /\ \/ /\ Live(tok[r])
          /\ acct' = [acct EXCEPT ![r] = FindByHash(tok[r]).user]
          /\ Goto(r, "refresh.user")
       \/ /\ ~Live(tok[r])
          /\ Fail(r, "ErrTokenNotFound")  \* or Revoked, or Expired: one code
          /\ UNCHANGED acct
       \/ StatementFails(r) /\ UNCHANGED acct
    /\ UNCHANGED <<tables, pw, tok, role, held, lineage>>

\* Variation: the old token is left for the client to revoke.
RefreshUserKeeping(r) ==
    /\ pc[r] = "refresh.user"
    /\ \/ /\ FindUser(acct[r]) # NoRow
          /\ role' = [role EXCEPT ![r] = FindUser(acct[r]).role]
          /\ Goto(r, "issue")
       \/ StatementFails(r) /\ UNCHANGED role
    /\ UNCHANGED <<tables, acct, pw, tok, held, lineage>>

RefreshUser(r) ==
    /\ pc[r] = "refresh.user"
    /\ \/ /\ FindUser(acct[r]) # NoRow
          /\ role' = [role EXCEPT ![r] = FindUser(acct[r]).role]
          /\ Goto(r, "refresh.revoke")
       \/ /\ FindUser(acct[r]) = NoRow
          /\ Fail(r, "ErrUserNotFound")
          /\ UNCHANGED role
       \/ StatementFails(r) /\ UNCHANGED role
    /\ UNCHANGED <<tables, acct, pw, tok, held, lineage>>

RefreshRevoke(r) ==
    /\ pc[r] = "refresh.revoke"
    /\ \/ Revoke(tok[r]) /\ (Goto(r, "issue") \/ AckLost(r))
       \/ StatementFails(r) /\ UNCHANGED refreshTokens
    /\ UNCHANGED <<users, loginAttempts, params, held, lineage>>

-----------------------------------------------------------------------------
(* Logout *)

LogoutFind(r) ==
    /\ pc[r] = "logout.find"
    /\ \/ FindByHash(tok[r]) = NoRow /\ Answer(r, "NO_CONTENT")
       \/ FindByHash(tok[r]) # NoRow /\ Goto(r, "logout.revoke")
       \/ StatementFails(r)
    /\ UNCHANGED <<tables, params, held, lineage>>

LogoutRevoke(r) ==
    /\ pc[r] = "logout.revoke"
    /\ \/ Revoke(tok[r]) /\ (Answer(r, "NO_CONTENT") \/ AckLost(r))
       \/ StatementFails(r) /\ UNCHANGED refreshTokens
    /\ UNCHANGED <<users, loginAttempts, params, held, lineage>>

-----------------------------------------------------------------------------
(* The environment *)

\* The requests of S lose their process: no answer, and no undo.
Crash(S) ==
    /\ "crash" \in Faults
    /\ pc' = [r \in Reqs |-> IF r \in S THEN "idle" ELSE pc[r]]
    /\ resp' = [r \in Reqs |-> IF r \in S /\ pc[r] # "idle" THEN "LOST" ELSE resp[r]]
    /\ UNCHANGED <<tables, params, held, lineage>>

\* bootstrap.EnsureAdmin of a starting pod (module AuthSystem) creates the
\* administrator's account, or promotes it.
BootstrapCreates(e) ==
    /\ CreateUser(e, AdminPassword, "admin")
    /\ UNCHANGED <<refreshTokens, loginAttempts, control, params, held, lineage>>

BootstrapPromotes(e) ==
    /\ users[e] # NoRow
    /\ UpdateRole(e, "admin")
    /\ UNCHANGED <<refreshTokens, loginAttempts, control, params, held, lineage>>

Tick == RowsAge /\ UNCHANGED <<users, control, params, held, lineage>>

-----------------------------------------------------------------------------
Start(r) == StartRegister(r) \/ StartLogin(r) \/ StartRefresh(r) \/ StartLogout(r)

Step(r) ==
    \/ RegisterFind(r) \/ RegisterCreate(r)
    \/ LoginCount(r) \/ LoginFind(r) \/ LoginFail(r) \/ LoginOK(r)
    \/ Issue(r)
    \/ RefreshFind(r) \/ RefreshUser(r) \/ RefreshRevoke(r)
    \/ LogoutFind(r) \/ LogoutRevoke(r)

Bootstrap == \E e \in {AdminEmail} \cap Emails :
                BootstrapCreates(e) \/ BootstrapPromotes(e)

Next ==
    \/ \E r \in Reqs : Start(r) \/ Step(r)
    \/ \E S \in SUBSET Reqs : Crash(S)
    \/ Bootstrap
    \/ Tick

Spec == Init /\ [][Next]_vars

\* A goroutine is scheduled while its process lives, and time passes.  Nobody
\* promises that clients call, that processes die, or that pods start.
Fairness == WF_vars(Tick) /\ \A r \in Reqs : WF_vars(Step(r))

FairSpec == Spec /\ Fairness
=============================================================================
