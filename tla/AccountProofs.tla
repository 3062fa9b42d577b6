---------------------------- MODULE AccountProofs ----------------------------
(***************************************************************************)
(* Proofs that what an answer tells its client about accounts and tokens    *)
(* stays true while registrations, bootstraps and failures go on.           *)
(***************************************************************************)
EXTENDS AuthServiceProofs

\* A row of users stays, keeps its password and is only ever promoted.
UsersKept ==
    \A e \in Emails : users[e] # NoRow =>
        /\ users'[e] # NoRow
        /\ users'[e].pw = users[e].pw
        /\ Rank(users[e].role) <= Rank(users'[e].role)

LEMMA RankType == ASSUME NEW ro \in Roles PROVE Rank(ro) \in 0 .. 2
BY DEF Rank, Roles

LEMMA CreateUserKeeps ==
    ASSUME TablesTypeOK, NEW e \in Emails, NEW p \in Passwords, NEW ro \in Roles,
           CreateUser(e, p, ro)
    PROVE  UsersKept /\ users'[e] # NoRow /\ users'[e].pw = p
<1>1. users[e] = NoRow /\ users'[e] = [pw |-> p, role |-> ro]
  BY DEF TablesTypeOK, CreateUser
<1>2. users'[e] \in UserRow
  BY <1>1 DEF UserRow
<1>3. \A a \in Emails : a # e => users'[a] = users[a]
  BY DEF TablesTypeOK, CreateUser
<1>4. \A a \in Emails : users[a] # NoRow => Rank(users[a].role) \in 0 .. 2
  BY RankType DEF TablesTypeOK, UserRow
<1>. QED
  BY <1>1, <1>2, <1>3, <1>4, NoRowAssumption DEF UsersKept

LEMMA PromotionKeeps ==
    ASSUME TablesTypeOK, NEW e \in Emails, users[e] # NoRow, UpdateRole(e, "admin")
    PROVE  UsersKept
<1>1. users[e] \in UserRow
  BY DEF TablesTypeOK
<1>2. /\ users'[e] \in UserRow
      /\ users'[e].pw = users[e].pw
      /\ users'[e].role = "admin"
  BY <1>1 DEF TablesTypeOK, UpdateRole, UserRow, Roles
<1>3. \A a \in Emails : a # e => users'[a] = users[a]
  BY DEF TablesTypeOK, UpdateRole
<1>4. \A a \in Emails : users[a] # NoRow => Rank(users[a].role) \in 0 .. 2
  BY RankType DEF TablesTypeOK, UserRow
<1>5. Rank("admin") = 2
  BY DEF Rank
<1>. QED
  BY <1>1, <1>2, <1>3, <1>4, <1>5, NoRowAssumption DEF UsersKept

LEMMA UsersStep ==
    ASSUME TypeInv, [Next]_vars
    PROVE  UsersKept
<1>. USE DEF TypeInv, TypeOK
<1>1. CASE UNCHANGED users
  <2>1. \A a \in Emails : users[a] # NoRow => Rank(users[a].role) \in 0 .. 2
    BY RankType DEF TablesTypeOK, UserRow
  <2>. QED
    BY <1>1, <2>1 DEF UsersKept
<1>2. ASSUME NEW r \in Reqs, RegisterCreate(r)
      PROVE  UsersKept
  <2>1. acct[r] \in Emails /\ pw[r] \in Passwords
    BY <1>2 DEF RegisterCreate, RequestsSound, RequestSound, RegisterSteps
  <2>. QED
    BY <1>1, <1>2, <2>1, CreateUserKeeps DEF RegisterCreate, Roles
<1>3. CASE Bootstrap
  BY <1>3, CreateUserKeeps, PromotionKeeps, AdminAssumption
  DEF Bootstrap, BootstrapCreates, BootstrapPromotes, Roles
<1>4. ASSUME NEW r \in Reqs, Start(r) \/ Step(r), ~RegisterCreate(r)
      PROVE  UNCHANGED users
  BY <1>4 DEF Start, StartRegister, StartLogin, StartRefresh, StartLogout, Arrive, tables,
       Step, RegisterFind, LoginCount, LoginFind, LoginFail, LoginOK, Issue,
       RefreshFind, RefreshUser, RefreshRevoke, LogoutFind, LogoutRevoke
<1>5. CASE Tick \/ UNCHANGED vars \/ \E S \in SUBSET Reqs : Crash(S)
  BY <1>1, <1>5 DEF Tick, Crash, vars, tables
<1>. QED
  BY <1>1, <1>2, <1>3, <1>4, <1>5 DEF Next

-----------------------------------------------------------------------------
(* What each request's answer, or its way to one, says. *)

Registered(r) == resp[r] = "CREATED" =>
                    /\ acct[r] \in Emails
                    /\ users[acct[r]] # NoRow /\ users[acct[r]].pw = pw[r]
Claimed(r) == resp[r] = "TOKENS" => acct[r] \in Emails /\ Covered(r)

AnswerSound(r) == ClaimSound(r) /\ Registered(r) /\ Claimed(r)

\* Clients present the tokens they hold.
Presented(r) == tok[r] \in Tokens => held[tok[r]] # NoRow

AccountInv == /\ TypeInv
              /\ \A r \in Reqs : AnswerSound(r)
              /\ \A r \in Reqs : Presented(r)
              /\ DeliveredTokensBacked

\* Where the role a request holds was read, the account is a user's.
LEMMA HolderHasUser ==
    ASSUME TypeInv, NEW r \in Reqs,
           pc[r] \in {"login.ok", "refresh.user", "refresh.revoke", "issue"}
    PROVE  acct[r] \in Emails
BY DEF TypeInv, TypeOK, RequestsSound, RequestSound, LoginSteps, TablesTypeOK, TokenRow,
       Issued

\* Coverage survives promotions.
LEMMA CoveredFrame ==
    ASSUME TypeInv, UsersKept, TablesTypeOK', NEW q \in Reqs, acct[q] \in Emails, Covered(q),
           acct'[q] = acct[q], role'[q] = role[q]
    PROVE  Covered(q)'
<1>1. users[acct[q]] \in UserRow /\ users'[acct[q]] \in UserRow
  BY DEF Covered, UsersKept, TypeInv, TypeOK, TablesTypeOK
<1>2. /\ Rank(role[q]) \in 0 .. 2
      /\ Rank(users[acct[q]].role) \in 0 .. 2
      /\ Rank(users'[acct[q]].role) \in 0 .. 2
  BY <1>1, RankType DEF UserRow, TypeInv, TypeOK
<1>. QED
  BY <1>2 DEF Covered, UsersKept

\* A request that no step touches keeps what it was told.
LEMMA AnswerFrame ==
    ASSUME AccountInv, UsersKept, TablesTypeOK', NEW q \in Reqs,
           pc'[q] = pc[q], resp'[q] = resp[q], acct'[q] = acct[q], pw'[q] = pw[q],
           role'[q] = role[q]
    PROVE  AnswerSound(q)'
<1>1. ClaimSound(q)' /\ Claimed(q)'
  BY HolderHasUser, CoveredFrame DEF AccountInv, AnswerSound, ClaimSound, Claimed
<1>2. Registered(q)'
  BY DEF AccountInv, AnswerSound, Registered, UsersKept
<1>. QED
  BY <1>1, <1>2 DEF AnswerSound

\* An answer that promises nothing.
LEMMA PlainAnswer ==
    ASSUME NEW q \in Reqs, pc'[q] = "idle", resp'[q] \notin {"CREATED", "TOKENS"}
    PROVE  AnswerSound(q)'
BY DEF AnswerSound, ClaimSound, Registered, Claimed

LEMMA PlainFailure ==
    ASSUME TypeInv, NEW r \in Reqs, NEW err, Fail(r, err)
    PROVE  AnswerSound(r)'
<1>1. RespondError(err) \notin {"CREATED", "TOKENS"}
  BY DEF RespondError
<1>2. pc'[r] = "idle" /\ resp'[r] = RespondError(err)
  BY DEF Fail, Answer, TypeInv, TypeOK
<1>. QED
  BY <1>1, <1>2, PlainAnswer

\* A step of the way, before the role has been read or with it untouched.
LEMMA OnTheWay ==
    ASSUME AccountInv, NEW r \in Reqs, NEW step \in Steps, pc[r] # "idle", Goto(r, step),
           step \in {"login.ok", "refresh.revoke", "issue"} => Covered(r)'
    PROVE  AnswerSound(r)'
<1>1. pc'[r] = step /\ resp'[r] = "NONE"
  BY DEF Goto, AccountInv, TypeInv, TypeOK, AnswerSound, ClaimSound
<1>. QED
  BY <1>1 DEF AnswerSound, ClaimSound, Registered, Claimed

\* A step of r leaves the answers and roles of the other requests alone.
LEMMA OthersKeepAnswers ==
    ASSUME TypeInv, NEW r \in Reqs, Start(r) \/ Step(r),
           NEW q \in Reqs, q # r
    PROVE  resp'[q] = resp[q] /\ role'[q] = role[q]
<1>. USE DEF TypeInv, TypeOK
<1>1. CASE Start(r)
  BY <1>1 DEF Start, StartRegister, StartLogin, StartRefresh, StartLogout, Arrive
<1>2. CASE RegisterFind(r) \/ RegisterCreate(r) \/ LoginCount(r) \/ LoginFind(r)
           \/ LoginFail(r) \/ LoginOK(r)
  BY <1>2 DEF RegisterFind, RegisterCreate, LoginCount, LoginFind, LoginFail, LoginOK,
              params, Goto, Answer, Fail, StatementFails, AckLost
<1>3. CASE Issue(r) \/ RefreshFind(r) \/ RefreshUser(r) \/ RefreshRevoke(r)
           \/ LogoutFind(r) \/ LogoutRevoke(r)
  BY <1>3 DEF Issue, RefreshFind, RefreshUser, RefreshRevoke, LogoutFind, LogoutRevoke,
              params, Goto, Answer, Fail, StatementFails, AckLost
<1>. QED
  BY <1>1, <1>2, <1>3 DEF Step

\* What clients hold changes where tokens are issued.
LEMMA HeldFrame ==
    ASSUME [Next]_vars, \A r \in Reqs : ~Issue(r)
    PROVE  UNCHANGED held
BY DEF Next, Start, StartRegister, StartLogin, StartRefresh, StartLogout, Arrive, Step,
       RegisterFind, RegisterCreate, LoginCount, LoginFind, LoginFail, LoginOK, Issue,
       RefreshFind, RefreshUser, RefreshRevoke, LogoutFind, LogoutRevoke,
       Crash, Bootstrap, BootstrapCreates, BootstrapPromotes, Tick, vars

\* An issued token goes to a client under the account of its row.
LEMMA IssueSound ==
    ASSUME AccountInv, UsersKept, TablesTypeOK', NEW r \in Reqs, Issue(r)
    PROVE  /\ AnswerSound(r)'
           /\ DeliveredTokensBacked'
           /\ \A t \in Tokens : held[t] # NoRow => held'[t] # NoRow
<1>. USE DEF AccountInv, TypeInv, TypeOK
<1>1. /\ pc[r] = "issue" /\ acct[r] \in Emails /\ UNCHANGED <<acct, pw, role>>
      /\ Covered(r)
  BY DEF Issue, params, RequestsSound, RequestSound, AnswerSound, ClaimSound
<1>2. Holder(r) = acct[r]
  <2>1. CASE tok[r] \in Tokens
    <3>1. acct[r] = refreshTokens[tok[r]].user
      BY <1>1, <2>1 DEF RequestsSound, RequestSound
    <3>. QED
      BY <2>1, <3>1 DEF Holder, Presented, DeliveredTokensBacked
  <2>2. CASE tok[r] \notin Tokens
    BY <2>2 DEF Holder
  <2>. QED
    BY <2>1, <2>2
<1>3. ASSUME NEW t \in UnusedTokens, CreateToken(t, acct[r]), Answer(r, "TOKENS"),
             held' = [held EXCEPT ![t] = Holder(r)]
      PROVE  /\ AnswerSound(r)'
             /\ DeliveredTokensBacked'
             /\ \A s \in Tokens : held[s] # NoRow => held'[s] # NoRow
  <2>1. pc'[r] = "idle" /\ resp'[r] = "TOKENS"
    BY <1>3 DEF Answer
  <2>2. Covered(r)'
    BY <1>1, CoveredFrame
  <2>3. t \in Tokens /\ refreshTokens[t] = NoRow
    BY DEF UnusedTokens
  <2>4. /\ Issued(t)'
        /\ refreshTokens'[t] = [user |-> acct[r], revoked |-> FALSE, left |-> RefreshTTL]
        /\ \A s \in Tokens : s # t => refreshTokens'[s] = refreshTokens[s]
    <3>1. TablesTypeOK
      OBVIOUS
    <3>. QED
      BY <1>1, <1>3, <3>1, CreateKeeps
  <2>5. DeliveredTokensBacked'
    BY <1>2, <1>3, <2>3, <2>4 DEF DeliveredTokensBacked, Issued
  <2>6. \A s \in Tokens : held[s] # NoRow => held'[s] # NoRow
    BY <1>3, <2>3 DEF DeliveredTokensBacked, Issued
  <2>. QED
    BY <1>1, <2>1, <2>2, <2>5, <2>6 DEF AnswerSound, ClaimSound, Registered, Claimed
<1>4. CASE UNCHANGED held /\ (StatementFails(r) \/ AckLost(r))
  <2>1. AnswerSound(r)'
    BY <1>4, PlainFailure DEF StatementFails, AckLost
  <2>2. RowsKept
    <3>1. TablesTypeOK
      OBVIOUS
    <3>2. ASSUME NEW t \in UnusedTokens, CreateToken(t, acct[r])
          PROVE  RowsKept
      BY <1>1, <3>1, <3>2, CreateKeeps
    <3>3. CASE UNCHANGED refreshTokens
      BY <3>3 DEF RowsKept, Issued
    <3>. QED
      BY <3>2, <3>3, IssueEffect
  <2>. QED
    BY <1>4, <2>1, <2>2 DEF DeliveredTokensBacked, RowsKept
<1>5. \/ UNCHANGED held /\ (StatementFails(r) \/ AckLost(r))
      \/ \E t \in UnusedTokens : /\ CreateToken(t, acct[r]) /\ Answer(r, "TOKENS")
                                 /\ held' = [held EXCEPT ![t] = Holder(r)]
  BY DEF Issue
<1>. QED
  BY <1>3, <1>4, <1>5

\* A request presents what its client holds, and goes on holding.
LEMMA PresentedStep ==
    ASSUME AccountInv, UsersKept, TablesTypeOK', [Next]_vars
    PROVE  \A q \in Reqs : Presented(q)'
<1>. USE DEF AccountInv, TypeInv, TypeOK
<1>0. \A t \in Tokens : held[t] # NoRow => held'[t] # NoRow
  BY IssueSound, HeldFrame
<1>1. ASSUME NEW r \in Reqs, Start(r) \/ Step(r)
      PROVE  \A q \in Reqs : q # r => Presented(q)'
  BY <1>0, <1>1, OthersUntouched DEF Presented
<1>2. ASSUME NEW r \in Reqs, Start(r)
      PROVE  Presented(r)'
  <2>1. CASE WithCredentials(r)
    BY <2>1, NoTokenAssumption DEF WithCredentials, Presented
  <2>2. CASE WithToken(r)
    BY <1>0, <2>2, NoTokenAssumption DEF WithToken, Presented
  <2>. QED
    BY <1>2, <2>1, <2>2 DEF Start, StartRegister, StartLogin, StartRefresh, StartLogout
<1>3. ASSUME NEW r \in Reqs, Step(r)
      PROVE  Presented(r)'
  <2>1. UNCHANGED tok
    BY <1>3, Zenon DEF Step, RegisterFind, RegisterCreate, LoginCount, LoginFind, LoginFail, LoginOK,
              Issue, RefreshFind, RefreshUser, RefreshRevoke, LogoutFind, LogoutRevoke, params
  <2>. QED
    BY <1>0, <2>1 DEF Presented
<1>4. CASE \/ Bootstrap \/ Tick \/ UNCHANGED vars
           \/ \E S \in SUBSET Reqs : Crash(S)
  <2>1. UNCHANGED tok
    BY <1>4 DEF Bootstrap, BootstrapCreates, BootstrapPromotes, Tick, Crash, vars, params
  <2>. QED
    BY <1>0, <2>1 DEF Presented
<1>. QED
  BY <1>1, <1>2, <1>3, <1>4 DEF Next

\* Where no token is issued, those delivered keep their rows.
LEMMA BackedFrame ==
    ASSUME DeliveredTokensBacked, RowsKept, UNCHANGED held
    PROVE  DeliveredTokensBacked'
BY DEF DeliveredTokensBacked, RowsKept

LEMMA AccountStep == AccountInv /\ [Next]_vars => AccountInv'
<1>. SUFFICES ASSUME AccountInv, [Next]_vars  PROVE AccountInv'
  OBVIOUS
<1>0. TypeInv /\ TypeInv' /\ UsersKept /\ RowsKept /\ TablesTypeOK'
  BY TypeInvStep, UsersStep, TablesStep DEF AccountInv
<1>a. \A q \in Reqs : Presented(q)'
  BY <1>0, PresentedStep
<1>b. DeliveredTokensBacked'
  BY <1>0, IssueSound, HeldFrame, BackedFrame DEF AccountInv
<1>. USE DEF TypeInv, TypeOK
<1>1. ASSUME NEW r \in Reqs, Start(r) \/ Step(r), AnswerSound(r)'
      PROVE  \A q \in Reqs : AnswerSound(q)'
  BY <1>0, <1>1, OthersUntouched, OthersKeepAnswers, AnswerFrame
<1>2. ASSUME NEW r \in Reqs, Start(r)  PROVE AnswerSound(r)'
  <2>1. resp'[r] = "NONE" /\ pc'[r] \notin {"login.ok", "refresh.revoke", "issue"}
    BY <1>0, <1>2
    DEF Start, StartRegister, StartLogin, StartRefresh, StartLogout, Arrive
  <2>. QED
    BY <2>1 DEF AnswerSound, ClaimSound, Registered, Claimed
<1>3. ASSUME NEW r \in Reqs, RegisterFind(r) \/ LoginCount(r) \/ LoginFail(r)
      PROVE  AnswerSound(r)'
  BY <1>0, <1>3, PlainFailure, OnTheWay
  DEF RegisterFind, LoginCount, LoginFail, StatementFails, Steps, RegisterSteps, LoginSteps
<1>4. ASSUME NEW r \in Reqs, RegisterCreate(r)  PROVE AnswerSound(r)'
  <2>1. /\ acct[r] \in Emails /\ pw[r] \in Passwords
        /\ acct'[r] = acct[r] /\ pw'[r] = pw[r]
    BY <1>0, <1>4
    DEF RegisterCreate, RequestsSound, RequestSound, RegisterSteps, params
  <2>2. CASE CreateUser(acct[r], pw[r], "viewer") /\ Answer(r, "CREATED")
    <3>1. users'[acct[r]] # NoRow /\ users'[acct[r]].pw = pw[r]
      BY <1>0, <2>1, <2>2, CreateUserKeeps DEF Roles
    <3>2. pc'[r] = "idle" /\ resp'[r] = "CREATED"
      BY <1>0, <2>2 DEF Answer
    <3>. QED
      BY <2>1, <3>1, <3>2 DEF AnswerSound, ClaimSound, Registered, Claimed
  <2>3. CASE Fail(r, "unique_violation") \/ StatementFails(r) \/ AckLost(r)
    BY <1>0, <2>3, PlainFailure DEF StatementFails, AckLost
  <2>. QED
    BY <1>4, <2>2, <2>3 DEF RegisterCreate
<1>5. ASSUME NEW r \in Reqs, LoginFind(r) \/ RefreshUser(r)  PROVE AnswerSound(r)'
  <2>1. acct[r] \in Emails /\ UNCHANGED <<users, acct>>
    BY <1>0, <1>5, HolderHasUser
    DEF LoginFind, RefreshUser, tables, RequestsSound, RequestSound, LoginSteps
  <2>2. CASE /\ users[acct[r]] # NoRow
             /\ role' = [role EXCEPT ![r] = FindUser(acct[r]).role]
             /\ Goto(r, "login.ok") \/ Goto(r, "refresh.revoke")
    <3>1. users[acct[r]] \in UserRow
      BY <1>0, <2>1, <2>2 DEF TablesTypeOK
    <3>2. Rank(users[acct[r]].role) <= Rank(users[acct[r]].role)
      BY <3>1, RankType DEF UserRow
    <3>3. Covered(r)'
      BY <1>0, <2>1, <2>2, <3>2 DEF Covered, FindUser
    <3>. QED
      BY <1>5, <2>2, <3>3, OnTheWay
      DEF LoginFind, RefreshUser, Steps, LoginSteps, RefreshSteps
  <2>3. CASE Goto(r, "login.fail")
    BY <1>5, <2>3, OnTheWay DEF LoginFind, RefreshUser, Steps, LoginSteps
  <2>4. CASE Fail(r, "ErrUserNotFound") \/ StatementFails(r)
    BY <1>0, <2>4, PlainFailure DEF StatementFails
  <2>. QED
    BY <1>5, <2>2, <2>3, <2>4 DEF LoginFind, RefreshUser, CredentialsMatch, FindUser
<1>6. ASSUME NEW r \in Reqs, LoginOK(r) \/ RefreshRevoke(r)  PROVE AnswerSound(r)'
  <2>1. CASE Goto(r, "issue")
    <3>1. Covered(r) /\ acct[r] \in Emails /\ acct'[r] = acct[r] /\ role'[r] = role[r]
      BY <1>0, <1>6, HolderHasUser
      DEF LoginOK, RefreshRevoke, params, AccountInv, AnswerSound, ClaimSound
    <3>2. Covered(r)'
      BY <1>0, <3>1, CoveredFrame
    <3>. QED
      BY <1>6, <2>1, <3>2, OnTheWay DEF LoginOK, RefreshRevoke, Steps
  <2>2. CASE StatementFails(r) \/ AckLost(r)
    BY <1>0, <2>2, PlainFailure DEF StatementFails, AckLost
  <2>. QED
    BY <1>6, <2>1, <2>2 DEF LoginOK, RefreshRevoke
<1>7. ASSUME NEW r \in Reqs, RefreshFind(r)  PROVE AnswerSound(r)'
  BY <1>0, <1>7, PlainFailure, OnTheWay
  DEF RefreshFind, StatementFails, Steps, RefreshSteps
<1>8. ASSUME NEW r \in Reqs, LogoutFind(r) \/ LogoutRevoke(r)  PROVE AnswerSound(r)'
  <2>1. CASE Answer(r, "NO_CONTENT")
    BY <1>0, <2>1, PlainAnswer DEF Answer
  <2>. QED
    BY <1>0, <1>8, <2>1, PlainFailure, OnTheWay
    DEF LogoutFind, LogoutRevoke, StatementFails, AckLost, Steps, LogoutSteps
<1>9. CASE \E S \in SUBSET Reqs : Crash(S)
  <2>1. PICK S \in SUBSET Reqs : Crash(S)
    BY <1>9
  <2>2. ASSUME NEW q \in Reqs  PROVE AnswerSound(q)'
    <3>1. CASE q \in S /\ pc[q] # "idle"
      BY <1>0, <2>1, <3>1, PlainAnswer DEF Crash
    <3>2. CASE ~(q \in S /\ pc[q] # "idle")
      BY <1>0, <2>1, <3>2, AnswerFrame DEF Crash, params
    <3>. QED
      BY <3>1, <3>2
  <2>. QED
    BY <1>0, <1>a, <1>b, <2>2 DEF AccountInv
<1>10. CASE Bootstrap \/ Tick \/ UNCHANGED vars
  <2>1. UNCHANGED <<pc, resp, acct, pw, role>>
    BY <1>10 DEF Bootstrap, BootstrapCreates, BootstrapPromotes, Tick, vars, control, params
  <2>2. \A q \in Reqs : AnswerSound(q)'
    BY <1>0, <2>1, AnswerFrame
  <2>. QED
    BY <1>0, <1>a, <1>b, <2>2 DEF AccountInv
<1>11. CASE \E r \in Reqs : Start(r) \/ Step(r)
  <2>1. PICK r \in Reqs : Start(r) \/ Step(r)
    BY <1>11
  <2>2. AnswerSound(r)'
    BY <1>0, <1>2, <1>3, <1>4, <1>5, <1>6, <1>7, <1>8, <2>1, IssueSound DEF Step
  <2>3. \A q \in Reqs : AnswerSound(q)'
    BY <1>1, <2>1, <2>2
  <2>. QED
    BY <1>0, <1>a, <1>b, <2>3 DEF AccountInv
<1>. QED
  BY <1>9, <1>10, <1>11 DEF Next

LEMMA AccountInvariant == Spec => []AccountInv
<1>1. Init => AccountInv
  BY TypeInvInit, NoTokenAssumption
  DEF Init, AccountInv, AnswerSound, ClaimSound, Registered, Claimed, Presented,
      DeliveredTokensBacked
<1>. QED
  BY <1>1, AccountStep, PTL DEF Spec

\* A 201 is never taken back: whoever else registered the address, and whatever
\* role the bootstrap gave it, the account opens with the confirmed password.
THEOREM ConfirmedAccountsHold == Spec => []CreatedAccountHoldsPassword
<1>1. AccountInv => CreatedAccountHoldsPassword
  BY DEF AccountInv, AnswerSound, Registered, CreatedAccountHoldsPassword
<1>. QED
  BY <1>1, AccountInvariant, PTL

\* No access token is signed with a role above that of the account's row.
THEOREM RoleClaimsCovered == Spec => []RoleClaimCovered
<1>1. AccountInv => RoleClaimCovered
  BY DEF AccountInv, AnswerSound, Claimed, RoleClaimCovered
<1>. QED
  BY <1>1, AccountInvariant, PTL

\* No client holds a refresh token the database does not know, or knows as another
\* account's than the one it logged in as.
THEOREM DeliveredTokensAreBacked == Spec => []DeliveredTokensBacked
<1>1. AccountInv => DeliveredTokensBacked
  BY DEF AccountInv
<1>. QED
  BY <1>1, AccountInvariant, PTL

-----------------------------------------------------------------------------
(* What 201 and INTERNAL say of the other requests and of the tables. *)

\* The codes a domain error is reported with, and what is no domain error.
LEMMA ErrorCodes ==
    /\ RespondError("driver_error") = "INTERNAL"
    /\ RespondError("unique_violation") = "INTERNAL"
    /\ RespondError("bcrypt_error") = "INTERNAL"
    /\ \A err \in {"ErrEmailTaken", "ErrInvalidCredentials", "ErrAccountLocked",
                   "ErrUserNotFound", "ErrTokenNotFound"} :
          RespondError(err) \notin {"INTERNAL", "CREATED", "TOKENS", "NO_CONTENT"}
BY DEF RespondError

\* r's step confirms an account only where there was none.
LEMMA ConfirmationStep ==
    ASSUME AccountInv, NEW r \in Reqs, Start(r) \/ Step(r), resp'[r] = "CREATED"
    PROVE  acct'[r] = acct[r] /\ users[acct[r]] = NoRow
<1>. USE DEF AccountInv, TypeInv, TypeOK
<1>1. pc[r] # "idle" => resp[r] = "NONE"
  BY DEF AnswerSound, ClaimSound
<1>2. ~Start(r)
  BY DEF Start, StartRegister, StartLogin, StartRefresh, StartLogout, Arrive
<1>3. ASSUME NEW err, Fail(r, err)  PROVE FALSE
  <2>1. RespondError(err) # "CREATED"
    BY DEF RespondError
  <2>. QED
    BY <1>3, <2>1 DEF Fail, Answer
<1>4. ASSUME NEW step, Goto(r, step), pc[r] # "idle"  PROVE FALSE
  BY <1>1, <1>4 DEF Goto
<1>5. ASSUME NEW code, Answer(r, code), code # "CREATED"  PROVE FALSE
  BY <1>5 DEF Answer
<1>6. CASE RegisterCreate(r)
  BY <1>3, <1>6 DEF RegisterCreate, CreateUser, StatementFails, AckLost, params
<1>7. CASE RegisterFind(r) \/ LoginCount(r) \/ LoginFind(r) \/ LoginFail(r) \/ LoginOK(r)
  BY <1>3, <1>4, <1>7
  DEF RegisterFind, LoginCount, LoginFind, LoginFail, LoginOK, StatementFails
<1>8. CASE Issue(r)
  BY <1>3, <1>5, <1>8 DEF Issue, StatementFails, AckLost
<1>9. CASE RefreshFind(r) \/ RefreshUser(r) \/ RefreshRevoke(r)
  BY <1>3, <1>4, <1>9 DEF RefreshFind, RefreshUser, RefreshRevoke, StatementFails, AckLost
<1>10. CASE LogoutFind(r) \/ LogoutRevoke(r)
  BY <1>3, <1>4, <1>5, <1>10 DEF LogoutFind, LogoutRevoke, StatementFails, AckLost
<1>. QED
  BY <1>2, <1>6, <1>7, <1>8, <1>9, <1>10 DEF Step

LEMMA ConfirmedOnceStep ==
    ASSUME AccountInv, ConfirmedOnce, [Next]_vars
    PROVE  ConfirmedOnce'
<1>. USE DEF TypeInv, TypeOK
<1>0. TypeInv
  BY DEF AccountInv
<1>1. ASSUME NEW r \in Reqs, Start(r) \/ Step(r)
      PROVE  ConfirmedOnce'
  <2>1. \A q \in Reqs : q # r => resp'[q] = resp[q] /\ acct'[q] = acct[q]
    BY <1>0, <1>1, OthersUntouched, OthersKeepAnswers
  <2>2. resp'[r] = "CREATED" =>
            \A q \in Reqs : q # r /\ resp[q] = "CREATED" => acct[q] # acct'[r]
    BY <1>1, ConfirmationStep DEF AccountInv, AnswerSound, Registered
  <2>. QED
    BY <2>1, <2>2 DEF ConfirmedOnce
<1>2. ASSUME NEW S \in SUBSET Reqs, Crash(S)
      PROVE  ConfirmedOnce'
  BY <1>2 DEF Crash, params, ConfirmedOnce
<1>3. CASE Bootstrap \/ Tick \/ UNCHANGED vars
  <2>1. UNCHANGED <<resp, acct>>
    BY <1>3 DEF Bootstrap, BootstrapCreates, BootstrapPromotes, Tick, vars, control, params
  <2>. QED
    BY <2>1 DEF ConfirmedOnce
<1>. QED
  BY <1>1, <1>2, <1>3 DEF Next

\* An address is confirmed to one of those who register it at the same time.
THEOREM AccountsConfirmedOnce == Spec => []ConfirmedOnce
<1>1. Init => ConfirmedOnce
  BY DEF Init, ConfirmedOnce
<1>2. AccountInv /\ ConfirmedOnce /\ [Next]_vars => ConfirmedOnce'
  BY ConfirmedOnceStep
<1>. QED
  BY <1>1, <1>2, AccountInvariant, PTL DEF Spec

\* What a request that is answered INTERNAL was told.
Told(r) == /\ tok[r] \in Tokens => UsedUp(r)
           /\ tok[r] \notin Tokens =>
                 pw[r] \in Unhashable \/ (acct[r] \in Emails /\ users[acct[r]] # NoRow)

\* It stays true.
LEMMA ToldFrame ==
    ASSUME UsersKept, RowsKept, NEW r \in Reqs, Told(r),
           tok'[r] = tok[r], acct'[r] = acct[r], pw'[r] = pw[r]
    PROVE  Told(r)'
BY DEF Told, UsedUp, UsersKept, RowsKept, Issued

\* A request that is answered INTERNAL was refused by a row, or has written it.
LEMMA InternalStep ==
    ASSUME "error" \notin Faults, AccountInv, UsersKept, RowsKept,
           NEW r \in Reqs, Start(r) \/ Step(r), resp'[r] = "INTERNAL"
    PROVE  Told(r)'
<1>. USE DEF AccountInv, TypeInv, TypeOK
<1>1. pc[r] # "idle" => resp[r] = "NONE"
  BY DEF AnswerSound, ClaimSound
<1>2. ~Start(r)
  BY DEF Start, StartRegister, StartLogin, StartRefresh, StartLogout, Arrive
<1>3. ~StatementFails(r)
  BY DEF StatementFails
<1>4. ASSUME NEW err \in {"ErrEmailTaken", "ErrInvalidCredentials", "ErrAccountLocked",
                         "ErrUserNotFound", "ErrTokenNotFound"},
             Fail(r, err)
      PROVE  FALSE
  BY <1>4, ErrorCodes DEF Fail, Answer
<1>5. ASSUME NEW step, Goto(r, step), pc[r] # "idle"  PROVE FALSE
  BY <1>1, <1>5 DEF Goto
<1>6. ASSUME NEW code, Answer(r, code), code # "INTERNAL"  PROVE FALSE
  BY <1>6 DEF Answer
<1>6a. CASE RegisterFind(r)
  <2>1. /\ tok[r] = NoToken /\ UNCHANGED <<pw, tok>>
    BY <1>6a DEF RegisterFind, RequestsSound, RequestSound, RegisterSteps, params
  <2>2. pw[r] \in Unhashable
    BY <1>3, <1>4, <1>5, <1>6a DEF RegisterFind
  <2>. QED
    BY <2>1, <2>2, NoTokenAssumption DEF Told
<1>7. CASE LoginCount(r) \/ LoginFind(r) \/ LoginFail(r) \/ LoginOK(r)
  BY <1>3, <1>4, <1>5, <1>7 DEF LoginCount, LoginFind, LoginFail, LoginOK
<1>8. CASE RefreshFind(r) \/ RefreshUser(r) \/ LogoutFind(r)
  BY <1>3, <1>4, <1>5, <1>6, <1>8 DEF RefreshFind, RefreshUser, LogoutFind
<1>9. CASE RegisterCreate(r)
  <2>1. /\ acct[r] \in Emails /\ pw[r] \in Passwords /\ tok[r] = NoToken
        /\ UNCHANGED <<acct, tok, pw>>
    BY <1>9 DEF RegisterCreate, RequestsSound, RequestSound, RegisterSteps, params
  <2>2. CASE users[acct[r]] # NoRow
    BY <2>1, <2>2, ToldFrame, NoTokenAssumption DEF Told
  <2>3. CASE CreateUser(acct[r], pw[r], "viewer")
    <3>1. users'[acct[r]] # NoRow
      BY <2>1, <2>3, CreateUserKeeps DEF Roles
    <3>. QED
      BY <2>1, <3>1, NoTokenAssumption DEF Told
  <2>. QED
    BY <1>3, <1>9, <2>2, <2>3 DEF RegisterCreate
<1>10. CASE Issue(r)
  <2>1. UNCHANGED <<acct, tok, pw>>
    BY <1>10 DEF Issue, params
  <2>2. /\ acct[r] \in Emails /\ users[acct[r]] # NoRow
        /\ tok[r] \in Tokens => Issued(tok[r]) /\ refreshTokens[tok[r]].revoked
    BY <1>10 DEF Issue, RequestsSound, RequestSound, AnswerSound, ClaimSound, Covered
  <2>3. Told(r)
    BY <2>2 DEF Told, UsedUp
  <2>. QED
    BY <2>1, <2>3, ToldFrame
<1>11. CASE RefreshRevoke(r) \/ LogoutRevoke(r)
  <2>1. /\ tok[r] \in Tokens /\ Issued(tok[r])
        /\ UNCHANGED <<acct, tok>> /\ Revoke(tok[r])
    BY <1>3, <1>11 DEF RefreshRevoke, LogoutRevoke, RequestsSound, RequestSound, params
  <2>2. refreshTokens'[tok[r]].revoked
    BY <2>1, RevokeKeeps
  <2>. QED
    BY <2>1, <2>2 DEF Told, UsedUp, RowsKept
<1>. QED
  BY <1>2, <1>6a, <1>7, <1>8, <1>9, <1>10, <1>11 DEF Step

InternalSound == \A r \in Reqs : resp[r] = "INTERNAL" => Told(r)

LEMMA InternalSoundStep ==
    ASSUME "error" \notin Faults, AccountInv, InternalSound, [Next]_vars
    PROVE  InternalSound'
<1>. USE DEF TypeInv, TypeOK
<1>0. TypeInv /\ UsersKept /\ RowsKept
  BY UsersStep, TablesStep DEF AccountInv
<1>1. ASSUME NEW r \in Reqs, Start(r) \/ Step(r)
      PROVE  InternalSound'
  <2>1. \A q \in Reqs : q # r => /\ resp'[q] = resp[q]
                                /\ acct'[q] = acct[q] /\ tok'[q] = tok[q] /\ pw'[q] = pw[q]
    BY <1>0, <1>1, OthersUntouched, OthersKeepAnswers
  <2>2. \A q \in Reqs : q # r /\ resp'[q] = "INTERNAL" => Told(q)'
    BY <1>0, <2>1, ToldFrame DEF InternalSound
  <2>3. resp'[r] = "INTERNAL" => Told(r)'
    BY <1>0, <1>1, InternalStep
  <2>. QED
    BY <2>2, <2>3 DEF InternalSound
<1>2. ASSUME NEW S \in SUBSET Reqs, Crash(S)
      PROVE  InternalSound'
  <2>1. /\ UNCHANGED <<acct, tok, pw>>
        /\ \A q \in Reqs : resp'[q] = "INTERNAL" => resp[q] = "INTERNAL"
    BY <1>0, <1>2 DEF Crash, params
  <2>. QED
    BY <1>0, <2>1, ToldFrame DEF InternalSound
<1>3. CASE Bootstrap \/ Tick \/ UNCHANGED vars
  <2>1. UNCHANGED <<resp, acct, tok, pw>>
    BY <1>3 DEF Bootstrap, BootstrapCreates, BootstrapPromotes, Tick, vars, control, params
  <2>. QED
    BY <1>0, <2>1, ToldFrame DEF InternalSound
<1>. QED
  BY <1>1, <1>2, <1>3 DEF Next

\* Where every statement takes effect, an internal error tells the client of a
\* refresh or a logout that its token is used up, and that of a registration that
\* the address has an account or bcrypt refused the password.
THEOREM InternalErrorsTell == Spec => []InternalTells
<1>1. CASE "error" \in Faults
  <2>1. InternalTells
    BY <1>1 DEF InternalTells
  <2>. QED
    BY <2>1, PTL
<1>2. CASE "error" \notin Faults
  <2>1. Init => InternalSound
    BY DEF Init, InternalSound
  <2>2. AccountInv /\ InternalSound /\ [Next]_vars => InternalSound'
    BY <1>2, InternalSoundStep
  <2>3. InternalSound => InternalTells
    BY DEF InternalSound, InternalTells, Told
  <2>. QED
    BY <2>1, <2>2, <2>3, AccountInvariant, PTL DEF Spec
<1>. QED
  BY <1>1, <1>2

\* A registration that nobody overtakes.
Unraced(r) == /\ resp[r] = "INTERNAL" => pw[r] \in Unhashable
              /\ pc[r] = "register.create" => users[acct[r]] = NoRow

LEMMA UnracedStep ==
    ASSUME Faults \subseteq {"crash"}, AccountInv, NEW r \in Reqs, Unraced(r),
           Start(r) \/ Step(r)
    PROVE  Unraced(r)'
<1>. USE DEF AccountInv, TypeInv, TypeOK
<1>1. ~StatementFails(r) /\ ~AckLost(r)
  BY DEF StatementFails, AckLost
<1>2. ASSUME NEW err \in {"ErrEmailTaken", "ErrInvalidCredentials", "ErrAccountLocked",
                         "ErrUserNotFound", "ErrTokenNotFound"},
             Fail(r, err)
      PROVE  Unraced(r)'
  BY <1>2, ErrorCodes DEF Fail, Answer, Unraced
<1>2a. pc[r] # "idle" => resp[r] = "NONE"
  BY DEF AnswerSound, ClaimSound
<1>3. ASSUME NEW step, Goto(r, step), step # "register.create", pc[r] # "idle"
      PROVE  Unraced(r)'
  BY <1>2a, <1>3 DEF Goto, Unraced
<1>4. ASSUME NEW code, Answer(r, code), code # "INTERNAL"  PROVE Unraced(r)'
  BY <1>4 DEF Answer, Unraced
<1>5. CASE Start(r)
  BY <1>5 DEF Start, StartRegister, StartLogin, StartRefresh, StartLogout, Arrive, Unraced
<1>6. CASE RegisterFind(r)
  <2>1. CASE FindUser(acct[r]) = NoRow /\ Goto(r, "register.create")
    BY <1>2a, <1>6, <2>1 DEF RegisterFind, FindUser, Goto, tables, params, Unraced
  <2>2. CASE pw[r] \in Unhashable /\ Fail(r, "bcrypt_error")
    BY <1>6, <2>2 DEF RegisterFind, Fail, Answer, params, Unraced
  <2>. QED
    BY <1>1, <1>2, <1>6, <2>1, <2>2 DEF RegisterFind
<1>7. CASE RegisterCreate(r)
  BY <1>1, <1>4, <1>7 DEF RegisterCreate, Unraced
<1>8. CASE LoginCount(r) \/ LoginFind(r) \/ LoginFail(r) \/ LoginOK(r) \/ Issue(r)
  BY <1>1, <1>2, <1>3, <1>4, <1>8 DEF LoginCount, LoginFind, LoginFail, LoginOK, Issue
<1>9. CASE RefreshFind(r) \/ RefreshUser(r) \/ RefreshRevoke(r)
           \/ LogoutFind(r) \/ LogoutRevoke(r)
  BY <1>1, <1>2, <1>3, <1>4, <1>9
  DEF RefreshFind, RefreshUser, RefreshRevoke, LogoutFind, LogoutRevoke
<1>. QED
  BY <1>5, <1>6, <1>7, <1>8, <1>9 DEF Step

\* Where requests run one at a time, no administrator is bootstrapped and the
\* database answers, only a password that bcrypt refuses ends in an internal error:
\* what the API documents of a taken address fails only in a race.
THEOREM SequentialRegistration ==
    ASSUME Cardinality(Reqs) = 1, AdminEmail \notin Emails, Faults \subseteq {"crash"}
    PROVE  Spec => []TakenIsReported
<1>. DEFINE Quiet == \A r \in Reqs : Unraced(r)
<1>0. \A r, q \in Reqs : r = q
  BY ReqsAssumption, FS_Singleton
<1>1. Init => Quiet
  BY DEF Init, Unraced
<1>2. AccountInv /\ Quiet /\ [Next]_vars => Quiet'
  <2>. SUFFICES ASSUME AccountInv, Quiet, [Next]_vars, NEW r \in Reqs
                PROVE  Unraced(r)'
    OBVIOUS
  <2>1. CASE \E q \in Reqs : Start(q) \/ Step(q)
    BY <1>0, <2>1, UnracedStep
  <2>2. CASE \E S \in SUBSET Reqs : Crash(S)
    BY <2>2 DEF Crash, tables, params, Unraced, AccountInv, TypeInv, TypeOK
  <2>3. CASE Tick \/ UNCHANGED vars
    BY <2>3 DEF Tick, vars, tables, control, params, Unraced
  <2>4. ~Bootstrap
    BY DEF Bootstrap
  <2>. QED
    BY <2>1, <2>2, <2>3, <2>4 DEF Next
<1>3. Quiet => TakenIsReported
  BY DEF Unraced, TakenIsReported
<1>. QED
  BY <1>1, <1>2, <1>3, AccountInvariant, PTL DEF Spec

-----------------------------------------------------------------------------
(* The service implements Sessions. *)

\* Without a purchase no token gets an owner and none becomes usable.
LEMMA NoNewTokens ==
    ASSUME TypeInv, [Next]_vars, \A r \in Reqs : ~Issue(r)
    PROVE  Owner' = Owner /\ UsableTokens' \subseteq UsableTokens
<1>. USE DEF TypeInv, TypeOK
<1>1. ASSUME NEW t \in Tokens
      PROVE  /\ Issued(t)' <=> Issued(t)
             /\ Issued(t) => refreshTokens'[t].user = refreshTokens[t].user
             /\ Usable(t)' => Usable(t)
  <2>1. CASE UNCHANGED refreshTokens
    BY <2>1 DEF Issued, Usable
  <2>2. ASSUME NEW r \in Reqs, RefreshRevoke(r) \/ LogoutRevoke(r), Revoke(tok[r])
        PROVE  /\ Issued(t)' <=> Issued(t)
               /\ Issued(t) => refreshTokens'[t].user = refreshTokens[t].user
               /\ Usable(t)' => Usable(t)
    <3>1. tok[r] \in Tokens /\ Issued(tok[r])
      BY <2>2 DEF RefreshRevoke, LogoutRevoke, RequestsSound, RequestSound
    <3>2. RowsKept /\ refreshTokens'[tok[r]].revoked
      BY <2>2, <3>1, RevokeKeeps
    <3>3. CASE t = tok[r]
      BY <3>1, <3>2, <3>3 DEF RowsKept, Usable, Issued
    <3>4. CASE t # tok[r]
      <4>1. refreshTokens'[t] = refreshTokens[t]
        BY <2>2, <3>1, <3>4 DEF Revoke, TablesTypeOK
      <4>. QED
        BY <4>1 DEF Issued, Usable
    <3>. QED
      BY <3>3, <3>4
  <2>3. CASE Tick
    <3>1. /\ refreshTokens[t] = NoRow <=> refreshTokens'[t] = NoRow
          /\ refreshTokens[t] # NoRow =>
                /\ refreshTokens'[t] \in TokenRow /\ refreshTokens[t] \in TokenRow
                /\ refreshTokens'[t].user = refreshTokens[t].user
                /\ refreshTokens'[t].revoked = refreshTokens[t].revoked
                /\ refreshTokens'[t].left <= refreshTokens[t].left
      BY <2>3, TokenRowAges DEF Tick, TablesTypeOK
    <3>. QED
      BY <3>1, TimesAssumption DEF Issued, Usable, TokenRow
  <2>4. \/ UNCHANGED refreshTokens
        \/ Tick
        \/ \E r \in Reqs : (RefreshRevoke(r) \/ LogoutRevoke(r)) /\ Revoke(tok[r])
    BY DEF Next, Start, StartRegister, StartLogin, StartRefresh, StartLogout, Arrive,
       Step, RegisterFind, RegisterCreate, LoginCount, LoginFind, LoginFail, LoginOK,
       RefreshFind, RefreshUser, RefreshRevoke, LogoutFind, LogoutRevoke, Crash,
       Bootstrap, BootstrapCreates, BootstrapPromotes, vars, tables
  <2>. QED
    BY <2>1, <2>2, <2>3, <2>4
<1>2. Owner' = [t \in Tokens |-> IF Issued(t)' THEN refreshTokens'[t].user ELSE NoRow]
  BY DEF Owner
<1>3. \A t \in Tokens : (IF Issued(t)' THEN refreshTokens'[t].user ELSE NoRow)
                         = (IF Issued(t) THEN refreshTokens[t].user ELSE NoRow)
  BY <1>1
<1>4. Owner' = Owner
  BY <1>2, <1>3 DEF Owner
<1>. QED
  BY <1>1, <1>4 DEF UsableTokens

\* What a step does to users when it is no registration and no bootstrap.
LEMMA UsersFrame ==
    ASSUME [Next]_vars, ~Bootstrap, \A r \in Reqs : ~RegisterCreate(r)
    PROVE  UNCHANGED users
BY DEF Next, Start, StartRegister, StartLogin, StartRefresh, StartLogout, Arrive, tables,
       Step, RegisterFind, LoginCount, LoginFind, LoginFail, LoginOK, Issue,
       RefreshFind, RefreshUser, RefreshRevoke, LogoutFind, LogoutRevoke, Crash, Tick, vars

\* Tokens used up and buyers gone, and nothing else.
LEMMA Waning ==
    ASSUME UNCHANGED <<users, lineage>>, Owner' = Owner,
           UsableTokens' \subseteq UsableTokens,
           \A p \in Tokens : Holders(p)' \subseteq Holders(p)
    PROVE  Promised!Wane
<1>1. Buying' = [t \in Tokens |-> Holders(t)']
  BY DEF Buying
<1>2. \A t \in Tokens : Holders(t)' \subseteq Reqs
  BY DEF Holders
<1>3. /\ Buying' \in [Tokens -> SUBSET Reqs]
      /\ \A t \in Tokens : Buying'[t] \subseteq Buying[t]
  BY <1>1, <1>2 DEF Buying
<1>. QED
  BY <1>3 DEF Promised!Wane

\* RefreshFind of a live token.
LEMMA ComeStep ==
    ASSUME TypeInv, NEW r \in Reqs, Finds(r)
    PROVE  tok[r] \in Tokens /\ Promised!Come(r, tok[r])
<1>. USE DEF TypeInv, TypeOK
<1>1. /\ pc[r] = "refresh.find" /\ pc' = [pc EXCEPT ![r] = "refresh.user"]
      /\ UNCHANGED <<tok, users, refreshTokens, lineage>>
  BY DEF Finds, RefreshFind, Goto, tables
<1>2. tok[r] \in Tokens /\ Usable(tok[r])
  BY DEF Finds, Live, FindByHash, Usable, Issued
<1>3. \A t \in Tokens : t # tok[r] => Holders(t)' = Holders(t)
  BY <1>1 DEF Holders
<1>4. Holders(tok[r])' = Holders(tok[r]) \cup {r}
  BY <1>1 DEF Holders
<1>5. Buying' = [t \in Tokens |-> Holders(t)']
  BY DEF Buying
<1>6. Buying' = [Buying EXCEPT ![tok[r]] = @ \cup {r}]
  BY <1>1, <1>2, <1>3, <1>4, <1>5 DEF Buying
<1>7. Owner' = Owner /\ UsableTokens' = UsableTokens
  BY <1>1 DEF Owner, UsableTokens, Usable, Issued
<1>. QED
  BY <1>1, <1>2, <1>6, <1>7 DEF Promised!Come, UsableTokens

\* A row inserted into refresh_tokens is a token given.
LEMMA GiveStep ==
    ASSUME TypeInv, NEW e \in Emails, NEW t \in UnusedTokens, CreateToken(t, e),
           UNCHANGED users
    PROVE  Promised!Give(t, e)
<1>. USE DEF TypeInv, TypeOK
<1>1. t \in Tokens /\ ~Issued(t)
  BY DEF UnusedTokens, Issued
<1>2. /\ Issued(t)'
      /\ refreshTokens'[t] = [user |-> e, revoked |-> FALSE, left |-> RefreshTTL]
      /\ \A s \in Tokens : s # t => refreshTokens'[s] = refreshTokens[s]
  <2>1. TablesTypeOK
    OBVIOUS
  <2>. QED
    BY <2>1, CreateKeeps
<1>3. \A s \in Tokens : s # t => /\ Issued(s)' <=> Issued(s)
                                 /\ Usable(s)' <=> Usable(s)
  BY <1>2 DEF Issued, Usable
<1>4. Usable(t)'
  BY <1>2, TimesAssumption DEF Usable
<1>5. Owner' = [Owner EXCEPT ![t] = e]
  <2>1. Owner' = [s \in Tokens |-> IF Issued(s)' THEN refreshTokens'[s].user ELSE NoRow]
    BY DEF Owner
  <2>2. \A s \in Tokens : Owner'[s] = [Owner EXCEPT ![t] = e][s]
    BY <1>1, <1>2, <1>3, <2>1 DEF Owner
  <2>. QED
    BY <2>1, <2>2 DEF Owner
<1>6. UsableTokens' = UsableTokens \cup {t}
  BY <1>1, <1>3, <1>4 DEF UsableTokens
<1>7. Owner[t] = NoRow
  BY <1>1 DEF Owner
<1>. QED
  BY <1>5, <1>6, <1>7 DEF Promised!Give

\* issueTokens, at the end of a login or of a refresh.
LEMMA IssueStep ==
    ASSUME AccountInv, LineageSound, NEW r \in Reqs, Issue(r)
    PROVE  \/ Promised!Wane
           \/ \E t \in Tokens, a \in Emails : Promised!Open(t, a)
           \/ \E t, new \in Tokens, b \in Reqs : Promised!Exchange(b, t, new)
<1>. USE DEF TypeInv, TypeOK
<1>0. TypeInv /\ UNCHANGED <<users, params>> /\ pc' = [pc EXCEPT ![r] = "idle"]
      /\ pc[r] = "issue" /\ acct[r] \in Emails /\ Covered(r)
  BY IssueEffect DEF Issue, AccountInv, AnswerSound, ClaimSound
<1>1. CASE UNCHANGED <<lineage, refreshTokens>>
  <2>1. \A p \in Tokens : Holders(p)' \subseteq Holders(p)
    BY <1>0 DEF Holders, params
  <2>2. Owner' = Owner /\ UsableTokens' = UsableTokens
    BY <1>1 DEF Owner, UsableTokens, Usable, Issued
  <2>. QED
    BY <1>0, <1>1, <2>1, <2>2, Waning
<1>2. ASSUME NEW t \in UnusedTokens, CreateToken(t, acct[r]),
             lineage' = [lineage EXCEPT ![t] = tok[r]]
      PROVE  \/ \E s \in Tokens, a \in Emails : Promised!Open(s, a)
             \/ \E s, new \in Tokens, b \in Reqs : Promised!Exchange(b, s, new)
  <2>1. Promised!Give(t, acct[r]) /\ t \in Tokens /\ ~Issued(t)
    BY <1>0, <1>2, GiveStep DEF UnusedTokens, Issued
  <2>2. Buying' = [s \in Tokens |-> Holders(s)']
    BY DEF Buying
  <2>3. \A p \in Tokens : /\ p # tok[r] => Holders(p)' = Holders(p)
                          /\ p = tok[r] => Holders(p)' = Holders(p) \ {r}
    BY <1>0 DEF Holders, params
  <2>4. CASE tok[r] \notin Tokens
    <3>1. Buying' = Buying
      BY <2>2, <2>3, <2>4 DEF Buying
    <3>2. lineage[t] = NoToken /\ tok[r] = NoToken
      BY <1>0, <2>1, <2>4 DEF LineageSound
    <3>3. UNCHANGED lineage
      BY <1>0, <1>2, <3>2
    <3>4. users[acct[r]] # NoRow
      BY <1>0 DEF Covered
    <3>. QED
      BY <1>0, <2>1, <3>1, <3>3, <3>4 DEF Promised!Open
  <2>5. CASE tok[r] \in Tokens
    <3>1. /\ Issued(tok[r]) /\ refreshTokens[tok[r]].revoked
          /\ acct[r] = refreshTokens[tok[r]].user
      BY <1>0, <2>5 DEF RequestsSound, RequestSound
    <3>2. acct[r] = Owner[tok[r]] /\ tok[r] \notin UsableTokens
      BY <2>5, <3>1 DEF Owner, UsableTokens, Usable
    <3>3. r \in Buying[tok[r]]
      BY <1>0, <2>5 DEF Buying, Holders
    <3>4. Buying' = [Buying EXCEPT ![tok[r]] = @ \ {r}]
      BY <2>2, <2>3, <2>5 DEF Buying
    <3>5. Promised!Exchange(r, tok[r], t)
      BY <1>2, <2>1, <3>2, <3>3, <3>4 DEF Promised!Exchange
    <3>. QED
      BY <2>1, <2>5, <3>5
  <2>. QED
    BY <2>4, <2>5
<1>3. \/ UNCHANGED <<lineage, refreshTokens>>
      \/ \E t \in UnusedTokens : /\ CreateToken(t, acct[r])
                                /\ lineage' = [lineage EXCEPT ![t] = tok[r]]
  BY <1>0, IssueEffect
<1>. QED
  BY <1>1, <1>2, <1>3

\* Statements of users alone leave the tokens and their buyers as they are.
LEMMA TokensFrame ==
    ASSUME UNCHANGED <<refreshTokens, lineage>>,
           \A p \in Tokens : Holders(p)' = Holders(p)
    PROVE  UNCHANGED <<Owner, UsableTokens, Buying, lineage>>
BY DEF Owner, UsableTokens, Usable, Issued, Buying

LEMMA RegisterStep ==
    ASSUME TypeInv, NEW r \in Reqs, RegisterCreate(r)
    PROVE  \/ Promised!Wane
           \/ \E a \in Emails : Promised!Join(a)
<1>. USE DEF TypeInv, TypeOK
<1>1. /\ acct[r] \in Emails /\ pw[r] \in Passwords
      /\ UNCHANGED <<refreshTokens, lineage, tok>>
      /\ pc[r] = "register.create" /\ pc' = [pc EXCEPT ![r] = "idle"]
  BY DEF RegisterCreate, RequestsSound, RequestSound, RegisterSteps, params,
         Answer, Fail, StatementFails, AckLost
<1>2. \A p \in Tokens : Holders(p)' = Holders(p)
  BY <1>1 DEF Holders
<1>3. CASE UNCHANGED users
  BY <1>1, <1>2, <1>3, TokensFrame, Waning
<1>4. CASE CreateUser(acct[r], pw[r], "viewer")
  <2>1. [pw |-> pw[r], role |-> "viewer"] \in UserRow
    BY <1>1 DEF UserRow, Roles
  <2>. QED
    BY <1>1, <1>2, <1>4, <2>1, TokensFrame DEF CreateUser, Promised!Join
<1>. QED
  BY <1>3, <1>4 DEF RegisterCreate

LEMMA BootstrapStep ==
    ASSUME TypeInv, Bootstrap
    PROVE  \E a \in Emails : Promised!Join(a) \/ Promised!Promote(a)
<1>1. PICK e \in Emails : BootstrapCreates(e) \/ BootstrapPromotes(e)
  BY DEF Bootstrap
<1>2. UNCHANGED <<refreshTokens, lineage, pc, tok>>
  BY <1>1 DEF BootstrapCreates, BootstrapPromotes, control, params
<1>3. \A p \in Tokens : Holders(p)' = Holders(p)
  BY <1>2 DEF Holders
<1>4. UNCHANGED <<Owner, UsableTokens, Buying, lineage>>
  BY <1>2, <1>3, TokensFrame
<1>5. [pw |-> AdminPassword, role |-> "admin"] \in UserRow
  BY AdminAssumption DEF UserRow, Roles
<1>6. CASE BootstrapCreates(e)
  BY <1>4, <1>5, <1>6 DEF BootstrapCreates, CreateUser, Promised!Join
<1>7. CASE BootstrapPromotes(e)
  BY <1>4, <1>7 DEF BootstrapPromotes, UpdateRole, Promised!Promote
<1>. QED
  BY <1>1, <1>6, <1>7

LEMMA SessionsStep ==
    ASSUME AccountInv, LineageSound, [Next]_vars
    PROVE  Promised!SessionsNext
<1>0. TypeInv
  BY DEF AccountInv
<1>1. CASE \E r \in Reqs : Issue(r)
  BY <1>1, IssueStep DEF Promised!SessionsNext
<1>2. CASE \E r \in Reqs : Finds(r)
  BY <1>0, <1>2, ComeStep DEF Promised!SessionsNext
<1>3. CASE \E r \in Reqs : RegisterCreate(r)
  BY <1>0, <1>3, RegisterStep DEF Promised!SessionsNext
<1>4. CASE Bootstrap
  BY <1>0, <1>4, BootstrapStep DEF Promised!SessionsNext
<1>5. CASE /\ ~Bootstrap
           /\ \A r \in Reqs : ~Issue(r) /\ ~Finds(r) /\ ~RegisterCreate(r)
  <2>1. UNCHANGED <<users, lineage>>
    BY <1>0, <1>5, UsersFrame, LineageFrame
  <2>2. Owner' = Owner /\ UsableTokens' \subseteq UsableTokens
    BY <1>0, <1>5, NoNewTokens
  <2>3. \A p \in Tokens : Holders(p)' \subseteq Holders(p)
    BY <1>0, <1>5, HoldersStep
  <2>. QED
    BY <2>1, <2>2, <2>3, Waning DEF Promised!SessionsNext
<1>. QED
  BY <1>1, <1>2, <1>3, <1>4, <1>5

LEMMA SessionsStart ==
    ASSUME Init
    PROVE  Promised!SessionsInit
<1>1. users \in [Emails -> UserRow \cup {NoRow}]
  BY InitialUsersAssumption DEF Init, TablesInit
<1>2. \A t \in Tokens : ~Issued(t) /\ Holders(t) = {}
  BY DEF Init, TablesInit, Issued, Holders
<1>3. /\ Owner = [t \in Tokens |-> NoRow]
      /\ UsableTokens = {}
      /\ Buying = [t \in Tokens |-> {}]
  BY <1>2 DEF Owner, UsableTokens, Usable, Buying
<1>. QED
  BY <1>1, <1>3 DEF Init, Promised!SessionsInit

\* The service keeps what it promises of sessions, for any number of requests,
\* pods and faults: the check-then-act of Refresh, lost acknowledgements and
\* crashes included, every step is one of Sessions.
THEOREM ServiceKeepsSessions == Spec => ImplementsSessions
<1>1. AccountInv /\ RotationInv /\ [Next]_vars => [Promised!SessionsNext]_(Promised!sessions)
  BY SessionsStep DEF RotationInv
<1>. QED
  BY <1>1, SessionsStart, AccountInvariant, RotationInvariant, PTL
  DEF Spec, ImplementsSessions, Promised!SessionsSpec
=============================================================================
