-------------------------- MODULE AuthServiceProofs --------------------------
(***************************************************************************)
(* Proofs, for every value of the constants, of the safety properties of    *)
(* AuthProperties.                                                          *)
(***************************************************************************)
EXTENDS AuthProperties, FiniteSetTheorems, TLAPS

-----------------------------------------------------------------------------
(* The tables keep their types under every statement. *)

\* A user row inserted by Register or by the bootstrap is a user row.
LEMMA CreateUserType ==
    ASSUME TablesTypeOK, NEW e \in Emails, NEW p \in Passwords, NEW ro \in Roles,
           CreateUser(e, p, ro)
    PROVE  users' \in [Emails -> UserRow \cup {NoRow}]
BY DEF TablesTypeOK, CreateUser, UserRow

\* UPDATE users SET role keeps the rest of the row.
LEMMA UpdateRoleType ==
    ASSUME TablesTypeOK, NEW e \in Emails, NEW ro \in Roles,
           users[e] # NoRow, UpdateRole(e, ro)
    PROVE  users' \in [Emails -> UserRow \cup {NoRow}]
<1>1. users[e] \in UserRow
  BY DEF TablesTypeOK
<1>2. [users[e] EXCEPT !.role = ro] \in UserRow
  BY <1>1 DEF UserRow
<1>. QED
  BY <1>2 DEF TablesTypeOK, UpdateRole

\* INSERT INTO refresh_tokens.
LEMMA CreateTokenType ==
    ASSUME TablesTypeOK, NEW t \in Tokens, NEW e \in Emails, CreateToken(t, e)
    PROVE  refreshTokens' \in [Tokens -> TokenRow \cup {NoRow}]
BY TimesAssumption DEF TablesTypeOK, CreateToken, TokenRow

\* UPDATE refresh_tokens SET revoked_at.
LEMMA RevokeType ==
    ASSUME TablesTypeOK, NEW t \in Tokens, refreshTokens[t] # NoRow, Revoke(t)
    PROVE  refreshTokens' \in [Tokens -> TokenRow \cup {NoRow}]
<1>1. refreshTokens[t] \in TokenRow
  BY DEF TablesTypeOK
<1>2. [refreshTokens[t] EXCEPT !.revoked = TRUE] \in TokenRow
  BY <1>1 DEF TokenRow
<1>. QED
  BY <1>2 DEF TablesTypeOK, Revoke

\* INSERT INTO login_attempts.
LEMMA CreateAttemptType ==
    ASSUME TablesTypeOK, NEW i \in Attempts, NEW e \in Emails, NEW ok \in BOOLEAN,
           CreateAttempt(i, e, ok)
    PROVE  loginAttempts' \in [Attempts -> AttemptRow \cup {NoRow}]
BY TimesAssumption DEF TablesTypeOK, CreateAttempt, AttemptRow

\* What the passing of time does to a row of refresh_tokens.
LEMMA TokenRowAges ==
    ASSUME TablesTypeOK, RowsAge, NEW t \in Tokens
    PROVE  /\ refreshTokens[t] = NoRow <=> refreshTokens'[t] = NoRow
           /\ refreshTokens[t] # NoRow =>
                /\ refreshTokens'[t] \in TokenRow
                /\ refreshTokens'[t].user = refreshTokens[t].user
                /\ refreshTokens'[t].revoked = refreshTokens[t].revoked
                /\ refreshTokens'[t].left <= refreshTokens[t].left
<1>1. CASE refreshTokens[t] = NoRow
  BY <1>1 DEF RowsAge
<1>2. CASE refreshTokens[t] # NoRow
  <2>1. refreshTokens[t] \in TokenRow
    BY <1>2 DEF TablesTypeOK
  <2>2. CASE refreshTokens[t].left = -1
    BY <1>2, <2>1, <2>2 DEF RowsAge, TokenRow
  <2>3. CASE refreshTokens[t].left # -1
    <3>1. refreshTokens'[t] = [refreshTokens[t] EXCEPT !.left = @ - 1]
      BY <1>2, <2>3 DEF RowsAge
    <3>2. refreshTokens[t].left - 1 \in -1 .. RefreshTTL
      BY <2>1, <2>3, TimesAssumption DEF TokenRow
    <3>3. refreshTokens'[t] \in TokenRow
      BY <2>1, <3>1, <3>2 DEF TokenRow
    <3>. QED
      BY <1>2, <2>1, <3>1, <3>2, <3>3, NoRowAssumption, TimesAssumption DEF TokenRow
  <2>. QED
    BY <2>2, <2>3
<1>. QED
  BY <1>1, <1>2

\* What it does to a row of login_attempts.
LEMMA AttemptRowAges ==
    ASSUME TablesTypeOK, RowsAge, NEW i \in Attempts
    PROVE  /\ loginAttempts[i] = NoRow <=> loginAttempts'[i] = NoRow
           /\ loginAttempts[i] # NoRow =>
                /\ loginAttempts'[i] \in AttemptRow
                /\ loginAttempts'[i].email = loginAttempts[i].email
                /\ loginAttempts'[i].successful = loginAttempts[i].successful
                /\ loginAttempts'[i].age >= loginAttempts[i].age
<1>1. CASE loginAttempts[i] = NoRow
  BY <1>1 DEF RowsAge
<1>2. CASE loginAttempts[i] # NoRow
  <2>1. loginAttempts[i] \in AttemptRow
    BY <1>2 DEF TablesTypeOK
  <2>2. CASE loginAttempts[i].age > Window
    BY <1>2, <2>1, <2>2, TimesAssumption DEF RowsAge, AttemptRow
  <2>3. CASE ~(loginAttempts[i].age > Window)
    <3>1. loginAttempts'[i] = [loginAttempts[i] EXCEPT !.age = @ + 1]
      BY <1>2, <2>3 DEF RowsAge
    <3>2. loginAttempts[i].age + 1 \in 0 .. Window + 1
      BY <2>1, <2>3, TimesAssumption DEF AttemptRow
    <3>3. loginAttempts'[i] \in AttemptRow
      BY <2>1, <3>1, <3>2 DEF AttemptRow
    <3>. QED
      BY <1>2, <2>1, <3>1, <3>2, <3>3, NoRowAssumption, TimesAssumption DEF AttemptRow
  <2>. QED
    BY <2>2, <2>3
<1>. QED
  BY <1>1, <1>2

LEMMA RowsAgeType ==
    ASSUME TablesTypeOK, RowsAge
    PROVE  /\ refreshTokens' \in [Tokens -> TokenRow \cup {NoRow}]
           /\ loginAttempts' \in [Attempts -> AttemptRow \cup {NoRow}]
<1>1. \A t \in Tokens : refreshTokens'[t] \in TokenRow \cup {NoRow}
  BY TokenRowAges
<1>2. \A i \in Attempts : loginAttempts'[i] \in AttemptRow \cup {NoRow}
  BY AttemptRowAges
<1>3. refreshTokens' = [t \in Tokens |-> refreshTokens'[t]]
      /\ loginAttempts' = [i \in Attempts |-> loginAttempts'[i]]
  BY DEF RowsAge
<1>. QED
  BY <1>1, <1>2, <1>3

-----------------------------------------------------------------------------
(* Type correctness.  The types of the tables rest on what each request has *)
(* established before it writes: RequestsSound.                             *)

TypeInv == TypeOK /\ RequestsSound

\* Rows of refresh_tokens stay, keep their user, and stay revoked and expired.
RowsKept ==
    \A t \in Tokens : Issued(t) =>
        /\ Issued(t)'
        /\ refreshTokens'[t].user = refreshTokens[t].user
        /\ refreshTokens[t].revoked => refreshTokens'[t].revoked
        /\ refreshTokens[t].left < 0 => refreshTokens'[t].left < 0

LEMMA RevokeKeeps ==
    ASSUME TablesTypeOK, NEW t \in Tokens, Issued(t), Revoke(t)
    PROVE  RowsKept /\ refreshTokens'[t].revoked
<1>1. refreshTokens[t] \in TokenRow
  BY DEF TablesTypeOK, Issued
<1>2. refreshTokens'[t] \in TokenRow
  BY <1>1 DEF TokenRow, TablesTypeOK, Revoke
<1>3. /\ refreshTokens'[t].revoked
      /\ refreshTokens'[t].user = refreshTokens[t].user
      /\ refreshTokens'[t].left = refreshTokens[t].left
  BY <1>1 DEF TablesTypeOK, Revoke, TokenRow
<1>4. \A s \in Tokens : s # t => refreshTokens'[s] = refreshTokens[s]
  BY DEF TablesTypeOK, Revoke
<1>. QED
  BY <1>2, <1>3, <1>4, NoRowAssumption DEF RowsKept, Issued

LEMMA CreateKeeps ==
    ASSUME TablesTypeOK, NEW t \in UnusedTokens, NEW e \in Emails, CreateToken(t, e)
    PROVE  /\ RowsKept
           /\ Issued(t)'
           /\ refreshTokens'[t] = [user |-> e, revoked |-> FALSE, left |-> RefreshTTL]
           /\ \A s \in Tokens : s # t => refreshTokens'[s] = refreshTokens[s]
<1>1. t \in Tokens /\ ~Issued(t)
  BY DEF UnusedTokens, Issued
<1>2. refreshTokens'[t] = [user |-> e, revoked |-> FALSE, left |-> RefreshTTL]
  BY <1>1 DEF TablesTypeOK, CreateToken
<1>3. refreshTokens'[t] \in TokenRow
  BY <1>2, TimesAssumption DEF TokenRow
<1>4. \A s \in Tokens : s # t => refreshTokens'[s] = refreshTokens[s]
  BY <1>1 DEF TablesTypeOK, CreateToken
<1>. QED
  BY <1>1, <1>2, <1>3, <1>4, NoRowAssumption DEF RowsKept, Issued

\* Every statement leaves tables of the right types, and no token row is lost.
LEMMA TablesStep ==
    ASSUME TypeInv, [Next]_vars
    PROVE  TablesTypeOK' /\ RowsKept
<1>. USE DEF TypeInv, TypeOK
<1>1. CASE UNCHANGED tables
  BY <1>1 DEF tables, TablesTypeOK, RowsKept, Issued
<1>2. ASSUME NEW r \in Reqs, RegisterCreate(r)
      PROVE  TablesTypeOK' /\ RowsKept
  <2>1. acct[r] \in Emails /\ pw[r] \in Passwords
    BY <1>2 DEF RegisterCreate, RequestsSound, RequestSound, RegisterSteps
  <2>2. users' \in [Emails -> UserRow \cup {NoRow}]
    BY <1>2, <2>1, CreateUserType DEF RegisterCreate, Roles, TablesTypeOK
  <2>. QED
    BY <1>2, <2>2 DEF RegisterCreate, TablesTypeOK, RowsKept, Issued
<1>3. ASSUME NEW r \in Reqs, LoginFail(r) \/ LoginOK(r)
      PROVE  TablesTypeOK' /\ RowsKept
  <2>1. acct[r] \in Emails
    BY <1>3 DEF LoginFail, LoginOK, RequestsSound, RequestSound, LoginSteps
  <2>2. loginAttempts' \in [Attempts -> AttemptRow \cup {NoRow}]
    BY <1>3, <2>1, CreateAttemptType
    DEF LoginFail, LoginOK, RecordAttempt, UnusedAttempts, TablesTypeOK
  <2>. QED
    BY <1>3, <2>2 DEF LoginFail, LoginOK, TablesTypeOK, RowsKept, Issued
<1>4. ASSUME NEW r \in Reqs, Issue(r)
      PROVE  TablesTypeOK' /\ RowsKept
  <2>1. acct[r] \in Emails
    BY <1>4 DEF Issue, RequestsSound, RequestSound
  <2>2. /\ refreshTokens' \in [Tokens -> TokenRow \cup {NoRow}]
        /\ RowsKept
    <3>1. ASSUME NEW t \in UnusedTokens, CreateToken(t, acct[r])
          PROVE  /\ refreshTokens' \in [Tokens -> TokenRow \cup {NoRow}]
                 /\ RowsKept
      BY <2>1, <3>1, CreateTokenType, CreateKeeps DEF UnusedTokens
    <3>. QED
      BY <1>4, <3>1 DEF Issue, TablesTypeOK, RowsKept, Issued
  <2>. QED
    BY <1>4, <2>2 DEF Issue, TablesTypeOK
<1>5. ASSUME NEW r \in Reqs, RefreshRevoke(r) \/ LogoutRevoke(r)
      PROVE  TablesTypeOK' /\ RowsKept
  <2>1. tok[r] \in Tokens /\ Issued(tok[r])
    BY <1>5 DEF RefreshRevoke, LogoutRevoke, RequestsSound, RequestSound
  <2>2. CASE Revoke(tok[r])
    BY <1>5, <2>1, <2>2, RevokeType, RevokeKeeps
    DEF RefreshRevoke, LogoutRevoke, TablesTypeOK, Issued
  <2>3. CASE UNCHANGED refreshTokens
    BY <1>5, <2>3 DEF RefreshRevoke, LogoutRevoke, TablesTypeOK, RowsKept, Issued
  <2>. QED
    BY <1>5, <2>2, <2>3 DEF RefreshRevoke, LogoutRevoke
<1>6. CASE Bootstrap
  <2>1. PICK e \in Emails : BootstrapCreates(e) \/ BootstrapPromotes(e)
    BY <1>6 DEF Bootstrap
  <2>2. users' \in [Emails -> UserRow \cup {NoRow}]
    BY <2>1, CreateUserType, UpdateRoleType, AdminAssumption
    DEF BootstrapCreates, BootstrapPromotes, Roles
  <2>. QED
    BY <2>1, <2>2 DEF BootstrapCreates, BootstrapPromotes, TablesTypeOK, RowsKept, Issued
<1>7. CASE Tick
  <2>1. RowsKept
    <3>1. ASSUME NEW t \in Tokens, Issued(t)
          PROVE  /\ refreshTokens[t] \in TokenRow
                 /\ refreshTokens'[t] \in TokenRow
                 /\ refreshTokens'[t].user = refreshTokens[t].user
                 /\ refreshTokens'[t].revoked = refreshTokens[t].revoked
                 /\ refreshTokens'[t].left <= refreshTokens[t].left
      BY <1>7, <3>1, TokenRowAges DEF Tick, TablesTypeOK, Issued
    <3>. QED
      BY <3>1, TimesAssumption, NoRowAssumption DEF RowsKept, Issued, TokenRow
  <2>. QED
    BY <1>7, <2>1, RowsAgeType DEF Tick, TablesTypeOK
<1>8. CASE UNCHANGED vars
  BY <1>1, <1>8 DEF vars
<1>9. ASSUME NEW r \in Reqs, Start(r)
      PROVE  UNCHANGED tables
  BY <1>9 DEF Start, StartRegister, StartLogin, StartRefresh, StartLogout, Arrive
<1>10. ASSUME NEW r \in Reqs,
              \/ RegisterFind(r) \/ LoginCount(r) \/ LoginFind(r)
              \/ RefreshFind(r) \/ RefreshUser(r) \/ LogoutFind(r)
       PROVE  UNCHANGED tables
  BY <1>10 DEF RegisterFind, LoginCount, LoginFind, RefreshFind, RefreshUser, LogoutFind
<1>11. ASSUME NEW S \in SUBSET Reqs, Crash(S)
       PROVE  UNCHANGED tables
  BY <1>11 DEF Crash
<1>. QED
  BY <1>1, <1>2, <1>3, <1>4, <1>5, <1>6, <1>7, <1>8, <1>9, <1>10, <1>11 DEF Next, Step

\* The control state keeps its types.
LEMMA ControlStep ==
    ASSUME TypeInv, [Next]_vars
    PROVE  /\ pc' \in [Reqs -> Steps]
           /\ resp' \in [Reqs -> Codes]
           /\ held' \in [Tokens -> Emails \cup {NoRow}]
           /\ lineage' \in [Tokens -> Tokens \cup {NoToken}]
<1>. USE DEF TypeInv, TypeOK
<1>1. ASSUME NEW r \in Reqs, NEW step \in Steps, Goto(r, step)
      PROVE  pc' \in [Reqs -> Steps] /\ resp' \in [Reqs -> Codes]
  BY <1>1 DEF Goto
<1>2. ASSUME NEW r \in Reqs, NEW code \in Codes, Answer(r, code)
      PROVE  pc' \in [Reqs -> Steps] /\ resp' \in [Reqs -> Codes]
  BY <1>2 DEF Answer, Steps
<1>3. ASSUME NEW r \in Reqs, NEW err, Fail(r, err)
      PROVE  pc' \in [Reqs -> Steps] /\ resp' \in [Reqs -> Codes]
  <2>1. RespondError(err) \in Codes
    BY DEF RespondError, Codes
  <2>. QED
    BY <1>2, <1>3, <2>1 DEF Fail
<1>4. ASSUME NEW r \in Reqs, StatementFails(r) \/ AckLost(r)
      PROVE  pc' \in [Reqs -> Steps] /\ resp' \in [Reqs -> Codes]
  BY <1>3, <1>4 DEF StatementFails, AckLost
<1>. DEFINE Typed == /\ pc' \in [Reqs -> Steps]
                     /\ resp' \in [Reqs -> Codes]
                     /\ held' \in [Tokens -> Emails \cup {NoRow}]
                     /\ lineage' \in [Tokens -> Tokens \cup {NoToken}]
<1>. HIDE DEF Typed
<1>5. ASSUME NEW r \in Reqs, Start(r)  PROVE Typed
  BY <1>5 DEF Typed, Start, StartRegister, StartLogin, StartRefresh, StartLogout,
              Arrive, Steps, RegisterSteps, LoginSteps, RefreshSteps, LogoutSteps, Codes
<1>6. ASSUME NEW r \in Reqs, RegisterFind(r) \/ RegisterCreate(r)  PROVE Typed
  BY <1>1, <1>2, <1>3, <1>4, <1>6
  DEF Typed, RegisterFind, RegisterCreate, Steps, RegisterSteps, Codes
<1>7. ASSUME NEW r \in Reqs, LoginCount(r) \/ LoginFind(r) \/ LoginFail(r) \/ LoginOK(r)
      PROVE Typed
  BY <1>1, <1>3, <1>4, <1>7
  DEF Typed, LoginCount, LoginFind, LoginFail, LoginOK, Steps, LoginSteps
<1>8. ASSUME NEW r \in Reqs, Issue(r)  PROVE Typed
  <2>1. Holder(r) \in Emails \cup {NoRow}
    BY DEF Holder
  <2>. QED
    BY <1>2, <1>4, <1>8, <2>1 DEF Typed, Issue, UnusedTokens, Codes
<1>9. ASSUME NEW r \in Reqs, RefreshFind(r) \/ RefreshUser(r) \/ RefreshRevoke(r)
      PROVE Typed
  BY <1>1, <1>3, <1>4, <1>9
  DEF Typed, RefreshFind, RefreshUser, RefreshRevoke, Steps, RefreshSteps
<1>10. ASSUME NEW r \in Reqs, LogoutFind(r) \/ LogoutRevoke(r)  PROVE Typed
  BY <1>1, <1>2, <1>4, <1>10
  DEF Typed, LogoutFind, LogoutRevoke, Steps, LogoutSteps, Codes
<1>11. ASSUME NEW S \in SUBSET Reqs, Crash(S)  PROVE Typed
  BY <1>11 DEF Typed, Crash, Steps, Codes
<1>12. CASE Bootstrap
  BY <1>12 DEF Typed, Bootstrap, BootstrapCreates, BootstrapPromotes, control
<1>13. CASE Tick
  BY <1>13 DEF Typed, Tick, control
<1>14. CASE UNCHANGED vars
  BY <1>14 DEF Typed, vars, control
<1>. QED
  BY <1>5, <1>6, <1>7, <1>8, <1>9, <1>10, <1>11, <1>12, <1>13, <1>14
  DEF Next, Step, Typed

\* The parameters of the requests keep their types.
LEMMA ParamsStep ==
    ASSUME TypeInv, [Next]_vars
    PROVE  /\ acct' \in [Reqs -> Emails \cup {NoRow}]
           /\ pw' \in [Reqs -> Passwords \cup {NoRow}]
           /\ tok' \in [Reqs -> Tokens \cup {NoToken}]
           /\ role' \in [Reqs -> Roles]
<1>. USE DEF TypeInv, TypeOK
<1>1. CASE UNCHANGED params
  BY <1>1 DEF params
<1>2. ASSUME NEW r \in Reqs, Start(r)
      PROVE  /\ acct' \in [Reqs -> Emails \cup {NoRow}]
             /\ pw' \in [Reqs -> Passwords \cup {NoRow}]
             /\ tok' \in [Reqs -> Tokens \cup {NoToken}]
             /\ role' \in [Reqs -> Roles]
  <2>1. role' \in [Reqs -> Roles]
    BY <1>2 DEF Start, StartRegister, StartLogin, StartRefresh, StartLogout, Arrive, Roles
  <2>2. WithCredentials(r) \/ WithToken(r)
    BY <1>2 DEF Start, StartRegister, StartLogin, StartRefresh, StartLogout
  <2>. QED
    BY <2>1, <2>2 DEF WithCredentials, WithToken
<1>3. ASSUME NEW r \in Reqs, LoginFind(r) \/ RefreshUser(r)
      PROVE  role' \in [Reqs -> Roles] /\ UNCHANGED <<acct, pw, tok>>
  <2>1. acct[r] \in Emails
    BY <1>3 DEF LoginFind, RefreshUser, RequestsSound, RequestSound, LoginSteps, TablesTypeOK, Issued,
                TokenRow
  <2>2. FindUser(acct[r]) # NoRow => FindUser(acct[r]).role \in Roles
    BY <2>1 DEF TablesTypeOK, FindUser, UserRow
  <2>. QED
    BY <1>3, <2>2 DEF LoginFind, RefreshUser, CredentialsMatch
<1>4. ASSUME NEW r \in Reqs, RefreshFind(r)
      PROVE  /\ acct' \in [Reqs -> Emails \cup {NoRow}]
             /\ UNCHANGED <<pw, tok, role>>
  BY <1>4, NoTokenAssumption
  DEF RefreshFind, Live, FindByHash, TablesTypeOK, TokenRow
<1>5. ASSUME NEW r \in Reqs,
             \/ RegisterFind(r) \/ RegisterCreate(r)
             \/ LoginCount(r) \/ LoginFail(r) \/ LoginOK(r) \/ Issue(r)
             \/ RefreshRevoke(r) \/ LogoutFind(r) \/ LogoutRevoke(r)
      PROVE  UNCHANGED params
  BY <1>5 DEF RegisterFind, RegisterCreate, LoginCount, LoginFail, LoginOK, Issue,
              RefreshRevoke, LogoutFind, LogoutRevoke
<1>6. ASSUME NEW S \in SUBSET Reqs, Crash(S)
      PROVE  UNCHANGED params
  BY <1>6 DEF Crash
<1>7. CASE Bootstrap \/ Tick \/ UNCHANGED vars
  BY <1>1, <1>7 DEF Bootstrap, BootstrapCreates, BootstrapPromotes, Tick, vars
<1>. QED
  BY <1>1, <1>2, <1>3, <1>4, <1>5, <1>6, <1>7 DEF Next, Step

\* A request that no step touches stays sound, whatever rows are added.
LEMMA SoundFrame ==
    ASSUME TypeInv, RowsKept, NEW q \in Reqs,
           pc'[q] = pc[q], acct'[q] = acct[q], pw'[q] = pw[q], tok'[q] = tok[q]
    PROVE  RequestSound(q)'
BY DEF TypeInv, RequestsSound, RequestSound, RowsKept

\* So does one that has ended.
LEMMA SoundIdle ==
    ASSUME NEW q \in Reqs, pc'[q] = "idle"
    PROVE  RequestSound(q)'
BY DEF RequestSound, RegisterSteps, LoginSteps

\* A step of r leaves the other requests alone.
LEMMA OthersUntouched ==
    ASSUME TypeInv, NEW r \in Reqs, Start(r) \/ Step(r),
           NEW q \in Reqs, q # r
    PROVE  pc'[q] = pc[q] /\ acct'[q] = acct[q] /\ pw'[q] = pw[q] /\ tok'[q] = tok[q]
<1>. USE DEF TypeInv, TypeOK
<1>1. CASE Start(r)
  BY <1>1 DEF Start, StartRegister, StartLogin, StartRefresh, StartLogout, Arrive,
              WithCredentials, WithToken
<1>2. CASE RegisterFind(r) \/ RegisterCreate(r) \/ LoginCount(r) \/ LoginFind(r)
           \/ LoginFail(r) \/ LoginOK(r)
  BY <1>2 DEF RegisterFind, RegisterCreate, LoginCount, LoginFind, LoginFail, LoginOK,
              params, Goto, Answer, Fail, StatementFails, AckLost
<1>3. CASE Issue(r) \/ RefreshFind(r) \/ RefreshUser(r) \/ RefreshRevoke(r)
           \/ LogoutFind(r) \/ LogoutRevoke(r)
  BY <1>3 DEF Issue, RefreshFind, RefreshUser, RefreshRevoke, LogoutFind, LogoutRevoke,
              params, Goto, Answer, Fail, StatementFails, AckLost
<1>. QED
  BY <1>1, <1>2, <1>3 DEF Step

\* What a request finds out on its way is still true at its next statement.
LEMMA RequestsStep ==
    ASSUME TypeInv, [Next]_vars
    PROVE  RequestsSound'
<1>. USE DEF TypeInv, TypeOK
<1>0. RowsKept /\ TablesTypeOK'
  BY TablesStep
<1>1. ASSUME NEW r \in Reqs, Start(r) \/ Step(r), RequestSound(r)'
      PROVE  RequestsSound'
  BY <1>0, <1>1, OthersUntouched, SoundFrame DEF RequestsSound
<1>2. ASSUME NEW r \in Reqs, Start(r)  PROVE RequestSound(r)'
  BY <1>2 DEF Start, StartRegister, StartLogin, StartRefresh, StartLogout, Arrive,
              WithCredentials, WithToken, RequestSound, RegisterSteps, LoginSteps
<1>3. ASSUME NEW r \in Reqs,
             \/ RegisterFind(r) \/ RegisterCreate(r)
             \/ LoginCount(r) \/ LoginFind(r) \/ LoginFail(r) \/ LoginOK(r)
      PROVE  RequestSound(r)'
  <2>1. /\ acct'[r] = acct[r] /\ pw'[r] = pw[r] /\ tok'[r] = tok[r]
        /\ acct[r] \in Emails /\ pw[r] \in Passwords /\ tok[r] = NoToken
    BY <1>3 DEF RegisterFind, RegisterCreate, LoginCount, LoginFind, LoginFail, LoginOK,
                params, RequestsSound, RequestSound, RegisterSteps, LoginSteps
  <2>2. pc'[r] \in {"idle", "issue"} \cup RegisterSteps \cup LoginSteps
    BY <1>3 DEF RegisterFind, RegisterCreate, LoginCount, LoginFind, LoginFail, LoginOK,
                Goto, Answer, Fail, StatementFails, AckLost, RegisterSteps, LoginSteps
  <2>. QED
    BY <2>1, <2>2, NoTokenAssumption DEF RequestSound, RegisterSteps, LoginSteps
<1>4. ASSUME NEW r \in Reqs, Issue(r)  PROVE RequestSound(r)'
  BY <1>4, SoundIdle DEF Issue, Answer, Fail, StatementFails, AckLost
<1>5. ASSUME NEW r \in Reqs, RefreshFind(r)  PROVE RequestSound(r)'
  <2>1. CASE Live(tok[r]) /\ Goto(r, "refresh.user")
             /\ acct' = [acct EXCEPT ![r] = FindByHash(tok[r]).user]
    BY <1>5, <2>1 DEF RefreshFind, Live, FindByHash, Goto, RequestSound, Issued, tables,
                      RegisterSteps, LoginSteps
  <2>2. CASE pc'[r] = "idle"
    BY <2>2, SoundIdle
  <2>. QED
    BY <1>5, <2>1, <2>2 DEF RefreshFind, Fail, Answer, StatementFails
<1>6. ASSUME NEW r \in Reqs, RefreshUser(r)  PROVE RequestSound(r)'
  <2>1. CASE Goto(r, "refresh.revoke")
    BY <1>6, <2>1 DEF RefreshUser, Goto, RequestsSound, RequestSound, Issued, tables,
                      RegisterSteps, LoginSteps
  <2>2. CASE pc'[r] = "idle"
    BY <2>2, SoundIdle
  <2>. QED
    BY <1>6, <2>1, <2>2 DEF RefreshUser, Fail, Answer, StatementFails
<1>7. ASSUME NEW r \in Reqs, RefreshRevoke(r)  PROVE RequestSound(r)'
  <2>1. CASE Revoke(tok[r]) /\ Goto(r, "issue")
    <3>1. tok[r] \in Tokens /\ Issued(tok[r]) /\ acct[r] = refreshTokens[tok[r]].user
      BY <1>7 DEF RefreshRevoke, RequestsSound, RequestSound
    <3>2. refreshTokens[tok[r]] \in TokenRow
      BY <3>1 DEF TablesTypeOK, Issued
    <3>3. RowsKept /\ refreshTokens'[tok[r]].revoked
      BY <2>1, <3>1, RevokeKeeps
    <3>. QED
      BY <1>7, <2>1, <3>1, <3>2, <3>3
      DEF RefreshRevoke, params, Goto, RequestSound, RowsKept, RegisterSteps, LoginSteps,
          TokenRow
  <2>2. CASE pc'[r] = "idle"
    BY <2>2, SoundIdle
  <2>. QED
    BY <1>7, <2>1, <2>2 DEF RefreshRevoke, Fail, Answer, StatementFails, AckLost
<1>8. ASSUME NEW r \in Reqs, LogoutFind(r) \/ LogoutRevoke(r)  PROVE RequestSound(r)'
  <2>1. CASE FindByHash(tok[r]) # NoRow /\ Goto(r, "logout.revoke")
    BY <1>8, <2>1, <1>0
    DEF LogoutFind, LogoutRevoke, params, FindByHash, Goto, RequestSound, Issued, RowsKept,
        RegisterSteps, LoginSteps
  <2>2. CASE pc'[r] = "idle"
    BY <2>2, SoundIdle
  <2>. QED
    BY <1>8, <2>1, <2>2 DEF LogoutFind, LogoutRevoke, Fail, Answer, StatementFails, AckLost
<1>9. ASSUME NEW S \in SUBSET Reqs, Crash(S)  PROVE RequestsSound'
  <2>1. ASSUME NEW q \in Reqs  PROVE RequestSound(q)'
    <3>1. CASE q \in S
      BY <1>9, <3>1, SoundIdle DEF Crash
    <3>2. CASE q \notin S
      BY <1>0, <1>9, <3>2, SoundFrame DEF Crash, params
    <3>. QED
      BY <3>1, <3>2
  <2>. QED
    BY <2>1 DEF RequestsSound
<1>10. CASE Bootstrap \/ Tick \/ UNCHANGED vars
  <2>1. UNCHANGED <<pc, params>>
    BY <1>10 DEF Bootstrap, BootstrapCreates, BootstrapPromotes, Tick, vars, control
  <2>. QED
    BY <1>0, <2>1, SoundFrame DEF RequestsSound, params
<1>. QED
  BY <1>1, <1>2, <1>3, <1>4, <1>5, <1>6, <1>7, <1>8, <1>9, <1>10 DEF Next, Step

LEMMA TypeInvInit == Init => TypeInv
<1>. SUFFICES ASSUME Init PROVE TypeInv
  OBVIOUS
<1>1. TypeOK
  BY InitialUsersAssumption
  DEF Init, TablesInit, TypeOK, TablesTypeOK, Steps, Roles, Codes
<1>2. RequestsSound
  BY DEF Init, RequestsSound, RequestSound, RegisterSteps, LoginSteps
<1>. QED
  BY <1>1, <1>2 DEF TypeInv

LEMMA TypeInvStep == TypeInv /\ [Next]_vars => TypeInv'
BY TablesStep, ControlStep, ParamsStep, RequestsStep DEF TypeInv, TypeOK

\* The state of the service keeps its types under every interleaving of
\* requests, faults, bootstraps and the passing of time, for any number of
\* users, tokens and concurrent requests.
THEOREM TypeCorrect == Spec => []TypeOK
<1>1. TypeInv => TypeOK
  BY DEF TypeInv
<1>. QED
  BY TypeInvInit, TypeInvStep, <1>1, PTL DEF Spec

\* What a request has found out holds until it uses it.
THEOREM RequestsStaySound == Spec => []RequestsSound
<1>1. TypeInv => RequestsSound
  BY DEF TypeInv
<1>. QED
  BY TypeInvInit, TypeInvStep, <1>1, PTL DEF Spec
-----------------------------------------------------------------------------
(* Rotation *)

\* lineage changes only when a token is bought, with its row.
LEMMA LineageFrame ==
    ASSUME TypeInv, [Next]_vars, \A r \in Reqs : ~Issue(r)
    PROVE  UNCHANGED lineage
BY DEF Next, Start, StartRegister, StartLogin, StartRefresh, StartLogout, Arrive, Step,
       RegisterFind, RegisterCreate, LoginCount, LoginFind, LoginFail, LoginOK,
       RefreshFind, RefreshUser, RefreshRevoke, LogoutFind, LogoutRevoke,
       Crash, Bootstrap, BootstrapCreates, BootstrapPromotes, Tick, vars

\* What a successful or a failed purchase does.
LEMMA IssueEffect ==
    ASSUME TypeInv, NEW r \in Reqs, Issue(r)
    PROVE  /\ pc[r] = "issue" /\ acct[r] \in Emails
           /\ pc' = [pc EXCEPT ![r] = "idle"] /\ UNCHANGED params
           /\ \/ UNCHANGED <<lineage, refreshTokens>>
              \/ \E t \in UnusedTokens : /\ CreateToken(t, acct[r])
                                        /\ lineage' = [lineage EXCEPT ![t] = tok[r]]
BY DEF TypeInv, RequestsSound, RequestSound, Issue, Answer, Fail, StatementFails, AckLost

LEMMA LineageStep ==
    ASSUME TypeInv, LineageSound, [Next]_vars
    PROVE  LineageSound'
<1>. USE DEF TypeInv, TypeOK
<1>0. RowsKept
  BY TablesStep
<1>1. CASE UNCHANGED lineage
  BY <1>0, <1>1 DEF LineageSound, RowsKept
<1>2. ASSUME NEW r \in Reqs, NEW t \in UnusedTokens, Issue(r),
             CreateToken(t, acct[r]), lineage' = [lineage EXCEPT ![t] = tok[r]]
      PROVE  LineageSound'
  <2>1. pc[r] = "issue" /\ acct[r] \in Emails
    BY <1>2, IssueEffect
  <2>2. /\ Issued(t)'
        /\ refreshTokens'[t] = [user |-> acct[r], revoked |-> FALSE, left |-> RefreshTTL]
        /\ \A s \in Tokens : s # t => refreshTokens'[s] = refreshTokens[s]
    BY <1>2, <2>1, CreateKeeps
  <2>3. t \in Tokens /\ ~Issued(t)
    BY DEF UnusedTokens, Issued
  <2>4. ASSUME NEW s \in Tokens, lineage'[s] \in Tokens
        PROVE  /\ refreshTokens'[s] # NoRow /\ refreshTokens'[lineage'[s]] # NoRow
               /\ refreshTokens'[lineage'[s]].revoked
               /\ refreshTokens'[s].user = refreshTokens'[lineage'[s]].user
    <3>1. CASE s = t
      <4>1. lineage'[s] = tok[r] /\ tok[r] \in Tokens
        BY <1>2, <2>3, <2>4, <3>1
      <4>2. /\ Issued(tok[r]) /\ refreshTokens[tok[r]].revoked
            /\ acct[r] = refreshTokens[tok[r]].user
        BY <2>1, <4>1 DEF RequestsSound, RequestSound
      <4>. QED
        BY <1>0, <2>2, <2>3, <3>1, <4>1, <4>2 DEF RowsKept, Issued
    <3>2. CASE s # t
      <4>1. lineage'[s] = lineage[s]
        BY <1>2, <2>3, <3>2
      <4>. QED
        BY <1>0, <2>4, <4>1 DEF RowsKept, LineageSound, Issued
    <3>. QED
      BY <3>1, <3>2
  <2>. QED
    BY <2>4 DEF LineageSound, Issued
<1>3. CASE \E r \in Reqs : Issue(r)
  <2>1. PICK r \in Reqs : Issue(r)
    BY <1>3
  <2>2. \/ UNCHANGED lineage
        \/ \E t \in UnusedTokens : /\ CreateToken(t, acct[r])
                                  /\ lineage' = [lineage EXCEPT ![t] = tok[r]]
    BY <2>1, IssueEffect
  <2>. QED
    BY <1>1, <1>2, <2>1, <2>2
<1>4. CASE \A r \in Reqs : ~Issue(r)
  BY <1>1, <1>4, LineageFrame
<1>. QED
  BY <1>3, <1>4
\* r's RefreshFind finds its token live.
Finds(r) == RefreshFind(r) /\ Live(tok[r]) /\ Goto(r, "refresh.user")

\* Only that adds to the holders of a token.
LEMMA HoldersStep ==
    ASSUME TypeInv, [Next]_vars, NEW p \in Tokens
    PROVE  \/ Holders(p)' \subseteq Holders(p)
           \/ /\ Live(p) /\ UNCHANGED lineage
              /\ \E r \in Reqs : Finds(r)
<1>. USE DEF TypeInv, TypeOK
<1>1. ASSUME NEW r \in Reqs, RefreshFind(r)
      PROVE  \/ Holders(p)' \subseteq Holders(p)
             \/ Live(p) /\ UNCHANGED lineage /\ Finds(r)
  <2>1. \/ Live(tok[r]) /\ Goto(r, "refresh.user")
        \/ pc' = [pc EXCEPT ![r] = "idle"]
    BY <1>1 DEF RefreshFind, Answer, Fail, StatementFails
  <2>2. UNCHANGED <<tok, lineage>>
    BY <1>1 DEF RefreshFind
  <2>3. CASE pc' = [pc EXCEPT ![r] = "idle"]
    BY <2>2, <2>3 DEF Holders
  <2>4. CASE Live(tok[r]) /\ Goto(r, "refresh.user")
    <3>1. CASE tok[r] = p
      BY <1>1, <2>2, <2>4, <3>1 DEF Finds
    <3>2. CASE tok[r] # p
      BY <2>2, <2>4, <3>2 DEF Goto, Holders
    <3>. QED
      BY <3>1, <3>2
  <2>. QED
    BY <2>1, <2>3, <2>4
<1>2. ASSUME NEW r \in Reqs, RefreshUser(r) \/ RefreshRevoke(r) \/ Issue(r)
      PROVE  Holders(p)' \subseteq Holders(p)
  BY <1>2 DEF RefreshUser, RefreshRevoke, Issue, params,
              Goto, Answer, Fail, StatementFails, AckLost, Holders
<1>3. ASSUME NEW r \in Reqs, LoginOK(r)
      PROVE  Holders(p)' \subseteq Holders(p)
  <2>1. tok[r] = NoToken /\ UNCHANGED tok
    BY <1>3 DEF LoginOK, params, RequestsSound, RequestSound, LoginSteps
  <2>. QED
    BY <1>3, <2>1, NoTokenAssumption DEF LoginOK, Goto, Holders
<1>4. ASSUME NEW r \in Reqs,
             \/ RegisterFind(r) \/ RegisterCreate(r)
             \/ LoginCount(r) \/ LoginFind(r) \/ LoginFail(r)
             \/ LogoutFind(r) \/ LogoutRevoke(r)
      PROVE  Holders(p)' \subseteq Holders(p)
  BY <1>4 DEF RegisterFind, RegisterCreate, LoginCount, LoginFind, LoginFail,
              LogoutFind, LogoutRevoke, params,
              Goto, Answer, Fail, StatementFails, AckLost, Holders
<1>5. ASSUME NEW r \in Reqs, Start(r)
      PROVE  Holders(p)' \subseteq Holders(p)
  BY <1>5 DEF Start, StartRegister, StartLogin, StartRefresh, StartLogout, Arrive,
              WithCredentials, WithToken, Holders
<1>6. ASSUME NEW S \in SUBSET Reqs, Crash(S)
      PROVE  Holders(p)' \subseteq Holders(p)
  BY <1>6 DEF Crash, params, Holders
<1>7. CASE Bootstrap \/ Tick \/ UNCHANGED vars
  BY <1>7 DEF Bootstrap, BootstrapCreates, BootstrapPromotes, Tick, vars,
              control, params, Holders
<1>. QED
  BY <1>1, <1>2, <1>3, <1>4, <1>5, <1>6, <1>7 DEF Next, Step

\* Nothing has been bought with a token that is still live.
LEMMA LiveIsChildless ==
    ASSUME TypeInv, LineageSound, NEW p \in Tokens, Live(p)
    PROVE  Children(p) = {}
BY DEF LineageSound, Live, FindByHash, Children

\* Buying a token makes a child of the holder that paid.
LEMMA PurchaseStep ==
    ASSUME TypeInv, LineageSound, NEW r \in Reqs, NEW t \in UnusedTokens, NEW p \in Tokens,
           Issue(r), lineage' = [lineage EXCEPT ![t] = tok[r]]
    PROVE  \/ Children(p)' = Children(p) /\ Holders(p)' \subseteq Holders(p)
           \/ /\ r \in Holders(p) /\ t \notin Children(p)
              /\ Children(p)' = Children(p) \cup {t}
              /\ Holders(p)' = Holders(p) \ {r}
<1>. USE DEF TypeInv, TypeOK
<1>1. /\ pc[r] = "issue" /\ UNCHANGED tok
      /\ pc' = [pc EXCEPT ![r] = "idle"]
  BY IssueEffect DEF params
<1>2. t \in Tokens /\ ~Issued(t)
  BY DEF UnusedTokens, Issued
<1>3. t \notin Children(p)
  BY <1>2 DEF LineageSound, Children
<1>4. Holders(p)' = Holders(p) \ {r}
  BY <1>1 DEF Holders
<1>5. CASE tok[r] = p
  <2>1. Children(p)' = Children(p) \cup {t}
    BY <1>2, <1>5 DEF Children
  <2>2. r \in Holders(p)
    BY <1>1, <1>5 DEF Holders
  <2>. QED
    BY <1>3, <1>4, <2>1, <2>2
<1>6. CASE tok[r] # p
  <2>1. Children(p)' = Children(p)
    BY <1>2, <1>3, <1>6 DEF Children
  <2>. QED
    BY <1>4, <2>1
<1>. QED
  BY <1>5, <1>6

\* The sets RotationBound counts are finite.
LEMMA CountsAreNumbers ==
    ASSUME NEW p \in Tokens
    PROVE  /\ IsFiniteSet(Children(p)) /\ IsFiniteSet(Holders(p))
           /\ Cardinality(Children(p)) \in Nat
           /\ Cardinality(Holders(p)) \in Nat
           /\ Cardinality(Holders(p)) <= Cardinality(Reqs)
           /\ Cardinality(Reqs) \in Nat
<1>1. Children(p) \subseteq Tokens /\ Holders(p) \subseteq Reqs
  BY DEF Children, Holders
<1>. QED
  BY <1>1, FS_Subset, FS_CardinalityType, FiniteAssumption, ReqsAssumption

LEMMA RotationInvStep ==
    ASSUME TypeInv, LineageSound, RotationBound, [Next]_vars
    PROVE  RotationBound'
<1>. SUFFICES ASSUME NEW p \in Tokens
              PROVE  Cardinality(Children(p)') + Cardinality(Holders(p)') <= Cardinality(Reqs)
  BY DEF RotationBound
<1>0. /\ Cardinality(Children(p)) + Cardinality(Holders(p)) <= Cardinality(Reqs)
      /\ Holders(p)' \subseteq Reqs
  BY DEF RotationBound, Holders
<1>1. CASE Children(p)' = Children(p) /\ Holders(p)' \subseteq Holders(p)
  <2>1. /\ Cardinality(Holders(p)') <= Cardinality(Holders(p))
        /\ Cardinality(Holders(p)') \in Nat
    BY <1>1, CountsAreNumbers, FS_Subset, FS_CardinalityType
  <2>. QED
    BY <1>0, <1>1, <2>1, CountsAreNumbers
<1>2. ASSUME NEW r \in Reqs, NEW t \in UnusedTokens,
             r \in Holders(p), t \notin Children(p),
             Children(p)' = Children(p) \cup {t},
             Holders(p)' = Holders(p) \ {r}
      PROVE  Cardinality(Children(p)') + Cardinality(Holders(p)') <= Cardinality(Reqs)
  <2>1. Cardinality(Children(p)') = Cardinality(Children(p)) + 1
    BY <1>2, CountsAreNumbers, FS_AddElement
  <2>2. Cardinality(Holders(p)') = Cardinality(Holders(p)) - 1
    BY <1>2, CountsAreNumbers, FS_RemoveElement
  <2>. QED
    BY <1>0, <2>1, <2>2, CountsAreNumbers
<1>3. CASE Live(p) /\ UNCHANGED lineage
  <2>1. Children(p)' = {}
    BY <1>3, LiveIsChildless DEF Children
  <2>2. Cardinality(Children(p)') = 0
    BY <2>1, FS_EmptySet
  <2>3. /\ Cardinality(Holders(p)') <= Cardinality(Reqs)
        /\ Cardinality(Holders(p)') \in Nat
    BY <1>0, ReqsAssumption, FS_Subset, FS_CardinalityType
  <2>. QED
    BY <2>2, <2>3
<1>4. CASE \A r \in Reqs : ~Issue(r)
  <2>1. Children(p)' = Children(p)
    BY <1>4, LineageFrame DEF Children
  <2>. QED
    BY <1>1, <1>3, <2>1, HoldersStep
<1>5. CASE \E r \in Reqs : Issue(r)
  <2>1. PICK r \in Reqs : Issue(r)
    BY <1>5
  <2>2. \/ UNCHANGED lineage
        \/ \E t \in UnusedTokens : lineage' = [lineage EXCEPT ![t] = tok[r]]
    BY <2>1, IssueEffect
  <2>3. CASE UNCHANGED lineage
    BY <1>1, <1>3, <2>3, HoldersStep DEF Children
  <2>4. CASE \E t \in UnusedTokens : lineage' = [lineage EXCEPT ![t] = tok[r]]
    BY <1>1, <1>2, <2>1, <2>4, PurchaseStep
  <2>. QED
    BY <2>2, <2>3, <2>4
<1>. QED
  BY <1>4, <1>5
LEMMA RotationInvInit == Init => LineageSound /\ RotationBound
<1>. SUFFICES ASSUME Init PROVE LineageSound /\ RotationBound
  OBVIOUS
<1>1. \A p \in Tokens : lineage[p] \notin Tokens /\ Children(p) = {} /\ Holders(p) = {}
  BY NoTokenAssumption DEF Init, Children, Holders
<1>2. LineageSound
  BY <1>1 DEF LineageSound
<1>3. RotationBound
  <2>. SUFFICES ASSUME NEW p \in Tokens
                PROVE  Cardinality(Children(p)) + Cardinality(Holders(p)) <= Cardinality(Reqs)
    BY DEF RotationBound
  <2>1. Cardinality(Children(p)) = 0 /\ Cardinality(Holders(p)) = 0
    BY <1>1, FS_EmptySet
  <2>2. Cardinality(Reqs) \in Nat
    BY FS_CardinalityType, ReqsAssumption
  <2>. QED
    BY <2>1, <2>2
<1>. QED
  BY <1>2, <1>3

LEMMA RotationInvariant == Spec => []RotationInv
<1>1. Init => RotationInv
  BY TypeInvInit, RotationInvInit DEF RotationInv, TypeInv
<1>2. RotationInv /\ [Next]_vars => RotationInv'
  BY TypeInvStep, LineageStep, RotationInvStep DEF RotationInv, TypeInv
<1>. QED
  BY <1>1, <1>2, PTL DEF Spec

\* One refresh token never buys more tokens than requests can run at once, and
\* each request that still holds it takes one from that number.
THEOREM RotationIsBounded == Spec => []RotationBound
<1>1. RotationInv => RotationBound
  BY DEF RotationInv
<1>. QED
  BY <1>1, RotationInvariant, PTL

\* Every token bought with another has a revoked predecessor of the same user.
THEOREM LineageStaysSound == Spec => []LineageSound
<1>1. RotationInv => LineageSound
  BY DEF RotationInv
<1>. QED
  BY <1>1, RotationInvariant, PTL

\* Where requests run one at a time, rotation is what the API documents: a
\* refresh token buys at most one other.
THEOREM SequentialRotation ==
    ASSUME Cardinality(Reqs) = 1
    PROVE  Spec => []SingleRotation
<1>1. RotationInv => SingleRotation
  <2>. SUFFICES ASSUME RotationInv, NEW p \in Tokens
                PROVE  Cardinality(Children(p)) <= 1
    BY DEF SingleRotation
  <2>1. Cardinality(Children(p)) + Cardinality(Holders(p)) <= 1
    BY DEF RotationInv, RotationBound
  <2>. QED
    BY <2>1, CountsAreNumbers
<1>. QED
  BY <1>1, RotationInvariant, PTL

LEMMA SpentStep ==
    ASSUME RotationInv, [Next]_vars, NEW p \in Tokens, Spent(p)
    PROVE  Spent(p)' /\ Children(p)' = Children(p)
<1>. USE DEF RotationInv
<1>1. TypeInv
  BY DEF TypeInv
<1>2. ~Live(p)
  <2>1. refreshTokens[p] \in TokenRow
    BY DEF TypeOK, TablesTypeOK, Spent, Issued
  <2>. QED
    BY <2>1, TimesAssumption DEF Spent, Live, FindByHash, TokenRow
<1>3. Holders(p)' = {} /\ Holders(p) = {}
  BY <1>1, <1>2, HoldersStep DEF Spent
<1>4. Spent(p)'
  BY <1>1, <1>3, TablesStep DEF Spent, RowsKept
<1>5. CASE \A r \in Reqs : ~Issue(r)
  <2>1. UNCHANGED lineage
    BY <1>1, <1>5, LineageFrame
  <2>. QED
    BY <1>4, <2>1 DEF Children
<1>6. CASE \E r \in Reqs : Issue(r)
  <2>1. PICK r \in Reqs : Issue(r)
    BY <1>6
  <2>2. \/ UNCHANGED lineage
        \/ \E t \in UnusedTokens : lineage' = [lineage EXCEPT ![t] = tok[r]]
    BY <1>1, <2>1, IssueEffect
  <2>3. CASE UNCHANGED lineage
    BY <1>4, <2>3 DEF Children
  <2>4. CASE \E t \in UnusedTokens : lineage' = [lineage EXCEPT ![t] = tok[r]]
    BY <1>1, <1>3, <1>4, <2>1, <2>4, PurchaseStep
  <2>. QED
    BY <2>2, <2>3, <2>4
<1>. QED
  BY <1>5, <1>6

\* The time a revoked token can still be used is over with its last holder: no
\* later step revives it or buys with it.
THEOREM SpentTokensStaySpent == Spec => SpentStaysSpent
<1>1. RotationInv /\ [Next]_vars
        => [\A p \in Tokens : Spent(p) => Spent(p)' /\ Children(p)' = Children(p)]_vars
  BY SpentStep
<1>. QED
  BY <1>1, RotationInvariant, PTL DEF Spec, SpentStaysSpent

-----------------------------------------------------------------------------
(* Why requests end *)

\* The statements a request has left when it is about to run each of them.
Left == [s \in Steps |->
            CASE s = "idle" -> 0
              [] s \in {"register.create", "login.fail", "issue", "logout.revoke"} -> 1
              [] s \in {"register.find", "login.ok", "refresh.revoke", "logout.find"} -> 2
              [] s \in {"login.find", "refresh.user"} -> 3
              [] s \in {"login.count", "refresh.find"} -> 4]

\* A statement brings its request nearer to its end, and no other request further
\* from its own.
LEMMA StepMovesOn ==
    ASSUME TypeOK, NEW r \in Reqs, Step(r)
    PROVE  /\ Left[pc'[r]] < Left[pc[r]]
           /\ \A q \in Reqs : q # r => pc'[q] = pc[q]
<1>. DEFINE Goes(s) == pc' = [pc EXCEPT ![r] = s]
<1>1. \/ pc[r] = "register.find" /\ (Goes("idle") \/ Goes("register.create"))
      \/ pc[r] = "register.create" /\ Goes("idle")
      \/ pc[r] = "login.count" /\ (Goes("idle") \/ Goes("login.find"))
      \/ pc[r] = "login.find" /\ (Goes("idle") \/ Goes("login.ok") \/ Goes("login.fail"))
      \/ pc[r] = "login.fail" /\ Goes("idle")
      \/ pc[r] = "login.ok" /\ Goes("issue")
      \/ pc[r] = "issue" /\ Goes("idle")
      \/ pc[r] = "refresh.find" /\ (Goes("idle") \/ Goes("refresh.user"))
      \/ pc[r] = "refresh.user" /\ (Goes("idle") \/ Goes("refresh.revoke"))
      \/ pc[r] = "refresh.revoke" /\ (Goes("idle") \/ Goes("issue"))
      \/ pc[r] = "logout.find" /\ (Goes("idle") \/ Goes("logout.revoke"))
      \/ pc[r] = "logout.revoke" /\ Goes("idle")
  <2>. USE DEF Goto, Answer, Fail, StatementFails, AckLost
  <2>1. CASE RegisterFind(r) \/ RegisterCreate(r)
    BY <2>1, Zenon DEF RegisterFind, RegisterCreate
  <2>2. CASE LoginCount(r)
    BY <2>2, Zenon DEF LoginCount
  <2>3. CASE LoginFind(r)
    BY <2>3, Zenon DEF LoginFind
  <2>4. CASE LoginFail(r) \/ LoginOK(r)
    BY <2>4, Zenon DEF LoginFail, LoginOK
  <2>5. CASE Issue(r)
    BY <2>5, Zenon DEF Issue
  <2>6. CASE RefreshFind(r)
    BY <2>6, Zenon DEF RefreshFind
  <2>7. CASE RefreshUser(r) \/ RefreshRevoke(r)
    BY <2>7, Zenon DEF RefreshUser, RefreshRevoke
  <2>8. CASE LogoutFind(r) \/ LogoutRevoke(r)
    BY <2>8, Zenon DEF LogoutFind, LogoutRevoke
  <2>. QED
    BY <2>1, <2>2, <2>3, <2>4, <2>5, <2>6, <2>7, <2>8, Zenon DEF Step
<1>2. PICK s \in Steps : Goes(s) /\ Left[s] < Left[pc[r]]
  BY <1>1 DEF Left, Steps, RegisterSteps, LoginSteps, RefreshSteps, LogoutSteps
<1>. QED
  BY <1>2 DEF TypeOK

\* No statement is run again and no request is sent back by another: once under
\* way a request only gets nearer to its end, which is four statements off at
\* most.  With the scheduling of its goroutine that is RequestsEnd.
THEOREM RequestsMoveOn ==
    Spec => [][\A r \in Reqs :
                  /\ Step(r) => Left[pc'[r]] < Left[pc[r]]
                  /\ pc[r] # "idle" => Left[pc'[r]] \in 0 .. Left[pc[r]]]_vars
<1>. DEFINE Nearer == \A r \in Reqs :
                  /\ Step(r) => Left[pc'[r]] < Left[pc[r]]
                  /\ pc[r] # "idle" => Left[pc'[r]] \in 0 .. Left[pc[r]]
<1>1. ASSUME TypeInv, TypeOK', [Next]_vars, NEW r \in Reqs
      PROVE  /\ Step(r) => Left[pc'[r]] < Left[pc[r]]
             /\ pc[r] # "idle" => Left[pc'[r]] \in 0 .. Left[pc[r]]
  <2>1. \A s \in Steps : Left[s] \in 0 .. 4
    BY DEF Left, Steps, RegisterSteps, LoginSteps, RefreshSteps, LogoutSteps
  <2>2. TypeOK /\ pc[r] \in Steps /\ pc'[r] \in Steps
    BY <1>1 DEF TypeInv, TypeOK
  <2>3. Left["idle"] = 0
    BY DEF Left, Steps
  <2>4. \/ pc[r] = "idle" \/ pc'[r] = pc[r] \/ pc'[r] = "idle" \/ Step(r)
    <3>1. ASSUME NEW q \in Reqs, Start(q) PROVE pc[r] = "idle" \/ pc'[r] = pc[r]
      BY <2>2, <3>1 DEF Start, StartRegister, StartLogin, StartRefresh, StartLogout,
                        Arrive, TypeOK
    <3>2. ASSUME NEW q \in Reqs, Step(q) PROVE pc'[r] = pc[r] \/ Step(r)
      BY <2>2, <3>2, StepMovesOn
    <3>3. ASSUME NEW S \in SUBSET Reqs, Crash(S) PROVE pc'[r] = pc[r] \/ pc'[r] = "idle"
      BY <3>3 DEF Crash
    <3>4. CASE Bootstrap \/ Tick \/ UNCHANGED vars
      BY <3>4 DEF Bootstrap, BootstrapCreates, BootstrapPromotes, Tick, vars, control
    <3>. QED
      BY <1>1, <3>1, <3>2, <3>3, <3>4 DEF Next
  <2>5. Step(r) => Left[pc'[r]] < Left[pc[r]]
    BY <2>2, StepMovesOn
  <2>. QED
    BY <2>1, <2>2, <2>3, <2>4, <2>5
<1>2. TypeInv /\ TypeInv' /\ [Next]_vars => Nearer
  BY <1>1 DEF TypeInv
<1>3. Init => TypeInv
  BY TypeInvInit
<1>4. TypeInv /\ [Next]_vars => TypeInv'
  BY TypeInvStep
<1>. QED
  BY <1>2, <1>3, <1>4, PTL DEF Spec
=============================================================================
