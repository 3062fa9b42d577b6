----------------------------- MODULE LockProofs -----------------------------
(***************************************************************************)
(* Proof that concurrent logins overshoot BRUTE_FORCE_MAX_ATTEMPTS by less  *)
(* than their number, for every limit, window and number of requests.       *)
(***************************************************************************)
EXTENDS AuthServiceProofs

\* The sets FailuresBounded counts are finite.
LEMMA FailuresAreNumbers ==
    ASSUME NEW e \in Emails
    PROVE  /\ IsFiniteSet(RecentFailed(e)) /\ IsFiniteSet(Guessing(e))
           /\ Cardinality(RecentFailed(e)) \in Nat
           /\ Cardinality(Guessing(e)) \in Nat
           /\ Cardinality(Reqs) \in Nat
<1>1. RecentFailed(e) \subseteq Attempts /\ Guessing(e) \subseteq Reqs
  BY DEF RecentFailed, Guessing
<1>. QED
  BY <1>1, FS_Subset, FS_CardinalityType, FiniteAssumption, ReqsAssumption

\* Only recordAttempt writes login_attempts, and time only takes rows away from
\* the count.
LEMMA RecentFailedStep ==
    ASSUME TypeInv, [Next]_vars, NEW e \in Emails
    PROVE  \/ RecentFailed(e)' \subseteq RecentFailed(e)
           \/ \E r \in Reqs, i \in UnusedAttempts :
                 /\ LoginFail(r) /\ acct[r] = e
                 /\ i \notin RecentFailed(e)
                 /\ RecentFailed(e)' = RecentFailed(e) \cup {i}
<1>. USE DEF TypeInv, TypeOK
<1>1. CASE UNCHANGED loginAttempts
  BY <1>1 DEF RecentFailed
<1>2. ASSUME NEW i \in UnusedAttempts, NEW a \in Emails, NEW ok \in BOOLEAN,
             CreateAttempt(i, a, ok)
      PROVE  /\ i \notin RecentFailed(e)
             /\ RecentFailed(e)' =
                   IF a = e /\ ~ok THEN RecentFailed(e) \cup {i} ELSE RecentFailed(e)
  <2>1. i \in Attempts /\ i \notin RecentFailed(e)
    <3>1. loginAttempts[i] # NoRow => loginAttempts[i] \in AttemptRow
      BY DEF UnusedAttempts, TablesTypeOK
    <3>. QED
      BY <3>1, TimesAssumption DEF UnusedAttempts, RecentFailed, AttemptRow
  <2>2. loginAttempts'[i] = [email |-> a, successful |-> ok, age |-> 0]
    BY <1>2, <2>1 DEF CreateAttempt, TablesTypeOK
  <2>3. loginAttempts'[i] # NoRow
    <3>1. loginAttempts'[i] \in AttemptRow
      BY <2>2, TimesAssumption DEF AttemptRow
    <3>. QED
      BY <3>1, NoRowAssumption
  <2>4. \A j \in Attempts : j # i => loginAttempts'[j] = loginAttempts[j]
    BY <1>2, <2>1 DEF CreateAttempt, TablesTypeOK
  <2>5. i \in RecentFailed(e)' <=> a = e /\ ~ok
    BY <2>1, <2>2, <2>3, TimesAssumption DEF RecentFailed
  <2>6. \A j \in Attempts : j # i => (j \in RecentFailed(e)' <=> j \in RecentFailed(e))
    BY <2>4 DEF RecentFailed
  <2>7. RecentFailed(e) \subseteq Attempts /\ RecentFailed(e)' \subseteq Attempts
    BY DEF RecentFailed
  <2>. QED
    BY <2>1, <2>5, <2>6, <2>7
<1>3. ASSUME NEW r \in Reqs, LoginFail(r) \/ LoginOK(r)
      PROVE  \/ RecentFailed(e)' \subseteq RecentFailed(e)
             \/ \E i \in UnusedAttempts :
                   /\ LoginFail(r) /\ acct[r] = e
                   /\ i \notin RecentFailed(e)
                   /\ RecentFailed(e)' = RecentFailed(e) \cup {i}
  <2>1. acct[r] \in Emails
    BY <1>3 DEF LoginFail, LoginOK, RequestsSound, RequestSound, LoginSteps
  <2>2. CASE UNCHANGED loginAttempts
    BY <1>1, <2>2 DEF RecentFailed
  <2>3. CASE LoginOK(r) /\ \E i \in UnusedAttempts : CreateAttempt(i, acct[r], TRUE)
    BY <1>2, <2>1, <2>3
  <2>4. CASE LoginFail(r) /\ \E i \in UnusedAttempts : CreateAttempt(i, acct[r], FALSE)
    <3>1. PICK i \in UnusedAttempts : CreateAttempt(i, acct[r], FALSE)
      BY <2>4
    <3>2. /\ i \notin RecentFailed(e)
          /\ acct[r] = e => RecentFailed(e)' = RecentFailed(e) \cup {i}
          /\ acct[r] # e => RecentFailed(e)' = RecentFailed(e)
      BY <1>2, <2>1, <3>1
    <3>. QED
      BY <2>4, <3>2
  <2>. QED
    BY <1>3, <2>2, <2>3, <2>4 DEF LoginFail, LoginOK, RecordAttempt
<1>4. CASE Tick
  <2>1. ASSUME NEW i \in RecentFailed(e)'
        PROVE  i \in RecentFailed(e)
    <3>1. i \in Attempts /\ loginAttempts'[i] # NoRow /\ loginAttempts'[i].age <= Window
          /\ loginAttempts'[i].email = e /\ ~loginAttempts'[i].successful
      BY DEF RecentFailed
    <3>2. /\ loginAttempts[i] # NoRow
          /\ loginAttempts'[i] \in AttemptRow
          /\ loginAttempts'[i].email = loginAttempts[i].email
          /\ loginAttempts'[i].successful = loginAttempts[i].successful
          /\ loginAttempts'[i].age >= loginAttempts[i].age
      BY <1>4, <3>1, AttemptRowAges DEF Tick
    <3>3. loginAttempts[i] \in AttemptRow
      BY <3>1, <3>2 DEF TablesTypeOK
    <3>4. loginAttempts[i].age <= Window
      BY <3>1, <3>2, <3>3, TimesAssumption DEF AttemptRow
    <3>. QED
      BY <3>1, <3>2, <3>4 DEF RecentFailed
  <2>. QED
    BY <2>1
<1>5. ASSUME NEW r \in Reqs, Start(r) \/ Step(r), ~LoginFail(r), ~LoginOK(r)
      PROVE  UNCHANGED loginAttempts
  BY <1>5 DEF Start, StartRegister, StartLogin, StartRefresh, StartLogout, Arrive, tables,
       Step, RegisterFind, RegisterCreate, LoginCount, LoginFind, Issue,
       RefreshFind, RefreshUser, RefreshRevoke, LogoutFind, LogoutRevoke
<1>6. CASE Bootstrap \/ UNCHANGED vars \/ \E S \in SUBSET Reqs : Crash(S)
  BY <1>1, <1>6 DEF Bootstrap, BootstrapCreates, BootstrapPromotes, Crash, vars, tables
<1>. QED
  BY <1>1, <1>3, <1>4, <1>5, <1>6 DEF Next

\* Only a login that finds the account unlocked joins those that may record a
\* failure, and recording one leaves them.
LEMMA GuessingStep ==
    ASSUME TypeInv, [Next]_vars, NEW e \in Emails
    PROVE  /\ \/ Guessing(e)' \subseteq Guessing(e)
              \/ ~Locked(e) /\ UNCHANGED loginAttempts
           /\ \A r \in Reqs : LoginFail(r) /\ acct[r] = e =>
                 r \in Guessing(e) /\ Guessing(e)' = Guessing(e) \ {r}
<1>. USE DEF TypeInv, TypeOK
<1>1. ASSUME NEW r \in Reqs, LoginCount(r)
      PROVE  \/ Guessing(e)' \subseteq Guessing(e)
             \/ ~Locked(e) /\ UNCHANGED loginAttempts
  BY <1>1 DEF LoginCount, Guessing, Goto, Answer, Fail, StatementFails, params, tables
<1>2. ASSUME NEW r \in Reqs, LoginFail(r)
      PROVE  Guessing(e)' = Guessing(e) \ {r}
  BY <1>2 DEF LoginFail, Fail, Answer, Guessing, params
<1>3. ASSUME NEW r \in Reqs, LoginFail(r), acct[r] = e
      PROVE  r \in Guessing(e)
  BY <1>3 DEF LoginFail, Guessing
<1>4. ASSUME NEW r \in Reqs,
             \/ LoginOK(r) \/ RegisterFind(r) \/ RegisterCreate(r)
             \/ Issue(r) \/ RefreshRevoke(r)
             \/ LogoutFind(r) \/ LogoutRevoke(r)
      PROVE  Guessing(e)' \subseteq Guessing(e)
  BY <1>4 DEF LoginOK, RegisterFind, RegisterCreate, Issue,
              RefreshRevoke, LogoutFind, LogoutRevoke, params,
              Goto, Answer, Fail, StatementFails, AckLost, Guessing
<1>5. ASSUME NEW r \in Reqs, LoginFind(r) \/ RefreshFind(r) \/ RefreshUser(r)
      PROVE  Guessing(e)' \subseteq Guessing(e)
  BY <1>5 DEF LoginFind, RefreshFind, RefreshUser, Goto, Answer, Fail, StatementFails, Guessing
<1>6. ASSUME NEW r \in Reqs, Start(r)
      PROVE  Guessing(e)' \subseteq Guessing(e)
  BY <1>6 DEF Start, StartRegister, StartLogin, StartRefresh, StartLogout, Arrive,
              WithCredentials, WithToken, Guessing
<1>7. ASSUME NEW S \in SUBSET Reqs, Crash(S)
      PROVE  Guessing(e)' \subseteq Guessing(e)
  BY <1>7 DEF Crash, params, Guessing
<1>8. ASSUME Bootstrap \/ Tick \/ UNCHANGED vars
      PROVE  Guessing(e)' \subseteq Guessing(e)
  <2>1. UNCHANGED <<pc, acct>>
    BY <1>8 DEF Bootstrap, BootstrapCreates, BootstrapPromotes, Tick, vars, control, params
  <2>. QED
    BY <2>1 DEF Guessing
<1>9. \/ Guessing(e)' \subseteq Guessing(e)
      \/ ~Locked(e) /\ UNCHANGED loginAttempts
  BY <1>1, <1>2, <1>4, <1>5, <1>6, <1>7, <1>8 DEF Next, Step
<1>. QED
  BY <1>2, <1>3, <1>9

LEMMA FailuresInit == Init => FailuresBounded
<1>. SUFFICES ASSUME Init, NEW e \in Emails
              PROVE  Cardinality(RecentFailed(e)) + Cardinality(Guessing(e))
                        < MaxAttempts + Cardinality(Reqs)
  BY DEF FailuresBounded
<1>1. RecentFailed(e) = {} /\ Guessing(e) = {}
  BY DEF Init, TablesInit, RecentFailed, Guessing
<1>2. Cardinality(RecentFailed(e)) = 0 /\ Cardinality(Guessing(e)) = 0
  BY <1>1, FS_EmptySet
<1>. QED
  BY <1>2, FailuresAreNumbers, MaxAttemptsAssumption

LEMMA FailuresStep ==
    ASSUME TypeInv, FailuresBounded, [Next]_vars
    PROVE  FailuresBounded'
<1>. SUFFICES ASSUME NEW e \in Emails
              PROVE  Cardinality(RecentFailed(e)') + Cardinality(Guessing(e)')
                        < MaxAttempts + Cardinality(Reqs)
  BY DEF FailuresBounded
<1>. DEFINE R == Cardinality(RecentFailed(e))
            G == Cardinality(Guessing(e))
<1>0. /\ R + G < MaxAttempts + Cardinality(Reqs)
      /\ R \in Nat /\ G \in Nat /\ Cardinality(Reqs) \in Nat
      /\ Guessing(e)' \subseteq Reqs
  BY FailuresAreNumbers DEF FailuresBounded, Guessing
<1>1. ASSUME RecentFailed(e)' \subseteq RecentFailed(e)
      PROVE  Cardinality(RecentFailed(e)') <= R /\ Cardinality(RecentFailed(e)') \in Nat
  BY <1>1, FailuresAreNumbers, FS_Subset, FS_CardinalityType
<1>2. ASSUME Guessing(e)' \subseteq Guessing(e)
      PROVE  Cardinality(Guessing(e)') <= G /\ Cardinality(Guessing(e)') \in Nat
  BY <1>2, FailuresAreNumbers, FS_Subset, FS_CardinalityType
<1>3. CASE RecentFailed(e)' \subseteq RecentFailed(e) /\ Guessing(e)' \subseteq Guessing(e)
  BY <1>0, <1>1, <1>2, <1>3, MaxAttemptsAssumption
<1>4. CASE ~Locked(e) /\ UNCHANGED loginAttempts
  <2>1. RecentFailed(e)' = RecentFailed(e)
    BY <1>4 DEF RecentFailed
  <2>2. R < MaxAttempts
    BY <1>0, <1>4, MaxAttemptsAssumption DEF Locked
  <2>3. /\ Cardinality(Guessing(e)') <= Cardinality(Reqs)
        /\ Cardinality(Guessing(e)') \in Nat
    BY <1>0, ReqsAssumption, FS_Subset, FS_CardinalityType
  <2>. QED
    BY <1>0, <2>1, <2>2, <2>3, MaxAttemptsAssumption
<1>5. ASSUME NEW r \in Reqs, NEW i \in UnusedAttempts, LoginFail(r), acct[r] = e,
             i \notin RecentFailed(e), RecentFailed(e)' = RecentFailed(e) \cup {i}
      PROVE  Cardinality(RecentFailed(e)') + Cardinality(Guessing(e)')
                < MaxAttempts + Cardinality(Reqs)
  <2>1. Cardinality(RecentFailed(e)') = R + 1
    BY <1>5, FailuresAreNumbers, FS_AddElement
  <2>2. r \in Guessing(e) /\ Guessing(e)' = Guessing(e) \ {r}
    BY <1>5, GuessingStep
  <2>3. Cardinality(Guessing(e)') = G - 1
    BY <2>2, FailuresAreNumbers, FS_RemoveElement
  <2>. QED
    BY <1>0, <2>1, <2>3, MaxAttemptsAssumption
<1>. QED
  BY <1>3, <1>4, <1>5, RecentFailedStep, GuessingStep

\* However many logins run at once and wherever they are interrupted, the recent
\* failures of an account, with those about to be recorded, stay below the limit
\* plus the number of concurrent requests.
THEOREM FailuresStayBounded == Spec => []FailuresBounded
<1>1. Init => TypeInv /\ FailuresBounded
  BY TypeInvInit, FailuresInit
<1>2. (TypeInv /\ FailuresBounded) /\ [Next]_vars => (TypeInv /\ FailuresBounded)'
  BY TypeInvStep, FailuresStep
<1>. QED
  BY <1>1, <1>2, PTL DEF Spec

\* Attempts on a locked account cannot extend the lock: with no login left
\* between the count and its record, the failures counted against the account
\* only age out, for every limit, window and number of requests.
THEOREM LockedAccountsStayQuiet == Spec => LockedStaysQuiet
<1>1. ASSUME TypeInv, [Next]_vars, NEW e \in Emails, Locked(e), Guessing(e) = {}
      PROVE  Guessing(e)' = {} /\ RecentFailed(e)' \subseteq RecentFailed(e)
  <2>1. Guessing(e)' \subseteq Guessing(e)
    BY <1>1, GuessingStep
  <2>2. \A r \in Reqs : ~(LoginFail(r) /\ acct[r] = e)
    BY <1>1, GuessingStep
  <2>. QED
    BY <1>1, <2>1, <2>2, RecentFailedStep
<1>2. TypeInv /\ [Next]_vars
        => [\A e \in Emails :
                Locked(e) /\ Guessing(e) = {}
                    => Guessing(e)' = {} /\ RecentFailed(e)' \subseteq RecentFailed(e)]_vars
  BY <1>1
<1>. QED
  BY <1>2, TypeInvInit, TypeInvStep, PTL DEF Spec, LockedStaysQuiet
=============================================================================
