-------------------------- MODULE AuthSystemProofs --------------------------
(***************************************************************************)
(* Proofs that pods running the service implement AuthService, so that its  *)
(* theorems hold of the deployment, and of what start-up guarantees.        *)
(***************************************************************************)
EXTENDS AuthSystem, AccountProofs, LockProofs

\* A step of a pod is a step of the service or invisible to it.
LEMMA PodStepRefines ==
    ASSUME SysInv, [SysNext]_sysvars
    PROVE  [Next]_vars
<1>1. ASSUME NEW r \in Reqs, SysStart(r) \/ SysStep(r)  PROVE Next
  BY <1>1 DEF SysStart, SysStep, Next
<1>2. ASSUME NEW p \in Pods, Boot(p)  PROVE [Next]_vars
  <2>1. CASE UNCHANGED vars
    BY <2>1
  <2>2. CASE BootCreate(p) \/ BootPromote(p)
    <3>1. AdminEmail \in Emails
      BY <2>2 DEF SysInv, BootHasAdmin, BootCreate, BootPromote
    <3>2. \/ UNCHANGED vars
          \/ BootstrapCreates(AdminEmail) \/ BootstrapPromotes(AdminEmail)
      BY <2>2 DEF BootCreate, BootPromote
    <3>. QED
      BY <3>1, <3>2 DEF Bootstrap, Next
  <2>. QED
    BY <1>2, <2>1, <2>2 DEF Boot, PodStart, BootFind
<1>3. ASSUME NEW p \in Pods, ShutdownTimesOut(p) \/ PodDies(p)  PROVE Next
  <2>1. RequestsOf(p) \in SUBSET Reqs /\ Crash(RequestsOf(p))
    BY <1>3 DEF ShutdownTimesOut, PodDies, RequestsOf
  <2>. QED
    BY <2>1 DEF Next
<1>4. ASSUME NEW p \in Pods, PodTerm(p) \/ PodDrained(p)  PROVE [Next]_vars
  BY <1>4 DEF PodTerm, PodDrained
<1>5. CASE SysTick
  BY <1>5 DEF SysTick, Next
<1>6. CASE UNCHANGED sysvars
  BY <1>6 DEF sysvars
<1>. QED
  BY <1>1, <1>2, <1>3, <1>4, <1>5, <1>6 DEF SysNext

\* A step changes the state of one pod, and says how.
LEMMA PodStep ==
    ASSUME SysInv, [SysNext]_sysvars
    PROVE  /\ pod' \in [Pods -> PodStates]
           /\ BootHasAdmin'
<1>. USE DEF SysInv, SysTypeOK, BootHasAdmin, PodStates, Running, Serving
<1>1. ASSUME NEW p \in Pods, Boot(p)
      PROVE  pod' \in [Pods -> PodStates] /\ BootHasAdmin'
  BY <1>1 DEF Boot, PodStart, BootFind, BootCreate, BootPromote, BootFails, Become
<1>2. ASSUME NEW p \in Pods, PodTerm(p) \/ PodDrained(p) \/ ShutdownTimesOut(p) \/ PodDies(p)
      PROVE  pod' \in [Pods -> PodStates] /\ BootHasAdmin'
  BY <1>2 DEF PodTerm, PodDrained, ShutdownTimesOut, PodDies, Become
<1>3. CASE UNCHANGED pod
  BY <1>3
<1>. QED
  BY <1>1, <1>2, <1>3 DEF SysNext, SysStart, SysStep, SysTick, sysvars

\* An administrator's row stays an administrator's.
LEMMA AdminKept ==
    ASSUME TypeInv, TypeInv', UsersKept, NEW e \in Emails,
           users[e] # NoRow, users[e].role = "admin"
    PROVE  users'[e] # NoRow /\ users'[e].role = "admin"
<1>1. users'[e] \in UserRow /\ Rank("admin") <= Rank(users'[e].role)
  BY DEF UsersKept, TypeInv, TypeOK, TablesTypeOK
<1>. QED
  BY <1>1 DEF UsersKept, Rank, UserRow, Roles

LEMMA AdminReadyStep ==
    ASSUME SysInv, [SysNext]_sysvars
    PROVE  AdminReady'
<1>. USE DEF SysInv, SysTypeOK
<1>0. [Next]_vars /\ TypeInv
  BY PodStepRefines DEF TypeInv
<1>1. TypeInv' /\ UsersKept /\ TablesTypeOK
  BY <1>0, TypeInvStep, UsersStep DEF TypeOK
<1>. SUFFICES ASSUME NEW p \in Pods, pod'[p] = "serving"
              PROVE  users'[AdminEmail] # NoRow /\ users'[AdminEmail].role = "admin"
  BY DEF AdminReady
<1>a. AdminEmail \in Emails
  BY PodStep DEF BootHasAdmin
<1>2. CASE pod[p] = "serving"
  BY <1>a, <1>0, <1>1, <1>2, AdminKept DEF AdminReady
<1>3. CASE pod[p] # "serving"
  <2>1. BootFind(p) \/ BootCreate(p) \/ BootPromote(p)
    BY <1>3 DEF SysNext, SysStart, SysStep, SysTick, sysvars, Boot, PodStart, BootFind,
                BootCreate, BootPromote, PodTerm, PodDrained, ShutdownTimesOut, PodDies,
                BootFails, Become
  <2>2. CASE BootFind(p)
    BY <2>2 DEF BootFind, BootFails, Become, FindUser, vars, tables
  <2>3. CASE BootCreate(p)
    <3>1. CreateUser(AdminEmail, AdminPassword, "admin")
      BY <2>3 DEF BootCreate, BootFails, Become, BootstrapCreates
    <3>2. users'[AdminEmail] = [pw |-> AdminPassword, role |-> "admin"]
      BY <1>a, <1>1, <3>1 DEF CreateUser, TablesTypeOK
    <3>3. [pw |-> AdminPassword, role |-> "admin"] # NoRow
      BY NoRowAssumption, AdminAssumption DEF UserRow, Roles
    <3>. QED
      BY <3>2, <3>3
  <2>4. CASE BootPromote(p)
    <3>1. users[AdminEmail] # NoRow /\ UpdateRole(AdminEmail, "admin")
      BY <2>4 DEF BootPromote, BootFails, Become, BootstrapPromotes
    <3>2. users[AdminEmail] \in UserRow
      BY <1>a, <1>1, <3>1 DEF TablesTypeOK
    <3>3. users'[AdminEmail] = [users[AdminEmail] EXCEPT !.role = "admin"]
      BY <1>a, <1>1, <3>1 DEF UpdateRole, TablesTypeOK
    <3>. QED
      BY <1>a, <1>1, <3>1, <3>2, <3>3 DEF UsersKept, UserRow
  <2>. QED
    BY <2>1, <2>2, <2>3, <2>4
<1>. QED
  BY <1>2, <1>3

LEMMA RequestsHavePodsStep ==
    ASSUME SysInv, [SysNext]_sysvars
    PROVE  RequestsHavePods'
<1>. USE HostAssumption DEF SysInv, SysTypeOK, RequestsHavePods, Running, Serving
<1>0. TypeInv
  BY DEF TypeInv
<1>1. ASSUME NEW r \in Reqs, SysStart(r) \/ SysStep(r)
      PROVE  RequestsHavePods'
  <2>1. pod' = pod /\ pod[Host[r]] \in Running
    BY <1>1
    DEF SysStart, SysStep, Step, RegisterFind, RegisterCreate, LoginCount, LoginFind,
        LoginFail, LoginOK, Issue, RefreshFind, RefreshUser, RefreshRevoke, LogoutFind,
        LogoutRevoke
  <2>2. \A q \in Reqs : q # r => pc'[q] = pc[q]
    BY <1>0, <1>1, OthersUntouched DEF SysStart, SysStep
  <2>. QED
    BY <2>1, <2>2
<1>2. ASSUME NEW p \in Pods, Boot(p)
      PROVE  RequestsHavePods'
  <2>1. pc' = pc /\ pod[p] \notin Running
    BY <1>2 DEF Boot, PodStart, BootFind, BootCreate, BootPromote, BootstrapCreates,
                BootstrapPromotes, vars, control
  <2>2. \A q \in Pods : q # p => pod'[q] = pod[q]
    BY <1>2 DEF Boot, PodStart, BootFind, BootCreate, BootPromote, BootFails, Become
  <2>. QED
    BY <2>1, <2>2
<1>3. ASSUME NEW p \in Pods, PodTerm(p)  PROVE RequestsHavePods'
  BY <1>3 DEF PodTerm, Become, vars, control
<1>4. ASSUME NEW p \in Pods, PodDrained(p)  PROVE RequestsHavePods'
  BY <1>4 DEF PodDrained, Become, vars, control, RequestsOf
<1>5. ASSUME NEW p \in Pods, ShutdownTimesOut(p) \/ PodDies(p)  PROVE RequestsHavePods'
  BY <1>5 DEF ShutdownTimesOut, PodDies, Become, Crash, RequestsOf
<1>6. CASE SysTick \/ UNCHANGED sysvars
  BY <1>6 DEF SysTick, Tick, control, sysvars, vars
<1>. QED
  BY <1>1, <1>2, <1>3, <1>4, <1>5, <1>6 DEF SysNext

LEMMA SysInvariant == SysSpec => []SysInv
<1>1. SysInit => SysInv
  BY TypeInvInit
  DEF SysInit, Init, SysInv, SysTypeOK, TypeInv, PodStates, BootHasAdmin, AdminReady,
      RequestsHavePods, Running, Serving
<1>2. SysInv /\ [SysNext]_sysvars => SysInv'
  <2>. SUFFICES ASSUME SysInv, [SysNext]_sysvars  PROVE SysInv'
    OBVIOUS
  <2>1. TypeOK' /\ RequestsSound'
    BY PodStepRefines, TypeInvStep DEF SysInv, SysTypeOK, TypeInv
  <2>. QED
    BY <2>1, PodStep, AdminReadyStep, RequestsHavePodsStep DEF SysInv, SysTypeOK
<1>. QED
  BY <1>1, <1>2, PTL DEF SysSpec

\* Pods that start, serve, drain and die implement the service: every theorem
\* about AuthService is one about the deployment.
THEOREM SystemImplementsService == SysSpec => ImplementsAuthService
<1>1. SysInit => Init
  BY DEF SysInit
<1>2. SysInv /\ [SysNext]_sysvars => [Next]_vars
  BY PodStepRefines
<1>. QED
  BY <1>1, <1>2, SysInvariant, PTL DEF SysSpec, Spec, ImplementsAuthService

\* Pods and the service in them keep their types, for any number of either.
THEOREM SystemTypeCorrect == SysSpec => []SysTypeOK
<1>1. SysInv => SysTypeOK
  BY DEF SysInv
<1>. QED
  BY <1>1, SysInvariant, PTL

\* A pod serves only while the administrator's account exists and is one.
THEOREM ServingPodsHaveAdmin == SysSpec => []AdminReady
<1>1. SysInv => AdminReady
  BY DEF SysInv
<1>. QED
  BY <1>1, SysInvariant, PTL

-----------------------------------------------------------------------------
(* The service's theorems, of the deployment. *)

\* Clients of any number of pods see the sessions the API promises, whichever
\* pods start, drain or die under them.
THEOREM DeploymentKeepsSessions == SysSpec => ImplementsSessions
BY SystemImplementsService, ServiceKeepsSessions DEF ImplementsAuthService

\* The window in which a spent token is usable closes also across pods.
THEOREM DeploymentSpendsTokens == SysSpec => SpentStaysSpent
BY SystemImplementsService, SpentTokensStaySpent DEF ImplementsAuthService

\* The limit on failed logins holds of the pods together.
THEOREM DeploymentBoundsFailures == SysSpec => []FailuresBounded
BY SystemImplementsService, FailuresStayBounded DEF ImplementsAuthService

\* What pods confirm to their clients, all pods keep to.
THEOREM DeploymentConfirmsOnce ==
    SysSpec => [](ConfirmedOnce /\ CreatedAccountHoldsPassword /\ RoleClaimCovered)
<1>1. Spec => [](ConfirmedOnce /\ CreatedAccountHoldsPassword /\ RoleClaimCovered)
  BY AccountsConfirmedOnce, ConfirmedAccountsHold, RoleClaimsCovered, PTL
<1>. QED
  BY <1>1, SystemImplementsService DEF ImplementsAuthService

-----------------------------------------------------------------------------
(* Start-ups that fail *)

LEMMA FailedBootStep ==
    ASSUME "error" \notin Faults, AdminPassword \notin Unhashable,
           SysInv, FailedBootsLeaveAccount, [SysNext]_sysvars
    PROVE  FailedBootsLeaveAccount'
<1>. USE DEF SysInv, SysTypeOK
<1>0. TypeInv /\ [Next]_vars
  BY PodStepRefines DEF TypeInv
<1>1. UsersKept /\ TablesTypeOK
  BY <1>0, UsersStep DEF TypeOK
<1>. SUFFICES ASSUME NEW p \in Pods, pod'[p] = "failed"
              PROVE  users'[AdminEmail] # NoRow
  BY DEF FailedBootsLeaveAccount
<1>2. CASE pod[p] = "failed"
  <2>1. AdminEmail \in Emails /\ users[AdminEmail] # NoRow
    BY <1>2 DEF BootHasAdmin, FailedBootsLeaveAccount
  <2>. QED
    BY <1>1, <2>1 DEF UsersKept
<1>3. CASE pod[p] # "failed"
  <2>1. BootCreate(p) \/ BootPromote(p)
    BY <1>3 DEF SysNext, SysStart, SysStep, SysTick, sysvars, Boot, PodStart, BootFind,
                BootCreate, BootPromote, PodTerm, PodDrained, ShutdownTimesOut, PodDies,
                BootFails, Become
  <2>2. AdminEmail \in Emails
    BY <2>1 DEF BootHasAdmin, BootCreate, BootPromote
  <2>3. CASE users[AdminEmail] # NoRow
    BY <1>1, <2>2, <2>3 DEF UsersKept
  <2>4. CASE CreateUser(AdminEmail, AdminPassword, "admin")
    BY <1>1, <2>2, <2>4, CreateUserKeeps, AdminAssumption DEF Roles
  <2>. QED
    BY <2>1, <2>3, <2>4
    DEF BootCreate, BootPromote, BootFails, BootstrapCreates, BootstrapPromotes
<1>. QED
  BY <1>2, <1>3

\* Unless a statement fails without effect or bcrypt refuses the configured
\* password, a failed start-up leaves the account that its successor will find.
THEOREM FailedBootsLeaveAccounts == SysSpec => []FailedBootsLeaveAccount
<1>1. CASE "error" \in Faults \/ AdminPassword \in Unhashable
  <2>1. FailedBootsLeaveAccount
    BY <1>1 DEF FailedBootsLeaveAccount
  <2>. QED
    BY <2>1, PTL
<1>2. CASE "error" \notin Faults /\ AdminPassword \notin Unhashable
  <2>1. SysInit => FailedBootsLeaveAccount
    BY DEF SysInit, FailedBootsLeaveAccount
  <2>2. SysInv /\ FailedBootsLeaveAccount /\ [SysNext]_sysvars => FailedBootsLeaveAccount'
    BY <1>2, FailedBootStep
  <2>. QED
    BY <2>1, <2>2, SysInvariant, PTL DEF SysSpec
<1>. QED
  BY <1>1, <1>2

\* A look-up of the administrator that nobody overtakes.
Unrivalled(p) == /\ pod[p] # "failed"
                 /\ pod[p] = "create" => users[AdminEmail] = NoRow

LEMMA UnrivalledStep ==
    ASSUME \A p, q \in Pods : p = q, Faults \subseteq {"crash"},
           AdminPassword \notin Unhashable, SysInv, NEW p \in Pods, Unrivalled(p), [SysNext]_sysvars
    PROVE  Unrivalled(p)'
<1>. USE HostAssumption DEF SysInv, SysTypeOK
<1>1. CASE Boot(p)
  BY <1>1 DEF Boot, PodStart, BootFind, BootCreate, BootPromote, BootFails, Become,
              FindUser, vars, tables, Unrivalled
<1>2. CASE PodTerm(p) \/ PodDrained(p) \/ ShutdownTimesOut(p) \/ PodDies(p)
  <2>1. pod'[p] \in {"draining", "down"}
    BY <1>2 DEF PodTerm, PodDrained, ShutdownTimesOut, PodDies, Become
  <2>. QED
    BY <2>1 DEF Unrivalled
<1>3. ASSUME NEW r \in Reqs, SysStart(r)
      PROVE  Unrivalled(p)'
  <2>1. UNCHANGED <<users, pod>>
    BY <1>3 DEF SysStart, Start, StartRegister, StartLogin, StartRefresh, StartLogout,
                Arrive, tables
  <2>. QED
    BY <2>1 DEF Unrivalled
<1>4. ASSUME NEW r \in Reqs, SysStep(r)
      PROVE  Unrivalled(p)'
  <2>1. pc[r] # "idle" /\ UNCHANGED pod
    BY <1>4
    DEF SysStep, Step, RegisterFind, RegisterCreate, LoginCount, LoginFind, LoginFail,
        LoginOK, Issue, RefreshFind, RefreshUser, RefreshRevoke, LogoutFind, LogoutRevoke
  <2>2. Host[r] = p
    OBVIOUS
  <2>3. pod[p] # "create"
    BY <2>1, <2>2 DEF RequestsHavePods, Running, Serving
  <2>. QED
    BY <2>1, <2>3 DEF Unrivalled
<1>5. CASE SysTick \/ UNCHANGED sysvars
  BY <1>5 DEF SysTick, Tick, sysvars, vars, tables, Unrivalled
<1>. QED
  BY <1>1, <1>2, <1>3, <1>4, <1>5 DEF SysNext

\* The bootstrap of a pod that is alone is as safe as bootstrap.go says: with a
\* database that answers and a password that bcrypt takes it never ends the process,
\* however often it is repeated.
THEOREM LonePodBootsSafely ==
    ASSUME \A p, q \in Pods : p = q, Faults \subseteq {"crash"},
           AdminPassword \notin Unhashable
    PROVE  SysSpec => []BootstrapSafe
<1>. DEFINE Alone == \A p \in Pods : Unrivalled(p)
<1>1. SysInit => Alone
  BY DEF SysInit, Unrivalled
<1>2. SysInv /\ Alone /\ [SysNext]_sysvars => Alone'
  BY UnrivalledStep
<1>3. Alone => BootstrapSafe
  BY DEF Unrivalled, BootstrapSafe
<1>. QED
  BY <1>1, <1>2, <1>3, SysInvariant, PTL DEF SysSpec
=============================================================================
