----------------------------- MODULE AuthSystem -----------------------------
(***************************************************************************)
(* The deployment around AuthService: pods that start (cmd/api/main.go),    *)
(* make sure of the administrator's account (internal/bootstrap), serve     *)
(* requests, and stop (internal/server) or die.  Pods share the database    *)
(* only, so the bootstraps of two pods interleave with each other and with  *)
(* the registrations another pod is already serving.                        *)
(***************************************************************************)
EXTENDS AuthProperties

CONSTANTS
    Pods,
    Host    \* the pod each request slot belongs to

ASSUME HostAssumption == Host \in [Reqs -> Pods]

VARIABLE pod  \* how far each pod has come

sysvars == <<vars, pod>>

\* A pod whose environment names no administrator serves "unseeded".
Serving == {"serving", "unseeded"}
Running == Serving \cup {"draining"}
PodStates == Running \cup {"down", "find", "create", "promote", "failed"}

SysTypeOK == TypeOK /\ pod \in [Pods -> PodStates]

SysInit == Init /\ pod = [p \in Pods |-> "down"]

RequestsOf(p) == {r \in Reqs : Host[r] = p}

Become(p, state) == pod' = [pod EXCEPT ![p] = state]

-----------------------------------------------------------------------------
(* Start-up *)

\* The process is (re)started and reads its environment, which may have been
\* edited since other pods read theirs; an unset admin email skips the bootstrap.
PodStart(p) ==
    /\ pod[p] \in {"down", "failed"}
    /\ \/ AdminEmail \in Emails /\ Become(p, "find")
       \/ Become(p, "unseeded")
    /\ UNCHANGED vars

\* Any error of EnsureAdmin ends the process with exit code 1.
BootFails(p) == "error" \in Faults /\ Become(p, "failed")

\* Variation: the account is created without a look at what is there.
BootFindNothing(p) ==
    /\ pod[p] = "find"
    /\ Become(p, "create") \/ BootFails(p)
    /\ UNCHANGED vars

\* Variation: any account at the address is taken for the administrator.
BootFindAny(p) ==
    /\ pod[p] = "find"
    /\ \/ FindUser(AdminEmail) # NoRow /\ Become(p, "serving")
       \/ FindUser(AdminEmail) = NoRow /\ Become(p, "create")
       \/ BootFails(p)
    /\ UNCHANGED vars

\* Variation: an administrator that is not found is an error like any other.
BootFindStrict(p) ==
    /\ pod[p] = "find"
    /\ \/ /\ FindUser(AdminEmail) # NoRow
          /\ Become(p, IF FindUser(AdminEmail).role = "admin"
                       THEN "serving" ELSE "promote")
       \/ FindUser(AdminEmail) = NoRow /\ Become(p, "failed")
       \/ BootFails(p)
    /\ UNCHANGED vars

\* A new account's password is hashed before the INSERT.
BootFind(p) ==
    /\ pod[p] = "find"
    /\ \/ /\ FindUser(AdminEmail) # NoRow
          /\ Become(p, IF FindUser(AdminEmail).role = "admin"
                       THEN "serving" ELSE "promote")
       \/ /\ FindUser(AdminEmail) = NoRow
          /\ Become(p, IF AdminPassword \in Unhashable THEN "failed" ELSE "create")
       \/ BootFails(p)
    /\ UNCHANGED vars

BootCreate(p) ==
    /\ pod[p] = "create"
    /\ \/ /\ BootstrapCreates(AdminEmail)
          /\ Become(p, "serving") \/ ("lostAck" \in Faults /\ Become(p, "failed"))
       \/ /\ users[AdminEmail] # NoRow  \* lost the race for the UNIQUE email
          /\ Become(p, "failed")
          /\ UNCHANGED vars
       \/ BootFails(p) /\ UNCHANGED vars

\* Variation: promoting an account also sets the configured password.
BootPromoteResets(p) ==
    /\ pod[p] = "promote"
    /\ users' = [users EXCEPT ![AdminEmail] = [pw |-> AdminPassword, role |-> "admin"]]
    /\ Become(p, "serving")
    /\ UNCHANGED <<refreshTokens, loginAttempts, control, params, held, lineage>>

BootPromote(p) ==
    /\ pod[p] = "promote"
    /\ \/ /\ BootstrapPromotes(AdminEmail)
          /\ Become(p, "serving") \/ ("lostAck" \in Faults /\ Become(p, "failed"))
       \/ BootFails(p) /\ UNCHANGED vars

-----------------------------------------------------------------------------
(* Serving and stopping *)

SysStart(r) == pod[Host[r]] \in Serving /\ Start(r) /\ UNCHANGED pod

SysStep(r) == Step(r) /\ UNCHANGED pod

\* After SIGTERM the listener is closed and what is in flight goes on.  Left out:
\* the first request of a connection that was accepted just before.
PodTerm(p) == pod[p] \in Serving /\ Become(p, "draining") /\ UNCHANGED vars

\* Shutdown returns when the last request is answered, if that is within 10 s.
PodDrained(p) ==
    /\ pod[p] = "draining"
    /\ \A r \in RequestsOf(p) : pc[r] = "idle"
    /\ Become(p, "down")
    /\ UNCHANGED vars

\* The 10 s of Shutdown are over: Run returns an error, main exits with status 1,
\* and the requests that were not through are lost.
ShutdownTimesOut(p) ==
    /\ pod[p] = "draining"
    /\ \E r \in RequestsOf(p) : pc[r] # "idle"
    /\ Become(p, "down")
    /\ Crash(RequestsOf(p))

\* The process is killed, in its bootstrap or later: the requests are lost.
PodDies(p) ==
    /\ pod[p] \in PodStates \ {"down", "failed"}
    /\ Become(p, "down")
    /\ Crash(RequestsOf(p))

SysTick == Tick /\ UNCHANGED pod

-----------------------------------------------------------------------------
Boot(p) == PodStart(p) \/ BootFind(p) \/ BootCreate(p) \/ BootPromote(p)

SysNext ==
    \/ \E r \in Reqs : SysStart(r) \/ SysStep(r)
    \/ \E p \in Pods : Boot(p) \/ PodTerm(p) \/ PodDrained(p)
                        \/ ShutdownTimesOut(p) \/ PodDies(p)
    \/ SysTick

SysSpec == SysInit /\ [][SysNext]_sysvars

\* Kubernetes restarts what has exited, and every live process is scheduled.
SysFairness ==
    /\ WF_sysvars(SysTick)
    /\ \A r \in Reqs : WF_sysvars(SysStep(r))
    /\ \A p \in Pods : WF_sysvars(Boot(p)) /\ WF_sysvars(PodDrained(p))

SysFairSpec == SysSpec /\ SysFairness

-----------------------------------------------------------------------------
\* Whatever pods do, the service in them is AuthService: a bootstrap changes no
\* more than AuthService's environment may, and a pod's death is its Crash.
ImplementsAuthService == Spec

\* A pod that was told of an administrator serves only while there is one, also
\* when another pod, or a registration of the same address, came in between the
\* bootstrap's look-up and its write.
AdminReady ==
    \A p \in Pods : pod[p] = "serving" =>
        /\ users[AdminEmail] # NoRow
        /\ users[AdminEmail].role = "admin"

\* Requests are those of running pods, which is what SysStart, PodDrained and a
\* lost pod make of it; the inductive invariant needs it.
RequestsHavePods == \A r \in Reqs : pc[r] # "idle" => pod[Host[r]] \in Running

\* A pod that bootstraps, or has done so, has an address to bootstrap.
BootHasAdmin ==
    \A p \in Pods :
        pod[p] \in {"find", "create", "promote", "failed", "serving"}
            => AdminEmail \in Emails

\* Where every statement takes effect and the configured password is one bcrypt
\* takes, a start-up that fails leaves the account it was to make: whoever won the
\* race made it, so the next one gets through.
FailedBootsLeaveAccount ==
    "error" \notin Faults /\ AdminPassword \notin Unhashable =>
        \A p \in Pods : pod[p] = "failed" => users[AdminEmail] # NoRow

\* The inductive invariant, over TypeOK and RequestsSound of the service.
SysInv == SysTypeOK /\ RequestsSound /\ BootHasAdmin /\ AdminReady /\ RequestsHavePods

\* Where nothing fails for good, a pod that is down comes up, even if its first
\* bootstrap lost a race, and one that drains is through with it.
PodsComeUp == \A p \in Pods : pod[p] \notin Serving ~> pod[p] \in Serving

\* EnsureAdmin "is idempotent: safe to run on every startup" (bootstrap.go:35):
\* with a database that answers, no pod exits because of it.
BootstrapSafe == \A p \in Pods : pod[p] # "failed"
=============================================================================
