------------------------------- MODULE Rollout -------------------------------
(***************************************************************************)
(* The production Deployment (k8s/production/deployment.yaml) under the     *)
(* pipeline: replicas 1, the default rolling update, the probes /livez and  *)
(* /readyz of internal/router, and the start of cmd/api/main.go up to the   *)
(* point where the process listens.                                         *)
(*                                                                          *)
(* A pod is known by its commit's image; of two pods with one image, as when *)
(* a Deployment returns to an image that is still draining, the second       *)
(* comes when the first is gone.                                            *)
(***************************************************************************)
EXTENDS Pipeline, Config, FiniteSets

CONSTANT MaxLosses  \* bound: how many pods are lost while they run

ASSUME LossesAssumption == MaxLosses \in Nat

PodStates == {"none", "start", "live", "ready", "draining"}
Flaws == {"none", "image", "config"}

VARIABLES
    pod,        \* the pod of each image
    flaw,       \* what is wrong with each commit, settled by its build
    reachable,  \* whether Postgres and Redis answer, both
    losses      \* how many pods were lost so far

rollout == <<pod, flaw, reachable, losses>>
delivery == <<pipeline, rollout>>

RolloutTypeOK ==
    /\ PipelineTypeOK
    /\ pod \in [Commits -> PodStates]
    /\ flaw \in [Commits -> Flaws]
    /\ reachable \in BOOLEAN
    /\ losses \in 0 .. MaxLosses

RolloutInit ==
    /\ PipelineInit
    /\ pod = [c \in Commits |-> IF c = 0 THEN "ready" ELSE "none"]
    /\ flaw = [c \in Commits |-> "none"]
    /\ reachable = TRUE
    /\ losses = 0

-----------------------------------------------------------------------------
(* The process *)

ConfigMap == IF flaw[config] = "config" THEN Faulty(Production) ELSE Production

PodBecomes(c, state) == pod' = [pod EXCEPT ![c] = state]

\* database.New and redis.New ping what they connect to.  A start needs both and
\* /readyz asks both, so which of them does not answer makes no difference.
OpensDatabase(cfg) == DSN(cfg) /\ reachable
OpensRedis(cfg) == Addr(cfg) /\ reachable

\* main up to server.Run.  Where a step fails the process exits, and where the
\* liveness probe asks another port it is killed: it is restarted until all
\* succeed.
Boot(c) ==
    /\ pod[c] = "start"
    /\ flaw[c] # "image"
    /\ LET cfg == Load(Environment(ConfigMap))
       IN  cfg # NoConfig /\ OpensDatabase(cfg) /\ OpensRedis(cfg) /\ Listens(cfg)
    /\ PodBecomes(c, "live")
    /\ UNCHANGED <<pipeline, flaw, reachable, losses>>

\* /readyz pings both.
Readyz == reachable

\* The kubelet's readiness probe: one success, or three failures in a row.
Probed(c) ==
    /\ \/ pod[c] = "live" /\ Readyz /\ PodBecomes(c, "ready")
       \/ pod[c] = "ready" /\ ~Readyz /\ PodBecomes(c, "live")
    /\ UNCHANGED <<pipeline, flaw, reachable, losses>>

-----------------------------------------------------------------------------
(* The Deployment's controller: one pod, one more during a rollout *)

Active == {c \in Commits : pod[c] \notin {"none", "draining"}}

ScaleUp ==
    /\ pod[manifest] = "none"
    /\ Cardinality(Active) < 2
    /\ PodBecomes(manifest, "start")
    /\ UNCHANGED <<pipeline, flaw, reachable, losses>>

\* Variation: the strategy is Recreate.
ScaleDownFirst(c) ==
    /\ c \in Active /\ c # manifest
    /\ PodBecomes(c, "draining")
    /\ UNCHANGED <<pipeline, flaw, reachable, losses>>

\* A pod of an earlier image goes when the new one is ready; one that is not
\* ready also goes to make room for the new one.
ScaleDown(c) ==
    /\ c \in Active /\ c # manifest
    /\ \/ pod[manifest] = "ready"
       \/ pod[c] # "ready" /\ manifest \notin Active /\ Cardinality(Active) >= 2
    /\ PodBecomes(c, "draining")
    /\ UNCHANGED <<pipeline, flaw, reachable, losses>>

\* SIGTERM has been handled, by internal/server or by the kill after 30 s.
Drained(c) ==
    /\ pod[c] = "draining"
    /\ PodBecomes(c, "none")
    /\ UNCHANGED <<pipeline, flaw, reachable, losses>>

\* A pod goes down with its node, for using more memory than its limit, by its
\* liveness probe or because the process ends; it is started anew.
PodLost(c) ==
    /\ losses < MaxLosses
    /\ c \in Active
    /\ PodBecomes(c, "start")
    /\ losses' = losses + 1
    /\ UNCHANGED <<pipeline, flaw, reachable>>

\* Postgres or Redis stops answering, or both answer again.
Outage ==
    /\ reachable' = ~reachable
    /\ UNCHANGED <<pipeline, pod, flaw, losses>>

-----------------------------------------------------------------------------
\* What is pushed may have an image that does not start, or a faulty ConfigMap.
RolloutPush(c) ==
    /\ Push(c)
    /\ \E f \in Flaws : flaw' = [flaw EXCEPT ![c] = f]
    /\ UNCHANGED <<pod, reachable, losses>>

RolloutStep(c) == PushStep(c) /\ UNCHANGED rollout

Kubelet(c) == Boot(c) \/ Probed(c) \/ Drained(c)

Controller == ScaleUp \/ \E c \in Commits : ScaleDown(c)

RolloutNext ==
    \/ \E c \in Commits \ {0} : RolloutPush(c)
    \/ \E c \in Commits : RolloutStep(c) \/ Kubelet(c) \/ PodLost(c)
    \/ Controller
    \/ Outage

RolloutFairness ==
    /\ \A c \in Commits :
          /\ WF_delivery(Workflow(c) /\ UNCHANGED rollout)
          /\ WF_delivery(Migration(c) /\ UNCHANGED rollout)
          /\ WF_delivery(Kubelet(c))
    /\ WF_delivery(Controller)

RolloutSpec == RolloutInit /\ [][RolloutNext]_delivery /\ RolloutFairness

-----------------------------------------------------------------------------
Endpoints == {c \in Commits : pod[c] = "ready"}

Installed == {c \in Commits : pod[c] # "none"}

\* Seen from the database, pushes, migrators and pods are one release after
\* another: whatever runs beside it, dies or is retried, a step is one migration
\* forward, a deployment behind its migrations, of the newest push or again of an
\* earlier one, or pods of it that come or of another one that go.
Releases == INSTANCE Release WITH
                deployed <- Needs[manifest],
                running <- {Needs[c] : c \in Installed}

ImplementsRelease == Releases!ReleaseSpec

\* No pod runs ahead of its schema: whatever order builds, migrations and
\* deployments of several pushes end in, and whichever jobs are run again, the
\* migrations of an image are in the database before a pod of it is, and stay there.
SchemaCoversPods == \A c \in Commits : pod[c] # "none" => Needs[c] <= schema

\* One broken release does not keep the service down, whatever outages, lost pods,
\* failed workflows and repeated jobs it meets: once the dependencies answer for good and
\* the ConfigMap in force is usable, there is an endpoint for good.  Two broken
\* releases can, since a pod an outage made unready goes to make room for the
\* second; and so can a faulty ConfigMap, which pods that start read at once.
Calm == /\ reachable
        /\ Usable(ConfigMap)
        /\ Cardinality({c \in Commits : flaw[c] = "image"}) <= 1

EndpointsReturn == <>[]Calm => <>[](Endpoints # {})
=============================================================================
