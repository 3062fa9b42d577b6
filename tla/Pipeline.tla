------------------------------- MODULE Pipeline -------------------------------
(***************************************************************************)
(* .github/workflows/build-and-deploy.yml for the pushes to one branch: the *)
(* jobs build, migrate and deploy of each, with their concurrency groups,   *)
(* and the Kubernetes Job auth-migrate, whose container is golang-migrate.  *)
(* Pushes run concurrently; they share the groups, the Job's name, the      *)
(* version table of the database and the objects in the namespace.  A job    *)
(* that has ended can be run again.                                          *)
(***************************************************************************)
EXTENDS Integers

CONSTANTS
    Pushes,   \* bound: how many pushes follow the initial deployment, number 0
    Needs,    \* the last migration in each commit's migrations/
    MaxRuns,  \* bound: how often the workflow runs, for a push or again
    Nobody,   \* the absence of a migrator
    Mishaps   \* what may go wrong: "build", "runner", "slow", "sql", "kill"

Commits == 0 .. Pushes

ASSUME PushesAssumption == Pushes \in Nat
ASSUME NeedsAssumption == Needs \in [Commits -> Nat]
ASSUME RunsAssumption == MaxRuns \in Nat
ASSUME MishapsAssumption == Mishaps \subseteq {"build", "runner", "slow", "sql", "kill"}
ASSUME NobodyAssumption == Nobody \notin Commits

\* A run of the workflow ends with the deployment, or with the job that failed or
\* was cancelled.
Ended == {"buildFailed", "migrateEnded", "deployEnded", "deployed"}
Stages == {"unpushed", "building", "migratePending", "prerequisites", "waiting",
           "migrated", "deployPending", "deploying"} \cup Ended
Migrators == {"none", "start", "read", "next", "file", "done", "failed"}

VARIABLES
    stage,     \* how far the workflow of each push has come
    runs,      \* how often the workflow was run
    migrator,  \* the container of each push's migrate Job
    at,        \* the version each migrator believes the database has come to
    job,       \* the push whose Job is called auth-migrate, if there is one
    lock,      \* the advisory lock of golang-migrate
    table,     \* its table: the version and whether a file was left unfinished
    schema,    \* history: the last migration the database really has
    config,    \* the commit whose ConfigMap is in force
    manifest   \* the commit whose image the Deployment names

database == <<lock, table, schema>>
objects == <<config, manifest>>
migrators == <<migrator, at>>
workflows == <<stage, runs>>
pipeline == <<workflows, job, migrators, database, objects>>

PipelineTypeOK ==
    /\ stage \in [Commits -> Stages]
    /\ runs \in 0 .. MaxRuns
    /\ migrator \in [Commits -> Migrators]
    /\ at \in [Commits -> Nat]
    /\ job \in Commits \cup {Nobody}
    /\ lock \in Commits \cup {Nobody}
    /\ table \in [version : UNION {0 .. Needs[c] : c \in Commits}, dirty : BOOLEAN]
    /\ schema \in Nat
    /\ config \in Commits /\ manifest \in Commits

PipelineInit ==
    /\ stage = [c \in Commits |-> IF c = 0 THEN "deployed" ELSE "unpushed"]
    /\ runs = 0
    /\ migrator = [c \in Commits |-> IF c = 0 THEN "done" ELSE "none"]
    /\ at = [c \in Commits |-> Needs[0]]
    /\ job = 0
    /\ lock = Nobody
    /\ table = [version |-> Needs[0], dirty |-> FALSE]
    /\ schema = Needs[0]
    /\ config = 0 /\ manifest = 0

-----------------------------------------------------------------------------
(* The workflow *)

Advance(c, s) == stage' = [stage EXCEPT ![c] = s]

\* A concurrency group holds one job that waits: a later one cancels it ...
Cancelled(pending) == IF pending = "migratePending" THEN "migrateEnded" ELSE "deployEnded"

Enter(c, pending) ==
    stage' = [d \in Commits |-> IF d = c THEN pending
                                ELSE IF stage[d] = pending THEN Cancelled(pending)
                                ELSE stage[d]]

\* ... and one job that runs, which is never interrupted.
GroupFree(running) == \A d \in Commits : stage[d] \notin running

Push(c) ==
    /\ stage[c] = "unpushed" /\ stage[c - 1] # "unpushed"
    /\ Advance(c, "building")
    /\ runs < MaxRuns /\ runs' = runs + 1
    /\ UNCHANGED <<job, migrators, database, objects>>

\* The jobs test and build of two pushes finish in any order.
Build(c) ==
    /\ stage[c] = "building"
    /\ Enter(c, "migratePending") \/ ("build" \in Mishaps /\ Advance(c, "buildFailed"))
    /\ UNCHANGED <<runs, job, migrators, database, objects>>

\* "Apply migration prerequisites": the ConfigMap of this commit is in force
\* before its migrations and its image.
MigrateStarts(c) ==
    /\ stage[c] = "migratePending"
    /\ GroupFree({"prerequisites", "waiting"})
    /\ Advance(c, "prerequisites")
    /\ config' = c
    /\ UNCHANGED <<runs, job, migrators, database, manifest>>

\* Variation: the Job forces the next version, to get past a file that failed.
JobForcing(c) ==
    /\ stage[c] = "prerequisites"
    /\ Advance(c, "waiting")
    /\ job' = c
    /\ migrator' = [migrator EXCEPT ![c] = "start"]
    /\ table' = [version |-> table.version + 1, dirty |-> FALSE]
    /\ UNCHANGED <<runs, at, lock, schema, objects>>

Migrates(c) == migrator[c] \in {"start", "read", "next", "file"}

\* "Run migrations": the Job called auth-migrate is deleted and this one created.
\* Of two containers of one commit the second comes when the first is gone.
JobCreated(c) ==
    /\ stage[c] = "prerequisites"
    /\ ~Migrates(c)
    /\ Advance(c, "waiting")
    /\ job' = c
    /\ migrator' = [migrator EXCEPT ![c] = "start"]
    /\ UNCHANGED <<runs, at, database, objects>>

\* Variation: the end of the Job, not its success, is waited for.
JobEnds(c) ==
    /\ stage[c] = "waiting" /\ migrator[c] \in {"done", "failed"}
    /\ Advance(c, "migrated")
    /\ UNCHANGED <<runs, job, migrators, database, objects>>

JobComplete(c) ==
    /\ stage[c] = "waiting" /\ migrator[c] = "done"
    /\ Advance(c, "migrated")
    /\ UNCHANGED <<runs, job, migrators, database, objects>>

\* Variation: a Job that failed is waited for without end.
WaitForever(c) ==
    /\ stage[c] = "waiting" /\ migrator[c] # "done" /\ migrator[c] # "failed"
    /\ "slow" \in Mishaps
    /\ Advance(c, "migrateEnded")
    /\ UNCHANGED <<runs, job, migrators, database, objects>>

\* kubectl wait gives up on a Job that is not complete after 5 minutes, failed
\* or not.  The Job goes on.
WaitTimesOut(c) ==
    /\ stage[c] = "waiting"
    /\ migrator[c] = "failed" \/ (migrator[c] # "done" /\ "slow" \in Mishaps)
    /\ Advance(c, "migrateEnded")
    /\ UNCHANGED <<runs, job, migrators, database, objects>>

\* The job deploy needs migrate: it enters its own group when that has ended well.
DeployQueued(c) ==
    /\ stage[c] = "migrated"
    /\ Enter(c, "deployPending")
    /\ UNCHANGED <<runs, job, migrators, database, objects>>

DeployStarts(c) ==
    /\ stage[c] = "deployPending"
    /\ GroupFree({"deploying"})
    /\ Advance(c, "deploying")
    /\ UNCHANGED <<runs, job, migrators, database, objects>>

\* Variation: the manifest names the image by the tag latest, whoever built it.
LatestApplied(c) ==
    /\ stage[c] = "deploying"
    /\ Advance(c, "deployed")
    /\ config' = c
    /\ manifest' \in {d \in Commits : stage[d] \notin {"unpushed", "building", "buildFailed"}}
    /\ UNCHANGED <<runs, job, migrators, database>>

\* kubectl apply -f k8s/production/: the ConfigMap, then the Deployment.
ManifestsApplied(c) ==
    /\ stage[c] = "deploying"
    /\ Advance(c, "deployed")
    /\ config' = c /\ manifest' = c
    /\ UNCHANGED <<runs, job, migrators, database>>

\* A step of a running job fails, or its runner dies: before the ConfigMap is
\* applied, between the deletion of a Job and the creation of the next, while the
\* Job is waited for or its logs are fetched, or with any part of k8s/production
\* applied, since kubectl apply goes on past an error.
JobFails(c) ==
    /\ "runner" \in Mishaps
    /\ \/ /\ stage[c] = "migratePending" /\ GroupFree({"prerequisites", "waiting"})
          /\ Advance(c, "migrateEnded")
          /\ UNCHANGED <<job, objects>>
       \/ /\ stage[c] = "prerequisites" /\ Advance(c, "migrateEnded")
          /\ job' \in {job, Nobody}
          /\ UNCHANGED objects
       \/ /\ stage[c] = "waiting" /\ Advance(c, "migrateEnded")
          /\ UNCHANGED <<job, objects>>
       \/ /\ stage[c] = "deploying" /\ Advance(c, "deployEnded")
          /\ config' \in {config, c} /\ manifest' \in {manifest, c}
          /\ UNCHANGED job
    /\ UNCHANGED <<runs, migrators, database>>

\* "so a deploy retry doesn't rebuild" (README.md:378): a run that has ended is
\* run again from its build, from migrate once there is an image, or from deploy
\* once its migrations ran, whatever was pushed and deployed since.  An image is
\* its commit's, however often it is built.
Rerun(c) ==
    /\ stage[c] \in Ended
    /\ runs < MaxRuns /\ runs' = runs + 1
    /\ \/ Advance(c, "building")
       \/ stage[c] # "buildFailed" /\ Enter(c, "migratePending")
       \/ stage[c] \in {"deployEnded", "deployed"} /\ Enter(c, "deployPending")
    /\ UNCHANGED <<job, migrators, database, objects>>

-----------------------------------------------------------------------------
(* golang-migrate up *)

Becomes(c, m) == migrator' = [migrator EXCEPT ![c] = m]

\* Postgres grants the advisory lock, or the migrator gives up after 15 s.
Locks(c) ==
    /\ migrator[c] = "start"
    /\ \/ lock = Nobody /\ lock' = c /\ Becomes(c, "read")
       \/ lock # Nobody /\ Becomes(c, "failed") /\ UNCHANGED lock
    /\ UNCHANGED <<workflows, at, job, table, schema, objects>>

Ends(c, m) == Becomes(c, m) /\ lock' = Nobody

\* The version is read once.  It is an error if a file was left unfinished or
\* the version is none of the commit's files.
Reads(c) ==
    /\ migrator[c] = "read"
    /\ \/ /\ ~table.dirty /\ table.version <= Needs[c]
          /\ at' = [at EXCEPT ![c] = table.version]
          /\ Becomes(c, "next")
          /\ UNCHANGED lock
       \/ /\ table.dirty \/ table.version > Needs[c]
          /\ Ends(c, "failed")
          /\ UNCHANGED at
    /\ UNCHANGED <<workflows, job, table, schema, objects>>

\* The next file is noted as unfinished before it runs.
Begins(c) ==
    /\ migrator[c] = "next"
    /\ at[c] < Needs[c]
    /\ at' = [at EXCEPT ![c] = @ + 1]
    /\ table' = [version |-> at[c] + 1, dirty |-> TRUE]
    /\ Becomes(c, "file")
    /\ UNCHANGED <<workflows, job, lock, schema, objects>>

\* No file is left, or there was "no change".
Finishes(c) ==
    /\ migrator[c] = "next"
    /\ at[c] >= Needs[c]
    /\ Ends(c, "done")
    /\ UNCHANGED <<workflows, at, job, table, schema, objects>>

\* A file is one implicit transaction; noting that it is finished is another.
FileDone(c) ==
    /\ migrator[c] = "file"
    /\ schema' = at[c]
    /\ table' = [version |-> at[c], dirty |-> FALSE]
    /\ Becomes(c, "next")
    /\ UNCHANGED <<workflows, at, job, lock, objects>>

FileFails(c) ==
    /\ "sql" \in Mishaps
    /\ migrator[c] = "file"
    /\ Ends(c, "failed")
    /\ UNCHANGED <<workflows, at, job, table, schema, objects>>

\* The container dies, at the latest when its Job is deleted: its session ends,
\* with the file it was running committed or not.
MigratorDies(c) ==
    /\ Migrates(c)
    /\ job # c \/ "kill" \in Mishaps
    /\ Becomes(c, "failed")
    /\ lock' = IF lock = c THEN Nobody ELSE lock
    /\ \/ UNCHANGED schema
       \/ migrator[c] = "file" /\ schema' = at[c]
    /\ UNCHANGED <<workflows, at, job, table, objects>>

-----------------------------------------------------------------------------
Workflow(c) ==
    \/ Build(c) \/ MigrateStarts(c) \/ JobCreated(c) \/ JobComplete(c) \/ WaitTimesOut(c)
    \/ DeployQueued(c) \/ DeployStarts(c) \/ ManifestsApplied(c)

Migration(c) == Locks(c) \/ Reads(c) \/ Begins(c) \/ FileDone(c) \/ Finishes(c)

PushStep(c) ==
    \/ Workflow(c) \/ JobFails(c) \/ Rerun(c)
    \/ Migration(c) \/ FileFails(c) \/ MigratorDies(c)

-----------------------------------------------------------------------------
\* The version table tells the truth, whichever migrators outlive their Job, die
\* or run beside one another: a clean version is the schema, and an unfinished
\* file leaves it at most one migration ahead of what the database has.
TableTellsSchema ==
    /\ ~table.dirty => schema = table.version
    /\ schema <= table.version /\ table.version <= schema + 1

\* "two rapid pushes serialize cleanly" (README.md:408): the workflow of every
\* push comes to an end, and so does each job of it that is run again.
PushesEnd == \A c \in Commits : stage[c] # "unpushed" ~> stage[c] \in Ended
=============================================================================
