---------------------------- MODULE DeliveryProofs ----------------------------
(***************************************************************************)
(* For every number of pushes and runs, whatever migrations they bring,      *)
(* whichever jobs are run again and whatever goes wrong: the version table   *)
(* is true, no pod runs ahead of its schema, and a push goes on until it     *)
(* ends.                                                                     *)
(***************************************************************************)
EXTENDS Rollout, TLAPS

\* One migrator at a time holds the lock, and what it believes is so.
MigratorSound(c) ==
    /\ migrator[c] \in {"read", "next", "file"} => lock = c
    /\ migrator[c] \in {"next", "file"} => at[c] = table.version /\ at[c] <= Needs[c]
    /\ migrator[c] = "next" => ~table.dirty
    /\ migrator[c] = "done" => Needs[c] <= schema

\* What has its migrations in the database, and so may be deployed, now or again.
Migrated == {"migrated", "deployPending", "deploying", "deployEnded", "deployed"}

MigrationInv ==
    /\ PipelineTypeOK
    /\ TableTellsSchema
    /\ \A c \in Commits : MigratorSound(c)
    /\ \A c \in Commits : stage[c] \in Migrated => Needs[c] <= schema
    /\ Needs[manifest] <= schema

LEMMA CommitsAre == /\ Commits \subseteq Nat /\ 0 \in Commits
                    /\ \A c \in Commits : Needs[c] \in Nat
BY PushesAssumption, NeedsAssumption DEF Commits

LEMMA VersionNat == ASSUME PipelineTypeOK PROVE table.version \in Nat
BY CommitsAre DEF PipelineTypeOK

LEMMA MigrationInvInit == PipelineInit => MigrationInv
<1>. SUFFICES ASSUME PipelineInit PROVE MigrationInv
    OBVIOUS
<1>1. Needs[0] \in 0 .. Needs[0] /\ Needs[0] \in Nat
    BY CommitsAre
<1>2. table.version \in UNION {0 .. Needs[c] : c \in Commits}
    BY <1>1, CommitsAre DEF PipelineInit
<1>3. PipelineTypeOK
    BY <1>1, <1>2, CommitsAre, RunsAssumption
    DEF PipelineInit, PipelineTypeOK, Stages, Ended, Migrators
<1>4. TableTellsSchema
    BY <1>1 DEF PipelineInit, TableTellsSchema
<1>5. \A c \in Commits : MigratorSound(c)
    BY <1>1 DEF PipelineInit, MigratorSound
<1>6. \A c \in Commits : stage[c] \in Migrated => Needs[c] <= schema
    BY <1>1 DEF PipelineInit, Migrated
<1>. QED BY <1>1, <1>3, <1>4, <1>5, <1>6 DEF MigrationInv, PipelineInit

-----------------------------------------------------------------------------
(* The workflow *)

\* A step that leaves the database and the migrators alone, and sends no commit
\* to the deploy job whose migrations are not there.
LEMMA WorkflowKeepsInv ==
    ASSUME MigrationInv, UNCHANGED <<migrators, database>>,
           stage' \in [Commits -> Stages],
           runs' \in 0 .. MaxRuns,
           job' \in Commits \cup {Nobody}, config' \in Commits, manifest' \in Commits,
           \A c \in Commits : stage'[c] \in Migrated => Needs[c] <= schema,
           Needs[manifest'] <= schema
    PROVE  MigrationInv'
<1>1. PipelineTypeOK'
    BY DEF MigrationInv, PipelineTypeOK, migrators, database
<1>2. TableTellsSchema'
    BY DEF MigrationInv, TableTellsSchema, database
<1>3. \A c \in Commits : MigratorSound(c)'
    BY DEF MigrationInv, MigratorSound, migrators, database
<1>. QED BY <1>1, <1>2, <1>3 DEF MigrationInv, database

LEMMA PushKeepsInv ==
    ASSUME MigrationInv, NEW c \in Commits, Push(c)
    PROVE  MigrationInv'
<1>1. stage' \in [Commits -> Stages] /\ \A d \in Commits : stage'[d] \in Migrated => stage[d] \in Migrated
    BY DEF Push, Advance, MigrationInv, PipelineTypeOK, Stages, Migrated
<1>2. runs' \in 0 .. MaxRuns
    BY RunsAssumption DEF Push, MigrationInv, PipelineTypeOK
<1>. QED BY <1>1, <1>2, WorkflowKeepsInv DEF Push, MigrationInv, PipelineTypeOK, objects

LEMMA WorkflowStepKeepsInv ==
    ASSUME MigrationInv, NEW c \in Commits, Workflow(c) \/ JobFails(c) \/ Rerun(c)
    PROVE  MigrationInv'
<1>. DEFINE NobodyGoesOn == /\ stage' \in [Commits -> Stages]
                            /\ \A d \in Commits : stage'[d] \in Migrated => stage[d] \in Migrated
<1>. USE DEF Migrated, Cancelled
<1>0. PipelineTypeOK
    BY DEF MigrationInv
<1>1. CASE Build(c) \/ WaitTimesOut(c) \/ DeployQueued(c) \/ DeployStarts(c)
    <2>1. NobodyGoesOn
        BY <1>0, <1>1 DEF Build, WaitTimesOut, DeployQueued, DeployStarts, Advance, Enter,
                          PipelineTypeOK, Stages, Ended
    <2>. QED BY <1>1, <2>1, WorkflowKeepsInv
             DEF Build, WaitTimesOut, DeployQueued, DeployStarts, MigrationInv, PipelineTypeOK, objects
<1>2. CASE MigrateStarts(c)
    <2>1. NobodyGoesOn
        BY <1>0, <1>2 DEF MigrateStarts, Advance, PipelineTypeOK, Stages, Ended
    <2>2. config' \in Commits
        BY <1>0, <1>2 DEF MigrateStarts, PipelineTypeOK
    <2>. QED BY <1>2, <2>1, <2>2, WorkflowKeepsInv DEF MigrateStarts, MigrationInv, PipelineTypeOK
<1>3. CASE JobCreated(c)
    <2>1. /\ NobodyGoesOn
          /\ migrator' \in [Commits -> Migrators]
          /\ \A d \in Commits : migrator'[d] = migrator[d] \/ migrator'[d] = "start"
        BY <1>0, <1>3 DEF JobCreated, Advance, PipelineTypeOK, Stages, Migrators
    <2>2. PipelineTypeOK'
        BY <1>0, <1>3, <2>1 DEF JobCreated, PipelineTypeOK, database, objects
    <2>3. \A d \in Commits : MigratorSound(d)'
        BY <1>3, <2>1 DEF JobCreated, MigratorSound, MigrationInv, database
    <2>. QED BY <1>3, <2>1, <2>2, <2>3
             DEF JobCreated, MigrationInv, TableTellsSchema, database, objects
<1>4. CASE JobComplete(c)
    <2>1. /\ stage' \in [Commits -> Stages]
          /\ \A d \in Commits : stage'[d] \in Migrated => stage[d] \in Migrated \/ d = c
        BY <1>0, <1>4 DEF JobComplete, Advance, PipelineTypeOK, Stages, Ended
    <2>2. Needs[c] <= schema
        BY <1>4 DEF JobComplete, MigrationInv, MigratorSound
    <2>. QED BY <1>4, <2>1, <2>2, WorkflowKeepsInv
             DEF JobComplete, MigrationInv, PipelineTypeOK, objects
<1>5. CASE ManifestsApplied(c)
    <2>1. NobodyGoesOn
        BY <1>0, <1>5 DEF ManifestsApplied, Advance, PipelineTypeOK, Stages, Ended
    <2>2. Needs[c] <= schema
        BY <1>5 DEF ManifestsApplied, MigrationInv
    <2>. QED BY <1>5, <2>1, <2>2, WorkflowKeepsInv
             DEF ManifestsApplied, MigrationInv, PipelineTypeOK
<1>6. CASE JobFails(c)
    <2>1. NobodyGoesOn
        BY <1>0, <1>6 DEF JobFails, Advance, PipelineTypeOK, Stages, Ended
    <2>2. /\ job' \in Commits \cup {Nobody}
          /\ config' \in Commits
          /\ manifest' \in Commits
        BY <1>0, <1>6 DEF JobFails, PipelineTypeOK, objects
    <2>3. manifest' = manifest \/ (stage[c] = "deploying" /\ manifest' = c)
        BY <1>6 DEF JobFails, objects
    <2>4. Needs[manifest'] <= schema
        BY <2>3 DEF MigrationInv
    <2>. QED BY <1>0, <1>6, <2>1, <2>2, <2>4, WorkflowKeepsInv DEF JobFails, MigrationInv, PipelineTypeOK
<1>7. CASE Rerun(c)
    <2>1. NobodyGoesOn
        BY <1>0, <1>7 DEF Rerun, Advance, Enter, PipelineTypeOK, Stages, Ended
    <2>2. runs' \in 0 .. MaxRuns
        BY <1>0, <1>7, RunsAssumption DEF Rerun, PipelineTypeOK
    <2>. QED BY <1>7, <2>1, <2>2, WorkflowKeepsInv
             DEF Rerun, MigrationInv, PipelineTypeOK, objects
<1>. QED BY <1>1, <1>2, <1>3, <1>4, <1>5, <1>6, <1>7 DEF Workflow

-----------------------------------------------------------------------------
(* The migrators *)

\* A step of one migrator leaves the others out of the lock's reach sound.
LEMMA OthersStaySound ==
    ASSUME MigrationInv, NEW c \in Commits, NEW d \in Commits, d # c,
           migrator[c] \in {"read", "next", "file"},
           migrator'[d] = migrator[d], schema <= schema', schema' \in Nat
    PROVE  MigratorSound(d)'
<1>1. migrator[d] \notin {"read", "next", "file"}
    BY DEF MigrationInv, MigratorSound
<1>2. migrator[d] = "done" => Needs[d] <= schema'
    BY CommitsAre DEF MigrationInv, MigratorSound, PipelineTypeOK
<1>. QED BY <1>1, <1>2 DEF MigratorSound

LEMMA MigratorKeepsInv ==
    ASSUME MigrationInv, NEW c \in Commits,
           PipelineTypeOK', TableTellsSchema', schema <= schema',
           UNCHANGED <<stage, objects>>,
           \A d \in Commits : MigratorSound(d)'
    PROVE  MigrationInv'
<1>1. schema \in Nat /\ schema' \in Nat /\ manifest \in Commits
    BY DEF MigrationInv, PipelineTypeOK
<1>2. \A d \in Commits : stage'[d] \in Migrated => Needs[d] <= schema'
    BY <1>1, CommitsAre DEF MigrationInv
<1>3. Needs[manifest'] <= schema'
    BY <1>1, CommitsAre DEF MigrationInv, objects
<1>. QED BY <1>2, <1>3 DEF MigrationInv

LEMMA MigrationKeepsInv ==
    ASSUME MigrationInv, NEW c \in Commits,
           Migration(c) \/ FileFails(c) \/ MigratorDies(c)
    PROVE  MigrationInv' /\ schema <= schema'
<1>. USE DEF workflows
<1>0. /\ PipelineTypeOK /\ TableTellsSchema /\ MigratorSound(c) /\ c \in Commits
      /\ schema \in Nat /\ table.version \in Nat /\ at[c] \in Nat /\ Needs[c] \in Nat
    BY VersionNat, CommitsAre DEF MigrationInv, PipelineTypeOK
<1>1. CASE Locks(c)
    <2>1. /\ PipelineTypeOK' /\ TableTellsSchema' /\ schema <= schema'
        BY <1>0, <1>1 DEF Locks, Becomes, PipelineTypeOK, TableTellsSchema, Migrators, objects
    <2>2. ASSUME NEW d \in Commits PROVE MigratorSound(d)'
        <3>1. CASE lock # Nobody
            <4>1. lock' = lock /\ migrator'[d] = (IF d = c THEN "failed" ELSE migrator[d])
                BY <1>0, <1>1, <3>1 DEF Locks, Becomes, PipelineTypeOK
            <4>. QED BY <1>1, <4>1 DEF Locks, MigratorSound, MigrationInv
        <3>2. CASE lock = Nobody
            <4>1. lock' = c /\ migrator'[d] = (IF d = c THEN "read" ELSE migrator[d])
                BY <1>0, <1>1, <3>2 DEF Locks, Becomes, PipelineTypeOK
            <4>2. migrator[d] \notin {"read", "next", "file"}
                BY <3>2, NobodyAssumption DEF MigrationInv, MigratorSound
            <4>. QED BY <1>1, <4>1, <4>2 DEF Locks, MigratorSound, MigrationInv
        <3>. QED BY <3>1, <3>2
    <2>. QED BY <1>1, <2>1, <2>2, MigratorKeepsInv DEF Locks
<1>2. CASE Reads(c)
    <2>1. /\ PipelineTypeOK' /\ TableTellsSchema' /\ schema <= schema'
        BY <1>0, <1>2 DEF Reads, Ends, Becomes, PipelineTypeOK, TableTellsSchema, Migrators, objects
    <2>2. MigratorSound(c)'
        BY <1>0, <1>2 DEF Reads, Ends, Becomes, PipelineTypeOK, MigratorSound
    <2>3. ASSUME NEW d \in Commits, d # c PROVE MigratorSound(d)'
        BY <1>0, <1>2, <2>3, OthersStaySound DEF Reads, Ends, Becomes, PipelineTypeOK
    <2>. QED BY <1>2, <2>1, <2>2, <2>3, MigratorKeepsInv DEF Reads
<1>3. CASE Begins(c)
    <2>1. /\ ~table.dirty /\ at[c] = table.version /\ schema = table.version /\ at[c] + 1 <= Needs[c]
        BY <1>0, <1>3 DEF Begins, MigratorSound, TableTellsSchema
    <2>2. table' = [version |-> at[c] + 1, dirty |-> TRUE] /\ schema' = schema
        BY <1>3 DEF Begins
    <2>3. table'.version \in UNION {0 .. Needs[d] : d \in Commits}
        <3>1. at[c] + 1 \in 0 .. Needs[c]
            BY <1>0, <2>1
        <3>. QED BY <1>0, <2>2, <3>1
    <2>4. /\ PipelineTypeOK' /\ schema <= schema'
        BY <1>0, <1>3, <2>2, <2>3 DEF Begins, Becomes, PipelineTypeOK, Migrators, objects
    <2>5. TableTellsSchema'
        BY <1>0, <2>1, <2>2 DEF TableTellsSchema
    <2>6. MigratorSound(c)'
        BY <1>0, <1>3, <2>1, <2>2 DEF Begins, Becomes, PipelineTypeOK, MigratorSound
    <2>7. ASSUME NEW d \in Commits, d # c PROVE MigratorSound(d)'
        BY <1>0, <1>3, <2>7, OthersStaySound DEF Begins, Becomes, PipelineTypeOK
    <2>. QED BY <1>3, <2>4, <2>5, <2>6, <2>7, MigratorKeepsInv DEF Begins
<1>4. CASE Finishes(c)
    <2>1. /\ PipelineTypeOK' /\ TableTellsSchema' /\ schema <= schema'
        BY <1>0, <1>4 DEF Finishes, Ends, Becomes, PipelineTypeOK, TableTellsSchema, Migrators, objects
    <2>2. Needs[c] <= schema
        BY <1>0, <1>4 DEF Finishes, MigratorSound, TableTellsSchema
    <2>3. MigratorSound(c)'
        BY <1>0, <1>4, <2>2 DEF Finishes, Ends, Becomes, PipelineTypeOK, MigratorSound
    <2>4. ASSUME NEW d \in Commits, d # c PROVE MigratorSound(d)'
        BY <1>0, <1>4, <2>4, OthersStaySound DEF Finishes, Ends, Becomes, PipelineTypeOK
    <2>. QED BY <1>4, <2>1, <2>3, <2>4, MigratorKeepsInv DEF Finishes
<1>5. CASE FileDone(c)
    <2>1. at[c] = table.version /\ schema' = table.version
          /\ table' = [version |-> table.version, dirty |-> FALSE]
        BY <1>0, <1>5 DEF FileDone, MigratorSound
    <2>2. schema <= schema' /\ TableTellsSchema'
        BY <1>0, <2>1 DEF TableTellsSchema
    <2>3. PipelineTypeOK'
        BY <1>0, <1>5, <2>1 DEF FileDone, Becomes, PipelineTypeOK, Migrators, objects
    <2>4. MigratorSound(c)'
        BY <1>0, <1>5, <2>1 DEF FileDone, Becomes, PipelineTypeOK, MigratorSound
    <2>5. ASSUME NEW d \in Commits, d # c PROVE MigratorSound(d)'
        BY <1>0, <1>5, <2>1, <2>2, <2>5, OthersStaySound DEF FileDone, Becomes, PipelineTypeOK
    <2>. QED BY <1>5, <2>2, <2>3, <2>4, <2>5, MigratorKeepsInv DEF FileDone
<1>6. CASE FileFails(c)
    <2>1. /\ PipelineTypeOK' /\ TableTellsSchema' /\ schema <= schema'
        BY <1>0, <1>6 DEF FileFails, Ends, Becomes, PipelineTypeOK, TableTellsSchema, Migrators, objects
    <2>2. MigratorSound(c)'
        BY <1>0, <1>6 DEF FileFails, Ends, Becomes, PipelineTypeOK, MigratorSound
    <2>3. ASSUME NEW d \in Commits, d # c PROVE MigratorSound(d)'
        BY <1>0, <1>6, <2>3, OthersStaySound DEF FileFails, Ends, Becomes, PipelineTypeOK
    <2>. QED BY <1>6, <2>1, <2>2, <2>3, MigratorKeepsInv DEF FileFails
<1>7. CASE MigratorDies(c)
    <2>1. schema' = schema \/ (migrator[c] = "file" /\ schema' = table.version)
        BY <1>0, <1>7 DEF MigratorDies, MigratorSound
    <2>2. schema <= schema' /\ schema' \in Nat /\ TableTellsSchema'
        BY <1>0, <1>7, <2>1 DEF MigratorDies, TableTellsSchema
    <2>3. PipelineTypeOK'
        BY <1>0, <1>7, <2>2 DEF MigratorDies, Becomes, PipelineTypeOK, Migrators, objects
    <2>4. ASSUME NEW d \in Commits PROVE MigratorSound(d)'
        <3>1. migrator'[d] = IF d = c THEN "failed" ELSE migrator[d]
            BY <1>0, <1>7 DEF MigratorDies, Becomes, PipelineTypeOK
        <3>2. CASE d = c
            BY <3>1, <3>2 DEF MigratorSound
        <3>3. CASE d # c /\ migrator[d] \in {"read", "next", "file"}
            <4>1. lock = d /\ lock' = d
                BY <1>7, <3>3 DEF MigratorDies, MigrationInv, MigratorSound
            <4>. QED BY <1>7, <3>1, <3>3, <4>1 DEF MigratorDies, MigrationInv, MigratorSound
        <3>4. CASE d # c /\ migrator[d] \notin {"read", "next", "file"}
            <4>1. migrator[d] = "done" => Needs[d] <= schema'
                BY <1>0, <2>2, CommitsAre DEF MigrationInv, MigratorSound
            <4>. QED BY <3>1, <3>4, <4>1 DEF MigratorSound
        <3>. QED BY <3>2, <3>3, <3>4
    <2>. QED BY <1>7, <2>2, <2>3, <2>4, MigratorKeepsInv DEF MigratorDies
<1>. QED BY <1>1, <1>2, <1>3, <1>4, <1>5, <1>6, <1>7 DEF Migration

-----------------------------------------------------------------------------
(* The Deployment *)

RolloutInv == RolloutTypeOK /\ MigrationInv /\ SchemaCoversPods

LEMMA RolloutInvInit == RolloutInit => RolloutInv
<1>. SUFFICES ASSUME RolloutInit PROVE RolloutInv
    OBVIOUS
<1>1. MigrationInv
    BY MigrationInvInit DEF RolloutInit
<1>2. RolloutTypeOK
    BY <1>1, LossesAssumption DEF RolloutInit, RolloutTypeOK, MigrationInv, PodStates, Flaws
<1>3. SchemaCoversPods
    BY CommitsAre DEF RolloutInit, PipelineInit, SchemaCoversPods
<1>. QED BY <1>1, <1>2, <1>3 DEF RolloutInv

LEMMA PipelineStepKeepsInv ==
    ASSUME RolloutInv, NEW c \in Commits, RolloutPush(c) \/ RolloutStep(c)
    PROVE  RolloutInv' /\ UNCHANGED pod
<1>1. /\ Push(c) \/ PushStep(c)
      /\ UNCHANGED <<pod, reachable, losses>> /\ flaw' \in [Commits -> Flaws]
    BY DEF RolloutPush, RolloutStep, rollout, RolloutInv, RolloutTypeOK
<1>2. MigrationInv' /\ schema <= schema'
    <2>1. CASE Push(c)
        BY <2>1, PushKeepsInv DEF RolloutInv, Push, database, MigrationInv, PipelineTypeOK
    <2>2. CASE Workflow(c) \/ JobFails(c) \/ Rerun(c)
        <3>1. schema' = schema
            BY <2>2 DEF Workflow, Build, MigrateStarts, JobCreated, JobComplete, WaitTimesOut,
                        DeployQueued, DeployStarts, ManifestsApplied, JobFails, Rerun, database
        <3>. QED BY <2>2, <3>1, WorkflowStepKeepsInv DEF RolloutInv, MigrationInv, PipelineTypeOK
    <2>3. CASE Migration(c) \/ FileFails(c) \/ MigratorDies(c)
        BY <2>3, MigrationKeepsInv DEF RolloutInv
    <2>. QED BY <1>1, <2>1, <2>2, <2>3 DEF PushStep
<1>3. SchemaCoversPods'
    BY <1>1, <1>2, CommitsAre DEF RolloutInv, SchemaCoversPods, MigrationInv, PipelineTypeOK
<1>. QED BY <1>1, <1>2, <1>3 DEF RolloutInv, RolloutTypeOK, MigrationInv

\* What the cluster does changes one pod at most, and nothing the pipeline has.
LEMMA ClusterKeepsInv ==
    ASSUME RolloutInv, UNCHANGED <<pipeline, flaw>>,
           pod' \in [Commits -> PodStates],
           reachable' \in BOOLEAN, losses' \in 0 .. MaxLosses,
           \A c \in Commits : pod'[c] # "none" => pod[c] # "none" \/ c = manifest
    PROVE  RolloutInv'
<1>. USE DEF pipeline, workflows, migrators, database, objects
<1>1. MigrationInv'
    BY DEF RolloutInv, MigrationInv, PipelineTypeOK, TableTellsSchema, MigratorSound
<1>2. SchemaCoversPods'
    BY DEF RolloutInv, SchemaCoversPods, MigrationInv
<1>. QED BY <1>1, <1>2 DEF RolloutInv, RolloutTypeOK, MigrationInv

LEMMA ClusterStepKeepsInv ==
    ASSUME RolloutInv,
           \/ \E c \in Commits : Kubelet(c) \/ PodLost(c)
           \/ Controller
           \/ Outage
    PROVE  RolloutInv'
<1>. USE DEF PodBecomes
<1>0. /\ pod \in [Commits -> PodStates] /\ manifest \in Commits
      /\ reachable \in BOOLEAN /\ losses \in 0 .. MaxLosses
    BY DEF RolloutInv, RolloutTypeOK, PipelineTypeOK
<1>1. ASSUME NEW c \in Commits, Kubelet(c) PROVE RolloutInv'
    <2>1. /\ pod' \in [Commits -> PodStates]
          /\ \A d \in Commits : pod'[d] # "none" => pod[d] # "none"
        BY <1>0, <1>1 DEF Kubelet, Boot, Probed, Drained, PodStates
    <2>. QED BY <1>0, <1>1, <2>1, ClusterKeepsInv DEF Kubelet, Boot, Probed, Drained
<1>2. ASSUME NEW c \in Commits, PodLost(c) PROVE RolloutInv'
    <2>1. /\ pod' \in [Commits -> PodStates] /\ losses' \in 0 .. MaxLosses
          /\ \A d \in Commits : pod'[d] # "none" => pod[d] # "none"
        BY <1>0, <1>2, LossesAssumption DEF PodLost, Active, PodStates
    <2>. QED BY <1>0, <1>2, <2>1, ClusterKeepsInv DEF PodLost
<1>3. CASE ScaleUp
    <2>1. /\ pod' \in [Commits -> PodStates]
          /\ \A d \in Commits : pod'[d] # "none" => pod[d] # "none" \/ d = manifest
        BY <1>0, <1>3 DEF ScaleUp, PodStates
    <2>. QED BY <1>0, <1>3, <2>1, ClusterKeepsInv DEF ScaleUp
<1>4. ASSUME NEW c \in Commits, ScaleDown(c) PROVE RolloutInv'
    <2>1. /\ pod' \in [Commits -> PodStates]
          /\ \A d \in Commits : pod'[d] # "none" => pod[d] # "none"
        BY <1>0, <1>4 DEF ScaleDown, Active, PodStates
    <2>. QED BY <1>0, <1>4, <2>1, ClusterKeepsInv DEF ScaleDown
<1>5. CASE Outage
    <2>1. reachable' \in BOOLEAN
        BY <1>0, <1>5 DEF Outage
    <2>. QED BY <1>0, <1>5, <2>1, ClusterKeepsInv DEF Outage
<1>. QED BY <1>1, <1>2, <1>3, <1>4, <1>5 DEF Controller

LEMMA RolloutInvStep ==
    ASSUME RolloutInv, [RolloutNext]_delivery
    PROVE  RolloutInv'
<1>1. CASE UNCHANGED delivery
    <2>1. pod' \in [Commits -> PodStates] /\ UNCHANGED <<pipeline, rollout>>
        BY <1>1 DEF delivery, rollout, RolloutInv, RolloutTypeOK
    <2>. QED BY <2>1, ClusterKeepsInv DEF rollout, RolloutInv, RolloutTypeOK
<1>2. CASE \E c \in Commits : RolloutPush(c) \/ RolloutStep(c)
    BY <1>2, PipelineStepKeepsInv
<1>3. CASE \/ \E c \in Commits : Kubelet(c) \/ PodLost(c)
           \/ Controller
           \/ Outage
    BY <1>3, ClusterStepKeepsInv
<1>. QED BY <1>1, <1>2, <1>3 DEF RolloutNext

LEMMA RolloutInvariant == RolloutSpec => []RolloutInv
<1>1. RolloutInv /\ [RolloutNext]_delivery => RolloutInv'
    BY RolloutInvStep
<1>. QED BY <1>1, RolloutInvInit, PTL DEF RolloutSpec

\* The state of pipeline and Deployment keeps its types; no version of the table
\* is past the last migration of the commits.
THEOREM DeliveryTypeCorrect == RolloutSpec => []RolloutTypeOK
<1>1. RolloutInv => RolloutTypeOK
    BY DEF RolloutInv
<1>. QED BY <1>1, RolloutInvariant, PTL

\* A clean version of golang-migrate's table is the schema, whichever migrators
\* die, outlive their Job or wait for one another.
THEOREM TableStaysTrue == RolloutSpec => []TableTellsSchema
<1>1. RolloutInv => TableTellsSchema
    BY DEF RolloutInv, MigrationInv
<1>. QED BY <1>1, RolloutInvariant, PTL

\* Every pod's image finds its migrations in the database.
THEOREM PodsHaveTheirSchema == RolloutSpec => []SchemaCoversPods
<1>1. RolloutInv => SchemaCoversPods
    BY DEF RolloutInv
<1>. QED BY <1>1, RolloutInvariant, PTL

-----------------------------------------------------------------------------
(* One release after another *)

\* A migrator takes the schema one migration forward, or leaves it.
LEMMA MigratorsStep ==
    ASSUME MigrationInv, NEW c \in Commits,
           Migration(c) \/ FileFails(c) \/ MigratorDies(c)
    PROVE  schema' \in {schema, schema + 1} /\ manifest' = manifest
<1>1. schema \in Nat /\ table.version \in Nat /\ MigratorSound(c) /\ TableTellsSchema
    BY VersionNat DEF MigrationInv, PipelineTypeOK
<1>2. CASE migrator[c] = "file" /\ schema' = at[c]
    <2>1. schema' = table.version
        BY <1>1, <1>2 DEF MigratorSound
    <2>2. table.version \in {schema, schema + 1}
        BY <1>1 DEF TableTellsSchema
    <2>3. manifest' = manifest
        BY DEF Migration, Locks, Reads, Begins, FileDone, Finishes, FileFails, MigratorDies, objects
    <2>. QED BY <2>1, <2>2, <2>3
<1>3. CASE ~(migrator[c] = "file" /\ schema' = at[c])
    BY <1>3 DEF Migration, Locks, Reads, Begins, FileDone, Finishes, FileFails, MigratorDies, objects
<1>. QED BY <1>2, <1>3

\* What pushes do is a migration, a deployment, or invisible.
LEMMA PipelineRefines ==
    ASSUME RolloutInv, NEW c \in Commits, RolloutPush(c) \/ RolloutStep(c)
    PROVE  [Releases!ReleaseNext]_(Releases!release)
<1>. USE DEF Releases!ReleaseNext, Releases!release
<1>1. /\ Push(c) \/ PushStep(c)
      /\ UNCHANGED pod
    BY PipelineStepKeepsInv DEF RolloutPush, RolloutStep
<1>2. Installed' = Installed
    BY <1>1 DEF Installed
<1>3. CASE Push(c) \/ Workflow(c) \/ JobFails(c) \/ Rerun(c)
    <2>1. schema' = schema /\ (manifest' = manifest \/ (stage[c] = "deploying" /\ manifest' = c))
        BY <1>3 DEF Push, Workflow, Build, MigrateStarts, JobCreated, JobComplete, WaitTimesOut,
                    DeployQueued, DeployStarts, ManifestsApplied, JobFails, Rerun, database, objects
    <2>2. CASE manifest' = manifest
        BY <1>2, <2>1, <2>2
    <2>3. CASE stage[c] = "deploying" /\ manifest' = c
        <3>1. Needs[c] <= schema
            BY <2>3 DEF RolloutInv, MigrationInv, Migrated
        <3>2. Needs[c] \in Nat /\ schema \in Nat
            BY CommitsAre DEF RolloutInv, MigrationInv, PipelineTypeOK
        <3>3. Needs[manifest'] \in 0 .. schema
            BY <2>3, <3>1, <3>2
        <3>. QED BY <1>2, <2>1, <3>3 DEF Releases!Deploy
    <2>. QED BY <2>1, <2>2, <2>3
<1>4. CASE Migration(c) \/ FileFails(c) \/ MigratorDies(c)
    <2>1. schema' \in {schema, schema + 1} /\ manifest' = manifest
        BY <1>4, MigratorsStep DEF RolloutInv
    <2>. QED BY <1>2, <2>1 DEF Releases!Migrate
<1>. QED BY <1>1, <1>3, <1>4 DEF PushStep

\* What the cluster does is a pod of the deployed release that comes, a pod of
\* some release that goes, or invisible.
LEMMA ClusterRefines ==
    ASSUME RolloutInv,
           \/ \E c \in Commits : Kubelet(c) \/ PodLost(c)
           \/ Controller
           \/ Outage
    PROVE  [Releases!ReleaseNext]_(Releases!release)
<1>. USE DEF Releases!ReleaseNext, Releases!release, PodBecomes
<1>0. pod \in [Commits -> PodStates] /\ manifest \in Commits
    BY DEF RolloutInv, RolloutTypeOK, PipelineTypeOK
<1>1. schema' = schema /\ manifest' = manifest
    BY DEF Kubelet, Boot, Probed, Drained, PodLost, Controller, ScaleUp, ScaleDown, Outage,
           pipeline, database, objects
<1>2. \/ Installed' = Installed
      \/ Installed' = Installed \cup {manifest}
      \/ \E c \in Installed : Installed' = Installed \ {c}
    <2>1. ASSUME NEW c \in Commits, Drained(c) PROVE c \in Installed /\ Installed' = Installed \ {c}
        BY <1>0, <2>1 DEF Drained, Installed
    <2>2. CASE ScaleUp
        <3>1. Installed' = Installed \cup {manifest}
            BY <1>0, <2>2 DEF ScaleUp, Installed
        <3>. QED BY <3>1
    <2>3. ASSUME NEW c \in Commits, Boot(c) \/ Probed(c) \/ PodLost(c) \/ ScaleDown(c)
          PROVE  Installed' = Installed
        <3>1. pod[c] # "none" /\ \E s \in PodStates \ {"none"} : pod' = [pod EXCEPT ![c] = s]
            BY <2>3 DEF Boot, Probed, PodLost, ScaleDown, Active, PodStates
        <3>. QED BY <1>0, <3>1 DEF Installed
    <2>4. CASE Outage
        BY <2>4 DEF Outage, Installed
    <2>. QED BY <2>1, <2>2, <2>3, <2>4 DEF Kubelet, Controller
<1>. DEFINE Shown(S) == {Needs[c] : c \in S}
<1>3. CASE Installed' = Installed
    BY <1>1, <1>3
<1>4. CASE Installed' = Installed \cup {manifest}
    <2>1. Shown(Installed') = Shown(Installed) \cup {Needs[manifest]}
        BY <1>4
    <2>. QED BY <1>1, <2>1 DEF Releases!PodStarts
<1>5. ASSUME NEW c \in Installed, Installed' = Installed \ {c}
      PROVE  [Releases!ReleaseNext]_(Releases!release)
    <2>1. \/ Shown(Installed') = Shown(Installed)
          \/ Shown(Installed') = Shown(Installed) \ {Needs[c]}
        BY <1>5
    <2>2. Needs[c] \in Shown(Installed)
        OBVIOUS
    <2>. QED BY <1>1, <2>1, <2>2 DEF Releases!PodsGone
<1>. QED BY <1>2, <1>3, <1>4, <1>5

\* Builds in any order, migrators that outlive their Job, failures and pods
\* implement one release after another, each behind its migrations.
THEOREM RolloutImplementsRelease == RolloutSpec => ImplementsRelease
<1>1. RolloutInit => Releases!ReleaseInit
    <2>. SUFFICES ASSUME RolloutInit PROVE Releases!ReleaseInit
        OBVIOUS
    <2>1. schema = Needs[0] /\ manifest = 0 /\ Needs[0] \in Nat
        BY CommitsAre DEF RolloutInit, PipelineInit
    <2>2. Installed = {0}
        BY CommitsAre DEF RolloutInit, Installed
    <2>. QED BY <2>1, <2>2 DEF Releases!ReleaseInit
<1>2. RolloutInv /\ [RolloutNext]_delivery => [Releases!ReleaseNext]_(Releases!release)
    <2>. SUFFICES ASSUME RolloutInv, [RolloutNext]_delivery
                  PROVE  [Releases!ReleaseNext]_(Releases!release)
        OBVIOUS
    <2>1. CASE UNCHANGED delivery
        BY <2>1 DEF delivery, pipeline, rollout, database, objects, Installed, Releases!release
    <2>. QED BY <2>1, PipelineRefines, ClusterRefines DEF RolloutNext
<1>. QED BY <1>1, <1>2, RolloutInvariant, PTL DEF RolloutSpec, ImplementsRelease, Releases!ReleaseSpec

-----------------------------------------------------------------------------
(* Why pushes end *)

Turn == [s \in Stages |->
            CASE s = "unpushed"       -> 0
              [] s = "building"       -> 1
              [] s = "migratePending" -> 2
              [] s = "prerequisites"  -> 3
              [] s = "waiting"        -> 4
              [] s = "migrated"       -> 5
              [] s = "deployPending"  -> 6
              [] s = "deploying"      -> 7
              [] OTHER                -> 8]

\* No step of a workflow, its own or another push's, takes a push back.
StageMovesOn == \A c \in Commits : stage'[c] = stage[c] \/ Turn[stage[c]] < Turn[stage'[c]]

\* A job that waits for migrations has a migrator that runs or has ended.
WaitsForSomebody == \A c \in Commits : stage[c] = "waiting" => migrator[c] # "none"

LEMMA WorkflowMovesOn ==
    ASSUME PipelineTypeOK, NEW c \in Commits, Push(c) \/ Workflow(c) \/ JobFails(c)
    PROVE  StageMovesOn
<1>. USE DEF PipelineTypeOK, Advance, Enter, Cancelled, Turn, Stages, Ended, StageMovesOn
<1>1. CASE Push(c)
    BY <1>1 DEF Push
<1>2. CASE Build(c)
    BY <1>2 DEF Build
<1>3. CASE MigrateStarts(c) \/ JobCreated(c)
    BY <1>3 DEF MigrateStarts, JobCreated
<1>4. CASE JobComplete(c)
    BY <1>4 DEF JobComplete
<1>5. CASE WaitTimesOut(c) \/ DeployStarts(c) \/ DeployQueued(c)
    BY <1>5 DEF WaitTimesOut, DeployStarts, DeployQueued
<1>6. CASE ManifestsApplied(c) \/ JobFails(c)
    BY <1>6 DEF ManifestsApplied, JobFails
<1>. QED BY <1>1, <1>2, <1>3, <1>4, <1>5, <1>6 DEF Workflow

LEMMA WaitsStep ==
    ASSUME PipelineTypeOK, WaitsForSomebody, NEW c \in Commits, Push(c) \/ PushStep(c)
    PROVE  WaitsForSomebody'
<1>. USE DEF PipelineTypeOK, WaitsForSomebody
<1>1. CASE JobCreated(c)
    BY <1>1 DEF JobCreated, Advance
<1>2. CASE Push(c) \/ JobFails(c) \/ Rerun(c) \/ (Workflow(c) /\ ~JobCreated(c))
    <2>1. \A d \in Commits : stage'[d] = "waiting" => stage[d] = "waiting"
        BY <1>2 DEF Push, JobFails, Rerun, Workflow, Build, MigrateStarts, JobComplete,
                    WaitTimesOut, DeployQueued, DeployStarts, ManifestsApplied, Advance, Enter,
                    Cancelled
    <2>2. UNCHANGED migrator
        BY <1>2 DEF Push, JobFails, Rerun, Workflow, Build, MigrateStarts, JobComplete,
                    WaitTimesOut, DeployQueued, DeployStarts, ManifestsApplied, migrators
    <2>. QED BY <2>1, <2>2
<1>3. CASE Migration(c) \/ FileFails(c) \/ MigratorDies(c)
    <2>1. /\ UNCHANGED stage
          /\ \E m \in Migrators \ {"none"} : migrator' = [migrator EXCEPT ![c] = m]
        BY <1>3 DEF Migration, Locks, Reads, Begins, FileDone, Finishes, FileFails, MigratorDies,
                    Ends, Becomes, Migrators, workflows
    <2>. QED BY <2>1
<1>. QED BY <1>1, <1>2, <1>3 DEF PushStep

LEMMA MoveOnStep ==
    ASSUME RolloutInv, WaitsForSomebody, [RolloutNext]_delivery
    PROVE  /\ StageMovesOn \/ \E c \in Commits : Rerun(c)
           /\ WaitsForSomebody'
<1>0. PipelineTypeOK
    BY DEF RolloutInv, MigrationInv
<1>1. ASSUME NEW c \in Commits, RolloutPush(c) \/ RolloutStep(c)
      PROVE  (StageMovesOn \/ Rerun(c)) /\ WaitsForSomebody'
    <2>1. Push(c) \/ PushStep(c)
        BY <1>1 DEF RolloutPush, RolloutStep
    <2>2. ASSUME Migration(c) \/ FileFails(c) \/ MigratorDies(c) PROVE StageMovesOn
        BY <2>2 DEF Migration, Locks, Reads, Begins, FileDone, Finishes, FileFails, MigratorDies,
                    StageMovesOn, workflows
    <2>3. StageMovesOn \/ Rerun(c)
        BY <1>0, <2>1, <2>2, WorkflowMovesOn DEF PushStep
    <2>. QED BY <1>0, <2>1, <2>3, WaitsStep
<1>2. CASE UNCHANGED pipeline
    BY <1>2 DEF pipeline, workflows, migrators, StageMovesOn, WaitsForSomebody
<1>3. CASE \/ \E c \in Commits : Kubelet(c) \/ PodLost(c)
           \/ Controller
           \/ Outage
    <2>1. UNCHANGED pipeline
        BY <1>3 DEF Kubelet, Boot, Probed, Drained, PodLost, Controller, ScaleUp, ScaleDown, Outage
    <2>. QED BY <1>2, <2>1
<1>. QED BY <1>1, <1>2, <1>3 DEF RolloutNext, delivery

\* "two rapid pushes serialize cleanly" (README.md:408), but for the scheduling:
\* a push is taken back only by running its jobs again.  Until then it goes on,
\* through eight turns at most and however often it is cancelled, overtaken or
\* failed, and it never waits for a migrator that is not there.
THEOREM PushesMoveOn ==
    RolloutSpec => /\ [][StageMovesOn \/ \E c \in Commits : Rerun(c)]_delivery
                   /\ []WaitsForSomebody
<1>. DEFINE MovesOn == StageMovesOn \/ \E c \in Commits : Rerun(c)
<1>1. RolloutInit => WaitsForSomebody
    BY DEF RolloutInit, PipelineInit, WaitsForSomebody
<1>2. RolloutInv /\ WaitsForSomebody /\ [RolloutNext]_delivery => MovesOn /\ WaitsForSomebody'
    BY MoveOnStep
<1>. HIDE DEF MovesOn
<1>3. RolloutSpec => [][MovesOn]_delivery /\ []WaitsForSomebody
    BY <1>1, <1>2, RolloutInvariant, PTL DEF RolloutSpec
<1>. QED BY <1>3 DEF MovesOn
=============================================================================
