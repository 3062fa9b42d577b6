------------------------------- MODULE Release -------------------------------
(***************************************************************************)
(* What the delivery of a service that migrates its database promises       *)
(* (.github/workflows/build-and-deploy.yml, jobs migrate and deploy): the   *)
(* schema grows by one migration at a time and never shrinks; a release, the *)
(* newest or an earlier one again, is deployed behind its migrations; and a  *)
(* pod runs what was deployed.  A release is known by the last migration it  *)
(* needs.                                                                   *)
(***************************************************************************)
EXTENDS Integers

VARIABLES
    schema,    \* the last migration in the database
    deployed,  \* the last migration the deployed release needs
    running    \* ... and each release that has a pod

release == <<schema, deployed, running>>

ReleaseInit == schema \in Nat /\ deployed = schema /\ running = {schema}

Migrate == schema' = schema + 1 /\ UNCHANGED <<deployed, running>>

Deploy == deployed' \in 0 .. schema /\ UNCHANGED <<schema, running>>

PodStarts == running' = running \cup {deployed} /\ UNCHANGED <<schema, deployed>>

\* The last pod of a release is gone.
PodsGone == /\ \E n \in running : running' = running \ {n}
            /\ UNCHANGED <<schema, deployed>>

ReleaseNext == Migrate \/ Deploy \/ PodStarts \/ PodsGone

ReleaseSpec == ReleaseInit /\ [][ReleaseNext]_release
=============================================================================
