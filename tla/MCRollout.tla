------------------------------ MODULE MCRollout ------------------------------
(* Values for the run of Rollout. *)
EXTENDS Rollout, TLC

\* The Secret, but for what the templates leave to be filled in.
ExampleSecret == [DB_USER |-> "postgres", DB_PASSWORD |-> "db password",
                  REDIS_PASSWORD |-> "redis password", JWT_SECRET |-> "jwt secret"]

\* The first push brings two migrations; the second brings one more.
TwoThenOne == (0 :> 1) @@ (1 :> 3) @@ (2 :> 4)
=============================================================================
