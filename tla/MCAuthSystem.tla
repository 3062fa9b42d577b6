---------------------------- MODULE MCAuthSystem ----------------------------
(* Values for the runs of AuthSystem. *)
EXTENDS AuthSystem, TLC

CONSTANTS e1, p1, p2, p3, r1, r2, q1, q2

\* A fresh deployment, or one where the administrator's address was registered.
FreshOrTaken == {(e1 :> NoRow), (e1 :> [pw |-> p1, role |-> "viewer"])}

Fresh == {(e1 :> NoRow)}

\* A request slot on each pod.
OneEach == (r1 :> q1) @@ (r2 :> q2)
=============================================================================
