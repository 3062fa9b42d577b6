--------------------------- MODULE MCAuthService ---------------------------
(* Values for the runs of AuthService. *)
EXTENDS AuthProperties, TLC

CONSTANTS e1, e2, p1, p2

\* One account, already registered, whose password is p1.
OneAccount == {(e1 :> [pw |-> p1, role |-> "viewer"])}

\* Two accounts with one password.
TwoAccounts == {(e1 :> [pw |-> p1, role |-> "viewer"]) @@ (e2 :> [pw |-> p1, role |-> "viewer"])}

\* A deployment without accounts.
NoAccount == {(e1 :> NoRow)}

\* What a request that is over was given, and told, is overwritten when its slot is
\* used again, and none of the properties of rotation reads it.
RotationView ==
    <<tables, pc, held, lineage,
      [r \in Reqs |-> IF pc[r] = "idle" THEN <<>> ELSE <<acct[r], pw[r], tok[r], role[r]>>]>>

RotationSymmetry == Permutations(Tokens) \cup Permutations(Reqs) \cup Permutations(Emails)
=============================================================================
