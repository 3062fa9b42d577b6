------------------------------ MODULE MCReadPath ------------------------------
(* Values for the runs of ReadPath, with the windows of its summaries. *)
EXTENDS ThreatWindow, TLC

CONSTANTS u1, u2

\* A viewer and an administrator.
TwoCallers == {[uid |-> u1, role |-> "viewer"], [uid |-> u2, role |-> "admin"]}

\* Rows that may have been recorded at the same moment.
SixRows == [id : 1 .. 2, at : 0 .. 2]

SlotSymmetry == Permutations(Slots)
=============================================================================
