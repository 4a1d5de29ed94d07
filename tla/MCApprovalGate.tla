--------------------------- MODULE MCApprovalGate ---------------------------
(* Small instances of ApprovalGate for TLC.                                *)
EXTENDS ApprovalGate, TLC

CONSTANTS a1, a2, a3, s1

MCApprovers == {a1, a2, a3}
TwoApprovers == {a1, a2}
MCScanners == {s1}
GateSymmetry == Permutations(MCApprovers)
=============================================================================
