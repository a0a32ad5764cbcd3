--------------------------- MODULE MCApprovalFlow ---------------------------
(* ApprovalFlow for TLC. *)
EXTENDS ApprovalFlow, TLC

Symmetry == Permutations(Browser) \cup Permutations(Admin)
=============================================================================
