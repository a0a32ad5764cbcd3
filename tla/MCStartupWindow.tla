-------------------------- MODULE MCStartupWindow --------------------------
(* StartupWindow for TLC. *)
EXTENDS StartupWindow, TLC

Symmetry == Permutations(Browser) \cup Permutations(Socket)
=============================================================================
