--------------------------- MODULE MCResumeTokens ---------------------------
(* ResumeTokens for TLC: the sockets are interchangeable. *)
EXTENDS ResumeTokens, TLC

Interchangeable == Permutations(Browser)
=============================================================================
