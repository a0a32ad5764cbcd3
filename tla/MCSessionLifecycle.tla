------------------------- MODULE MCSessionLifecycle -------------------------
EXTENDS SessionLifecycle, TLC

Interchangeable == Permutations(Op) \cup Permutations(Loop)
=============================================================================
