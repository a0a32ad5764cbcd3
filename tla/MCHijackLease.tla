---------------------------- MODULE MCHijackLease ----------------------------
(* HijackLease on small sets of dashboards, REST clients and sockets. *)
EXTENDS HijackLease, TLC

\* Tasks of one kind are interchangeable: no property tells them apart.
Interchangeable ==
  Permutations(Browser) \cup Permutations(Rest) \cup Permutations(RestOp)
    \cup Permutations(Socket)
=============================================================================
