--------------------------- MODULE ExclusiveControl ---------------------------
(***************************************************************************)
(* What the hub promises to the clients that share a worker: at most one   *)
(* of them holds it; control passes from one to the next only through      *)
(* nobody and into a new epoch; who does not hold a worker writes to it    *)
(* only while it is shared; and the epoch stands still while a write is on *)
(* its way.  A holder can lapse at any moment, its write with it or not.   *)
(***************************************************************************)
EXTENDS Naturals

CONSTANTS Client, NULL

VARIABLES holder, epoch, writing, shared

vars == <<holder, epoch, writing, shared>>

Init ==
  /\ holder = NULL
  /\ epoch = 0
  /\ writing = NULL
  /\ shared = FALSE

Grant(c) ==
  /\ holder = NULL /\ writing = NULL
  /\ holder' = c
  /\ epoch' = epoch + 1
  /\ UNCHANGED <<writing, shared>>

\* A release, or the loss of the worker with whoever held it.
Vacate ==
  /\ writing = NULL
  /\ holder' \in {holder, NULL}
  /\ epoch' = epoch + 1
  /\ UNCHANGED <<writing, shared>>

Lapse ==
  /\ holder' = NULL
  /\ UNCHANGED <<epoch, writing, shared>>

Write(c) ==
  /\ writing = NULL
  /\ holder = c \/ shared
  /\ writing' = c
  /\ UNCHANGED <<holder, epoch, shared>>

Written ==
  /\ writing # NULL
  /\ writing' = NULL
  /\ UNCHANGED <<holder, epoch, shared>>

\* A worker is opened to everybody only while nobody holds it.
Share ==
  /\ holder = NULL
  /\ shared' = TRUE
  /\ UNCHANGED <<holder, epoch, writing>>

Unshare ==
  /\ shared' = FALSE
  /\ UNCHANGED <<holder, epoch, writing>>

Next ==
  \/ \E c \in Client : Grant(c) \/ Write(c)
  \/ Vacate \/ Lapse \/ Written \/ Share \/ Unshare

Spec == Init /\ [][Next]_vars
=============================================================================
