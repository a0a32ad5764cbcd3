--------------------------- MODULE StartupWindow ---------------------------
(***************************************************************************)
(* How a browser joins the stream of a worker: register_browser, the       *)
(* startup sequence of the browser route, activate_browser_broadcasts, and *)
(* the broadcasts that run meanwhile (bridge/hub/router_broadcast.py).     *)
(*                                                                         *)
(* Three kinds of frame are told apart.  A delta must survive the window   *)
(* (inspect rows, presence, control transfers): deltas are numbered in the *)
(* order of their broadcasts.  A snapshot is absolute: snapshots are       *)
(* numbered in the order of their commits.  Anything else (hijack_state,   *)
(* errors) is not held for a starting browser: nothing is promised of it.  *)
(***************************************************************************)
EXTENDS Integers, Sequences

CONSTANTS
  Browser,      \* browser sockets, each used for one connection
  Socket,       \* worker sockets, each used for one connection
  Cap,          \* _STARTUP_BUFFER_MAX_FRAMES
  MaxDelta,     \* bound: deltas broadcast
  MaxSeq,       \* bound: snapshots committed
  NULL

ASSUME WindowAssumption ==
  /\ Cap \in Nat /\ MaxDelta \in Nat /\ MaxSeq \in Nat
  /\ NULL \notin Socket

VARIABLES
  worker,       \* st.worker_ws
  screen,       \* number of st.last_snapshot, 0 for none
  kept,         \* deltas broadcast so far
  phase,        \* phase[b]: where the connection of b stands
  buf,          \* buf[b]: deltas of _startup_pending_frames[b]
  held,         \* held[b]: the snapshot coalesced into it, 0 for none
  batch,        \* batch[b]: deltas taken from buf[b] and not yet sent
  batchHeld,    \* batchHeld[b]: the snapshot taken with them
  init,         \* init[b]: initial_snapshot captured at registration
  since,        \* since[b]: deltas broadcast before b registered
  got,          \* got[b]: deltas that reached b, in order
  missed,       \* missed[b]: deltas refused at the cap
  shown,        \* shown[b]: snapshot b shows
  cast          \* cast[w]: the snapshot broadcast of w's handler

windowVars == <<phase, buf, held, batch, batchHeld, init, since>>
seenVars == <<got, missed, shown>>
hubVars == <<worker, screen, kept>>
vars == <<hubVars, windowVars, seenVars, cast>>

Phase == {"new", "hello", "flush", "live", "dying", "dropped", "stuck", "gone"}
Stage == {"unused", "idle", "waiting", "gate", "sending"}
Cast == [stage : Stage, n : Nat, to : SUBSET Browser, dead : SUBSET Browser]

\* Mutant: the browser leaves the pending set before its backlog is out.
PendingEarly(b) == phase[b] \in {"hello", "stuck"}
\* Members of hub._startup_pending_browsers.
Pending(b) == phase[b] \in {"hello", "flush", "stuck"}

\* Members of st.browsers outside it: whom a broadcast reaches.
Reached == {b \in Browser : phase[b] \in {"live", "dying"}}

\* Frames in _startup_pending_frames[b].
Buffered(b) == Len(buf[b]) + IF held[b] = 0 THEN 0 ELSE 1

-----------------------------------------------------------------------------
(* The browser's handler. *)

\* register_browser: one lock section puts the socket in the pending set and
\* captures the screen its hello will hand over.
Register(b) ==
  /\ phase[b] = "new"
  /\ phase' = [phase EXCEPT ![b] = "hello"]
  /\ init' = [init EXCEPT ![b] = screen]
  /\ since' = [since EXCEPT ![b] = kept]
  /\ UNCHANGED <<hubVars, buf, held, batch, batchHeld, seenVars, cast>>

\* The hello and the captured snapshot are sent directly.
Hello(b) ==
  /\ phase[b] = "hello"
  /\ phase' = [phase EXCEPT ![b] = "flush"]
  /\ shown' = [shown EXCEPT ![b] = init[b]]
  /\ UNCHANGED <<hubVars, buf, held, batch, batchHeld, init, since, got,
                 missed, cast>>

BatchEmpty(b) == batch[b] = <<>> /\ batchHeld[b] = 0

\* Mutant: the browser goes live at once, whatever is waiting for it.
ActivateAtOnce(b) ==
  /\ phase[b] = "flush" /\ BatchEmpty(b)
  /\ phase' = [phase EXCEPT ![b] = "live"]
  /\ UNCHANGED <<hubVars, buf, held, batch, batchHeld, init, since, seenVars,
                 cast>>

\* activate_browser_broadcasts, under the lock: an empty queue makes the
\* browser live, anything else is taken as the next batch.
Activate(b) ==
  /\ phase[b] = "flush" /\ BatchEmpty(b)
  /\ Buffered(b) = 0
  /\ phase' = [phase EXCEPT ![b] = "live"]
  /\ UNCHANGED <<hubVars, buf, held, batch, batchHeld, init, since, seenVars,
                 cast>>

TakeBatch(b) ==
  /\ phase[b] = "flush" /\ BatchEmpty(b)
  /\ Buffered(b) > 0
  /\ batch' = [batch EXCEPT ![b] = buf[b]]
  /\ batchHeld' = [batchHeld EXCEPT ![b] = held[b]]
  /\ buf' = [buf EXCEPT ![b] = <<>>]
  /\ held' = [held EXCEPT ![b] = 0]
  /\ UNCHANGED <<hubVars, phase, init, since, seenVars, cast>>

\* The batch goes out frame by frame; where in it the snapshot stands is left
\* open.
FlushDelta(b) ==
  /\ phase[b] = "flush" /\ batch[b] # <<>>
  /\ got' = [got EXCEPT ![b] = Append(@, Head(batch[b]))]
  /\ batch' = [batch EXCEPT ![b] = Tail(@)]
  /\ UNCHANGED <<hubVars, phase, buf, held, batchHeld, init, since, missed,
                 shown, cast>>

FlushSnapshot(b) ==
  /\ phase[b] = "flush" /\ batchHeld[b] # 0
  /\ shown' = [shown EXCEPT ![b] = batchHeld[b]]
  /\ batchHeld' = [batchHeld EXCEPT ![b] = 0]
  /\ UNCHANGED <<hubVars, phase, buf, held, batch, init, since, got, missed,
                 cast>>

\* A flush that fails or times out drops the backlog and leaves the socket
\* pending; the handler goes on to its receive loop.
FlushFails(b) ==
  /\ phase[b] = "flush" /\ ~BatchEmpty(b)
  /\ phase' = [phase EXCEPT ![b] = "stuck"]
  /\ batch' = [batch EXCEPT ![b] = <<>>]
  /\ batchHeld' = [batchHeld EXCEPT ![b] = 0]
  /\ buf' = [buf EXCEPT ![b] = <<>>]
  /\ held' = [held EXCEPT ![b] = 0]
  /\ UNCHANGED <<hubVars, init, since, seenVars, cast>>

\* cleanup_browser_disconnect, from the route's finally.
Leave(b) ==
  /\ phase[b] \notin {"new", "gone"}
  /\ phase' = [phase EXCEPT ![b] = "gone"]
  /\ buf' = [buf EXCEPT ![b] = <<>>]
  /\ held' = [held EXCEPT ![b] = 0]
  /\ batch' = [batch EXCEPT ![b] = <<>>]
  /\ batchHeld' = [batchHeld EXCEPT ![b] = 0]
  /\ UNCHANGED <<hubVars, init, since, seenVars, cast>>

-----------------------------------------------------------------------------
(* Broadcasts that need no fence. *)

\* Mutant: the map is rebuilt from the failed sockets alone.
PhaseOfFailed(failed) == [b \in failed |-> "dying"]
\* Some of the sockets a broadcast reaches fail or time out.
PhaseAfter(failed) ==
  [b \in Browser |-> IF b \in failed THEN "dying" ELSE phase[b]]

\* A delta: buffered for pending browsers that have room, sent to the others.
BroadcastDelta ==
  /\ kept < MaxDelta
  /\ kept' = kept + 1
  /\ \E failed \in SUBSET Reached :
       /\ phase' = PhaseAfter(failed)
       /\ got' = [b \in Browser |->
                    IF b \in Reached \ failed THEN Append(got[b], kept + 1)
                    ELSE got[b]]
  /\ buf' = [b \in Browser |->
               IF Pending(b) /\ Buffered(b) < Cap
                 THEN Append(buf[b], kept + 1) ELSE buf[b]]
  /\ missed' = [b \in Browser |->
                  IF Pending(b) /\ Buffered(b) >= Cap
                    THEN missed[b] \cup {kept + 1} ELSE missed[b]]
  /\ UNCHANGED <<worker, screen, held, batch, batchHeld, init, since,
                 shown, cast>>

\* broadcast_hijack_state, and every frame that is not held for pending
\* browsers: they are skipped, the others may prove dead.
BroadcastStatus ==
  /\ \E failed \in SUBSET Reached : phase' = PhaseAfter(failed)
  /\ UNCHANGED <<hubVars, buf, held, batch, batchHeld, init, since, seenVars,
                 cast>>

\* remove_dead_browsers
RemoveDead(b) ==
  /\ phase[b] = "dying"
  /\ phase' = [phase EXCEPT ![b] = "dropped"]
  /\ UNCHANGED <<hubVars, buf, held, batch, batchHeld, init, since, seenVars,
                 cast>>

-----------------------------------------------------------------------------
(* Snapshots: one handler per worker socket commits and then broadcasts. *)

RegisterWorker(w) ==
  /\ cast[w].stage = "unused"
  /\ worker' = w
  /\ cast' = [cast EXCEPT ![w].stage = "idle"]
  /\ UNCHANGED <<screen, kept, windowVars, seenVars>>

\* deregister_worker, or a failed send to the worker.
WorkerLost ==
  /\ worker # NULL
  /\ worker' = NULL
  /\ UNCHANGED <<screen, kept, windowVars, seenVars, cast>>

\* commit_snapshot_event drops the frame of a superseded socket.
Commit(w) ==
  /\ cast[w].stage = "idle" /\ worker = w
  /\ screen < MaxSeq
  /\ screen' = screen + 1
  /\ cast' = [cast EXCEPT ![w].stage = "waiting", ![w].n = screen + 1]
  /\ UNCHANGED <<worker, kept, windowVars, seenVars>>

\* _is_current_snapshot
Current(w) == worker = w /\ screen = cast[w].n

\* Mutant: no fence.
NoFence == {}
\* st.snapshot_egress_fence is held from the second check to the last send.
FenceHolders == {w \in Socket : cast[w].stage \in {"gate", "sending"}}

\* Mutant: pending browsers are only skipped.
TakeSkipping(w) ==
  /\ cast[w].stage = "waiting" /\ FenceHolders = {}
  /\ Current(w)
  /\ cast' = [cast EXCEPT ![w].stage = "gate", ![w].to = Reached]
  /\ UNCHANGED <<hubVars, windowVars, seenVars>>

\* Under fence and lock: hold the snapshot for pending browsers, in place of
\* the one they have, and choose the others as receivers.
Take(w) ==
  /\ cast[w].stage = "waiting" /\ FenceHolders = {}
  /\ Current(w)
  /\ held' = [b \in Browser |-> IF Pending(b) THEN cast[w].n ELSE held[b]]
  /\ cast' = [cast EXCEPT ![w].stage = "gate", ![w].to = Reached]
  /\ UNCHANGED <<hubVars, phase, buf, batch, batchHeld, init, since, seenVars>>

\* The output policy gate may await: the check is repeated before the sends.
Revalidate(w) ==
  /\ cast[w].stage = "gate"
  /\ Current(w)
  /\ cast' = [cast EXCEPT ![w].stage = "sending"]
  /\ UNCHANGED <<hubVars, windowVars, seenVars>>

\* Mutant: a broadcast found stale after the gate never gives up.
AbortEarly(w) ==
  /\ cast[w].stage = "waiting"
  /\ ~Current(w)
  /\ cast' = [cast EXCEPT ![w].stage = "idle", ![w].to = {}]
  /\ UNCHANGED <<hubVars, windowVars, seenVars>>

\* Any of the three checks may find a newer snapshot or another worker.
Abort(w) ==
  /\ cast[w].stage \in {"waiting", "gate"}
  /\ ~Current(w)
  /\ cast' = [cast EXCEPT ![w].stage = "idle", ![w].to = {}]
  /\ UNCHANGED <<hubVars, windowVars, seenVars>>

\* The sends run concurrently, so each receiver is its own step.
SendSnapshot(w, b) ==
  /\ cast[w].stage = "sending" /\ b \in cast[w].to
  /\ \/ /\ shown' = [shown EXCEPT ![b] = cast[w].n]
        /\ cast' = [cast EXCEPT ![w].to = @ \ {b}]
        /\ UNCHANGED phase
     \/ /\ phase' = [phase EXCEPT ![b] = IF b \in Reached THEN "dying" ELSE @]
        /\ cast' = [cast EXCEPT ![w].to = @ \ {b}, ![w].dead = @ \cup {b}]
        /\ UNCHANGED shown
  /\ UNCHANGED <<hubVars, buf, held, batch, batchHeld, init, since, got,
                 missed>>

\* Dead receivers are removed before the fence is released.
Sent(w) ==
  /\ cast[w].stage = "sending" /\ cast[w].to = {}
  /\ phase' = [b \in Browser |->
                 IF b \in cast[w].dead \cap Reached THEN "dropped"
                 ELSE phase[b]]
  /\ cast' = [cast EXCEPT ![w].stage = "idle", ![w].dead = {}]
  /\ UNCHANGED <<hubVars, buf, held, batch, batchHeld, init, since, seenVars>>

-----------------------------------------------------------------------------
Init ==
  /\ worker = NULL /\ screen = 0 /\ kept = 0
  /\ phase = [b \in Browser |-> "new"]
  /\ buf = [b \in Browser |-> <<>>] /\ held = [b \in Browser |-> 0]
  /\ batch = [b \in Browser |-> <<>>] /\ batchHeld = [b \in Browser |-> 0]
  /\ init = [b \in Browser |-> 0] /\ since = [b \in Browser |-> 0]
  /\ got = [b \in Browser |-> <<>>] /\ missed = [b \in Browser |-> {}]
  /\ shown = [b \in Browser |-> 0]
  /\ cast = [w \in Socket |->
               [stage |-> "unused", n |-> 0, to |-> {}, dead |-> {}]]

Flush(b) ==
  \/ Activate(b) \/ TakeBatch(b)
  \/ FlushDelta(b) \/ FlushSnapshot(b) \/ FlushFails(b)

BrowserStep(b) ==
  Register(b) \/ Hello(b) \/ Flush(b) \/ Leave(b) \/ RemoveDead(b)

Publish(w) ==
  \/ Take(w) \/ Revalidate(w) \/ Abort(w) \/ Sent(w)
  \/ \E b \in Browser : SendSnapshot(w, b)

WorkerStep(w) == RegisterWorker(w) \/ Commit(w) \/ Publish(w)

Next ==
  \/ \E b \in Browser : BrowserStep(b)
  \/ \E w \in Socket : WorkerStep(w)
  \/ BroadcastDelta \/ BroadcastStatus \/ WorkerLost

Spec == Init /\ [][Next]_vars

\* Every send of a flush and of a broadcast has a timeout, and the policy gate
\* answers; the hello has no timeout, so nothing is assumed of it.
Fairness ==
  /\ \A b \in Browser : WF_vars(Flush(b))
  /\ \A w \in Socket : WF_vars(Publish(w))

FairSpec == Spec /\ Fairness

-----------------------------------------------------------------------------
(* Properties. *)

TypeOK ==
  /\ worker \in Socket \cup {NULL}
  /\ screen \in Nat /\ kept \in Nat
  /\ phase \in [Browser -> Phase]
  /\ buf \in [Browser -> Seq(Nat)] /\ batch \in [Browser -> Seq(Nat)]
  /\ held \in [Browser -> Nat] /\ batchHeld \in [Browser -> Nat]
  /\ init \in [Browser -> Nat] /\ since \in [Browser -> Nat]
  /\ got \in [Browser -> Seq(Nat)] /\ missed \in [Browser -> SUBSET Nat]
  /\ shown \in [Browser -> Nat]
  /\ cast \in [Socket -> Cast]

\* A browser that never finishes its startup, and one whose flush failed, keep
\* at most the cap and one snapshot.
BufferBounded == \A b \in Browser : Len(buf[b]) <= Cap

\* What b has received, is being sent and is owed, in that order.
Feed(b) == got[b] \o batch[b] \o buf[b]
Joining(b) == phase[b] \in {"hello", "flush", "live"}

\* No frame overtakes another: not the ones broadcast while the backlog goes
\* out, and not the ones sent directly once the browser is live.
FeedInOrder ==
  \A b \in Browser : Joining(b) =>
    \A i, j \in 1..Len(Feed(b)) : i < j => Feed(b)[i] < Feed(b)[j]

\* Nothing broadcast since registration is lost, except what the cap refused;
\* and nothing older is replayed.
FeedComplete ==
  \A b \in Browser : Joining(b) =>
    {Feed(b)[i] : i \in 1..Len(Feed(b))} = (since[b] + 1)..kept \ missed[b]

\* The screen b will show when what is on its way has arrived.
Coming(b) ==
  IF held[b] # 0 THEN held[b]
  ELSE IF batchHeld[b] # 0 THEN batchHeld[b]
  ELSE IF phase[b] = "hello" THEN init[b]
  ELSE shown[b]

\* The handler of w still has to deliver its snapshot to b.
OnItsWay(w, b) ==
  \/ cast[w].stage = "waiting"
  \/ cast[w].stage \in {"gate", "sending"} /\ b \in cast[w].to

\* The latest screen is never lost to a joining browser: it is shown, held for
\* it, or still to be sent by its committer, unless that worker was lost.
ScreenReaches ==
  \A b \in Browser : Joining(b) =>
    \/ Coming(b) = screen
    \/ \E w \in Socket : /\ cast[w].n = screen
                         /\ worker = w => OnItsWay(w, b)

\* A browser's screen never goes back to an older snapshot.
ScreenAdvances == [][\A b \in Browser : shown'[b] >= shown[b]]_vars

\* Whatever fails, a browser that starts up gets out of its window (live, or
\* dropped), and the snapshot fence is always released: no browser and no later
\* snapshot waits for ever (as long as the backlog does not grow for ever).
NobodyWaits ==
  /\ \A b \in Browser : phase[b] = "flush" ~> phase[b] # "flush"
  /\ \A w \in Socket : cast[w].stage = "waiting" ~> cast[w].stage = "idle"
=============================================================================
