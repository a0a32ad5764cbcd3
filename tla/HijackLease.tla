----------------------------- MODULE HijackLease -----------------------------
(***************************************************************************)
(* The hijack lease of one worker, as the terminal hub arbitrates it.      *)
(*                                                                         *)
(* A worker (a terminal process behind a WebSocket) can be taken over by a *)
(* dashboard browser (hijack_owner) or by a REST client (hijack_session).  *)
(* The taker has the worker paused, types into it, and gives it back with  *)
(* a resume.  The hub is one asyncio process: the in-memory section under  *)
(* hub._lock is the atomic step, every await between two sections lets any *)
(* other task run.  A second, per-worker lock, owned_input_fence, is held  *)
(* ACROSS a send to the worker; the operations that change the owner wait  *)
(* for it.                                                                 *)
(*                                                                         *)
(* Time appears only as leases going stale (OwnerExpires, SessExpires): a  *)
(* stale lease keeps its slot until a sweep or a new owner removes it.     *)
(* The registry entry is that of a worker watched by at least one viewer,  *)
(* so it is never pruned.                                                  *)
(***************************************************************************)
EXTENDS Naturals

CONSTANTS
  Browser,        \* dashboard WebSockets of admins, each one handler task
  Rest,           \* REST acquire requests; each is also the hijack_id it mints
  RestOp,         \* concurrent REST requests made with an issued hijack_id
  Sweeper,        \* periodic lease-cleanup tasks, one per WebSocket handler
  Cancellable,    \* the sweepers of browser handlers, cancelled on disconnect
  HubTask,        \* force_release and dead-socket removal run by the hub
  Socket,         \* worker WebSockets, in the order they may register
  LateHeartbeats, \* whether a heartbeat can be held up between check and extend
  ModeAsked,      \* the input modes workers and operators ask for
  MaxGen,         \* bound: dashboards ask for nothing from this generation on
  NULL

Task == Browser \cup Rest \cup RestOp \cup Sweeper \cup HubTask

ASSUME TaskAssumption ==
  /\ Cancellable \subseteq Sweeper
  /\ LateHeartbeats \in BOOLEAN
  /\ ModeAsked \subseteq {"hijack", "open"}
  /\ MaxGen \in Nat
  /\ NULL \notin Task \cup Socket
  /\ Browser \cap (Rest \cup RestOp \cup Sweeper \cup HubTask) = {}
  /\ Rest \cap (RestOp \cup Sweeper \cup HubTask) = {}
  /\ RestOp \cap (Sweeper \cup HubTask) = {}
  /\ Sweeper \cap HubTask = {}

VARIABLES
  \* the worker's registry entry (WorkerTermState)
  worker,      \* worker_ws: the current worker socket, or NULL
  conn,        \* browsers: the dashboard sockets broadcasts reach
  owner,       \* hijack_owner, or NULL
  ownerLive,   \* hijack_owner_expires_at is still in the future
  sess,        \* hijack_session (its hijack_id), or NULL
  sessLive,    \* lease_expires_at is still in the future
  gen,         \* ownership_generation
  pending,     \* hijack_pending: the REST acquire pausing the worker, or NULL
  mode,        \* input_mode
  decided,     \* input_mode_set_by_operator
  expiredLast, \* the last hijack lifecycle event recorded is an expiry
  \* locks, tasks and the far end
  fence,       \* the task holding owned_input_fence across a send, or NULL
  pc,          \* where each task stands
  ret,         \* where a task goes once its resume is dealt with
  cap,         \* the generation a browser captured for the input it holds
  rid,         \* the hijack_id a REST request was made with
  kind,        \* what that request asks for
  owned,       \* a browser handler's owned_hijack flag
  issued,      \* the hijack_ids returned to their clients
  ctl          \* per worker socket, the last pause or resume it was sent

entryVars == <<worker, conn, owner, ownerLive, sess, sessLive, gen, pending>>
modeVars  == <<mode, decided>>
taskVars  == <<cap, rid, kind, owned, issued>>
vars == <<worker, conn, owner, ownerLive, sess, sessLive, gen, pending, mode,
          decided, expiredLast, fence, pc, ret, cap, rid, kind, owned, issued,
          ctl>>

Kind == {"heartbeat", "send", "release"}

\* A task at one of these points holds the fence while it talks to the worker.
FencedPc ==
  {"sending", "resuming", "forcing", "pausing_rest", "finalise", "repausing"}

Pc == FencedPc \cup
      {"idle", "done", "recheck", "resume", "expire", "swept", "released",
       "parted", "pausing", "acquiring", "announce", "holding", "reserve",
       "rollback", "check", "extend", "deliver", "release", "reclaimed",
       "repause", "repause_any", "unreclaim"}

Ret == {"idle", "done", "swept", "released", "parted"}

TypeOK ==
  /\ worker \in Socket \cup {NULL}
  /\ conn \subseteq Browser
  /\ owner \in Browser \cup {NULL}
  /\ sess \in Rest \cup {NULL}
  /\ ownerLive \in BOOLEAN /\ sessLive \in BOOLEAN
  /\ gen \in Nat
  /\ pending \in Rest \cup {NULL}
  /\ mode \in {"hijack", "open"} /\ decided \in BOOLEAN
  /\ expiredLast \in BOOLEAN
  /\ fence \in Task \cup {NULL}
  /\ pc \in [Task -> Pc]
  /\ ret \in [Task -> Ret]
  /\ cap \in [Browser -> Nat]
  /\ rid \in [RestOp -> Rest \cup {NULL}]
  /\ kind \in [RestOp -> Kind]
  /\ owned \in [Browser -> BOOLEAN]
  /\ issued \subseteq Rest
  /\ ctl \in [Socket -> {"unused", "fresh", "paused", "running"}]

-----------------------------------------------------------------------------
(* Predicates of the entry (store.py, presence.py). *)

DashActive == owner # NULL /\ ownerLive
RestActive == sess # NULL /\ sessLive
Hijacked   == DashActive \/ RestActive

\* Mutant: whose lease it is goes unasked.
OwnsAny(b) == DashActive
Owns(b) == DashActive /\ owner = b

\* The id alone decides, not the expiry.
\* Mutant: any session will do.
LeaseIsAny(r) == sess # NULL
LeaseIs(r) == sess = r

\* The slot a new acquire needs.
\* Mutants: the other kind of holder, or any holder, goes unasked.
SlotFreeOfDash == ~DashActive /\ pending = NULL
SlotUnreserved == pending = NULL
SlotFree == ~Hijacked /\ pending = NULL

\* Mutant: resumes without looking.
MayResumeBlind == worker # NULL
MayResume == ~Hijacked /\ worker # NULL

CanSendInput(b) == IF mode = "open" THEN b \in conn ELSE Owns(b)

(* Steps the operations are built from. *)

Goto(t, label) == pc' = [pc EXCEPT ![t] = label]

\* Wait for, take and leave the ownership fence.
\* Mutant: nobody waits.
FenceIgnored == TRUE
FenceFree    == fence = NULL
TakeFence(t) == fence' = t
LeaveFence   == fence' = NULL

\* The worker receives a control frame; one sent to a socket the hub has
\* since dropped reaches nobody it still talks to.
Control(c) == ctl' = IF worker = NULL THEN ctl ELSE [ctl EXCEPT ![worker] = c]

ClearOwner == owner' = NULL /\ ownerLive' = FALSE
ClearSess  == sess' = NULL /\ sessLive' = FALSE

NewEpoch  == gen' = gen + 1

\* After a lease ends, resume unless something keeps the worker; t continues at
\* label either way.
\* Mutant: loops back to the check.
ThenResumeAgain(t, keep, label) ==
  /\ Goto(t, IF keep THEN label ELSE "recheck")
  /\ ret' = [ret EXCEPT ![t] = "recheck"]
ThenResume(t, keep, label) ==
  /\ Goto(t, IF keep THEN label ELSE "recheck")
  /\ ret' = [ret EXCEPT ![t] = label]

-----------------------------------------------------------------------------
(* Sending a resume: check_still_hijacked, then send_worker_if_unowned.    *)

Recheck(t) ==
  /\ pc[t] = "recheck"
  /\ Goto(t, IF Hijacked THEN ret[t] ELSE "resume")
  /\ UNCHANGED <<entryVars, modeVars, taskVars, expiredLast, fence, ret, ctl>>

ResumeStart(t) ==
  /\ pc[t] = "resume" /\ FenceFree
  /\ IF MayResume
       THEN Goto(t, "resuming") /\ TakeFence(t)
       ELSE Goto(t, ret[t]) /\ UNCHANGED fence
  /\ UNCHANGED <<entryVars, modeVars, taskVars, expiredLast, ret, ctl>>

\* A send that raises or times out drops the worker socket.
ResumeSent(t) ==
  /\ pc[t] = "resuming"
  /\ \/ Control("running") /\ UNCHANGED worker
     \/ worker' = NULL /\ UNCHANGED ctl
  /\ LeaveFence
  /\ Goto(t, ret[t])
  /\ UNCHANGED <<conn, owner, ownerLive, sess, sessLive, gen, pending, modeVars,
                 taskVars, expiredLast, ret>>

-----------------------------------------------------------------------------
(* Expiry sweep: cleanup_expired, run periodically by the WebSocket        *)
(* handlers and at the start of every REST request.                        *)

AfterSweep(t) ==
  CASE t \in Rest -> "reserve" [] t \in RestOp -> "check" [] OTHER -> "idle"

SweepBegin(s) ==
  /\ pc[s] = "idle"
  /\ Goto(s, "expire")
  /\ UNCHANGED <<entryVars, modeVars, taskVars, expiredLast, fence, ret, ctl>>

Expire(t) ==
  LET sessGone  == sess # NULL /\ ~sessLive
      ownerGone == owner # NULL /\ ~ownerLive
      idle      == (sess = NULL \/ sessGone) /\ (owner = NULL \/ ownerGone)
  IN
  /\ pc[t] = "expire" /\ FenceFree
  /\ IF sessGone THEN ClearSess ELSE UNCHANGED <<sess, sessLive>>
  /\ IF ownerGone THEN ClearOwner ELSE UNCHANGED <<owner, ownerLive>>
  /\ IF sessGone \/ ownerGone
       THEN /\ NewEpoch
            /\ Goto(t, IF idle THEN "resume" ELSE "swept")
            /\ ret' = [ret EXCEPT ![t] = "swept"]
       ELSE /\ Goto(t, AfterSweep(t))
            /\ UNCHANGED <<gen, ret>>
  /\ UNCHANGED <<worker, conn, pending, modeVars, taskVars, expiredLast, fence,
                 ctl>>

\* append_event: the expiry is recorded only once the resume was dealt with.
Swept(t) ==
  /\ pc[t] = "swept"
  /\ expiredLast' = TRUE
  /\ Goto(t, AfterSweep(t))
  /\ UNCHANGED <<entryVars, modeVars, taskVars, fence, ret, ctl>>

\* A browser handler leaves and cancels its sweep wherever it is waiting.  A
\* send cut short drops the worker socket.
SweepCancelled(s) ==
  /\ s \in Cancellable
  /\ pc[s] # "done"
  /\ Goto(s, "done")
  /\ IF fence = s THEN LeaveFence /\ worker' = NULL
                  ELSE UNCHANGED <<fence, worker>>
  /\ UNCHANGED <<conn, owner, ownerLive, sess, sessLive, gen, pending, modeVars,
                 taskVars, expiredLast, ret, ctl>>

-----------------------------------------------------------------------------
(* Dashboard browsers: hijack_request, hijack_release, input, disconnect.  *)

\* The open-mode check.
HijackRequest(b) ==
  /\ pc[b] = "idle"
  /\ mode = "hijack"
  /\ gen < MaxGen
  /\ Goto(b, "pausing")
  /\ UNCHANGED <<entryVars, modeVars, taskVars, expiredLast, fence, ret, ctl>>

\* send_worker(pause), outside the fence and before ownership is written.
PauseWorker(b) ==
  /\ pc[b] = "pausing"
  /\ \/ /\ worker # NULL
        /\ Control("paused")
        /\ Goto(b, "acquiring")
        /\ UNCHANGED worker
     \/ /\ worker' = NULL
        /\ Goto(b, "idle")
        /\ UNCHANGED ctl
  /\ UNCHANGED <<conn, owner, ownerLive, sess, sessLive, gen, pending, modeVars,
                 taskVars, expiredLast, fence, ret>>

WsAcquired(b) ==
  /\ worker # NULL /\ FenceFree /\ SlotFree
  /\ owner' = b /\ ownerLive' = TRUE
  /\ NewEpoch
  /\ Goto(b, "announce")
  /\ UNCHANGED ret

WsRefused(b) ==
  /\ worker # NULL
  /\ pending # NULL \/ (FenceFree /\ Hijacked)
  /\ Goto(b, "idle")
  /\ UNCHANGED <<owner, ownerLive, gen, ret>>

WsNoWorker(b) ==
  /\ worker = NULL
  /\ Goto(b, "resume")
  /\ ret' = [ret EXCEPT ![b] = "idle"]
  /\ UNCHANGED <<owner, ownerLive, gen>>

TryAcquireWs(b) ==
  /\ pc[b] = "acquiring"
  /\ WsAcquired(b) \/ WsRefused(b) \/ WsNoWorker(b)
  /\ UNCHANGED <<worker, conn, sess, sessLive, pending, modeVars, taskVars,
                 expiredLast, fence, ctl>>

\* Event hijack_acquired, and the handler's owned_hijack = True.
AnnounceWs(b) ==
  /\ pc[b] = "announce"
  /\ expiredLast' = FALSE
  /\ owned' = [owned EXCEPT ![b] = TRUE]
  /\ Goto(b, "idle")
  /\ UNCHANGED <<entryVars, modeVars, cap, rid, kind, issued, fence, ret, ctl>>

HijackRelease(b) ==
  /\ pc[b] = "idle"
  /\ Owns(b) /\ FenceFree
  /\ ClearOwner /\ NewEpoch
  /\ ThenResume(b, RestActive, "released")
  /\ UNCHANGED <<worker, conn, sess, sessLive, pending, modeVars, taskVars,
                 expiredLast, fence, ctl>>

\* Event hijack_released; the handler's owned_hijack = False.
Released(t) ==
  /\ pc[t] = "released"
  /\ expiredLast' = FALSE
  /\ owned' = [b \in Browser |-> owned[b] /\ b # t]
  /\ Goto(t, "idle")
  /\ UNCHANGED <<entryVars, modeVars, cap, rid, kind, issued, fence, ret, ctl>>

\* capture_browser_ownership / capture_dashboard_ownership, before the policy
\* gate is awaited.
CaptureInput(b) ==
  /\ pc[b] = "idle"
  /\ CanSendInput(b) \/ Owns(b)
  /\ cap' = [cap EXCEPT ![b] = gen]
  /\ Goto(b, "holding")
  /\ UNCHANGED <<entryVars, modeVars, rid, kind, owned, issued, expiredLast,
                 fence, ret, ctl>>

\* Mutant: any epoch will do.
EpochForgotten(b) == TRUE
EpochStands(b) == gen = cap[b]

\* send_owned_worker for a browser: the exact epoch captured must still stand.
SendOwnedBrowser(b) ==
  /\ pc[b] = "holding" /\ FenceFree
  /\ IF CanSendInput(b) /\ EpochStands(b) /\ worker # NULL
       THEN Goto(b, "sending") /\ TakeFence(b)
       ELSE Goto(b, "idle") /\ UNCHANGED fence
  /\ UNCHANGED <<entryVars, modeVars, taskVars, expiredLast, ret, ctl>>

\* The input reached the worker, or the send failed and dropped its socket.
InputSent(t) ==
  /\ pc[t] = "sending"
  /\ worker' \in {worker, NULL}
  /\ LeaveFence
  /\ Goto(t, "idle")
  /\ UNCHANGED <<conn, owner, ownerLive, sess, sessLive, gen, pending, modeVars,
                 taskVars, expiredLast, ret, ctl>>

(* A resume token gives a reconnecting browser its lease back. *)

\* try_reclaim_hijack_status, for a token that says its browser held the lease:
\* here ownership is written before the worker is paused.
Reclaim(b) ==
  /\ pc[b] = "idle" /\ FenceFree
  /\ worker # NULL /\ mode # "open" /\ owner = NULL /\ ~Hijacked
  /\ gen < MaxGen
  /\ owner' = b /\ ownerLive' = TRUE
  /\ NewEpoch
  /\ Goto(b, "reclaimed")
  /\ UNCHANGED <<worker, conn, sess, sessLive, pending, modeVars, taskVars,
                 expiredLast, fence, ret, ctl>>

\* A resume that reclaims nothing; the flag is lost even by a browser that owns.
ResumeWithoutLease(b) ==
  /\ pc[b] = "idle"
  /\ owned' = [owned EXCEPT ![b] = FALSE]
  /\ UNCHANGED <<entryVars, modeVars, cap, rid, kind, issued, expiredLast,
                 fence, pc, ret, ctl>>

\* With no generation captured, none is asked for when the pause is sent.
CaptureReclaim(b) ==
  /\ pc[b] = "reclaimed"
  /\ IF CanSendInput(b)
       THEN cap' = [cap EXCEPT ![b] = gen] /\ Goto(b, "repause")
       ELSE Goto(b, "repause_any") /\ UNCHANGED cap
  /\ UNCHANGED <<entryVars, modeVars, rid, kind, owned, issued, expiredLast,
                 fence, ret, ctl>>

Repause(b) ==
  /\ pc[b] \in {"repause", "repause_any"} /\ FenceFree
  /\ IF /\ CanSendInput(b) /\ worker # NULL
        /\ pc[b] = "repause_any" \/ EpochStands(b)
       THEN Goto(b, "repausing") /\ TakeFence(b)
       ELSE Goto(b, "unreclaim") /\ UNCHANGED fence
  /\ UNCHANGED <<entryVars, modeVars, taskVars, expiredLast, ret, ctl>>

\* The reclaim is undone if the pause failed or another resume consumed the
\* token first.
RepauseSent(b) ==
  /\ pc[b] = "repausing"
  /\ \/ /\ Control("paused")
        /\ UNCHANGED worker
        /\ Goto(b, "announce") \/ Goto(b, "unreclaim")
     \/ /\ worker' = NULL
        /\ Goto(b, "unreclaim")
        /\ UNCHANGED ctl
  /\ LeaveFence
  /\ UNCHANGED <<conn, owner, ownerLive, sess, sessLive, gen, pending, modeVars,
                 taskVars, expiredLast, ret>>

\* Only a reclaim that still stands is released; a resume whose token store
\* failed leaves the flag as it was.
RollbackReclaim(b) ==
  /\ pc[b] = "unreclaim" /\ FenceFree
  /\ IF Owns(b) THEN ClearOwner /\ NewEpoch
                ELSE UNCHANGED <<owner, ownerLive, gen>>
  /\ Goto(b, IF Owns(b) /\ ~RestActive THEN "resume" ELSE "idle")
  /\ ret' = [ret EXCEPT ![b] = "idle"]
  /\ owned' \in {owned, [owned EXCEPT ![b] = FALSE]}
  /\ UNCHANGED <<worker, conn, sess, sessLive, pending, modeVars, cap, rid,
                 kind, issued, expiredLast, fence, ctl>>

\* cleanup_browser_disconnect: an owner resumes the worker; a browser that
\* once owned it does so unless an expiry already has.
Disconnect(b) ==
  /\ pc[b] = "idle" /\ FenceFree
  /\ conn' = conn \ {b}
  /\ IF Owns(b)
       THEN ClearOwner /\ NewEpoch /\ ThenResume(b, RestActive, "parted")
       ELSE /\ ThenResume(b, \/ ~owned[b] \/ worker = NULL
                             \/ Hijacked \/ expiredLast, "done")
            /\ UNCHANGED <<owner, ownerLive, gen>>
  /\ UNCHANGED <<worker, sess, sessLive, pending, modeVars, taskVars,
                 expiredLast, fence, ctl>>

\* Event hijack_released; the resume is a background task that may still wait.
Parted(b) ==
  /\ ret[b] = "parted"
  /\ pc[b] \in {"resume", "resuming", "parted"}
  /\ expiredLast' = FALSE
  /\ ret' = [ret EXCEPT ![b] = "done"]
  /\ Goto(b, IF pc[b] = "parted" THEN "done" ELSE pc[b])
  /\ UNCHANGED <<entryVars, modeVars, taskVars, fence, ctl>>

-----------------------------------------------------------------------------
(* REST hijack acquire: reserve, pause the worker, finalise.               *)

AcquireBegin(r) ==
  /\ pc[r] = "idle"
  /\ Goto(r, "expire")
  /\ UNCHANGED <<entryVars, modeVars, taskVars, expiredLast, fence, ret, ctl>>

\* Every refusal but already_hijacked is followed by a compensating resume.
GiveUp(r) ==
  /\ Goto(r, "resume")
  /\ ret' = [ret EXCEPT ![r] = "done"]

Reserve(r) ==
  /\ pc[r] = "reserve"
  /\ \/ /\ worker = NULL \/ (FenceFree /\ mode = "open")
        /\ GiveUp(r)
        /\ UNCHANGED <<pending, fence>>
     \/ /\ worker # NULL
        /\ pending # NULL \/ (FenceFree /\ mode # "open" /\ Hijacked)
        /\ Goto(r, "done")
        /\ UNCHANGED <<pending, fence, ret>>
     \/ /\ worker # NULL /\ FenceFree /\ mode # "open" /\ SlotFree
        /\ pending' = r
        /\ TakeFence(r)
        /\ Goto(r, "pausing_rest")
        /\ UNCHANGED ret
  /\ UNCHANGED <<worker, conn, owner, ownerLive, sess, sessLive, gen, modeVars,
                 taskVars, expiredLast, ctl>>

RestPauseSent(r) ==
  /\ pc[r] = "pausing_rest"
  /\ Control("paused")
  /\ Goto(r, "finalise")
  /\ UNCHANGED <<entryVars, modeVars, taskVars, expiredLast, fence, ret>>

RestPauseFailed(r) ==
  /\ pc[r] = "pausing_rest"
  /\ worker' = NULL
  /\ gen' = IF worker = NULL THEN gen ELSE gen + 1
  /\ pending' = NULL
  /\ LeaveFence
  /\ GiveUp(r)
  /\ UNCHANGED <<conn, owner, ownerLive, sess, sessLive, modeVars, taskVars,
                 expiredLast, ctl>>

Finalise(r) ==
  /\ pc[r] = "finalise"
  /\ pending' = NULL
  /\ LeaveFence
  /\ IF worker # NULL
       THEN /\ sess' = r /\ sessLive' = TRUE
            /\ NewEpoch
            /\ Goto(r, "announce")
            /\ UNCHANGED ret
       ELSE GiveUp(r) /\ UNCHANGED <<sess, sessLive, gen>>
  /\ UNCHANGED <<worker, conn, owner, ownerLive, modeVars, taskVars,
                 expiredLast, ctl>>

\* Event hijack_acquired, then the response that carries the hijack_id.
AnnounceRest(r) ==
  /\ pc[r] = "announce"
  /\ expiredLast' = FALSE
  /\ issued' = issued \cup {r}
  /\ Goto(r, "done")
  /\ UNCHANGED <<entryVars, modeVars, cap, rid, kind, owned, fence, ret, ctl>>

\* The route's and the manager's finally blocks drop the reservation.
DropReservation(r) == pending' = IF pending = r THEN NULL ELSE pending

DropFence(r) == fence' = IF fence = r THEN NULL ELSE fence

\* The request is cancelled inside the guarded part of the route; a pause cut
\* short may have reached the worker.
AcquireCancelled(r) ==
  /\ pc[r] \in {"reserve", "pausing_rest", "finalise", "announce"}
  /\ DropReservation(r)
  /\ DropFence(r)
  /\ \/ UNCHANGED ctl
     \/ pc[r] = "pausing_rest" /\ Control("paused")
  /\ Goto(r, "rollback")
  /\ UNCHANGED <<worker, conn, owner, ownerLive, sess, sessLive, gen, modeVars,
                 taskVars, expiredLast, ret>>

\* The route's finally block: release exactly this lease, then resume.
\* Mutant: the worker is left paused.
RollbackSilent(r) ==
  /\ pc[r] = "rollback" /\ FenceFree
  /\ IF LeaseIs(r) THEN ClearSess /\ NewEpoch
                   ELSE UNCHANGED <<sess, sessLive, gen>>
  /\ Goto(r, "done")
  /\ UNCHANGED <<worker, conn, owner, ownerLive, pending, modeVars, taskVars,
                 expiredLast, fence, ret, ctl>>
Rollback(r) ==
  /\ pc[r] = "rollback" /\ FenceFree
  /\ IF LeaseIs(r) THEN ClearSess /\ NewEpoch
                   ELSE UNCHANGED <<sess, sessLive, gen>>
  /\ GiveUp(r)
  /\ UNCHANGED <<worker, conn, owner, ownerLive, pending, modeVars, taskVars,
                 expiredLast, fence, ctl>>

-----------------------------------------------------------------------------
(* REST requests made with a hijack_id: heartbeat, send (and step), release *)

OpBegin(o, k, r) ==
  /\ pc[o] = "idle"
  /\ r \in issued
  /\ kind' = [kind EXCEPT ![o] = k]
  /\ rid' = [rid EXCEPT ![o] = r]
  /\ Goto(o, "expire")
  /\ UNCHANGED <<entryVars, modeVars, cap, owned, issued, expiredLast, fence,
                 ret, ctl>>

\* get_rest_session after its sweep.  Unless hub._lock is contended the
\* heartbeat extends the lease it has just found live without a suspension.
Check(o) ==
  /\ pc[o] = "check"
  /\ Goto(o, IF ~(RestActive /\ LeaseIs(rid[o])) THEN "idle"
             ELSE CASE kind[o] = "heartbeat" ->
                         IF LateHeartbeats THEN "extend" ELSE "idle"
                    [] kind[o] = "send"      -> "deliver"
                    [] kind[o] = "release"   -> "release")
  /\ UNCHANGED <<entryVars, modeVars, taskVars, expiredLast, fence, ret, ctl>>

\* extend_lease: the id and the owner are checked, the expiry is not.
Extend(o) ==
  /\ pc[o] = "extend"
  /\ sessLive' = (sessLive \/ LeaseIs(rid[o]))
  /\ Goto(o, "idle")
  /\ UNCHANGED <<worker, conn, owner, ownerLive, sess, gen, pending, modeVars,
                 taskVars, expiredLast, fence, ret, ctl>>

SendOwnedRest(o) ==
  /\ pc[o] = "deliver" /\ FenceFree
  /\ IF RestActive /\ LeaseIs(rid[o]) /\ worker # NULL
       THEN Goto(o, "sending") /\ TakeFence(o)
       ELSE Goto(o, "idle") /\ UNCHANGED fence
  /\ UNCHANGED <<entryVars, modeVars, taskVars, expiredLast, ret, ctl>>

ReleaseRest(o) ==
  /\ pc[o] = "release" /\ FenceFree
  /\ IF LeaseIs(rid[o])
       THEN ClearSess /\ NewEpoch /\ ThenResume(o, DashActive, "released")
       ELSE Goto(o, "idle") /\ UNCHANGED <<sess, sessLive, gen, ret>>
  /\ UNCHANGED <<worker, conn, owner, ownerLive, pending, modeVars, taskVars,
                 expiredLast, fence, ctl>>

-----------------------------------------------------------------------------
(* Operations of the hub itself. *)

ForceRelease(h) ==
  /\ pc[h] = "idle" /\ FenceFree
  /\ sess # NULL \/ DashActive
  /\ ClearSess
  /\ IF DashActive THEN ClearOwner ELSE UNCHANGED <<owner, ownerLive>>
  /\ NewEpoch
  /\ TakeFence(h)
  /\ Goto(h, "forcing")
  /\ UNCHANGED <<worker, conn, pending, modeVars, taskVars, expiredLast, ret,
                 ctl>>

ForceSent(h) ==
  /\ pc[h] = "forcing"
  /\ \/ Control("running") /\ UNCHANGED worker
     \/ worker' = NULL /\ UNCHANGED ctl
  /\ LeaveFence
  /\ Goto(h, "idle")
  /\ UNCHANGED <<conn, owner, ownerLive, sess, sessLive, gen, pending, modeVars,
                 taskVars, expiredLast, ret>>

\* remove_dead_browsers: a broadcast found b's socket dead.
RemoveDead(h, b) ==
  /\ pc[h] = "idle" /\ FenceFree
  /\ b \in conn
  /\ conn' = conn \ {b}
  /\ IF Owns(b) THEN ClearOwner /\ NewEpoch /\ ThenResume(h, RestActive, "idle")
                ELSE UNCHANGED <<owner, ownerLive, gen, pc, ret>>
  /\ UNCHANGED <<worker, sess, sessLive, pending, modeVars, taskVars,
                 expiredLast, fence, ctl>>

-----------------------------------------------------------------------------
(* The worker's connection and its input mode. *)

\* register_worker on an existing entry: a stale session goes, and so does a
\* dashboard owner unless a REST lease is still valid.
RegisterWorker(w) ==
  LET expired == sess # NULL /\ ~sessLive
      cleared == expired \/ (sess = NULL /\ owner # NULL)
  IN
  /\ ctl[w] = "unused" /\ FenceFree
  /\ worker' = w
  /\ ctl' = [ctl EXCEPT ![w] = "fresh"]
  /\ IF expired THEN ClearSess ELSE UNCHANGED <<sess, sessLive>>
  /\ IF cleared THEN ClearOwner ELSE UNCHANGED <<owner, ownerLive>>
  /\ NewEpoch
  /\ UNCHANGED <<conn, pending, modeVars, taskVars, expiredLast, fence, pc,
                 ret>>

\* deregister_worker of the current socket, and disconnect_worker.
WorkerGone ==
  /\ worker # NULL /\ FenceFree
  /\ worker' = NULL
  /\ ClearSess /\ ClearOwner /\ NewEpoch
  /\ UNCHANGED <<conn, pending, modeVars, taskVars, expiredLast, fence, pc, ret,
                 ctl>>

\* set_worker_hello: a hello may raise the mode, not lower a decided one.  It
\* may come from a socket replaced since its handler last looked.
WorkerHello(m) ==
  /\ ~(m = "open" /\ mode = "hijack" /\ (decided \/ Hijacked))
  /\ \E w \in Socket : ctl[w] # "unused"
  /\ mode' = m
  /\ decided' = (decided /\ m = mode)
  /\ UNCHANGED <<entryVars, taskVars, expiredLast, fence, pc, ret, ctl>>

SetInputMode(m) ==
  /\ ~(m = "open" /\ Hijacked)
  /\ mode' = m
  /\ decided' = TRUE
  /\ UNCHANGED <<entryVars, taskVars, expiredLast, fence, pc, ret, ctl>>

(* Time. *)

OwnerExpires ==
  /\ DashActive
  /\ ownerLive' = FALSE
  /\ UNCHANGED <<worker, conn, owner, sess, sessLive, gen, pending, modeVars,
                 taskVars, expiredLast, fence, pc, ret, ctl>>

SessExpires ==
  /\ RestActive
  /\ sessLive' = FALSE
  /\ UNCHANGED <<worker, conn, owner, ownerLive, sess, gen, pending, modeVars,
                 taskVars, expiredLast, fence, pc, ret, ctl>>

-----------------------------------------------------------------------------
Init ==
  /\ worker = NULL
  /\ conn = Browser
  /\ owner = NULL /\ ownerLive = FALSE
  /\ sess = NULL /\ sessLive = FALSE
  /\ gen = 0
  /\ pending = NULL
  /\ mode = "hijack" /\ decided = FALSE
  /\ expiredLast = FALSE
  /\ fence = NULL
  /\ pc = [t \in Task |-> "idle"]
  /\ ret = [t \in Task |-> "idle"]
  /\ cap = [b \in Browser |-> 0]
  /\ rid = [o \in RestOp |-> NULL]
  /\ kind = [o \in RestOp |-> "heartbeat"]
  /\ owned = [b \in Browser |-> FALSE]
  /\ issued = {}
  /\ ctl = [w \in Socket |-> "unused"]

\* What the code does by itself once an operation has begun.
Step(t) ==
  \/ Recheck(t) \/ ResumeStart(t) \/ ResumeSent(t)
  \/ Expire(t) \/ Swept(t)
  \/ Released(t) \/ InputSent(t)

BrowserStep(b) ==
  \/ PauseWorker(b) \/ TryAcquireWs(b) \/ AnnounceWs(b)
  \/ SendOwnedBrowser(b) \/ Parted(b)
  \/ CaptureReclaim(b) \/ Repause(b) \/ RepauseSent(b) \/ RollbackReclaim(b)

RestStep(r) ==
  \/ Reserve(r) \/ RestPauseSent(r) \/ RestPauseFailed(r) \/ Finalise(r)
  \/ AnnounceRest(r) \/ Rollback(r)

OpStep(o) == Check(o) \/ Extend(o) \/ SendOwnedRest(o) \/ ReleaseRest(o)

Run(t) ==
  \/ Step(t)
  \/ t \in Browser /\ BrowserStep(t)
  \/ t \in Rest /\ RestStep(t)
  \/ t \in RestOp /\ OpStep(t)
  \/ t \in Sweeper /\ SweepBegin(t)
  \/ t \in HubTask /\ ForceSent(t)

\* What clients, the hub's own callers, the network and the clock do.
BrowserAct(b) ==
  \/ HijackRequest(b) \/ HijackRelease(b) \/ CaptureInput(b) \/ Disconnect(b)
  \/ Reclaim(b) \/ ResumeWithoutLease(b)

HubAct(h) == ForceRelease(h) \/ \E b \in Browser : RemoveDead(h, b)

RestAct(r) == AcquireBegin(r) \/ AcquireCancelled(r)

WorkerAct ==
  \/ \E w \in Socket : RegisterWorker(w)
  \/ WorkerGone
  \/ \E m \in ModeAsked : WorkerHello(m) \/ SetInputMode(m)

Next ==
  \/ \E t \in Task : Run(t)
  \/ \E b \in Browser : BrowserAct(b)
  \/ \E r \in Rest : RestAct(r)
  \/ \E o \in RestOp, k \in Kind, r \in Rest : OpBegin(o, k, r)
  \/ \E s \in Sweeper : SweepCancelled(s)
  \/ \E h \in HubTask : HubAct(h)
  \/ WorkerAct
  \/ OwnerExpires \/ SessExpires

Spec == Init /\ [][Next]_vars

\* asyncio locks are granted in the order they are asked for, so a task waiting
\* for the fence is served; every handler runs its sweep once a second.
FairSpec == Spec /\ \A t \in Task \ Cancellable : SF_vars(Run(t))

-----------------------------------------------------------------------------
(* Safety. *)

\* The fence is held by exactly the task that is talking to the worker: no path
\* through an operation, failure or cancellation included, keeps it or leaves
\* it while another task believes it holds it.
FenceDiscipline == \A t \in Task : pc[t] \in FencedPc <=> fence = t

\* hijack_pending is set exactly while its REST acquire is pausing the worker;
\* a leaked reservation would refuse every later hijack.
PendingIsReservation ==
  \A r \in Rest : pending = r <=> pc[r] \in {"pausing_rest", "finalise"}

\* No dashboard becomes the owner between a REST acquire's reservation and its
\* lease, although the lease is written only after the pause was awaited.
ReservationExcludesDash ==
  \A r \in Rest : pc[r] \in {"pausing_rest", "finalise"} => ~DashActive

\* Input on its way to the worker was let through under the ownership that
\* still stands: whatever was awaited between the check and the send, no
\* handover happened since.
InputPinned ==
  /\ \A b \in Browser : pc[b] = "sending" => gen = cap[b]
  /\ \A o \in RestOp : pc[o] = "sending" => sess = rid[o]

\* A dashboard and a REST client never hold the worker together.
ExclusiveOwnership == ~(DashActive /\ RestActive)

\* A resume goes out only while nobody holds the worker.
NoResumeUnderLease ==
  \A t \in Task : pc[t] \in {"resuming", "forcing"} => ~Hijacked

\* From the pause of a REST acquire until its lease ends the worker is not told
\* to run on: no resume owed to an earlier holder lands after that pause.
RestLeaseNotResumed ==
  worker # NULL /\ (RestActive \/ \E r \in Rest : pc[r] = "finalise")
    => ctl[worker] # "running"

-----------------------------------------------------------------------------
(* What a step may never do. *)

PinsWorker == fence # NULL => worker' \in {worker, NULL}

CountsEpoch == owner' # owner \/ sess' # sess => gen' > gen

EndsRestLawfully ==
  RestActive /\ sess' # sess =>
    \/ worker' = NULL
    \/ \E h \in HubTask : pc'[h] = "forcing"
    \/ pc[sess] = "rollback"
    \/ \E o \in RestOp : pc[o] = "release" /\ rid[o] = sess /\ pc'[o] # pc[o]

EndsDashLawfully ==
  DashActive /\ owner' # owner =>
    \/ worker' # worker \/ worker = NULL
    \/ \E h \in HubTask : pc'[h] = "forcing"
    \/ owner \notin conn'
    \/ pc[owner] \in {"idle", "unreclaim"} /\ pc'[owner] # pc[owner]

SharesByLateHeartbeat ==
  ExclusiveOwnership /\ ~ExclusiveOwnership' =>
    \E o \in RestOp : pc[o] = "extend" /\ pc'[o] = "idle"

\* While a task talks to the worker the socket it talks to is not replaced:
\* it can only be lost.
FencePinsWorker == [][PinsWorker]_vars

\* Whoever changes hands does so in a new ownership generation.
EpochCounts == [][CountsEpoch]_vars

\* A live REST lease ends by its own client's release, by the rollback of its
\* own request, by force, or with the worker's socket; never by another
\* client's stale release or rollback.
OnlyHolderEndsRest == [][EndsRestLawfully]_vars

\* A live dashboard lease ends by its own browser's release or departure, by
\* force, or with the worker's socket; never by a sweep or another's release.
OnlyHolderEndsDash == [][EndsDashLawfully]_vars

\* Two live leases arise only from a heartbeat that extends a lease it checked
\* before it lapsed.
OnlyLateHeartbeatShares == [][SharesByLateHeartbeat]_vars

-----------------------------------------------------------------------------
(* What the code's comments say and its interleavings do not keep. *)

\* "Worker is paused - now atomically check-and-set ownership"
\* (browser_handlers.py, _handle_hijack_request): what is announced as a hijack
\* is one of a paused worker.
DashboardOwnerPaused ==
  DashActive /\ worker # NULL /\ pc[owner] = "announce"
    => ctl[worker] = "paused"

\* "Reject in open mode - no exclusive ownership" (_handle_hijack_request), and
\* set_worker_hello's "mode change is blocked" under a lease.
NoLeaseInOpenMode == mode = "open" => ~Hijacked

-----------------------------------------------------------------------------
(* Liveness. *)

Stranded(w) == worker = w /\ ctl[w] = "paused" /\ ~Hijacked

\* A worker left paused with nobody holding it is resumed, held again or gone.
PausedWorkerResumed == \A w \in Socket : Stranded(w) ~> ~Stranded(w)

-----------------------------------------------------------------------------
(* The promise: exclusive control with writes that no handover cuts across. *)

Holder == IF DashActive THEN owner ELSE IF RestActive THEN sess ELSE NULL

Writing == IF fence = NULL \/ pc[fence] # "sending" THEN NULL
           ELSE IF fence \in Browser THEN fence ELSE rid[fence]

EC == INSTANCE ExclusiveControl
        WITH Client <- Browser \cup Rest, holder <- Holder, epoch <- gen,
             writing <- Writing, shared <- (mode = "open")

\* Every step of the hub is a step of ExclusiveControl or leaves it unchanged.
ImplementsExclusiveControl == EC!Spec
=============================================================================
