# Verification of provide-uterm

TLA+ modules, TLC configurations and TLAPS proofs about the core of provide-uterm:
the Python server in `src/packages/provide-uterm-server`, whose hub arbitrates terminal
sessions between browsers, REST clients and workers, and whose registry runs the hosted
sessions themselves. Paths below are relative to
`src/packages/provide-uterm-server/src/provide/uterm/server/bridge/` unless they say
otherwise. `PROJECT.json` maps every definition to the lines it models.

## 1. Inventory

### 1.1 How the hub runs

One asyncio process. A single lock, `hub._lock`, guards the in-memory registry
(`hub/registry.py`, one `WorkerTermState` per worker); code under it never awaits the
network. Everything between two critical sections is an `await` at which any other task
may run. Each worker also has an `owned_input_fence`, an asyncio lock that is held across
a write to the worker socket; operations that change who owns the worker take it first
(`models.py:142-145`). Each WebSocket has one handler task that handles its frames one after
the other, and a cleanup task that sweeps stale leases once a second
(`routes/websockets_impl.py:67-85`). REST requests are tasks of their own and may be
cancelled at any await when the client hangs up. Nothing is persisted by the hub itself
except resume tokens (optionally SQLite), captures and the audit log.

### 1.2 Components

| component | state | operations | what is hard, what makes it correct |
|---|---|---|---|
| hijack lease (`hub/lease.py`, `models.py`, `routes/rest.py`, `routes/browser_handlers.py`) | owner and expiry, REST session, `hijack_pending`, `ownership_generation`, fence | acquire, touch, heartbeat, send, release, sweep, force-release | every operation awaits the worker in its middle; one holder at a time, no input across a handover, no worker left paused |
| connection lifecycle (`hub/connection.py`, `connection_hijack.py`, `routes/websockets_*.py`) | `worker_ws`, `browsers`, `input_mode` | register, deregister, hello, mode change, disconnect, dead sockets | sockets replaced while written to; the mode must agree with the lease |
| resume tokens (`hub/resume.py`, `core_impl.py:533-593`) | tokens, detach latch | create, mark, get, consume, revoke, wait | single use; the mark of an owner is written by the old socket's task while the new one reads it |
| registry (`hub/registry.py`, `router_impl.py:403`) | map worker to entry | create, prune | tasks that hold an entry which was pruned and recreated (`st is state`) |
| startup window, broadcast (`hub/router_broadcast.py`) | startup buffers, snapshot fence | register, park, flush, broadcast, drop dead | order and completeness at the switch to live; a bounded buffer |
| event ring, event bus (`router_impl.py:195-225`, `event_bus.py`) | ring, `event_seq`, subscriber queues | append, page, subscribe, drop-oldest, sentinel | two bounds on a queue, numbers that restart with the entry, subscriptions that outlive connections; the end of a full queue |
| input approvals (`hub/approvals.py`, `core_orchestration.py`, `../routes/approvals.py`, `hub/store.py:84-101`) | requests, hold buffers, line buffers, paused browsers | join to lines, hold, claim, expire, deliver, replay | one outcome per request; order and epoch of held, replayed and half-typed input; a pause that ends, also when the request that ends it is cancelled |
| rate limits, quotas (`limiter.py`, `connection.py:330-400`) | buckets, counts | take, give back | a count given back exactly once |
| fan-out (`fanout/`) | one run over many workers | acquire, send, collect, release | partial failure, timeouts |
| session registry and runtime (`../registry.py`, `../runtime.py`, `../runtime_connection.py`) | `_sessions`, `_runtimes`, `_retiring`; a run task, a connector, a logger and a stop event per session | create, delete, delete when empty, start, stop, restart, the run loop | requests meet at every await of `stop()`, on a runtime that may have been deleted; one session per id, nothing left running, a recording of its own |
| recording (`../recording.py`, `../session_logger.py`) | the recording an id names | open or move aside, append, close, retire | an id reused while the old session still writes |
| webhooks, audit chain, captures, tunnels, PAM, graphical sessions, gateway | queues, files, sockets | deliver, append, proxy | mostly I/O |
| core library, clients, platform, Cloudflare and the Go, TypeScript and C# ports | - | codecs, emulation, callers of the hub | pure algorithms, or ports held to the Python hub |

The components interact through the registry entry (shared state under `hub._lock`), the
fence, control frames to the worker, broadcasts to the browsers, the event bus, and
`notify_hijack_changed` callbacks to the embedding program. A hosted session is a worker like any other: its run
loop connects to the hub over a worker WebSocket, and `on_worker_empty` tells the registry when the last browser
has left it.

### 1.3 Hazards

`PROJECT.json` lists them line by line. They are of these kinds: an `await` between a check
and its use (heartbeat, open mode, captured generation, resume after release); the pause
awaited in the middle of an acquire; cancellation at any await; sockets replaced while a
frame is written; a sweep racing the holder, and the sweep itself being cancelled; liveness
of the resume that somebody owes the worker; a token marked by one socket's task while
another reads it, or presented twice; a store that fails half way; a backlog flushed while live frames are
broadcast, and a snapshot that waits while a newer one is committed; buffers, queues and a ring at their bounds; a command
decided twice, too late, or in another epoch than it was typed in, and input that overtakes it; subscriptions ended by
the wrong connection or by none; stops, starts and deletions of one session that overlap, and timers that cut them.

## 2. What is modelled

| module | what it is |
|---|---|
| `ExclusiveControl` | abstract specification: a resource with at most one holder, epochs that count handovers, writes no handover cuts across |
| `HijackLease` | the lease of one worker: every operation that changes it, by dashboards, REST clients, sweeps, the hub and the worker |
| `ResumeTokens` | resume tokens: the single-use store, the detach latch and the whole of a resume |
| `StartupWindow` | how a browser joins a worker's stream: its startup buffer, the switch to live, broadcasts and the snapshot fence |
| `ApprovalFlow` | commands held for approval: typed in parts, held, decided, expired, delivered, replayed, with the browser that goes on typing |
| `EventFeed` | the events of one worker id: the ring, the bus, a reader by pages, and the connections that end subscriptions |
| `SessionLifecycle` | the sessions one id names in turn: registry, runtime, run loop and recording |
| `HijackLeaseProofs`, `ResumeTokensProofs`, `StartupWindowProofs`, `EventFeedProofs`, `ApprovalFlowProofs`, `SessionLifecycleProofs` | inductive invariants, theorems and their proofs |
| `QueueBytesProofs` | lemmas about the bytes of a queue, for `EventFeedProofs` |
| `MCHijackLease`, `MCResumeTokens`, `MCStartupWindow`, `MCApprovalFlow`, `MCEventFeed`, `MCSessionLifecycle` | instances for TLC: the symmetry of interchangeable actors, where a run uses it |

Each module keeps what its neighbours do to it as actions of the environment: `ApprovalFlow` has the lease reduced to who may
send, a generation and the fence; `ResumeTokens` has it reduced to what a reclaim asks; `StartupWindow` and `EventFeed`
have worker sockets that come and go. `ExclusiveControl` is the one abstraction that is proved to be implemented.

### 2.1 HijackLease and the code

*Grain.* An action is one section under `hub._lock` with the synchronous code around it.
An operation that awaits is several actions, and `pc[t]` says where task `t` waits. Tasks
are a browser's handler (`Browser`), a REST acquire (`Rest`; the element is also the
`hijack_id` it mints), a REST request on an issued id (`RestOp`), a cleanup loop
(`Sweeper`; those of browser handlers are `Cancellable`) and the hub's own force-release
and dead-socket removal (`HubTask`).

*State.* `worker`, `conn`, `owner`, `sess`, `gen`, `pending`, `mode` and `decided` are the
fields of `WorkerTermState`. An expiry time is one bit, `ownerLive` or `sessLive`: time passing
is `OwnerExpires` or `SessExpires`. A touch of a live lease changes nothing then, since when
a lease lapses is left open anyway. `fence` is the task that holds `owned_input_fence` across
a send; operations that take it only around an in-memory section need it free
(`FenceFree`) and are one step. `ctl[w]` is what a worker socket was last told. `cap` is the generation
an input was captured under, `owned` the handler's `owned_hijack` flag, `issued` the ids
that REST clients know. `expiredLast` abstracts the event ring to what
`cleanup_browser_disconnect` asks of it: whether the last hijack lifecycle event is an expiry.

*Operations.*

| code | actions |
|---|---|
| `cleanup_expired` (sweep) | `SweepBegin`, `Expire`, `Recheck`/`ResumeStart`/`ResumeSent`, `Swept`, `SweepCancelled` |
| `_handle_hijack_request`, `try_acquire_ws` | `HijackRequest`, `PauseWorker`, `TryAcquireWs` (acquired, refused, no worker), `AnnounceWs` |
| `_handle_hijack_release`, `try_release_ws` | `HijackRelease`, the resume, `Released` |
| `_handle_input`, `send_owned_worker` | `CaptureInput`, `SendOwnedBrowser`, `InputSent` |
| `_handle_resume`, `_try_reclaim_hijack` | `Reclaim`, `ResumeWithoutLease`, `CaptureReclaim`, `Repause`, `RepauseSent`, `RollbackReclaim` |
| `cleanup_browser_disconnect` and the handler's `finally` | `Disconnect`, the resume, `Parted` |
| `_hijack_acquire`, `try_acquire_rest` | `AcquireBegin`, `Expire`, `Reserve`, `RestPauseSent`/`RestPauseFailed`, `Finalise`, `AnnounceRest`, `AcquireCancelled`, `Rollback` |
| heartbeat, send, step, release routes | `OpBegin`, `Expire`, `Check`, then `Extend`, `SendOwnedRest`/`InputSent` or `ReleaseRest`/`Released` |
| `force_release_hijack`, `remove_dead_browsers` | `ForceRelease`, `ForceSent`, `RemoveDead` |
| `register_worker`, `deregister_worker`/`disconnect_worker`, `set_worker_hello`, `set_input_mode` | `RegisterWorker`, `WorkerGone`, `WorkerHello`, `SetInputMode` |

*A send that fails* (exception or timeout) makes the hub drop the worker socket: every send
action has that outcome. `AcquireCancelled` may strike at any await of the guarded part of the
acquire; a pause cut short may or may not have reached the worker.

*The resume after a departure* is started in the background
(`routes/websockets_browser.py:155-182`), so `Parted` may record the event before, during
or after it.

*Assumptions.* The entry is that of a worker with at least one viewer, so it is never
pruned; the worker understands control frames (a tunnel worker gets none); browsers
are admins; a REST client heartbeats under the label it acquired with; a resuming
browser may present a token that marks it as an owner or one that does not; the leading
sweep of a REST request is not itself cancelled (the guarded part of the acquire is);
the second sweep inside an acquire (`rest.py:234`) is covered by the periodic ones. A
`worker_hello` may still come from a socket that was just replaced, because the handler asks
`is_active_worker` once per raw frame (`websockets_impl.py:130`).

### 2.2 ExclusiveControl

Holder, epoch, at most one write in progress and a flag for shared (open) mode. A holder
can change only with the epoch and while nobody writes; a write starts only for the holder,
or for anybody in shared mode. `HijackLease` implements it under the mapping `EC`: `Holder` is the live owner or the live
session, `epoch` is `gen`, `writing` is the client on whose behalf the fence's holder sends.

### 2.3 ResumeTokens and the code

*Grain.* A step is one section under `hub._lock` or one transaction of the token store. The store is
`ControlPlaneResumeStore`, the one `factory_impl.py:367` installs: a transaction that reads and writes excludes
others (`BEGIN IMMEDIATE` in SQLite; the memory store never suspends).

*State.* `token` is each record's state, `marked` its `was_hijack_owner` flag, `bound` the hub's
`_ws_to_resume_token`, `armed` the tokens in `_resume_token_detached`, `known` what clients were told.
`try[b]` holds the locals of the `_handle_resume` that socket `b` runs and `pc[b]` its await. The lease is that
of `HijackLease` reduced to what a reclaim asks of it; there a reclaim has its generation, fence and
compensating resume, here it has its token. `entitled` is a history variable.

| code | actions |
|---|---|
| `register_browser`, `cleanup_browser_disconnect` | `Register`, `Disconnect` (mark, then latch) |
| `wait_resume_token_ready` | `ResumeBegin`, `WaitOver` (released or timed out) |
| `store.get`, `on_resume` | `Lookup` |
| `_try_reclaim_hijack` | `Reclaim`, `Repause`, `Undo`, then `Fallback` |
| `store.create`, `store.consume`, and their failures | `Create`, `Consume`, `ConsumeLost`, `ConsumeFails`, `Undo` |
| `_bind_resume_token_locked`, the hello | `Bind`, `Hello` |
| lapse, sweep, force, REST lease, worker, mode, token expiry | `OwnerExpires`, `OwnerCleared`, `RestLease`, `WorkerChange`, `ModeChange`, `TokenExpires` |

*Assumptions.* Browsers are admins and a token belongs to one worker. A registration whose store raises
leaves nothing behind and is no action. A failing transaction has no effect (the code rolls it back).

### 2.4 StartupWindow and the code

*Grain.* A step is a section under `hub._lock`, or one send. A delta that is broadcast is one step: between the lock
that buffers it for the starting browsers and the sends to the live ones nothing else can reorder what one socket
gets, except a failure, and any subset of the receivers may fail.

*State.* `phase[b]` is where the connection of `b` stands: in the hello, in the flush, live, dying (a send failed and
`remove_dead_browsers` has not run), dropped, stuck (its flush failed) or gone. `buf`, `held` are `_startup_pending_frames[b]`,
deltas and the one coalesced snapshot; `batch`, `batchHeld` what the flush has taken and not sent; `init` the snapshot
captured at registration. `screen` is the number of `last_snapshot`, `kept` the number of deltas broadcast. `cast[w]` is the snapshot
broadcast of worker socket `w`'s handler: who holds `snapshot_egress_fence` is read off it. `got`, `shown` are what
the browser received, `since` and `missed` history.

| code | actions |
|---|---|
| `register_browser`, the hello of the route | `Register`, `Hello` |
| `activate_browser_broadcasts` | `Activate`, `TakeBatch`, `FlushDelta`, `FlushSnapshot`, `FlushFails` |
| `cleanup_browser_disconnect`, `remove_dead_browsers` | `Leave`, `RemoveDead` |
| `broadcast` and its buffering, frames not held for a starting browser | `BroadcastDelta`, `BroadcastStatus` |
| `register_worker`, `deregister_worker` or a failed send | `RegisterWorker`, `WorkerLost` |
| `commit_snapshot_event`, then the broadcast of that snapshot under `snapshot_egress_fence` | `Commit`, `Take`, `Revalidate`, `Abort`, `SendSnapshot`, `Sent` |

*Assumptions.* Three kinds of frame are told apart (deltas, snapshots, the rest); where a snapshot stands among the deltas of a batch is
left open. What a role may see, redaction and presence are left out. The entry is not pruned.

### 2.5 ApprovalFlow and the code

*Grain.* A step is what a handler or a request does between two awaits; the store's methods and the pause have none, so that
storing a request and pausing its browser are one step (`GateHolds`).

*State.* `senders`, `gen`, `fence` are the lease as `run_owned_browser_operation` and `send_owned_worker` see it; `paused`, `hold`, `line` are
`_paused_browsers`, `_hold_buffers` and `_input_buffers`; `work[b]` is what `_handle_input` of `b` is doing; `req` the store, by
revision; `adm[a]` one approve or reject request; `told[t]` the expiries a task has taken and not settled. `sent` is what
reached the worker, in order. The rest is history: `typed[b]` the generation each input was typed in, `newline` the inputs with a
newline in them, `stranded` the inputs left in the hold buffer when their browser was unpaused, `cut` the browsers whose
unpause was owed by a request that was cut short.

*Lines.* Under a gate that decides, `_handle_input` does not send what it gets. A part without a newline joins the browser's line
(`buffer_and_get_command`, `hub/store.py:84-101`) after the gate has seen it, if it is the line's first, and unseen if not; a part with a
newline completes the line, and the gate is asked about the whole. The line is sent, or held, in the generation captured for that last part. Nothing
clears a line but completion, overflow and the browser's departure, not a handover. A replayed item goes the same way: without a
newline it only joins the line.

| code | actions |
|---|---|
| `_handle_input`, the line buffer, the policy gate | `TypePaused`, `TypeFree`, `LineGrows`, `LineAllowed`, `GateRefuses`, `GateHolds`, `Notified`, `Send` |
| `claim_request` and the late claim with its `notify_expired` | `Claim` (approve or reject), `ClaimLate`, `AdminTold` |
| `run_owned_browser_operation`, `deliver_and_replay` | `OpBegins`, `Deliver`, `ReplayTakes`, `ReplayEnds`, `ItemJoins`, `ItemRefused`, `ItemSent`, `ItemFails`, `ItemHeld`, `Announced` |
| `resolve_approval`, `finalize` | `Unpause`, `Finish` |
| an approve or reject request that is cancelled, or raises, at any of its awaits | `CutShort`, and `AdminTold` for a late claim |
| `cleanup_expired`, `notify_expired`, `handle_expired_approval` | `Overdue`, `SweepExpires`, `SettleExpired` |
| `cleanup_browser_disconnect`, `remove_dead_browsers` | `Leave`, `RemoveDead` |
| ownership changes, a lease that runs out | `Transfer`, `LeaseExpires` |

*Assumptions.* One worker, and a gate that decides (without one nothing is held). The buffers are bounded in inputs instead of characters, by one
bound (`max_buffer_chars` is one). The gate's questions about the parts of a split line are one question. Fan-out requests are settled
elsewhere. A send that times out, or is cut short, may have reached the worker.

### 2.6 EventFeed and the code

*Grain.* `append_event` numbers, trims and hands the event to the bus without an await, so it is one step. `disconnect_worker` is two: it
takes the connection away, and ends the subscriptions after the socket's close and the broadcasts; or it is cancelled, or
raises, at one of those awaits, and nobody ends them (`CutBreaks`: there is no `finally` and no shield, and a REST request runs it).

*State.* `ws`, `entry` are the worker's socket and whether the registry has an entry; `conn`, `cut` each socket's handler and
disconnect; `seq`, `ring`, `minSeq` the ring of the present entry; `closed`, `subs`, `sub` the bus and each subscription with its queue and count
of drops; `page` a lease holder that reads the ring by `after_seq`. `total`, `lost`, `latest` and some fields of `sub` are history.

| code | actions |
|---|---|
| `append_event`, `commit_snapshot_event` | `AppendEvent` |
| `watch`, the consumer's `get`, its end, `close` | `Watch`, `Get`, `Leave`, `Close` |
| `try_acquire_rest`, `get_events_data`, `release_rest` | `Acquire`, `ReadPage`, `Release` |
| `register_worker`, `deregister_worker`, `prune_if_idle` | `Register`, `HandlerEnds`, `Prune` |
| `send_worker` that raises, `disconnect_worker` | `SendFails`, `Disconnect`, `CutEnds`, `CutBreaks` |

*Assumptions.* A subscription accepts every event; an event is its identity and its size. A lease that expires is a `Release`. The
hub's second, private bus is served and closed at the same places.

### 2.7 SessionLifecycle and the code

*Grain.* A step is what a request, a deletion or a run loop does between two awaits. A request that found the runtime goes on with
it whatever the registry says by then.

*State.* `session` is the present member of `_sessions` and `_runtimes`, by generation; `holder` is `_retiring[id]`; `rt[g]` each generation's
runtime (`_task`, `_stop`, `_connector`, `_logger`, whether `_state` is "stopped"); `loop[l]` a run task, where it waits and whether it
was cancelled there; `op[o]` a request or deletion; `file` who wrote what the id serves and who opened it. `stray` and `cut` are
history: sessions started when nobody will stop them any more, and sessions a deletion stopped waiting for.

| code | actions |
|---|---|
| `create_session`, `_reserve_for_create`, `_release_mine` | `Create`, `CreateRefused`, `Cleared`, `CreateFails`, `Inserted`, `Saved` |
| `delete_session`, `_on_worker_empty`, `_remove_locked`, `_finish_removal` | `Delete`, `WorkerEmpty`, `GraceOver`, `Remove`, `Retired` |
| `start`, `stop`, `restart` of the runtime and their routes | `StartSession`, `StopSession`, `BeginStop`, `Joined`, `Flushed`, `Closing`, `ConnectorStopped`, `Start` |
| the deletion's 10 s timer | `TimesOut` |
| `_run` and its `_stop_connector` | `Begin`, `Built`, `Opened`, `Record`, `Retry`, `GiveUp`, `ConnectionEnds`, `Closed`, `Dropped`, `TakeDown` (the `finally`, which discards the connector whatever became of the recording), `Hit` (cancelled) |

*Assumptions.* Connector, store and hub answer, fail or are cancelled. A refusal because the registry is full has no effect. Two stops of one
logger take turns (the store's lock per id). A request is not cancelled during its stop, except by the deletion's timer. Left out:
`update_session`, `set_mode`, `clear`, reconfiguration, the outbound queue, tunnels, saved screens, restored
captures, shutdown, and sessions that are not recorded.

## 3. What the runs show

| run | instance | checks |
|---|---|---|
| `lease_dash` | two dashboards, a cancellable sweep, one hub task, one worker socket, open mode asked for, generation capped at 2 | `TypeOK`, `InputPinned`, `NoResumeUnderLease`, `OnlyHolderEndsDash` |
| `lease_mixed` | a dashboard, a REST client, one request, a sweep, open mode asked for, cap 3 | `ExclusiveOwnership`, `ReservationExcludesDash`, `ImplementsExclusiveControl` |
| `lease_rest` | two REST acquires, one request, a sweep, one hub task, two worker sockets, both modes | `FencePinsWorker`, `OnlyHolderEndsRest` |
| `lease_live` | a dashboard, a REST client, one request, a sweep, late heartbeats, fairness | `PausedWorkerResumed`, `OnlyLateHeartbeatShares` |
| `resume_race` | three sockets, one resume each, one outside change, a store that may fail | `TypeOK`, `AuthorityConserved`, `MarkSeen`, `OwnersEntitled` |
| `resume_upset` | two sockets, two resumes each, three outside changes, a store that works | `LatchFollowsSocket`, `MarksEarned` |
| `startup` | one browser, two worker sockets, a buffer of 2 frames, three deltas, two snapshots, fairness | `TypeOK`, `FeedInOrder`, `FeedComplete`, `ScreenReaches`, `ScreenAdvances`, `NobodyWaits` |
| `approval` | one browser, two admins, buffers of 2 inputs, three inputs with a newline or without, two requests, one ownership change, fairness | `TypeOK`, `OnlyApprovedRuns`, `HeldIsPaused`, `EpochKept`, `InputInOrder`, `PauseEnds` |
| `events` | two sockets, one subscription, sizes 1, 2 and 4, a ring of 2, a queue of 2 items or 3 bytes, pages of 1, three events, fairness | `TypeOK`, `FeedCounted`, `EndDelivered`, `OwnEndOnly`, `OnlyFailureStrands`, `PageWhole`, `DisconnectEnds` |
| `session` | two operations and two run loops at a time, two sessions under the id | `TypeOK`, `IdHeld`, `OwnEntries`, `NothingLeft` |
| `approval_stranded` | as `approval`, a buffer of 1 input, safety only | `NothingStranded` fails |
| `session_foreign` | as `session` | `NoForeignEntries` fails |

*Bounds.* `MaxGen` stops dashboards from asking for, or reclaiming, the worker once the
generation has reached it; with REST acquires used once each and worker sockets used once
each this makes the state space finite. Cap 2 with the handovers that need no request
(expiry, force, disconnect) lets a lease be taken, lost, taken again and lost again, which is the
shortest history in which something stale can be used; the proofs cover the rest.
Deadlock is checked in every run of the lease: periodic sweeps, modes or departures always have a step.

`MaxMint` bounds the replacements a socket asks for, `MaxUpsets` the lapses and outside changes. Three sockets are what
a race needs (the token's old holder and two that present it, `resume_race`); two resumes in one socket are what
superseding a superseded token needs (`resume_upset`), and three changes let a lease lapse, be swept and be
taken by someone else under one resume. These runs end when all sockets are gone, so deadlock is not checked; that a resume
never waits for ever is `RESUME_TOKEN_DETACH_TIMEOUT_S`, the second outcome of `WaitOver`.

`startup`: two worker sockets are what two snapshot broadcasts at once need (one handler broadcasts one at a time);
with a cap of 2 and three deltas the buffer overflows, also while a coalesced snapshot takes one of its places. Browsers do not
influence each other except through the snapshot fence, which a failing receiver of either kind holds alike, so one is
enough for these properties.

`approval`: `BufferCap` 2 and `MaxInput` 3 let a held command have two inputs behind it, a line have two parts and a third overflow it, `MaxReq` 2 lets a replay be held again,
two admins let two decisions, or a decision and a late claim, meet the sweep; one ownership change is
one epoch too late. More than one browser share only the fence and the store; the proofs cover any number of browsers, and any
number of requests and inputs.

`events`: with three events a ring of 2 wraps and a queue of 2 evicts; sizes 1, 2 and 4 against 3 bytes give an event that evicts
one, one that evicts two, and one that fits nowhere. Two sockets are a replaced connection and its successor,
and two entries after a prune. With one subscription `MaxSubs` refuses
nobody; the proofs cover that.

`session`: two operations are what an overlap needs; two loops are a live one and one that should not be; two
sessions are an old and a new one under the id. The state space is too large for three concurrent requests; the proofs cover any
number of them, and of loops and sessions.

The four new systems end (every socket used, every bound reached), so deadlock is not checked there; that nothing waits for ever is
what their liveness properties say.

*Symmetry* is used in safety runs only; the elements of each permuted set are interchangeable
in the specification.

*Fairness.* `FairSpec` asks for strong fairness of `Run(t)` of each task that is not
cancelled: asyncio locks are granted in the order they are asked for, so a task that
waits for the fence is served although the fence is taken and left in between (strong, not
weak, fairness); each send is bounded by a timeout; the worker handler's
cleanup loop runs once a second while the worker is connected. Nothing is assumed of clients,
of the network, of time or of cancellable sweeps.

`StartupWindow!FairSpec` asks for weak fairness of a flush and of each snapshot broadcast: each of their sends has a timeout and
the output gate answers. The hello has no timeout and nothing is assumed of it. `ApprovalFlow!FairSpec`: time passes,
the sweep runs, and no task stops for good between two awaits: a decision goes on or is cut short, and the property says what each
leads to. That no await lasts for ever is an assumption, since the sends of a resolution and of an expiry have no timeout. Nobody has to
type and no admin has to decide.
`EventFeed!FairSpec`: a disconnect that has begun ends or breaks off, and a consumer goes on taking. `SessionLifecycle` states no
fairness: a stop that hangs in the wrong place holds the id for ever (3.2), so no liveness property would hold.

*Two defences.* `ReservationExcludesDash` survives the loss of the fence alone and of
`hijack_pending` alone; only without both looking does it break (the mutant drops every
question about holders).

### 3.1 Disagreements between the code and its comments, run

1. `session_foreign`: a restart that has found its runtime goes on after the session was deleted and starts a run loop
   that nobody can name any more; it opens a recording under the id and the next session of the id is served its
   entries, against `../registry.py:126-130` ("a new session under the id can neither be served the old recording nor
   receive the old runtime's late writes"). `OwnEntries` says that such starts (`stray`) are the only way, and is proved.
2. `approval_stranded`: input typed between the last look at the buffer and the unpause of its browser stays in the buffer,
   against `docs/feature-roadmap.md:15` ("buffered input is replayed after approval resolution"). A later approval replays it after
   what was typed later. `InputInOrder` holds for everything else, and so does `EpochKept`, with the exception of 3.2.9.

### 3.2 Disagreements found with these modules and not kept as runs

Each is reproduced by the property and the constants named.

3. `HijackLease`, `ExclusiveOwnership` with `LateHeartbeats` TRUE, one dashboard, one REST client, one request, one sweep, `MaxGen`
   2: the heartbeat checks the lease and extends it in two sections; `extend_lease` does not look at the expiry. If the
   lock is contended between them and the lease lapses, a dashboard can take the worker and the extension brings the
   REST lease back beside it, against "Only ONE path is active per worker at any time" (`models.py:72`). The theorems
   about exclusivity assume it is off, and `OnlyLateHeartbeatShares` shows it is the only way.
4. `DashboardOwnerPaused`, one dashboard, one sweep, `MaxGen` 4: the dashboard's pause is sent without the fence and before
   ownership is written; the resume that a sweep owes for this browser's lapsed lease lands after it, and the hijack
   is announced for a running worker, against "Worker is paused - now atomically check-and-set ownership"
   (`browser_handlers.py:189`). REST acquires pause under the fence and have no such window (`RestLeaseNotResumed`).
5. `NoLeaseInOpenMode`, one dashboard, `ModeAsked` {"hijack", "open"}, `MaxGen` 2: `try_acquire_ws` does not ask for the input
   mode again after the pause was awaited, `try_acquire_rest` does.
6. `PausedWorkerResumed` under `FairSpec` with sweepers s1 and s2, `Cancellable` {s2}: a browser that leaves cancels its sweep; cut
   between clearing a lapsed lease and the resume, nobody resumes the worker, because the other sweeps find an idle lease.
7. `ResumeTokens`, `NoStaleOwner`, two sockets, `MaxMint` 1, `MaxUpsets` 2, `StoreMayFail` and `RoleOnlyOverOwner` FALSE: the disconnect
   clears only an owner whose lease is live, so a lapsed owner that was not swept yet is left behind when its latch is
   released. The resume it lets through is refused although nobody holds the worker, against "a resume released by this
   latch sees a reclaimable lease, not a stale owner" (`hub/connection.py:542-544`).
8. `EventFeed`, `NobodyStranded` with the constants of `events`: a send to the worker that fails takes the connection out of
   the entry (`hub/router_broadcast.py:587-595`); the handler that ends later finds it gone and ends no subscription, against
   "When a worker disconnects, the hub calls `close_worker` to push a `None` sentinel" (`hub/event_bus.py:119-121`). The same happens
   behind a disconnect that breaks off (`hub/connection_hijack.py:78-90`): the connection is out of the entry, and a cancellation, or an
   exception, at the socket's close or a broadcast keeps the bus from being closed; the trace replaces `SendFails` by `Disconnect`,
   `HandlerEnds`, `CutBreaks`. `OnlyFailureStrands` says that these two are the only ways in which a connection's end leaves a
   subscription waiting, and is proved.
9. `ApprovalFlow`, `NothingRevived` with the constants of `approval`: input typed in one ownership epoch is delivered in another, against "Held approvals
   capture it so release/reacquire by the same browser cannot revive stale input" (`models.py:151-152`). The browser types a part of a line,
   the lease changes hands (and back), the browser types the rest: the line goes out with the generation captured for
   its last part, because no handover clears `_input_buffers`. The trace has seven steps (`TypeFree`, `LineGrows`, `Transfer`, `TypeFree`,
   `LineGrows`, `LineAllowed`, `Send`); a replayed item without a newline waits in the same buffer. `EpochKept` says how far this goes: only the
   beginning of a line, which some later input of its browser, delivered in its own epoch, completes.
10. `ApprovalFlow`, `PauseEnds` without its last disjunct (`b \in cut`), with the constants of `approval`: an approve request that is cancelled or
   raises anywhere in `resolve_approval` is recorded as REFUSED (`../routes/approvals.py:80-82`), a reject (line 107) not even that;
   a late claim that is cancelled loses the expiry it has taken. In each case the origin stays in `_paused_browsers`, no request is left that could
   expire, and what it types is buffered until it leaves, against the intent of `core_orchestration.py:144-147` (no browser is to be left
   "stranding them in _paused_browsers"). `PauseEnds` and `PausesOwed` say that there is no other way.

### 3.3 Read, not run

*Lease and tokens.* When no generation could be captured after a reclaim (`browser_handlers.py:458`), the pause is
sent without asking for one, so with a mode change in between the pause can reach a worker nobody holds. A store that
raises in `mark_hijack_owner` during a disconnect (`hub/connection.py:513`) leaves the latch armed, so later resumes
with that token wait out the timeout, and skips the rest of the handler's cleanup; `MarksEarned` is checked with a store
that works. When `revoke` raises for a loser of `consume` (`browser_handlers.py:544`), the handler leaves before its
rollback; its disconnect then finds it the owner and marks its own token. Pruning and recreating the entry starts the
generation again at zero, under held approvals that captured the old one.

*Startup.* A `hijack_state` broadcast between the direct hello and activation is lost to that browser, though
`hub/router_broadcast.py:66-68` has it covered. Nor is
terminal output that comes after the screen was captured in the initial snapshot, as the same comment says.
A flush that times out leaves a connected browser that hears nothing (`stuck`). `broadcast_hijack_state` may deliver an older status after a newer one.

*Approvals.* A decision that is cut short after the command was delivered is recorded as REFUSED all the same. The sends in `resolve_approval`, `handle_expired_approval` and `_handle_input` have no timeout. A replay held for a browser
that has left adds it to `_paused_browsers` for ever.

*Events.* A disconnect that ends late ends the subscriptions of the next connection too (`OwnEndOnly` allows it). The webhook loop
ends with the first sentinel. A replaced worker's batch in hand still appends its events. Between two long polls of a session's events nothing is subscribed, and nothing says so.

*Sessions.* The deletion's 10 s timer is spent, and swallowed, if it fires while `stop()` awaits the run task; a connector that then hangs
holds the id for ever, against "A stop that hangs must not hold the id forever" (`../registry.py:230`). `stop()` forgets a
loop that a concurrent start began (`../runtime.py:248`). A start while the old loop is leaving does nothing and says nothing; one after a
loop swallowed its cancellation lets that loop live on. A stop that is cut short leaves status and connector as they were. `_queue_bytes` is not reset by
`start()` although the queue is new; the frame that reports an overflow is not counted when put and is subtracted when taken. `set_mode` and `clear` wait for ever on a full
queue without a bridge. The browser count in `_on_worker_empty` is read before the lock is waited for. Deleting an id that names no session
reserves it and retires its recording all the same.

## 4. What is proved

Every safety invariant and every action property that a passing run checks is a theorem, and so is the refinement. Six modules
prove them (and one more the lemmas about a queue's bytes); each covers every value of the constants that satisfies the named
assumption, so any number of browsers, clients, admins, sockets, subscriptions, requests, run loops and any bound. A few
theorems have one hypothesis more, named below.

`HijackLeaseProofs` proves, under `TaskAssumption`
(task kinds are disjoint, `NULL` is none of them):

*LeaseInv* (`LeaseCorrect`), whatever the clients do: `TypeOK`, `FenceDiscipline`, `PendingIsReservation`,
`InputPinned`, `ReservationExcludesDash`, and `KnownSocket` (the current socket has been
registered, so a socket is not registered a second time under its own name). The fence
clause makes it inductive: input stays pinned because every action that changes owner,
session or generation needs the fence free, and a task in a fenced place holds it.

*PromptInv* (`PromptCorrect`), when no heartbeat is late: no task stands between a heartbeat's check and its
extension, a REST reservation or pause excludes other REST leases, `ExclusiveOwnership`,
`NoResumeUnderLease` and `RestLeaseNotResumed`. Exclusivity is inductive together with the reservation clauses,
because a REST lease is written without asking again whether the slot is free.

Three of these invariants and one action property (`FenceDiscipline`, `PendingIsReservation`, `RestLeaseNotResumed`, `EpochCounts`)
are proved and no longer run: they are what the others rest on.

From these: the seven invariants above, the action properties `FencePinsWorker`, `EpochCounts`, `OnlyHolderEndsDash`,
`OnlyHolderEndsRest` (prompt heartbeats), `OnlyLateHeartbeatShares`, and `ImplementsExclusiveControl` (prompt
heartbeats). The refinement is proved step by step: the initial state maps to an initial state
and each action to one action of `ExclusiveControl` or to a stutter.

`ResumeTokensProofs` proves, for all values that satisfy `ResumeAssumption`, `MarkSeen`, `OwnersEntitled`,
`LatchFollowsSocket`, `AuthorityConserved` (for a finite set of sockets) and `MarksEarned` (for a store that
works). *ResumeInv* (`ResumeCorrect`) carries them. A bound token is armed and belongs to its own socket (`OwnToken`),
and a token that clients know is none that a socket is about to be given (`KnownMinted`); so a token found without a
latch will never be bound again (`Detached`) and its mark is final (`MarkStands`). `Earned` follows a provisional
reclaim through every exit of `_handle_resume`; `MarkSeen` alone would not be inductive, because a reclaim refused by its pause goes
back to a decision, and `OwnersEntitled` would not, because a reclaim is unpaid while its resume runs. For
`AuthorityConserved` the count includes replacements on their way to a client (`Usable`): only a registration adds one,
a consumption trades one for another.

`StartupWindowProofs` proves, under `WindowAssumption`, `TypeOK`, `FeedInOrder`, `FeedComplete`, `BufferBounded`, `ScreenAdvances` and
`ScreenReaches`. *FeedInv* gives for each joining browser the exact set and order of what it received, is being sent and is owed; it is inductive because
a browser becomes live on an empty queue, under the lock a broadcast takes. *SnapInv* orders the snapshots: what waits in a
startup buffer or in a batch is not older than what is shown, and what the fence's holder sends is the screen it committed.
`ScreenReaches` follows the last snapshot through commit, hold, batch and send, with the failure cases of each.

`EventFeedProofs` proves, under `FeedAssumption`, `FeedCounted` and `EndDelivered` (from *FeedInv*, where a queue is the
end of the events of its time, cut by drop-oldest), `OwnEndOnly` and `OnlyFailureStrands` (from *ConnInv*: a socket registers once, and the latest one
is the worker's while there is one), and `PageWhole` (from *RingInv*: the ring holds exactly the last numbers and `minSeq` is the
oldest of them). `TypeOK` adds the bound on the bytes of a queue (*ByteInv*), and so needs to know what the sum `Bytes` does for every
queue: an event at the end adds its size, a queue without its head weighs no more. `QueueBytesProofs` proves that from the
definition of the fold. The library's induction theorems take an operator as a parameter and are out of reach; the
lemmas argue about a least counterexample instead (`Least`, `Smallest`): that the recursive function exists, that its
values are numbers, and that any element may be taken first.

`ApprovalFlowProofs` proves, under `ApprovalAssumption` (bounds are numbers; the sweep and `NULL` are no admins), `TypeOK`,
`HeldIsPaused`, `PausesOwed`, `OnlyApprovedRuns`, `InputInOrder` and `EpochKept`. None of them is inductive, and each rests on those before it:

- *Base*: a decision in progress has claimed its request and no other decision has (`Working`), the fence is held by exactly the decision
  that delivers, in the generation its command was held in (`Fencing`), and an expired request is in one place, to be settled once
  (`Expiring`).
- *Pauses*: the requests that owe a browser its unpause (`Owed`: held, being resolved, or expired and not yet told) are at most one
  per browser, and none while the handler has an input in hand. Without "at most one" an unpause for one
  request would free a browser that another still holds, and `HeldIsPaused` would fail.
- *PausesOwed*, the safety half of `PauseEnds`: a paused browser that is connected has such a request, unless the request that was
  to end its pause was cut short (`PauseIsOwed`).
- *Places*: an input is in the hold buffer, or in the line, or waits in a command or a replay, or is gone, and in one of them only (`Apart`). A command may still
  be sent by one way only, so `OnlyApprovedRuns` follows: what is pending, rejected or timed out is not gone.
- *Sequel*: what waits, and the line, were typed after what is gone, and what is buffered after all of them (`Queued`), commands, lines and replays are in order
  (`Ordered`). Inputs in `stranded` are left out, and the hold buffer of an unpaused browser holds no others.
- *Epochs*: what waits in a command was typed in the command's generation, or begins a line that an input of that generation
  completes (`Sealed`), and the line and the buffer behind a command are not earlier (`Dated`). A command is delivered, and the buffer replayed,
  under the fence and only in the command's generation; line and buffer are then neither older than that nor newer, so a replayed
  line is all of the present generation, and only a line that is typed through the handler can mix two.

`SessionLifecycleProofs` proves, under `SessionAssumption`, `TypeOK`, `IdHeld`, `OwnEntries` and `NothingLeft`. *Shape* is the types with
`IdHeld`: a reservation is held by exactly one operation, which creates or deletes, and none while a session is visible; a session
is inserted only by the holder. *SoleLoop* says what a session that nobody started behind a stop has: at most the one run
loop that its runtime knows and every stop waits for, so that after the wait neither loop nor recording is open. It
needs *Awaited* (a cancelled loop is waited for). From it *OwnFile*: once a recording has been
cleared for a new session, only that session or one in `stray` writes to it. *AllTended* gives `NothingLeft`: a connector, a logger or a state
other than "stopped" always has a loop or an operation that will see to it, unless a deletion cut the stop short. Handlers are
grouped by what they do to a run loop (`Moves`, `Launches`, `Cancels`, `Ends`, `Waits`), and each part is proved once per group. TLC checked
every part of these two arguments before the proofs.

Each invariant has one step per action (or per group of actions that leave what it mentions alone).

*Only model-checked.* The liveness properties (`PausedWorkerResumed`, `NobodyWaits`, `PauseEnds`, `DisconnectEnds`), for the instances of
section 3: the prover has no support for fairness and `ENABLED`. The two properties that fail (3.1) have counterexamples and no theorem.

## 5. Not modelled

`PROJECT.json` gives the reason for every component. In short:

- *Parts of what is modelled.* Presence, admission quotas and the notifications to outside listeners (`routes/rest.py:517`: a mirror may be told
  "released" after a newer acquire). `update_session`, reconfiguration, the outbound queue, restored captures and shutdown of hosted sessions.
  Roles other than admin, except where an operation depends on them.
- *Callers of the same operations.* The fan-out controller takes a lease per worker as a REST client does; clients, the gateway, the MCP tools
  and the in-process worker link are the environment of the modules above.
- *Nothing TLC could add.* Token buckets in floating-point seconds; polling of the last snapshot; authorization tables; construction of the
  application; the hash chain of the audit log, whose order is one lock.
- *Data.* Terminal emulation, rendering, detection, redaction, RFB, codecs and the ports to other languages (held to the Python hub by
  golden files), operating-system and file input and output, frontends.

The map therefore covers a small share of a large repository; it is the share in which several tasks meet over shared state.

Worth doing next, the most valuable first: an abstract specification of the event feed and of approvals, with the refinement proved; the outbound
queue and reconfiguration of a hosted session; the keyboard transfer of the shared-presence library.
