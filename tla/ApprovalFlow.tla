---------------------------- MODULE ApprovalFlow ----------------------------
(***************************************************************************)
(* Commands held for approval: a browser's _handle_input puts what it types *)
(* together to lines and asks the policy gate, which may hold a command;    *)
(* the browser is then paused and what it types is buffered until an admin  *)
(* approves or rejects the command or its time runs out                     *)
(* (bridge/hub/approvals.py, core_orchestration.py, store.py,               *)
(* routes/approvals.py, routes/browser_handlers.py).                        *)
(*                                                                          *)
(* One worker, and a gate that decides: without one nothing is held.  An    *)
(* input is a chunk of text, with a newline in it or without.  Requests are *)
(* identified by their revision; a gate that supplies an id already in the  *)
(* store only makes the hold a collision.  Fan-out requests are settled by  *)
(* the fan-out controller instead.                                          *)
(***************************************************************************)
EXTENDS Integers, Sequences

CONSTANTS
  Browser,      \* browser sockets
  Admin,        \* approve and reject requests in progress, one at a time each
  BufferCap,    \* max_buffer_chars, in inputs
  MaxInput,     \* bound: inputs a browser types
  MaxReq,       \* bound: requests the store creates
  MaxGen,       \* bound: ownership changes
  NULL

\* Whoever runs notify_expired: the sweep, or a request that came too late.
Sweep == "sweep"
Notifier == Admin \cup {Sweep}

ASSUME ApprovalAssumption ==
  /\ BufferCap \in Nat /\ MaxInput \in Nat /\ MaxReq \in Nat /\ MaxGen \in Nat
  /\ NULL \notin Admin /\ Sweep \notin Admin

VARIABLES
  senders,      \* browsers for which can_send_input holds
  gen,          \* st.ownership_generation
  fence,        \* st.owned_input_fence: NULL, or the admin whose operation runs
  present,      \* st.browsers
  paused,       \* hub._paused_browsers
  hold,         \* hub._hold_buffers: hold[b] is a sequence of inputs
  line,         \* hub._input_buffers: line[b] is the line b has not ended yet
  typed,        \* typed[b]: the generation in which each input was typed
  newline,      \* the inputs with a newline in them
  work,         \* work[b]: what _handle_input of b is doing
  req,          \* the approval store: a sequence of requests, by revision
  adm,          \* adm[a]: the approve or reject request in progress
  told,         \* told[t]: expired requests task t has yet to settle
  sent,         \* what reached the worker, in order
  stranded,     \* inputs left buffered when their browser was unpaused
  cut           \* browsers whose pause a request cut short has left to nobody

ownerVars == <<senders, gen>>
typeVars == <<typed, newline>>
inputVars == <<paused, hold, line, typeVars, work>>
pastVars == <<sent, stranded, cut>>
vars == <<ownerVars, fence, present, inputVars, req, adm, told, pastVars>>

Status ==
  {"pending", "resolving", "approved", "rejected", "refused", "timeout"}

Idle == [pc |-> "idle", cmd |-> <<>>, gen |-> 0]
NoJob == [pc |-> "idle", r |-> 0, deny |-> FALSE, ok |-> FALSE,
          pending |-> FALSE, item |-> <<>>]

CanSend(b) == b \in senders /\ b \in present

\* Input n of b, as it reaches the worker in the present generation.
Delivery(b, n) == [from |-> b, n |-> n, gen |-> gen]
Deliveries(b, s) == [i \in 1..Len(s) |-> Delivery(b, s[i])]

\* What b has typed ends a line.
Ended(b, s) == \E i \in 1..Len(s) : <<b, s[i]>> \in newline

\* buffer_and_get_command: a line in progress is continued; one that grows too
\* long is dropped.
Joined(b, s) == line[b] \o s
TooLong(b, s) == Len(Joined(b, s)) > BufferCap
Complete(b, s) == ~TooLong(b, s) /\ Ended(b, Joined(b, s))
LineAfter(b, s) ==
  [line EXCEPT ![b] =
     IF TooLong(b, s) \/ Complete(b, s) THEN <<>> ELSE Joined(b, s)]

\* The gate is asked about a part of a line only if it is the line's first.
Part(b, s) == line[b] = <<>> /\ ~Ended(b, s)

-----------------------------------------------------------------------------
(* _handle_input of a browser's own frames. *)

\* The next input of b, with a newline or without.
Typed(b) ==
  /\ Len(typed[b]) < MaxInput
  /\ typed' = [typed EXCEPT ![b] = Append(@, gen)]
  /\ newline' \in {newline, newline \cup {<<b, Len(typed[b]) + 1>>}}

\* The pause is checked first, and the buffer written, without an await.
TypePaused(b) ==
  /\ work[b].pc = "idle" /\ b \in paused
  /\ Typed(b)
  /\ hold' = IF Len(hold[b]) < BufferCap
               THEN [hold EXCEPT ![b] = Append(@, Len(typed[b]) + 1)]
               ELSE hold
  /\ UNCHANGED <<ownerVars, fence, present, paused, line, work, req, adm, told,
                 pastVars>>

\* Mutant: the pause is not asked for.
TypeFreely(b) ==
  /\ work[b].pc = "idle"
  /\ Typed(b)
  /\ work' = IF CanSend(b)
               THEN [work EXCEPT ![b] = [pc |-> "gate",
                                         cmd |-> <<Len(typed[b]) + 1>>,
                                         gen |-> gen]]
               ELSE work
  /\ UNCHANGED <<ownerVars, fence, present, paused, hold, line, req, adm, told,
                 pastVars>>

\* capture_browser_ownership; then the input goes to the gate, or to its line.
TypeFree(b) ==
  /\ work[b].pc = "idle" /\ b \notin paused
  /\ Typed(b)
  /\ work' = IF CanSend(b)
               THEN [work EXCEPT ![b] = [pc |-> "gate",
                                         cmd |-> <<Len(typed[b]) + 1>>,
                                         gen |-> gen]]
               ELSE work
  /\ UNCHANGED <<ownerVars, fence, present, paused, hold, line, req, adm, told,
                 pastVars>>

\* store.add
NewRequest(b, cmd, g) ==
  Append(req, [status |-> "pending", by |-> b, cmd |-> cmd, gen |-> g,
               late |-> FALSE])

\* The input joins its line: a first part that the gate allows, and without a
\* question what ends a line or continues one. The gate is asked about a line that
\* is complete; it is in the generation of the input that completes it.
LineGrows(b) ==
  /\ work[b].pc = "gate"
  /\ line' = LineAfter(b, work[b].cmd)
  /\ work' = IF Complete(b, work[b].cmd)
               THEN [work EXCEPT ![b].pc = "line", ![b].cmd = Joined(b, @)]
               ELSE [work EXCEPT ![b] = Idle]
  /\ UNCHANGED <<ownerVars, fence, present, paused, hold, typeVars, req, adm, told,
                 pastVars>>

LineAllowed(b) ==
  /\ work[b].pc = "line"
  /\ work' = [work EXCEPT ![b].pc = "send"]
  /\ UNCHANGED <<ownerVars, fence, present, paused, hold, line, typeVars, req, adm,
                 told, pastVars>>

\* Too long, blocked by policy, or the id the gate chose is taken.
GateRefuses(b) ==
  /\ work[b].pc \in {"gate", "line"}
  /\ work' = [work EXCEPT ![b] = Idle]
  /\ UNCHANGED <<ownerVars, fence, present, paused, hold, line, typeVars, req, adm,
                 told, pastVars>>

\* The request is stored and the browser paused without an await in between;
\* then every browser is told.
GateHolds(b) ==
  /\ work[b].pc = "line" \/ (work[b].pc = "gate" /\ Part(b, work[b].cmd))
  /\ Len(req) < MaxReq
  /\ req' = NewRequest(b, work[b].cmd, work[b].gen)
  /\ paused' = paused \cup {b}
  /\ work' = [work EXCEPT ![b] = [Idle EXCEPT !.pc = "notify"]]
  /\ UNCHANGED <<ownerVars, fence, present, hold, line, typeVars, adm, told,
                 pastVars>>

Notified(b) ==
  /\ work[b].pc = "notify"
  /\ work' = [work EXCEPT ![b] = Idle]
  /\ UNCHANGED <<ownerVars, fence, present, paused, hold, line, typeVars, req, adm,
                 told, pastVars>>

\* send_owned_worker: fenced, and only in the generation captured.
Send(b) ==
  /\ work[b].pc = "send" /\ fence = NULL
  /\ \/ /\ CanSend(b) /\ gen = work[b].gen
        /\ sent' = sent \o Deliveries(b, work[b].cmd)
     \/ UNCHANGED sent
  /\ work' = [work EXCEPT ![b] = Idle]
  /\ UNCHANGED <<ownerVars, fence, present, paused, hold, line, typeVars, req, adm,
                 told, stranded, cut>>

\* Mutant: the hold buffer's key is deleted.
ForgetKey(b) ==
  /\ present' = present \ {b}
  /\ paused' = paused \ {b}
  /\ hold' = [x \in Browser \ {b} |-> hold[x]]
  /\ line' = [line EXCEPT ![b] = <<>>]
  /\ UNCHANGED <<ownerVars, fence, typeVars, req, adm, told, pastVars>>

\* Both ways out of st.browsers drop the pause and the buffers. A change of
\* ownership drops neither.
Forget(b) ==
  /\ present' = present \ {b}
  /\ paused' = paused \ {b}
  /\ hold' = [hold EXCEPT ![b] = <<>>]
  /\ line' = [line EXCEPT ![b] = <<>>]
  /\ UNCHANGED <<ownerVars, fence, typeVars, req, adm, told, pastVars>>

\* cleanup_browser_disconnect: the handler ended, or an exception ended it.
Leave(b) ==
  /\ work[b].pc # "gone"
  /\ work' = [work EXCEPT ![b] = [Idle EXCEPT !.pc = "gone"]]
  /\ Forget(b)

\* remove_dead_browsers: a send to the browser failed; its handler goes on.
RemoveDead(b) ==
  /\ b \in present
  /\ UNCHANGED work
  /\ Forget(b)

-----------------------------------------------------------------------------
(* Ownership. *)

\* Acquire, release, mode changes: each takes the fence and starts a generation.
Transfer ==
  /\ fence = NULL /\ gen < MaxGen
  /\ gen' = gen + 1
  /\ \E s \in {{}, Browser} \cup {{b} : b \in Browser} : senders' = s
  /\ UNCHANGED <<fence, present, inputVars, req, adm, told, pastVars>>

\* A lease that runs out ends authority without the fence.
LeaseExpires ==
  /\ senders # {}
  /\ senders' = {}
  /\ UNCHANGED <<gen, fence, present, inputVars, req, adm, told, pastVars>>

-----------------------------------------------------------------------------
(* Approve and reject. *)

Job(r, pc, deny) ==
  [NoJob EXCEPT !.pc = pc, !.r = r, !.deny = deny]

\* Mutant: a request that is being resolved may be claimed again.
ClaimAgain(a, r) ==
  /\ adm[a].pc = "idle" /\ req[r].status \in {"pending", "resolving"}
  /\ ~req[r].late
  /\ \/ /\ req' = [req EXCEPT ![r].status = "resolving"]
        /\ adm' = [adm EXCEPT ![a] = Job(r, "fence", FALSE)]
     \/ /\ req' = [req EXCEPT ![r].status = "rejected"]
        /\ adm' = [adm EXCEPT ![a] = Job(r, "settle", TRUE)]
  /\ UNCHANGED <<ownerVars, fence, present, inputVars, told, pastVars>>

\* claim_request: only a pending request, and only in time.
Claim(a, r) ==
  /\ adm[a].pc = "idle" /\ req[r].status = "pending" /\ ~req[r].late
  /\ \/ /\ req' = [req EXCEPT ![r].status = "resolving"]
        /\ adm' = [adm EXCEPT ![a] = Job(r, "fence", FALSE)]
     \/ /\ req' = [req EXCEPT ![r].status = "rejected"]
        /\ adm' = [adm EXCEPT ![a] = Job(r, "settle", TRUE)]
  /\ UNCHANGED <<ownerVars, fence, present, inputVars, told, pastVars>>

\* Mutant: the expiry is not delivered.
ClaimLateQuietly(a, r) ==
  /\ adm[a].pc = "idle" /\ req[r].late
  /\ req' = [req EXCEPT ![r].status = IF @ = "pending" THEN "timeout" ELSE @]
  /\ adm' = [adm EXCEPT ![a].pc = "telling"]
  /\ UNCHANGED <<ownerVars, fence, present, inputVars, told, pastVars>>

\* A claim that comes too late expires the request, unless the sweep did, and
\* takes the expiry to deliver it; no await lies between.
ClaimLate(a, r) ==
  /\ adm[a].pc = "idle" /\ req[r].late
  /\ req' = [req EXCEPT ![r].status = IF @ = "pending" THEN "timeout" ELSE @]
  /\ told' = IF req[r].status = "pending" THEN [told EXCEPT ![a] = {r}] ELSE told
  /\ adm' = [adm EXCEPT ![a].pc = "telling"]
  /\ UNCHANGED <<ownerVars, fence, present, inputVars, pastVars>>

\* Mutant: the origin's generation is not compared.
OpBeginsAnyEpoch(a) ==
  LET q == req[adm[a].r] IN
  /\ adm[a].pc = "fence" /\ fence = NULL
  /\ IF CanSend(q.by)
       THEN fence' = a /\ adm' = [adm EXCEPT ![a].pc = "deliver"]
       ELSE UNCHANGED fence /\ adm' = [adm EXCEPT ![a].pc = "settle"]
  /\ UNCHANGED <<ownerVars, present, inputVars, req, told, pastVars>>

\* run_owned_browser_operation revalidates the origin under the fence.
OpBegins(a) ==
  LET q == req[adm[a].r] IN
  /\ adm[a].pc = "fence" /\ fence = NULL
  /\ IF CanSend(q.by) /\ gen = q.gen
       THEN fence' = a /\ adm' = [adm EXCEPT ![a].pc = "deliver"]
       ELSE UNCHANGED fence /\ adm' = [adm EXCEPT ![a].pc = "settle"]
  /\ UNCHANGED <<ownerVars, present, inputVars, req, told, pastVars>>

\* The held command is sent; a send that fails or times out is refused.
Deliver(a) ==
  LET q == req[adm[a].r] IN
  /\ adm[a].pc = "deliver"
  /\ \/ /\ sent' = sent \o Deliveries(q.by, q.cmd)
        /\ adm' = [adm EXCEPT ![a].pc = "replay", ![a].ok = TRUE]
        /\ UNCHANGED fence
     \/ /\ sent' \in {sent, sent \o Deliveries(q.by, q.cmd)}
        /\ adm' = [adm EXCEPT ![a].pc = "settle"]
        /\ fence' = NULL
  /\ UNCHANGED <<ownerVars, present, inputVars, req, told, stranded, cut>>

\* deliver_and_replay takes the whole buffer as one input, until it finds none.
ReplayTakes(a) ==
  LET b == req[adm[a].r].by IN
  /\ adm[a].pc = "replay" /\ hold[b] # <<>>
  /\ adm' = [adm EXCEPT ![a].pc = "item", ![a].item = hold[b]]
  /\ hold' = [hold EXCEPT ![b] = <<>>]
  /\ UNCHANGED <<ownerVars, fence, present, paused, line, typeVars, work, req, told,
                 pastVars>>

ReplayEnds(a) ==
  /\ adm[a].pc = "replay" /\ hold[req[adm[a].r].by] = <<>>
  /\ adm' = [adm EXCEPT ![a].pc = "settle"]
  /\ fence' = NULL
  /\ UNCHANGED <<ownerVars, present, inputVars, req, told, pastVars>>

\* The item joins the line of its browser as an input of its own would; without a
\* newline it is only buffered, and the loop goes on.
ItemJoins(a) ==
  LET b == req[adm[a].r].by
      s == adm[a].item
  IN
  /\ adm[a].pc = "item"
  /\ line' = LineAfter(b, s)
  /\ adm' = IF Complete(b, s)
              THEN [adm EXCEPT ![a].pc = "line", ![a].item = Joined(b, s)]
              ELSE [adm EXCEPT ![a].pc = "replay", ![a].item = <<>>]
  /\ UNCHANGED <<ownerVars, fence, present, paused, hold, typeVars, work, req, told,
                 pastVars>>

\* Refused, or its id is taken: the loop goes on.
ItemRefused(a) ==
  /\ adm[a].pc \in {"item", "line"}
  /\ adm' = [adm EXCEPT ![a].pc = "replay", ![a].item = <<>>]
  /\ UNCHANGED <<ownerVars, fence, present, inputVars, req, told, pastVars>>

ItemSent(a) ==
  /\ adm[a].pc = "line"
  /\ sent' = sent \o Deliveries(req[adm[a].r].by, adm[a].item)
  /\ adm' = [adm EXCEPT ![a].pc = "replay", ![a].item = <<>>]
  /\ UNCHANGED <<ownerVars, fence, present, inputVars, req, told, stranded, cut>>

\* replay_failed: the send failed, or timed out on its way.
ItemFails(a) ==
  /\ adm[a].pc = "line"
  /\ sent' \in {sent, sent \o Deliveries(req[adm[a].r].by, adm[a].item)}
  /\ adm' = [adm EXCEPT ![a].pc = "settle", ![a].item = <<>>]
  /\ fence' = NULL
  /\ UNCHANGED <<ownerVars, present, inputVars, req, told, stranded, cut>>

\* replay_pending: the item, or the line it completed, becomes a request of its
\* own.
ItemHeld(a) ==
  LET q == req[adm[a].r] IN
  /\ adm[a].pc = "line" \/ (adm[a].pc = "item" /\ Part(q.by, adm[a].item))
  /\ Len(req) < MaxReq
  /\ req' = NewRequest(q.by, adm[a].item, q.gen)
  /\ paused' = paused \cup {q.by}
  /\ adm' = [adm EXCEPT ![a].pc = "announce", ![a].item = <<>>]
  /\ UNCHANGED <<ownerVars, fence, present, hold, line, typeVars, work, told,
                 pastVars>>

\* The worker's browsers are told one after the other.
Announced(a) ==
  /\ adm[a].pc = "announce"
  /\ adm' = [adm EXCEPT ![a].pc = "settle", ![a].pending = TRUE]
  /\ fence' = NULL
  /\ UNCHANGED <<ownerVars, present, inputVars, req, told, pastVars>>

\* What the send under way, if any, puts on the wire.
UnderWay(a) ==
  LET q == req[adm[a].r] IN
  CASE adm[a].pc = "deliver" -> Deliveries(q.by, q.cmd)
    [] adm[a].pc = "line"    -> Deliveries(q.by, adm[a].item)
    [] OTHER                 -> <<>>

\* The request is cancelled at an await, or raises there (a browser that is told
\* of a hold is gone): an approval is finalized as refused, whatever it has
\* delivered, a rejection stays, and the origin's turn to be unpaused never comes.
CutShort(a) ==
  LET r == adm[a].r IN
  /\ adm[a].pc \notin {"idle", "telling"}
  /\ sent' \in {sent, sent \o UnderWay(a)}
  /\ req' = [req EXCEPT ![r].status = IF @ = "resolving" THEN "refused" ELSE @]
  /\ cut' = IF adm[a].pc \in {"announce", "finish"} \/ adm[a].pending
              THEN cut ELSE cut \cup {req[r].by}
  /\ adm' = [adm EXCEPT ![a] = NoJob]
  /\ fence' = IF fence = a THEN NULL ELSE fence
  /\ UNCHANGED <<ownerVars, present, inputVars, told, stranded>>

\* Mutant: the replay's new request is overlooked.
UnpauseAlways(a) ==
  LET b == req[adm[a].r].by
      discard == adm[a].deny \/ ~adm[a].ok
  IN
  /\ adm[a].pc = "settle"
  /\ IF b \in paused \cap present
       THEN /\ paused' = paused \ {b}
            /\ hold' = IF discard THEN [hold EXCEPT ![b] = <<>>] ELSE hold
            /\ stranded' = IF discard THEN stranded
                           ELSE stranded \cup {<<b, hold[b][i]>> :
                                                 i \in 1..Len(hold[b])}
       ELSE UNCHANGED <<paused, hold, stranded>>
  /\ adm' = [adm EXCEPT ![a].pc = "finish"]
  /\ UNCHANGED <<ownerVars, fence, present, line, typeVars, work, req, told, sent,
                 cut>>

\* The origin's turn among the browsers that are told: those before it were
\* awaited. The input it typed meanwhile stays buffered if the command went out.
Unpause(a) ==
  LET b == req[adm[a].r].by
      discard == adm[a].deny \/ ~adm[a].ok
  IN
  /\ adm[a].pc = "settle"
  /\ IF b \in paused \cap present
       THEN /\ paused' = IF adm[a].pending THEN paused ELSE paused \ {b}
            /\ hold' = IF discard THEN [hold EXCEPT ![b] = <<>>] ELSE hold
            /\ stranded' = IF discard \/ adm[a].pending THEN stranded
                           ELSE stranded \cup {<<b, hold[b][i]>> :
                                                 i \in 1..Len(hold[b])}
       ELSE UNCHANGED <<paused, hold, stranded>>
  /\ adm' = [adm EXCEPT ![a].pc = "finish"]
  /\ UNCHANGED <<ownerVars, fence, present, line, typeVars, work, req, told, sent,
                 cut>>

\* finalize
Finish(a) ==
  LET r == adm[a].r IN
  /\ adm[a].pc = "finish"
  /\ req' = IF req[r].status = "resolving"
              THEN [req EXCEPT ![r].status =
                      IF adm[a].ok THEN "approved" ELSE "refused"]
              ELSE req
  /\ adm' = [adm EXCEPT ![a] = NoJob]
  /\ UNCHANGED <<ownerVars, fence, present, inputVars, told, pastVars>>

-----------------------------------------------------------------------------
(* Expiry. *)

Overdue(r) ==
  /\ req[r].status = "pending" /\ ~req[r].late
  /\ req' = [req EXCEPT ![r].late = TRUE]
  /\ UNCHANGED <<ownerVars, fence, present, inputVars, adm, told, pastVars>>

LatePending == {r \in 1..Len(req) : req[r].status = "pending" /\ req[r].late}

\* cleanup_expired and notify_expired up to its first await: _expired_notifications
\* is filled and taken at once.
SweepExpires ==
  /\ told[Sweep] = {}
  /\ LatePending # {}
  /\ req' = [r \in 1..Len(req) |->
               IF r \in LatePending THEN [req[r] EXCEPT !.status = "timeout"]
               ELSE req[r]]
  /\ told' = [told EXCEPT ![Sweep] = LatePending]
  /\ UNCHANGED <<ownerVars, fence, present, inputVars, adm, pastVars>>

\* handle_expired_approval settles the input state before its first await; the
\* next request waits for the sends of this one.
SettleExpired(t) ==
  \E r \in told[t] :
    /\ told' = [told EXCEPT ![t] = @ \ {r}]
    /\ paused' = paused \ {req[r].by}
    /\ hold' = [hold EXCEPT ![req[r].by] = <<>>]
    /\ UNCHANGED <<ownerVars, fence, present, line, typeVars, work, req, adm,
                   pastVars>>

\* The expiries are settled; or the request is cancelled, and those it has taken
\* are lost.
AdminTold(a) ==
  /\ adm[a].pc = "telling"
  /\ cut' = cut \cup {req[r].by : r \in told[a]}
  /\ told' = [told EXCEPT ![a] = {}]
  /\ adm' = [adm EXCEPT ![a] = NoJob]
  /\ UNCHANGED <<ownerVars, fence, present, inputVars, req, sent, stranded>>

-----------------------------------------------------------------------------
Init ==
  /\ senders \in {Browser} \cup {{b} : b \in Browser}
  /\ gen = 0 /\ fence = NULL /\ present = Browser
  /\ paused = {}
  /\ hold = [b \in Browser |-> <<>>] /\ line = [b \in Browser |-> <<>>]
  /\ typed = [b \in Browser |-> <<>>] /\ newline = {}
  /\ work = [b \in Browser |-> Idle]
  /\ req = <<>>
  /\ adm = [a \in Admin |-> NoJob]
  /\ told = [t \in Notifier |-> {}]
  /\ sent = <<>> /\ stranded = {} /\ cut = {}

Handle(b) ==
  \/ TypePaused(b) \/ TypeFree(b)
  \/ LineGrows(b) \/ LineAllowed(b)
  \/ GateRefuses(b) \/ GateHolds(b) \/ Notified(b)
  \/ Send(b) \/ Leave(b) \/ RemoveDead(b)

Resolve(a) ==
  \/ OpBegins(a) \/ Deliver(a)
  \/ ReplayTakes(a) \/ ReplayEnds(a)
  \/ ItemJoins(a) \/ ItemRefused(a) \/ ItemSent(a) \/ ItemFails(a)
  \/ ItemHeld(a) \/ Announced(a)
  \/ Unpause(a) \/ Finish(a) \/ CutShort(a)

Expire ==
  \/ SweepExpires
  \/ \E a \in Admin : AdminTold(a)
  \/ \E t \in Notifier : SettleExpired(t)

Next ==
  \/ \E b \in Browser : Handle(b)
  \/ Transfer \/ LeaseExpires
  \/ \E r \in 1..Len(req) :
       Overdue(r) \/ \E a \in Admin : Claim(a, r) \/ ClaimLate(a, r)
  \/ \E a \in Admin : Resolve(a)
  \/ Expire

Spec == Init /\ [][Next]_vars

\* Time passes, the sweep keeps running, and no task stops for good between two
\* awaits: it goes on, or it is cut short (the sends here have no timeout of their
\* own). Nobody has to type, and no admin has to decide.
Fairness ==
  /\ \A r \in 1..MaxReq : WF_vars(r \in DOMAIN req /\ Overdue(r))
  /\ WF_vars(SweepExpires)
  /\ \A t \in Notifier : WF_vars(SettleExpired(t))
  /\ \A a \in Admin : WF_vars(Resolve(a))

FairSpec == Spec /\ Fairness

-----------------------------------------------------------------------------
(* Properties. *)

Request == [status : Status, by : Browser, cmd : Seq(Nat), gen : Nat,
            late : BOOLEAN]
Jobs == [pc : {"idle", "fence", "deliver", "replay", "item", "line", "announce",
               "settle", "finish", "telling"},
         r : Nat, deny : BOOLEAN, ok : BOOLEAN, pending : BOOLEAN,
         item : Seq(Nat)]

TypeOK ==
  /\ senders \subseteq Browser /\ gen \in Nat
  /\ fence \in Admin \cup {NULL}
  /\ present \subseteq Browser /\ paused \subseteq Browser
  /\ hold \in [Browser -> Seq(Nat)] /\ line \in [Browser -> Seq(Nat)]
  /\ typed \in [Browser -> Seq(Nat)] /\ newline \subseteq Browser \X Nat
  /\ work \in [Browser -> [pc : {"idle", "gate", "line", "send", "notify", "gone"},
                           cmd : Seq(Nat), gen : Nat]]
  /\ req \in Seq(Request)
  /\ adm \in [Admin -> Jobs]
  /\ told \in [Notifier -> SUBSET (1..Len(req))]
  /\ sent \in Seq([from : Browser, n : Nat, gen : Nat])
  /\ stranded \subseteq Browser \X Nat /\ cut \subseteq Browser

\* A command that is still pending, was rejected or timed out never reached the
\* worker.
NotDelivered(q) ==
  \A i \in 1..Len(sent), k \in 1..Len(q.cmd) :
    ~(sent[i].from = q.by /\ sent[i].n = q.cmd[k])
OnlyApprovedRuns ==
  \A r \in 1..Len(req) :
    req[r].status \in {"pending", "rejected", "timeout"} => NotDelivered(req[r])

\* While a command of b is held, b is paused: nothing typed later overtakes it,
\* whatever an earlier request's resolution or expiry does to b meanwhile.
HeldIsPaused ==
  \A r \in 1..Len(req) :
    req[r].status = "pending" /\ req[r].by \in present => req[r].by \in paused

\* Input is delivered in the ownership epoch it was typed in, the held command
\* and its replay included, with two exceptions: what was stranded, and the
\* beginning of a line that a later input completes, which is delivered in the
\* epoch of that input.
Stranded(d) == <<d.from, d.n>> \in stranded
InOwnEpoch(d) == typed[d.from][d.n] = d.gen
CompletedBy(d, e) ==
  /\ <<d.from, d.n>> \notin newline
  /\ e.from = d.from /\ e.gen = d.gen /\ InOwnEpoch(e)
EpochKept ==
  \A i \in 1..Len(sent) :
    \/ Stranded(sent[i]) \/ InOwnEpoch(sent[i])
    \/ \E j \in i+1 .. Len(sent) : CompletedBy(sent[i], sent[j])

\* models.py:151-152: the token of the exact ownership epoch keeps stale input from
\* being revived. Input typed in an epoch that has ended is not delivered.
NothingRevived ==
  \A i \in 1..Len(sent) : Stranded(sent[i]) \/ InOwnEpoch(sent[i])

\* What a browser typed reaches the worker once at most and in the order it was
\* typed, however holds, decisions, the sweep and replays interleave; unless it
\* was stranded.
InputInOrder ==
  \A i, j \in 1..Len(sent) :
    /\ i < j /\ sent[i].from = sent[j].from
    /\ ~Stranded(sent[i]) /\ ~Stranded(sent[j])
    => sent[i].n < sent[j].n

\* Whatever becomes of its command, a browser's pause comes to an end, by the
\* decision, by the timeout, or with the browser; unless the request that was to
\* end it is cut short.
PauseEnds ==
  \A b \in Browser :
    b \in paused \cap present ~> b \notin paused \cap present \/ b \in cut

\* docs/feature-roadmap.md:15: input buffered while the browser is paused is
\* replayed after the approval is resolved, so none is left behind.
NothingStranded == \A b \in Browser : b \notin paused => hold[b] = <<>>
=============================================================================
