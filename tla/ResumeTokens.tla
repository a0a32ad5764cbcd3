----------------------------- MODULE ResumeTokens -----------------------------
(***************************************************************************)
(* Resume tokens: how a browser that reconnects proves which session it    *)
(* continues, and gets its hijack lease back.                              *)
(*                                                                         *)
(* Every browser socket is given a token when it registers.  When it goes, *)
(* its handler marks the token if the socket held the lease.  A later      *)
(* socket presents the token: it waits until the old socket's bookkeeping  *)
(* is committed (the detach latch), looks the token up, reclaims the lease *)
(* if the token is marked, creates a replacement and only then consumes    *)
(* the token.  Several sockets may do so with one token at once.           *)
(*                                                                         *)
(* A step is one section under hub._lock or one transaction of the token   *)
(* store.  The lease is HijackLease's, reduced to what a reclaim asks of   *)
(* it: the owner, whether its lease is live, and whether a REST client     *)
(* holds the worker.  Browsers are admins; a token belongs to one worker.  *)
(***************************************************************************)
EXTENDS Naturals, FiniteSets

CONSTANTS
  Browser,          \* browser sockets, each with its handler task
  MaxMint,          \* bound: replacements a socket asks the store for
  MaxUpsets,        \* bound: lapses and outside changes of lease and tokens
  StoreMayFail,     \* whether a transaction of the store may raise
  RoleOnlyOverOwner,\* allow_stale_owner_role_resume
  NULL

\* <<b, 0>> is minted when b registers, <<b, i>> by its i-th resume.
Token == Browser \X (0 .. MaxMint)

ASSUME ResumeAssumption ==
  /\ MaxMint \in Nat /\ MaxUpsets \in Nat
  /\ StoreMayFail \in BOOLEAN
  /\ RoleOnlyOverOwner \in BOOLEAN
  /\ NULL \notin Browser
  /\ NULL \notin Token

VARIABLES
  \* the token store and the hub's token bookkeeping
  token,     \* state of each token's record
  marked,    \* tokens with was_hijack_owner
  bound,     \* _ws_to_resume_token
  armed,     \* tokens with a detach latch (_resume_token_detached)
  known,     \* tokens that reached a client in a hello
  \* the lease
  owner, ownerLive, rest, workerUp, mode,
  \* the handlers
  pc,
  try,       \* the locals of the resume being handled
  mints,     \* replacements created so far
  owned,     \* owned_hijack
  entitled,  \* history: took the lease or paid for it with a marked token
  upsets     \* how often the world outside has interfered

storeVars == <<token, marked>>
bindVars  == <<bound, armed>>
leaseVars == <<owner, ownerLive, rest, workerUp, mode>>
tryVars   == <<try, mints>>
vars == <<token, marked, bound, armed, known, owner, ownerLive, rest, workerUp,
          mode, pc, try, mints, owned,
                 entitled, upsets>>

Pc == {"new", "open", "waiting", "lookup", "reclaim", "repause", "contested",
       "refused",
        "create", "consume", "undo", "bind", "hello", "failed", "gone"}

\* What _handle_resume keeps while it runs: the token presented, the owner flag
\* looked up, whether the wait for the latch timed out, reclaimed_hijack, and
\* where a rollback leads.
Try == [offer : Token \cup {NULL}, was : BOOLEAN, late : BOOLEAN,
        reclaimed : BOOLEAN, after : {"refused", "open", "failed"}]

NoTry == [offer |-> NULL, was |-> FALSE, late |-> FALSE, reclaimed |-> FALSE,
          after |-> "open"]

TypeOK ==
  /\ token \in [Token -> {"unminted", "live", "spent"}]
  /\ marked \subseteq Token
  /\ bound \in [Browser -> Token \cup {NULL}]
  /\ armed \subseteq Token
  /\ known \subseteq Token
  /\ owner \in Browser \cup {NULL}
  /\ ownerLive \in BOOLEAN /\ rest \in BOOLEAN /\ workerUp \in BOOLEAN
  /\ mode \in {"hijack", "open"}
  /\ pc \in [Browser -> Pc]
  /\ try \in [Browser -> Try]
  /\ mints \in [Browser -> 0 .. MaxMint]
  /\ owned \in [Browser -> BOOLEAN] /\ entitled \in [Browser -> BOOLEAN]
  /\ upsets \in 0 .. MaxUpsets

-----------------------------------------------------------------------------

Owns(b) == owner = b /\ ownerLive
Held    == (owner # NULL /\ ownerLive) \/ rest

Goto(b, label) == pc' = [pc EXCEPT ![b] = label]

\* The handler returns, or raises, and its locals are gone.
Finish(b, label) == Goto(b, label) /\ try' = [try EXCEPT ![b] = NoTry]

ClearOwner == owner' = NULL /\ ownerLive' = FALSE

\* The replacement b's present resume has created.
\* Mutant: the number of the next one.
FreshNext(b) == <<b, mints[b] + 1>>
Fresh(b) == <<b, mints[b]>>

\* Mutant: a token is good for any number of resumes.
UnspentBlind(t) == token[t] # "unminted"
Unspent(t) == token[t] = "live"

\* Mutant: nobody waits for the old socket.
ReadyAtOnce(b, t) == TRUE
Ready(b, t) == bound[b] = t \/ t \notin armed

-----------------------------------------------------------------------------
(* A socket comes, holds the lease for a while, and goes. *)

\* register_browser mints the token and arms its latch; the hello carries it.
Register(b) ==
  LET t == <<b, 0>> IN
  /\ pc[b] = "new"
  /\ token' = [token EXCEPT ![t] = "live"]
  /\ bound' = [bound EXCEPT ![b] = t]
  /\ armed' = armed \cup {t}
  /\ known' = known \cup {t}
  /\ Goto(b, "open")
  /\ UNCHANGED <<marked, leaseVars, tryVars, owned, entitled, upsets>>

\* hijack_request, from the request to the announcement.
TakeLease(b) ==
  /\ pc[b] = "open"
  /\ workerUp /\ mode = "hijack" /\ ~Held
  /\ owner' = b /\ ownerLive' = TRUE
  /\ owned' = [owned EXCEPT ![b] = TRUE]
  /\ entitled' = [entitled EXCEPT ![b] = TRUE]
  /\ UNCHANGED <<storeVars, bindVars, known, rest, workerUp, mode, pc, tryVars,
                 upsets>>

GiveBack(b) ==
  /\ pc[b] = "open" /\ Owns(b)
  /\ ClearOwner
  /\ owned' = [owned EXCEPT ![b] = FALSE]
  /\ UNCHANGED <<storeVars, bindVars, known, rest, workerUp, mode, pc, tryVars,
                 entitled, upsets>>

\* The old socket's ownership, written on its token while the token is good.
MarkOf(b) == IF (Owns(b) \/ owned[b]) /\ bound[b] # NULL /\ Unspent(bound[b])
               THEN {bound[b]} ELSE {}

\* cleanup_browser_disconnect: the latch goes in the same section as the mark,
\* so whoever it lets through reads the mark.  A store that raises leaves the
\* latch behind.
Disconnect(b) ==
  /\ pc[b] \in {"open", "failed"}
  /\ IF Owns(b) THEN ClearOwner ELSE UNCHANGED <<owner, ownerLive>>
  /\ bound' = [bound EXCEPT ![b] = NULL]
  /\ \/ marked' = marked \cup MarkOf(b) /\ armed' = armed \ {bound[b]}
     \/ /\ StoreMayFail /\ (Owns(b) \/ owned[b])
        /\ UNCHANGED <<marked, armed>>
  /\ Finish(b, "gone")
  /\ owned' = [owned EXCEPT ![b] = FALSE]
  /\ entitled' = [entitled EXCEPT ![b] = FALSE]
  /\ UNCHANGED <<token, known, rest, workerUp, mode, mints, upsets>>

-----------------------------------------------------------------------------
(* _handle_resume *)

\* wait_resume_token_ready, as far as the latch.
ResumeBegin(b, t) ==
  /\ pc[b] = "open"
  /\ t \in known /\ mints[b] < MaxMint
  /\ try' = [try EXCEPT ![b] = [NoTry EXCEPT !.offer = t]]
  /\ Goto(b, IF Ready(b, t) THEN "lookup" ELSE "waiting")
  /\ UNCHANGED <<storeVars, bindVars, known, leaseVars, mints, owned,
                 entitled, upsets>>

\* The latch was released, or RESUME_TOKEN_DETACH_TIMEOUT_S has passed.
WaitOver(b) ==
  /\ pc[b] = "waiting"
  /\ \/ try[b].offer \notin armed /\ UNCHANGED try
     \/ try' = [try EXCEPT ![b].late = TRUE]
  /\ Goto(b, "lookup")
  /\ UNCHANGED <<storeVars, bindVars, known, leaseVars, mints, owned,
                 entitled, upsets>>

\* store.get and the application's on_resume, which may reject.
Lookup(b) ==
  LET t == try[b].offer IN
  /\ pc[b] = "lookup"
  /\ \/ /\ Unspent(t)
        /\ try' = [try EXCEPT ![b].was = t \in marked]
        /\ Goto(b, IF t \in marked THEN "reclaim" ELSE "create")
     \/ Finish(b, "open")
     \/ StoreMayFail /\ Finish(b, "failed")
  /\ UNCHANGED <<storeVars, bindVars, known, leaseVars, mints, owned,
                 entitled, upsets>>

\* try_reclaim_hijack_status: a lapsed owner that was not swept yet is in the
\* way, without being a competitor.
Reclaim(b) ==
  /\ pc[b] = "reclaim"
  /\ IF workerUp /\ mode # "open" /\ owner = NULL /\ ~Held
       THEN /\ owner' = b /\ ownerLive' = TRUE
            /\ Goto(b, "repause")
       ELSE /\ Goto(b, IF Held THEN "contested" ELSE "refused")
            /\ UNCHANGED <<owner, ownerLive>>
  /\ UNCHANGED <<storeVars, bindVars, known, rest, workerUp, mode, tryVars,
                 owned,
                 entitled, upsets>>

\* The pause goes out under the reclaimed ownership, or the reclaim is undone;
\* a send that fails drops the worker.
Repause(b) ==
  /\ pc[b] = "repause"
  /\ \/ /\ workerUp /\ (mode = "open" \/ Owns(b))
        /\ try' = [try EXCEPT ![b].reclaimed = TRUE]
        /\ Goto(b, "create")
        /\ UNCHANGED workerUp
     \/ /\ workerUp' \in {workerUp, FALSE}
        /\ try' = [try EXCEPT ![b].after = "refused"]
        /\ Goto(b, "undo")
  /\ UNCHANGED <<storeVars, bindVars, known, owner, ownerLive, rest, mode,
                 mints,
                 owned, entitled, upsets>>

\* A token that is marked resumes without the lease only in open mode, or over
\* a competing owner where the deployment allows it.
Fallback(b) ==
  /\ pc[b] \in {"contested", "refused"}
  /\ IF mode = "open" \/ (pc[b] = "contested" /\ RoleOnlyOverOwner)
       THEN Goto(b, "create") /\ UNCHANGED <<try, owned>>
       ELSE Finish(b, "open") /\ owned' = [owned EXCEPT ![b] = FALSE]
  /\ UNCHANGED <<storeVars, bindVars, known, leaseVars, mints, entitled,
                 upsets>>

\* The resume ends, once its provisional reclaim, if any, is undone.
\* Mutant: the reclaim is kept.
FinishKept(b, label) == Finish(b, label)
FinishUndone(b, label) ==
  IF try[b].reclaimed
    THEN Goto(b, "undo") /\ try' = [try EXCEPT ![b].after = label]
    ELSE Finish(b, label)

\* store.create: the replacement exists before the token is consumed.
Create(b) ==
  /\ pc[b] = "create"
  /\ \/ /\ mints' = [mints EXCEPT ![b] = @ + 1]
        /\ token' = [token EXCEPT ![<<b, mints[b] + 1>>] = "live"]
        /\ Goto(b, "consume")
        /\ UNCHANGED try
     \/ StoreMayFail /\ FinishUndone(b, "failed") /\ UNCHANGED <<token, mints>>
  /\ UNCHANGED <<marked, bindVars, known, leaseVars, owned, entitled, upsets>>

\* The record goes, and was_hijack_owner with it.
Revoke(t) == token' = [token EXCEPT ![t] = "spent"] /\ marked' = marked \ {t}

\* store.consume: one transaction, so one of several resumes wins.
Consume(b) ==
  LET t == try[b].offer IN
  /\ pc[b] = "consume" /\ Unspent(t)
  /\ Revoke(t)
  /\ entitled' = [entitled EXCEPT ![b] = @ \/ t \in marked]
  /\ Goto(b, "bind")
  /\ UNCHANGED <<bindVars, known, leaseVars, tryVars, owned, upsets>>

\* The others revoke their replacement and undo their reclaim.
ConsumeLost(b) ==
  /\ pc[b] = "consume" /\ ~Unspent(try[b].offer)
  /\ \/ /\ Revoke(Fresh(b))
        /\ FinishUndone(b, "open")
        /\ owned' = [owned EXCEPT ![b] = FALSE]
     \/ StoreMayFail /\ Finish(b, "failed") /\ UNCHANGED <<token, marked,
                                                           owned>>
  /\ UNCHANGED <<bindVars, known, leaseVars, mints, entitled, upsets>>

\* consume raised; so may the revocation, which is suppressed.
ConsumeFails(b) ==
  /\ pc[b] = "consume" /\ StoreMayFail
  /\ Revoke(Fresh(b)) \/ UNCHANGED storeVars
  /\ FinishUndone(b, "failed")
  /\ UNCHANGED <<bindVars, known, leaseVars, mints, owned,
                 entitled, upsets>>

\* _rollback_reclaimed_hijack
Undo(b) ==
  /\ pc[b] = "undo"
  /\ IF Owns(b) THEN ClearOwner ELSE UNCHANGED <<owner, ownerLive>>
  /\ IF try[b].after = "refused" THEN Goto(b, "refused") /\ UNCHANGED try
                                 ELSE Finish(b, try[b].after)
  /\ UNCHANGED <<storeVars, bindVars, known, rest, workerUp, mode, mints, owned,
                 entitled, upsets>>

\* _bind_resume_token_locked: the superseded token's latch is released.
\* Mutant: it stays armed.
RearmOnly(b) == armed' = armed \cup {Fresh(b)}
Rearm(b) == armed' = (armed \ {bound[b]}) \cup {Fresh(b)}

Bind(b) ==
  /\ pc[b] = "bind"
  /\ Rearm(b)
  /\ bound' = [bound EXCEPT ![b] = Fresh(b)]
  /\ Goto(b, "hello")
  /\ UNCHANGED <<storeVars, known, leaseVars, tryVars, owned, entitled, upsets>>

\* The hello with the new token and the lease's state reach the client, or its
\* socket dies on one of them.
Hello(b) ==
  /\ pc[b] = "hello"
  /\ \/ /\ known' = known \cup {Fresh(b)}
        /\ owned' = [owned EXCEPT ![b] = try[b].reclaimed]
        /\ Finish(b, "open")
     \/ /\ known' \in {known, known \cup {Fresh(b)}}
        /\ Finish(b, "failed")
        /\ UNCHANGED owned
  /\ UNCHANGED <<storeVars, bindVars, leaseVars, mints, entitled, upsets>>

-----------------------------------------------------------------------------
(* Everything else that moves the lease, and time. *)

Upset == upsets < MaxUpsets /\ upsets' = upsets + 1

OwnerExpires ==
  /\ Upset
  /\ owner # NULL /\ ownerLive
  /\ ownerLive' = FALSE
  /\ UNCHANGED <<storeVars, bindVars, known, owner, rest, workerUp, mode, pc,
                 tryVars, owned, entitled>>

\* The sweep of a lapsed lease; force-release or dead-socket removal of a live
\* one.
OwnerCleared ==
  /\ Upset
  /\ owner # NULL
  /\ ClearOwner
  /\ UNCHANGED <<storeVars, bindVars, known, rest, workerUp, mode, pc, tryVars,
                 owned, entitled>>

RestLease ==
  /\ Upset
  /\ rest \/ (workerUp /\ mode # "open" /\ ~Held)
  /\ rest' = ~rest
  /\ UNCHANGED <<storeVars, bindVars, known, owner, ownerLive, workerUp, mode,
                 pc, tryVars, owned, entitled>>

\* deregister_worker ends every lease; register_worker clears an owner that no
\* REST lease keeps.
WorkerChange ==
  /\ Upset
  /\ workerUp' = ~workerUp
  /\ rest' = (rest /\ ~workerUp)
  /\ IF workerUp \/ ~rest THEN ClearOwner ELSE UNCHANGED <<owner, ownerLive>>
  /\ UNCHANGED <<storeVars, bindVars, known, mode, pc, tryVars, owned,
                 entitled>>

ModeChange ==
  /\ Upset
  /\ mode = "hijack" => ~Held
  /\ mode' = IF mode = "hijack" THEN "open" ELSE "hijack"
  /\ UNCHANGED <<storeVars, bindVars, known, owner, ownerLive, rest, workerUp,
                 pc, tryVars, owned, entitled>>

TokenExpires(t) ==
  /\ Upset
  /\ Unspent(t)
  /\ Revoke(t)
  /\ UNCHANGED <<bindVars, known, leaseVars, pc, tryVars, owned, entitled>>

-----------------------------------------------------------------------------
Init ==
  /\ token = [t \in Token |-> "unminted"]
  /\ marked = {} /\ armed = {} /\ known = {}
  /\ bound = [b \in Browser |-> NULL]
  /\ owner = NULL /\ ownerLive = FALSE /\ rest = FALSE
  /\ workerUp = TRUE /\ mode = "hijack"
  /\ pc = [b \in Browser |-> "new"]
  /\ try = [b \in Browser |-> NoTry]
  /\ mints = [b \in Browser |-> 0]
  /\ owned = [b \in Browser |-> FALSE]
  /\ entitled = [b \in Browser |-> FALSE]
  /\ upsets = 0

Resume(b) ==
  \/ WaitOver(b) \/ Lookup(b) \/ Reclaim(b) \/ Repause(b) \/ Fallback(b)
  \/ Create(b) \/ Consume(b) \/ ConsumeLost(b) \/ ConsumeFails(b)
  \/ Undo(b) \/ Bind(b) \/ Hello(b)

Next ==
  \/ \E b \in Browser :
       \/ Register(b) \/ TakeLease(b) \/ GiveBack(b) \/ Disconnect(b)
       \/ Resume(b)
       \/ \E t \in Token : ResumeBegin(b, t)
  \/ \E t \in Token : TokenExpires(t)
  \/ OwnerExpires \/ OwnerCleared \/ RestLease \/ WorkerChange \/ ModeChange

Spec == Init /\ [][Next]_vars

-----------------------------------------------------------------------------
(* Safety. *)

Deciding == {"reclaim", "repause", "contested", "refused", "create", "consume"}

\* Resumes neither multiply nor forge authority: however many of them race for
\* one token, the tokens clients can use are at most one per socket that
\* registered.
AuthorityConserved ==
  Cardinality({t \in known : Unspent(t)})
    <= Cardinality({b \in Browser : pc[b] # "new"})

\* A resume that did not run out of patience decides by what the old socket's
\* departure wrote on the token: no other socket still holds the token, and
\* the flag it read is the one that stands.
MarkSeen ==
  \A b \in Browser : pc[b] \in Deciding /\ ~try[b].late =>
    /\ Unspent(try[b].offer) => try[b].was = (try[b].offer \in marked)
    /\ \A c \in Browser \ {b} : bound[c] # try[b].offer

\* Once its resume is over, a browser holds the worker only if it asked for it
\* or its marked token is the one that was consumed: who lost the race for a
\* token, or saw the store fail, keeps nothing of its reclaim.
OwnersEntitled ==
  \A b \in Browser : Owns(b) /\ pc[b] \in {"open", "gone"} => entitled[b]

\* A departing socket marks its token as the lease owner's only if it took the
\* lease or paid for it: a resume that lost its race cannot pass its undone
\* reclaim on to the token its own socket was given.
MarksEarned == [][\A t \in marked' \ marked : entitled[t[1]]]_vars

\* A latch is armed only for the token its socket is bound to now, or was when
\* it went: a token superseded by a resume makes nobody wait.
LatchFollowsSocket ==
  \A t \in armed : bound[t[1]] = t \/ pc[t[1]] = "gone"

-----------------------------------------------------------------------------
(* What a comment says and the code does not keep. *)

\* "a resume released by this latch sees a reclaimable lease, not a stale
\* owner" (cleanup_browser_disconnect, where the owner is cleared).
NoStaleOwner ==
  \A b \in Browser : pc[b] = "gone" /\ bound[b] = NULL => owner # b
=============================================================================
