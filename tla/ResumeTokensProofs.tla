------------------------- MODULE ResumeTokensProofs -------------------------
(***************************************************************************)
(* Proofs about ResumeTokens, for any number of sockets, replacements and  *)
(* outside changes.                                                        *)
(*                                                                         *)
(* ResumeInv is inductive.  A bound token is armed and is its socket's own *)
(* (OwnToken), and a token that clients know is none that a socket is      *)
(* about to be given (KnownMinted): so a token found without its latch can *)
(* be bound to nobody again (Detached) and its mark is final (MarkStands). *)
(* Earned follows a provisional reclaim through all of its exits.          *)
(***************************************************************************)
EXTENDS ResumeTokens, FiniteSetTheorems, TLAPS

\* Where a resume holds what it read from the token.
Reading == Deciding \cup {"undo"}

\* A resume that has not minted yet may.
MintsLeft ==
  \A b \in Browser :
    \/ pc[b] \in {"waiting", "lookup", "reclaim", "repause", "contested",
                  "refused", "create"}
    \/ pc[b] = "undo" /\ try[b].after = "refused"
    => mints[b] < MaxMint

\* A socket is bound to a token of its own, whose latch is armed.
OwnToken ==
  \A b \in Browser :
    /\ pc[b] = "new" => bound[b] = NULL /\ mints[b] = 0
    /\ bound[b] # NULL => bound[b][1] = b /\ bound[b] \in armed

\* Clients know no token before it is handed out.
KnownMinted ==
  \A t \in known :
    /\ pc[t[1]] # "new"
    /\ t[2] <= mints[t[1]]
    /\ pc[t[1]] \in {"consume", "bind", "hello"} => t[2] < mints[t[1]]

\* A resume works on a token that a client presented.
Offered ==
  \A b \in Browser :
    /\ try[b].offer # NULL => try[b].offer \in known
    /\ pc[b] \in {"waiting", "lookup", "bind", "hello"} \cup Reading =>
         try[b].offer # NULL

\* Who did not run out of patience found the latch released, or its own token.
Detached ==
  \A b \in Browser : pc[b] \in {"lookup"} \cup Reading /\ ~try[b].late =>
    bound[b] = try[b].offer \/ try[b].offer \notin armed

\* The mark read is the mark of the token, as long as the token lives.
MarkStands ==
  \A b \in Browser : pc[b] \in Reading /\ Unspent(try[b].offer) =>
    /\ try[b].was => try[b].offer \in marked
    /\ try[b].offer \in marked /\ ~try[b].late => try[b].was

\* Who holds the worker without having paid is still in the resume that will
\* pay or undo the reclaim, or failed with the store.
Earned ==
  \A b \in Browser :
    /\ pc[b] \in {"reclaim", "repause"} \/ try[b].reclaimed => try[b].was
    /\ pc[b] \in {"waiting", "lookup", "reclaim", "repause"} =>
         ~try[b].reclaimed
    /\ Owns(b) /\ ~entitled[b] =>
         \/ pc[b] \in {"repause", "undo"}
         \/ pc[b] \in {"create", "consume"} /\ try[b].reclaimed
         \/ StoreMayFail /\ pc[b] = "failed"
    /\ pc[b] \in {"bind", "hello"} /\ try[b].reclaimed => entitled[b]
    /\ owned[b] => entitled[b]
    /\ ~StoreMayFail => try[b].after # "failed"

\* Inductive.
ResumeInv ==
  /\ TypeOK
  /\ MintsLeft
  /\ OwnToken /\ LatchFollowsSocket /\ KnownMinted
  /\ Offered /\ Detached /\ MarkStands
  /\ Earned

\* The actions of Next, by who takes them.
SocketAct(b) ==
  \/ Register(b) \/ TakeLease(b) \/ GiveBack(b) \/ Disconnect(b)
  \/ \E t \in Token : ResumeBegin(b, t)

WorldAct ==
  \/ OwnerExpires \/ OwnerCleared \/ RestLease \/ WorkerChange \/ ModeChange
  \/ \E t \in Token : TokenExpires(t)

LEMMA Actors ==
  ASSUME Next
  PROVE  (\E b \in Browser : SocketAct(b) \/ Resume(b)) \/ WorldAct
BY DEF Next, SocketAct, WorldAct

-----------------------------------------------------------------------------
(* Types. *)

LEMMA NoTryTyped == NoTry \in Try BY DEF NoTry, Try

LEMMA OfferUpdate ==
  ASSUME NEW r \in Try, NEW t \in Token
  PROVE  [r EXCEPT !.offer = t] \in Try
BY DEF Try

LEMMA AfterUpdate ==
  ASSUME NEW r \in Try, NEW label \in {"refused", "open", "failed"}
  PROVE  [r EXCEPT !.after = label] \in Try
BY DEF Try

LEMMA FlagUpdate ==
  ASSUME NEW r \in Try
  PROVE  /\ [r EXCEPT !.late = TRUE] \in Try
         /\ [r EXCEPT !.reclaimed = TRUE] \in Try
BY DEF Try

LEMMA WasUpdate ==
  ASSUME NEW r \in Try, NEW was \in BOOLEAN
  PROVE  [r EXCEPT !.was = was] \in Try
BY DEF Try

LEMMA FreshTyped ==
  ASSUME TypeOK, NEW b \in Browser
  PROVE  Fresh(b) \in Token /\ <<b, 0>> \in Token
BY ResumeAssumption DEF TypeOK, Fresh, Token

\* What a resume keeps.
LEMMA TypeTry ==
  ASSUME TypeOK,
         NEW b \in Browser,
         Resume(b) \/ Disconnect(b) \/ \E t \in Token : ResumeBegin(b, t)
  PROVE  try' \in [Browser -> Try]
<1>0. /\ try \in [Browser -> Try] /\ try[b] \in Try
      /\ \A label \in {"refused", "open", "failed"} :
           [try[b] EXCEPT !.after = label] \in Try
  BY AfterUpdate DEF TypeOK
<1> USE NoTryTyped DEF tryVars, Goto, Finish
<1>1. CASE Disconnect(b) BY <1>0, <1>1 DEF Disconnect
<1>2. CASE \E t \in Token : ResumeBegin(b, t)
  <2>1. PICK t \in Token : ResumeBegin(b, t) BY <1>2
  <2>2. [NoTry EXCEPT !.offer = t] \in Try BY OfferUpdate
  <2> QED BY <1>0, <2>1, <2>2 DEF ResumeBegin
<1>3. CASE WaitOver(b)
  <2>1. [try[b] EXCEPT !.late = TRUE] \in Try BY <1>0, FlagUpdate
  <2> QED BY <1>0, <1>3, <2>1 DEF WaitOver
<1>4. CASE Lookup(b)
  <2>1. (try[b].offer \in marked) \in BOOLEAN OBVIOUS
  <2>2. [try[b] EXCEPT !.was = (try[b].offer \in marked)] \in Try
    BY <1>0, <2>1, WasUpdate, Zenon
  <2>3. CASE try' = [try EXCEPT ![b].was = try[b].offer \in marked]
    BY <1>0, <2>2, <2>3
  <2>4. CASE try' = [try EXCEPT ![b] = NoTry] BY <1>0, <2>4
  <2> QED BY <1>4, <2>3, <2>4 DEF Lookup
<1>5. CASE Repause(b)
  <2>1. [try[b] EXCEPT !.reclaimed = TRUE] \in Try BY <1>0, FlagUpdate
  <2> QED BY <1>0, <1>5, <2>1 DEF Repause
<1>6. CASE Fallback(b) BY <1>0, <1>6 DEF Fallback
<1>7. CASE Create(b) BY <1>0, <1>7 DEF Create, FinishUndone
<1>8. CASE ConsumeLost(b) BY <1>0, <1>8 DEF ConsumeLost, FinishUndone
<1>9. CASE ConsumeFails(b) BY <1>0, <1>9 DEF ConsumeFails, FinishUndone
<1>10. CASE Undo(b) BY <1>0, <1>10 DEF Undo
<1>11. CASE Hello(b) BY <1>0, <1>11 DEF Hello
<1>12. CASE Reclaim(b) \/ Consume(b) \/ Bind(b)
  BY <1>0, <1>12 DEF Reclaim, Consume, Bind
<1> QED
  BY <1>1, <1>2, <1>3, <1>4, <1>5, <1>6, <1>7, <1>8, <1>9, <1>10, <1>11, <1>12
  DEF Resume

LEMMA TypeSocket ==
  ASSUME TypeOK,
         NEW b \in Browser,
         SocketAct(b),
         try' \in [Browser -> Try]
  PROVE  TypeOK'
<1> USE DEF TypeOK, storeVars, bindVars, leaseVars, tryVars, Goto, Upset, Pc
<1>1. CASE Register(b) BY <1>1, ResumeAssumption, FreshTyped DEF Register
<1>2. CASE TakeLease(b) BY <1>2, ResumeAssumption, FreshTyped DEF TakeLease
<1>3. CASE GiveBack(b)
  BY <1>3, ResumeAssumption, FreshTyped
  DEF GiveBack, ClearOwner
<1>4. CASE Disconnect(b)
  <2>1. /\ owner' \in Browser \cup {NULL} /\ ownerLive' \in BOOLEAN
        /\ rest' \in BOOLEAN /\ workerUp' \in BOOLEAN
    BY <1>4 DEF Disconnect, MarkOf, Finish, ClearOwner
  <2> QED
    BY <1>4, <2>1, ResumeAssumption
    DEF Disconnect, MarkOf, Finish, ClearOwner
<1>5. CASE \E t \in Token : ResumeBegin(b, t)
  BY <1>5, ResumeAssumption, FreshTyped
  DEF ResumeBegin
<1> QED BY <1>1, <1>2, <1>3, <1>4, <1>5 DEF SocketAct

LEMMA TypeResume ==
  ASSUME TypeOK, MintsLeft,
         NEW b \in Browser,
         Resume(b),
         try' \in [Browser -> Try]
  PROVE  TypeOK'
<1> USE DEF TypeOK, storeVars, bindVars, leaseVars, tryVars, Goto, Upset, Pc
<1>1. CASE WaitOver(b) BY <1>1, ResumeAssumption, FreshTyped DEF WaitOver
<1>2. CASE Lookup(b)
  BY <1>2, ResumeAssumption, FreshTyped
  DEF Lookup, Finish, Unspent
<1>3. CASE Reclaim(b) BY <1>3, ResumeAssumption, FreshTyped DEF Reclaim, Held
<1>4. CASE Repause(b) BY <1>4, ResumeAssumption, FreshTyped DEF Repause
<1>5. CASE Fallback(b)
  BY <1>5, ResumeAssumption, FreshTyped
  DEF Fallback, Finish
<1>6. CASE Create(b)
  BY <1>6, ResumeAssumption DEF MintsLeft, Create, FinishUndone, Finish
<1>7. CASE Consume(b)
  BY <1>7, ResumeAssumption, FreshTyped
  DEF Consume, Revoke, Unspent
<1>8. CASE ConsumeLost(b)
  <2>1. Fresh(b) \in Token BY FreshTyped
  <2>2. token' \in [Token -> {"unminted", "live", "spent"}]
    BY <1>8, <2>1 DEF ConsumeLost, Revoke
  <2>3. marked' \subseteq Token
    BY <1>8, <2>1 DEF ConsumeLost, Revoke
  <2>4. pc' \in [Browser -> Pc]
    BY <1>8 DEF ConsumeLost, FinishUndone, Finish
  <2>5. owned' \in [Browser -> BOOLEAN] BY <1>8 DEF ConsumeLost
  <2>6. UNCHANGED <<bound, armed, known, owner, ownerLive, rest, workerUp,
                    mode, mints, entitled, upsets>>
    BY <1>8 DEF ConsumeLost
  <2> QED BY <2>2, <2>3, <2>4, <2>5, <2>6
<1>9. CASE ConsumeFails(b)
  <2>1. Fresh(b) \in Token BY FreshTyped
  <2>2. token' \in [Token -> {"unminted", "live", "spent"}]
    BY <1>9, <2>1 DEF ConsumeFails, Revoke
  <2>3. marked' \subseteq Token
    BY <1>9, <2>1 DEF ConsumeFails, Revoke
  <2>4. pc' \in [Browser -> Pc]
    BY <1>9 DEF ConsumeFails, FinishUndone, Finish
  <2>5. UNCHANGED <<bound, armed, known, owner, ownerLive, rest, workerUp,
                    mode, mints, owned, entitled, upsets>>
    BY <1>9 DEF ConsumeFails
  <2> QED BY <2>2, <2>3, <2>4, <2>5
<1>10. CASE Undo(b)
  <2>1. /\ owner' \in Browser \cup {NULL} /\ ownerLive' \in BOOLEAN
        /\ rest' \in BOOLEAN /\ workerUp' \in BOOLEAN
    BY <1>10 DEF Undo, Finish, ClearOwner
  <2>2. try[b].after \in {"refused", "open", "failed"} BY DEF Try
  <2> QED BY <1>10, <2>1, <2>2, ResumeAssumption DEF Undo, Finish, ClearOwner
<1>11. CASE Bind(b) BY <1>11, ResumeAssumption, FreshTyped DEF Bind, Rearm
<1>12. CASE Hello(b)
  <2>1. try[b].reclaimed \in BOOLEAN BY DEF Try
  <2>2. owned' \in [Browser -> BOOLEAN] BY <1>12, <2>1 DEF Hello
  <2>3. known' \subseteq Token BY <1>12, FreshTyped DEF Hello
  <2>4. pc' \in [Browser -> Pc] BY <1>12 DEF Hello, Finish
  <2>5. UNCHANGED <<token, marked, bound, armed, owner, ownerLive, rest,
                    workerUp, mode, mints, entitled, upsets>>
    BY <1>12 DEF Hello
  <2> QED BY <2>2, <2>3, <2>4, <2>5
<1> QED
  BY <1>1, <1>2, <1>3, <1>4, <1>5, <1>6, <1>7, <1>8, <1>9, <1>10, <1>11, <1>12
  DEF Resume

LEMMA TypeWorld ==
  ASSUME TypeOK,
         WorldAct
  PROVE  TypeOK'
<1> USE DEF TypeOK, storeVars, bindVars, leaseVars, tryVars, Goto, Upset, Pc
<1>1. CASE OwnerExpires
  <2>1. /\ owner' \in Browser \cup {NULL} /\ ownerLive' \in BOOLEAN
        /\ rest' \in BOOLEAN /\ workerUp' \in BOOLEAN
    BY <1>1 DEF OwnerExpires
  <2> QED BY <1>1, <2>1, ResumeAssumption DEF OwnerExpires
<1>2. CASE OwnerCleared
  <2>1. /\ owner' \in Browser \cup {NULL} /\ ownerLive' \in BOOLEAN
        /\ rest' \in BOOLEAN /\ workerUp' \in BOOLEAN
    BY <1>2 DEF OwnerCleared, ClearOwner
  <2> QED BY <1>2, <2>1, ResumeAssumption DEF OwnerCleared, ClearOwner
<1>3. CASE RestLease BY <1>3, ResumeAssumption DEF RestLease
<1>4. CASE WorkerChange
  <2>1. /\ owner' \in Browser \cup {NULL} /\ ownerLive' \in BOOLEAN
        /\ rest' \in BOOLEAN /\ workerUp' \in BOOLEAN
    BY <1>4 DEF WorkerChange, ClearOwner
  <2> QED BY <1>4, <2>1, ResumeAssumption DEF WorkerChange, ClearOwner
<1>5. CASE ModeChange BY <1>5, ResumeAssumption DEF ModeChange
<1>6. CASE \E t \in Token : TokenExpires(t)
  BY <1>6, ResumeAssumption
  DEF TokenExpires, Revoke
<1> QED BY <1>1, <1>2, <1>3, <1>4, <1>5, <1>6 DEF WorldAct

-----------------------------------------------------------------------------
(* What a resume leaves behind, step by step. *)

\* The fields of r and s that reading a token fills in.
SameReading(r, s) == r.offer = s.offer /\ r.was = s.was /\ r.late = s.late
LEMMA OthersStay ==
  ASSUME TypeOK, NEW b \in Browser, NEW c \in Browser \ {b}, Resume(b)
  PROVE  pc'[c] = pc[c] /\ try'[c] = try[c]
BY
DEF TypeOK, Resume, WaitOver, Lookup, Reclaim, Repause, Fallback, Create,
    Consume, ConsumeLost, ConsumeFails, Undo, Bind, Hello, FinishUndone,
    Finish, Goto, tryVars

LEMMA AfterWait ==
  ASSUME TypeOK, NEW b \in Browser, WaitOver(b)
  PROVE  /\ pc[b] = "waiting" /\ pc'[b] = "lookup"
         /\ try'[b].offer = try[b].offer /\ try'[b].reclaimed = try[b].reclaimed
         /\ try'[b].after = try[b].after
         /\ try'[b].late \/ try[b].offer \notin armed
         /\ armed' = armed
BY DEF TypeOK, WaitOver, Goto, Try, bindVars

LEMMA AfterLookup ==
  ASSUME TypeOK, NEW b \in Browser, Lookup(b)
  PROVE  /\ pc[b] = "lookup"
         /\ \/ /\ pc'[b] = IF try[b].offer \in marked
                            THEN "reclaim" ELSE "create"
               /\ try'[b] = [try[b] EXCEPT !.was = try[b].offer \in marked]
            \/ pc'[b] \in {"open", "failed"} /\ try'[b] = NoTry
BY DEF TypeOK, Lookup, Goto, Finish

LEMMA AfterRepause ==
  ASSUME TypeOK, NEW b \in Browser, Repause(b)
  PROVE  /\ pc[b] = "repause" /\ SameReading(try'[b], try[b])
         /\ \/ /\ pc'[b] = "create" /\ try'[b].reclaimed
               /\ try'[b].after = try[b].after
            \/ /\ pc'[b] = "undo" /\ try'[b].reclaimed = try[b].reclaimed
               /\ try'[b].after = "refused"
<1>0. try[b] \in Try BY DEF TypeOK
<1>1. CASE try' = [try EXCEPT ![b].reclaimed = TRUE] /\ Goto(b, "create")
  BY <1>0, <1>1 DEF TypeOK, Repause, Goto, Try, SameReading
<1>2. CASE try' = [try EXCEPT ![b].after = "refused"] /\ Goto(b, "undo")
  BY <1>0, <1>2 DEF TypeOK, Repause, Goto, Try, SameReading
<1> QED BY <1>1, <1>2 DEF Repause

LEMMA AfterFinish ==
  ASSUME TypeOK, NEW b \in Browser, NEW label \in {"open", "failed"},
         FinishUndone(b, label)
  PROVE  \/ /\ pc'[b] = "undo" /\ SameReading(try'[b], try[b])
            /\ try[b].reclaimed /\ try'[b].reclaimed
            /\ try'[b].after = label
         \/ pc'[b] = label /\ try'[b] = NoTry /\ ~try[b].reclaimed
BY DEF TypeOK, FinishUndone, Finish, Goto, Try, SameReading
-----------------------------------------------------------------------------
(* A resume mints once. *)

LEMMA MintsSocket ==
  ASSUME TypeOK, TypeOK', MintsLeft,
         NEW b \in Browser,
         SocketAct(b)
  PROVE  MintsLeft'
<1> USE DEF TypeOK, storeVars, bindVars, leaseVars, tryVars, Goto, Try, NoTry,
            Reading, Deciding, MintsLeft
<1>1. CASE Register(b) BY <1>1 DEF Register
<1>2. CASE TakeLease(b) BY <1>2 DEF TakeLease
<1>3. CASE GiveBack(b) BY <1>3 DEF GiveBack, ClearOwner
<1>4. CASE Disconnect(b) BY <1>4 DEF Disconnect, MarkOf, Finish, ClearOwner
<1>5. CASE \E t \in Token : ResumeBegin(b, t) BY <1>5 DEF ResumeBegin
<1> QED BY <1>1, <1>2, <1>3, <1>4, <1>5 DEF SocketAct

LEMMA MintsResume ==
  ASSUME TypeOK, TypeOK', MintsLeft,
         NEW b \in Browser,
         Resume(b)
  PROVE  MintsLeft'
<1> USE DEF TypeOK, storeVars, bindVars, leaseVars, tryVars, Goto, Try, NoTry,
            Reading, Deciding, MintsLeft
<1>1. CASE WaitOver(b) BY <1>1 DEF WaitOver
<1>2. CASE Lookup(b) BY SMTT(30), <1>2 DEF Lookup, Finish, Unspent
<1>3. CASE Reclaim(b) BY <1>3 DEF Reclaim, Held
<1>4. CASE Repause(b)
  <2>1. mints' = mints /\ mints[b] < MaxMint BY <1>4 DEF Repause
  <2>2. \A c \in Browser \ {b} : pc'[c] = pc[c] /\ try'[c] = try[c]
    BY <1>4 DEF Repause
  <2> QED BY <2>1, <2>2
<1>5. CASE Fallback(b) BY <1>5 DEF Fallback, Finish
<1>6. CASE Create(b) BY <1>6 DEF Create, FinishUndone, Finish
<1>7. CASE Consume(b) BY <1>7 DEF Consume, Revoke, Unspent
<1>8. CASE ConsumeLost(b)
  BY <1>8
  DEF ConsumeLost, FinishUndone, Finish, Revoke, Fresh
<1>9. CASE ConsumeFails(b)
  <2>1. FinishUndone(b, "failed") /\ mints' = mints BY <1>9 DEF ConsumeFails
  <2>2. \A c \in Browser \ {b} : pc'[c] = pc[c] /\ try'[c] = try[c]
    BY <2>1 DEF FinishUndone, Finish
  <2>3. \/ pc'[b] = "undo" /\ try'[b].after = "failed"
        \/ pc'[b] = "failed"
    BY <2>1 DEF FinishUndone, Finish
  <2> QED BY <2>1, <2>2, <2>3
<1>10. CASE Undo(b) BY <1>10 DEF Undo, Finish, ClearOwner
<1>11. CASE Bind(b) BY <1>11 DEF Bind, Rearm, Fresh
<1>12. CASE Hello(b) BY SMTT(30), <1>12 DEF Hello, Finish, Fresh
<1> QED
  BY <1>1, <1>2, <1>3, <1>4, <1>5, <1>6, <1>7, <1>8, <1>9, <1>10, <1>11, <1>12
  DEF Resume

LEMMA MintsWorld ==
  ASSUME TypeOK, TypeOK', MintsLeft,
         WorldAct
  PROVE  MintsLeft'
<1> USE DEF TypeOK, storeVars, bindVars, leaseVars, tryVars, Goto, Try, NoTry,
            Reading, Deciding, MintsLeft
<1>1. CASE OwnerExpires BY <1>1 DEF OwnerExpires
<1>2. CASE OwnerCleared BY <1>2 DEF OwnerCleared, ClearOwner
<1>3. CASE RestLease BY <1>3 DEF RestLease
<1>4. CASE WorkerChange BY <1>4 DEF WorkerChange, ClearOwner
<1>5. CASE ModeChange BY <1>5 DEF ModeChange
<1>6. CASE \E t \in Token : TokenExpires(t) BY <1>6 DEF TokenExpires, Revoke
<1> QED BY <1>1, <1>2, <1>3, <1>4, <1>5, <1>6 DEF WorldAct

-----------------------------------------------------------------------------
(* Bindings and latches. *)

LEMMA SockSocket ==
  ASSUME TypeOK, TypeOK', OwnToken, LatchFollowsSocket,
         NEW b \in Browser,
         SocketAct(b)
  PROVE  OwnToken' /\ LatchFollowsSocket'
<1> USE DEF TypeOK, storeVars, bindVars, leaseVars, tryVars, Goto, Try, NoTry,
            Reading, Deciding, OwnToken, LatchFollowsSocket, Token
<1>1. CASE Register(b) BY <1>1, ResumeAssumption, FreshTyped DEF Register
<1>2. CASE TakeLease(b) BY <1>2 DEF TakeLease
<1>3. CASE GiveBack(b) BY <1>3 DEF GiveBack, ClearOwner
<1>4. CASE Disconnect(b) BY <1>4 DEF Disconnect, MarkOf, Finish, ClearOwner
<1>5. CASE \E t \in Token : ResumeBegin(b, t) BY <1>5 DEF ResumeBegin
<1> QED BY <1>1, <1>2, <1>3, <1>4, <1>5 DEF SocketAct

LEMMA SockResume ==
  ASSUME TypeOK, TypeOK', OwnToken, LatchFollowsSocket,
         NEW b \in Browser,
         Resume(b)
  PROVE  OwnToken' /\ LatchFollowsSocket'
<1> USE DEF TypeOK, storeVars, bindVars, leaseVars, tryVars, Goto, Try, NoTry,
            Reading, Deciding, OwnToken, LatchFollowsSocket, Token
<1>1. CASE WaitOver(b) BY <1>1 DEF WaitOver
<1>2. CASE Lookup(b) BY <1>2 DEF Lookup, Finish, Unspent
<1>3. CASE Reclaim(b) BY <1>3 DEF Reclaim, Held
<1>4. CASE Repause(b)
  <2>1. \A c \in Browser \ {b} : pc'[c] = pc[c] /\ try'[c] = try[c]
    BY OthersStay
  <2>2. UNCHANGED <<bound, armed, mints>> BY <1>4 DEF Repause
  <2>3. pc[b] = "repause" /\ pc'[b] \in {"create", "undo"}
    BY <1>4, AfterRepause
  <2>4. \A c \in Browser : /\ pc'[c] = "new" => pc[c] = "new"
                           /\ pc[c] = "gone" => pc'[c] = "gone"
    BY <2>1, <2>3
  <2>5. OwnToken' BY <2>2, <2>4
  <2>6. LatchFollowsSocket' BY <2>2, <2>4
  <2> QED BY <2>5, <2>6
<1>5. CASE Fallback(b) BY <1>5 DEF Fallback, Finish
<1>6. CASE Create(b) BY <1>6 DEF Create, FinishUndone, Finish
<1>7. CASE Consume(b) BY <1>7 DEF Consume, Revoke, Unspent
<1>8. CASE ConsumeLost(b)
  BY <1>8
  DEF ConsumeLost, FinishUndone, Finish, Revoke, Fresh
<1>9. CASE ConsumeFails(b)
  BY <1>9
  DEF ConsumeFails, FinishUndone, Finish, Revoke, Fresh
<1>10. CASE Undo(b) BY <1>10 DEF Undo, Finish, ClearOwner
<1>11. CASE Bind(b) BY <1>11 DEF Bind, Rearm, Fresh
<1>12. CASE Hello(b) BY <1>12 DEF Hello, Finish, Fresh
<1> QED
  BY <1>1, <1>2, <1>3, <1>4, <1>5, <1>6, <1>7, <1>8, <1>9, <1>10, <1>11, <1>12
  DEF Resume

LEMMA SockWorld ==
  ASSUME TypeOK, TypeOK', OwnToken, LatchFollowsSocket,
         WorldAct
  PROVE  OwnToken' /\ LatchFollowsSocket'
<1> USE DEF TypeOK, storeVars, bindVars, leaseVars, tryVars, Goto, Try, NoTry,
            Reading, Deciding, OwnToken, LatchFollowsSocket, Token
<1>1. CASE OwnerExpires BY <1>1 DEF OwnerExpires
<1>2. CASE OwnerCleared BY <1>2 DEF OwnerCleared, ClearOwner
<1>3. CASE RestLease BY <1>3 DEF RestLease
<1>4. CASE WorkerChange BY <1>4 DEF WorkerChange, ClearOwner
<1>5. CASE ModeChange BY <1>5 DEF ModeChange
<1>6. CASE \E t \in Token : TokenExpires(t) BY <1>6 DEF TokenExpires, Revoke
<1> QED BY <1>1, <1>2, <1>3, <1>4, <1>5, <1>6 DEF WorldAct

-----------------------------------------------------------------------------
(* Known tokens. *)

LEMMA KnownSocket ==
  ASSUME TypeOK, TypeOK', KnownMinted, OwnToken, MintsLeft,
         NEW b \in Browser,
         SocketAct(b)
  PROVE  KnownMinted'
<1> USE DEF TypeOK, storeVars, bindVars, leaseVars, tryVars, Goto, Try, NoTry,
            Reading, Deciding, KnownMinted, OwnToken, MintsLeft, Token
<1>1. CASE Register(b) BY <1>1 DEF Register
<1>2. CASE TakeLease(b) BY <1>2 DEF TakeLease
<1>3. CASE GiveBack(b) BY <1>3 DEF GiveBack, ClearOwner
<1>4. CASE Disconnect(b) BY <1>4 DEF Disconnect, MarkOf, Finish, ClearOwner
<1>5. CASE \E t \in Token : ResumeBegin(b, t) BY <1>5 DEF ResumeBegin
<1> QED BY <1>1, <1>2, <1>3, <1>4, <1>5 DEF SocketAct

LEMMA KnownResume ==
  ASSUME TypeOK, TypeOK', KnownMinted, OwnToken, MintsLeft,
         NEW b \in Browser,
         Resume(b)
  PROVE  KnownMinted'
<1> USE DEF TypeOK, storeVars, bindVars, leaseVars, tryVars, Goto, Try, NoTry,
            Reading, Deciding, KnownMinted, OwnToken, MintsLeft, Token
<1>1. CASE WaitOver(b) BY <1>1 DEF WaitOver
<1>2. CASE Lookup(b) BY <1>2 DEF Lookup, Finish, Unspent
<1>3. CASE Reclaim(b) BY <1>3 DEF Reclaim, Held
<1>4. CASE Repause(b)
  <2>1. \A c \in Browser \ {b} : pc'[c] = pc[c] /\ try'[c] = try[c]
    BY OthersStay
  <2>2. UNCHANGED <<known, mints>> BY <1>4 DEF Repause
  <2> QED BY <1>4, <2>1, <2>2, AfterRepause
    DEF SameReading
<1>5. CASE Fallback(b) BY <1>5 DEF Fallback, Finish
<1>6. CASE Create(b) BY <1>6 DEF Create, FinishUndone, Finish
<1>7. CASE Consume(b) BY <1>7 DEF Consume, Revoke, Unspent
<1>8. CASE ConsumeLost(b)
  BY <1>8
  DEF ConsumeLost, FinishUndone, Finish, Revoke, Fresh
<1>9. CASE ConsumeFails(b)
  BY <1>9
  DEF ConsumeFails, FinishUndone, Finish, Revoke, Fresh
<1>10. CASE Undo(b) BY <1>10 DEF Undo, Finish, ClearOwner
<1>11. CASE Bind(b) BY <1>11 DEF Bind, Rearm, Fresh
<1>12. CASE Hello(b) BY <1>12 DEF Hello, Finish, Fresh
<1> QED
  BY <1>1, <1>2, <1>3, <1>4, <1>5, <1>6, <1>7, <1>8, <1>9, <1>10, <1>11, <1>12
  DEF Resume

LEMMA KnownWorld ==
  ASSUME TypeOK, TypeOK', KnownMinted, OwnToken, MintsLeft,
         WorldAct
  PROVE  KnownMinted'
<1> USE DEF TypeOK, storeVars, bindVars, leaseVars, tryVars, Goto, Try, NoTry,
            Reading, Deciding, KnownMinted, OwnToken, MintsLeft, Token
<1>1. CASE OwnerExpires BY <1>1 DEF OwnerExpires
<1>2. CASE OwnerCleared BY <1>2 DEF OwnerCleared, ClearOwner
<1>3. CASE RestLease BY <1>3 DEF RestLease
<1>4. CASE WorkerChange BY <1>4 DEF WorkerChange, ClearOwner
<1>5. CASE ModeChange BY <1>5 DEF ModeChange
<1>6. CASE \E t \in Token : TokenExpires(t) BY <1>6 DEF TokenExpires, Revoke
<1> QED BY <1>1, <1>2, <1>3, <1>4, <1>5, <1>6 DEF WorldAct

-----------------------------------------------------------------------------
(* Presented tokens. *)

LEMMA OfferSocket ==
  ASSUME TypeOK, TypeOK', Offered,
         NEW b \in Browser,
         SocketAct(b)
  PROVE  Offered'
<1> USE DEF TypeOK, storeVars, bindVars, leaseVars, tryVars, Goto, Try, NoTry,
            Reading, Deciding, Offered
<1>1. CASE Register(b) BY <1>1 DEF Register
<1>2. CASE TakeLease(b) BY <1>2 DEF TakeLease
<1>3. CASE GiveBack(b) BY <1>3 DEF GiveBack, ClearOwner
<1>4. CASE Disconnect(b) BY <1>4 DEF Disconnect, MarkOf, Finish, ClearOwner
<1>5. CASE \E t \in Token : ResumeBegin(b, t)
  BY <1>5, ResumeAssumption
  DEF ResumeBegin
<1> QED BY <1>1, <1>2, <1>3, <1>4, <1>5 DEF SocketAct

LEMMA OfferResume ==
  ASSUME TypeOK, TypeOK', Offered,
         NEW b \in Browser,
         Resume(b)
  PROVE  Offered'
<1> USE DEF TypeOK, storeVars, bindVars, leaseVars, tryVars, Goto, Try, NoTry,
            Reading, Deciding, Offered
<1>1. CASE WaitOver(b) BY <1>1 DEF WaitOver
<1>2. CASE Lookup(b) BY SMTT(30), <1>2 DEF Lookup, Finish, Unspent
<1>3. CASE Reclaim(b) BY <1>3 DEF Reclaim, Held
<1>4. CASE Repause(b)
  <2>1. \A c \in Browser \ {b} : pc'[c] = pc[c] /\ try'[c] = try[c]
    BY OthersStay
  <2>2. UNCHANGED <<known>> BY <1>4 DEF Repause
  <2> QED BY <1>4, <2>1, <2>2, AfterRepause
    DEF SameReading
<1>5. CASE Fallback(b) BY SMTT(30), <1>5 DEF Fallback, Finish
<1>6. CASE Create(b)
  <2>1. \A c \in Browser \ {b} : pc'[c] = pc[c] /\ try'[c] = try[c]
    BY OthersStay
  <2>2. UNCHANGED <<known>> BY <1>6 DEF Create
  <2> QED BY <1>6, <2>1, <2>2, AfterFinish
    DEF SameReading, Create
<1>7. CASE Consume(b) BY <1>7 DEF Consume, Revoke, Unspent
<1>8. CASE ConsumeLost(b)
  <2>1. \A c \in Browser \ {b} : pc'[c] = pc[c] /\ try'[c] = try[c]
    BY OthersStay
  <2>2. UNCHANGED <<known>> BY <1>8 DEF ConsumeLost
  <2> QED BY <1>8, <2>1, <2>2, AfterFinish
    DEF SameReading, ConsumeLost, Finish
<1>9. CASE ConsumeFails(b)
  BY <1>9
  DEF ConsumeFails, FinishUndone, Finish, Revoke, Fresh
<1>10. CASE Undo(b) BY <1>10 DEF Undo, Finish, ClearOwner
<1>11. CASE Bind(b) BY <1>11 DEF Bind, Rearm, Fresh
<1>12. CASE Hello(b) BY <1>12 DEF Hello, Finish, Fresh
<1> QED
  BY <1>1, <1>2, <1>3, <1>4, <1>5, <1>6, <1>7, <1>8, <1>9, <1>10, <1>11, <1>12
  DEF Resume

LEMMA OfferWorld ==
  ASSUME TypeOK, TypeOK', Offered,
         WorldAct
  PROVE  Offered'
<1> USE DEF TypeOK, storeVars, bindVars, leaseVars, tryVars, Goto, Try, NoTry,
            Reading, Deciding, Offered
<1>1. CASE OwnerExpires BY <1>1 DEF OwnerExpires
<1>2. CASE OwnerCleared BY <1>2 DEF OwnerCleared, ClearOwner
<1>3. CASE RestLease BY <1>3 DEF RestLease
<1>4. CASE WorkerChange BY <1>4 DEF WorkerChange, ClearOwner
<1>5. CASE ModeChange BY <1>5 DEF ModeChange
<1>6. CASE \E t \in Token : TokenExpires(t) BY <1>6 DEF TokenExpires, Revoke
<1> QED BY <1>1, <1>2, <1>3, <1>4, <1>5, <1>6 DEF WorldAct

-----------------------------------------------------------------------------
(* The latch of a presented token. *)

LEMMA DetachSocket ==
  ASSUME TypeOK, TypeOK', Detached, OwnToken, KnownMinted, Offered,
         LatchFollowsSocket,
         NEW b \in Browser,
         SocketAct(b)
  PROVE  Detached'
<1> USE DEF TypeOK, storeVars, bindVars, leaseVars, tryVars, Goto, Try, NoTry,
            Reading, Deciding, Detached, OwnToken, KnownMinted, Offered,
            LatchFollowsSocket, Ready, Token
<1>1. CASE Register(b) BY <1>1 DEF Register
<1>2. CASE TakeLease(b) BY <1>2 DEF TakeLease
<1>3. CASE GiveBack(b) BY <1>3 DEF GiveBack, ClearOwner
<1>4. CASE Disconnect(b) BY <1>4 DEF Disconnect, MarkOf, Finish, ClearOwner
<1>5. CASE \E t \in Token : ResumeBegin(b, t) BY <1>5 DEF ResumeBegin
<1> QED BY <1>1, <1>2, <1>3, <1>4, <1>5 DEF SocketAct

LEMMA DetachResume ==
  ASSUME TypeOK, TypeOK', Detached, OwnToken, KnownMinted, Offered,
         LatchFollowsSocket,
         NEW b \in Browser,
         Resume(b)
  PROVE  Detached'
<1> USE DEF TypeOK, storeVars, bindVars, leaseVars, tryVars, Goto, Try, NoTry,
            Reading, Deciding, Detached, OwnToken, KnownMinted, Offered,
            LatchFollowsSocket, Ready, Token
<1>1. CASE WaitOver(b) BY <1>1 DEF WaitOver
<1>2. CASE Lookup(b)
  <2>1. \A c \in Browser \ {b} : pc'[c] = pc[c] /\ try'[c] = try[c]
    BY OthersStay
  <2>2. UNCHANGED <<armed, bound>> BY <1>2 DEF Lookup
  <2> QED BY SMTT(30), <1>2, <2>1, <2>2, AfterLookup
    DEF Lookup
<1>3. CASE Reclaim(b) BY <1>3 DEF Reclaim, Held
<1>4. CASE Repause(b)
  <2>1. \A c \in Browser \ {b} : pc'[c] = pc[c] /\ try'[c] = try[c]
    BY OthersStay
  <2>2. UNCHANGED <<armed, bound>> BY <1>4 DEF Repause
  <2> QED BY <1>4, <2>1, <2>2, AfterRepause
    DEF SameReading
<1>5. CASE Fallback(b) BY <1>5 DEF Fallback, Finish
<1>6. CASE Create(b)
  <2>1. \A c \in Browser \ {b} : pc'[c] = pc[c] /\ try'[c] = try[c]
    BY OthersStay
  <2>2. UNCHANGED <<armed, bound>> BY <1>6 DEF Create
  <2> QED BY <1>6, <2>1, <2>2, AfterFinish
    DEF SameReading, Create
<1>7. CASE Consume(b) BY <1>7 DEF Consume, Revoke, Unspent
<1>8. CASE ConsumeLost(b)
  <2>1. \A c \in Browser \ {b} : pc'[c] = pc[c] /\ try'[c] = try[c]
    BY OthersStay
  <2>2. UNCHANGED <<armed, bound>> BY <1>8 DEF ConsumeLost
  <2> QED BY <1>8, <2>1, <2>2, AfterFinish
    DEF SameReading, ConsumeLost, Finish
<1>9. CASE ConsumeFails(b)
  <2>1. \A c \in Browser \ {b} : pc'[c] = pc[c] /\ try'[c] = try[c]
    BY OthersStay
  <2>2. UNCHANGED <<armed, bound>> BY <1>9 DEF ConsumeFails
  <2> QED BY <1>9, <2>1, <2>2, AfterFinish
    DEF SameReading, ConsumeFails
<1>10. CASE Undo(b) BY <1>10 DEF Undo, Finish, ClearOwner
<1>11. CASE Bind(b) BY <1>11 DEF Bind, Rearm, Fresh
<1>12. CASE Hello(b) BY <1>12 DEF Hello, Finish, Fresh
<1> QED
  BY <1>1, <1>2, <1>3, <1>4, <1>5, <1>6, <1>7, <1>8, <1>9, <1>10, <1>11, <1>12
  DEF Resume

LEMMA DetachWorld ==
  ASSUME TypeOK, TypeOK', Detached, OwnToken, KnownMinted, Offered,
         LatchFollowsSocket,
         WorldAct
  PROVE  Detached'
<1> USE DEF TypeOK, storeVars, bindVars, leaseVars, tryVars, Goto, Try, NoTry,
            Reading, Deciding, Detached, OwnToken, KnownMinted, Offered,
            LatchFollowsSocket, Ready, Token
<1>1. CASE OwnerExpires BY <1>1 DEF OwnerExpires
<1>2. CASE OwnerCleared BY <1>2 DEF OwnerCleared, ClearOwner
<1>3. CASE RestLease BY <1>3 DEF RestLease
<1>4. CASE WorkerChange BY <1>4 DEF WorkerChange, ClearOwner
<1>5. CASE ModeChange BY <1>5 DEF ModeChange
<1>6. CASE \E t \in Token : TokenExpires(t) BY <1>6 DEF TokenExpires, Revoke
<1> QED BY <1>1, <1>2, <1>3, <1>4, <1>5, <1>6 DEF WorldAct

-----------------------------------------------------------------------------
(* The mark of a presented token. *)

LEMMA MarkSocket ==
  ASSUME TypeOK, TypeOK', MarkStands, Detached, OwnToken, KnownMinted, Offered,
         NEW b \in Browser,
         SocketAct(b)
  PROVE  MarkStands'
<1> USE DEF TypeOK, storeVars, bindVars, leaseVars, tryVars, Goto, Try, NoTry,
            Reading, Deciding, MarkStands, Detached, OwnToken, KnownMinted,
            Offered, Unspent, Token
<1>1. CASE Register(b) BY <1>1 DEF Register
<1>2. CASE TakeLease(b) BY <1>2 DEF TakeLease
<1>3. CASE GiveBack(b) BY <1>3 DEF GiveBack, ClearOwner
<1>4. CASE Disconnect(b) BY <1>4 DEF Disconnect, MarkOf, Finish, ClearOwner
<1>5. CASE \E t \in Token : ResumeBegin(b, t) BY <1>5 DEF ResumeBegin
<1> QED BY <1>1, <1>2, <1>3, <1>4, <1>5 DEF SocketAct

LEMMA MarkResume ==
  ASSUME TypeOK, TypeOK', MarkStands, Detached, OwnToken, KnownMinted, Offered,
         NEW b \in Browser,
         Resume(b)
  PROVE  MarkStands'
<1> USE DEF TypeOK, storeVars, bindVars, leaseVars, tryVars, Goto, Try, NoTry,
            Reading, Deciding, MarkStands, Detached, OwnToken, KnownMinted,
            Offered, Unspent, Token
<1>1. CASE WaitOver(b) BY <1>1 DEF WaitOver
<1>2. CASE Lookup(b) BY SMTT(30), <1>2 DEF Lookup, Finish, Unspent
<1>3. CASE Reclaim(b) BY <1>3 DEF Reclaim, Held
<1>4. CASE Repause(b)
  <2>1. \A c \in Browser \ {b} : pc'[c] = pc[c] /\ try'[c] = try[c]
    BY OthersStay
  <2>2. UNCHANGED <<token, marked>> BY <1>4 DEF Repause
  <2> QED BY <1>4, <2>1, <2>2, AfterRepause
    DEF SameReading
<1>5. CASE Fallback(b) BY SMTT(30), <1>5 DEF Fallback, Finish
<1>6. CASE Create(b) BY <1>6, FreshTyped DEF Create, FinishUndone, Finish
<1>7. CASE Consume(b) BY <1>7 DEF Consume, Revoke, Unspent
<1>8. CASE ConsumeLost(b)
  BY <1>8
  DEF ConsumeLost, FinishUndone, Finish, Revoke, Fresh
<1>9. CASE ConsumeFails(b)
  BY <1>9
  DEF ConsumeFails, FinishUndone, Finish, Revoke, Fresh
<1>10. CASE Undo(b) BY <1>10 DEF Undo, Finish, ClearOwner
<1>11. CASE Bind(b) BY <1>11 DEF Bind, Rearm, Fresh
<1>12. CASE Hello(b)
  <2>1. \A c \in Browser \ {b} : pc'[c] = pc[c] /\ try'[c] = try[c]
    BY OthersStay
  <2>2. UNCHANGED <<token, marked>> BY <1>12 DEF Hello
  <2> QED BY <1>12, <2>1, <2>2
    DEF Hello, Finish
<1> QED
  BY <1>1, <1>2, <1>3, <1>4, <1>5, <1>6, <1>7, <1>8, <1>9, <1>10, <1>11, <1>12
  DEF Resume

LEMMA MarkWorld ==
  ASSUME TypeOK, TypeOK', MarkStands, Detached, OwnToken, KnownMinted, Offered,
         WorldAct
  PROVE  MarkStands'
<1> USE DEF TypeOK, storeVars, bindVars, leaseVars, tryVars, Goto, Try, NoTry,
            Reading, Deciding, MarkStands, Detached, OwnToken, KnownMinted,
            Offered, Unspent, Token
<1>1. CASE OwnerExpires BY <1>1 DEF OwnerExpires
<1>2. CASE OwnerCleared BY <1>2 DEF OwnerCleared, ClearOwner
<1>3. CASE RestLease BY <1>3 DEF RestLease
<1>4. CASE WorkerChange BY <1>4 DEF WorkerChange, ClearOwner
<1>5. CASE ModeChange BY <1>5 DEF ModeChange
<1>6. CASE \E t \in Token : TokenExpires(t) BY <1>6 DEF TokenExpires, Revoke
<1> QED BY <1>1, <1>2, <1>3, <1>4, <1>5, <1>6 DEF WorldAct

-----------------------------------------------------------------------------
(* Provisional reclaims. *)

LEMMA EarnSocket ==
  ASSUME TypeOK, TypeOK', Earned, MarkStands,
         NEW b \in Browser,
         SocketAct(b)
  PROVE  Earned'
<1> USE DEF TypeOK, storeVars, bindVars, leaseVars, tryVars, Goto, Try, NoTry,
            Reading, Deciding, Earned, MarkStands, Unspent, Owns
<1>1. CASE Register(b) BY <1>1 DEF Register
<1>2. CASE TakeLease(b) BY <1>2 DEF TakeLease
<1>3. CASE GiveBack(b) BY <1>3 DEF GiveBack, ClearOwner
<1>4. CASE Disconnect(b) BY <1>4 DEF Disconnect, MarkOf, Finish, ClearOwner
<1>5. CASE \E t \in Token : ResumeBegin(b, t) BY <1>5 DEF ResumeBegin
<1> QED BY <1>1, <1>2, <1>3, <1>4, <1>5 DEF SocketAct

LEMMA EarnResume ==
  ASSUME TypeOK, TypeOK', Earned, MarkStands,
         NEW b \in Browser,
         Resume(b)
  PROVE  Earned'
<1> USE DEF TypeOK, storeVars, bindVars, leaseVars, tryVars, Goto, Try, NoTry,
            Reading, Deciding, Earned, MarkStands, Unspent, Owns
<1>1. CASE WaitOver(b) BY <1>1 DEF WaitOver
<1>2. CASE Lookup(b)
  <2>1. \A c \in Browser \ {b} : pc'[c] = pc[c] /\ try'[c] = try[c]
    BY OthersStay
  <2>2. UNCHANGED <<owner, ownerLive, owned, entitled>> BY <1>2 DEF Lookup
  <2> QED BY <1>2, <2>1, <2>2, AfterLookup
    DEF Lookup
<1>3. CASE Reclaim(b) BY <1>3 DEF Reclaim, Held
<1>4. CASE Repause(b)
  <2>1. \A c \in Browser \ {b} : pc'[c] = pc[c] /\ try'[c] = try[c]
    BY OthersStay
  <2>2. UNCHANGED <<owner, ownerLive, owned, entitled>> BY <1>4 DEF Repause
  <2> QED BY <1>4, <2>1, <2>2, AfterRepause
    DEF SameReading
<1>5. CASE Fallback(b) BY <1>5 DEF Fallback, Finish
<1>6. CASE Create(b) BY <1>6 DEF Create, FinishUndone, Finish
<1>7. CASE Consume(b) BY <1>7 DEF Consume, Revoke, Unspent
<1>8. CASE ConsumeLost(b)
  BY <1>8
  DEF ConsumeLost, FinishUndone, Finish, Revoke, Fresh
<1>9. CASE ConsumeFails(b)
  <2>1. \A c \in Browser \ {b} : pc'[c] = pc[c] /\ try'[c] = try[c]
    BY OthersStay
  <2>2. UNCHANGED <<owner, ownerLive, owned, entitled>>
    BY <1>9
    DEF ConsumeFails
  <2> QED BY <1>9, <2>1, <2>2, AfterFinish
    DEF SameReading, ConsumeFails
<1>10. CASE Undo(b) BY <1>10 DEF Undo, Finish, ClearOwner
<1>11. CASE Bind(b) BY <1>11 DEF Bind, Rearm, Fresh
<1>12. CASE Hello(b) BY <1>12 DEF Hello, Finish, Fresh
<1> QED
  BY <1>1, <1>2, <1>3, <1>4, <1>5, <1>6, <1>7, <1>8, <1>9, <1>10, <1>11, <1>12
  DEF Resume

LEMMA EarnWorld ==
  ASSUME TypeOK, TypeOK', Earned, MarkStands,
         WorldAct
  PROVE  Earned'
<1> USE DEF TypeOK, storeVars, bindVars, leaseVars, tryVars, Goto, Try, NoTry,
            Reading, Deciding, Earned, MarkStands, Unspent, Owns
<1>1. CASE OwnerExpires BY <1>1 DEF OwnerExpires
<1>2. CASE OwnerCleared BY <1>2 DEF OwnerCleared, ClearOwner
<1>3. CASE RestLease BY <1>3 DEF RestLease
<1>4. CASE WorkerChange BY <1>4 DEF WorkerChange, ClearOwner
<1>5. CASE ModeChange BY <1>5 DEF ModeChange
<1>6. CASE \E t \in Token : TokenExpires(t) BY <1>6 DEF TokenExpires, Revoke
<1> QED BY <1>1, <1>2, <1>3, <1>4, <1>5, <1>6 DEF WorldAct

-----------------------------------------------------------------------------
(* The invariant. *)

LEMMA ResumeInit == Init => ResumeInv
<1> SUFFICES ASSUME Init PROVE ResumeInv OBVIOUS
<1>1. TypeOK
  <2>1. try \in [Browser -> Try] BY NoTryTyped DEF Init
  <2>2. /\ owned \in [Browser -> BOOLEAN] /\ entitled \in [Browser -> BOOLEAN]
        /\ ownerLive \in BOOLEAN /\ rest \in BOOLEAN /\ workerUp \in BOOLEAN
    BY Zenon DEF Init
  <2> QED BY <2>1, <2>2, ResumeAssumption DEF Init, TypeOK, Pc
<1>2. MintsLeft /\ OwnToken /\ LatchFollowsSocket /\ KnownMinted
  BY DEF Init, MintsLeft, OwnToken, LatchFollowsSocket, KnownMinted
<1>3. Offered /\ Detached /\ MarkStands
  BY DEF Init, NoTry, Offered, Detached, MarkStands, Reading, Deciding
<1>4. Earned BY DEF Init, NoTry, Earned, Owns
<1> QED BY <1>1, <1>2, <1>3, <1>4 DEF ResumeInv

LEMMA ResumeStep == ASSUME ResumeInv, [Next]_vars PROVE ResumeInv'
<1> USE DEF ResumeInv
<1>1. ASSUME NEW b \in Browser, SocketAct(b) PROVE ResumeInv'
  <2>1. try' \in [Browser -> Try]
    BY <1>1, TypeTry
    DEF SocketAct, Register, TakeLease, GiveBack, tryVars, TypeOK
  <2>2. TypeOK' BY <1>1, <2>1, TypeSocket
  <2>3. MintsLeft' BY <1>1, <2>2, MintsSocket
  <2>4. OwnToken' /\ LatchFollowsSocket' BY <1>1, <2>2, SockSocket
  <2>5. KnownMinted' BY <1>1, <2>2, KnownSocket
  <2>6. Offered' BY <1>1, <2>2, OfferSocket
  <2>7. Detached' BY <1>1, <2>2, DetachSocket
  <2>8. MarkStands' BY <1>1, <2>2, MarkSocket
  <2>9. Earned' BY <1>1, <2>2, EarnSocket
  <2> QED BY <2>2, <2>3, <2>4, <2>5, <2>6, <2>7, <2>8, <2>9
<1>2. ASSUME NEW b \in Browser, Resume(b) PROVE ResumeInv'
  <2>1. try' \in [Browser -> Try] BY <1>2, TypeTry
  <2>2. TypeOK' BY <1>2, <2>1, TypeResume
  <2>3. MintsLeft' BY <1>2, <2>2, MintsResume
  <2>4. OwnToken' /\ LatchFollowsSocket' BY <1>2, <2>2, SockResume
  <2>5. KnownMinted' BY <1>2, <2>2, KnownResume
  <2>6. Offered' BY <1>2, <2>2, OfferResume
  <2>7. Detached' BY <1>2, <2>2, DetachResume
  <2>8. MarkStands' BY <1>2, <2>2, MarkResume
  <2>9. Earned' BY <1>2, <2>2, EarnResume
  <2> QED BY <2>2, <2>3, <2>4, <2>5, <2>6, <2>7, <2>8, <2>9
<1>3. ASSUME WorldAct PROVE ResumeInv'
  <2>2. TypeOK' BY <1>3, TypeWorld
  <2>3. MintsLeft' BY <1>3, <2>2, MintsWorld
  <2>4. OwnToken' /\ LatchFollowsSocket' BY <1>3, <2>2, SockWorld
  <2>5. KnownMinted' BY <1>3, <2>2, KnownWorld
  <2>6. Offered' BY <1>3, <2>2, OfferWorld
  <2>7. Detached' BY <1>3, <2>2, DetachWorld
  <2>8. MarkStands' BY <1>3, <2>2, MarkWorld
  <2>9. Earned' BY <1>3, <2>2, EarnWorld
  <2> QED BY <2>2, <2>3, <2>4, <2>5, <2>6, <2>7, <2>8, <2>9
<1>4. ASSUME UNCHANGED vars PROVE ResumeInv'
  BY <1>4
  DEF vars, TypeOK, MintsLeft, OwnToken, LatchFollowsSocket, KnownMinted,
      Offered, Detached, MarkStands, Earned, Unspent, Owns
<1> QED BY <1>1, <1>2, <1>3, <1>4, Actors

\* The inductive invariant holds in every reachable state.
THEOREM ResumeCorrect == Spec => []ResumeInv
<1>1. Init => ResumeInv BY ResumeInit
<1>2. ResumeInv /\ [Next]_vars => ResumeInv' BY ResumeStep
<1> QED BY <1>1, <1>2, PTL DEF Spec

-----------------------------------------------------------------------------
(* What the runs check, for every instance. *)

\* Every variable keeps its type; a resume mints no more than its bound.
THEOREM TypeCorrect == Spec => []TypeOK
<1>1. ResumeInv => TypeOK BY DEF ResumeInv
<1> QED BY <1>1, ResumeCorrect, PTL

\* A resume whose wait did not time out decides by the mark that the old socket
\* left, and no other socket holds its token any more.
THEOREM MarkIsSeen == Spec => []MarkSeen
<1>1. ASSUME ResumeInv PROVE MarkSeen
  <2> SUFFICES ASSUME NEW b \in Browser, pc[b] \in Deciding, ~try[b].late
               PROVE  /\ Unspent(try[b].offer) =>
                           try[b].was = (try[b].offer \in marked)
                      /\ \A c \in Browser \ {b} : bound[c] # try[b].offer
    BY DEF MarkSeen
  <2>1. try[b].was \in BOOLEAN BY <1>1 DEF ResumeInv, TypeOK, Try
  <2>2. Unspent(try[b].offer) => (try[b].was <=> try[b].offer \in marked)
    BY <1>1 DEF ResumeInv, MarkStands, Reading
  <2>3. Unspent(try[b].offer) => try[b].was = (try[b].offer \in marked)
    BY <2>1, <2>2
  <2>4. try[b].offer # NULL BY <1>1 DEF ResumeInv, Offered, Reading
  <2>5. \A c \in Browser \ {b} : bound[c] # try[b].offer
    BY <1>1, <2>4 DEF ResumeInv, Detached, OwnToken, Reading
  <2> QED BY <2>3, <2>5
<1> QED BY <1>1, ResumeCorrect, PTL

\* Outside a resume a browser owns only what it took or paid for.
THEOREM OwnersAreEntitled == Spec => []OwnersEntitled
<1>1. ResumeInv => OwnersEntitled BY DEF ResumeInv, Earned, OwnersEntitled
<1> QED BY <1>1, ResumeCorrect, PTL

\* A superseded token's latch is never left armed.
THEOREM LatchesFollow == Spec => []LatchFollowsSocket
<1>1. ResumeInv => LatchFollowsSocket BY DEF ResumeInv
<1> QED BY <1>1, ResumeCorrect, PTL

\* With a store that works, a departing socket marks its token only for a lease
\* it took or paid for.
THEOREM MarksAreEarned == ~StoreMayFail => (Spec => MarksEarned)
<1> SUFFICES ASSUME ~StoreMayFail PROVE Spec => MarksEarned OBVIOUS
<1>1. ASSUME ResumeInv, [Next]_vars
      PROVE  [\A t \in marked' \ marked : entitled[t[1]]]_vars
  <2>1. ASSUME NEW b \in Browser, Disconnect(b)
        PROVE  \A t \in marked' \ marked : entitled[t[1]]
    BY <1>1, <2>1
    DEF ResumeInv, TypeOK, OwnToken, Earned, Disconnect, MarkOf
  <2>2. ASSUME NEW b \in Browser, SocketAct(b), ~Disconnect(b)
        PROVE  marked' \subseteq marked
    BY <2>2 DEF SocketAct, Register, TakeLease, GiveBack, ResumeBegin,
                storeVars
  <2>3. ASSUME NEW b \in Browser, Resume(b) PROVE marked' \subseteq marked
    BY <2>3 DEF Resume, WaitOver, Lookup, Reclaim, Repause, Fallback, Create,
                Consume, ConsumeLost, ConsumeFails, Undo, Bind, Hello, Revoke,
                storeVars
  <2>4. ASSUME WorldAct PROVE marked' \subseteq marked
    BY <2>4 DEF WorldAct, OwnerExpires, OwnerCleared, RestLease, WorkerChange,
                ModeChange, TokenExpires, Revoke, storeVars
  <2>5. ASSUME UNCHANGED vars PROVE marked' \subseteq marked
    BY <2>5 DEF vars
  <2> QED BY <1>1, <2>1, <2>2, <2>3, <2>4, <2>5, Actors
<1> QED BY <1>1, ResumeCorrect, PTL DEF Spec, MarksEarned

-----------------------------------------------------------------------------
(* Counting tokens. *)

\* The tokens that clients can use, and those on their way to a client.
Usable == {t \in known : Unspent(t)}
          \cup {Fresh(b) : b \in {c \in Browser : pc[c] \in {"bind", "hello"}}}

Registered == {b \in Browser : pc[b] # "new"}

\* Inductive together with ResumeInv.
Conserved == Cardinality(Usable) <= Cardinality(Registered)

LEMMA FiniteToken == ASSUME IsFiniteSet(Browser) PROVE IsFiniteSet(Token)
<1>1. IsFiniteSet(0 .. MaxMint) BY FS_Interval, ResumeAssumption
<1> QED BY <1>1, FS_Product DEF Token

LEMMA OneMore ==
  ASSUME NEW S, IsFiniteSet(S), NEW x
  PROVE  /\ IsFiniteSet(S \cup {x}) /\ Cardinality(S \cup {x}) \in Nat
         /\ Cardinality(S \cup {x}) <= Cardinality(S) + 1
<1>1. Cardinality(S) \in Nat BY FS_CardinalityType
<1>2. IsFiniteSet(S \cup {x}) BY FS_AddElement
<1>3. Cardinality(S \cup {x}) \in Nat BY <1>2, FS_CardinalityType
<1>4. \/ Cardinality(S \cup {x}) = Cardinality(S)
      \/ Cardinality(S \cup {x}) = Cardinality(S) + 1
  BY FS_AddElement
<1> QED BY <1>1, <1>2, <1>3, <1>4

LEMMA Finite ==
  ASSUME IsFiniteSet(Browser), TypeOK
  PROVE  /\ IsFiniteSet(Usable) /\ Cardinality(Usable) \in Nat
         /\ IsFiniteSet(Registered) /\ Cardinality(Registered) \in Nat
<1>1. IsFiniteSet(Token) BY FiniteToken
<1>2. Usable \subseteq Token
  BY ResumeAssumption DEF Usable, TypeOK, Fresh, Token
<1>3. Registered \subseteq Browser BY DEF Registered
<1> QED BY <1>1, <1>2, <1>3, FS_Subset, FS_CardinalityType

LEMMA FinitePrime ==
  ASSUME IsFiniteSet(Browser), TypeOK'
  PROVE  IsFiniteSet(Usable') /\ Cardinality(Usable') \in Nat
<1>1. IsFiniteSet(Token) BY FiniteToken
<1>2. Usable' \subseteq Token
  BY ResumeAssumption DEF Usable, TypeOK, Fresh, Token
<1> QED BY <1>1, <1>2, FS_Subset, FS_CardinalityType

\* Only a registration adds a token, and a socket with it.
LEMMA RegisterAdds ==
  ASSUME ResumeInv, NEW b \in Browser, Register(b)
  PROVE  /\ Usable' \subseteq Usable \cup {<<b, 0>>}
         /\ Registered' = Registered \cup {b} /\ b \notin Registered
<1> USE DEF ResumeInv, TypeOK, Register, Goto, tryVars
<1>1. Registered' = Registered \cup {b} /\ b \notin Registered
  BY DEF Registered
<1>2. Usable' \subseteq Usable \cup {<<b, 0>>}
  BY FreshTyped DEF Usable, Unspent, Fresh
<1> QED BY <1>1, <1>2

\* Consumption trades the token presented for the replacement.
LEMMA ConsumeTrades ==
  ASSUME ResumeInv, NEW b \in Browser, Consume(b)
  PROVE  /\ try[b].offer \in Usable
         /\ Usable' \subseteq (Usable \ {try[b].offer}) \cup {Fresh(b)}
         /\ Registered' = Registered
<1> USE DEF ResumeInv, TypeOK, Consume, Revoke, Goto, tryVars
<1>1. /\ try[b].offer \in known /\ Unspent(try[b].offer)
      /\ try[b].offer \in Token
  BY DEF Offered, Reading, Deciding
<1>2. \A c \in Browser : pc[c] \in {"bind", "hello"} => Fresh(c) # try[b].offer
  BY <1>1 DEF KnownMinted, Fresh, Token
<1>3. Usable' \subseteq (Usable \ {try[b].offer}) \cup {Fresh(b)}
  BY <1>1, <1>2 DEF Usable, Unspent, Fresh
<1> QED BY <1>1, <1>3 DEF Usable, Registered

\* Nothing else adds a token.
LEMMA OthersKeep ==
  ASSUME ResumeInv, [Next]_vars,
         \A b \in Browser : ~Register(b) /\ ~Consume(b)
  PROVE  Usable' \subseteq Usable /\ Registered' = Registered
<1> USE DEF ResumeInv, TypeOK, Usable, Registered, Unspent, Fresh, Goto,
            storeVars, tryVars
<1>1. ASSUME NEW b \in Browser, TakeLease(b) \/ GiveBack(b)
      PROVE  Usable' \subseteq Usable /\ Registered' = Registered
  BY <1>1 DEF TakeLease, GiveBack
<1>2. ASSUME NEW b \in Browser, Disconnect(b)
      PROVE  Usable' \subseteq Usable /\ Registered' = Registered
  BY <1>2 DEF Disconnect, Finish
<1>3. ASSUME NEW b \in Browser, NEW t \in Token, ResumeBegin(b, t)
      PROVE  Usable' \subseteq Usable /\ Registered' = Registered
  BY <1>3 DEF ResumeBegin
<1>4. ASSUME NEW b \in Browser,
             WaitOver(b) \/ Lookup(b) \/ Reclaim(b) \/ Repause(b)
               \/ Fallback(b) \/ Undo(b)
      PROVE  Usable' \subseteq Usable /\ Registered' = Registered
  <2>1. UNCHANGED <<token, known, mints>>
    BY <1>4 DEF WaitOver, Lookup, Reclaim, Repause, Fallback, Undo
  <2>2. /\ pc[b] # "new" /\ pc'[b] \notin {"new", "bind", "hello"}
        /\ \A c \in Browser \ {b} : pc'[c] = pc[c]
    <3>1. try[b].after \in {"refused", "open", "failed"} BY DEF Try
    <3> QED BY <1>4, <3>1 DEF WaitOver, Lookup, Reclaim, Repause, Fallback,
               Undo, Finish
  <2> QED BY <2>1, <2>2
<1>5. ASSUME NEW b \in Browser, Create(b)
      PROVE  Usable' \subseteq Usable /\ Registered' = Registered
  <2>1. <<b, mints[b] + 1>> \notin known BY DEF KnownMinted
  <2> QED BY <1>5, <2>1 DEF Create, FinishUndone, Finish
<1>6. ASSUME NEW b \in Browser, ConsumeLost(b) \/ ConsumeFails(b)
      PROVE  Usable' \subseteq Usable /\ Registered' = Registered
  BY <1>6 DEF ConsumeLost, ConsumeFails, FinishUndone, Finish, Revoke
<1>7. ASSUME NEW b \in Browser, Bind(b)
      PROVE  Usable' \subseteq Usable /\ Registered' = Registered
  BY <1>7 DEF Bind
<1>8. ASSUME NEW b \in Browser, Hello(b)
      PROVE  Usable' \subseteq Usable /\ Registered' = Registered
  BY <1>8 DEF Hello, Finish
<1>9. ASSUME WorldAct
      PROVE  Usable' \subseteq Usable /\ Registered' = Registered
  BY <1>9 DEF WorldAct, OwnerExpires, OwnerCleared, RestLease, WorkerChange,
              ModeChange, TokenExpires, Revoke
<1>10. ASSUME UNCHANGED vars
       PROVE  Usable' \subseteq Usable /\ Registered' = Registered
  BY <1>10 DEF vars
<1> QED
  BY <1>1, <1>2, <1>3, <1>4, <1>5, <1>6, <1>7, <1>8, <1>9, <1>10, Actors
  DEF SocketAct, Resume

LEMMA ConservedStep ==
  ASSUME IsFiniteSet(Browser), ResumeInv, ResumeInv', Conserved, [Next]_vars
  PROVE  Conserved'
<1>1. /\ IsFiniteSet(Usable) /\ Cardinality(Usable) \in Nat
      /\ IsFiniteSet(Registered) /\ Cardinality(Registered) \in Nat
      /\ IsFiniteSet(Usable') /\ Cardinality(Usable') \in Nat
  BY Finite, FinitePrime DEF ResumeInv
<1>2. CASE \E b \in Browser : Register(b)
  <2>1. PICK b \in Browser : Register(b) BY <1>2
  <2>2. Cardinality(Registered') = Cardinality(Registered) + 1
    BY <1>1, <2>1, RegisterAdds, FS_AddElement
  <2>3. /\ IsFiniteSet(Usable \cup {<<b, 0>>})
        /\ Cardinality(Usable \cup {<<b, 0>>}) <= Cardinality(Usable) + 1
    BY <1>1, OneMore
  <2>4. Cardinality(Usable') <= Cardinality(Usable \cup {<<b, 0>>})
    BY <2>1, <2>3, RegisterAdds, FS_Subset
  <2>5. Cardinality(Usable \cup {<<b, 0>>}) \in Nat
    BY <2>3, FS_CardinalityType
  <2> QED BY <1>1, <2>2, <2>3, <2>4, <2>5 DEF Conserved
<1>3. CASE \E b \in Browser : Consume(b)
  <2>1. PICK b \in Browser : Consume(b) BY <1>3
  <2> DEFINE Left == Usable \ {try[b].offer}
  <2>2. /\ IsFiniteSet(Left) /\ Cardinality(Left) = Cardinality(Usable) - 1
    BY <1>1, <2>1, ConsumeTrades, FS_RemoveElement
  <2>3. /\ IsFiniteSet(Left \cup {Fresh(b)})
        /\ Cardinality(Left \cup {Fresh(b)}) <= Cardinality(Left) + 1
    BY <2>2, OneMore
  <2>4. Cardinality(Usable') <= Cardinality(Left \cup {Fresh(b)})
    BY <2>1, <2>3, ConsumeTrades, FS_Subset
  <2>5. Cardinality(Left \cup {Fresh(b)}) \in Nat
    BY <2>3, FS_CardinalityType
  <2>6. Registered' = Registered BY <2>1, ConsumeTrades
  <2> HIDE DEF Left
  <2> QED BY <1>1, <2>2, <2>3, <2>4, <2>5, <2>6 DEF Conserved
<1>4. CASE \A b \in Browser : ~Register(b) /\ ~Consume(b)
  <2>1. Usable' \subseteq Usable /\ Registered' = Registered
    BY <1>4, OthersKeep
  <2>2. Cardinality(Usable') <= Cardinality(Usable)
    BY <1>1, <2>1, FS_Subset
  <2> QED BY <1>1, <2>1, <2>2 DEF Conserved
<1> QED BY <1>2, <1>3, <1>4

\* Resumes neither multiply nor forge tokens: the usable tokens that clients
\* know never outnumber the sockets that registered.
THEOREM TokensConserved ==
  IsFiniteSet(Browser) => (Spec => []AuthorityConserved)
<1> SUFFICES ASSUME IsFiniteSet(Browser) PROVE Spec => []AuthorityConserved
  OBVIOUS
<1>1. ASSUME Init PROVE Conserved
  <2>1. Usable = {} /\ Registered = {}
    BY <1>1 DEF Init, Usable, Registered
  <2> QED BY <2>1, FS_EmptySet DEF Conserved
<1>2. ASSUME ResumeInv, ResumeInv', Conserved, [Next]_vars PROVE Conserved'
  BY <1>2, ConservedStep
<1>3. ASSUME ResumeInv, Conserved PROVE AuthorityConserved
  <2> DEFINE Known == {t \in known : Unspent(t)}
  <2>1. /\ IsFiniteSet(Usable) /\ Cardinality(Usable) \in Nat
        /\ Cardinality(Registered) \in Nat
    BY <1>3, Finite DEF ResumeInv
  <2>2. Known \subseteq Usable BY DEF Usable
  <2>3. Cardinality(Known) <= Cardinality(Usable) /\ Cardinality(Known) \in Nat
    BY <2>1, <2>2, FS_Subset, FS_CardinalityType
  <2>4. Cardinality(Known) <= Cardinality(Registered)
    BY <1>3, <2>1, <2>3 DEF Conserved
  <2> QED BY <2>4 DEF AuthorityConserved, Registered
<1> QED BY <1>1, <1>2, <1>3, ResumeCorrect, PTL DEF Spec

=============================================================================
