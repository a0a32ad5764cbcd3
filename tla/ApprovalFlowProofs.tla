------------------------- MODULE ApprovalFlowProofs -------------------------
(***************************************************************************)
(* Proofs about ApprovalFlow, for every set of browsers and admins and     *)
(* every bound.                                                            *)
(*                                                                         *)
(* Four layers, each inductive with those before it: who decides and who   *)
(* has the fence (Base), who owes a browser its unpause (Pauses), where an *)
(* input is (Places), and then the order (Sequel) and the generation       *)
(* (Epochs) of what is sent.                                               *)
(***************************************************************************)
EXTENDS ApprovalFlow, SequenceTheorems, TLAPS

\* Where an approve or reject request works on a held command, and where it
\* holds the fence.
Fenced == {"deliver", "replay", "item", "line", "announce"}
Busy   == Fenced \cup {"fence", "settle", "finish"}

\* What a decision remembers of what it has done.
Consistent(j) ==
  /\ j.deny \/ j.pending => j.pc \in {"settle", "finish"}
  /\ j.pending => j.ok /\ ~j.deny
  /\ j.pc \in {"replay", "item", "line", "announce"} => j.ok
  /\ j.pc \in {"fence", "deliver"} => ~j.ok

\* A decision in progress has claimed its request, and no other has.
Working ==
  /\ \A a \in Admin : adm[a].pc \in Busy =>
       /\ adm[a].r \in 1..Len(req)
       /\ req[adm[a].r].status = IF adm[a].deny THEN "rejected" ELSE "resolving"
       /\ Consistent(adm[a])
  /\ \A a, c \in Admin :
       adm[a].pc \in Busy /\ adm[c].pc \in Busy /\ adm[a].r = adm[c].r => a = c

\* The fence is held by the one whose operation runs, in the generation the
\* command was held in.
Fencing ==
  /\ \A a \in Admin : fence = a <=> adm[a].pc \in Fenced
  /\ \A a \in Admin :
       adm[a].pc \in Fenced \ {"announce"} => gen = req[adm[a].r].gen

\* An expired request is settled once.
Expiring ==
  /\ \A a \in Admin : told[a] # {} => adm[a].pc = "telling"
  /\ \A t \in Notifier : \A r \in told[t] : req[r].status = "timeout"
  /\ \A t, u \in Notifier : t # u => told[t] \cap told[u] = {}

-----------------------------------------------------------------------------
(* The store. *)

\* Requests are never dropped, and keep what was asked for.
Kept ==
  /\ req' \in Seq(Request)
  /\ Len(req) <= Len(req')
  /\ \A r \in 1..Len(req) :
       /\ req'[r].by = req[r].by
       /\ req'[r].cmd = req[r].cmd
       /\ req'[r].gen = req[r].gen

\* What store.add does to the sequence of requests.
LEMMA Added ==
  ASSUME req \in Seq(Request), NEW b \in Browser, NEW cmd \in Seq(Nat),
         NEW g \in Nat, req' = NewRequest(b, cmd, g)
  PROVE  /\ Kept
         /\ Len(req') = Len(req) + 1
         /\ \A r \in 1..Len(req) : req'[r] = req[r]
         /\ req'[Len(req) + 1] = [status |-> "pending", by |-> b, cmd |-> cmd,
                                  gen |-> g, late |-> FALSE]
<1> DEFINE q == [status |-> "pending", by |-> b, cmd |-> cmd, gen |-> g,
                 late |-> FALSE]
<1>1. q \in Request BY DEF Request, Status
<1>2. req' = Append(req, q) BY DEF NewRequest
<1> HIDE DEF q
<1>3. /\ req' \in Seq(Request)
      /\ Len(req') = Len(req) + 1
      /\ \A r \in 1..Len(req) : req'[r] = req[r]
      /\ req'[Len(req) + 1] = q
  BY <1>1, <1>2, AppendProperties
<1> QED BY <1>3, SMT DEF Kept, q

\* A status that changes.
LEMMA Marked ==
  ASSUME req \in Seq(Request), NEW r \in 1..Len(req), NEW s \in Status,
         req' = [req EXCEPT ![r].status = s]
  PROVE  /\ Kept
         /\ Len(req') = Len(req)
         /\ \A q \in 1..Len(req) : q # r => req'[q] = req[q]
         /\ req'[r].status = s
         /\ req'[r].late = req[r].late
<1> DEFINE q == [req[r] EXCEPT !.status = s]
<1>1. req[r] \in Request BY ElementOfSeq
<1>2. q \in Request BY <1>1 DEF Request
<1>3. /\ q.status = s /\ q.late = req[r].late /\ q.by = req[r].by
      /\ q.cmd = req[r].cmd /\ q.gen = req[r].gen
  BY <1>1 DEF Request
<1>4. req' = [req EXCEPT ![r] = q] OBVIOUS
<1> HIDE DEF q
<1>5. req' \in Seq(Request) /\ Len(req') = Len(req)
  BY <1>2, <1>4, ExceptSeq
<1>6. req'[r] = q /\ \A x \in 1..Len(req) : x # r => req'[x] = req[x]
  BY <1>4, ExceptSeq
<1> QED BY <1>3, <1>5, <1>6, SMT DEF Kept

\* A status that is written as it was.
LEMMA Unmarked ==
  ASSUME req \in Seq(Request), NEW r \in 1..Len(req)
  PROVE  [req EXCEPT ![r].status = req[r].status] = req
<1>1. req[r] \in Request BY ElementOfSeq
<1>2. [req[r] EXCEPT !.status = req[r].status] = req[r] BY <1>1 DEF Request
<1>3. [req EXCEPT ![r] = req[r]] = req OBVIOUS
<1> QED BY <1>2, <1>3

-----------------------------------------------------------------------------
(* Type correctness. *)

OwnerOK ==
  /\ senders \subseteq Browser /\ gen \in Nat /\ fence \in Admin \cup {NULL}
  /\ present \subseteq Browser
Hands == [pc : {"idle", "gate", "line", "send", "notify", "gone"},
          cmd : Seq(Nat), gen : Nat]
InputOK ==
  /\ paused \subseteq Browser
  /\ hold \in [Browser -> Seq(Nat)] /\ line \in [Browser -> Seq(Nat)]
  /\ typed \in [Browser -> Seq(Nat)] /\ newline \subseteq Browser \X Nat
  /\ work \in [Browser -> Hands]
StoreOK ==
  /\ req \in Seq(Request)
  /\ told \in [Notifier -> SUBSET (1..Len(req))]
AdminOK == adm \in [Admin -> Jobs]
PastOK ==
  /\ sent \in Seq([from : Browser, n : Nat, gen : Nat])
  /\ stranded \subseteq Browser \X Nat /\ cut \subseteq Browser

LEMMA TypeParts == TypeOK <=> OwnerOK /\ InputOK /\ StoreOK /\ AdminOK /\ PastOK
BY DEF TypeOK, OwnerOK, InputOK, StoreOK, AdminOK, PastOK, Hands

\* What becomes of a line that an input joins.
LEMMA Joining ==
  ASSUME InputOK, NEW b \in Browser, NEW s \in Seq(Nat)
  PROVE  /\ Joined(b, s) \in Seq(Nat)
         /\ LineAfter(b, s) \in [Browser -> Seq(Nat)]
         /\ LineAfter(b, s)[b] = IF TooLong(b, s) \/ Complete(b, s) THEN <<>>
                                 ELSE Joined(b, s)
         /\ \A c \in Browser \ {b} : LineAfter(b, s)[c] = line[c]
<1>1. Joined(b, s) \in Seq(Nat) BY ConcatProperties DEF InputOK, Joined
<1>2. <<>> \in Seq(Nat) BY EmptySeq
<1> QED BY <1>1, <1>2 DEF LineAfter, InputOK

\* An input is typed.
LEMMA TypedTypes ==
  ASSUME InputOK, gen \in Nat, NEW b \in Browser, Typed(b)
  PROVE  /\ Len(typed[b]) \in Nat
         /\ typed' \in [Browser -> Seq(Nat)]
              /\ newline' \subseteq Browser \X Nat
         /\ typed'[b] = Append(typed[b], gen)
         /\ \A c \in Browser \ {b} : typed'[c] = typed[c]
<1>1. typed[b] \in Seq(Nat) /\ Len(typed[b]) \in Nat
  BY LenProperties DEF InputOK
<1>2. Append(typed[b], gen) \in Seq(Nat) BY <1>1, AppendProperties
<1> QED BY <1>1, <1>2 DEF Typed, InputOK

\* One browser's part of a function changes.
LEMMA HandlerTypes ==
  ASSUME TypeOK, NEW b \in Browser, Handle(b)
  PROVE  OwnerOK' /\ InputOK' /\ AdminOK'
<1>0. OwnerOK /\ InputOK /\ AdminOK /\ work[b] \in Hands /\ gen \in Nat
  BY TypeParts DEF InputOK, OwnerOK
<1>1. UNCHANGED <<ownerVars, fence, adm>> /\
        present' \in {present, present \ {b}}
  BY DEF Handle, TypePaused, TypeFree, LineGrows, LineAllowed, GateRefuses,
         GateHolds, Notified, Send, Leave, RemoveDead, Forget
<1>2. OwnerOK' /\ AdminOK' BY <1>0, <1>1 DEF OwnerOK, AdminOK, ownerVars
<1>3. Idle \in Hands /\ \A pc \in {"notify", "gone"} :
        [Idle EXCEPT !.pc = pc] \in Hands
  BY EmptySeq DEF Idle, Hands
<1>4. ASSUME NEW w \in Hands, work' = [work EXCEPT ![b] = w]
      PROVE  work' \in [Browser -> Hands]
  BY <1>0, <1>4 DEF InputOK
<1>5. CASE TypePaused(b)
  <2>1. typed' \in [Browser -> Seq(Nat)] /\ newline' \subseteq Browser \X Nat
        /\ Len(typed[b]) \in Nat
    BY <1>0, <1>5, TypedTypes DEF TypePaused
  <2>2. Append(hold[b], Len(typed[b]) + 1) \in Seq(Nat)
    BY <1>0, <2>1, AppendProperties DEF InputOK
  <2>3. hold' \in [Browser -> Seq(Nat)]
          BY <1>0, <1>5, <2>2 DEF TypePaused, InputOK
  <2> QED BY <1>0, <1>2, <1>5, <2>1, <2>3 DEF TypePaused, InputOK
<1>6. CASE TypeFree(b)
  <2> DEFINE w == [pc |-> "gate", cmd |-> <<Len(typed[b]) + 1>>, gen |-> gen]
  <2>1. typed' \in [Browser -> Seq(Nat)] /\ newline' \subseteq Browser \X Nat
        /\ Len(typed[b]) \in Nat
    BY <1>0, <1>6, TypedTypes DEF TypeFree
  <2>2. <<Len(typed[b]) + 1>> \in Seq(Nat) BY <2>1
  <2>3. w \in Hands BY <1>0, <2>2 DEF Hands
  <2>4. UNCHANGED work \/ work' = [work EXCEPT ![b] = w] BY <1>6 DEF TypeFree
  <2> HIDE DEF w
  <2>5. work' \in [Browser -> Hands] BY <1>0, <1>4, <2>3, <2>4 DEF InputOK
  <2> QED BY <1>0, <1>2, <1>6, <2>1, <2>5 DEF TypeFree, InputOK
<1>7. CASE LineGrows(b)
  <2> DEFINE w == [work[b] EXCEPT !.pc = "line", !.cmd = Joined(b, work[b].cmd)]
  <2>1. work[b].cmd \in Seq(Nat) BY <1>0 DEF Hands
  <2>2. Joined(b, work[b].cmd) \in Seq(Nat)
        /\ LineAfter(b, work[b].cmd) \in [Browser -> Seq(Nat)]
    BY <1>0, <2>1, Joining
  <2>3. w \in Hands BY <1>0, <2>2 DEF Hands
  <2>4. work' = [work EXCEPT ![b] = w] \/ work' = [work EXCEPT ![b] = Idle]
    <3>1. CASE Complete(b, work[b].cmd) BY <1>7, <3>1 DEF LineGrows
    <3>2. CASE ~Complete(b, work[b].cmd) BY <1>7, <3>2 DEF LineGrows
    <3> QED BY <3>1, <3>2
  <2> HIDE DEF w
  <2>5. work' \in [Browser -> Hands] BY <1>3, <1>4, <2>3, <2>4
  <2> QED
    BY <1>0, <1>2, <1>7, <2>2, <2>5 DEF LineGrows, InputOK, typeVars
<1>8. CASE LineAllowed(b)
  <2> DEFINE w == [work[b] EXCEPT !.pc = "send"]
  <2>1. w \in Hands BY <1>0 DEF Hands
  <2>2. work' = [work EXCEPT ![b] = w] BY <1>8 DEF LineAllowed
  <2> HIDE DEF w
  <2>3. work' \in [Browser -> Hands] BY <1>4, <2>1, <2>2
  <2> QED BY <1>0, <1>2, <1>8, <2>3 DEF LineAllowed, InputOK, typeVars
<1>9. CASE GateRefuses(b) \/ Notified(b) \/ Send(b)
  <2>1. work' \in [Browser -> Hands]
    BY <1>3, <1>4, <1>9 DEF GateRefuses, Notified, Send
  <2> QED
    BY <1>0, <1>2, <1>9, <2>1 DEF GateRefuses, Notified, Send, InputOK, typeVars
<1>10. CASE GateHolds(b)
  <2>1. work' \in [Browser -> Hands] BY <1>3, <1>4, <1>10 DEF GateHolds
  <2> QED BY <1>0, <1>2, <1>10, <2>1 DEF GateHolds, InputOK, typeVars
<1>11. CASE Leave(b) \/ RemoveDead(b)
  <2>1. work' \in [Browser -> Hands]
    BY <1>0, <1>3, <1>4, <1>11 DEF Leave, RemoveDead, InputOK
  <2>2. Forget(b) BY <1>11 DEF Leave, RemoveDead
  <2>3. <<>> \in Seq(Nat) BY EmptySeq
  <2> QED BY <1>0, <1>2, <2>1, <2>2, <2>3 DEF Forget, InputOK, typeVars
<1> QED BY <1>5, <1>6, <1>7, <1>8, <1>9, <1>10, <1>11 DEF Handle

\* What has been typed reaches the worker under its browser's name.
LEMMA DeliveryTypes ==
  ASSUME gen \in Nat, NEW b \in Browser, NEW s \in Seq(Nat)
  PROVE  /\ Deliveries(b, s) \in Seq([from : Browser, n : Nat, gen : Nat])
         /\ Len(Deliveries(b, s)) = Len(s)
         /\ \A i \in 1..Len(s) :
              Deliveries(b, s)[i] = [from |-> b, n |-> s[i], gen |-> gen]
<1>1. Len(s) \in Nat /\ \A i \in 1..Len(s) : s[i] \in Nat
  BY LenProperties, ElementOfSeq
<1> DEFINE D == Deliveries(b, s)
<1>2. D = [i \in 1..Len(s) |-> [from |-> b, n |-> s[i], gen |-> gen]]
  BY DEF Deliveries, Delivery
<1>3. D \in Seq([from : Browser, n : Nat, gen : Nat])
  BY <1>1, <1>2, IsASeq
<1>4. Len(D) = Len(s) BY <1>1, <1>2
<1> QED BY <1>2, <1>3, <1>4

-----------------------------------------------------------------------------
(* The decisions in progress. *)

Pcs == {"idle", "fence", "deliver", "replay", "item", "line", "announce",
        "settle", "finish", "telling"}

\* The decision of a goes to pc, the others stay where they are.
Alone(a) == AdminOK' /\ \A c \in Admin \ {a} : adm'[c] = adm[c]
Goes(a, pc) ==
  /\ Alone(a)
  /\ adm'[a].pc = pc /\ adm'[a].r = adm[a].r
  /\ adm'[a].deny = adm[a].deny
Steps(a, pc) ==
  /\ Goes(a, pc)
  /\ adm'[a].ok = adm[a].ok /\ adm'[a].pending = adm[a].pending
Ends(a) == Alone(a) /\ adm'[a].pc = "idle"

LEMMA JobSteps ==
  ASSUME AdminOK, NEW a \in Admin, NEW pc \in Pcs
  PROVE  /\ adm' = [adm EXCEPT ![a].pc = pc] =>
              Steps(a, pc) /\ adm'[a].item = adm[a].item
         /\ \A s \in Seq(Nat) :
              adm' = [adm EXCEPT ![a].pc = pc, ![a].item = s] =>
                Steps(a, pc) /\ adm'[a].item = s
         /\ adm' = [adm EXCEPT ![a].pc = pc, ![a].ok = TRUE] =>
              /\ Goes(a, pc) /\ adm'[a].ok
              /\ adm'[a].pending = adm[a].pending /\ adm'[a].item = adm[a].item
         /\ adm' = [adm EXCEPT ![a].pc = pc, ![a].pending = TRUE] =>
              /\ Goes(a, pc) /\ adm'[a].pending
              /\ adm'[a].ok = adm[a].ok /\ adm'[a].item = adm[a].item
         /\ adm' = [adm EXCEPT ![a] = NoJob] =>
              Ends(a) /\ adm'[a].item = <<>>
<1> USE DEF AdminOK
<1> DEFINE j == adm[a]
<1>1. j \in Jobs OBVIOUS
<1>2. ASSUME NEW k \in Jobs, adm' = [adm EXCEPT ![a] = k]
      PROVE  Alone(a) /\ adm'[a] = k
  BY <1>2 DEF Alone
<1>3. ASSUME adm' = [adm EXCEPT ![a].pc = pc]
      PROVE  Steps(a, pc) /\ adm'[a].item = adm[a].item
  <2> DEFINE k == [j EXCEPT !.pc = pc]
  <2>1. k \in Jobs BY <1>1 DEF Jobs, Pcs
  <2>2. k.pc = pc /\ k.r = j.r /\ k.item = j.item BY <1>1 DEF Jobs
  <2>3. k.deny = j.deny BY <1>1 DEF Jobs
  <2>4. k.ok = j.ok BY <1>1 DEF Jobs
  <2>5. k.pending = j.pending BY <1>1 DEF Jobs
  <2>6. adm' = [adm EXCEPT ![a] = k] BY <1>3
  <2> HIDE DEF k
  <2> QED BY <2>1, <2>2, <2>3, <2>4, <2>5, <2>6, <1>2 DEF Steps, Goes
<1>4. ASSUME NEW s \in Seq(Nat), adm' = [adm EXCEPT ![a].pc = pc, ![a].item = s]
      PROVE  Steps(a, pc) /\ adm'[a].item = s
  <2> DEFINE k == [j EXCEPT !.pc = pc, !.item = s]
  <2>1. k \in Jobs BY <1>1 DEF Jobs, Pcs
  <2>2. k.pc = pc /\ k.r = j.r /\ k.item = s BY <1>1 DEF Jobs
  <2>3. k.deny = j.deny BY <1>1 DEF Jobs
  <2>4. k.ok = j.ok BY <1>1 DEF Jobs
  <2>5. k.pending = j.pending BY <1>1 DEF Jobs
  <2>6. adm' = [adm EXCEPT ![a] = k] BY <1>4
  <2> HIDE DEF k
  <2> QED BY <2>1, <2>2, <2>3, <2>4, <2>5, <2>6, <1>2 DEF Steps, Goes
<1>5. ASSUME adm' = [adm EXCEPT ![a].pc = pc, ![a].ok = TRUE]
      PROVE  /\ Goes(a, pc) /\ adm'[a].ok
             /\ adm'[a].pending = adm[a].pending /\ adm'[a].item = adm[a].item
  <2> DEFINE k == [j EXCEPT !.pc = pc, !.ok = TRUE]
  <2>1. k \in Jobs BY <1>1 DEF Jobs, Pcs
  <2>2. k.pc = pc /\ k.r = j.r /\ k.item = j.item BY <1>1 DEF Jobs
  <2>3. k.deny = j.deny BY <1>1 DEF Jobs
  <2>4. k.ok = TRUE BY <1>1 DEF Jobs
  <2>5. k.pending = j.pending BY <1>1 DEF Jobs
  <2>6. adm' = [adm EXCEPT ![a] = k] BY <1>5
  <2> HIDE DEF k
  <2> QED BY <2>1, <2>2, <2>3, <2>4, <2>5, <2>6, <1>2 DEF Steps, Goes
<1>6. ASSUME adm' = [adm EXCEPT ![a].pc = pc, ![a].pending = TRUE]
      PROVE  /\ Goes(a, pc) /\ adm'[a].pending
             /\ adm'[a].ok = adm[a].ok /\ adm'[a].item = adm[a].item
  <2> DEFINE k == [j EXCEPT !.pc = pc, !.pending = TRUE]
  <2>1. k \in Jobs BY <1>1 DEF Jobs, Pcs
  <2>2. k.pc = pc /\ k.r = j.r /\ k.item = j.item BY <1>1 DEF Jobs
  <2>3. k.deny = j.deny BY <1>1 DEF Jobs
  <2>4. k.ok = j.ok BY <1>1 DEF Jobs
  <2>5. k.pending = TRUE BY <1>1 DEF Jobs
  <2>6. adm' = [adm EXCEPT ![a] = k] BY <1>6
  <2> HIDE DEF k
  <2> QED BY <2>1, <2>2, <2>3, <2>4, <2>5, <2>6, <1>2 DEF Steps, Goes
<1>7. ASSUME adm' = [adm EXCEPT ![a] = NoJob]
      PROVE  Ends(a) /\ adm'[a].item = <<>>
  <2>1. NoJob \in Jobs /\ NoJob.pc = "idle" /\ NoJob.item = <<>>
    BY DEF NoJob, Jobs
  <2> QED BY <1>2, <1>7, <2>1 DEF Ends
<1> QED BY <1>3, <1>4, <1>5, <1>6, <1>7

\* The browser of a request in progress.
By(a) == req[adm[a].r].by

LEMMA ByBrowser ==
  ASSUME StoreOK, Working, NEW a \in Admin, adm[a].pc \in Busy
  PROVE  adm[a].r \in 1..Len(req) /\ By(a) \in Browser
<1>1. req \in Seq(Request) BY DEF StoreOK
<1>2. adm[a].r \in 1..Len(req) BY DEF Working
<1>3. req[adm[a].r] \in Request BY <1>1, <1>2, ElementOfSeq
<1> QED BY <1>2, <1>3 DEF Request, By

\* Where each step of a decision leads, and who has the fence then.
LEMMA Decisions ==
  ASSUME AdminOK, InputOK, StoreOK, Working, NEW a \in Admin
  PROVE  /\ OpBegins(a) =>
              \/ Steps(a, "deliver") /\ fence' = a /\ gen = req[adm[a].r].gen
              \/ Steps(a, "settle") /\ UNCHANGED fence
         /\ Deliver(a) =>
              \/ /\ Goes(a, "replay") /\ adm'[a].ok /\ UNCHANGED fence
                 /\ adm'[a].pending = adm[a].pending
              \/ Steps(a, "settle") /\ fence' = NULL
         /\ ReplayTakes(a) =>
              Steps(a, "item") /\ adm'[a].item = hold[By(a)] /\ UNCHANGED fence
         /\ ReplayEnds(a) => Steps(a, "settle") /\ fence' = NULL
         /\ ItemJoins(a) =>
              /\ UNCHANGED fence
              /\ IF Complete(By(a), adm[a].item)
                   THEN /\ Steps(a, "line")
                        /\ adm'[a].item = Joined(By(a), adm[a].item)
                   ELSE Steps(a, "replay")
         /\ ItemRefused(a) \/ ItemSent(a)
              => Steps(a, "replay") /\ UNCHANGED fence
         /\ ItemFails(a) => Steps(a, "settle") /\ fence' = NULL
         /\ ItemHeld(a) => Steps(a, "announce") /\ UNCHANGED fence
         /\ Announced(a) =>
              /\ Goes(a, "settle") /\ adm'[a].pending
              /\ adm'[a].ok = adm[a].ok /\ UNCHANGED req /\ fence' = NULL
         /\ Unpause(a) => Steps(a, "finish") /\ UNCHANGED fence
         /\ Finish(a) => Ends(a) /\ UNCHANGED fence
         /\ CutShort(a) => Ends(a) /\ fence' = IF fence = a THEN NULL ELSE fence
<1> USE DEF Pcs
<1>0. <<>> \in Seq(Nat) BY EmptySeq
<1>1. ASSUME OpBegins(a)
      PROVE  \/ Steps(a, "deliver") /\ fence' = a /\ gen = req[adm[a].r].gen
             \/ Steps(a, "settle") /\ UNCHANGED fence
  BY <1>1, JobSteps DEF OpBegins
<1>2. ASSUME Deliver(a)
      PROVE  \/ /\ Goes(a, "replay") /\ adm'[a].ok /\ UNCHANGED fence
                /\ adm'[a].pending = adm[a].pending
             \/ Steps(a, "settle") /\ fence' = NULL
  BY <1>2, JobSteps DEF Deliver
<1>3. ASSUME ReplayTakes(a)
      PROVE  Steps(a, "item") /\ adm'[a].item = hold[By(a)] /\ UNCHANGED fence
  <2>1. hold[By(a)] \in Seq(Nat)
    BY <1>3, ByBrowser DEF ReplayTakes, Busy, Fenced, InputOK
  <2>2. adm' = [adm EXCEPT ![a].pc = "item", ![a].item = hold[By(a)]]
    BY <1>3 DEF ReplayTakes, By
  <2> QED BY <1>3, <2>1, <2>2, JobSteps DEF ReplayTakes
<1>4. ReplayEnds(a) => Steps(a, "settle") /\ fence' = NULL
  BY JobSteps DEF ReplayEnds
<1>5. ASSUME ItemJoins(a)
      PROVE  /\ UNCHANGED fence
             /\ IF Complete(By(a), adm[a].item)
                  THEN /\ Steps(a, "line")
                       /\ adm'[a].item = Joined(By(a), adm[a].item)
                  ELSE Steps(a, "replay")
  <2>1. By(a) \in Browser BY <1>5, ByBrowser DEF ItemJoins, Busy, Fenced
  <2>2. Joined(By(a), adm[a].item) \in Seq(Nat)
    BY <2>1, Joining DEF AdminOK, Jobs
  <2>3. CASE Complete(By(a), adm[a].item)
    <3>1. adm' = [adm EXCEPT ![a].pc = "line",
                             ![a].item = Joined(By(a), adm[a].item)]
      BY <1>5, <2>3 DEF ItemJoins, By
    <3> QED BY <1>5, <2>2, <2>3, <3>1, JobSteps DEF ItemJoins
  <2>4. CASE ~Complete(By(a), adm[a].item)
    <3>1. adm' = [adm EXCEPT ![a].pc = "replay", ![a].item = <<>>]
      BY <1>5, <2>4 DEF ItemJoins, By
    <3> QED BY <1>0, <1>5, <2>4, <3>1, JobSteps DEF ItemJoins
  <2> QED BY <2>3, <2>4
<1>6. ItemRefused(a) \/ ItemSent(a) => Steps(a, "replay") /\ UNCHANGED fence
  BY <1>0, JobSteps DEF ItemRefused, ItemSent
<1>7. ItemFails(a) => Steps(a, "settle") /\ fence' = NULL
  BY <1>0, JobSteps DEF ItemFails
<1>8. ItemHeld(a) => Steps(a, "announce") /\ UNCHANGED fence
  BY <1>0, JobSteps DEF ItemHeld
<1>9. Announced(a) => /\ Goes(a, "settle") /\ adm'[a].pending
                      /\ adm'[a].ok = adm[a].ok /\ UNCHANGED req
                           /\ fence' = NULL
  BY JobSteps DEF Announced
<1>10. Unpause(a) => Steps(a, "finish") /\ UNCHANGED fence
  BY JobSteps DEF Unpause
<1>11. Finish(a) => Ends(a) /\ UNCHANGED fence
  BY JobSteps DEF Finish
<1>12. CutShort(a) => Ends(a) /\ fence' = IF fence = a THEN NULL ELSE fence
  BY JobSteps DEF CutShort
<1> QED
  BY <1>1, <1>2, <1>3, <1>4, <1>5, <1>6, <1>7, <1>8, <1>9, <1>10, <1>11, <1>12

\* A claim starts a decision of its own request; a claim that came too late only
\* goes on to tell the origins.
LEMMA Claims ==
  ASSUME AdminOK, NEW a \in Admin
  PROVE  /\ \A r \in Nat : Claim(a, r) =>
              /\ Alone(a) /\ adm'[a].r = r
              /\ ~adm'[a].ok /\ ~adm'[a].pending
              /\ \/ /\ adm'[a].pc = "fence" /\ ~adm'[a].deny
                    /\ req' = [req EXCEPT ![r].status = "resolving"]
                 \/ /\ adm'[a].pc = "settle" /\ adm'[a].deny
                    /\ req' = [req EXCEPT ![r].status = "rejected"]
         /\ \A r : ClaimLate(a, r) => Steps(a, "telling")
         /\ AdminTold(a) => Ends(a)
<1> USE DEF Pcs
<1>1. ASSUME NEW r \in Nat, Claim(a, r)
      PROVE  /\ Alone(a) /\ adm'[a].r = r
             /\ ~adm'[a].ok /\ ~adm'[a].pending
             /\ \/ /\ adm'[a].pc = "fence" /\ ~adm'[a].deny
                   /\ req' = [req EXCEPT ![r].status = "resolving"]
                \/ /\ adm'[a].pc = "settle" /\ adm'[a].deny
                   /\ req' = [req EXCEPT ![r].status = "rejected"]
  <2>1. ASSUME NEW pc \in {"fence", "settle"}, NEW deny \in BOOLEAN,
               adm' = [adm EXCEPT ![a] = Job(r, pc, deny)]
        PROVE  /\ Alone(a) /\ adm'[a].r = r /\ adm'[a].pc = pc
               /\ ~adm'[a].ok /\ ~adm'[a].pending
               /\ adm'[a].deny = deny
    <3> DEFINE j == Job(r, pc, deny)
    <3>0. NoJob \in Jobs /\ NoJob.ok = FALSE /\ NoJob.pending = FALSE
      BY EmptySeq DEF NoJob, Jobs
    <3>1. j \in Jobs BY <3>0 DEF Job, Jobs
    <3>2. j.r = r /\ j.pc = pc BY <3>0 DEF Job, Jobs
    <3>3. j.ok = NoJob.ok BY <3>0 DEF Job, Jobs
    <3>4. j.pending = NoJob.pending BY <3>0 DEF Job, Jobs
    <3>6. j.deny = deny BY <3>0 DEF Job, Jobs
    <3> HIDE DEF j
    <3>5. adm' = [adm EXCEPT ![a] = j] BY <2>1 DEF j
    <3> QED BY <3>0, <3>1, <3>2, <3>3, <3>4, <3>5, <3>6 DEF Alone, AdminOK
  <2> QED BY <1>1, <2>1 DEF Claim
<1>2. \A r : ClaimLate(a, r) => Steps(a, "telling") BY JobSteps DEF ClaimLate
<1>3. AdminTold(a) => Ends(a) BY JobSteps DEF AdminTold
<1> QED BY <1>1, <1>2, <1>3

LEMMA ResolveTypes ==
  ASSUME TypeOK, Working, NEW a \in Admin, Resolve(a)
  PROVE  OwnerOK' /\ InputOK' /\ AdminOK'
<1>0. OwnerOK /\ InputOK /\ StoreOK /\ AdminOK BY TypeParts
<1> USE DEF Busy, Fenced
<1>1. AdminOK'
  BY <1>0, Decisions DEF Resolve, Steps, Goes, Ends, Alone
<1>2. OwnerOK'
  <2>1. fence' \in Admin \cup {NULL} BY <1>0, Decisions DEF Resolve, OwnerOK
  <2>2. UNCHANGED <<ownerVars, present>>
    BY DEF Resolve, OpBegins, Deliver, ReplayTakes, ReplayEnds, ItemJoins,
           ItemRefused, ItemSent, ItemFails, ItemHeld, Announced, Unpause,
           Finish, CutShort
  <2> QED BY <1>0, <2>1, <2>2 DEF OwnerOK, ownerVars
<1>3. InputOK'
  <2>1. CASE UNCHANGED inputVars BY <1>0, <2>1 DEF InputOK, inputVars, typeVars
  <2>2. CASE ReplayTakes(a)
    <3>1. By(a) \in Browser BY <1>0, <2>2, ByBrowser DEF ReplayTakes
    <3>2. <<>> \in Seq(Nat) BY EmptySeq
    <3> QED BY <1>0, <2>2, <3>1, <3>2 DEF ReplayTakes, InputOK, By, typeVars
  <2>3. CASE ItemHeld(a)
    <3>1. By(a) \in Browser BY <1>0, <2>3, ByBrowser DEF ItemHeld
    <3> QED BY <1>0, <2>3, <3>1 DEF ItemHeld, InputOK, By, typeVars
  <2>4. CASE ItemJoins(a)
    <3>1. By(a) \in Browser BY <1>0, <2>4, ByBrowser DEF ItemJoins
    <3>2. LineAfter(By(a), adm[a].item) \in [Browser -> Seq(Nat)]
      BY <1>0, <3>1, Joining DEF AdminOK, Jobs
    <3> QED BY <1>0, <2>4, <3>2 DEF ItemJoins, InputOK, By, typeVars
  <2>5. CASE Unpause(a)
    <3>1. By(a) \in Browser BY <1>0, <2>5, ByBrowser DEF Unpause
    <3>2. hold' = hold \/ hold' = [hold EXCEPT ![By(a)] = <<>>]
      <4>1. CASE By(a) \in paused \cap present BY <2>5, <4>1 DEF Unpause, By
      <4>2. CASE By(a) \notin paused \cap present BY <2>5, <4>2 DEF Unpause, By
      <4> QED BY <4>1, <4>2
    <3>3. [hold EXCEPT ![By(a)] = <<>>] \in [Browser -> Seq(Nat)]
      BY <1>0, <3>1, EmptySeq DEF InputOK
    <3>4. hold' \in [Browser -> Seq(Nat)] BY <1>0, <3>2, <3>3 DEF InputOK
    <3>5. paused' \in SUBSET Browser /\ UNCHANGED <<line, typed, newline, work>>
      BY <1>0, <2>5 DEF Unpause, InputOK, typeVars
    <3> QED BY <1>0, <3>4, <3>5 DEF InputOK
  <2> QED
    BY <2>1, <2>2, <2>3, <2>4, <2>5
       DEF Resolve, OpBegins, Deliver, ReplayEnds, ItemRefused, ItemSent,
           ItemFails, Announced, Finish, CutShort
<1> QED BY <1>1, <1>2, <1>3

LEMMA OtherTypes ==
  ASSUME TypeOK, Next,
         ~\E b \in Browser : Handle(b), ~\E a \in Admin : Resolve(a)
  PROVE  OwnerOK' /\ InputOK' /\ AdminOK'
<1> USE DEF OwnerOK, InputOK, ownerVars, inputVars, typeVars
<1>0. OwnerOK /\ InputOK /\ StoreOK /\ AdminOK BY TypeParts
<1>a. UNCHANGED adm => AdminOK' BY <1>0 DEF AdminOK
<1>1. CASE Transfer BY <1>0, <1>a, <1>1 DEF Transfer
<1>2. CASE LeaseExpires
  BY <1>0, <1>a, <1>2 DEF LeaseExpires
<1>3. ASSUME NEW r \in 1..Len(req), Overdue(r)
      PROVE  OwnerOK' /\ InputOK' /\ AdminOK'
  BY <1>0, <1>a, <1>3 DEF Overdue
<1>4. ASSUME NEW r \in 1..Len(req), NEW a \in Admin, Claim(a, r)
      PROVE  OwnerOK' /\ InputOK' /\ AdminOK'
  <2>1. AdminOK' BY <1>0, <1>4, Claims DEF Alone
  <2> QED BY <1>0, <1>4, <2>1 DEF Claim
<1>5. ASSUME NEW r \in 1..Len(req), NEW a \in Admin, ClaimLate(a, r)
      PROVE  OwnerOK' /\ InputOK' /\ AdminOK'
  <2>1. AdminOK' BY <1>0, <1>5, Claims DEF Steps, Goes, Alone
  <2> QED BY <1>0, <1>5, <2>1 DEF ClaimLate
<1>6. CASE SweepExpires
  BY <1>0, <1>a, <1>6 DEF SweepExpires
<1>7. ASSUME NEW a \in Admin, AdminTold(a)
      PROVE  OwnerOK' /\ InputOK' /\ AdminOK'
  <2>1. AdminOK' BY <1>0, <1>7, Claims DEF Steps, Goes, Ends, Alone
  <2> QED
    BY <1>0, <1>7, <2>1
       DEF AdminTold
<1>8. ASSUME NEW t \in Notifier, SettleExpired(t)
      PROVE  OwnerOK' /\ InputOK' /\ AdminOK'
  <2>1. PICK r \in told[t] :
          /\ paused' = paused \ {req[r].by}
          /\ hold' = [hold EXCEPT ![req[r].by] = <<>>]
    BY <1>8 DEF SettleExpired
  <2>2. hold' \in [Browser -> Seq(Nat)]
    <3>1. <<>> \in Seq(Nat) BY EmptySeq
    <3> QED BY <1>0, <2>1, <3>1
  <2> QED BY <1>0, <1>a, <1>8, <2>1, <2>2 DEF SettleExpired
<1> QED
  BY <1>1, <1>2, <1>3, <1>4, <1>5, <1>6, <1>7, <1>8 DEF Next, Expire

-----------------------------------------------------------------------------
(* The store and the expiries. *)

\* A request's clock runs out; only a flag changes.
LEMMA OverdueKept ==
  ASSUME StoreOK, NEW r \in 1..Len(req), Overdue(r)
  PROVE  /\ Kept /\ Len(req') = Len(req)
         /\ \A q \in 1..Len(req) : req'[q].status = req[q].status
<1>0. req \in Seq(Request) BY DEF StoreOK
<1> DEFINE q == [req[r] EXCEPT !.late = TRUE]
<1>1. req[r] \in Request BY <1>0, ElementOfSeq
<1>2. q \in Request BY <1>1 DEF Request
<1>3. /\ q.status = req[r].status /\ q.by = req[r].by
      /\ q.cmd = req[r].cmd /\ q.gen = req[r].gen
  BY <1>1 DEF Request
<1>4. req' = [req EXCEPT ![r] = q] BY DEF Overdue
<1> HIDE DEF q
<1>5. req' \in Seq(Request) /\ Len(req') = Len(req)
  BY <1>0, <1>2, <1>4, ExceptSeq
<1>6. req'[r] = q /\ \A x \in 1..Len(req) : x # r => req'[x] = req[x]
  BY <1>0, <1>4, ExceptSeq
<1> QED BY <1>3, <1>5, <1>6, SMT DEF Kept

\* The sweep marks exactly the requests that are overdue.
LEMMA SweepKept ==
  ASSUME StoreOK, SweepExpires
  PROVE  /\ Kept /\ Len(req') = Len(req)
         /\ \A r \in 1..Len(req) :
              req'[r].status = IF r \in LatePending THEN "timeout"
                               ELSE req[r].status
<1>0. req \in Seq(Request) /\ Len(req) \in Nat BY LenProperties DEF StoreOK
<1> DEFINE q(r) == IF r \in LatePending
      THEN [req[r] EXCEPT !.status = "timeout"]
                   ELSE req[r]
<1>1. ASSUME NEW r \in 1..Len(req)
      PROVE  /\ q(r) \in Request
             /\ q(r).by = req[r].by /\ q(r).cmd = req[r].cmd
             /\ q(r).gen = req[r].gen
             /\ q(r).status = IF r \in LatePending THEN "timeout"
                              ELSE req[r].status
  <2>1. req[r] \in Request BY <1>0, ElementOfSeq
  <2>2. CASE r \in LatePending
    <3> DEFINE p == [req[r] EXCEPT !.status = "timeout"]
    <3>1. p \in Request BY <2>1 DEF Request, Status
    <3>2. p.status = "timeout" /\ p.by = req[r].by /\ p.cmd = req[r].cmd
          /\ p.gen = req[r].gen
      BY <2>1 DEF Request
    <3>3. q(r) = p BY <2>2
    <3> HIDE DEF p, q
    <3> QED BY <2>2, <3>1, <3>2, <3>3
  <2> QED BY <2>1, <2>2
<1>2. req' = [r \in 1..Len(req) |-> q(r)] BY DEF SweepExpires
<1> HIDE DEF q
<1>3. req' \in Seq(Request) BY <1>0, <1>1, <1>2, IsASeq
<1>4. Len(req') = Len(req) BY <1>0, <1>2, <1>3, LenProperties
<1> QED BY <1>0, <1>1, <1>2, <1>3, <1>4 DEF Kept

\* The steps of a decision write no other request, and its own only when it
\* ends.
LEMMA ResolveStore ==
  ASSUME TypeOK, Working, NEW a \in Admin, Resolve(a)
  PROVE  /\ adm[a].r \in 1..Len(req) /\ adm[a].pc \in Busy
         /\ Kept
         /\ UNCHANGED told
         /\ \A r \in 1..Len(req) : r # adm[a].r => req'[r] = req[r]
         /\ req'[adm[a].r].status # req[adm[a].r].status =>
              Ends(a) /\ req'[adm[a].r].status \in {"approved", "refused"}
<1>0. /\ OwnerOK /\ InputOK /\ StoreOK /\ AdminOK
      /\ req \in Seq(Request) /\ Len(req) \in Nat
  BY TypeParts, LenProperties DEF StoreOK
<1>a. adm[a].pc \in Pcs \ {"idle", "telling"}
  <2>1. adm[a].pc \notin {"idle", "telling"}
    BY DEF Resolve, OpBegins, Deliver, ReplayTakes, ReplayEnds, ItemJoins,
           ItemRefused, ItemSent, ItemFails, ItemHeld, Announced, Unpause,
           Finish, CutShort
  <2> QED BY <1>0, <2>1 DEF AdminOK, Jobs, Pcs
<1>1. adm[a].pc \in Busy BY <1>a DEF Pcs, Busy, Fenced
<1>2. adm[a].r \in 1..Len(req) /\ By(a) \in Browser BY <1>0, <1>1, ByBrowser
<1>3. UNCHANGED told
  BY DEF Resolve, OpBegins, Deliver, ReplayTakes, ReplayEnds, ItemJoins,
         ItemRefused, ItemSent, ItemFails, ItemHeld, Announced, Unpause, Finish,
         CutShort
<1>4. ASSUME UNCHANGED req
      PROVE  /\ Kept
             /\ \A r \in 1..Len(req) : r # adm[a].r => req'[r] = req[r]
             /\ req'[adm[a].r].status = req[adm[a].r].status
  BY <1>0, <1>4 DEF Kept
<1>5. ASSUME NEW st \in Status, Ends(a),
             req' = [req EXCEPT ![adm[a].r].status = st]
      PROVE  /\ Kept
             /\ \A r \in 1..Len(req) : r # adm[a].r => req'[r] = req[r]
             /\ req'[adm[a].r].status = st
  BY <1>0, <1>2, <1>5, Marked
<1>6. CASE UNCHANGED req BY <1>1, <1>2, <1>3, <1>4, <1>6
<1>7. CASE CutShort(a)
  <2>1. Ends(a) BY <1>0, <1>7, Decisions
  <2>2. CASE req[adm[a].r].status = "resolving"
    <3>1. req' = [req EXCEPT ![adm[a].r].status = "refused"]
      BY <1>7, <2>2 DEF CutShort
    <3>2. "refused" \in Status BY DEF Status
    <3> QED BY <1>1, <1>2, <1>3, <1>5, <2>1, <3>1, <3>2
  <2>3. CASE req[adm[a].r].status # "resolving"
    <3> DEFINE st == req[adm[a].r].status
    <3>1. req' = [req EXCEPT ![adm[a].r].status = st]
      BY <1>7, <2>3 DEF CutShort
    <3>2. st \in Status
      <4>1. req[adm[a].r] \in Request BY <1>0, <1>2, ElementOfSeq
      <4> QED BY <4>1 DEF Request
    <3>3. st = req[adm[a].r].status OBVIOUS
    <3> HIDE DEF st
    <3> QED BY <1>1, <1>2, <1>3, <1>5, <2>1, <3>1, <3>2, <3>3
  <2> QED BY <2>2, <2>3
<1>8. CASE Finish(a)
  <2>1. Ends(a) BY <1>0, <1>8, Decisions
  <2>2. \A st \in {"approved", "refused"} : st \in Status BY DEF Status
  <2>3. \/ UNCHANGED req
        \/ \E st \in {"approved", "refused"} :
             req' = [req EXCEPT ![adm[a].r].status = st]
    <3>1. CASE adm[a].ok BY <1>8, <3>1 DEF Finish
    <3>2. CASE ~adm[a].ok BY <1>8, <3>2 DEF Finish
    <3> QED BY <3>1, <3>2
  <2> QED BY <1>1, <1>2, <1>3, <1>5, <1>6, <2>1, <2>2, <2>3
<1>9. CASE ItemHeld(a)
  <2>1. /\ req' = NewRequest(By(a), adm[a].item, req[adm[a].r].gen)
        /\ adm[a].item \in Seq(Nat) /\ req[adm[a].r].gen \in Nat
    <3>1. req[adm[a].r] \in Request BY <1>0, <1>2, ElementOfSeq
    <3> QED BY <1>0, <1>9, <3>1 DEF ItemHeld, By, AdminOK, Jobs, Request
  <2>2. Kept /\ \A r \in 1..Len(req) : req'[r] = req[r]
    BY <1>0, <1>2, <2>1, Added
  <2> QED BY <1>1, <1>2, <1>3, <2>2
<1> QED
  BY <1>6, <1>7, <1>8, <1>9
     DEF Resolve, OpBegins, Deliver, ReplayTakes, ReplayEnds, ItemJoins,
         ItemRefused, ItemSent, ItemFails, Announced, Unpause

\* A handler adds a pending request at most.
LEMMA HandlerStore ==
  ASSUME TypeOK, NEW b \in Browser, Handle(b)
  PROVE  /\ Kept
         /\ UNCHANGED <<told, adm, fence, gen>>
         /\ \A r \in 1..Len(req) : req'[r] = req[r]
<1>0. /\ OwnerOK /\ InputOK /\ StoreOK /\ AdminOK
      /\ req \in Seq(Request) /\ Len(req) \in Nat
  BY TypeParts, LenProperties DEF StoreOK
<1>1. UNCHANGED <<told, adm, fence, gen>>
  BY DEF Handle, TypePaused, TypeFree, LineGrows, LineAllowed, GateRefuses,
         GateHolds, Notified, Send, Leave, RemoveDead, Forget, ownerVars
<1>2. CASE UNCHANGED req BY <1>0, <1>1, <1>2 DEF Kept
<1>3. CASE GateHolds(b)
  <2>1. /\ req' = NewRequest(b, work[b].cmd, work[b].gen)
        /\ work[b].cmd \in Seq(Nat) /\ work[b].gen \in Nat
    BY <1>0, <1>3 DEF GateHolds, InputOK, Hands
  <2> QED BY <1>0, <1>1, <2>1, Added
<1> QED
  BY <1>2, <1>3
     DEF Handle, TypePaused, TypeFree, LineGrows, LineAllowed, GateRefuses,
         Notified, Send, Leave, RemoveDead, Forget

LEMMA StepKept == ASSUME TypeOK, Working, [Next]_vars PROVE Kept
<1>0. StoreOK /\ req \in Seq(Request) /\ Len(req) \in Nat
  BY TypeParts, LenProperties DEF StoreOK
<1>1. CASE UNCHANGED req BY <1>0, <1>1 DEF Kept
<1>2. ASSUME NEW r \in 1..Len(req), NEW a \in Admin, Claim(a, r) PROVE Kept
  <2>1. \/ req' = [req EXCEPT ![r].status = "resolving"]
        \/ req' = [req EXCEPT ![r].status = "rejected"]
    BY <1>2 DEF Claim
  <2> QED BY <1>0, <2>1, Marked DEF Status
<1>3. ASSUME NEW r \in 1..Len(req), NEW a \in Admin, ClaimLate(a, r) PROVE Kept
  <2>1. UNCHANGED req \/ req' = [req EXCEPT ![r].status = "timeout"]
    <3>1. CASE req[r].status = "pending" BY <1>3, <3>1 DEF ClaimLate
    <3>2. CASE req[r].status # "pending"
      BY <1>0, <1>3, <3>2, Unmarked DEF ClaimLate
    <3> QED BY <3>1, <3>2
  <2> QED BY <1>0, <1>1, <2>1, Marked DEF Status
<1>4. CASE Transfer \/ LeaseExpires
  BY <1>1, <1>4 DEF Transfer, LeaseExpires
<1>5. ASSUME NEW a \in Admin, AdminTold(a) PROVE Kept
  BY <1>1, <1>5 DEF AdminTold
<1>6. ASSUME NEW t \in Notifier, SettleExpired(t) PROVE Kept
  BY <1>1, <1>6 DEF SettleExpired
<1>7. CASE UNCHANGED vars BY <1>1, <1>7 DEF vars
<1> QED
  BY <1>0, <1>2, <1>3, <1>4, <1>5, <1>6, <1>7, HandlerStore, ResolveStore,
     OverdueKept, SweepKept
     DEF Next, Expire

\* The expiries that are owed are those of requests in the store.
LEMMA StoreTypes == ASSUME TypeOK, Working, [Next]_vars PROVE StoreOK'
<1>0. StoreOK /\ req \in Seq(Request) /\ Len(req) \in Nat
  BY TypeParts, LenProperties DEF StoreOK
<1>1. req' \in Seq(Request) /\ Len(req') \in Nat /\ Len(req) <= Len(req')
  BY StepKept, LenProperties DEF Kept
<1>2. ASSUME told' \in [Notifier -> SUBSET (1..Len(req))] PROVE StoreOK'
  <2>1. 1..Len(req) \subseteq 1..Len(req') BY <1>0, <1>1
  <2> QED BY <1>1, <1>2, <2>1 DEF StoreOK
<1>3. CASE UNCHANGED told BY <1>0, <1>2, <1>3 DEF StoreOK
<1>4. ASSUME NEW r \in 1..Len(req), NEW a \in Admin, ClaimLate(a, r)
        PROVE StoreOK'
  <2>1. UNCHANGED told \/ told' = [told EXCEPT ![a] = {r}] BY <1>4 DEF ClaimLate
  <2> QED BY <1>0, <1>2, <2>1 DEF StoreOK, Notifier
<1>5. CASE SweepExpires
  <2>1. LatePending \subseteq 1..Len(req) BY DEF LatePending
  <2> QED BY <1>0, <1>2, <1>5, <2>1 DEF SweepExpires, StoreOK, Notifier
<1>6. ASSUME NEW a \in Admin, AdminTold(a) PROVE StoreOK'
  BY <1>0, <1>2, <1>6 DEF AdminTold, StoreOK, Notifier
<1>7. ASSUME NEW t \in Notifier, SettleExpired(t) PROVE StoreOK'
  <2>1. PICK r \in told[t] : told' = [told EXCEPT ![t] = @ \ {r}]
    BY <1>7 DEF SettleExpired
  <2> QED BY <1>0, <1>2, <2>1 DEF StoreOK
<1>8. ASSUME NEW b \in Browser, Handle(b) PROVE StoreOK'
  BY <1>3, <1>8, HandlerStore
<1>9. ASSUME NEW a \in Admin, Resolve(a) PROVE StoreOK'
  BY <1>3, <1>9, ResolveStore
<1> QED
  BY <1>3, <1>4, <1>5, <1>6, <1>7, <1>8, <1>9
     DEF Next, Expire, Transfer, LeaseExpires, Overdue, Claim, vars

-----------------------------------------------------------------------------
(* What has reached the worker. *)

Delivered == [from : Browser, n : Nat, gen : Nat]

\* sent' is sent, followed by the inputs s of b.
Follow(b, s) ==
  /\ Len(sent') = Len(sent) + Len(s)
  /\ \A i \in 1..Len(sent) : sent'[i] = sent[i]
  /\ \A i \in 1..Len(s) :
       sent'[Len(sent) + i] = [from |-> b, n |-> s[i], gen |-> gen]

LEMMA Following ==
  ASSUME gen \in Nat, sent \in Seq(Delivered), NEW b \in Browser,
         NEW s \in Seq(Nat)
  PROVE  sent' = sent \o Deliveries(b, s) =>
           sent' \in Seq(Delivered) /\ Follow(b, s)
<1>0. Len(sent) \in Nat /\ Len(s) \in Nat BY LenProperties
<1>1. ASSUME sent' = sent \o Deliveries(b, s)
      PROVE  sent' \in Seq(Delivered) /\ Follow(b, s)
  <2> DEFINE D == Deliveries(b, s)
  <2>1. /\ D \in Seq(Delivered) /\ Len(D) = Len(s)
        /\ \A i \in 1..Len(s) : D[i] = [from |-> b, n |-> s[i], gen |-> gen]
    BY DeliveryTypes DEF Delivered
  <2>2. sent' = sent \o D BY <1>1
  <2> HIDE DEF D
  <2>a. /\ sent \o D \in Seq(Delivered) /\ Len(sent \o D) = Len(sent) + Len(D)
        /\ \A i \in 1 .. Len(sent) + Len(D) :
             (sent \o D)[i] = IF i <= Len(sent) THEN sent[i]
               ELSE D[i - Len(sent)]
    <3>1. D \in Seq(Delivered) BY <2>1
    <3> QED BY <3>1, ConcatProperties, Zenon
  <2>3. /\ sent' \in Seq(Delivered) /\ Len(sent') = Len(sent) + Len(D)
        /\ \A i \in 1 .. Len(sent) + Len(D) :
             sent'[i] = IF i <= Len(sent) THEN sent[i] ELSE D[i - Len(sent)]
    BY <2>2, <2>a, Zenon
  <2>4. \A i \in 1..Len(s) : sent'[Len(sent) + i] = D[i]
    <3> TAKE i \in 1..Len(s)
    <3>1. /\ Len(sent) + i \in 1 .. Len(sent) + Len(D)
          /\ ~(Len(sent) + i <= Len(sent)) /\ (Len(sent) + i) - Len(sent) = i
      BY <1>0, <2>1
    <3> QED BY <2>3, <3>1
  <2>5. \A i \in 1..Len(sent) : sent'[i] = sent[i] BY <1>0, <2>1, <2>3
  <2> QED BY <2>1, <2>3, <2>4, <2>5 DEF Follow
<1> QED BY <1>1

\* Who sends what: a browser its own input, a decision its command or its line;
\* one that is cut short may have sent it.
LEMMA Sends ==
  ASSUME TypeOK, Working, [Next]_vars
  PROVE  \/ UNCHANGED sent
         \/ \E b \in Browser :
              /\ Send(b) /\ CanSend(b) /\ gen = work[b].gen
              /\ Follow(b, work[b].cmd)
              /\ sent' \in Seq(Delivered)
         \/ \E a \in Admin :
              /\ Deliver(a) \/ CutShort(a)
              /\ adm[a].pc = "deliver"
              /\ Follow(By(a), req[adm[a].r].cmd)
              /\ sent' \in Seq(Delivered)
         \/ \E a \in Admin :
              /\ ItemSent(a) \/ ItemFails(a) \/ CutShort(a)
              /\ adm[a].pc = "line"
              /\ Follow(By(a), adm[a].item)
              /\ sent' \in Seq(Delivered)
<1>0. /\ OwnerOK /\ InputOK /\ StoreOK /\ AdminOK /\ PastOK
      /\ req \in Seq(Request) /\ sent \in Seq(Delivered) /\ gen \in Nat
  BY TypeParts DEF StoreOK, OwnerOK, PastOK, Delivered
<1>1. ASSUME NEW b \in Browser, Send(b), ~UNCHANGED sent
      PROVE  /\ CanSend(b) /\ gen = work[b].gen
             /\ Follow(b, work[b].cmd)
             /\ sent' \in Seq(Delivered)
  <2>1. work[b].cmd \in Seq(Nat) BY <1>0 DEF InputOK, Hands
  <2>2. /\ CanSend(b) /\ gen = work[b].gen
        /\ sent' = sent \o Deliveries(b, work[b].cmd)
    BY <1>1 DEF Send
  <2> QED BY <1>0, <2>1, <2>2, Following
<1>2. ASSUME NEW a \in Admin, adm[a].pc = "deliver",
             sent' = sent \o Deliveries(By(a), req[adm[a].r].cmd)
      PROVE  Follow(By(a), req[adm[a].r].cmd) /\ sent' \in Seq(Delivered)
  <2>1. adm[a].r \in 1..Len(req) /\ By(a) \in Browser
    BY <1>0, <1>2, ByBrowser DEF Busy, Fenced
  <2>2. req[adm[a].r].cmd \in Seq(Nat)
    <3>1. req[adm[a].r] \in Request BY <1>0, <2>1, ElementOfSeq
    <3> QED BY <3>1 DEF Request
  <2> QED BY <1>0, <1>2, <2>1, <2>2, Following
<1>3. ASSUME NEW a \in Admin, adm[a].pc = "line",
             sent' = sent \o Deliveries(By(a), adm[a].item)
      PROVE  Follow(By(a), adm[a].item) /\ sent' \in Seq(Delivered)
  <2>1. By(a) \in Browser BY <1>0, <1>3, ByBrowser DEF Busy, Fenced
  <2>2. adm[a].item \in Seq(Nat) BY <1>0 DEF AdminOK, Jobs
  <2> QED BY <1>0, <1>3, <2>1, <2>2, Following
<1>4. ASSUME NEW b \in Browser, Handle(b) PROVE UNCHANGED sent \/ Send(b)
  BY <1>4 DEF Handle, TypePaused, TypeFree, LineGrows, LineAllowed, GateRefuses,
              GateHolds, Notified, Leave, RemoveDead, Forget, pastVars
<1>5. ASSUME NEW a \in Admin, Resolve(a), ~UNCHANGED sent
      PROVE  \/ /\ Deliver(a) \/ CutShort(a)
                /\ adm[a].pc = "deliver"
                /\ sent' = sent \o Deliveries(By(a), req[adm[a].r].cmd)
             \/ /\ ItemSent(a) \/ ItemFails(a) \/ CutShort(a)
                /\ adm[a].pc = "line"
                /\ sent' = sent \o Deliveries(By(a), adm[a].item)
  <2>1. CASE Deliver(a) BY <1>5, <2>1 DEF Deliver, By
  <2>2. CASE ItemSent(a) \/ ItemFails(a)
    BY <1>5, <2>2 DEF ItemSent, ItemFails, By
  <2>3. CASE CutShort(a)
    <3>1. sent' = sent \o UnderWay(a) BY <1>5, <2>3 DEF CutShort
    <3>2. CASE adm[a].pc = "deliver" BY <2>3, <3>1, <3>2 DEF UnderWay, By
    <3>3. CASE adm[a].pc = "line" BY <2>3, <3>1, <3>3 DEF UnderWay, By
    <3>4. CASE adm[a].pc \notin {"deliver", "line"}
      <4>1. UnderWay(a) = <<>> BY <3>4 DEF UnderWay
      <4>2. sent' = sent \o <<>> BY <3>1, <4>1
      <4>3. sent \o <<>> = sent BY <1>0, ConcatEmptySeq
      <4> QED BY <1>5, <4>2, <4>3
    <3> QED BY <3>2, <3>3, <3>4
  <2> QED
    BY <1>5, <2>1, <2>2, <2>3
       DEF Resolve, OpBegins, ReplayTakes, ReplayEnds, ItemJoins, ItemRefused,
           ItemHeld, Announced, Unpause, Finish, pastVars
<1>6. ASSUME ~\E b \in Browser : Handle(b), ~\E a \in Admin : Resolve(a)
      PROVE  UNCHANGED sent
  BY <1>6 DEF Next, Expire, Transfer, LeaseExpires, Overdue, Claim, ClaimLate,
              SweepExpires, AdminTold, SettleExpired, pastVars, vars
<1> QED
  BY <1>1, <1>2, <1>3, <1>4, <1>5, <1>6

\* Only an unpause strands input: what is buffered when it does not discard.
LEMMA Strands ==
  ASSUME [Next]_vars, ~UNCHANGED stranded
  PROVE  \E a \in Admin :
           /\ Unpause(a) /\ ~adm[a].pending
           /\ By(a) \in paused \cap present
           /\ paused' = paused \ {By(a)} /\ UNCHANGED hold
           /\ stranded' = stranded \cup
                {<<By(a), hold[By(a)][i]>> : i \in 1..Len(hold[By(a)])}
<1>1. ASSUME NEW b \in Browser, Handle(b) PROVE FALSE
  BY <1>1 DEF Handle, TypePaused, TypeFree, LineGrows, LineAllowed, GateRefuses,
              GateHolds, Notified, Send, Leave, RemoveDead, Forget, pastVars
<1>2. ASSUME NEW a \in Admin, Resolve(a) PROVE Unpause(a)
  BY <1>2 DEF Resolve, OpBegins, Deliver, ReplayTakes, ReplayEnds, ItemJoins,
              ItemRefused, ItemSent, ItemFails, CutShort, ItemHeld, Announced,
              Finish, pastVars
<1>3. PICK a \in Admin : Unpause(a)
  BY <1>1, <1>2
     DEF Next, Expire, Transfer, LeaseExpires, Overdue, Claim, ClaimLate,
         SweepExpires, AdminTold, SettleExpired, pastVars, vars
<1> QED BY <1>3 DEF Unpause, By

\* Who is left paused by a request cut short is a browser.
LEMMA Cuts == ASSUME TypeOK, Working, [Next]_vars PROVE cut' \subseteq Browser
<1>0. StoreOK /\ PastOK /\ AdminOK /\ req \in Seq(Request)
  BY TypeParts DEF StoreOK
<1>1. CASE UNCHANGED cut BY <1>0, <1>1 DEF PastOK
<1>2. ASSUME NEW a \in Admin, CutShort(a) PROVE cut' \subseteq Browser
  <2>1. Resolve(a) BY <1>2 DEF Resolve
  <2>2. By(a) \in Browser BY <1>0, <2>1, ResolveStore, ByBrowser
  <2> QED BY <1>0, <1>2, <2>2 DEF CutShort, By, PastOK
<1>3. ASSUME NEW a \in Admin, AdminTold(a) PROVE cut' \subseteq Browser
  <2>1. told[a] \subseteq 1..Len(req) BY <1>0 DEF StoreOK, Notifier
  <2>2. \A r \in told[a] : req[r] \in Request BY <1>0, <2>1, ElementOfSeq
  <2>3. \A r \in told[a] : req[r].by \in Browser BY <2>2 DEF Request
  <2> QED BY <1>0, <1>3, <2>3 DEF AdminTold, PastOK
<1>4. ASSUME NEW b \in Browser, Handle(b) PROVE UNCHANGED cut
  BY <1>4 DEF Handle, TypePaused, TypeFree, LineGrows, LineAllowed, GateRefuses,
              GateHolds, Notified, Send, Leave, RemoveDead, Forget, pastVars
<1>5. ASSUME NEW a \in Admin, Resolve(a) PROVE UNCHANGED cut \/ CutShort(a)
  BY <1>5 DEF Resolve, OpBegins, Deliver, ReplayTakes, ReplayEnds, ItemJoins,
              ItemRefused, ItemSent, ItemFails, ItemHeld, Announced, Unpause,
              Finish, pastVars
<1> QED
  BY <1>1, <1>2, <1>3, <1>4, <1>5
     DEF Next, Expire, Transfer, LeaseExpires, Overdue, Claim, ClaimLate,
         SweepExpires, SettleExpired, pastVars, vars

LEMMA PastTypes == ASSUME TypeOK, Working, [Next]_vars PROVE PastOK'
<1>0. InputOK /\ StoreOK /\ PastOK /\ cut' \subseteq Browser BY TypeParts, Cuts
<1>1. sent' \in Seq(Delivered) BY <1>0, Sends DEF PastOK, Delivered
<1>2. CASE UNCHANGED stranded BY <1>0, <1>1, <1>2 DEF PastOK, Delivered
<1>3. CASE ~UNCHANGED stranded
  <2>1. PICK a \in Admin :
          /\ Unpause(a)
          /\ stranded' = stranded \cup
               {<<By(a), hold[By(a)][i]>> : i \in 1..Len(hold[By(a)])}
    BY <1>3, Strands
  <2>2. By(a) \in Browser BY <1>0, <2>1, ByBrowser DEF Unpause, Busy, Fenced
  <2>3. hold[By(a)] \in Seq(Nat) BY <1>0, <2>2 DEF InputOK
  <2>4. \A i \in 1..Len(hold[By(a)]) : hold[By(a)][i] \in Nat
    BY <2>3, ElementOfSeq
  <2> QED BY <1>0, <1>1, <2>1, <2>2, <2>4 DEF PastOK, Delivered
<1> QED BY <1>2, <1>3

LEMMA TypeStep == ASSUME TypeOK, Working, [Next]_vars PROVE TypeOK'
<1>1. StoreOK' /\ PastOK' BY StoreTypes, PastTypes
<1>2. OwnerOK' /\ InputOK' /\ AdminOK'
  <2>1. CASE UNCHANGED vars
    BY <2>1, TypeParts
       DEF vars, ownerVars, inputVars, typeVars, OwnerOK, InputOK, AdminOK
  <2> QED BY <2>1, HandlerTypes, ResolveTypes, OtherTypes
<1> QED
  BY <1>1, <1>2
     DEF TypeOK, OwnerOK, InputOK, StoreOK, AdminOK, PastOK, Hands

-----------------------------------------------------------------------------
(* Claims, the fence and expiries. *)

\* Requests of others than a are left as they are.
LEMMA WorkingKept ==
  ASSUME TypeOK, Working, Kept,
         \A c \in Admin : adm'[c].pc \in Busy =>
           /\ adm'[c] = adm[c]
           /\ req'[adm[c].r].status = req[adm[c].r].status
  PROVE  Working'
<1>1. Len(req) \in Nat /\ Len(req') \in Nat /\ Len(req) <= Len(req')
  BY TypeParts, LenProperties DEF StoreOK, Kept
<1>2. 1..Len(req) \subseteq 1..Len(req') BY <1>1
<1>3. ASSUME NEW c \in Admin, adm'[c].pc \in Busy
      PROVE  /\ adm'[c] = adm[c] /\ adm[c].pc \in Busy
             /\ adm[c].r \in 1..Len(req')
             /\ req'[adm[c].r].status = IF adm[c].deny THEN "rejected"
                                        ELSE "resolving"
  <2>1. /\ adm'[c] = adm[c] /\ adm[c].pc \in Busy
        /\ req'[adm[c].r].status = req[adm[c].r].status
    BY <1>3
  <2>2. /\ adm[c].r \in 1..Len(req)
        /\ req[adm[c].r].status = IF adm[c].deny THEN "rejected"
             ELSE "resolving"
    BY <2>1 DEF Working
  <2> QED BY <1>2, <2>1, <2>2
<1>4. \A a, c \in Admin :
        adm'[a].pc \in Busy /\ adm'[c].pc \in Busy /\ adm'[a].r = adm'[c].r
          => a = c
  BY <1>3, Zenon DEF Working
<1>5. ASSUME NEW c \in Admin, adm'[c].pc \in Busy
      PROVE  /\ adm'[c].r \in 1..Len(req')
             /\ req'[adm'[c].r].status = IF adm'[c].deny THEN "rejected"
                                         ELSE "resolving"
             /\ Consistent(adm'[c])
  <2>1. Consistent(adm[c]) BY <1>3, <1>5 DEF Working
  <2> QED BY <1>3, <1>5, <2>1
<1> QED BY <1>4, <1>5, Zenon DEF Working

\* The decision of a goes on, and the others are left as they are.
LEMMA WorkingGoes ==
  ASSUME TypeOK, Working, Kept, NEW a \in Admin, adm[a].pc \in Busy,
         NEW pc \in Busy, Goes(a, pc),
         \A r \in 1..Len(req) : req'[r].status = req[r].status,
         adm[a].deny => pc \in {"settle", "finish"},
         adm'[a].pending => /\ pc \in {"settle", "finish"}
                            /\ adm'[a].ok /\ ~adm[a].deny,
         pc \in {"replay", "item", "line", "announce"} => adm'[a].ok,
         pc \in {"fence", "deliver"} => ~adm'[a].ok
  PROVE  Working'
<1>1. Len(req) \in Nat /\ Len(req') \in Nat /\ Len(req) <= Len(req')
  BY TypeParts, LenProperties DEF StoreOK, Kept
<1>2. 1..Len(req) \subseteq 1..Len(req') BY <1>1
<1>3. /\ adm'[a].pc = pc /\ adm'[a].r = adm[a].r
      /\ adm'[a].deny = adm[a].deny
      /\ \A c \in Admin \ {a} : adm'[c] = adm[c]
  BY DEF Goes, Alone
<1>4. \A c \in Admin : adm'[c].r = adm[c].r BY <1>3
<1>5. \A c \in Admin : adm'[c].pc \in Busy => adm[c].pc \in Busy BY <1>3
<1>6. ASSUME NEW c \in Admin, adm'[c].pc \in Busy
      PROVE  /\ adm'[c].r \in 1..Len(req')
             /\ req'[adm'[c].r].status = IF adm'[c].deny THEN "rejected"
                                         ELSE "resolving"
             /\ Consistent(adm'[c])
  <2>1. /\ adm[c].r \in 1..Len(req)
        /\ req[adm[c].r].status = IF adm[c].deny THEN "rejected"
             ELSE "resolving"
    BY <1>5, <1>6 DEF Working
  <2>2. CASE c # a
    <3>1. adm'[c] = adm[c] /\ Consistent(adm[c])
      BY <1>3, <1>6, <2>2 DEF Working
    <3> QED BY <1>2, <2>1, <3>1
  <2>3. CASE c = a
    <3>1. Consistent(adm'[a]) BY <1>3 DEF Consistent
    <3> QED BY <1>2, <1>3, <2>1, <2>3, <3>1
  <2> QED BY <2>2, <2>3
<1>7. \A c, d \in Admin :
        adm'[c].pc \in Busy /\ adm'[d].pc \in Busy /\ adm'[c].r = adm'[d].r
          => c = d
  BY <1>4, <1>5, Zenon DEF Working
<1> QED BY <1>6, <1>7, Zenon DEF Working

LEMMA WorkingStep == ASSUME TypeOK, Working, [Next]_vars PROVE Working'
<1>0. /\ StoreOK /\ InputOK /\ AdminOK /\ req \in Seq(Request) /\ Kept
      /\ Len(req) \in Nat
  BY TypeParts, StepKept, LenProperties DEF StoreOK
<1>1. \A c \in Admin : adm[c].pc \in Busy =>
        adm[c].r \in 1..Len(req) /\ req[adm[c].r].status # "pending"
  BY DEF Working
<1>2. ASSUME UNCHANGED adm,
             \A r \in 1..Len(req) : req[r].status # "pending" =>
               req'[r].status = req[r].status
      PROVE  Working'
  BY <1>0, <1>1, <1>2, WorkingKept
<1>3. ASSUME NEW a \in Admin, Alone(a), adm'[a].pc \notin Busy,
             \A r \in 1..Len(req) : req[r].status # "pending" =>
               req'[r].status = req[r].status
      PROVE  Working'
  <2>1. \A c \in Admin : adm'[c].pc \in Busy => adm'[c] = adm[c]
    BY <1>3 DEF Alone
  <2> QED BY <1>0, <1>1, <1>3, <2>1, WorkingKept
<1>4. ASSUME NEW b \in Browser, Handle(b) PROVE Working'
  BY <1>2, <1>4, HandlerStore
<1>5. CASE UNCHANGED <<req, adm>> BY <1>2, <1>5
<1>6. ASSUME NEW r \in 1..Len(req), Overdue(r) PROVE Working'
  BY <1>0, <1>2, <1>6, OverdueKept DEF Overdue
<1>7. CASE SweepExpires
  BY <1>0, <1>2, <1>7, SweepKept DEF SweepExpires, LatePending
<1>8. ASSUME NEW r \in 1..Len(req), NEW a \in Admin, ClaimLate(a, r)
      PROVE  Working'
  <2>1. Alone(a) /\ adm'[a].pc = "telling"
    BY <1>0, <1>8, Claims DEF Steps, Goes
  <2>2. UNCHANGED req \/ (/\ req[r].status = "pending"
                          /\ req' = [req EXCEPT ![r].status = "timeout"])
    <3>1. CASE req[r].status = "pending" BY <1>8, <3>1 DEF ClaimLate
    <3>2. CASE req[r].status # "pending"
      BY <1>0, <1>8, <3>2, Unmarked DEF ClaimLate
    <3> QED BY <3>1, <3>2
  <2>3. \A q \in 1..Len(req) : req[q].status # "pending" =>
          req'[q].status = req[q].status
    BY <1>0, <2>2, Marked DEF Status
  <2> QED BY <1>3, <2>1, <2>3 DEF Busy, Fenced
<1>9. ASSUME NEW a \in Admin, AdminTold(a) PROVE Working'
  <2>1. Alone(a) /\ adm'[a].pc = "idle" BY <1>0, <1>9, Claims DEF Ends
  <2>2. UNCHANGED req BY <1>9 DEF AdminTold
  <2> QED BY <1>3, <2>1, <2>2 DEF Busy, Fenced
<1>10. ASSUME NEW r \in 1..Len(req), NEW a \in Admin, Claim(a, r)
       PROVE  Working'
  <2>1. /\ Alone(a) /\ adm'[a].r = r
        /\ ~adm'[a].ok /\ ~adm'[a].pending
        /\ \/ /\ adm'[a].pc = "fence" /\ ~adm'[a].deny
              /\ req' = [req EXCEPT ![r].status = "resolving"]
           \/ /\ adm'[a].pc = "settle" /\ adm'[a].deny
              /\ req' = [req EXCEPT ![r].status = "rejected"]
    BY <1>0, <1>10, Claims
  <2>2. /\ Len(req') = Len(req)
        /\ \A q \in 1..Len(req) : q # r => req'[q] = req[q]
        /\ req'[r].status = IF adm'[a].deny THEN "rejected" ELSE "resolving"
    BY <1>0, <2>1, Marked DEF Status
  <2>3. req[r].status = "pending" BY <1>10 DEF Claim
  <2>4. \A c \in Admin \ {a} :
          adm'[c] = adm[c] /\ (adm[c].pc \in Busy => adm[c].r # r)
    BY <1>1, <2>1, <2>3 DEF Alone
  <2>5. ASSUME NEW c \in Admin \ {a}, adm[c].pc \in Busy
        PROVE  adm[c].r \in 1..Len(req') /\ req'[adm[c].r] = req[adm[c].r]
    <3>1. adm[c].r \in 1..Len(req) /\ adm[c].r # r BY <1>1, <2>4, <2>5
    <3> QED BY <2>2, <3>1
  <2>6. ASSUME NEW c \in Admin, adm'[c].pc \in Busy
        PROVE  /\ adm'[c].r \in 1..Len(req')
               /\ req'[adm'[c].r].status = IF adm'[c].deny THEN "rejected"
                                           ELSE "resolving"
               /\ Consistent(adm'[c])
    <3>1. CASE c # a
      <4>1. adm'[c] = adm[c] BY <2>4, <3>1
      <4>2. req'[adm[c].r] = req[adm[c].r] /\ adm[c].r \in 1..Len(req')
        BY <2>5, <2>6, <3>1, <4>1
      <4>3. /\ Consistent(adm[c])
            /\ req[adm[c].r].status = IF adm[c].deny THEN "rejected"
                                      ELSE "resolving"
        BY <2>6, <4>1 DEF Working
      <4> QED BY <4>1, <4>2, <4>3
    <3>2. CASE c = a
      <4>1. Consistent(adm'[a]) BY <2>1 DEF Consistent
      <4> QED BY <2>1, <2>2, <3>2, <4>1
    <3> QED BY <3>1, <3>2
  <2>7. \A c, d \in Admin :
          adm'[c].pc \in Busy /\ adm'[d].pc \in Busy /\ adm'[c].r = adm'[d].r
          => c = d
    <3>1. \A c, d \in Admin \ {a} :
            adm'[c].pc \in Busy /\ adm'[d].pc \in Busy /\ adm'[c].r = adm'[d].r
            => c = d
      <4>1. \A c \in Admin \ {a} : adm'[c] = adm[c] BY <2>4
      <4> QED BY <4>1, Zenon DEF Working
    <3>2. \A c \in Admin \ {a} : adm'[c].pc \in Busy => adm'[c].r # adm'[a].r
      BY <2>1, <2>4
    <3> QED BY <3>1, <3>2
  <2> QED BY <2>6, <2>7, Zenon DEF Working
<1>11. ASSUME NEW a \in Admin, Resolve(a) PROVE Working'
  <2>0. /\ adm[a].r \in 1..Len(req) /\ adm[a].pc \in Busy
        /\ \A r \in 1..Len(req) : r # adm[a].r => req'[r] = req[r]
        /\ req'[adm[a].r].status # req[adm[a].r].status => Ends(a)
        /\ adm[a].deny \/ adm[a].pending => adm[a].pc \in {"settle", "finish"}
        /\ adm[a].pending => adm[a].ok /\ ~adm[a].deny
        /\ adm[a].pc \in {"replay", "item", "line", "announce"} => adm[a].ok
        /\ adm[a].pc \in {"fence", "deliver"} => ~adm[a].ok
    BY <1>11, ResolveStore DEF Working, Consistent
  <2>1. CASE Ends(a)
    <3>1. \A c \in Admin : adm'[c].pc \in Busy =>
            /\ adm'[c] = adm[c] /\ adm[c].pc \in Busy /\ c # a
      BY <2>1 DEF Ends, Alone, Busy, Fenced
    <3>2. \A c \in Admin \ {a} : adm[c].pc \in Busy =>
            adm[c].r \in 1..Len(req) /\ adm[c].r # adm[a].r
      BY <1>1, <2>0 DEF Working
    <3> QED BY <1>0, <2>0, <3>1, <3>2, WorkingKept
  <2>2. CASE ~Ends(a)
    <3>0. \A r \in 1..Len(req) : req'[r].status = req[r].status
      BY <2>0, <2>2
    <3> DEFINE Good(pc) ==
          /\ Goes(a, pc)
          /\ adm[a].deny => pc \in {"settle", "finish"}
          /\ adm'[a].pending => /\ pc \in {"settle", "finish"}
                                /\ adm'[a].ok /\ ~adm[a].deny
          /\ pc \in {"replay", "item", "line", "announce"} => adm'[a].ok
          /\ pc \in {"fence", "deliver"} => ~adm'[a].ok
    <3>1. OpBegins(a) => Good("deliver") \/ Good("settle")
      BY <1>0, <2>0, Decisions DEF OpBegins, Steps
    <3>2. Deliver(a) => Good("replay") \/ Good("settle")
      BY <1>0, <2>0, Decisions DEF Deliver, Steps
    <3>3. ReplayTakes(a) => Good("item")
      BY <1>0, <2>0, Decisions DEF ReplayTakes, Steps
    <3>4. ReplayEnds(a) => Good("settle")
      BY <1>0, <2>0, Decisions DEF ReplayEnds, Steps
    <3>5. ItemJoins(a) => Good("line") \/ Good("replay")
      BY <1>0, <2>0, Decisions DEF ItemJoins, Steps
    <3>6. ItemRefused(a) \/ ItemSent(a) => Good("replay")
      BY <1>0, <2>0, Decisions DEF ItemRefused, ItemSent, Steps
    <3>7. ItemFails(a) => Good("settle")
      BY <1>0, <2>0, Decisions DEF ItemFails, Steps
    <3>8. ItemHeld(a) => Good("announce")
      BY <1>0, <2>0, Decisions DEF ItemHeld, Steps
    <3>9. Announced(a) => Good("settle")
      BY <1>0, <2>0, Decisions DEF Announced
    <3>10. Unpause(a) => Good("finish")
      BY <1>0, <2>0, Decisions DEF Unpause, Steps
    <3>12. ~CutShort(a) /\ ~Finish(a) BY <1>0, <2>2, Decisions
    <3>11. \E pc \in Busy : Good(pc)
      BY <1>11, <3>1, <3>2, <3>3, <3>4, <3>5, <3>6, <3>7, <3>8, <3>9, <3>10,
         <3>12
         DEF Resolve, Busy, Fenced
    <3> QED BY <1>0, <2>0, <3>0, <3>11, WorkingGoes
  <2> QED BY <2>1, <2>2
<1> QED
  BY <1>4, <1>5, <1>6, <1>7, <1>8, <1>9, <1>10, <1>11
     DEF Next, Expire, Transfer, LeaseExpires, SettleExpired, vars

\* A step that neither takes nor leaves the fence.
LEMMA FencingKept ==
  ASSUME TypeOK, Working, Fencing, Kept, UNCHANGED <<fence, gen>>,
         \A c \in Admin :
           /\ adm'[c].pc \in Fenced <=> adm[c].pc \in Fenced
           /\ adm'[c].pc \in Fenced => adm'[c].r = adm[c].r
           /\ adm'[c].pc \in Fenced \ {"announce"} =>
                adm[c].pc \in Fenced \ {"announce"}
  PROVE  Fencing'
<1>1. ASSUME NEW c \in Admin, adm[c].pc \in Fenced
      PROVE  req'[adm[c].r].gen = req[adm[c].r].gen
  <2>1. adm[c].r \in 1..Len(req) BY <1>1 DEF Working, Busy
  <2> QED BY <2>1 DEF Kept
<1>2. \A c \in Admin : fence' = c <=> adm'[c].pc \in Fenced BY DEF Fencing
<1>3. \A c \in Admin : adm'[c].pc \in Fenced \ {"announce"} =>
        gen' = req'[adm'[c].r].gen
  BY <1>1 DEF Fencing
<1> QED BY <1>2, <1>3 DEF Fencing

LEMMA FencingStep ==
  ASSUME TypeOK, Working, Fencing, [Next]_vars
  PROVE  Fencing'
<1>0. /\ StoreOK /\ InputOK /\ AdminOK /\ Kept /\ NULL \notin Admin
  BY TypeParts, StepKept, ApprovalAssumption
<1>1. CASE UNCHANGED <<fence, gen, adm>> BY <1>0, <1>1, FencingKept
<1>2. CASE Transfer
  <2>1. \A c \in Admin : adm[c].pc \notin Fenced
    BY <1>0, <1>2 DEF Transfer, Fencing
  <2> QED BY <1>0, <1>2, <2>1 DEF Transfer, Fencing
<1>3. ASSUME NEW a \in Admin, Alone(a), UNCHANGED <<fence, gen>>,
             adm[a].pc \notin Fenced, adm'[a].pc \notin Fenced
      PROVE  Fencing'
  <2>1. \A c \in Admin : c # a => adm'[c] = adm[c] BY <1>3 DEF Alone
  <2> QED BY <1>0, <1>3, <2>1, FencingKept
<1>4. ASSUME NEW r \in 1..Len(req), NEW a \in Admin, Claim(a, r)
      PROVE  Fencing'
  <2>1. Alone(a) /\ adm'[a].pc \in {"fence", "settle"} BY <1>0, <1>4, Claims
  <2> QED BY <1>3, <1>4, <2>1 DEF Claim, ownerVars, Fenced
<1>5. ASSUME NEW r \in 1..Len(req), NEW a \in Admin, ClaimLate(a, r)
      PROVE  Fencing'
  <2>1. Alone(a) /\ adm'[a].pc = "telling"
    BY <1>0, <1>5, Claims DEF Steps, Goes
  <2> QED BY <1>3, <1>5, <2>1 DEF ClaimLate, ownerVars, Fenced
<1>6. ASSUME NEW a \in Admin, AdminTold(a) PROVE Fencing'
  <2>1. Alone(a) /\ adm'[a].pc = "idle" BY <1>0, <1>6, Claims DEF Ends
  <2> QED BY <1>3, <1>6, <2>1 DEF AdminTold, ownerVars, Fenced
<1>7. ASSUME NEW a \in Admin, Resolve(a) PROVE Fencing'
  <2>0. UNCHANGED gen
    BY <1>7 DEF Resolve, OpBegins, Deliver, ReplayTakes, ReplayEnds, ItemJoins,
                ItemRefused, ItemSent, ItemFails, CutShort, ItemHeld, Announced,
                Unpause, Finish, ownerVars
  <2>1. ASSUME Alone(a), adm[a].pc \in Fenced, adm'[a].pc \notin Fenced,
               fence' = NULL
        PROVE  Fencing'
    <3>1. \A c \in Admin : c # a => adm'[c] = adm[c] BY <2>1 DEF Alone
    <3>2. \A c \in Admin : c # a => adm[c].pc \notin Fenced
      BY <2>1 DEF Fencing
    <3>3. \A c \in Admin : adm'[c].pc \notin Fenced BY <2>1, <3>1, <3>2
    <3> QED BY <1>0, <2>1, <3>3 DEF Fencing
  <2>2. ASSUME NEW pc \in Fenced, Goes(a, pc), UNCHANGED fence,
               adm[a].pc \in Fenced \ {"announce"}
        PROVE  Fencing'
    <3>1. \A c \in Admin : c # a => adm'[c] = adm[c] BY <2>2 DEF Goes, Alone
    <3> QED BY <1>0, <2>0, <2>2, <3>1, FencingKept DEF Goes
  <2>3. CASE OpBegins(a)
    <3>1. CASE Steps(a, "settle") /\ UNCHANGED fence
      BY <1>3, <2>0, <2>3, <3>1 DEF OpBegins, Steps, Goes, Fenced
    <3>2. CASE /\ Steps(a, "deliver") /\ fence' = a
               /\ gen = req[adm[a].r].gen
      <4>1. fence = NULL BY <2>3 DEF OpBegins
      <4>2. \A c \in Admin : adm[c].pc \notin Fenced
        BY <1>0, <4>1 DEF Fencing
      <4>3. /\ \A c \in Admin : c # a => adm'[c] = adm[c]
            /\ adm'[a].pc = "deliver" /\ adm'[a].r = adm[a].r
        BY <3>2 DEF Steps, Goes, Alone
      <4>4. req'[adm[a].r].gen = req[adm[a].r].gen
        BY <1>0, <2>3 DEF OpBegins, Working, Busy, Fenced, Kept
      <4> QED BY <2>0, <3>2, <4>2, <4>3, <4>4 DEF Fencing, Fenced
    <3> QED BY <1>0, <2>3, <3>1, <3>2, Decisions
  <2>4. CASE Deliver(a)
    BY <1>0, <2>1, <2>2, <2>4, Decisions DEF Deliver, Steps, Goes, Fenced
  <2>5. CASE \/ ReplayTakes(a) \/ ItemJoins(a) \/ ItemRefused(a) \/ ItemSent(a)
             \/ ItemHeld(a)
    BY <1>0, <2>2, <2>5, Decisions
       DEF ReplayTakes, ItemJoins, ItemRefused, ItemSent, ItemHeld, Steps,
           Fenced
  <2>6. CASE ReplayEnds(a) \/ ItemFails(a) \/ Announced(a)
    BY <1>0, <2>1, <2>6, Decisions
       DEF ReplayEnds, ItemFails, Announced, Steps, Goes, Fenced
  <2>7. CASE Unpause(a) \/ Finish(a)
    BY <1>0, <1>3, <2>0, <2>7, Decisions
       DEF Unpause, Finish, Steps, Goes, Ends, Fenced
  <2>8. CASE CutShort(a)
    <3>1. /\ Alone(a) /\ adm'[a].pc \notin Fenced
          /\ fence' = IF fence = a THEN NULL ELSE fence
      BY <1>0, <2>8, Decisions DEF Ends, Fenced
    <3>2. fence = a <=> adm[a].pc \in Fenced BY DEF Fencing
    <3> QED BY <1>3, <2>0, <2>1, <3>1, <3>2
  <2> QED BY <1>7, <2>3, <2>4, <2>5, <2>6, <2>7, <2>8 DEF Resolve
<1> QED
  BY <1>1, <1>2, <1>4, <1>5, <1>6, <1>7, HandlerStore
     DEF Next, Expire, LeaseExpires, Overdue, SweepExpires, SettleExpired,
         ownerVars, vars

\* Requests that are not pending stay as they were, unless a decision on them
\* ends.
LEMMA TimeoutKept ==
  ASSUME TypeOK, Working, [Next]_vars, NEW r \in 1..Len(req),
         req[r].status = "timeout"
  PROVE  req'[r].status = "timeout"
<1>0. /\ StoreOK /\ AdminOK /\ req \in Seq(Request) BY TypeParts DEF StoreOK
<1>1. ASSUME NEW a \in Admin, NEW q \in 1..Len(req), Claim(a, q)
      PROVE  req'[r].status = "timeout"
  <2>1. req[q].status = "pending" /\ q # r BY <1>1 DEF Claim
  <2>2. \E s \in Status : req' = [req EXCEPT ![q].status = s]
    BY <1>1 DEF Claim, Status
  <2> QED BY <1>0, <2>1, <2>2, Marked
<1>2. ASSUME NEW a \in Admin, NEW q \in 1..Len(req), ClaimLate(a, q)
      PROVE  req'[r].status = "timeout"
  <2>1. UNCHANGED req \/ (/\ req[q].status = "pending"
                          /\ req' = [req EXCEPT ![q].status = "timeout"])
    <3>1. CASE req[q].status = "pending" BY <1>2, <3>1 DEF ClaimLate
    <3>2. CASE req[q].status # "pending"
      BY <1>0, <1>2, <3>2, Unmarked DEF ClaimLate
    <3> QED BY <3>1, <3>2
  <2> QED BY <1>0, <2>1, Marked DEF Status
<1>3. ASSUME NEW a \in Admin, Resolve(a) PROVE req'[r].status = "timeout"
  <2>1. adm[a].r # r BY <1>3, ResolveStore DEF Working
  <2> QED BY <1>3, <2>1, ResolveStore
<1>4. CASE SweepExpires BY <1>0, <1>4, SweepKept
<1> QED
  BY <1>0, <1>1, <1>2, <1>3, <1>4, HandlerStore, OverdueKept
     DEF Next, Expire, Transfer, LeaseExpires, AdminTold, SettleExpired, vars

LEMMA ExpiringStep ==
  ASSUME TypeOK, Working, Expiring, [Next]_vars
  PROVE  Expiring'
<1>0. /\ StoreOK /\ AdminOK /\ req \in Seq(Request) /\ Len(req) \in Nat
      /\ told \in [Notifier -> SUBSET (1..Len(req))]
      /\ Sweep \notin Admin
  BY TypeParts, ApprovalAssumption, LenProperties DEF StoreOK
<1>1. \A q \in 1..Len(req) : req[q].status = "timeout"
        => req'[q].status = "timeout"
  BY TimeoutKept
<1>2. ASSUME \A t \in Notifier : told'[t] \subseteq told[t],
             \A c \in Admin : told'[c] # {} => adm'[c].pc = adm[c].pc
      PROVE  Expiring'
  <2>1. \A c \in Admin : told'[c] # {} => adm'[c].pc = "telling"
    BY <1>2 DEF Expiring, Notifier
  <2> QED BY <1>0, <1>1, <1>2, <2>1 DEF Expiring
<1>3. ASSUME NEW a \in Admin, Alone(a), adm[a].pc # "telling", UNCHANGED told
      PROVE  Expiring'
  <2>1. told[a] = {} BY <1>3 DEF Expiring
  <2>2. \A c \in Admin : c # a => adm'[c] = adm[c] BY <1>3 DEF Alone
  <2> QED BY <1>2, <1>3, <2>1, <2>2
\* A notifier that had none takes expiries that nobody has.
<1>4. ASSUME NEW t \in Notifier, NEW R, told' = [told EXCEPT ![t] = R],
             told[t] = {},
             \A q \in R : q \in 1..Len(req) /\ req[q].status = "pending"
                          /\ req'[q].status = "timeout",
             \A c \in Admin : told'[c] # {} => adm'[c].pc = "telling"
      PROVE  Expiring'
  <2>1. told'[t] = R /\ \A u \in Notifier : u # t => told'[u] = told[u]
    BY <1>0, <1>4
  <2>2. \A u \in Notifier : \A q \in R : q \notin told[u]
    BY <1>4 DEF Expiring
  <2>3. \A u \in Notifier : \A q \in told'[u] : req'[q].status = "timeout"
    BY <1>0, <1>1, <1>4, <2>1 DEF Expiring
  <2>4. \A u, v \in Notifier : u # v => told'[u] \cap told'[v] = {}
    BY <2>1, <2>2 DEF Expiring
  <2> QED BY <1>4, <2>3, <2>4 DEF Expiring
<1>5. ASSUME NEW a \in Admin, NEW r \in 1..Len(req), Claim(a, r) PROVE Expiring'
  <2>1. Alone(a) BY <1>0, <1>5, Claims
  <2>2. adm[a].pc = "idle" /\ UNCHANGED told BY <1>5 DEF Claim
  <2> QED BY <1>3, <2>1, <2>2
<1>6. ASSUME NEW a \in Admin, NEW r \in 1..Len(req), ClaimLate(a, r)
      PROVE  Expiring'
  <2>1. Alone(a) /\ adm[a].pc = "idle" /\ adm'[a].pc = "telling"
    BY <1>0, <1>6, Claims DEF ClaimLate, Steps, Goes
  <2>2. CASE UNCHANGED told BY <1>3, <2>1, <2>2
  <2>3. CASE /\ req[r].status = "pending" /\ told' = [told EXCEPT ![a] = {r}]
             /\ req' = [req EXCEPT ![r].status = "timeout"]
    <3>1. req'[r].status = "timeout" BY <1>0, <2>3, Marked DEF Status
    <3>2. a \in Notifier /\ told[a] = {} BY <2>1 DEF Notifier, Expiring
    <3>3. \A c \in Admin \ {a} : told'[c] = told[c] /\ adm'[c] = adm[c]
      BY <1>0, <2>1, <2>3 DEF Alone, Notifier
    <3>4. \A c \in Admin : told'[c] # {} => adm'[c].pc = "telling"
      BY <2>1, <3>3 DEF Expiring
    <3>5. \A q \in {r} : q \in 1..Len(req) /\ req[q].status = "pending"
                         /\ req'[q].status = "timeout"
      BY <2>3, <3>1
    <3> QED BY <1>4, <2>3, <3>2, <3>4, <3>5
  <2> QED BY <1>6, <2>2, <2>3 DEF ClaimLate
<1>7. CASE SweepExpires
  <2>1. /\ told' = [told EXCEPT ![Sweep] = LatePending]
        /\ told[Sweep] = {} /\ UNCHANGED adm
    BY <1>7 DEF SweepExpires
  <2>2. \A r \in LatePending : r \in 1..Len(req) /\ req'[r].status = "timeout"
                                /\ req[r].status = "pending"
    BY <1>0, <1>7, SweepKept DEF LatePending
  <2>3. \A c \in Admin : told'[c] # {} => adm'[c].pc = "telling"
    BY <1>0, <2>1 DEF Expiring, Notifier
  <2>4. Sweep \in Notifier BY DEF Notifier
  <2> QED BY <1>4, <2>1, <2>2, <2>3, <2>4
<1>8. ASSUME NEW a \in Admin, AdminTold(a) PROVE Expiring'
  <2>1. Alone(a) /\ told' = [told EXCEPT ![a] = {}]
    BY <1>0, <1>8, Claims DEF AdminTold, Ends
  <2>2. \A t \in Notifier : told'[t] \subseteq told[t] BY <1>0, <2>1
  <2>3. told'[a] = {} BY <1>0, <2>1 DEF Notifier
  <2>4. \A c \in Admin : told'[c] # {} => adm'[c].pc = adm[c].pc
    BY <2>1, <2>3 DEF Alone
  <2> QED BY <1>2, <2>2, <2>4
<1>9. ASSUME NEW t \in Notifier, SettleExpired(t) PROVE Expiring'
  <2>1. PICK r \in told[t] : told' = [told EXCEPT ![t] = @ \ {r}]
          /\ UNCHANGED adm
    BY <1>9 DEF SettleExpired
  <2>2. \A u \in Notifier : told'[u] \subseteq told[u] BY <1>0, <2>1
  <2> QED BY <1>2, <2>1, <2>2
<1>10. ASSUME NEW a \in Admin, Resolve(a) PROVE Expiring'
  <2>1. adm[a].pc # "telling" /\ UNCHANGED told
    BY <1>10, ResolveStore DEF Busy, Fenced
  <2>2. Alone(a)
    BY <1>0, <1>10, TypeParts, Decisions DEF Resolve, Steps, Goes, Ends
  <2> QED BY <1>3, <2>1, <2>2
<1>11. CASE UNCHANGED <<told, adm>> BY <1>2, <1>11
<1> QED
  BY <1>5, <1>6, <1>7, <1>8, <1>9, <1>10, <1>11, HandlerStore
     DEF Next, Expire, Transfer, LeaseExpires, Overdue, vars

Base == TypeOK /\ Working /\ Fencing /\ Expiring

LEMMA BaseAlways == Spec => []Base
<1>1. Init => Base
  <2> SUFFICES ASSUME Init PROVE Base OBVIOUS
  <2>0. <<>> \in Seq(Nat) /\ <<>> \in Seq(Request) /\ <<>> \in Seq(Delivered)
        /\ Len(<<>>) = 0
    BY EmptySeq
  <2>1. NoJob \in Jobs /\ NoJob.pc = "idle" BY <2>0 DEF NoJob, Jobs
  <2>2. AdminOK BY <2>1 DEF Init, AdminOK
  <2>3. OwnerOK BY DEF Init, OwnerOK
  <2>4. InputOK BY <2>0 DEF Init, InputOK, Idle, Hands
  <2>5. StoreOK BY <2>0 DEF Init, StoreOK
  <2>6. PastOK BY <2>0 DEF Init, PastOK, Delivered
  <2>7. Working BY <2>1 DEF Init, Working, Busy, Fenced
  <2>8. Fencing BY <2>1, ApprovalAssumption DEF Init, Fencing, Fenced
  <2>9. Expiring BY DEF Init, Expiring, Notifier
  <2> QED
    BY <2>2, <2>3, <2>4, <2>5, <2>6, <2>7, <2>8, <2>9, TypeParts DEF Base
<1>2. Base /\ [Next]_vars => Base'
  BY TypeStep, WorkingStep, FencingStep, ExpiringStep DEF Base
<1> QED BY <1>1, <1>2, PTL DEF Spec

\* The state keeps its types: every request names a browser, every expiry a
\* request of the store, and every browser has a buffer.
THEOREM ApprovalTypes == Spec => []TypeOK
<1>1. Base => TypeOK BY DEF Base
<1> QED BY <1>1, BaseAlways, PTL

-----------------------------------------------------------------------------
(* The pause of a browser is owed to one request at most. *)

InHand(b) == work[b].pc \in {"gate", "line", "send"}

\* A request keeps its browser paused while it is pending, while a decision on
\* it has yet to settle the browser, and while its expiry is yet to be told.
Paying == {"fence", "deliver", "replay", "item", "line", "settle"}
Resolving(a, r) == adm[a].pc \in Paying /\ ~adm[a].pending /\ adm[a].r = r
Telling(r) == \E t \in Notifier : r \in told[t]
Owed ==
  {r \in 1..Len(req) : \/ req[r].status = "pending"
                       \/ \E a \in Admin : Resolving(a, r)
                       \/ Telling(r)}

Pauses ==
  /\ \A b \in Browser : InHand(b) => b \notin paused
  /\ \A r \in Owed : /\ ~InHand(req[r].by)
                     /\ req[r].by \in present => req[r].by \in paused
  /\ \A r, s \in Owed : req[r].by = req[s].by => r = s

\* The expiry of r is settled.
Settles(t, r) ==
  /\ r \in told[t] /\ told' = [told EXCEPT ![t] = @ \ {r}]
  /\ paused' = paused \ {req[r].by}
  /\ hold' = [hold EXCEPT ![req[r].by] = <<>>]
  /\ UNCHANGED <<ownerVars, fence, present, line, typeVars, work, req, adm,
                 pastVars>>

LEMMA SettlesOne ==
  ASSUME NEW t \in Notifier, SettleExpired(t)
  PROVE  \E r \in told[t] : Settles(t, r)
BY DEF SettleExpired, Settles

\* No request becomes pending again.
LEMMA PendingBefore ==
  ASSUME TypeOK, Working, [Next]_vars, NEW r \in 1..Len(req),
         req'[r].status = "pending"
  PROVE  req[r].status = "pending"
<1>0. /\ StoreOK /\ AdminOK /\ req \in Seq(Request) BY TypeParts DEF StoreOK
<1>1. ASSUME NEW q \in 1..Len(req),
             NEW s \in {"resolving", "rejected", "timeout"},
             req' = [req EXCEPT ![q].status = s]
      PROVE  req[r].status = "pending"
  <2>1. s \in Status BY DEF Status
  <2> QED BY <1>0, <1>1, <2>1, Marked
<1>2. ASSUME NEW a \in Admin, NEW q \in 1..Len(req), Claim(a, q)
      PROVE  req[r].status = "pending"
  BY <1>1, <1>2 DEF Claim
<1>3. ASSUME NEW a \in Admin, NEW q \in 1..Len(req), ClaimLate(a, q)
      PROVE  req[r].status = "pending"
  <2>1. CASE req[q].status = "pending" BY <1>1, <1>3, <2>1 DEF ClaimLate
  <2>2. CASE req[q].status # "pending"
    BY <1>0, <1>3, <2>2, Unmarked DEF ClaimLate
  <2> QED BY <2>1, <2>2
<1>4. ASSUME NEW a \in Admin, Resolve(a) PROVE req[r].status = "pending"
  BY <1>4, ResolveStore
<1>5. CASE SweepExpires BY <1>0, <1>5, SweepKept
<1> QED
  BY <1>0, <1>2, <1>3, <1>4, <1>5, HandlerStore, OverdueKept
     DEF Next, Expire, Transfer, LeaseExpires, AdminTold, SettleExpired, vars

\* A decision that has yet to settle its browser had it to settle before, or
\* starts now.
LEMMA ResolvingBefore ==
  ASSUME Base, [Next]_vars, NEW a \in Admin, NEW r, Resolving(a, r)'
  PROVE  Resolving(a, r) \/ (r \in 1..Len(req) /\ req[r].status = "pending")
<1>0. TypeOK /\ Working /\ AdminOK /\ InputOK /\ StoreOK
  BY TypeParts DEF Base
<1>1. CASE adm'[a] = adm[a] BY <1>1 DEF Resolving
<1>2. ASSUME NEW c \in Admin, Alone(c), c # a PROVE adm'[a] = adm[a]
  BY <1>2 DEF Alone
<1>3. ASSUME NEW c \in Admin, NEW q \in 1..Len(req), Claim(c, q)
      PROVE  adm'[a] = adm[a] \/ (r \in 1..Len(req)
        /\ req[r].status = "pending")
  <2>1. Alone(c) /\ adm'[c].r = q BY <1>0, <1>3, Claims
  <2> QED BY <1>2, <1>3, <2>1 DEF Claim, Resolving
<1>4. ASSUME NEW c \in Admin, NEW q \in 1..Len(req), ClaimLate(c, q)
      PROVE  adm'[a] = adm[a]
  <2>1. Alone(c) /\ adm'[c].pc = "telling"
    BY <1>0, <1>4, Claims DEF Steps, Goes
  <2> QED BY <1>2, <2>1 DEF Resolving, Paying
<1>5. ASSUME NEW c \in Admin, AdminTold(c) PROVE adm'[a] = adm[a]
  <2>1. Alone(c) /\ adm'[c].pc = "idle" BY <1>0, <1>5, Claims DEF Ends
  <2> QED BY <1>2, <2>1 DEF Resolving, Paying
<1>6. ASSUME NEW c \in Admin, Resolve(c)
      PROVE  adm'[a] = adm[a] \/ Resolving(a, r)
  <2>1. Alone(c)
    BY <1>0, <1>6, Decisions DEF Resolve, Steps, Goes, Ends
  <2>2. CASE c # a BY <1>2, <2>1, <2>2
  <2>3. CASE c = a
    <3> USE DEF Resolving, Paying
    <3>1. CASE OpBegins(a)
      BY <1>0, <3>1, Decisions DEF OpBegins, Steps, Goes
    <3>2. CASE Deliver(a)
      BY <1>0, <3>2, Decisions DEF Deliver, Steps, Goes
    <3>3. CASE ReplayTakes(a)
      BY <1>0, <3>3, Decisions DEF ReplayTakes, Steps, Goes
    <3>4. CASE ReplayEnds(a)
      BY <1>0, <3>4, Decisions DEF ReplayEnds, Steps, Goes
    <3>5. CASE ItemJoins(a) \/ ItemRefused(a) \/ ItemSent(a)
      BY <1>0, <3>5, Decisions DEF ItemJoins, ItemRefused, ItemSent, Steps, Goes
    <3>6. CASE ItemFails(a)
      BY <1>0, <3>6, Decisions DEF ItemFails, Steps, Goes
    <3>7. ~(CutShort(a) \/ ItemHeld(a) \/ Unpause(a) \/ Finish(a))
      BY <1>0, Decisions DEF Steps, Goes, Ends
    <3>8. ~Announced(a) BY <1>0, Decisions DEF Goes, Ends
    <3> QED
      BY <1>6, <2>3, <3>1, <3>2, <3>3, <3>4, <3>5, <3>6, <3>7, <3>8 DEF Resolve
  <2> QED BY <2>2, <2>3
<1> QED
  BY <1>0, <1>1, <1>3, <1>4, <1>5, <1>6, HandlerStore
     DEF Next, Expire, Transfer, LeaseExpires, Overdue, SweepExpires,
         SettleExpired, vars

\* A request that owes a pause owed it before, if it was there.
LEMMA OwedBefore ==
  ASSUME Base, [Next]_vars, NEW r \in Owed', r \in 1..Len(req)
  PROVE  r \in Owed
<1>0. TypeOK /\ Working /\ StoreOK BY TypeParts DEF Base
<1>1. CASE req'[r].status = "pending" BY <1>0, <1>1, PendingBefore DEF Owed
<1>2. CASE \E a \in Admin : Resolving(a, r)'
  BY <1>2, ResolvingBefore DEF Owed
<1>3. CASE Telling(r)'
  <2>1. r \in LatePending => r \in Owed BY DEF LatePending, Owed
  <2>2. ASSUME Telling(r) PROVE r \in Owed BY <2>2 DEF Owed
  <2>3. CASE \A t \in Notifier : told'[t] \subseteq told[t]
    BY <1>3, <2>2, <2>3 DEF Telling
  <2>4. ASSUME NEW a \in Admin, NEW q \in 1..Len(req), ClaimLate(a, q)
        PROVE  r \in Owed
    <3>1. CASE req[q].status = "pending"
      <4>1. told' = [told EXCEPT ![a] = {q}] BY <2>4, <3>1 DEF ClaimLate
      <4>2. r = q \/ Telling(r) BY <1>0, <1>3, <4>1 DEF Telling, StoreOK
      <4> QED BY <2>2, <3>1, <4>2 DEF Owed
    <3>2. CASE req[q].status # "pending" BY <2>3, <2>4, <3>2 DEF ClaimLate
    <3> QED BY <3>1, <3>2
  <2>5. CASE SweepExpires
    BY <1>0, <1>3, <2>1, <2>2, <2>5 DEF SweepExpires, Telling, StoreOK
  <2>6. ASSUME NEW a \in Admin, AdminTold(a) PROVE r \in Owed
    BY <1>0, <2>3, <2>6 DEF AdminTold, StoreOK
  <2>7. ASSUME NEW t \in Notifier, SettleExpired(t) PROVE r \in Owed
    BY <1>0, <2>3, <2>7 DEF SettleExpired, StoreOK
  <2> QED
    BY <1>0, <2>3, <2>4, <2>5, <2>6, <2>7, HandlerStore, ResolveStore
       DEF Next, Expire, Transfer, LeaseExpires, Overdue, Claim, vars
<1> QED BY <1>1, <1>2, <1>3 DEF Owed

\* The new request r asks for cmd, which b typed, in generation g.
Asks(r, b, cmd, g) ==
  /\ r = Len(req) + 1
  /\ req'[r].status = "pending"
  /\ req'[r].by = b /\ req'[r].cmd = cmd /\ req'[r].gen = g

\* Only a gate that holds, for a browser's own input or a replayed one, makes a
\* request.
LEMMA RequestNew ==
  ASSUME Base, [Next]_vars, NEW r \in 1..Len(req'), r \notin 1..Len(req)
  PROVE  \/ \E b \in Browser :
              GateHolds(b) /\ Asks(r, b, work[b].cmd, work[b].gen)
         \/ \E a \in Admin :
              ItemHeld(a) /\ Asks(r, By(a), adm[a].item, req[adm[a].r].gen)
<1>0. /\ TypeOK /\ Working /\ InputOK /\ AdminOK /\ StoreOK
      /\ req \in Seq(Request) /\ Len(req) \in Nat
  BY TypeParts, LenProperties DEF Base, StoreOK
<1>2. Len(req') # Len(req) OBVIOUS
<1>3. ASSUME NEW b \in Browser, Handle(b)
      PROVE  GateHolds(b)
  BY <1>2, <1>3
     DEF Handle, TypePaused, TypeFree, LineGrows, LineAllowed, GateRefuses,
         Notified, Send, Leave, RemoveDead, Forget
<1>4. ASSUME NEW a \in Admin, Resolve(a) PROVE ItemHeld(a)
  <2>1. adm[a].r \in 1..Len(req) BY <1>0, <1>4, ResolveStore
  <2>2. \A s \in Status : req' # [req EXCEPT ![adm[a].r].status = s]
    BY <1>0, <1>2, <2>1, Marked
  <2>3. ~CutShort(a)
    <3>1. CASE req[adm[a].r].status = "resolving"
      BY <1>2, <2>2, <3>1 DEF CutShort, Status
    <3>2. CASE req[adm[a].r].status # "resolving"
      BY <1>0, <1>2, <2>1, <3>2, Unmarked DEF CutShort
    <3> QED BY <3>1, <3>2
  <2>4. ~Finish(a)
    <3>1. CASE adm[a].ok BY <1>2, <2>2, <3>1 DEF Finish, Status
    <3>2. CASE ~adm[a].ok BY <1>2, <2>2, <3>2 DEF Finish, Status
    <3> QED BY <3>1, <3>2
  <2> QED
    BY <1>2, <1>4, <2>3, <2>4
       DEF Resolve, OpBegins, Deliver, ReplayTakes, ReplayEnds, ItemJoins,
           ItemRefused, ItemSent, ItemFails, Announced, Unpause
<1>5. (\E b \in Browser : GateHolds(b)) \/ (\E a \in Admin : ItemHeld(a))
  <2>1. ASSUME NEW a \in Admin, NEW q \in 1..Len(req), Claim(a, q) PROVE FALSE
    <3>1. \E s \in Status : req' = [req EXCEPT ![q].status = s]
      BY <2>1 DEF Claim, Status
    <3> QED BY <1>0, <1>2, <3>1, Marked
  <2>2. ASSUME NEW a \in Admin, NEW q \in 1..Len(req), ClaimLate(a, q)
          PROVE FALSE
    <3>1. UNCHANGED req \/ \E s \in Status : req' = [req EXCEPT ![q].status = s]
      <4>1. CASE req[q].status = "pending" BY <2>2, <4>1 DEF ClaimLate, Status
      <4>2. CASE req[q].status # "pending"
        BY <1>0, <2>2, <4>2, Unmarked DEF ClaimLate
      <4> QED BY <4>1, <4>2
    <3> QED BY <1>0, <1>2, <3>1, Marked
  <2> QED
    BY <1>0, <1>2, <1>3, <1>4, <2>1, <2>2, OverdueKept, SweepKept
       DEF Next, Expire, Transfer, LeaseExpires, AdminTold, SettleExpired, vars
<1>6. ASSUME NEW b \in Browser, NEW cmd \in Seq(Nat), NEW g \in Nat,
             req' = NewRequest(b, cmd, g)
      PROVE  Asks(r, b, cmd, g)
  <2>1. /\ Len(req') = Len(req) + 1
        /\ req'[Len(req) + 1] = [status |-> "pending", by |-> b, cmd |-> cmd,
                                 gen |-> g, late |-> FALSE]
    BY <1>0, <1>6, Added
  <2>2. r = Len(req) + 1 BY <1>0, <2>1
  <2> QED BY <2>1, <2>2 DEF Asks
<1>7. ASSUME NEW b \in Browser, GateHolds(b)
      PROVE  Asks(r, b, work[b].cmd, work[b].gen)
  <2>1. work[b].cmd \in Seq(Nat) /\ work[b].gen \in Nat
          BY <1>0 DEF InputOK, Hands
  <2> QED BY <1>6, <1>7, <2>1 DEF GateHolds
<1>8. ASSUME NEW a \in Admin, ItemHeld(a)
      PROVE  Asks(r, By(a), adm[a].item, req[adm[a].r].gen)
  <2>1. adm[a].r \in 1..Len(req) /\ By(a) \in Browser
    BY <1>0, <1>8, ByBrowser DEF ItemHeld, Busy, Fenced
  <2>2. req[adm[a].r] \in Request BY <1>0, <2>1, ElementOfSeq
  <2>3. adm[a].item \in Seq(Nat) /\ req[adm[a].r].gen \in Nat
    BY <1>0, <2>2 DEF AdminOK, Jobs, Request
  <2>4. req' = NewRequest(By(a), adm[a].item, req[adm[a].r].gen)
    BY <1>8 DEF ItemHeld, By
  <2> QED BY <1>6, <2>1, <2>3, <2>4
<1> QED BY <1>5, <1>7, <1>8

LEMMA OwedNew ==
  ASSUME Base, [Next]_vars, NEW r \in Owed', r \notin 1..Len(req)
  PROVE  \/ \E b \in Browser :
              GateHolds(b) /\ Asks(r, b, work[b].cmd, work[b].gen)
         \/ \E a \in Admin :
              ItemHeld(a) /\ Asks(r, By(a), adm[a].item, req[adm[a].r].gen)
<1>1. r \in 1..Len(req') BY DEF Owed
<1> QED BY <1>1, RequestNew

\* Whoever is paused and asked to go on was told so by its own request.
LEMMA PauseMoves ==
  ASSUME Base, [Next]_vars, NEW b \in Browser
  PROVE  /\ present' \subseteq present
         /\ InHand(b)' => InHand(b) \/ (b \notin paused /\ b \in present)
         /\ b \in paused' \ paused =>
              GateHolds(b) \/ \E a \in Admin : ItemHeld(a) /\ By(a) = b
         /\ b \in paused \ paused' =>
              \/ b \notin present'
              \/ \E a \in Admin : Unpause(a) /\ ~adm[a].pending /\ By(a) = b
              \/ \E t \in Notifier : \E r \in told[t] :
                   Settles(t, r) /\ req[r].by = b
<1> DEFINE Moved ==
      /\ present' \subseteq present
      /\ InHand(b)' => InHand(b) \/ (b \notin paused /\ b \in present)
      /\ b \in paused' \ paused =>
           GateHolds(b) \/ \E a \in Admin : ItemHeld(a) /\ By(a) = b
      /\ b \in paused \ paused' =>
           \/ b \notin present'
           \/ \E a \in Admin : Unpause(a) /\ ~adm[a].pending /\ By(a) = b
           \/ \E t \in Notifier : \E r \in told[t] :
                Settles(t, r) /\ req[r].by = b
<1>0. InputOK BY TypeParts DEF Base
<1>1. CASE UNCHANGED <<present, paused, work>> BY <1>1 DEF InHand
<1>2. ASSUME NEW c \in Browser, Handle(c) PROVE Moved
  <2>1. CASE TypeFree(c)
    <3>1. UNCHANGED <<present, paused>> BY <2>1 DEF TypeFree
    <3>2. c # b => work'[b] = work[b] BY <1>0, <2>1 DEF TypeFree, InputOK
    <3>3. c = b => b \notin paused /\ (b \in present \/ UNCHANGED work)
      BY <2>1 DEF TypeFree, CanSend
    <3> QED BY <3>1, <3>2, <3>3 DEF InHand
  <2>2. CASE LineGrows(c) \/ LineAllowed(c)
    <3>1. UNCHANGED <<present, paused>> BY <2>2 DEF LineGrows, LineAllowed
    <3>2. c # b => work'[b] = work[b]
      BY <1>0, <2>2 DEF LineGrows, LineAllowed, InputOK
    <3>3. c = b => InHand(b) BY <2>2 DEF LineGrows, LineAllowed, InHand
    <3> QED BY <3>1, <3>2, <3>3 DEF InHand
  <2>3. CASE GateHolds(c)
    <3>1. UNCHANGED present /\ paused' = paused \cup {c}
      BY <2>3 DEF GateHolds
    <3>2. c # b => work'[b] = work[b] BY <1>0, <2>3 DEF GateHolds, InputOK
    <3>3. c = b => InHand(b) BY <2>3 DEF GateHolds, InHand
    <3> QED BY <2>3, <3>1, <3>2, <3>3 DEF InHand
  <2>4. CASE GateRefuses(c) \/ Notified(c) \/ Send(c)
    <3>1. UNCHANGED <<present, paused>>
      BY <2>4 DEF GateRefuses, Notified, Send
    <3>2. work' = [work EXCEPT ![c] = Idle]
      BY <2>4 DEF GateRefuses, Notified, Send
    <3>3. Idle.pc = "idle" BY DEF Idle
    <3> QED BY <1>0, <3>1, <3>2, <3>3 DEF InHand, InputOK
  <2>5. CASE Leave(c)
    <3>1. /\ present' = present \ {c} /\ paused' = paused \ {c}
      BY <2>5 DEF Leave, Forget
    <3>2. c # b => work'[b] = work[b] BY <1>0, <2>5 DEF Leave, InputOK
    <3>3. c = b => work'[b].pc = "gone"
      BY <1>0, <2>5 DEF Leave, InputOK, Idle
    <3> QED BY <3>1, <3>2, <3>3 DEF InHand
  <2>6. CASE RemoveDead(c)
    BY <2>6 DEF RemoveDead, Forget, InHand
  <2> QED
    BY <1>1, <1>2, <2>1, <2>2, <2>3, <2>4, <2>5, <2>6
       DEF Handle, TypePaused, inputVars
<1>3. ASSUME NEW a \in Admin, Resolve(a) PROVE Moved
  <2>1. CASE ItemHeld(a)
    <3>1. /\ paused' = paused \cup {By(a)} /\ UNCHANGED <<present, work>>
      BY <2>1 DEF ItemHeld, By
    <3> QED BY <2>1, <3>1 DEF InHand
  <2>2. CASE Unpause(a)
    <3>1. UNCHANGED <<present, work>> BY <2>2 DEF Unpause
    <3>2. UNCHANGED paused \/ (~adm[a].pending /\ paused' = paused \ {By(a)})
      BY <2>2 DEF Unpause, By
    <3> QED BY <2>2, <3>1, <3>2 DEF InHand
  <2> QED
    BY <1>1, <1>3, <2>1, <2>2
       DEF Resolve, OpBegins, Deliver, ReplayTakes, ReplayEnds, ItemJoins,
           ItemRefused, ItemSent, ItemFails, Announced, Finish, CutShort,
           inputVars
<1>4. ASSUME NEW t \in Notifier, SettleExpired(t) PROVE Moved
  <2>1. PICK r \in told[t] : Settles(t, r) BY <1>4, SettlesOne
  <2> QED BY <2>1 DEF Settles, InHand
<1>5. CASE ~\E c \in Browser : Handle(c)
  BY <1>1, <1>3, <1>4, <1>5
     DEF Next, Expire, Transfer, LeaseExpires, Overdue, Claim, ClaimLate,
         SweepExpires, AdminTold, inputVars, vars
<1> QED BY <1>2, <1>5

\* When its browser is settled, a request owes it nothing any more.
LEMMA OwedEnds ==
  ASSUME Base, [Next]_vars
  PROVE  /\ \A a \in Admin : (Unpause(a) /\ ~adm[a].pending) \/ ItemHeld(a) =>
              adm[a].r \in Owed \ Owed'
         /\ \A t \in Notifier : \A r \in told[t] : Settles(t, r) =>
              r \in Owed \ Owed'
<1>0. /\ TypeOK /\ Working /\ Expiring /\ InputOK /\ AdminOK /\ StoreOK
  BY TypeParts DEF Base
<1>1. ASSUME NEW a \in Admin, (Unpause(a) /\ ~adm[a].pending) \/ ItemHeld(a)
      PROVE  adm[a].r \in Owed \ Owed'
  <2>0. PICK r : r = adm[a].r OBVIOUS
  <2>1. /\ adm[a].pc \in {"settle", "item", "line"} /\ ~adm[a].pending
        /\ adm'[a].pc \in {"finish", "announce"}
        /\ \A c \in Admin \ {a} : adm'[c] = adm[c]
        /\ Resolve(a)
    BY <1>0, <1>1, Decisions
       DEF Unpause, ItemHeld, Steps, Goes, Alone, Resolve, Working, Consistent,
           Busy, Fenced
  <2>2. /\ r \in 1..Len(req) /\ req[r].status \in {"resolving", "rejected"}
        /\ \A c \in Admin \ {a} : adm[c].pc \in Busy => adm[c].r # r
    BY <1>0, <2>0, <2>1 DEF Working, Busy, Fenced
  <2>3. r \in Owed BY <2>0, <2>1, <2>2 DEF Owed, Resolving, Paying
  <2>4. UNCHANGED told BY <1>0, <2>1, ResolveStore
  <2>5. ~Telling(r) BY <1>0, <2>2 DEF Expiring, Telling
  <2>6. req'[r].status # "pending"
    BY <1>0, <2>2, PendingBefore
  <2>7. ASSUME NEW c \in Admin PROVE ~Resolving(c, r)'
    BY <2>0, <2>1, <2>2 DEF Resolving, Paying, Busy, Fenced
  <2> QED BY <2>0, <2>3, <2>4, <2>5, <2>6, <2>7 DEF Owed, Telling
<1>2. ASSUME NEW t \in Notifier, NEW r \in told[t], Settles(t, r)
      PROVE  r \in Owed \ Owed'
  <2>1. r \in 1..Len(req) BY <1>0 DEF StoreOK
  <2>2. r \in Owed BY <2>1 DEF Owed, Telling
  <2>3. req[r].status = "timeout"
        /\ \A u \in Notifier : u # t => r \notin told[u]
    BY <1>0 DEF Expiring
  <2>4. UNCHANGED <<req, adm>> BY <1>2 DEF Settles
  <2>5. ~Telling(r)'
    BY <1>0, <1>2, <2>3 DEF Telling, Settles, StoreOK
  <2>6. \A a \in Admin : ~Resolving(a, r)'
    BY <1>0, <2>3, <2>4 DEF Resolving, Working, Paying, Busy, Fenced
  <2> QED BY <2>2, <2>3, <2>4, <2>5, <2>6 DEF Owed
<1> QED BY <1>1, <1>2

LEMMA PausesStep == ASSUME Base, Pauses, [Next]_vars PROVE Pauses'
<1>0. /\ TypeOK /\ Working /\ InputOK /\ AdminOK /\ StoreOK /\ Kept
      /\ req \in Seq(Request)
  BY TypeParts, StepKept DEF Base, StoreOK
<1>a. \A r \in 1..Len(req) : req[r].by \in Browser /\ req'[r].by = req[r].by
  <2> TAKE r \in 1..Len(req)
  <2>1. req[r] \in Request BY <1>0, ElementOfSeq
  <2> QED BY <1>0, <2>1 DEF Request, Kept
<1>b. Owed \subseteq 1..Len(req) BY DEF Owed
\* The browser of a request that leaves nothing owed, or of a new one.
<1>c. ASSUME NEW a \in Admin, ItemHeld(a)
      PROVE  /\ adm[a].r \in Owed /\ adm[a].r \notin Owed' /\ By(a) \in Browser
             /\ ~InHand(By(a))
             /\ By(a) \in paused' /\ UNCHANGED <<present, work>>
  <2>1. adm[a].r \in Owed /\ adm[a].r \notin Owed' BY <1>c, OwedEnds
  <2>2. By(a) = req[adm[a].r].by BY DEF By
  <2> QED BY <1>a, <1>b, <1>c, <2>1, <2>2 DEF Pauses, ItemHeld
<1>d. ASSUME NEW b \in Browser, GateHolds(b)
      PROVE  InHand(b) /\ ~InHand(b)' /\ b \in paused'
  <2>1. work' = [work EXCEPT ![b] = [Idle EXCEPT !.pc = "notify"]]
    BY <1>d DEF GateHolds
  <2>2. work'[b].pc = "notify" BY <1>0, <2>1 DEF InputOK, Idle
  <2> QED BY <1>d, <2>2 DEF GateHolds, InHand
<1>1. ASSUME NEW b \in Browser, InHand(b)' PROVE b \notin paused'
  <2>1. b \notin paused BY <1>1, PauseMoves DEF Pauses
  <2>2. ~GateHolds(b) BY <1>1, <1>d
  <2>3. ASSUME NEW a \in Admin, ItemHeld(a), By(a) = b PROVE FALSE
    BY <1>1, <1>c, <2>3 DEF InHand
  <2> QED BY <2>1, <2>2, <2>3, PauseMoves
<1>2. ASSUME NEW r \in Owed', r \in Owed, NEW b \in Browser, b = req'[r].by
      PROVE  ~InHand(b)' /\ (b \in present' => b \in paused')
  <2>1. req[r].by = b BY <1>2, <1>a, <1>b
  <2>2. ~InHand(b) /\ (b \in present => b \in paused) BY <1>2, <2>1 DEF Pauses
  <2>3. ~InHand(b)' BY <2>2, PauseMoves
  <2>4. ASSUME b \in present', b \notin paused' PROVE FALSE
    <3>1. b \in present /\ b \in paused BY <2>2, <2>4, PauseMoves
    <3>2. ASSUME NEW a \in Admin, Unpause(a), ~adm[a].pending, By(a) = b
          PROVE  FALSE
      <4>1. adm[a].r \in Owed /\ adm[a].r \notin Owed' BY <3>2, OwedEnds
      <4>2. adm[a].r = r BY <1>2, <2>1, <3>2, <4>1 DEF Pauses, By
      <4> QED BY <1>2, <4>1, <4>2
    <3>3. ASSUME NEW t \in Notifier, NEW q \in told[t], Settles(t, q),
                 req[q].by = b
          PROVE  FALSE
      <4>1. q \in Owed /\ q \notin Owed' BY <3>3, OwedEnds
      <4>2. q = r BY <1>2, <2>1, <3>3, <4>1 DEF Pauses
      <4> QED BY <1>2, <4>1, <4>2
    <3> QED BY <2>4, <3>1, <3>2, <3>3, PauseMoves
  <2> QED BY <2>3, <2>4
<1>3. ASSUME NEW r \in Owed', r \notin Owed
      PROVE  /\ req'[r].by \in Browser
             /\ \A b \in Browser : b = req'[r].by =>
                  /\ ~InHand(b)' /\ b \in paused'
                  /\ \A s \in Owed : s \in Owed' => req[s].by # b
  <2>1. r \notin 1..Len(req) BY <1>3, OwedBefore
  <2>2. ASSUME NEW b \in Browser, GateHolds(b)
        PROVE  /\ ~InHand(b)' /\ b \in paused'
               /\ \A s \in Owed : s \in Owed' => req[s].by # b
    BY <2>2, <1>d DEF Pauses
  <2>3. ASSUME NEW a \in Admin, ItemHeld(a), NEW b \in Browser, b = By(a)
        PROVE  /\ ~InHand(b)' /\ b \in paused'
               /\ \A s \in Owed : s \in Owed' => req[s].by # b
    <3>0. /\ ~InHand(b) /\ b \in paused' /\ UNCHANGED work
          /\ adm[a].r \in Owed /\ adm[a].r \notin Owed'
      BY <1>c, <2>3
    <3>1. ASSUME NEW s \in Owed, s \in Owed', req[s].by = b PROVE FALSE
      <4>1. s = adm[a].r BY <2>3, <3>0, <3>1 DEF Pauses, By
      <4> QED BY <3>0, <3>1, <4>1
    <3>2. ~InHand(b)' BY <3>0 DEF InHand
    <3> QED BY <3>0, <3>1, <3>2
  <2>4. CASE \E b \in Browser : GateHolds(b) /\ req'[r].by = b BY <2>2, <2>4
  <2>5. CASE \E a \in Admin : ItemHeld(a) /\ req'[r].by = By(a)
    <3>1. PICK a \in Admin : ItemHeld(a) /\ req'[r].by = By(a) BY <2>5
    <3>2. By(a) \in Browser BY <1>c, <3>1
    <3> QED BY <2>3, <3>1, <3>2
  <2> QED BY <1>3, <2>1, <2>4, <2>5, OwedNew DEF Asks
<1>4. ASSUME NEW r \in Owed', NEW s \in Owed', req'[r].by = req'[s].by
      PROVE  r = s
  <2>1. CASE r \in Owed /\ s \in Owed
    BY <1>4, <1>a, <1>b, <2>1 DEF Pauses
  <2>2. CASE r \notin Owed /\ s \in Owed
    BY <1>3, <1>4, <1>a, <1>b, <2>2
  <2>3. CASE r \in Owed /\ s \notin Owed
    BY <1>3, <1>4, <1>a, <1>b, <2>3
  <2>4. CASE r \notin Owed /\ s \notin Owed
    <3>1. r \notin 1..Len(req) /\ s \notin 1..Len(req) BY <2>4, OwedBefore
    <3> QED BY <3>1, OwedNew DEF Asks
  <2> QED BY <2>1, <2>2, <2>3, <2>4
<1>5. ASSUME NEW r \in Owed'
      PROVE  /\ work'[req'[r].by].pc \notin {"gate", "line", "send"}
             /\ req'[r].by \in present' => req'[r].by \in paused'
  <2>1. PICK b \in Browser : b = req'[r].by
    BY <1>3, <1>a, <1>b
  <2> QED BY <1>2, <1>3, <1>5, <2>1 DEF InHand
<1>6. \A b \in Browser : work'[b].pc \in {"gate", "line", "send"}
        => b \notin paused'
  BY <1>1 DEF InHand
<1> QED BY <1>4, <1>5, <1>6 DEF Pauses, InHand

LEMMA PausesAlways == Spec => [](Base /\ Pauses)
<1>1. Init => Pauses
  <2> SUFFICES ASSUME Init PROVE Pauses OBVIOUS
  <2>1. Len(req) = 0 BY EmptySeq DEF Init
  <2>2. Owed = {} BY <2>1 DEF Owed
  <2>3. \A b \in Browser : ~InHand(b) BY DEF Init, InHand, Idle
  <2> QED BY <2>2, <2>3 DEF Pauses
<1>2. Base /\ Base' /\ Pauses /\ [Next]_vars => Pauses' BY PausesStep
<1> QED BY <1>1, <1>2, BaseAlways, PTL DEF Spec

\* While a command of a connected browser waits for its decision, the browser is
\* paused, whatever decisions and expiries of its earlier commands do to it.
THEOREM PausedWhileHeld == Spec => []HeldIsPaused
<1>1. Pauses => HeldIsPaused BY DEF Pauses, HeldIsPaused, Owed
<1> QED BY <1>1, PausesAlways, PTL

\* Whoever is paused has a request to end the pause; unless that request was cut
\* short.
PausesOwed ==
  \A b \in paused \cap present :
    b \in cut \/ \E r \in Owed : req[r].by = b

\* A new request is pending.
LEMMA NewAsked ==
  ASSUME req \in Seq(Request), NEW b \in Browser, NEW cmd \in Seq(Nat),
         NEW g \in Nat, req' = NewRequest(b, cmd, g)
  PROVE  /\ Len(req') = Len(req) + 1
         /\ req'[Len(req) + 1].status = "pending"
         /\ req'[Len(req) + 1].by = b
<1>1. /\ Len(req') = Len(req) + 1
      /\ req'[Len(req) + 1] = [status |-> "pending", by |-> b, cmd |-> cmd,
                               gen |-> g, late |-> FALSE]
  BY Added
<1> QED BY <1>1

\* A request that owes no pause any more has ended it, or was cut short, or its
\* replay has made another that does.
LEMMA OwedLeaves ==
  ASSUME Base, Pauses, [Next]_vars, NEW r \in Owed, r \notin Owed',
         NEW b \in Browser, b = req[r].by, b \in paused', b \in present'
  PROVE  b \in cut' \/ \E s \in Owed' : req'[s].by = b
<1>0. /\ TypeOK /\ Working /\ Expiring /\ StoreOK /\ AdminOK /\ InputOK
      /\ Kept /\ r \in 1..Len(req) /\ r \in 1..Len(req')
  <2>1. TypeOK /\ Working /\ Expiring /\ StoreOK /\ AdminOK /\ InputOK
    BY TypeParts DEF Base
  <2>2. Kept BY <2>1, StepKept
  <2> QED BY <2>1, <2>2 DEF Owed, Kept
<1>1. req'[r].status # "pending" /\ ~Telling(r)'
      /\ \A a \in Admin : ~Resolving(a, r)'
  BY <1>0 DEF Owed
<1>2. CASE req'[r].status = req[r].status /\ UNCHANGED <<adm, told>>
  BY <1>1, <1>2 DEF Owed, Resolving, Telling
<1>3. ASSUME NEW c \in Browser, Handle(c) PROVE FALSE
  BY <1>0, <1>1, <1>3, HandlerStore DEF Owed, Resolving, Telling
<1>4. ASSUME NEW a \in Admin, NEW q \in 1..Len(req), Claim(a, q) PROVE FALSE
  <2>1. /\ adm'[a].r = q /\ ~adm'[a].pending /\ adm'[a].pc \in Paying
        /\ \A c \in Admin \ {a} : adm'[c] = adm[c]
        /\ adm[a].pc = "idle" /\ UNCHANGED told
    <3>1. q \in Nat OBVIOUS
    <3>2. adm[a].pc = "idle" /\ UNCHANGED told BY <1>4 DEF Claim
    <3> QED BY <1>0, <1>4, <3>1, <3>2, Claims DEF Alone, Paying
  <2>2. r # q BY <1>1, <2>1 DEF Resolving
  <2>3. req'[r] = req[r]
    <3>1. \E s \in Status : req' = [req EXCEPT ![q].status = s]
      BY <1>4 DEF Claim, Status
    <3> QED BY <1>0, <2>2, <3>1, Marked DEF StoreOK
  <2> QED BY <1>1, <2>1, <2>3 DEF Owed, Resolving, Telling, Paying
<1>5. ASSUME NEW a \in Admin, NEW q \in 1..Len(req), ClaimLate(a, q)
      PROVE  FALSE
  <2>1. /\ \A c \in Admin \ {a} : adm'[c] = adm[c]
        /\ adm[a].pc = "idle" /\ told[a] = {}
    BY <1>0, <1>5, Claims DEF ClaimLate, Steps, Goes, Alone, Expiring
  <2>2. ASSUME NEW c \in Admin, Resolving(c, r) PROVE FALSE
    BY <1>1, <2>1, <2>2 DEF Resolving, Paying
  <2>3. CASE req[q].status = "pending"
    <3>1. told' = [told EXCEPT ![a] = {q}] BY <1>5, <2>3 DEF ClaimLate
    <3>2. \A t \in Notifier : t # a => told'[t] = told[t]
      BY <1>0, <3>1 DEF StoreOK
    <3>3. a \in Notifier /\ told'[a] = {q} BY <1>0, <3>1 DEF StoreOK, Notifier
    <3>4. ~Telling(r) BY <1>1, <2>1, <3>2 DEF Telling
    <3>5. r # q BY <1>1, <3>3 DEF Telling
    <3>6. req' = [req EXCEPT ![q].status = "timeout"]
      BY <1>5, <2>3 DEF ClaimLate
    <3>7. req'[r] = req[r] BY <1>0, <3>5, <3>6, Marked DEF StoreOK, Status
    <3> QED BY <1>1, <2>2, <3>4, <3>7 DEF Owed
  <2>4. CASE req[q].status # "pending"
    <3>1. req' = req /\ UNCHANGED told
      BY <1>0, <1>5, <2>4, Unmarked DEF ClaimLate, StoreOK
    <3> QED BY <1>1, <2>2, <3>1 DEF Owed, Telling
  <2> QED BY <2>3, <2>4
<1>6. ASSUME NEW a \in Admin, Resolve(a)
      PROVE  b \in cut' \/ \E s \in Owed' : req'[s].by = b
  <2>1. /\ adm[a].r \in 1..Len(req) /\ adm[a].pc \in Busy /\ UNCHANGED told
        /\ \A q \in 1..Len(req) : q # adm[a].r => req'[q] = req[q]
        /\ \A c \in Admin \ {a} : adm'[c] = adm[c]
    BY <1>0, <1>6, ResolveStore, Decisions
       DEF Resolve, Steps, Goes, Ends, Alone
  <2>2. r = adm[a].r
    BY <1>0, <1>1, <2>1 DEF Owed, Resolving, Telling
  <2>3. req[r].status \in {"resolving", "rejected"} /\ ~Telling(r)
    BY <1>0, <2>1, <2>2 DEF Working, Expiring, Telling
  <2>4. Resolving(a, r)
    <3>1. PICK c \in Admin : Resolving(c, r) BY <2>3 DEF Owed
    <3>2. c = a
      BY <1>0, <2>1, <2>2, <3>1 DEF Resolving, Paying, Working, Busy, Fenced
    <3> QED BY <3>1, <3>2
  <2>5. By(a) = b BY <2>2 DEF By
  <2>6. CASE CutShort(a) BY <2>2, <2>4, <2>6 DEF CutShort, Resolving, Paying
  <2>7. CASE Unpause(a)
    BY <2>4, <2>5, <2>7 DEF Unpause, By, Resolving
  <2>8. CASE ItemHeld(a)
    <3>1. /\ Len(req') = Len(req) + 1 /\ req'[Len(req) + 1].status = "pending"
          /\ req'[Len(req) + 1].by = b
      <4>1. req' = NewRequest(b, adm[a].item, req[r].gen)
        BY <2>2, <2>8 DEF ItemHeld
      <4>2. req[r] \in Request BY <1>0, ElementOfSeq DEF StoreOK
      <4>3. adm[a].item \in Seq(Nat) /\ req[r].gen \in Nat
        BY <1>0, <4>2 DEF AdminOK, Jobs, Request
      <4> QED BY <1>0, <4>1, <4>3, NewAsked DEF StoreOK
    <3>2. Len(req) \in Nat BY <1>0, LenProperties DEF StoreOK
    <3>3. Len(req) + 1 \in Owed' BY <3>1, <3>2 DEF Owed
    <3> QED BY <3>1, <3>3
  <2>9. CASE OpBegins(a) \/ Deliver(a) \/ ReplayTakes(a) \/ ReplayEnds(a)
             \/ ItemJoins(a) \/ ItemRefused(a) \/ ItemSent(a) \/ ItemFails(a)
    <3>1. /\ adm'[a].pc \in Paying /\ adm'[a].r = adm[a].r
          /\ adm'[a].pending = adm[a].pending
      BY <1>0, <2>9, Decisions DEF Steps, Goes, Paying
    <3> QED BY <1>1, <2>4, <3>1 DEF Resolving
  <2>10. ~Announced(a) /\ ~Finish(a)
    BY <2>4 DEF Announced, Finish, Resolving, Paying
  <2> QED BY <1>6, <2>6, <2>7, <2>8, <2>9, <2>10 DEF Resolve
<1>7. ASSUME NEW q \in 1..Len(req), Overdue(q) PROVE FALSE
  BY <1>0, <1>2, <1>7, <1>1, OverdueKept
     DEF Overdue, Owed, Resolving, Telling
<1>8. CASE SweepExpires
  <2>1. UNCHANGED adm BY <1>8 DEF SweepExpires
  <2>2. r \notin LatePending
    BY <1>0, <1>1, <1>8 DEF SweepExpires, Telling, StoreOK, Notifier
  <2>3. req'[r].status = req[r].status BY <1>0, <1>8, <2>2, SweepKept
  <2>4. Telling(r) => Telling(r)'
    BY <1>0, <1>8 DEF SweepExpires, Telling, StoreOK
  <2> QED BY <1>1, <2>1, <2>3, <2>4 DEF Owed, Resolving
<1>9. ASSUME NEW a \in Admin, AdminTold(a) PROVE b \in cut'
  <2>1. /\ UNCHANGED req /\ adm[a].pc = "telling"
        /\ \A c \in Admin \ {a} : adm'[c] = adm[c]
    BY <1>0, <1>9, Claims DEF AdminTold, Ends, Alone
  <2>2. Telling(r) BY <1>1, <2>1 DEF Owed, Resolving, Paying
  <2>3. \A t \in Notifier : t # a => told'[t] = told[t]
    BY <1>0, <1>9 DEF AdminTold, StoreOK
  <2>4. r \in told[a] BY <1>1, <2>2, <2>3 DEF Telling
  <2> QED BY <1>9, <2>4 DEF AdminTold
<1>10. ASSUME NEW t \in Notifier, SettleExpired(t) PROVE FALSE
  <2>1. PICK q \in told[t] : Settles(t, q) BY <1>10, SettlesOne
  <2>2. r # q BY <2>1 DEF Settles
  <2>3. Telling(r) => Telling(r)'
    BY <1>0, <2>1, <2>2 DEF Settles, Telling, StoreOK
  <2> QED BY <1>1, <2>1, <2>3 DEF Owed, Resolving, Settles
<1>11. CASE Transfer \/ LeaseExpires \/ UNCHANGED vars
  BY <1>2, <1>11 DEF Transfer, LeaseExpires, vars
<1> QED
  BY <1>3, <1>4, <1>5, <1>6, <1>7, <1>8, <1>9, <1>10, <1>11 DEF Next, Expire

\* What was cut short stays so.
LEMMA CutGrows == ASSUME [Next]_vars PROVE cut \subseteq cut'
BY DEF Next, Handle, TypePaused, TypeFree, LineGrows, LineAllowed, GateRefuses,
       GateHolds, Notified, Send, Leave, RemoveDead, Forget, Resolve, OpBegins,
       Deliver, ReplayTakes, ReplayEnds, ItemJoins, ItemRefused, ItemSent,
       ItemFails, ItemHeld, Announced, Unpause, Finish, CutShort, Expire,
       Transfer, LeaseExpires, Overdue, Claim, ClaimLate, SweepExpires,
       AdminTold, SettleExpired, pastVars, vars

LEMMA PausesOwedStep ==
  ASSUME Base, Pauses, PausesOwed, [Next]_vars PROVE PausesOwed'
<1> SUFFICES ASSUME NEW b \in paused', b \in present'
             PROVE  b \in cut' \/ \E r \in Owed' : req'[r].by = b
  BY DEF PausesOwed
<1>0. /\ TypeOK /\ Working /\ StoreOK /\ AdminOK /\ Kept
      /\ req \in Seq(Request) /\ Len(req) \in Nat
  BY TypeParts, StepKept, LenProperties DEF Base, StoreOK
<1>1. TypeOK' BY <1>0, TypeStep
<1>2. b \in Browser BY <1>1 DEF TypeOK
<1>3. CASE b \in paused
  <2>1. b \in present BY <1>2, PauseMoves
  <2>2. CASE b \in cut BY <2>2, CutGrows
  <2>3. ASSUME NEW r \in Owed, req[r].by = b
        PROVE  b \in cut' \/ \E s \in Owed' : req'[s].by = b
    <3>1. CASE r \notin Owed' BY <1>2, <2>3, <3>1, OwedLeaves
    <3>2. CASE r \in Owed'
      <4>1. r \in 1..Len(req) BY DEF Owed
      <4> QED BY <1>0, <2>3, <3>2, <4>1 DEF Kept
    <3> QED BY <3>1, <3>2
  <2> QED BY <1>3, <2>1, <2>2, <2>3 DEF PausesOwed
<1>4. ASSUME NEW cmd \in Seq(Nat), NEW g \in Nat, req' = NewRequest(b, cmd, g)
      PROVE  \E r \in Owed' : req'[r].by = b
  <2>1. /\ Len(req') = Len(req) + 1 /\ req'[Len(req) + 1].status = "pending"
        /\ req'[Len(req) + 1].by = b
    BY <1>0, <1>2, <1>4, NewAsked
  <2>2. Len(req) + 1 \in Owed' BY <1>0, <2>1 DEF Owed
  <2> QED BY <2>1, <2>2
<1>5. CASE GateHolds(b)
  <2>1. work[b].cmd \in Seq(Nat) /\ work[b].gen \in Nat
    BY <1>0, <1>2, TypeParts DEF InputOK, Hands
  <2> QED BY <1>4, <1>5, <2>1 DEF GateHolds
<1>6. ASSUME NEW a \in Admin, ItemHeld(a), By(a) = b
      PROVE  \E r \in Owed' : req'[r].by = b
  <2>1. adm[a].r \in 1..Len(req)
    BY <1>0, <1>6, ByBrowser DEF ItemHeld, Busy, Fenced
  <2>2. req[adm[a].r] \in Request BY <1>0, <2>1, ElementOfSeq
  <2>3. adm[a].item \in Seq(Nat) /\ req[adm[a].r].gen \in Nat
    BY <1>0, <2>2 DEF AdminOK, Jobs, Request
  <2>4. req' = NewRequest(b, adm[a].item, req[adm[a].r].gen)
    BY <1>6 DEF ItemHeld, By
  <2> QED BY <1>4, <2>3, <2>4
<1> QED BY <1>2, <1>3, <1>5, <1>6, PauseMoves

\* The safety half of PauseEnds: a connected browser that is paused has a request
\* that is pending, being decided, or expired and yet to be told, and that request
\* is to unpause it; no path of a decision, an expiry or a replay loses it but the
\* one where the approve or reject request is cut short.
THEOREM PauseIsOwed == Spec => []PausesOwed
<1>1. Init => PausesOwed BY DEF Init, PausesOwed
<1>2. Base /\ Pauses /\ PausesOwed /\ [Next]_vars => PausesOwed'
  BY PausesOwedStep
<1> QED BY <1>1, <1>2, PausesAlways, PTL DEF Spec

-----------------------------------------------------------------------------
(* Where the inputs of a browser are. *)

Elems(s) == {s[i] : i \in 1..Len(s)}

\* Commands that were not handed to the worker yet.
Undelivered(r) ==
  \/ req[r].status = "pending"
  \/ \E a \in Admin : adm[a].pc \in {"fence", "deliver"} /\ adm[a].r = r

Buffer(b) == Elems(hold[b])
Line(b) == Elems(line[b])
WithItem == {"item", "line"}
Loose(b) ==
  {n \in Nat : \/ InHand(b) /\ n \in Elems(work[b].cmd)
               \/ \E a \in Admin : /\ adm[a].pc \in WithItem /\ By(a) = b
                                   /\ n \in Elems(adm[a].item)}
Commands(b) ==
  {n \in Nat : \E r \in 1..Len(req) : /\ Undelivered(r) /\ req[r].by = b
                                      /\ n \in Elems(req[r].cmd)}
Waiting(b) == Loose(b) \cup Commands(b)
Gone(b) ==
  {n \in Nat : \E i \in 1..Len(sent) : sent[i].from = b /\ sent[i].n = n}
Fresh(b, n) == <<b, n>> \notin stranded

LEMMA ElemsNat == ASSUME NEW s \in Seq(Nat) PROVE Elems(s) \subseteq Nat
BY ElementOfSeq DEF Elems

\* A decision that has its command or an item in hand is owed the pause, and it
\* is the only one on its browser.
Holding == {"fence", "deliver", "replay", "item", "line"}

LEMMA Holder ==
  ASSUME Base, Pauses, NEW a \in Admin, adm[a].pc \in Holding
  PROVE  /\ adm[a].r \in Owed /\ adm[a].r \in 1..Len(req)
         /\ By(a) \in Browser /\ ~InHand(By(a))
         /\ req[adm[a].r].status = "resolving"
         /\ \A r \in Owed : req[r].by = By(a) => r = adm[a].r
         /\ \A c \in Admin : adm[c].pc \in Busy /\ adm[c].r = adm[a].r => c = a
<1>0. Working /\ StoreOK BY TypeParts DEF Base
<1>1. adm[a].pc \in Busy BY DEF Holding, Busy, Fenced
<1>2. adm[a].r \in 1..Len(req) /\ By(a) \in Browser BY <1>0, <1>1, ByBrowser
<1>3. Consistent(adm[a])
      /\ req[adm[a].r].status = IF adm[a].deny THEN "rejected" ELSE "resolving"
  BY <1>0, <1>1 DEF Working
<1>4. ~adm[a].deny /\ ~adm[a].pending BY <1>3 DEF Consistent, Holding
<1>5. Resolving(a, adm[a].r) BY <1>4 DEF Resolving, Paying, Holding
<1>6. adm[a].r \in Owed BY <1>2, <1>5 DEF Owed
<1>7. \A c \in Admin : adm[c].pc \in Busy /\ adm[c].r = adm[a].r => c = a
  BY <1>0, <1>1 DEF Working
<1> QED BY <1>2, <1>3, <1>4, <1>6, <1>7 DEF Pauses, By

LEMMA UndeliveredOwed ==
  ASSUME Base, Pauses, NEW r \in 1..Len(req), Undelivered(r)
  PROVE  r \in Owed
<1>1. CASE req[r].status = "pending" BY <1>1 DEF Owed
<1>2. CASE \E a \in Admin : adm[a].pc \in {"fence", "deliver"} /\ adm[a].r = r
  BY <1>2, Holder DEF Holding
<1> QED BY <1>1, <1>2 DEF Undelivered

\* A decision that has its command in hand had it before, or claims it now.
LEMMA CommandBefore ==
  ASSUME Base, [Next]_vars, NEW a \in Admin, NEW r,
         adm'[a].pc \in {"fence", "deliver"}, adm'[a].r = r
  PROVE  \/ adm[a].pc \in {"fence", "deliver"} /\ adm[a].r = r
         \/ r \in 1..Len(req) /\ req[r].status = "pending"
<1>0. TypeOK /\ Working /\ AdminOK /\ InputOK /\ StoreOK
  BY TypeParts DEF Base
<1>1. CASE adm'[a] = adm[a] BY <1>1
<1>2. ASSUME NEW c \in Admin, Alone(c), c # a PROVE adm'[a] = adm[a]
  BY <1>2 DEF Alone
<1>3. ASSUME NEW c \in Admin, NEW q \in 1..Len(req), Claim(c, q)
      PROVE  adm'[a] = adm[a] \/ (r \in 1..Len(req)
        /\ req[r].status = "pending")
  <2>1. Alone(c) /\ adm'[c].r = q BY <1>0, <1>3, Claims
  <2> QED BY <1>2, <1>3, <2>1 DEF Claim
<1>4. ASSUME NEW c \in Admin, NEW q \in 1..Len(req), ClaimLate(c, q)
      PROVE  adm'[a] = adm[a]
  <2>1. Alone(c) /\ adm'[c].pc = "telling"
    BY <1>0, <1>4, Claims DEF Steps, Goes
  <2> QED BY <1>2, <2>1
<1>5. ASSUME NEW c \in Admin, AdminTold(c) PROVE adm'[a] = adm[a]
  <2>1. Alone(c) /\ adm'[c].pc = "idle" BY <1>0, <1>5, Claims DEF Ends
  <2> QED BY <1>2, <2>1
<1>6. ASSUME NEW c \in Admin, Resolve(c)
      PROVE  adm'[a] = adm[a] \/ (adm[a].pc \in {"fence", "deliver"}
        /\ adm[a].r = r)
  <2>1. Alone(c)
    BY <1>0, <1>6, Decisions DEF Resolve, Steps, Goes, Ends
  <2>2. CASE c # a BY <1>2, <2>1, <2>2
  <2>3. CASE c = a
    <3>1. CASE OpBegins(a)
      BY <1>0, <3>1, Decisions DEF OpBegins, Steps, Goes
    <3>2. ~OpBegins(a) => adm'[a].pc \notin {"fence", "deliver"}
      BY <1>0, <1>6, <2>3, Decisions DEF Resolve, Steps, Goes, Ends
    <3> QED BY <3>1, <3>2
  <2> QED BY <2>2, <2>3
<1> QED
  BY <1>0, <1>1, <1>3, <1>4, <1>5, <1>6, HandlerStore
     DEF Next, Expire, Transfer, LeaseExpires, Overdue, SweepExpires,
         SettleExpired, vars

LEMMA UndeliveredBefore ==
  ASSUME Base, [Next]_vars, NEW r \in 1..Len(req), Undelivered(r)'
  PROVE  Undelivered(r)
<1>0. TypeOK /\ Working BY DEF Base
<1>1. CASE req'[r].status = "pending"
  BY <1>0, <1>1, PendingBefore DEF Undelivered
<1>2. CASE \E a \in Admin : adm'[a].pc \in {"fence", "deliver"} /\ adm'[a].r = r
  BY <1>2, CommandBefore DEF Undelivered
<1> QED BY <1>1, <1>2 DEF Undelivered

\* Between two decisions on it, a command has been asked for, and refused, or
\* not; it does not wait again.
Unsent == {"pending", "rejected", "timeout"}

LEMMA UnsentBefore ==
  ASSUME TypeOK, Working, [Next]_vars, NEW r \in 1..Len(req),
         req'[r].status \in Unsent
  PROVE  req[r].status \in Unsent
<1>0. /\ StoreOK /\ AdminOK /\ req \in Seq(Request) BY TypeParts DEF StoreOK
<1>1. ASSUME NEW q \in 1..Len(req), req[q].status \in Unsent, NEW s \in Status,
             req' = [req EXCEPT ![q].status = s]
      PROVE  req[r].status \in Unsent
  BY <1>0, <1>1, Marked
<1>2. ASSUME NEW a \in Admin, NEW q \in 1..Len(req), Claim(a, q)
      PROVE  req[r].status \in Unsent
  BY <1>1, <1>2 DEF Claim, Unsent, Status
<1>3. ASSUME NEW a \in Admin, NEW q \in 1..Len(req), ClaimLate(a, q)
      PROVE  req[r].status \in Unsent
  <2>1. CASE req[q].status = "pending"
    BY <1>1, <1>3, <2>1 DEF ClaimLate, Unsent, Status
  <2>2. CASE req[q].status # "pending"
    BY <1>0, <1>3, <2>2, Unmarked DEF ClaimLate
  <2> QED BY <2>1, <2>2
<1>4. ASSUME NEW a \in Admin, Resolve(a) PROVE req[r].status \in Unsent
  BY <1>4, ResolveStore DEF Unsent
<1>5. CASE SweepExpires
  <2>1. r \in LatePending => req[r].status = "pending" BY DEF LatePending
  <2>2. r \notin LatePending => req'[r] = req[r] BY <1>5 DEF SweepExpires
  <2> QED BY <2>1, <2>2 DEF Unsent
<1> QED
  BY <1>0, <1>2, <1>3, <1>4, <1>5, HandlerStore, OverdueKept
     DEF Next, Expire, Transfer, LeaseExpires, AdminTold, SettleExpired, vars

-----------------------------------------------------------------------------
(* How inputs move. *)

\* What a handler has in hand it had before, or was typed now, or a line that is
\* complete now.
LEMMA HandBefore ==
  ASSUME Base, [Next]_vars, NEW b \in Browser, InHand(b)'
  PROVE  \/ /\ InHand(b)
            /\ work'[b].cmd = work[b].cmd /\ work'[b].gen = work[b].gen
            /\ work'[b].pc = "gate" <=> work[b].pc = "gate"
         \/ /\ TypeFree(b) /\ CanSend(b)
            /\ work'[b].cmd = <<Len(typed[b]) + 1>> /\ work'[b].gen = gen
         \/ /\ LineGrows(b) /\ Complete(b, work[b].cmd) /\ work'[b].pc = "line"
            /\ work'[b].cmd = Joined(b, work[b].cmd)
            /\ work'[b].gen = work[b].gen
<1> DEFINE Before ==
      \/ /\ InHand(b)
         /\ work'[b].cmd = work[b].cmd /\ work'[b].gen = work[b].gen
         /\ work'[b].pc = "gate" <=> work[b].pc = "gate"
      \/ /\ TypeFree(b) /\ CanSend(b)
         /\ work'[b].cmd = <<Len(typed[b]) + 1>> /\ work'[b].gen = gen
      \/ /\ LineGrows(b) /\ Complete(b, work[b].cmd) /\ work'[b].pc = "line"
         /\ work'[b].cmd = Joined(b, work[b].cmd)
         /\ work'[b].gen = work[b].gen
<1>0. InputOK BY TypeParts DEF Base
<1>1. CASE work'[b] = work[b] BY <1>1 DEF InHand
<1>2. ASSUME NEW c \in Browser, Handle(c) PROVE Before
  <2>1. CASE TypeFree(c)
    <3>1. CASE c = b /\ CanSend(b)
      <4>1. work'[b] = [pc |-> "gate", cmd |-> <<Len(typed[b]) + 1>>,
              gen |-> gen]
        BY <1>0, <2>1, <3>1 DEF TypeFree, InputOK
      <4> QED BY <2>1, <3>1, <4>1
    <3>2. CASE ~(c = b /\ CanSend(b))
      <4>1. work'[b] = work[b] BY <1>0, <2>1, <3>2 DEF TypeFree, InputOK
      <4> QED BY <1>1, <4>1
    <3> QED BY <3>1, <3>2
  <2>2. CASE LineGrows(c)
    <3>1. CASE c # b
      <4>1. work'[b] = work[b] BY <1>0, <2>2, <3>1 DEF LineGrows, InputOK
      <4> QED BY <1>1, <4>1
    <3>2. CASE c = b /\ Complete(b, work[b].cmd)
      <4> DEFINE w == [work[b] EXCEPT !.pc = "line",
                                      !.cmd = Joined(b, work[b].cmd)]
      <4>1. work' = [work EXCEPT ![b] = w] BY <2>2, <3>2 DEF LineGrows
      <4>2. work[b] \in Hands BY <1>0 DEF InputOK
      <4>3. /\ w.pc = "line" /\ w.cmd = Joined(b, work[b].cmd)
            /\ w.gen = work[b].gen
        BY <4>2 DEF Hands
      <4> HIDE DEF w
      <4>4. work'[b] = w BY <1>0, <4>1 DEF InputOK
      <4> QED BY <2>2, <3>2, <4>3, <4>4
    <3>3. CASE c = b /\ ~Complete(b, work[b].cmd)
      <4>1. work' = [work EXCEPT ![b] = Idle] BY <2>2, <3>3 DEF LineGrows
      <4> QED BY <1>0, <4>1 DEF InputOK, InHand, Idle
    <3> QED BY <3>1, <3>2, <3>3
  <2>3. CASE LineAllowed(c)
    <3>1. CASE c # b
      <4>1. work'[b] = work[b] BY <1>0, <2>3, <3>1 DEF LineAllowed, InputOK
      <4> QED BY <1>1, <4>1
    <3>2. CASE c = b
      <4> DEFINE w == [work[b] EXCEPT !.pc = "send"]
      <4>1. work' = [work EXCEPT ![b] = w] BY <2>3, <3>2 DEF LineAllowed
      <4>2. work[b] \in Hands BY <1>0 DEF InputOK
      <4>3. w.pc = "send" /\ w.cmd = work[b].cmd /\ w.gen = work[b].gen
        BY <4>2 DEF Hands
      <4> HIDE DEF w
      <4>4. work'[b] = w BY <1>0, <4>1 DEF InputOK
      <4> QED BY <2>3, <3>2, <4>3, <4>4 DEF LineAllowed, InHand
    <3> QED BY <3>1, <3>2
  <2>4. CASE GateRefuses(c) \/ Notified(c) \/ Send(c)
    <3>1. work' = [work EXCEPT ![c] = Idle]
      BY <2>4 DEF GateRefuses, Notified, Send
    <3> QED BY <1>0, <1>1, <3>1 DEF InputOK, InHand, Idle
  <2>5. CASE GateHolds(c)
    BY <1>0, <1>1, <2>5 DEF GateHolds, InputOK, InHand, Idle
  <2>6. CASE Leave(c)
    BY <1>0, <1>1, <2>6 DEF Leave, InputOK, InHand, Idle
  <2> QED
    BY <1>1, <1>2, <2>1, <2>2, <2>3, <2>4, <2>5, <2>6
       DEF Handle, TypePaused, RemoveDead
<1>3. (~\E c \in Browser : Handle(c)) => UNCHANGED work
  BY DEF Next, Expire, Transfer, LeaseExpires, Overdue, Claim, ClaimLate,
         Resolve, OpBegins, Deliver, ReplayTakes, ReplayEnds, ItemJoins,
         ItemRefused, ItemSent, ItemFails, ItemHeld, Announced, Unpause, Finish,
         CutShort, SweepExpires, AdminTold, SettleExpired, inputVars, vars
<1> QED BY <1>1, <1>2, <1>3

\* A replayed item in hand was in hand before, or is taken from the buffer now,
\* or
\* completes a line now.
Takes(a) ==
  /\ ReplayTakes(a) /\ UNCHANGED <<req, gen, typed, stranded>>
  /\ adm[a].pc = "replay" /\ adm'[a].pc = "item"
  /\ adm'[a].item = hold[By(a)] /\ adm'[a].r = adm[a].r
Completes(a) ==
  /\ ItemJoins(a) /\ Complete(By(a), adm[a].item)
  /\ UNCHANGED <<req, gen, typed, stranded>>
  /\ adm[a].pc = "item" /\ adm'[a].pc = "line"
  /\ adm'[a].item = Joined(By(a), adm[a].item) /\ adm'[a].r = adm[a].r

LEMMA ItemBefore ==
  ASSUME Base, [Next]_vars, NEW a \in Admin, adm'[a].pc \in WithItem
  PROVE  adm'[a] = adm[a] \/ Takes(a) \/ Completes(a)
<1> USE DEF WithItem
<1>0. /\ TypeOK /\ Working /\ InputOK /\ AdminOK /\ StoreOK
  BY TypeParts DEF Base
<1>2. ASSUME NEW c \in Admin, Alone(c), c # a PROVE adm'[a] = adm[a]
  BY <1>2 DEF Alone
<1>3. ASSUME NEW c \in Admin, Resolve(c)
      PROVE  \/ adm'[a] = adm[a] \/ ReplayTakes(a)
             \/ ItemJoins(a) /\ Complete(By(a), adm[a].item)
  <2>1. Alone(c)
    BY <1>0, <1>3, Decisions DEF Resolve, Steps, Goes, Ends
  <2>2. CASE c # a BY <1>2, <2>1, <2>2
  <2>3. CASE c = a
    BY <1>0, <1>3, <2>3, Decisions DEF Resolve, Steps, Goes, Ends
  <2> QED BY <2>2, <2>3
<1>4. CASE ReplayTakes(a)
  <2>1. adm'[a].item = hold[By(a)] /\ adm'[a].r = adm[a].r
          /\ adm'[a].pc = "item"
    BY <1>0, <1>4, Decisions DEF Steps, Goes
  <2> QED
    BY <1>4, <2>1 DEF Takes, ReplayTakes, ownerVars, typeVars, pastVars
<1>5. CASE ItemJoins(a) /\ Complete(By(a), adm[a].item)
  <2>1. /\ adm'[a].item = Joined(By(a), adm[a].item) /\ adm'[a].r = adm[a].r
        /\ adm'[a].pc = "line"
    BY <1>0, <1>5, Decisions DEF Steps, Goes
  <2> QED
    BY <1>5, <2>1 DEF Completes, ItemJoins, ownerVars, typeVars, pastVars
<1>6. ASSUME NEW c \in Admin, NEW q \in 1..Len(req),
        Claim(c, q) \/ ClaimLate(c, q)
      PROVE  adm'[a] = adm[a]
  <2>1. Alone(c) /\ adm'[c].pc \in {"fence", "settle", "telling"}
    BY <1>0, <1>6, Claims DEF Steps, Goes
  <2> QED BY <1>2, <2>1
<1>7. ASSUME NEW c \in Admin, AdminTold(c) PROVE adm'[a] = adm[a]
  <2>1. Alone(c) /\ adm'[c].pc = "idle" BY <1>0, <1>7, Claims DEF Ends
  <2> QED BY <1>2, <2>1
<1> QED
  BY <1>0, <1>3, <1>4, <1>5, <1>6, <1>7, HandlerStore
     DEF Next, Expire, Transfer, LeaseExpires, Overdue, SweepExpires,
         SettleExpired, vars

\* The inputs s of b join its line, and those that now wait are the line they
\* complete, or none.
Joins(b, s) ==
  /\ s \in Seq(Nat)
  /\ line' = LineAfter(b, s)
  /\ \A n \in Elems(s) : n \in Loose(b)
  /\ Waiting(b)' = IF Complete(b, s) THEN Elems(Joined(b, s)) ELSE {}
  /\ \A r \in 1..Len(req) : req[r].by = b => ~Undelivered(r)
  /\ UNCHANGED <<hold, typed, newline, sent, stranded, req, gen>>
  /\ \/ /\ s = work[b].cmd /\ work[b].pc = "gate" /\ InHand(b)
     \/ \E a \in Admin : /\ adm[a].pc = "item" /\ By(a) = b /\ s = adm[a].item
                         /\ adm'[a].pc \in {"line", "replay"}

\* While a handler has an input in hand, nothing else of its browser waits.
LEMMA HandAlone ==
  ASSUME Base, Pauses, NEW b \in Browser, InHand(b), UNCHANGED <<req, adm>>
  PROVE  /\ \A r \in 1..Len(req) : req[r].by = b => ~Undelivered(r)
         /\ \A n \in Elems(work[b].cmd) : n \in Loose(b)
         /\ Waiting(b)' = IF InHand(b)' THEN Elems(work'[b].cmd) \cap Nat
              ELSE {}
<1>0. /\ TypeOK /\ Working /\ InputOK /\ StoreOK BY TypeParts DEF Base
<1>1. work[b].cmd \in Seq(Nat) BY <1>0 DEF InputOK, Hands
<1>2. \A r \in Owed : req[r].by # b BY DEF Pauses
<1>3. \A r \in 1..Len(req) : req[r].by = b => ~Undelivered(r)
  BY <1>2, UndeliveredOwed
<1>4. \A a \in Admin : adm[a].pc \in WithItem => By(a) # b
  BY <1>2, Holder DEF By, WithItem, Holding
<1>5. Loose(b)' = IF InHand(b)' THEN Elems(work'[b].cmd) \cap Nat ELSE {}
  <2>1. \A a \in Admin : adm'[a].pc \in WithItem => req'[adm'[a].r].by # b
    BY <1>4 DEF By
  <2> QED BY <2>1 DEF Loose, By, WithItem
<1>6. Commands(b)' = {} BY <1>3 DEF Commands, Undelivered
<1>7. \A n \in Elems(work[b].cmd) : n \in Loose(b)
  BY <1>1, ElemsNat DEF Loose
<1> QED BY <1>3, <1>5, <1>6, <1>7 DEF Waiting

\* While a decision has its command or an item in hand, nothing else of its
\* browser
\* waits.
LEMMA DecisionAlone ==
  ASSUME Base, Pauses, [Next]_vars, NEW a \in Admin, Resolve(a),
         NEW b \in Browser, b = By(a),
         adm[a].pc \in {"deliver", "item", "line"},
         adm'[a].pc \in {"replay", "line", "settle", "idle"}
  PROVE  /\ \A r \in 1..Len(req) : req[r].by = b =>
              /\ req[r].status # "pending"
              /\ adm[a].pc # "deliver" => ~Undelivered(r)
         /\ adm[a].pc # "deliver"
              => \A n \in Elems(adm[a].item) : n \in Loose(b)
         /\ Waiting(b)' = IF adm'[a].pc = "line" THEN Elems(adm'[a].item)
              ELSE {}
<1>a. TypeOK' BY TypeStep DEF Base
<1>b. AdminOK' BY <1>a DEF TypeOK, AdminOK
<1>0. /\ TypeOK /\ Working /\ InputOK /\ AdminOK /\ StoreOK /\ Kept /\ AdminOK'
      /\ req \in Seq(Request)
  BY <1>b, TypeParts, StepKept DEF Base, StoreOK
<1>1. /\ adm[a].r \in Owed /\ adm[a].r \in 1..Len(req)
      /\ ~InHand(b) /\ req[adm[a].r].status = "resolving"
      /\ \A r \in Owed : req[r].by = b => r = adm[a].r
      /\ \A c \in Admin : adm[c].pc \in Busy /\ adm[c].r = adm[a].r => c = a
  BY Holder DEF Holding
<1>2. /\ Alone(a) /\ (adm'[a].pc = "line" => adm'[a].r = adm[a].r)
      /\ Len(req') = Len(req) /\ UNCHANGED work
  <2>1. ~ItemHeld(a) /\ ~OpBegins(a) /\ ~Unpause(a) /\ ~Finish(a)
          /\ ~Announced(a)
    BY <1>0, Decisions DEF Steps, Goes, OpBegins, Unpause, Finish, Announced
  <2>2. Len(req') = Len(req)
    <3>1. CASE CutShort(a)
      <4>1. CASE req[adm[a].r].status = "resolving"
        <5>1. req' = [req EXCEPT ![adm[a].r].status = "refused"]
          BY <3>1, <4>1 DEF CutShort
        <5> QED BY <1>0, <1>1, <5>1, Marked DEF Status
      <4> QED BY <1>1, <4>1
    <3>2. CASE ~CutShort(a)
      BY <2>1, <3>2
         DEF Resolve, Deliver, ReplayTakes, ReplayEnds, ItemJoins, ItemRefused,
             ItemSent, ItemFails
    <3> QED BY <3>1, <3>2
  <2>3. UNCHANGED work
    BY <2>1 DEF Resolve, Deliver, ReplayTakes, ReplayEnds, ItemJoins,
                ItemRefused, ItemSent, ItemFails, CutShort, inputVars
  <2>4. Alone(a) /\ (adm'[a].pc = "line" => adm'[a].r = adm[a].r)
    BY <1>0, <2>1, Decisions DEF Resolve, Steps, Goes, Ends
  <2> QED BY <2>2, <2>3, <2>4
<1>3. \A r \in 1..Len(req) : req[r].by = b =>
        /\ req[r].status # "pending"
        /\ adm[a].pc # "deliver" => ~Undelivered(r)
  <2> SUFFICES ASSUME NEW r \in 1..Len(req), req[r].by = b
               PROVE  /\ req[r].status # "pending"
                      /\ adm[a].pc # "deliver" => ~Undelivered(r)
    OBVIOUS
  <2>1. req[r].status # "pending" BY <1>1 DEF Owed
  <2>2. ASSUME adm[a].pc # "deliver", Undelivered(r) PROVE FALSE
    <3>1. r = adm[a].r BY <1>1, <2>2, UndeliveredOwed
    <3>2. PICK c \in Admin : adm[c].pc \in {"fence", "deliver"} /\ adm[c].r = r
      BY <2>1, <2>2 DEF Undelivered
    <3> QED BY <1>1, <2>2, <3>1, <3>2 DEF Busy, Fenced
  <2> QED BY <2>1, <2>2
<1>4. \A c \in Admin : c # a /\ adm'[c].pc \in Holding
        => By(c) # b /\ adm'[c] = adm[c]
  <2> SUFFICES ASSUME NEW c \in Admin, c # a, adm'[c].pc \in Holding
               PROVE  By(c) # b /\ adm'[c] = adm[c]
    OBVIOUS
  <2>1. adm'[c] = adm[c] BY <1>2 DEF Alone
  <2>2. ASSUME By(c) = b PROVE FALSE
    <3>1. adm[c].r = adm[a].r BY <1>1, <2>1, <2>2, Holder DEF By
    <3> QED BY <1>1, <2>1, <3>1 DEF Busy, Fenced, Holding
  <2> QED BY <2>1, <2>2
<1>5. \A c \in Admin : c # a /\ adm'[c].pc \in Holding => req'[adm'[c].r].by # b
  <2> SUFFICES ASSUME NEW c \in Admin, c # a, adm'[c].pc \in Holding
               PROVE  req'[adm'[c].r].by # b
    OBVIOUS
  <2>1. By(c) # b /\ adm'[c] = adm[c] BY <1>4
  <2>2. adm[c].r \in 1..Len(req)
    BY <1>0, <2>1 DEF Working, Busy, Fenced, Holding
  <2> QED BY <1>0, <2>1, <2>2 DEF Kept, By
<1>6. Loose(b)' = IF adm'[a].pc = "line" THEN Elems(adm'[a].item) ELSE {}
  <2>1. ~InHand(b)' BY <1>1, <1>2 DEF InHand
  <2>2. \A c \in Admin : adm'[c].pc \in WithItem /\ req'[adm'[c].r].by = b =>
          c = a /\ adm'[a].pc = "line"
    BY <1>5 DEF Holding, WithItem
  <2>3. adm'[a].pc = "line" => req'[adm'[a].r].by = b
    BY <1>0, <1>1, <1>2 DEF Kept, By
  <2>4. Elems(adm'[a].item) \subseteq Nat
    <3>1. adm'[a].item \in Seq(Nat) BY <1>0 DEF AdminOK, Jobs
    <3> QED BY <3>1, ElemsNat
  <2> QED BY <2>1, <2>2, <2>3, <2>4 DEF Loose, By, InHand, WithItem
<1>7. Commands(b)' = {}
  <2> SUFFICES ASSUME NEW r \in 1..Len(req), Undelivered(r)', req'[r].by = b
               PROVE  FALSE
    BY <1>2 DEF Commands
  <2>1. req[r].by = b BY <1>0 DEF Kept
  <2>2. req'[r].status # "pending" BY <1>0, <1>3, <2>1, PendingBefore
  <2>3. PICK c \in Admin : adm'[c].pc \in {"fence", "deliver"} /\ adm'[c].r = r
    BY <2>2 DEF Undelivered
  <2> QED BY <1>5, <2>3 DEF Holding
<1>8. adm[a].pc # "deliver" => \A n \in Elems(adm[a].item) : n \in Loose(b)
  <2>1. adm[a].item \in Seq(Nat) BY <1>0 DEF AdminOK, Jobs
  <2> QED BY <2>1, ElemsNat DEF Loose, WithItem
<1> QED BY <1>3, <1>6, <1>7, <1>8 DEF Waiting

\* A line moves when its browser's input joins it, or is dropped.
LEMMA LineMoves ==
  ASSUME Base, Pauses, [Next]_vars, NEW b \in Browser
  PROVE  /\ LineGrows(b) => Joins(b, work[b].cmd)
         /\ \A a \in Admin : ItemJoins(a) /\ By(a) = b => Joins(b, adm[a].item)
         /\ line'[b] # line[b] =>
              line'[b] = <<>> \/ \E s \in Seq(Nat) : Joins(b, s)
<1>0. /\ TypeOK /\ Working /\ InputOK /\ AdminOK /\ StoreOK
  BY TypeParts DEF Base
<1>1. ASSUME LineGrows(b) PROVE Joins(b, work[b].cmd)
  <2>1. InHand(b) /\ UNCHANGED <<req, adm>> BY <1>1 DEF LineGrows, InHand
  <2>2. work[b].cmd \in Seq(Nat) BY <1>0 DEF InputOK, Hands
  <2>3. Joined(b, work[b].cmd) \in Seq(Nat) BY <1>0, <2>2, Joining
  <2>4. Waiting(b)' = IF Complete(b, work[b].cmd)
                        THEN Elems(Joined(b, work[b].cmd)) ELSE {}
    <3>1. CASE Complete(b, work[b].cmd)
      <4>0. work' = [work EXCEPT ![b].pc = "line",
                                 ![b].cmd = Joined(b, work[b].cmd)]
        BY <1>1, <3>1 DEF LineGrows
      <4>1. work'[b].pc = "line" /\ work'[b].cmd = Joined(b, work[b].cmd)
        BY <1>0, <4>0 DEF InputOK, Hands
      <4> QED BY <2>1, <2>3, <3>1, <4>1, HandAlone, ElemsNat DEF InHand
    <3>2. CASE ~Complete(b, work[b].cmd)
      <4>1. work' = [work EXCEPT ![b] = Idle] BY <1>1, <3>2 DEF LineGrows
      <4>2. ~InHand(b)' BY <1>0, <4>1 DEF InHand, InputOK, Idle
      <4> QED BY <2>1, <3>2, <4>2, HandAlone
    <3> QED BY <3>1, <3>2
  <2> QED
    BY <1>1, <2>1, <2>2, <2>4, HandAlone
       DEF Joins, LineGrows, ownerVars, typeVars, pastVars
<1>2. ASSUME NEW a \in Admin, ItemJoins(a), By(a) = b
      PROVE  Joins(b, adm[a].item)
  <2>1. adm[a].item \in Seq(Nat) BY <1>0 DEF AdminOK, Jobs
  <2>2. /\ adm[a].pc = "item" /\ Resolve(a)
        /\ adm'[a].pc \in {"line", "replay"}
        /\ adm'[a].pc = "line" <=> Complete(b, adm[a].item)
        /\ adm'[a].pc = "line" => adm'[a].item = Joined(b, adm[a].item)
    BY <1>0, <1>2, Decisions DEF ItemJoins, Resolve, Steps, Goes
  <2>3. /\ \A r \in 1..Len(req) : req[r].by = b => ~Undelivered(r)
        /\ \A n \in Elems(adm[a].item) : n \in Loose(b)
        /\ Waiting(b)' = IF adm'[a].pc = "line" THEN Elems(adm'[a].item) ELSE {}
    BY <1>2, <2>2, DecisionAlone
  <2> QED
    BY <1>2, <2>1, <2>2, <2>3
       DEF Joins, ItemJoins, By, ownerVars, typeVars, pastVars
<1>3. ASSUME NEW c \in Browser, Handle(c), line'[b] # line[b]
      PROVE  line'[b] = <<>> \/ LineGrows(b)
  <2>1. CASE LineGrows(c)
    <3>1. c # b => line'[b] = line[b]
      <4>1. work[c].cmd \in Seq(Nat) BY <1>0 DEF InputOK, Hands
      <4> QED BY <1>0, <2>1, <4>1, Joining DEF LineGrows
    <3> QED BY <1>3, <2>1, <3>1
  <2>2. CASE Leave(c) \/ RemoveDead(c)
    BY <1>0, <1>3, <2>2 DEF Leave, RemoveDead, Forget, InputOK
  <2> QED
    BY <1>3, <2>1, <2>2 DEF Handle, TypePaused, TypeFree, LineAllowed,
                            GateRefuses, GateHolds, Notified, Send
<1>4. ASSUME NEW a \in Admin, Resolve(a), line'[b] # line[b]
      PROVE  ItemJoins(a) /\ By(a) = b
  <2>1. ItemJoins(a)
    BY <1>4 DEF Resolve, OpBegins, Deliver, ReplayTakes, ReplayEnds,
                ItemRefused, ItemSent, ItemFails, ItemHeld, Announced, Unpause,
                Finish, CutShort, inputVars
  <2>2. adm[a].item \in Seq(Nat) BY <1>0 DEF AdminOK, Jobs
  <2>3. By(a) \in Browser /\ line' = LineAfter(By(a), adm[a].item)
    BY <1>0, <2>1, ByBrowser DEF ItemJoins, By, Busy, Fenced
  <2> QED BY <1>0, <1>4, <2>1, <2>2, <2>3, Joining
<1>5. ASSUME line'[b] # line[b]
      PROVE  \/ line'[b] = <<>> \/ LineGrows(b)
             \/ \E a \in Admin : ItemJoins(a) /\ By(a) = b
  BY <1>3, <1>4, <1>5
     DEF Next, Expire, Transfer, LeaseExpires, Overdue, Claim, ClaimLate,
         SweepExpires, AdminTold, SettleExpired, inputVars, vars
<1> QED BY <1>1, <1>2, <1>5 DEF Joins

\* What is joined is the line, then the input.
LEMMA JoinedElems ==
  ASSUME InputOK, NEW b \in Browser, NEW s \in Seq(Nat)
  PROVE  /\ Joined(b, s) \in Seq(Nat)
         /\ Len(line[b]) \in Nat /\ Len(s) \in Nat
         /\ Len(Joined(b, s)) = Len(line[b]) + Len(s)
         /\ \A i \in 1..Len(Joined(b, s)) :
              \/ i \in 1..Len(line[b]) /\ Joined(b, s)[i] = line[b][i]
              \/ /\ i - Len(line[b]) \in 1..Len(s)
                 /\ Joined(b, s)[i] = s[i - Len(line[b])]
         /\ Elems(Joined(b, s)) \subseteq Line(b) \cup Elems(s)
<1>1. line[b] \in Seq(Nat) BY DEF InputOK
<1>2. PICK l : l = line[b] OBVIOUS
<1>3. l \in Seq(Nat) BY <1>1, <1>2
<1>4. /\ l \o s \in Seq(Nat) /\ Len(l \o s) = Len(l) + Len(s)
      /\ \A i \in 1 .. Len(l) + Len(s) :
           (l \o s)[i] = IF i <= Len(l) THEN l[i] ELSE s[i - Len(l)]
  BY <1>3, ConcatProperties
<1>5. Len(l) \in Nat /\ Len(s) \in Nat BY <1>3, LenProperties
<1>6. PICK j : j = l \o s OBVIOUS
<1>7. j = Joined(b, s) BY <1>2, <1>6 DEF Joined
<1>8. /\ j \in Seq(Nat) /\ Len(j) = Len(l) + Len(s)
      /\ \A i \in 1 .. Len(l) + Len(s) :
           j[i] = IF i <= Len(l) THEN l[i] ELSE s[i - Len(l)]
  BY <1>4, <1>6
<1>9. \A i \in 1..Len(j) :
        \/ i \in 1..Len(l) /\ j[i] = l[i]
        \/ i - Len(l) \in 1..Len(s) /\ j[i] = s[i - Len(l)]
  <2> SUFFICES ASSUME NEW i \in 1..Len(j)
               PROVE  \/ i \in 1..Len(l) /\ j[i] = l[i]
                      \/ i - Len(l) \in 1..Len(s) /\ j[i] = s[i - Len(l)]
    OBVIOUS
  <2>1. i \in 1 .. Len(l) + Len(s) /\ i \in Int BY <1>5, <1>8
  <2>2. i <= Len(l) \/ ~(i <= Len(l)) OBVIOUS
  <2>3. CASE i <= Len(l) BY <1>5, <1>8, <2>1, <2>3
  <2>4. CASE ~(i <= Len(l))
    <3>1. i - Len(l) \in 1..Len(s) BY <1>5, <2>1, <2>4
    <3> QED BY <1>8, <2>1, <2>4, <3>1
  <2> QED BY <2>3, <2>4
<1>10. Elems(j) \subseteq Elems(l) \cup Elems(s) BY <1>9 DEF Elems
<1> QED BY <1>2, <1>5, <1>7, <1>8, <1>9, <1>10 DEF Line

\* An input that waits was waiting, or comes from the keyboard, from the buffer
\* or
\* from the line it completes.
LEMMA Sources ==
  ASSUME Base, Pauses, [Next]_vars, NEW b \in Browser, NEW n \in Waiting(b)'
  PROVE  \/ n \in Loose(b)
         \/ TypeFree(b) /\ CanSend(b) /\ n = Len(typed[b]) + 1
         \/ \E a \in Admin : ReplayTakes(a) /\ By(a) = b /\ n \in Buffer(b)
         \/ \E s \in Seq(Nat) : Joins(b, s) /\ Complete(b, s) /\ n \in Line(b)
         \/ \E r \in 1..Len(req) : /\ Undelivered(r) /\ Undelivered(r)'
                                   /\ req[r].by = b /\ n \in Elems(req[r].cmd)
<1>0. /\ TypeOK /\ Working /\ InputOK /\ AdminOK /\ StoreOK /\ Kept
  BY TypeParts, StepKept DEF Base
<1>a. n \in Nat BY DEF Waiting, Loose, Commands
<1>b. ASSUME NEW s \in Seq(Nat), Joins(b, s), Complete(b, s),
             n \in Elems(Joined(b, s))
      PROVE  n \in Line(b) \/ n \in Loose(b)
  <2>1. n \in Line(b) \/ n \in Elems(s) BY <1>0, <1>b, JoinedElems
  <2> QED BY <1>b, <2>1 DEF Joins
<1>1. ASSUME InHand(b)', n \in Elems(work'[b].cmd)
      PROVE  \/ n \in Loose(b)
             \/ TypeFree(b) /\ CanSend(b) /\ n = Len(typed[b]) + 1
             \/ \E s \in Seq(Nat) :
                  Joins(b, s) /\ Complete(b, s) /\ n \in Line(b)
  <2>1. CASE InHand(b) /\ work'[b].cmd = work[b].cmd
    BY <1>1, <1>a, <2>1 DEF Loose
  <2>2. CASE /\ TypeFree(b) /\ CanSend(b)
             /\ work'[b].cmd = <<Len(typed[b]) + 1>>
    BY <1>1, <2>2 DEF Elems
  <2>3. CASE /\ LineGrows(b) /\ Complete(b, work[b].cmd)
             /\ work'[b].cmd = Joined(b, work[b].cmd)
    <3>1. Joins(b, work[b].cmd) BY <2>3, LineMoves
    <3>2. work[b].cmd \in Seq(Nat) BY <1>0 DEF InputOK, Hands
    <3> QED BY <1>1, <1>b, <2>3, <3>1, <3>2
  <2> QED BY <1>1, <2>1, <2>2, <2>3, HandBefore
<1>2. ASSUME NEW a \in Admin, adm'[a].pc \in WithItem, req'[adm'[a].r].by = b,
             n \in Elems(adm'[a].item)
      PROVE  \/ n \in Loose(b)
             \/ ReplayTakes(a) /\ By(a) = b /\ n \in Buffer(b)
             \/ \E s \in Seq(Nat) :
                  Joins(b, s) /\ Complete(b, s) /\ n \in Line(b)
  <2>1. CASE adm'[a] = adm[a]
    <3>1. adm[a].r \in 1..Len(req)
      BY <1>0, <1>2, <2>1 DEF Working, Busy, Fenced, WithItem
    <3>2. By(a) = b BY <1>0, <1>2, <2>1, <3>1 DEF Kept, By
    <3> QED BY <1>2, <1>a, <2>1, <3>2 DEF Loose
  <2>2. CASE Takes(a) BY <1>2, <2>2 DEF Takes, By, Buffer
  <2>3. CASE Completes(a)
    <3>1. By(a) = b BY <1>2, <2>3 DEF Completes, By
    <3>2. Joins(b, adm[a].item) BY <2>3, <3>1, LineMoves DEF Completes
    <3>3. adm[a].item \in Seq(Nat) BY <1>0 DEF AdminOK, Jobs
    <3>4. Complete(b, adm[a].item) /\ n \in Elems(Joined(b, adm[a].item))
      BY <1>2, <2>3, <3>1 DEF Completes
    <3> QED BY <1>b, <3>2, <3>3, <3>4
  <2> QED BY <1>2, <2>1, <2>2, <2>3, ItemBefore
<1>3. ASSUME NEW r \in 1..Len(req'), Undelivered(r)', req'[r].by = b,
             n \in Elems(req'[r].cmd)
      PROVE  \/ n \in Loose(b)
             \/ /\ r \in 1..Len(req) /\ Undelivered(r)
                /\ req[r].by = b /\ n \in Elems(req[r].cmd)
  <2>1. CASE r \in 1..Len(req)
    BY <1>0, <1>3, <2>1, UndeliveredBefore DEF Kept
  <2>2. CASE r \notin 1..Len(req)
    <3>1. ASSUME NEW c \in Browser, GateHolds(c),
                 Asks(r, c, work[c].cmd, work[c].gen)
          PROVE  n \in Loose(b)
      <4>1. c = b /\ n \in Elems(work[b].cmd) BY <1>3, <3>1 DEF Asks
      <4> QED BY <1>a, <3>1, <4>1 DEF GateHolds, InHand, Loose
    <3>2. ASSUME NEW a \in Admin, ItemHeld(a),
                 Asks(r, By(a), adm[a].item, req[adm[a].r].gen)
          PROVE  n \in Loose(b)
      BY <1>3, <1>a, <3>2 DEF Asks, ItemHeld, Loose, WithItem
    <3> QED BY <1>3, <2>2, <3>1, <3>2, RequestNew
  <2> QED BY <2>1, <2>2
<1>4. \/ InHand(b)' /\ n \in Elems(work'[b].cmd)
      \/ \E a \in Admin : /\ adm'[a].pc \in WithItem /\ req'[adm'[a].r].by = b
                          /\ n \in Elems(adm'[a].item)
      \/ \E r \in 1..Len(req') : /\ Undelivered(r)' /\ req'[r].by = b
                                 /\ n \in Elems(req'[r].cmd)
  BY DEF Waiting, Loose, Commands, By, WithItem
<1> QED BY <1>1, <1>2, <1>3, <1>4

\* The inputs s of b are all that waits, and none is left.
Leaves(b, s) ==
  /\ s \in Seq(Nat)
  /\ \A n \in Elems(s) : n \in Waiting(b)
  /\ Waiting(b)' = {}
  /\ \A r \in 1..Len(req) : req[r].by = b => req[r].status # "pending"

LEMMA SendLeaves ==
  ASSUME Base, Pauses, [Next]_vars, NEW b \in Browser, Send(b)
  PROVE  Leaves(b, work[b].cmd)
<1>0. InputOK BY TypeParts DEF Base
<1>1. work[b].cmd \in Seq(Nat) BY <1>0 DEF InputOK, Hands
<1>2. InHand(b) /\ UNCHANGED <<req, adm>> BY DEF Send, InHand
<1>3. ~InHand(b)'
  <2>1. work' = [work EXCEPT ![b] = Idle] BY DEF Send
  <2> QED BY <1>0, <2>1 DEF InHand, InputOK, Idle
<1>4. /\ \A r \in 1..Len(req) : req[r].by = b => ~Undelivered(r)
      /\ \A n \in Elems(work[b].cmd) : n \in Loose(b)
      /\ Waiting(b)' = {}
  BY <1>2, <1>3, HandAlone
<1> QED BY <1>1, <1>4 DEF Leaves, Waiting, Undelivered

LEMMA DecisionLeaves ==
  ASSUME Base, Pauses, [Next]_vars, NEW a \in Admin, NEW b \in Browser,
         b = By(a), NEW s \in Seq(Nat),
         \/ /\ Deliver(a) \/ CutShort(a)
            /\ adm[a].pc = "deliver" /\ s = req[adm[a].r].cmd
         \/ /\ ItemSent(a) \/ ItemFails(a) \/ CutShort(a)
            /\ adm[a].pc = "line" /\ s = adm[a].item
  PROVE  Leaves(b, s)
<1>0. /\ TypeOK /\ Working /\ InputOK /\ AdminOK /\ StoreOK
  BY TypeParts DEF Base
<1>1. /\ Resolve(a) /\ adm[a].pc \in {"deliver", "line"}
      /\ adm'[a].pc \in {"replay", "settle", "idle"}
  BY <1>0, Decisions DEF Resolve, Steps, Goes, Ends
<1>2. /\ \A r \in 1..Len(req) : req[r].by = b => req[r].status # "pending"
      /\ adm[a].pc # "deliver" => \A n \in Elems(adm[a].item) : n \in Loose(b)
      /\ Waiting(b)' = {}
  BY <1>1, DecisionAlone
<1>3. \A n \in Elems(s) : n \in Waiting(b)
  <2>1. CASE adm[a].pc = "deliver" /\ s = req[adm[a].r].cmd
    <3>1. adm[a].r \in 1..Len(req) BY <2>1, Holder DEF Holding
    <3>2. Undelivered(adm[a].r) BY <2>1 DEF Undelivered
    <3>3. req[adm[a].r].by = b BY DEF By
    <3> QED BY <2>1, <3>1, <3>2, <3>3, ElemsNat DEF Waiting, Commands
  <2>2. CASE adm[a].pc = "line" /\ s = adm[a].item
    BY <1>2, <2>2 DEF Waiting
  <2> QED BY <2>1, <2>2
<1> QED BY <1>2, <1>3 DEF Leaves

\* The inputs s of b are sent, and all that waits leaves with them.
Sending(b, s) ==
  /\ Follow(b, s) /\ Leaves(b, s) /\ sent' \in Seq(Delivered)
  /\ \/ /\ work[b].pc = "send" /\ gen = work[b].gen /\ s = work[b].cmd
     \/ \E a \in Admin : /\ adm[a].pc = "deliver" /\ By(a) = b
                         /\ s = req[adm[a].r].cmd
     \/ \E a \in Admin : adm[a].pc = "line" /\ By(a) = b /\ s = adm[a].item

LEMMA Sendings ==
  ASSUME Base, Pauses, [Next]_vars, ~UNCHANGED sent
  PROVE  \E b \in Browser : \E s \in Seq(Nat) : Sending(b, s)
<1>0. /\ TypeOK /\ Working /\ InputOK /\ AdminOK /\ StoreOK
      /\ req \in Seq(Request)
  BY TypeParts DEF Base, StoreOK
<1>1. ASSUME NEW b \in Browser, Send(b), gen = work[b].gen,
             Follow(b, work[b].cmd), sent' \in Seq(Delivered)
      PROVE  \E s \in Seq(Nat) : Sending(b, s)
  <2>1. work[b].cmd \in Seq(Nat) BY <1>0 DEF InputOK, Hands
  <2>2. Leaves(b, work[b].cmd) BY <1>1, SendLeaves
  <2>3. Sending(b, work[b].cmd) BY <1>1, <2>2 DEF Sending, Send
  <2> QED BY <2>1, <2>3
<1>2. ASSUME NEW a \in Admin, Deliver(a) \/ CutShort(a), adm[a].pc = "deliver",
             Follow(By(a), req[adm[a].r].cmd), sent' \in Seq(Delivered)
      PROVE  \E b \in Browser : \E s \in Seq(Nat) : Sending(b, s)
  <2>1. adm[a].r \in 1..Len(req) /\ By(a) \in Browser
    BY <1>0, <1>2, ByBrowser DEF Busy, Fenced
  <2>2. req[adm[a].r] \in Request BY <1>0, <2>1, ElementOfSeq
  <2>3. PICK s \in Seq(Nat) : s = req[adm[a].r].cmd BY <2>2 DEF Request
  <2>4. PICK b \in Browser : b = By(a) BY <2>1
  <2>5. Leaves(b, s) BY <1>2, <2>3, <2>4, DecisionLeaves
  <2>6. Follow(b, s) BY <1>2, <2>3, <2>4
  <2>8. Sending(b, s) BY <1>2, <2>3, <2>4, <2>5, <2>6 DEF Sending
  <2> QED BY <2>8
<1>3. ASSUME NEW a \in Admin, ItemSent(a) \/ ItemFails(a) \/ CutShort(a),
             adm[a].pc = "line",
             Follow(By(a), adm[a].item), sent' \in Seq(Delivered)
      PROVE  \E b \in Browser : \E s \in Seq(Nat) : Sending(b, s)
  <2>2. By(a) \in Browser BY <1>0, <1>3, ByBrowser DEF Busy, Fenced
  <2>3. PICK s \in Seq(Nat) : s = adm[a].item BY <1>0 DEF AdminOK, Jobs
  <2>4. PICK b \in Browser : b = By(a) BY <2>2
  <2>5. Leaves(b, s) BY <1>3, <2>3, <2>4, DecisionLeaves
  <2>6. Follow(b, s) BY <1>3, <2>3, <2>4
  <2>7. Sending(b, s) BY <1>3, <2>3, <2>4, <2>5, <2>6 DEF Sending
  <2> QED BY <2>7
<1> QED BY <1>0, <1>1, <1>2, <1>3, Sends

\* What reached the worker before, or leaves now.
LEMMA GoneMoves ==
  ASSUME Base, Pauses, [Next]_vars, NEW b \in Browser, NEW n \in Gone(b)',
         n \notin Gone(b)
  PROVE  /\ \E s \in Seq(Nat) : Sending(b, s)
         /\ n \in Waiting(b) /\ Waiting(b)' = {}
         /\ \A r \in 1..Len(req) : req[r].by = b => req[r].status # "pending"
<1>0. PastOK /\ sent \in Seq(Delivered) /\ Len(sent) \in Nat
  BY TypeParts, LenProperties DEF Base, PastOK, Delivered
<1>1. ~UNCHANGED sent BY DEF Gone
<1>2. PICK c \in Browser, s \in Seq(Nat) :
        Sending(c, s) /\ Follow(c, s) /\ Leaves(c, s)
  BY <1>1, Sendings DEF Sending
<1>3. PICK i \in 1..Len(sent') : sent'[i].from = b /\ sent'[i].n = n
  BY DEF Gone
<1>4. Len(s) \in Nat BY LenProperties
<1>5. CASE i \in 1..Len(sent) BY <1>2, <1>3, <1>5 DEF Follow, Gone
<1>6. CASE i \notin 1..Len(sent)
  <2>1. i - Len(sent) \in 1..Len(s) /\ i = Len(sent) + (i - Len(sent))
    BY <1>0, <1>2, <1>4, <1>6 DEF Follow
  <2>2. sent'[i] = [from |-> c, n |-> s[i - Len(sent)], gen |-> gen]
    BY <1>2, <2>1 DEF Follow
  <2>3. c = b /\ n \in Elems(s) BY <1>3, <2>1, <2>2 DEF Elems
  <2> QED BY <1>2, <2>3 DEF Leaves
<1> QED BY <1>5, <1>6

\* What a browser typed is not forgotten, nor whether it ends a line.
LEMMA TypedMoves ==
  ASSUME Base, [Next]_vars, NEW b \in Browser
  PROVE  /\ Len(typed[b]) \in Nat /\ Len(typed'[b]) \in Nat
         /\ Len(typed[b]) <= Len(typed'[b])
         /\ \A n \in 1..Len(typed[b]) :
              /\ typed'[b][n] = typed[b][n]
              /\ <<b, n>> \in newline' <=> <<b, n>> \in newline
         /\ \/ typed'[b] = typed[b] /\ ~TypePaused(b) /\ ~TypeFree(b)
            \/ /\ TypePaused(b) \/ TypeFree(b)
               /\ Len(typed'[b]) = Len(typed[b]) + 1
               /\ typed'[b][Len(typed[b]) + 1] = gen
<1>0. InputOK /\ OwnerOK /\ typed[b] \in Seq(Nat) /\ gen \in Nat
      /\ Len(typed[b]) \in Nat
  BY TypeParts, LenProperties DEF Base, InputOK, OwnerOK
<1>a. /\ Len(Append(typed[b], gen)) = Len(typed[b]) + 1
      /\ \A i \in 1..Len(typed[b]) : Append(typed[b], gen)[i] = typed[b][i]
      /\ Append(typed[b], gen)[Len(typed[b]) + 1] = gen
  BY <1>0, AppendProperties
<1>1. ASSUME NEW c \in Browser, TypePaused(c) \/ TypeFree(c) PROVE Typed(c)
  BY <1>1 DEF TypePaused, TypeFree
<1>2. CASE TypePaused(b) \/ TypeFree(b)
  <2>1. Typed(b) BY <1>1, <1>2
  <2>2. typed'[b] = Append(typed[b], gen) BY <1>0, <2>1, TypedTypes
  <2>3. newline' \in {newline, newline \cup {<<b, Len(typed[b]) + 1>>}}
    BY <2>1 DEF Typed
  <2>4. \A n \in 1..Len(typed[b]) : <<b, n>> \in newline'
          <=> <<b, n>> \in newline
    BY <1>0, <2>3
  <2> QED BY <1>0, <1>2, <1>a, <2>2, <2>4
<1>3. ASSUME NEW c \in Browser, c # b, TypePaused(c) \/ TypeFree(c)
      PROVE  /\ typed'[b] = typed[b]
             /\ \A n \in Nat : <<b, n>> \in newline' <=> <<b, n>> \in newline
  <2>1. Typed(c) BY <1>1, <1>3
  <2>2. typed'[b] = typed[b] BY <1>0, <1>3, <2>1, TypedTypes
  <2>3. newline' \in {newline, newline \cup {<<c, Len(typed[c]) + 1>>}}
    BY <2>1 DEF Typed
  <2> QED BY <1>3, <2>2, <2>3
<1>4. \/ UNCHANGED <<typed, newline>>
      \/ \E c \in Browser : TypePaused(c) \/ TypeFree(c)
  BY DEF Next, Handle, LineGrows, LineAllowed, GateRefuses, GateHolds, Notified,
         Send, Leave, RemoveDead, Forget, Expire, Transfer, LeaseExpires,
         Overdue, Claim, ClaimLate, Resolve, OpBegins, Deliver, ReplayTakes,
         ReplayEnds, ItemJoins, ItemRefused, ItemSent, ItemFails, CutShort,
         ItemHeld, Announced, Unpause, Finish, SweepExpires, AdminTold,
         SettleExpired, typeVars, inputVars, vars
<1>5. CASE ~(TypePaused(b) \/ TypeFree(b))
  <2>1. /\ typed'[b] = typed[b]
        /\ \A n \in Nat : <<b, n>> \in newline' <=> <<b, n>> \in newline
    BY <1>3, <1>4, <1>5
  <2> QED BY <1>0, <1>5, <2>1
<1> QED BY <1>2, <1>5

LEMMA StrandedGrows == ASSUME [Next]_vars PROVE stranded \subseteq stranded'
BY Strands

\* What becomes of a buffer: it is emptied, it grows by what is typed, or it is
\* kept; whoever goes on has none left that was not stranded.
LEMMA HoldMoves ==
  ASSUME Base, [Next]_vars, NEW b \in Browser
  PROVE  /\ \/ hold'[b] = hold[b] \/ hold'[b] = <<>>
            \/ /\ TypePaused(b)
               /\ hold'[b] = Append(hold[b], Len(typed[b]) + 1)
         /\ \A a \in Admin : ReplayTakes(a) /\ By(a) = b => hold'[b] = <<>>
         /\ b \in paused \ paused' =>
              \/ hold'[b] = <<>>
              \/ /\ hold'[b] = hold[b]
                 /\ \A i \in 1..Len(hold[b]) : <<b, hold[b][i]>> \in stranded'
<1> DEFINE Moved ==
      /\ \/ hold'[b] = hold[b] \/ hold'[b] = <<>>
         \/ /\ TypePaused(b)
            /\ hold'[b] = Append(hold[b], Len(typed[b]) + 1)
      /\ b \in paused \ paused' =>
           \/ hold'[b] = <<>>
           \/ /\ hold'[b] = hold[b]
              /\ \A i \in 1..Len(hold[b]) : <<b, hold[b][i]>> \in stranded'
<1>0. InputOK /\ AdminOK /\ Working BY TypeParts DEF Base
<1>1. ASSUME UNCHANGED hold, paused \subseteq paused' PROVE Moved BY <1>1
<1>2. ASSUME NEW c \in Browser, Handle(c) PROVE Moved
  <2>1. CASE TypePaused(c)
    <3>1. UNCHANGED paused BY <2>1 DEF TypePaused
    <3>2. \/ UNCHANGED hold
          \/ hold' = [hold EXCEPT ![c] = Append(@, Len(typed[c]) + 1)]
      BY <2>1 DEF TypePaused
    <3>3. c # b => hold'[b] = hold[b] BY <1>0, <3>2 DEF InputOK
    <3>4. c = b => \/ hold'[b] = hold[b]
                   \/ hold'[b] = Append(hold[b], Len(typed[b]) + 1)
      BY <1>0, <3>2 DEF InputOK
    <3> QED BY <2>1, <3>1, <3>3, <3>4
  <2>2. CASE Leave(c) \/ RemoveDead(c)
    <3>1. /\ paused' = paused \ {c} /\ hold' = [hold EXCEPT ![c] = <<>>]
      BY <2>2 DEF Leave, RemoveDead, Forget
    <3> QED BY <1>0, <3>1 DEF InputOK
  <2>3. CASE GateHolds(c) BY <1>1, <2>3 DEF GateHolds
  <2> QED
    BY <1>1, <1>2, <2>1, <2>2, <2>3
       DEF Handle, TypeFree, LineGrows, LineAllowed, GateRefuses, Notified,
           Send, inputVars
<1>3. ASSUME NEW a \in Admin, Unpause(a) PROVE Moved
  <2>1. PICK c : c = By(a) OBVIOUS
  <2>2. CASE UNCHANGED <<paused, hold>> BY <1>1, <2>2
  <2>3. CASE hold' = [hold EXCEPT ![c] = <<>>] /\ paused \ {c} \subseteq paused'
    BY <1>0, <2>3 DEF InputOK
  <2>4. CASE /\ UNCHANGED hold /\ paused' = paused \ {c}
             /\ stranded' = stranded \cup {<<c, hold[c][i]>> :
                  i \in 1..Len(hold[c])}
    BY <2>4
  <2>5. CASE UNCHANGED hold /\ paused' = paused BY <1>1, <2>5
  <2>6. c = req[adm[a].r].by BY <2>1 DEF By
  <2> QED BY <1>3, <2>2, <2>3, <2>4, <2>5, <2>6 DEF Unpause
<1>4. ASSUME NEW a \in Admin, ReplayTakes(a)
      PROVE  Moved /\ (By(a) = b => hold'[b] = <<>>)
  <2>1. UNCHANGED paused /\ hold' = [hold EXCEPT ![By(a)] = <<>>]
    BY <1>4 DEF ReplayTakes, By
  <2> QED BY <1>0, <2>1 DEF InputOK
<1>5. ASSUME NEW t \in Notifier, SettleExpired(t) PROVE Moved
  <2>1. PICK r \in told[t] : Settles(t, r) BY <1>5, SettlesOne
  <2>2. PICK c : c = req[r].by OBVIOUS
  <2>3. paused' = paused \ {c} /\ hold' = [hold EXCEPT ![c] = <<>>]
    BY <2>1, <2>2 DEF Settles
  <2> QED BY <1>0, <2>3 DEF InputOK
<1>6. ASSUME NEW a \in Admin, Resolve(a) PROVE Moved
  <2>1. CASE ItemHeld(a) BY <1>1, <2>1 DEF ItemHeld
  <2> QED
    BY <1>1, <1>3, <1>4, <1>6, <2>1
       DEF Resolve, OpBegins, Deliver, ReplayEnds, ItemJoins, ItemRefused,
           ItemSent, ItemFails, CutShort, Announced, Finish, inputVars
<1>7. Moved
  BY <1>1, <1>2, <1>5, <1>6
     DEF Next, Expire, Transfer, LeaseExpires, Overdue, Claim, ClaimLate,
         SweepExpires, AdminTold, inputVars, vars
<1> QED BY <1>4, <1>7

LEMMA BufferMoves ==
  ASSUME Base, [Next]_vars, NEW b \in Browser
  PROVE  /\ \A n \in Buffer(b)' :
              n \in Buffer(b) \/ (TypePaused(b) /\ n = Len(typed[b]) + 1)
         /\ \A a \in Admin : ReplayTakes(a) /\ By(a) = b => Buffer(b)' = {}
         /\ b \in paused \ paused' => \A n \in Buffer(b)' : ~Fresh(b, n)'
<1>0. hold[b] \in Seq(Nat) /\ typed[b] \in Seq(Nat) /\ Len(typed[b]) \in Nat
      /\ Len(hold[b]) \in Nat
  BY TypeParts, LenProperties DEF Base, InputOK
<1>1. ASSUME hold'[b] = <<>> PROVE Buffer(b)' = {}
  BY <1>1, EmptySeq DEF Buffer, Elems
<1>2. ASSUME hold'[b] = hold[b] PROVE Buffer(b)' = Buffer(b)
  BY <1>2 DEF Buffer, Elems
<1>3. ASSUME hold'[b] = Append(hold[b], Len(typed[b]) + 1), NEW n \in Buffer(b)'
      PROVE  n \in Buffer(b) \/ n = Len(typed[b]) + 1
  <2> DEFINE m == Len(typed[b]) + 1
  <2>1. m \in Nat BY <1>0
  <2> HIDE DEF m
  <2>2. /\ Len(Append(hold[b], m)) = Len(hold[b]) + 1
        /\ \A i \in 1..Len(hold[b]) : Append(hold[b], m)[i] = hold[b][i]
        /\ Append(hold[b], m)[Len(hold[b]) + 1] = m
    BY <1>0, <2>1, AppendProperties
  <2>3. hold'[b] = Append(hold[b], m) BY <1>3 DEF m
  <2>4. PICK i \in 1..Len(hold'[b]) : n = hold'[b][i]
    BY <1>3 DEF Buffer, Elems
  <2>5. CASE i \in 1..Len(hold[b])
    BY <2>2, <2>3, <2>4, <2>5 DEF Buffer, Elems
  <2>6. CASE i = Len(hold[b]) + 1 BY <2>2, <2>3, <2>4, <2>6 DEF m
  <2> QED BY <1>0, <2>2, <2>3, <2>4, <2>5, <2>6
<1>4. ASSUME b \in paused \ paused', NEW n \in Buffer(b)' PROVE ~Fresh(b, n)'
  <2>1. \/ hold'[b] = <<>>
        \/ /\ hold'[b] = hold[b]
           /\ \A i \in 1..Len(hold[b]) : <<b, hold[b][i]>> \in stranded'
    BY <1>4, HoldMoves
  <2>2. CASE hold'[b] = <<>> BY <1>1, <1>4, <2>2
  <2>3. CASE hold'[b] # <<>>
    <3>1. PICK i \in 1..Len(hold[b]) : n = hold[b][i]
      BY <1>4, <2>1, <2>3 DEF Buffer, Elems
    <3> QED BY <2>1, <2>3, <3>1 DEF Fresh
  <2> QED BY <2>2, <2>3
<1> QED BY <1>1, <1>2, <1>3, <1>4, HoldMoves

\* What a line has now it had, or joins it now, and then nothing waits.
LEMMA LineBefore ==
  ASSUME Base, Pauses, [Next]_vars, NEW b \in Browser, NEW n \in Line(b)'
  PROVE  \/ n \in Line(b) /\ line'[b] = line[b]
         \/ \E s \in Seq(Nat) :
              /\ Joins(b, s) /\ ~TooLong(b, s) /\ ~Complete(b, s)
              /\ line'[b] = Joined(b, s)
              /\ n \in Line(b) \/ n \in Elems(s)
<1>0. InputOK BY TypeParts DEF Base
<1>1. CASE line'[b] = line[b] BY <1>1 DEF Line
<1>2. CASE line'[b] = <<>> BY <1>2, EmptySeq DEF Line, Elems
<1>3. ASSUME NEW s \in Seq(Nat), Joins(b, s), line'[b] # <<>>
      PROVE  \/ n \in Line(b) /\ line'[b] = line[b]
             \/ \E u \in Seq(Nat) :
                  /\ Joins(b, u) /\ ~TooLong(b, u) /\ ~Complete(b, u)
                  /\ line'[b] = Joined(b, u)
                  /\ n \in Line(b) \/ n \in Elems(u)
  <2>1. /\ ~TooLong(b, s) /\ ~Complete(b, s) /\ line'[b] = Joined(b, s)
    BY <1>0, <1>3, Joining DEF Joins
  <2>2. n \in Elems(Joined(b, s)) BY <2>1 DEF Line
  <2>3. n \in Line(b) \/ n \in Elems(s) BY <1>0, <2>2, JoinedElems
  <2> QED BY <1>3, <2>1, <2>3
<1> QED BY <1>1, <1>2, <1>3, LineMoves

-----------------------------------------------------------------------------
(* No input is in two places. *)

Known(b) ==
  /\ \A n \in Waiting(b) \cup Gone(b) \cup Line(b) \cup Buffer(b) :
       n \in 1..Len(typed[b])
  /\ \A r \in 1..Len(req) : req[r].by = b =>
       \A n \in Elems(req[r].cmd) : n \in 1..Len(typed[b])

Apart(b) ==
  /\ \A n \in Buffer(b) : n \notin Waiting(b) /\ n \notin Line(b)
       /\ n \notin Gone(b)
  /\ \A n \in Waiting(b) : n \notin Line(b) /\ n \notin Gone(b)
  /\ \A n \in Line(b) : n \notin Gone(b)
  /\ \A r \in 1..Len(req) : req[r].by = b => \A n \in Elems(req[r].cmd) :
       /\ n \notin Buffer(b) /\ n \notin Line(b)
       /\ n \in Waiting(b) => Undelivered(r)
       /\ req[r].status \in Unsent => n \notin Gone(b)

\* What waits now waited before, was buffered or part of the line, or was typed
\* just
\* now.
LEMMA WaitingBefore ==
  ASSUME Base, Pauses, [Next]_vars, NEW b \in Browser, NEW n \in Waiting(b)'
  PROVE  \/ n \in Waiting(b)
         \/ TypeFree(b) /\ n = Len(typed[b]) + 1
         \/ n \in Buffer(b) /\ Buffer(b)' = {}
         \/ n \in Line(b) /\ Line(b)' = {}
<1>0. InputOK BY TypeParts DEF Base
<1>1. ASSUME NEW r \in 1..Len(req), Undelivered(r), req[r].by = b,
             n \in Elems(req[r].cmd)
      PROVE  n \in Waiting(b)
  <2>1. n \in Nat BY DEF Waiting, Loose, Commands
  <2> QED BY <1>1, <2>1 DEF Waiting, Commands
<1>2. n \in Loose(b) => n \in Waiting(b) BY DEF Waiting
<1>3. \A a \in Admin : ReplayTakes(a) /\ By(a) = b => Buffer(b)' = {}
  BY BufferMoves
<1>4. ASSUME NEW s \in Seq(Nat), Joins(b, s), Complete(b, s) PROVE Line(b)' = {}
  <2>1. line'[b] = <<>> BY <1>0, <1>4, Joining DEF Joins
  <2> QED BY <2>1, EmptySeq DEF Line, Elems
<1> QED BY <1>1, <1>2, <1>3, <1>4, Sources

\* While a command waits for its decision or its turn, nothing else does.
LEMMA Separate ==
  ASSUME Base, Pauses, NEW r \in 1..Len(req), Undelivered(r)
  PROVE  /\ Loose(req[r].by) = {}
         /\ \A q \in 1..Len(req) : Undelivered(q) /\ req[q].by = req[r].by
              => q = r
<1>1. r \in Owed /\ ~InHand(req[r].by) BY UndeliveredOwed DEF Pauses
<1>2. ASSUME NEW a \in Admin, adm[a].pc \in WithItem, By(a) = req[r].by
        PROVE FALSE
  <2>1. /\ r = adm[a].r /\ req[r].status = "resolving"
        /\ \A c \in Admin : adm[c].pc \in Busy /\ adm[c].r = r => c = a
    BY <1>1, <1>2, Holder DEF Holding, WithItem
  <2> QED BY <1>2, <2>1 DEF Undelivered, Busy, Fenced, WithItem
<1> QED BY <1>1, <1>2, UndeliveredOwed DEF Pauses, Loose

\* What a new request asks for was loose.
LEMMA CommandNew ==
  ASSUME Base, [Next]_vars, NEW r \in 1..Len(req'), r \notin 1..Len(req),
         NEW n \in Elems(req'[r].cmd)
  PROVE  /\ n \in Loose(req'[r].by) /\ UNCHANGED <<sent, line>>
         /\ req'[r].status = "pending"
         /\ \A m \in Elems(req'[r].cmd) : m \in Loose(req'[r].by)
<1>0. InputOK /\ AdminOK BY TypeParts DEF Base
<1> DEFINE b == req'[r].by
<1>1. ASSUME NEW c \in Browser, GateHolds(c),
        Asks(r, c, work[c].cmd, work[c].gen)
      PROVE  /\ UNCHANGED sent /\ req'[r].status = "pending"
             /\ UNCHANGED line
             /\ \A m \in Elems(req'[r].cmd) : m \in Loose(req'[r].by)
  <2>1. /\ req'[r].by = c /\ req'[r].cmd = work[c].cmd
        /\ req'[r].status = "pending"
    BY <1>1 DEF Asks
  <2>2. InHand(c) /\ UNCHANGED <<sent, line>>
    BY <1>1 DEF GateHolds, InHand, pastVars
  <2>3. work[c].cmd \in Seq(Nat) BY <1>0 DEF InputOK, Hands
  <2>4. \A m \in Elems(work[c].cmd) : m \in Nat BY <2>3, ElemsNat
  <2> QED BY <2>1, <2>2, <2>4 DEF Loose
<1>2. ASSUME NEW a \in Admin, ItemHeld(a),
             Asks(r, By(a), adm[a].item, req[adm[a].r].gen)
      PROVE  /\ UNCHANGED sent /\ req'[r].status = "pending"
             /\ UNCHANGED line
             /\ \A m \in Elems(req'[r].cmd) : m \in Loose(req'[r].by)
  <2>1. /\ req'[r].by = By(a) /\ req'[r].cmd = adm[a].item
        /\ req'[r].status = "pending"
    BY <1>2 DEF Asks
  <2>2. adm[a].pc \in WithItem /\ UNCHANGED <<sent, line>>
    BY <1>2 DEF ItemHeld, pastVars, WithItem
  <2>3. adm[a].item \in Seq(Nat) BY <1>0 DEF AdminOK, Jobs
  <2>4. \A m \in Elems(adm[a].item) : m \in Nat BY <2>3, ElemsNat
  <2> QED BY <2>1, <2>2, <2>4 DEF Loose
<1> QED BY <1>1, <1>2, RequestNew

LEMMA KnownStep ==
  ASSUME Base, Pauses, [Next]_vars, NEW b \in Browser, Known(b)
  PROVE  Known(b)'
<1>0. Kept BY StepKept DEF Base
<1>1. /\ Len(typed[b]) \in Nat /\ Len(typed'[b]) \in Nat
      /\ Len(typed[b]) <= Len(typed'[b])
      /\ TypePaused(b) \/ TypeFree(b) => Len(typed'[b]) = Len(typed[b]) + 1
  BY TypedMoves
<1>2. \A n \in 1..Len(typed[b]) : n \in 1..Len(typed'[b]) BY <1>1
<1>3. TypePaused(b) \/ TypeFree(b) => Len(typed[b]) + 1 \in 1..Len(typed'[b])
  BY <1>1
<1>4. ASSUME NEW n \in Waiting(b)' PROVE n \in 1..Len(typed'[b])
  BY <1>2, <1>3, <1>4, WaitingBefore DEF Known
<1>5. ASSUME NEW n \in Gone(b)' PROVE n \in 1..Len(typed'[b])
  BY <1>2, <1>5, GoneMoves DEF Known
<1>6. ASSUME NEW n \in Buffer(b)' PROVE n \in 1..Len(typed'[b])
  BY <1>2, <1>3, <1>6, BufferMoves DEF Known
<1>8. ASSUME NEW n \in Line(b)' PROVE n \in 1..Len(typed'[b])
  <2>1. n \in Line(b) \/ n \in Waiting(b)
    BY <1>8, LineBefore DEF Joins, Waiting
  <2> QED BY <1>2, <2>1 DEF Known
<1>7. ASSUME NEW r \in 1..Len(req'), req'[r].by = b,
        NEW n \in Elems(req'[r].cmd)
      PROVE  n \in 1..Len(typed'[b])
  <2>1. CASE r \in 1..Len(req) BY <1>0, <1>2, <1>7, <2>1 DEF Kept, Known
  <2>2. CASE r \notin 1..Len(req)
    BY <1>2, <1>7, <2>2, CommandNew DEF Known, Waiting
  <2> QED BY <2>1, <2>2
<1> QED BY <1>4, <1>5, <1>6, <1>7, <1>8 DEF Known

LEMMA ApartStep ==
  ASSUME Base, Pauses, [Next]_vars, NEW b \in Browser, Known(b), Apart(b)
  PROVE  Apart(b)'
<1>0. Kept /\ TypeOK /\ Working BY StepKept DEF Base
<1>1. Len(typed[b]) \in Nat BY TypedMoves
<1>2. TypePaused(b) => ~TypeFree(b) BY DEF TypePaused, TypeFree
<1>3. Len(typed[b]) + 1 \notin
        Waiting(b) \cup Gone(b) \cup Line(b) \cup Buffer(b)
  BY <1>1 DEF Known
<1>a. ASSUME NEW n \in Line(b)'
      PROVE  \/ n \in Line(b)
             \/ /\ n \in Waiting(b) /\ n \notin Waiting(b)' /\ UNCHANGED sent
                /\ \A r \in 1..Len(req) : req[r].by = b => ~Undelivered(r)
  BY <1>a, LineBefore DEF Joins, Waiting
<1>b. ASSUME NEW n \in Line(b)'
      PROVE  n \notin Buffer(b)' /\ n \notin Waiting(b)' /\ n \notin Gone(b)'
  <2>1. n \notin Buffer(b)' BY <1>3, <1>a, <1>b, BufferMoves DEF Apart
  <2>2. n \notin Waiting(b)' BY <1>3, <1>a, <1>b, WaitingBefore DEF Apart
  <2>3. n \notin Gone(b)'
    <3>1. CASE n \in Line(b) BY <3>1, GoneMoves DEF Apart
    <3>2. CASE n \in Waiting(b) /\ UNCHANGED sent BY <3>2 DEF Apart, Gone
    <3> QED BY <1>a, <1>b, <3>1, <3>2
  <2> QED BY <2>1, <2>2, <2>3
<1>4. ASSUME NEW n \in Buffer(b)' PROVE n \notin Waiting(b)'
  BY <1>2, <1>3, <1>4, WaitingBefore, BufferMoves DEF Apart
<1>5. ASSUME NEW n \in Buffer(b)' PROVE n \notin Gone(b)'
  BY <1>3, <1>5, GoneMoves, BufferMoves DEF Apart
<1>6. ASSUME NEW n \in Waiting(b)' PROVE n \notin Gone(b)'
  BY <1>3, <1>6, GoneMoves, WaitingBefore DEF Apart
<1>7. ASSUME NEW r \in 1..Len(req'), r \in 1..Len(req), req'[r].by = b,
             NEW n \in Elems(req'[r].cmd)
      PROVE  /\ n \notin Buffer(b)' /\ n \notin Line(b)'
             /\ n \in Waiting(b)' => Undelivered(r)'
             /\ req'[r].status \in Unsent => n \notin Gone(b)'
  <2>1. req[r].by = b /\ n \in Elems(req[r].cmd) BY <1>0, <1>7 DEF Kept
  <2>2. /\ n \notin Buffer(b) /\ n \notin Line(b) /\ n \in 1..Len(typed[b])
        /\ n \in Waiting(b) => Undelivered(r)
        /\ req[r].status \in Unsent => n \notin Gone(b)
    BY <1>7, <2>1 DEF Apart, Known
  <2>3. n # Len(typed[b]) + 1 BY <1>1, <2>2
  <2>4. n \notin Buffer(b)' /\ n \notin Line(b)'
    BY <1>7, <1>a, <2>1, <2>2, <2>3, BufferMoves
  <2>5. ASSUME n \in Waiting(b)' PROVE Undelivered(r)'
    <3>1. n \in Waiting(b) BY <2>2, <2>3, <2>5, WaitingBefore
    <3>2. Loose(b) = {}
          /\ \A q \in 1..Len(req) : Undelivered(q) /\ req[q].by = b => q = r
      BY <1>7, <2>1, <2>2, <3>1, Separate
    <3>3. \A s \in Seq(Nat) : ~Joins(b, s)
      BY <1>7, <2>1, <2>2, <3>1 DEF Joins
    <3> QED BY <2>2, <2>3, <2>5, <3>2, <3>3, Sources
  <2>6. ASSUME req'[r].status \in Unsent, n \in Gone(b)' PROVE FALSE
    <3>1. req[r].status \in Unsent BY <1>0, <1>7, <2>6, UnsentBefore
    <3>2. n \in Waiting(b) /\ req[r].status # "pending"
      BY <1>7, <2>1, <2>2, <2>6, <3>1, GoneMoves
    <3>3. PICK a \in Admin : adm[a].pc \in {"fence", "deliver"} /\ adm[a].r = r
      BY <2>2, <3>2 DEF Undelivered
    <3>4. req[r].status = "resolving" BY <3>3, Holder DEF Holding
    <3> QED BY <3>1, <3>4 DEF Unsent
  <2> QED BY <2>4, <2>5, <2>6
<1>8. ASSUME NEW r \in 1..Len(req'), r \notin 1..Len(req), req'[r].by = b,
             NEW n \in Elems(req'[r].cmd)
      PROVE  /\ n \notin Buffer(b)' /\ n \notin Line(b)'
             /\ n \in Waiting(b)' => Undelivered(r)'
             /\ req'[r].status \in Unsent => n \notin Gone(b)'
  <2>1. /\ n \in Waiting(b) /\ UNCHANGED <<sent, line>>
        /\ req'[r].status = "pending"
    BY <1>8, CommandNew DEF Waiting
  <2>2. n \notin Buffer(b)' /\ n \notin Line(b)'
    BY <1>3, <2>1, BufferMoves DEF Apart, Line
  <2>3. n \notin Gone(b)' BY <2>1 DEF Apart, Gone
  <2>4. Undelivered(r)' BY <2>1 DEF Undelivered
  <2> QED BY <2>2, <2>3, <2>4
<1> QED BY <1>4, <1>5, <1>6, <1>7, <1>8, <1>b DEF Apart

Places == \A b \in Browser : Known(b) /\ Apart(b)

LEMMA NothingPlaced ==
  ASSUME Init, NEW b \in Browser
  PROVE  /\ Len(req) = 0 /\ Len(sent) = 0 /\ Len(typed[b]) = 0
         /\ Waiting(b) = {} /\ Gone(b) = {} /\ Line(b) = {} /\ Buffer(b) = {}
<1>1. /\ Len(req) = 0 /\ Len(sent) = 0 /\ Len(typed[b]) = 0 /\ Len(hold[b]) = 0
      /\ Len(line[b]) = 0
  BY EmptySeq DEF Init
<1>2. ~InHand(b) /\ \A a \in Admin : adm[a].pc \notin WithItem
  BY DEF Init, InHand, Idle, NoJob, WithItem
<1> QED BY <1>1, <1>2 DEF Waiting, Loose, Commands, Gone, Buffer, Line, Elems

LEMMA PlacesAlways == Spec => [](Base /\ Pauses /\ Places)
<1>1. ASSUME Init PROVE Places
  <2> SUFFICES ASSUME NEW b \in Browser PROVE Known(b) /\ Apart(b) BY DEF Places
  <2>1. /\ \A r \in 1..Len(req) : FALSE
        /\ Waiting(b) = {} /\ Gone(b) = {} /\ Line(b) = {} /\ Buffer(b) = {}
    BY <1>1, NothingPlaced
  <2> QED BY <2>1 DEF Known, Apart
<1>2. Base /\ Pauses /\ Places /\ [Next]_vars => Places'
  BY KnownStep, ApartStep DEF Places
<1> QED BY <1>1, <1>2, PausesAlways, PTL DEF Spec

\* No command reaches the worker while it waits for its decision, nor after it
\* was rejected or its time ran out: neither by the approval itself, nor by the
\* replay of another, nor by the handler that typed it.
THEOREM OnlyApproved == Spec => []OnlyApprovedRuns
<1>1. ASSUME Base, Places PROVE OnlyApprovedRuns
  <2> SUFFICES ASSUME NEW r \in 1..Len(req), req[r].status \in Unsent,
                      NEW i \in 1..Len(sent), NEW k \in 1..Len(req[r].cmd),
                      sent[i].from = req[r].by, sent[i].n = req[r].cmd[k]
               PROVE  FALSE
    BY DEF OnlyApprovedRuns, NotDelivered, Unsent
  <2>1. /\ req \in Seq(Request) /\ sent \in Seq(Delivered)
    BY <1>1, TypeParts DEF Base, StoreOK, PastOK, Delivered
  <2>2. req[r] \in Request /\ sent[i] \in Delivered BY <2>1, ElementOfSeq
  <2>3. req[r].by \in Browser /\ sent[i].n \in Nat
    BY <2>2 DEF Request, Delivered
  <2>4. sent[i].n \in Elems(req[r].cmd) BY DEF Elems
  <2>5. sent[i].n \in Gone(req[r].by) BY <2>3 DEF Gone
  <2> QED BY <1>1, <2>3, <2>4, <2>5 DEF Places, Apart
<1> QED BY <1>1, PlacesAlways, PTL

-----------------------------------------------------------------------------
(* What waits follows what is gone, and what is buffered follows both. *)

\* A sequence of inputs of b in the order typed, those in ex aside.
Rising(b, s, ex) ==
  \A i, j \in 1..Len(s) :
    i < j /\ <<b, s[i]>> \notin ex /\ <<b, s[j]>> \notin ex => s[i] < s[j]

\* Between what is gone and what waits is the line; what is buffered comes last.
Queued(b) ==
  /\ Rising(b, hold[b], stranded) /\ Rising(b, line[b], stranded)
  /\ b \notin paused => \A n \in Buffer(b) : ~Fresh(b, n)
  /\ \A m \in Gone(b), n \in Line(b) \cup Waiting(b) \cup Buffer(b) :
       Fresh(b, m) /\ Fresh(b, n) => m < n
  /\ \A m \in Line(b), n \in Waiting(b) \cup Buffer(b) :
       Fresh(b, m) /\ Fresh(b, n) => m < n
  /\ \A m \in Waiting(b), n \in Buffer(b) :
       Fresh(b, m) /\ Fresh(b, n) => m < n

Ordered ==
  /\ \A b \in Browser : InHand(b) => Rising(b, work[b].cmd, stranded)
  /\ \A r \in 1..Len(req) : Rising(req[r].by, req[r].cmd, stranded)
  /\ \A a \in Admin : adm[a].pc \in WithItem
       => Rising(By(a), adm[a].item, stranded)

\* The line is empty from when it is complete until its command is gone.
LineEmpty ==
  /\ \A b \in Browser : work[b].pc \in {"line", "send"} => line[b] = <<>>
  /\ \A a \in Admin : adm[a].pc = "line" => line[By(a)] = <<>>
  /\ \A r \in 1..Len(req) : Undelivered(r) => line[req[r].by] = <<>>

\* What a line is joined by is in the hands of a handler, or of a decision.
LEMMA LineEmptyStep ==
  ASSUME Base, Pauses, [Next]_vars, LineEmpty
  PROVE  LineEmpty'
<1>0. /\ TypeOK /\ Working /\ InputOK /\ AdminOK /\ StoreOK /\ Kept
      /\ req \in Seq(Request)
  BY TypeParts, StepKept DEF Base, StoreOK
<1>1. ASSUME NEW b \in Browser, line[b] = <<>>, line'[b] # <<>>
      PROVE  \E s \in Seq(Nat) : Joins(b, s)
  BY <1>1, LineMoves
<1>2. ASSUME NEW b \in Browser, NEW s \in Seq(Nat), Joins(b, s), Complete(b, s)
      PROVE  line'[b] = <<>>
  BY <1>0, <1>2, Joining DEF Joins
<1>3. ASSUME NEW b \in Browser, work'[b].pc \in {"line", "send"}
      PROVE  line'[b] = <<>>
  <2>1. CASE InHand(b) /\ (work'[b].pc = "gate" <=> work[b].pc = "gate")
    <3>1. work[b].pc \in {"line", "send"} BY <1>3, <2>1 DEF InHand
    <3>2. line[b] = <<>> BY <3>1 DEF LineEmpty
    <3>3. ASSUME NEW s \in Seq(Nat), Joins(b, s) PROVE FALSE
      <4>1. PICK a \in Admin : adm[a].pc = "item" /\ By(a) = b
        BY <3>1, <3>3 DEF Joins
      <4> QED BY <2>1, <4>1, Holder DEF Holding
    <3> QED BY <1>1, <3>2, <3>3
  <2>2. CASE LineGrows(b) /\ Complete(b, work[b].cmd)
    <3>1. Joins(b, work[b].cmd) BY <2>2, LineMoves
    <3>2. work[b].cmd \in Seq(Nat) BY <1>0 DEF InputOK, Hands
    <3> QED BY <1>2, <2>2, <3>1, <3>2
  <2>3. CASE TypeFree(b) /\ CanSend(b)
    <3>1. work' = [work EXCEPT ![b] = [pc |-> "gate",
                                       cmd |-> <<Len(typed[b]) + 1>>,
                                       gen |-> gen]]
      BY <2>3 DEF TypeFree
    <3>2. work'[b].pc = "gate" BY <1>0, <3>1 DEF InputOK
    <3> QED BY <1>3, <3>2
  <2>4. InHand(b)' BY <1>3 DEF InHand
  <2> QED BY <2>1, <2>2, <2>3, <2>4, HandBefore
<1>4. ASSUME NEW a \in Admin, adm'[a].pc = "line"
      PROVE  line'[req'[adm'[a].r].by] = <<>>
  <2>1. CASE adm'[a] = adm[a]
    <3>1. /\ adm[a].r \in 1..Len(req) /\ By(a) \in Browser /\ ~InHand(By(a))
          /\ \A r \in Owed : req[r].by = By(a) => r = adm[a].r
          /\ \A c \in Admin : adm[c].pc \in Busy /\ adm[c].r = adm[a].r => c = a
      BY <1>4, <2>1, Holder DEF Holding
    <3>2. line[By(a)] = <<>> BY <1>4, <2>1 DEF LineEmpty
    <3>3. ASSUME NEW s \in Seq(Nat), Joins(By(a), s) PROVE FALSE
      <4>1. PICK c \in Admin : adm[c].pc = "item" /\ By(c) = By(a)
        BY <3>1, <3>3 DEF Joins
      <4>2. adm[c].r = adm[a].r BY <3>1, <4>1, Holder DEF Holding, By
      <4>3. c = a BY <3>1, <4>1, <4>2 DEF Busy, Fenced
      <4> QED BY <1>4, <2>1, <4>1, <4>3
    <3>4. line'[By(a)] = <<>> BY <1>1, <3>1, <3>2, <3>3
    <3>5. req'[adm'[a].r].by = By(a) BY <1>0, <2>1, <3>1 DEF Kept, By
    <3> QED BY <3>4, <3>5
  <2>2. CASE Completes(a)
    <3>1. By(a) \in Browser /\ req'[adm'[a].r].by = By(a)
      BY <1>0, <2>2, ByBrowser DEF Completes, By, Busy, Fenced
    <3>2. Joins(By(a), adm[a].item) BY <2>2, <3>1, LineMoves DEF Completes
    <3>3. adm[a].item \in Seq(Nat) BY <1>0 DEF AdminOK, Jobs
    <3> QED BY <1>2, <2>2, <3>1, <3>2, <3>3 DEF Completes
  <2>3. ~Takes(a) BY <1>4 DEF Takes
  <2> QED BY <1>4, <2>1, <2>2, <2>3, ItemBefore DEF WithItem
<1>5. ASSUME NEW r \in 1..Len(req'), Undelivered(r)'
      PROVE  line'[req'[r].by] = <<>>
  <2>1. CASE r \in 1..Len(req)
    <3>1. /\ Undelivered(r) /\ req'[r].by = req[r].by /\ req[r].by \in Browser
      <4>1. req[r] \in Request BY <1>0, <2>1, ElementOfSeq
      <4> QED BY <1>0, <1>5, <2>1, <4>1, UndeliveredBefore DEF Kept, Request
    <3>2. line[req[r].by] = <<>> BY <2>1, <3>1 DEF LineEmpty
    <3> QED BY <1>1, <2>1, <3>1, <3>2 DEF Joins
  <2>2. CASE r \notin 1..Len(req)
    <3>1. ASSUME NEW b \in Browser, GateHolds(b),
                 Asks(r, b, work[b].cmd, work[b].gen)
          PROVE  line'[req'[r].by] = <<>>
      BY <3>1 DEF GateHolds, Asks, Part, LineEmpty
    <3>2. ASSUME NEW a \in Admin, ItemHeld(a),
                 Asks(r, By(a), adm[a].item, req[adm[a].r].gen)
          PROVE  line'[req'[r].by] = <<>>
      BY <3>2 DEF ItemHeld, Asks, Part, LineEmpty, By
    <3> QED BY <2>2, <3>1, <3>2, RequestNew
  <2> QED BY <2>1, <2>2
<1> QED BY <1>3, <1>4, <1>5 DEF LineEmpty, By

LEMMA SentEmpties ==
  ASSUME Base, LineEmpty, NEW b \in Browser, NEW s, Sending(b, s)
  PROVE  Line(b) = {}
<1>1. ASSUME NEW a \in Admin, adm[a].pc = "deliver", By(a) = b
      PROVE  line[b] = <<>>
  <2>1. adm[a].r \in 1..Len(req)
    BY <1>1, ByBrowser, TypeParts DEF Base, Busy, Fenced
  <2> QED BY <1>1, <2>1 DEF LineEmpty, Undelivered, By
<1>2. line[b] = <<>> BY <1>1 DEF Sending, LineEmpty
<1> QED BY <1>2, EmptySeq DEF Line, Elems

LEMMA FreshBefore ==
  ASSUME [Next]_vars, NEW b, NEW n, Fresh(b, n)' PROVE Fresh(b, n)
BY StrandedGrows DEF Fresh

LEMMA RisingMore ==
  ASSUME NEW b, NEW s, NEW ex, NEW fx, ex \subseteq fx, Rising(b, s, ex)
  PROVE  Rising(b, s, fx)
BY DEF Rising

LEMMA RisingShort ==
  ASSUME NEW b, NEW n, NEW ex
  PROVE  Rising(b, <<>>, ex) /\ Rising(b, <<n>>, ex)
BY EmptySeq DEF Rising

LEMMA RisingJoined ==
  ASSUME Base, NEW b \in Browser, Queued(b), NEW s \in Seq(Nat),
         Rising(b, s, stranded), \A n \in Elems(s) : n \in Waiting(b)
  PROVE  Rising(b, Joined(b, s), stranded)
<1>0. InputOK BY TypeParts DEF Base
<1>1. PICK j : j = Joined(b, s) OBVIOUS
<1>2. PICK l : l = line[b] OBVIOUS
<1>3. /\ Len(l) \in Nat /\ Len(s) \in Nat /\ Len(j) = Len(l) + Len(s)
      /\ \A i \in 1..Len(j) : \/ i \in 1..Len(l) /\ j[i] = l[i]
                              \/ i - Len(l) \in 1..Len(s)
                                   /\ j[i] = s[i - Len(l)]
  BY <1>0, <1>1, <1>2, JoinedElems
<1>4. Rising(b, l, stranded) BY <1>2 DEF Queued
<1>5. \A m \in Elems(l), n \in Elems(s) :
        <<b, m>> \notin stranded /\ <<b, n>> \notin stranded => m < n
  BY <1>2 DEF Queued, Line, Fresh
<1> SUFFICES ASSUME NEW i \in 1..Len(j), NEW k \in 1..Len(j), i < k,
                    <<b, j[i]>> \notin stranded, <<b, j[k]>> \notin stranded
             PROVE  j[i] < j[k]
  BY <1>1 DEF Rising
<1>6. CASE i \in 1..Len(l) /\ j[i] = l[i]
  <2>1. CASE k \in 1..Len(l) /\ j[k] = l[k] BY <1>4, <1>6, <2>1 DEF Rising
  <2>2. CASE k - Len(l) \in 1..Len(s) /\ j[k] = s[k - Len(l)]
    BY <1>5, <1>6, <2>2 DEF Elems
  <2> QED BY <1>3, <2>1, <2>2
<1>7. CASE i - Len(l) \in 1..Len(s) /\ j[i] = s[i - Len(l)]
  <2>1. k \notin 1..Len(l) BY <1>3, <1>7
  <2>2. k - Len(l) \in 1..Len(s) /\ j[k] = s[k - Len(l)] BY <1>3, <2>1
  <2>3. i - Len(l) < k - Len(l) BY <1>3
  <2> QED BY <1>7, <2>2, <2>3 DEF Rising
<1> QED BY <1>3, <1>6, <1>7

\* What joins a line is in order itself.
LEMMA JoinsRising ==
  ASSUME Ordered, NEW b \in Browser, NEW s, Joins(b, s)
  PROVE  Rising(b, s, stranded) /\ \A n \in Elems(s) : n \in Waiting(b)
<1>1. CASE s = work[b].cmd /\ InHand(b)
  BY <1>1 DEF Ordered, Joins, Waiting
<1>2. ASSUME NEW a \in Admin, adm[a].pc = "item", By(a) = b, s = adm[a].item
      PROVE  Rising(b, s, stranded)
  BY <1>2 DEF Ordered, WithItem
<1> QED BY <1>1, <1>2 DEF Joins, Waiting

LEMMA RisingHold ==
  ASSUME Base, [Next]_vars, NEW b \in Browser, Known(b),
         Rising(b, hold[b], stranded)
  PROVE  Rising(b, hold'[b], stranded)
<1>0. hold[b] \in Seq(Nat) /\ typed[b] \in Seq(Nat) /\ Len(typed[b]) \in Nat
      /\ Len(hold[b]) \in Nat
  BY TypeParts, LenProperties DEF Base, InputOK
<1>1. CASE hold'[b] = hold[b] BY <1>1
<1>2. CASE hold'[b] = <<>> BY <1>2, RisingShort
<1>3. CASE hold'[b] = Append(hold[b], Len(typed[b]) + 1)
  <2> DEFINE m == Len(typed[b]) + 1
  <2>1. m \in Nat BY <1>0
  <2>2. \A i \in 1..Len(hold[b]) : hold[b][i] \in Nat /\ hold[b][i] < m
    <3>1. \A i \in 1..Len(hold[b]) : hold[b][i] \in 1..Len(typed[b])
      BY DEF Known, Buffer, Elems
    <3> QED BY <1>0, <3>1
  <2> HIDE DEF m
  <2>3. hold'[b] = Append(hold[b], m) BY <1>3 DEF m
  <2>4. /\ Len(hold'[b]) = Len(hold[b]) + 1
        /\ \A i \in 1..Len(hold[b]) : hold'[b][i] = hold[b][i]
        /\ hold'[b][Len(hold[b]) + 1] = m
    BY <1>0, <2>1, <2>3, AppendProperties
  <2> SUFFICES ASSUME NEW i \in 1..Len(hold'[b]), NEW j \in 1..Len(hold'[b]),
        i < j,
                      <<b, hold'[b][i]>> \notin stranded,
                      <<b, hold'[b][j]>> \notin stranded
               PROVE  hold'[b][i] < hold'[b][j]
    BY DEF Rising
  <2>5. i \in 1..Len(hold[b]) BY <1>0, <2>4
  <2>6. CASE j \in 1..Len(hold[b]) BY <2>4, <2>5, <2>6 DEF Rising
  <2>7. CASE j = Len(hold[b]) + 1 BY <2>2, <2>4, <2>5, <2>7
  <2> QED BY <1>0, <2>4, <2>6, <2>7
<1> QED BY <1>1, <1>2, <1>3, HoldMoves

LEMMA RisingLine ==
  ASSUME Base, Pauses, [Next]_vars, NEW b \in Browser, Queued(b), Ordered
  PROVE  Rising(b, line'[b], stranded)
<1>0. InputOK BY TypeParts DEF Base
<1>1. CASE line'[b] = line[b] BY <1>1 DEF Queued
<1>2. CASE line'[b] = <<>> BY <1>2, RisingShort
<1>3. ASSUME NEW s \in Seq(Nat), Joins(b, s), line'[b] # <<>>
      PROVE  Rising(b, line'[b], stranded)
  <2>1. line'[b] = Joined(b, s) BY <1>0, <1>3, Joining DEF Joins
  <2>2. Rising(b, s, stranded) /\ \A n \in Elems(s) : n \in Waiting(b)
    BY <1>3, JoinsRising
  <2>3. Rising(b, Joined(b, s), stranded) BY <2>2, RisingJoined
  <2> QED BY <2>1, <2>3
<1> QED BY <1>1, <1>2, <1>3, LineMoves

LEMMA QueuedStep ==
  ASSUME Base, Pauses, [Next]_vars, NEW b \in Browser, Known(b), Queued(b),
         Ordered, LineEmpty
  PROVE  Queued(b)'
<1>0. Len(typed[b]) \in Nat BY TypedMoves
<1>1. Rising(b, hold[b], stranded)' /\ Rising(b, line[b], stranded)'
  <2>1. Rising(b, hold'[b], stranded) BY RisingHold DEF Queued
  <2>2. Rising(b, line'[b], stranded) BY RisingLine
  <2>3. PICK h, l, ex, fx : /\ h = hold'[b] /\ l = line'[b]
                            /\ ex = stranded /\ fx = stranded'
    OBVIOUS
  <2>4. Rising(b, h, ex) /\ Rising(b, l, ex) /\ ex \subseteq fx
    BY <2>1, <2>2, <2>3, StrandedGrows
  <2>5. Rising(b, h, fx) /\ Rising(b, l, fx) BY <2>4, RisingMore
  <2> QED BY <2>3, <2>5 DEF Rising
<1>2. ASSUME b \notin paused', NEW n \in Buffer(b)', Fresh(b, n)' PROVE FALSE
  <2>1. b \notin paused BY <1>2, BufferMoves
  <2>2. n \in Buffer(b) BY <1>2, <2>1, BufferMoves DEF TypePaused
  <2> QED BY <1>2, <2>1, <2>2, FreshBefore DEF Queued
<1>3. \A n \in Waiting(b) \cup Gone(b) \cup Line(b) \cup Buffer(b) :
        n \in Nat /\ n < Len(typed[b]) + 1
  <2>1. \A n \in 1..Len(typed[b]) : n \in Nat /\ n < Len(typed[b]) + 1 BY <1>0
  <2> QED BY <2>1 DEF Known
<1>a. ASSUME NEW n \in Line(b)'
      PROVE  \/ n \in Line(b)
             \/ n \in Waiting(b) /\ UNCHANGED sent /\ Waiting(b)' = {}
  BY <1>a, LineBefore DEF Joins, Waiting
<1>4. ASSUME NEW m \in Gone(b)',
        NEW n \in Line(b)' \cup Waiting(b)' \cup Buffer(b)',
             Fresh(b, m)', Fresh(b, n)'
      PROVE  m < n
  <2>1. Fresh(b, m) /\ Fresh(b, n) BY <1>4, FreshBefore
  <2>2. CASE m \in Gone(b)
    <3>1. \/ n \in Line(b) \cup Waiting(b) \cup Buffer(b)
          \/ n = Len(typed[b]) + 1
      BY <1>4, <1>a, WaitingBefore, BufferMoves
    <3> QED BY <1>3, <2>1, <2>2, <3>1 DEF Queued
  <2>3. CASE m \notin Gone(b)
    <3>1. /\ m \in Waiting(b) /\ n \in Line(b)' \cup Buffer(b)'
          /\ \E s \in Seq(Nat) : Sending(b, s)
      BY <1>4, <2>3, GoneMoves
    <3>2. Line(b) = {} BY <3>1, SentEmpties
    <3>3. ~UNCHANGED sent BY <1>4, <2>3 DEF Gone
    <3>4. n \in Buffer(b) \/ n = Len(typed[b]) + 1
      BY <1>a, <3>1, <3>2, <3>3, BufferMoves
    <3> QED BY <1>3, <2>1, <3>1, <3>4 DEF Queued
  <2> QED BY <2>2, <2>3
<1>5. ASSUME NEW m \in Waiting(b)', NEW n \in Buffer(b)', Fresh(b, m)',
        Fresh(b, n)'
      PROVE  m < n
  <2>1. Fresh(b, m) /\ Fresh(b, n) BY <1>5, FreshBefore
  <2>2. \/ m \in Waiting(b) \cup Line(b)
        \/ TypeFree(b) /\ m = Len(typed[b]) + 1
    BY <1>5, WaitingBefore
  <2>3. CASE m \in Waiting(b) \cup Line(b)
    <3>1. n \in Buffer(b) \/ n = Len(typed[b]) + 1 BY <1>5, BufferMoves
    <3> QED BY <1>3, <2>1, <2>3, <3>1 DEF Queued
  <2>4. CASE TypeFree(b)
    <3>1. b \notin paused BY <2>4 DEF TypeFree
    <3>2. n \in Buffer(b) BY <1>5, <3>1, BufferMoves DEF TypePaused
    <3> QED BY <2>1, <3>1, <3>2 DEF Queued
  <2> QED BY <2>2, <2>3, <2>4
<1>6. ASSUME NEW m \in Line(b)', NEW n \in Waiting(b)' \cup Buffer(b)',
             Fresh(b, m)', Fresh(b, n)'
      PROVE  m < n
  <2>1. Fresh(b, m) /\ Fresh(b, n) BY <1>6, FreshBefore
  <2>2. CASE n \in Waiting(b)'
    <3>1. m \in Line(b) BY <1>a, <1>6, <2>2
    <3>2. n \in Waiting(b) \cup Buffer(b) \/ n = Len(typed[b]) + 1
      BY <1>6, <2>2, WaitingBefore
    <3> QED BY <1>3, <2>1, <3>1, <3>2 DEF Queued
  <2>3. CASE n \in Buffer(b)'
    <3>1. m \in Line(b) \cup Waiting(b) BY <1>a, <1>6
    <3>2. n \in Buffer(b) \/ n = Len(typed[b]) + 1 BY <2>3, BufferMoves
    <3> QED BY <1>3, <2>1, <3>1, <3>2 DEF Queued
  <2> QED BY <1>6, <2>2, <2>3
<1> QED BY <1>1, <1>2, <1>4, <1>5, <1>6 DEF Queued

LEMMA OrderedStep ==
  ASSUME Base, Pauses, [Next]_vars, Ordered, \A b \in Browser : Queued(b)
  PROVE  Ordered'
<1>0. /\ TypeOK /\ Working /\ InputOK /\ AdminOK /\ StoreOK /\ Kept
  BY TypeParts, StepKept DEF Base
<1>s. \A b, s : Rising(b, s, stranded) => Rising(b, s, stranded')
  BY StrandedGrows DEF Rising
<1>1. ASSUME NEW r \in 1..Len(req')
        PROVE Rising(req'[r].by, req'[r].cmd, stranded')
  <2>1. CASE r \in 1..Len(req) BY <1>0, <1>s, <2>1 DEF Ordered, Kept
  <2>2. CASE r \notin 1..Len(req)
    <3>1. \A b \in Browser : GateHolds(b) => Rising(b, work[b].cmd, stranded)
      BY DEF Ordered, GateHolds, InHand
    <3>2. \A a \in Admin : ItemHeld(a) => Rising(By(a), adm[a].item, stranded)
      BY DEF Ordered, ItemHeld, WithItem
    <3> QED BY <1>s, <2>2, <3>1, <3>2, RequestNew DEF Asks
  <2> QED BY <2>1, <2>2
<1>j. ASSUME NEW b \in Browser, NEW s \in Seq(Nat), Joins(b, s)
      PROVE  Rising(b, Joined(b, s), stranded')
  <2>1. Rising(b, s, stranded) /\ \A n \in Elems(s) : n \in Waiting(b)
    BY <1>j, JoinsRising
  <2>2. Rising(b, Joined(b, s), stranded) BY <2>1, RisingJoined
  <2> QED BY <1>s, <2>2
<1>2. ASSUME NEW a \in Admin, adm'[a].pc \in WithItem
      PROVE  Rising(req'[adm'[a].r].by, adm'[a].item, stranded')
  <2>1. CASE adm'[a] = adm[a]
    <3>1. adm[a].r \in 1..Len(req)
      BY <1>0, <1>2, <2>1 DEF Working, Busy, Fenced, WithItem
    <3>2. req'[adm'[a].r].by = By(a) BY <1>0, <2>1, <3>1 DEF Kept, By
    <3> QED BY <1>2, <1>s, <2>1, <3>2 DEF Ordered
  <2>2. CASE Takes(a)
    <3>1. adm[a].pc \in Busy BY <2>2 DEF Takes, Busy, Fenced
    <3>2. By(a) \in Browser BY <1>0, <3>1, ByBrowser
    <3>3. req'[adm'[a].r].by = By(a) BY <2>2 DEF Takes, By
    <3> QED BY <1>s, <2>2, <3>2, <3>3 DEF Takes, Queued
  <2>3. CASE Completes(a)
    <3>1. adm[a].pc \in Busy BY <2>3 DEF Completes, Busy, Fenced
    <3>2. By(a) \in Browser BY <1>0, <3>1, ByBrowser
    <3>3. req'[adm'[a].r].by = By(a) BY <2>3 DEF Completes, By
    <3>4. Joins(By(a), adm[a].item) BY <2>3, <3>2, LineMoves DEF Completes
    <3>5. adm[a].item \in Seq(Nat) BY <1>0 DEF AdminOK, Jobs
    <3>6. Rising(By(a), Joined(By(a), adm[a].item), stranded')
      BY <1>j, <3>2, <3>4, <3>5
    <3> QED BY <2>3, <3>3, <3>6 DEF Completes
  <2> QED BY <1>2, <2>1, <2>2, <2>3, ItemBefore
<1>3. ASSUME NEW b \in Browser, InHand(b)'
      PROVE  Rising(b, work'[b].cmd, stranded')
  <2>1. CASE InHand(b) /\ work'[b].cmd = work[b].cmd
    BY <1>s, <2>1 DEF Ordered
  <2>2. CASE work'[b].cmd = <<Len(typed[b]) + 1>>
    BY <2>2, RisingShort
  <2>3. CASE LineGrows(b) /\ work'[b].cmd = Joined(b, work[b].cmd)
    <3>1. Joins(b, work[b].cmd) BY <2>3, LineMoves
    <3>2. work[b].cmd \in Seq(Nat) BY <1>0 DEF InputOK, Hands
    <3>3. Rising(b, Joined(b, work[b].cmd), stranded') BY <1>j, <3>1, <3>2
    <3> QED BY <2>3, <3>3
  <2> QED BY <1>3, <2>1, <2>2, <2>3, HandBefore
<1> QED BY <1>1, <1>2, <1>3 DEF Ordered, By

Sequel ==
  /\ Ordered /\ LineEmpty
  /\ \A b \in Browser : Queued(b)
  /\ InputInOrder

\* What leaves is in order, and follows what is gone.
LEMMA InOrderStep ==
  ASSUME Base, Pauses, [Next]_vars, Ordered, \A b \in Browser : Queued(b),
         InputInOrder
  PROVE  InputInOrder'
<1>0. /\ sent \in Seq(Delivered) /\ Len(sent) \in Nat
  BY TypeParts, LenProperties DEF Base, PastOK, Delivered
<1>2. CASE UNCHANGED sent
  BY <1>2, StrandedGrows DEF InputInOrder, Stranded
<1>3. CASE ~UNCHANGED sent
  <2>1. PICK b \in Browser : \E s \in Seq(Nat) : Sending(b, s)
    BY <1>3, Sendings
  <2>2. PICK s \in Seq(Nat) : Sending(b, s) BY <2>1
  <2>3. Follow(b, s) /\ Leaves(b, s) BY <2>2 DEF Sending
  <2>4. Rising(b, s, stranded)
    <3>1. CASE work[b].pc = "send" /\ s = work[b].cmd
      BY <3>1 DEF Ordered, InHand
    <3>2. ASSUME NEW a \in Admin, adm[a].pc = "deliver", By(a) = b,
                 s = req[adm[a].r].cmd
          PROVE  Rising(b, s, stranded)
      BY <3>2 DEF Base, Working, Busy, Fenced, Ordered, By
    <3>3. ASSUME NEW a \in Admin, adm[a].pc = "line", By(a) = b, s = adm[a].item
          PROVE  Rising(b, s, stranded)
      BY <3>3 DEF Ordered, WithItem
    <3> QED BY <2>2, <3>1, <3>2, <3>3 DEF Sending
  <2>5. Len(s) \in Nat BY LenProperties
  <2> SUFFICES ASSUME NEW i \in 1..Len(sent'), NEW j \in 1..Len(sent'), i < j,
                      sent'[i].from = sent'[j].from,
                      <<sent'[i].from, sent'[i].n>> \notin stranded',
                      <<sent'[j].from, sent'[j].n>> \notin stranded'
               PROVE  sent'[i].n < sent'[j].n
    BY DEF InputInOrder, Stranded
  <2>s. stranded \subseteq stranded' BY StrandedGrows
  <2>6. \A k \in 1..Len(sent') : \/ k \in 1..Len(sent) /\ sent'[k] = sent[k]
                                 \/ /\ k \notin 1..Len(sent)
                                    /\ k - Len(sent) \in 1..Len(s)
                                    /\ sent'[k].from = b
                                    /\ sent'[k].n = s[k - Len(sent)]
    <3> TAKE k \in 1..Len(sent')
    <3>1. CASE k \in 1..Len(sent) BY <2>3, <3>1 DEF Follow
    <3>2. CASE k \notin 1..Len(sent)
      <4>1. k - Len(sent) \in 1..Len(s) /\ k = Len(sent) + (k - Len(sent))
        BY <1>0, <2>3, <2>5, <3>2 DEF Follow
      <4>2. sent'[k] = [from |-> b, n |-> s[k - Len(sent)], gen |-> gen]
        BY <2>3, <4>1 DEF Follow
      <4> QED BY <3>2, <4>1, <4>2
    <3> QED BY <3>1, <3>2
  <2>7. CASE j \in 1..Len(sent)
    <3>1. i \in 1..Len(sent) BY <1>0, <2>7
    <3>2. ~Stranded(sent[i]) /\ ~Stranded(sent[j])
      BY <2>s, <2>6, <2>7, <3>1 DEF Stranded
    <3> QED BY <2>6, <2>7, <3>1, <3>2 DEF InputInOrder
  <2>8. CASE i \notin 1..Len(sent) /\ j \notin 1..Len(sent)
    <3>1. i - Len(sent) < j - Len(sent) BY <1>0
    <3>2. /\ <<b, s[i - Len(sent)]>> \notin stranded
          /\ <<b, s[j - Len(sent)]>> \notin stranded
      BY <2>s, <2>6, <2>8
    <3> QED BY <2>4, <2>6, <2>8, <3>1, <3>2 DEF Rising
  <2>9. CASE i \in 1..Len(sent) /\ j \notin 1..Len(sent)
    <3>1. sent[i] \in Delivered BY <1>0, <2>9, ElementOfSeq
    <3>2. sent[i].n \in Gone(b) BY <2>6, <2>9, <3>1 DEF Gone, Delivered
    <3>3. sent'[j].n \in Waiting(b) /\ sent'[j].from = b
      BY <2>3, <2>6, <2>9 DEF Leaves, Elems
    <3>4. Fresh(b, sent[i].n) /\ Fresh(b, sent'[j].n)
      BY <2>s, <2>6, <2>9, <3>3 DEF Fresh
    <3> QED BY <2>6, <2>9, <3>2, <3>3, <3>4 DEF Queued
  <2> QED BY <2>7, <2>8, <2>9
<1> QED BY <1>2, <1>3

LEMMA SequelAlways == Spec => [](Base /\ Pauses /\ Places /\ Sequel)
<1>1. ASSUME Init PROVE Sequel
  <2>1. ASSUME NEW b \in Browser PROVE Queued(b)
    <3>1. Waiting(b) = {} /\ Gone(b) = {} /\ Line(b) = {} /\ Buffer(b) = {}
      BY <1>1, NothingPlaced
    <3>2. Rising(b, hold[b], stranded) /\ Rising(b, line[b], stranded)
      BY <1>1, RisingShort DEF Init
    <3> QED BY <3>1, <3>2 DEF Queued
  <2>2. Len(req) = 0 /\ Len(sent) = 0 BY <1>1, EmptySeq DEF Init
  <2>3. /\ \A a \in Admin : adm[a].pc \notin WithItem
        /\ \A b \in Browser : work[b].pc = "idle"
    BY <1>1 DEF Init, NoJob, Idle, WithItem
  <2>4. Ordered /\ LineEmpty /\ InputInOrder
    BY <2>2, <2>3 DEF Ordered, LineEmpty, InputInOrder, InHand, WithItem
  <2> QED BY <2>1, <2>4 DEF Sequel
<1>2. Base /\ Pauses /\ Places /\ Sequel /\ [Next]_vars => Sequel'
  BY OrderedStep, LineEmptyStep, QueuedStep, InOrderStep DEF Sequel, Places
<1> QED BY <1>1, <1>2, PlacesAlways, PTL DEF Spec

\* What a browser typed reaches the worker at most once and in the order it was
\* typed, through holds, decisions, expiries and replays; unless it was
\* stranded.
THEOREM InOrder == Spec => []InputInOrder
<1>1. Sequel => InputInOrder BY DEF Sequel
<1> QED BY <1>1, SequelAlways, PTL

-----------------------------------------------------------------------------
(* The generation in which inputs were typed. *)

\* The inputs s of b were typed in generation g, or begin a line that an input
\* of
\* generation g completes.
Sealed(b, s, g) ==
  \A i \in 1..Len(s) :
    \/ ~Fresh(b, s[i]) \/ typed[b][s[i]] = g
    \/ /\ <<b, s[i]>> \notin newline
       /\ \E j \in i+1 .. Len(s) : typed[b][s[j]] = g

Dated(b) ==
  /\ \A n \in 1..Len(typed[b]) : typed[b][n] <= gen
  /\ \A r \in 1..Len(req) : req[r].by = b => req[r].gen <= gen
  /\ \A n \in Line(b) : <<b, n>> \notin newline
  /\ InHand(b) => /\ work[b].gen <= gen
                  /\ Sealed(b, work[b].cmd, work[b].gen)
  /\ work[b].pc = "gate" =>
       \E n \in Nat : work[b].cmd = <<n>> /\ typed[b][n] = work[b].gen
  /\ \A a \in Admin : adm[a].pc \in WithItem /\ By(a) = b =>
       \A n \in Elems(adm[a].item) : Fresh(b, n) => typed[b][n] = gen
  /\ \A r \in 1..Len(req) : Undelivered(r) /\ req[r].by = b =>
       Sealed(b, req[r].cmd, req[r].gen)
  /\ \A r \in Owed : req[r].by = b =>
       \A n \in Line(b) \cup Buffer(b) : Fresh(b, n)
         => req[r].gen <= typed[b][n]

\* A sequence that is sealed stays so.
LEMMA SealedKept ==
  ASSUME Base, [Next]_vars, NEW b \in Browser, NEW s, NEW g, Len(s) \in Nat,
         \A n \in Elems(s) : n \in 1..Len(typed[b]), Sealed(b, s, g)
  PROVE  Sealed(b, s, g)'
<1>1. \A n \in 1..Len(typed[b]) : /\ typed'[b][n] = typed[b][n]
                                  /\ <<b, n>> \in newline'
                                       <=> <<b, n>> \in newline
  BY TypedMoves
<1>2. stranded \subseteq stranded' BY StrandedGrows
<1> SUFFICES ASSUME NEW i \in 1..Len(s), <<b, s[i]>> \notin stranded'
             PROVE  \/ typed'[b][s[i]] = g
                    \/ /\ <<b, s[i]>> \notin newline'
                       /\ \E j \in i+1 .. Len(s) : typed'[b][s[j]] = g
  BY DEF Sealed, Fresh
<1>3. \A j \in 1..Len(s) : s[j] \in 1..Len(typed[b]) BY DEF Elems
<1>4. CASE typed[b][s[i]] = g BY <1>1, <1>3, <1>4
<1>5. CASE /\ <<b, s[i]>> \notin newline
           /\ \E j \in i+1 .. Len(s) : typed[b][s[j]] = g
  <2>1. PICK j \in i+1 .. Len(s) : typed[b][s[j]] = g BY <1>5
  <2>2. j \in 1..Len(s) BY <2>1
  <2> QED BY <1>1, <1>3, <1>5, <2>1, <2>2
<1> QED BY <1>2, <1>4, <1>5 DEF Sealed, Fresh

\* What the hands hold, and a request asks for, was typed.
LEMMA CommandsKnown ==
  ASSUME Base, NEW b \in Browser, Known(b)
  PROVE  /\ InHand(b) => /\ Len(work[b].cmd) \in Nat
                         /\ \A n \in Elems(work[b].cmd) : n \in 1..Len(typed[b])
         /\ \A r \in 1..Len(req) : req[r].by = b =>
              /\ Len(req[r].cmd) \in Nat
              /\ \A n \in Elems(req[r].cmd) : n \in 1..Len(typed[b])
         /\ \A a \in Admin : adm[a].pc \in WithItem /\ By(a) = b =>
              \A n \in Elems(adm[a].item) : n \in 1..Len(typed[b])
<1>0. InputOK /\ AdminOK /\ req \in Seq(Request)
  BY TypeParts DEF Base, StoreOK
<1>1. work[b].cmd \in Seq(Nat) BY <1>0 DEF InputOK, Hands
<1>2. ASSUME InHand(b), NEW n \in Elems(work[b].cmd)
        PROVE n \in 1..Len(typed[b])
  <2>1. n \in Nat BY <1>1, ElemsNat
  <2> QED BY <1>2, <2>1 DEF Known, Waiting, Loose
<1>3. \A r \in 1..Len(req) : Len(req[r].cmd) \in Nat
  <2>1. \A r \in 1..Len(req) : req[r] \in Request BY <1>0, ElementOfSeq
  <2>2. \A r \in 1..Len(req) : req[r].cmd \in Seq(Nat) BY <2>1 DEF Request
  <2> QED BY <2>2, LenProperties
<1>4. ASSUME NEW a \in Admin, adm[a].pc \in WithItem, By(a) = b,
             NEW n \in Elems(adm[a].item)
      PROVE  n \in 1..Len(typed[b])
  <2>1. adm[a].item \in Seq(Nat) BY <1>0 DEF AdminOK, Jobs
  <2>2. n \in Nat BY <2>1, ElemsNat
  <2> QED BY <1>4, <2>2 DEF Known, Waiting, Loose
<1>5. Len(work[b].cmd) \in Nat BY <1>1, LenProperties
<1> QED BY <1>2, <1>3, <1>4, <1>5 DEF Known

\* The input that completes a line seals it.
LEMMA CompletedSealed ==
  ASSUME Base, NEW b \in Browser, Known(b), Dated(b), work[b].pc = "gate"
  PROVE  Sealed(b, Joined(b, work[b].cmd), work[b].gen)
<1>0. InputOK BY TypeParts DEF Base
<1>1. PICK n \in Nat : work[b].cmd = <<n>> /\ typed[b][n] = work[b].gen
  BY DEF Dated
<1>2. PICK j, l, s : j = Joined(b, work[b].cmd) /\ l = line[b] /\ s = <<n>>
  OBVIOUS
<1>3. s \in Seq(Nat) /\ Len(s) = 1 /\ s[1] = n BY <1>2
<1>4. /\ Len(l) \in Nat /\ Len(j) = Len(l) + 1
      /\ \A i \in 1..Len(j) : \/ i \in 1..Len(l) /\ j[i] = l[i]
                              \/ i - Len(l) \in 1..1 /\ j[i] = s[i - Len(l)]
  <2>1. s = work[b].cmd /\ work[b].cmd \in Seq(Nat) BY <1>1, <1>2, <1>3
  <2>2. j = Joined(b, s) BY <1>2, <2>1
  <2>3. /\ Len(l) \in Nat /\ Len(j) = Len(l) + Len(s)
        /\ \A i \in 1..Len(j) :
             \/ i \in 1..Len(l) /\ j[i] = l[i]
             \/ i - Len(l) \in 1..Len(s) /\ j[i] = s[i - Len(l)]
    <3>1. /\ Len(line[b]) \in Nat
          /\ Len(Joined(b, s)) = Len(line[b]) + Len(s)
          /\ \A i \in 1..Len(Joined(b, s)) :
               \/ i \in 1..Len(line[b]) /\ Joined(b, s)[i] = line[b][i]
               \/ /\ i - Len(line[b]) \in 1..Len(s)
                  /\ Joined(b, s)[i] = s[i - Len(line[b])]
      BY <1>0, <1>3, JoinedElems
    <3>2. l = line[b] BY <1>2
    <3> QED BY <2>2, <3>1, <3>2
  <2> QED BY <1>3, <2>3
<1>5. Len(j) \in 1..Len(j) /\ Len(j) \notin 1..Len(l) /\ Len(j) - Len(l) = 1
  BY <1>4
<1>6. j[Len(j)] = n BY <1>3, <1>4, <1>5
<1>7. \A m \in Elems(l) : <<b, m>> \notin newline BY <1>2 DEF Dated, Line
<1>8. ASSUME NEW i \in 1..Len(j)
      PROVE  \/ typed[b][j[i]] = work[b].gen
             \/ /\ <<b, j[i]>> \notin newline
                /\ \E k \in i+1 .. Len(j) : typed[b][j[k]] = work[b].gen
  <2>1. CASE i \in 1..Len(l) /\ j[i] = l[i]
    <3>1. Len(j) \in i+1 .. Len(j) BY <1>4, <2>1
    <3>2. <<b, j[i]>> \notin newline BY <1>7, <2>1 DEF Elems
    <3> QED BY <1>1, <1>6, <3>1, <3>2
  <2>2. CASE i - Len(l) \in 1..1 /\ j[i] = s[i - Len(l)]
    <3>1. i - Len(l) = 1 BY <1>4, <2>2
    <3> QED BY <1>1, <1>3, <2>2, <3>1
  <2> QED BY <1>4, <2>1, <2>2
<1> QED BY <1>2, <1>8 DEF Sealed

\* Ownership does not change while a decision has the fence.
LEMMA GenMoves ==
  ASSUME Base, [Next]_vars
  PROVE  /\ gen \in Nat /\ gen' \in Nat /\ gen <= gen'
         /\ \A a \in Admin : adm[a].pc \in Fenced => gen' = gen
<1>0. OwnerOK BY TypeParts DEF Base
<1>1. CASE gen' = gen BY <1>0, <1>1 DEF OwnerOK
<1>2. CASE Transfer
  <2>1. gen' = gen + 1 /\ fence = NULL BY <1>2 DEF Transfer
  <2>2. \A a \in Admin : adm[a].pc \notin Fenced
    BY <2>1, ApprovalAssumption DEF Base, Fencing
  <2> QED BY <1>0, <2>1, <2>2 DEF OwnerOK
<1>3. ~Transfer => gen' = gen
  BY DEF Next, Handle, TypePaused, TypeFree, LineGrows, LineAllowed,
         GateRefuses, GateHolds, Notified, Send, Leave, RemoveDead, Forget,
         Expire, LeaseExpires, Overdue, Claim, ClaimLate, Resolve, OpBegins,
         Deliver, ReplayTakes, ReplayEnds, ItemJoins, ItemRefused, ItemSent,
         ItemFails, CutShort, ItemHeld, Announced, Unpause, Finish,
         SweepExpires, AdminTold, SettleExpired, ownerVars, vars
<1> QED BY <1>1, <1>2, <1>3

\* The generation a new request was held in, and what is typed then.
LEMMA RequestDated ==
  ASSUME Base, Pauses, LineEmpty, [Next]_vars, NEW b \in Browser,
         Known(b), Queued(b), Dated(b),
         NEW r \in 1..Len(req'), r \notin 1..Len(req), req'[r].by = b
  PROVE  /\ req'[r].gen <= gen
         /\ Sealed(b, req'[r].cmd, req'[r].gen)
         /\ \A n \in Elems(req'[r].cmd) : n \in 1..Len(typed[b])
         /\ \A n \in Buffer(b) : Fresh(b, n) => req'[r].gen <= typed[b][n]
         /\ line[b] = <<>>
         /\ UNCHANGED <<typed, hold, line>>
<1>0. /\ TypeOK /\ Working /\ InputOK /\ AdminOK /\ StoreOK
  BY TypeParts DEF Base
<1>1. ASSUME GateHolds(b), Asks(r, b, work[b].cmd, work[b].gen)
      PROVE  /\ req'[r].gen <= gen
             /\ Sealed(b, req'[r].cmd, req'[r].gen)
             /\ \A n \in Elems(req'[r].cmd) : n \in 1..Len(typed[b])
             /\ \A n \in Buffer(b) : ~Fresh(b, n)
             /\ line[b] = <<>>
             /\ UNCHANGED <<typed, hold, line>>
  <2>1. /\ InHand(b) /\ line[b] = <<>> /\ UNCHANGED <<typed, hold, line>>
    BY <1>1 DEF GateHolds, InHand, LineEmpty, Part, typeVars
  <2>2. req'[r].cmd = work[b].cmd /\ req'[r].gen = work[b].gen
    BY <1>1 DEF Asks
  <2>3. b \notin paused BY <2>1 DEF Pauses
  <2>4. \A n \in Elems(work[b].cmd) : n \in 1..Len(typed[b])
    BY <2>1, CommandsKnown
  <2> QED BY <2>1, <2>2, <2>3, <2>4 DEF Queued, Dated
<1>2. ASSUME NEW a \in Admin, ItemHeld(a), By(a) = b,
             Asks(r, b, adm[a].item, req[adm[a].r].gen)
      PROVE  /\ req'[r].gen <= gen
             /\ Sealed(b, req'[r].cmd, req'[r].gen)
             /\ \A n \in Elems(req'[r].cmd) : n \in 1..Len(typed[b])
             /\ \A n \in Buffer(b) : Fresh(b, n) => req'[r].gen <= typed[b][n]
             /\ line[b] = <<>>
             /\ UNCHANGED <<typed, hold, line>>
  <2>1. /\ adm[a].pc \in WithItem /\ line[b] = <<>>
        /\ UNCHANGED <<typed, hold, line>>
    BY <1>2 DEF ItemHeld, WithItem, LineEmpty, Part, By, typeVars
  <2>2. req'[r].cmd = adm[a].item /\ req'[r].gen = req[adm[a].r].gen
    BY <1>2 DEF Asks
  <2>3. adm[a].r \in Owed /\ adm[a].r \in 1..Len(req)
    BY <2>1, Holder DEF Holding, WithItem
  <2>4. req[adm[a].r].by = b BY <1>2 DEF By
  <2>5. gen = req[adm[a].r].gen BY <2>1 DEF Base, Fencing, Fenced, WithItem
  <2>6. \A n \in Elems(adm[a].item) : n \in 1..Len(typed[b])
    BY <1>2, <2>1, CommandsKnown
  <2>7. Sealed(b, adm[a].item, gen)
    BY <1>2, <2>1 DEF Dated, Sealed, Elems
  <2> QED BY <1>2, <2>1, <2>2, <2>3, <2>4, <2>5, <2>6, <2>7 DEF Dated
<1>3. CASE GateHolds(b) /\ Asks(r, b, work[b].cmd, work[b].gen)
  BY <1>1, <1>3
<1>4. CASE \E a \in Admin : /\ ItemHeld(a) /\ By(a) = b
                            /\ Asks(r, b, adm[a].item, req[adm[a].r].gen)
  BY <1>2, <1>4
<1>5. \/ GateHolds(b) /\ Asks(r, b, work[b].cmd, work[b].gen)
      \/ \E a \in Admin : /\ ItemHeld(a) /\ By(a) = b
                          /\ Asks(r, b, adm[a].item, req[adm[a].r].gen)
  BY RequestNew DEF Asks
<1> QED BY <1>3, <1>4, <1>5

LEMMA DatedStep ==
  ASSUME Base, Pauses, LineEmpty, [Next]_vars, NEW b \in Browser,
         Known(b), Queued(b), Dated(b)
  PROVE  Dated(b)'
<1>0. /\ TypeOK /\ Working /\ InputOK /\ AdminOK /\ Kept
      /\ req \in Seq(Request)
  BY TypeParts, StepKept DEF Base, StoreOK
<1>1. /\ gen \in Nat /\ gen' \in Nat /\ gen <= gen'
      /\ \A a \in Admin : adm[a].pc \in Fenced => gen' = gen
  BY GenMoves
<1>2. /\ Len(typed[b]) \in Nat
      /\ \A n \in 1..Len(typed[b]) :
           /\ typed'[b][n] = typed[b][n]
           /\ <<b, n>> \in newline' <=> <<b, n>> \in newline
      /\ \/ typed'[b] = typed[b] /\ ~TypePaused(b) /\ ~TypeFree(b)
         \/ /\ TypePaused(b) \/ TypeFree(b)
            /\ Len(typed'[b]) = Len(typed[b]) + 1
            /\ typed'[b][Len(typed[b]) + 1] = gen
  BY TypedMoves
<1>t. typed[b] \in Seq(Nat) /\ \A n \in 1..Len(typed[b]) : typed[b][n] \in Nat
  BY <1>0, ElementOfSeq DEF InputOK
<1>r. \A r \in 1..Len(req) : req[r].gen \in Nat
  <2>1. \A r \in 1..Len(req) : req[r] \in Request BY <1>0, ElementOfSeq
  <2> QED BY <2>1 DEF Request
<1>3. ASSUME NEW n \in 1..Len(typed'[b]) PROVE typed'[b][n] <= gen'
  <2>1. n \in 1..Len(typed[b]) \/ (n = Len(typed[b]) + 1 /\ typed'[b][n] = gen)
    <3>1. CASE typed'[b] = typed[b] BY <3>1
    <3>2. CASE /\ Len(typed'[b]) = Len(typed[b]) + 1
               /\ typed'[b][Len(typed[b]) + 1] = gen
      BY <1>2, <3>2
    <3> QED BY <1>2, <3>1, <3>2
  <2>2. CASE n \in 1..Len(typed[b])
    <3>1. typed'[b][n] = typed[b][n] /\ typed[b][n] \in Nat
      BY <1>2, <1>t, <2>2
    <3>2. typed[b][n] <= gen BY <2>2 DEF Dated
    <3> QED BY <1>1, <3>1, <3>2
  <2> QED BY <1>1, <2>1, <2>2
<1>4. ASSUME NEW r \in 1..Len(req'), req'[r].by = b
      PROVE  req'[r].gen <= gen' /\ Len(req'[r].cmd) \in Nat
  <2>0. req'[r].gen \in Nat /\ Len(req'[r].cmd) \in Nat
    <3>1. req' \in Seq(Request) BY <1>0 DEF Kept
    <3>2. req'[r] \in Request BY <3>1, ElementOfSeq
    <3>3. req'[r].cmd \in Seq(Nat) BY <3>2 DEF Request
    <3> QED BY <3>2, <3>3, LenProperties DEF Request
  <2>1. CASE r \in 1..Len(req)
    BY <1>0, <1>1, <1>4, <1>r, <2>0, <2>1 DEF Dated, Kept
  <2>2. CASE r \notin 1..Len(req)
    BY <1>1, <1>4, <2>0, <2>2, RequestDated
  <2> QED BY <2>1, <2>2
<1>l. ASSUME NEW n \in Line(b)' PROVE <<b, n>> \notin newline'
  <2>1. CASE n \in Line(b) /\ line'[b] = line[b]
    <3>1. n \in 1..Len(typed[b]) BY <2>1 DEF Known
    <3> QED BY <1>2, <2>1, <3>1 DEF Dated
  <2>2. ASSUME NEW s \in Seq(Nat), Joins(b, s), ~TooLong(b, s), ~Complete(b, s),
               line'[b] = Joined(b, s)
        PROVE  <<b, n>> \notin newline'
    <3>1. ~Ended(b, Joined(b, s)) BY <2>2 DEF Complete
    <3>2. \A i \in 1..Len(Joined(b, s)) : <<b, Joined(b, s)[i]>> \notin newline
      BY <3>1 DEF Ended
    <3>3. UNCHANGED newline BY <2>2 DEF Joins
    <3> QED BY <1>l, <2>2, <3>2, <3>3 DEF Line, Elems
  <2> QED BY <1>l, <2>1, <2>2, LineBefore
<1>5. ASSUME InHand(b)'
      PROVE  /\ work'[b].gen <= gen'
             /\ Sealed(b, work[b].cmd, work[b].gen)'
             /\ work'[b].pc = "gate" =>
                  \E n \in Nat : /\ work'[b].cmd = <<n>>
                                 /\ typed'[b][n] = work'[b].gen
  <2>0. PICK s, g : s = work'[b].cmd /\ g = work'[b].gen OBVIOUS
  <2>w. work[b].gen \in Nat /\ work[b].cmd \in Seq(Nat)
    BY <1>0 DEF InputOK, Hands
  <2>1. CASE /\ InHand(b)
             /\ work'[b].cmd = work[b].cmd /\ work'[b].gen = work[b].gen
             /\ work'[b].pc = "gate" <=> work[b].pc = "gate"
    <3>1. /\ Len(s) \in Nat /\ \A n \in Elems(s) : n \in 1..Len(typed[b])
      BY <2>0, <2>1, CommandsKnown
    <3>2. Sealed(b, s, g) BY <2>0, <2>1 DEF Dated
    <3>3. Sealed(b, s, g)' BY <3>1, <3>2, SealedKept
    <3>4. work'[b].gen <= gen' BY <1>1, <2>1, <2>w DEF Dated
    <3>5. ASSUME work'[b].pc = "gate"
          PROVE  \E n \in Nat : /\ work'[b].cmd = <<n>>
                                /\ typed'[b][n] = work'[b].gen
      <4>1. PICK n \in Nat : work[b].cmd = <<n>> /\ typed[b][n] = work[b].gen
        BY <2>1, <3>5 DEF Dated
      <4>2. n \in Elems(work[b].cmd) BY <4>1 DEF Elems
      <4>3. n \in 1..Len(typed[b]) BY <2>0, <2>1, <3>1, <4>2
      <4> QED BY <1>2, <2>1, <4>1, <4>3
    <3> QED BY <2>0, <3>3, <3>4, <3>5 DEF Sealed
  <2>2. CASE /\ TypeFree(b)
             /\ work'[b].cmd = <<Len(typed[b]) + 1>> /\ work'[b].gen = gen
    <3>1. typed'[b][Len(typed[b]) + 1] = gen BY <1>2, <2>2
    <3>2. \A i \in 1..Len(work'[b].cmd) : work'[b].cmd[i] = Len(typed[b]) + 1
      BY <2>2
    <3>3. Sealed(b, work[b].cmd, work[b].gen)' BY <2>2, <3>1, <3>2 DEF Sealed
    <3> QED BY <1>1, <1>2, <2>2, <3>1, <3>3
  <2>3. CASE /\ LineGrows(b) /\ Complete(b, work[b].cmd) /\ work'[b].pc = "line"
             /\ work'[b].cmd = Joined(b, work[b].cmd)
             /\ work'[b].gen = work[b].gen
    <3>1. InHand(b) /\ work[b].pc = "gate" BY <2>3 DEF LineGrows, InHand
    <3>2. Sealed(b, s, g) BY <2>0, <2>3, <3>1, CompletedSealed
    <3>3. /\ Len(s) \in Nat
          /\ Elems(s) \subseteq Line(b) \cup Elems(work[b].cmd)
      BY <1>0, <2>0, <2>3, <2>w, JoinedElems, LenProperties
    <3>4. \A n \in Elems(s) : n \in 1..Len(typed[b])
      BY <3>1, <3>3, CommandsKnown DEF Known
    <3>5. Sealed(b, s, g)' BY <3>2, <3>3, <3>4, SealedKept
    <3>6. work'[b].gen <= gen' BY <1>1, <2>3, <2>w, <3>1 DEF Dated
    <3> QED BY <2>0, <2>3, <3>5, <3>6 DEF Sealed
  <2> QED BY <1>5, <2>1, <2>2, <2>3, HandBefore
<1>o. ASSUME NEW a \in Admin, adm[a].pc \in Fenced \ {"announce"}, By(a) = b,
             adm[a].r \in Owed, NEW n \in Line(b) \cup Buffer(b), Fresh(b, n)
      PROVE  typed[b][n] = gen
  <2>1. gen = req[adm[a].r].gen /\ adm[a].r \in 1..Len(req)
          /\ req[adm[a].r].by = b
    BY <1>o DEF Base, Fencing, By, Owed
  <2>2. n \in 1..Len(typed[b]) BY <1>o DEF Known
  <2>3. req[adm[a].r].gen <= typed[b][n] /\ typed[b][n] <= gen
    BY <1>o, <2>1, <2>2 DEF Dated
  <2> QED BY <1>1, <1>t, <2>1, <2>2, <2>3
<1>6. ASSUME NEW a \in Admin, adm'[a].pc \in WithItem, req'[adm'[a].r].by = b,
             NEW n \in Elems(adm'[a].item), Fresh(b, n)'
      PROVE  typed'[b][n] = gen'
  <2>0. Fresh(b, n) BY <1>6, FreshBefore
  <2>1. CASE adm'[a] = adm[a]
    <3>1. adm[a].r \in 1..Len(req)
      BY <1>0, <1>6, <2>1 DEF Working, Busy, Fenced, WithItem
    <3>2. By(a) = b BY <1>0, <1>6, <2>1, <3>1 DEF Kept, By
    <3>3. gen' = gen BY <1>1, <1>6, <2>1 DEF Fenced, WithItem
    <3>4. n \in 1..Len(typed[b]) BY <1>6, <2>1, <3>2, CommandsKnown
    <3> QED BY <1>2, <1>6, <2>0, <2>1, <3>2, <3>3, <3>4 DEF Dated
  <2>2. CASE Takes(a)
    <3>1. By(a) = b /\ n \in Buffer(b)
          /\ adm[a].pc = "replay" /\ UNCHANGED <<gen, typed>>
      BY <1>6, <2>2 DEF Takes, By, Buffer
    <3>2. adm[a].r \in Owed BY <3>1, Holder DEF Holding
    <3> QED BY <1>o, <2>0, <3>1, <3>2 DEF Fenced
  <2>3. CASE Completes(a)
    <3>1. By(a) = b /\ n \in Elems(Joined(b, adm[a].item))
          /\ adm[a].pc = "item" /\ UNCHANGED <<gen, typed>>
      BY <1>6, <2>3 DEF Completes, By
    <3>2. adm[a].r \in Owed BY <3>1, Holder DEF Holding
    <3>3. adm[a].item \in Seq(Nat) BY <1>0 DEF AdminOK, Jobs
    <3>4. n \in Line(b) \/ n \in Elems(adm[a].item)
      BY <1>0, <3>1, <3>3, JoinedElems
    <3>5. CASE n \in Line(b) BY <1>o, <2>0, <3>1, <3>2, <3>5 DEF Fenced
    <3>6. CASE n \in Elems(adm[a].item)
      BY <2>0, <3>1, <3>6 DEF Dated, WithItem
    <3> QED BY <3>4, <3>5, <3>6
  <2> QED BY <1>6, <2>1, <2>2, <2>3, ItemBefore
<1>7. ASSUME NEW r \in 1..Len(req'), Undelivered(r)', req'[r].by = b
      PROVE  Sealed(b, req[r].cmd, req[r].gen)'
  <2>0. PICK s, g : s = req'[r].cmd /\ g = req'[r].gen OBVIOUS
  <2>1. Sealed(b, s, g) /\ \A n \in Elems(s) : n \in 1..Len(typed[b])
    <3>1. CASE r \in 1..Len(req)
      <4>1. /\ Undelivered(r) /\ req[r].by = b /\ req'[r].cmd = req[r].cmd
            /\ req'[r].gen = req[r].gen
        BY <1>0, <1>7, <3>1, UndeliveredBefore DEF Kept
      <4> QED BY <2>0, <3>1, <4>1, CommandsKnown DEF Dated
    <3>2. CASE r \notin 1..Len(req)
      BY <1>7, <2>0, <3>2, RequestDated
    <3> QED BY <3>1, <3>2
  <2>2. Len(s) \in Nat BY <1>4, <1>7, <2>0
  <2>3. Sealed(b, s, g)' BY <2>1, <2>2, SealedKept
  <2> QED BY <2>0, <2>3 DEF Sealed
<1>8. ASSUME NEW r \in Owed', req'[r].by = b,
             NEW n \in Line(b)' \cup Buffer(b)', Fresh(b, n)'
      PROVE  req'[r].gen <= typed'[b][n]
  <2>0. Fresh(b, n) /\ r \in 1..Len(req')
    BY <1>8, FreshBefore DEF Owed
  <2>1. CASE r \in 1..Len(req)
    <3>1. r \in Owed /\ req[r].by = b /\ req'[r].gen = req[r].gen
      BY <1>0, <1>8, <2>1, OwedBefore DEF Kept
    <3>2. CASE n \in Line(b) \cup Buffer(b)
      <4>1. n \in 1..Len(typed[b]) BY <3>2 DEF Known
      <4> QED BY <1>2, <2>0, <3>1, <3>2, <4>1 DEF Dated
    <3>3. CASE TypePaused(b) /\ n = Len(typed[b]) + 1
      BY <1>2, <2>1, <3>1, <3>3 DEF Dated
    <3>4. ASSUME NEW s \in Seq(Nat), Joins(b, s), n \in Elems(s)
          PROVE  req'[r].gen <= typed'[b][n]
      <4>1. ~InHand(b) BY <3>1 DEF Pauses
      <4>2. PICK a \in Admin :
              adm[a].pc = "item" /\ By(a) = b /\ s = adm[a].item
        BY <3>4, <4>1 DEF Joins
      <4>3. typed[b][n] = gen BY <2>0, <3>4, <4>2 DEF Dated, WithItem
      <4>4. typed'[b][n] = typed[b][n] BY <3>4 DEF Joins
      <4> QED BY <2>1, <3>1, <4>3, <4>4 DEF Dated
    <3> QED BY <1>8, <3>2, <3>3, <3>4, BufferMoves, LineBefore
  <2>2. CASE r \notin 1..Len(req)
    <3>1. UNCHANGED <<typed, hold, line>> /\ line[b] = <<>>
          /\ \A m \in Buffer(b) : Fresh(b, m) => req'[r].gen <= typed[b][m]
      BY <1>8, <2>0, <2>2, RequestDated
    <3>2. n \in Buffer(b)
      BY <1>8, <3>1, EmptySeq DEF Buffer, Line, Elems
    <3> QED BY <2>0, <3>1, <3>2
  <2> QED BY <2>1, <2>2
<1>9. \A r \in 1..Len(req') : req'[r].by = b => req'[r].gen <= gen' BY <1>4
<1>10. work'[b].pc = "gate" =>
         \E n \in Nat : work'[b].cmd = <<n>> /\ typed'[b][n] = work'[b].gen
  BY <1>5 DEF InHand
<1> QED BY <1>3, <1>9, <1>l, <1>5, <1>10, <1>6, <1>7, <1>8 DEF Dated, By

Epochs == EpochKept /\ \A b \in Browser : Dated(b)

\* Nothing is sent in the step that changes the generation.
LEMMA SentGen == ASSUME TypeOK, Working, [Next]_vars, ~UNCHANGED sent
  PROVE gen' = gen
BY Sends DEF Send, Deliver, CutShort, ItemSent, ItemFails, ownerVars

\* What is sent was typed in the present generation, or begins a line that was
\* completed in it.
LEMMA SentSealed ==
  ASSUME Base, Pauses, NEW b \in Browser, Dated(b), NEW s, Sending(b, s)
  PROVE  Sealed(b, s, gen)
<1>1. CASE work[b].pc = "send" /\ gen = work[b].gen /\ s = work[b].cmd
  BY <1>1 DEF Dated, InHand
<1>2. ASSUME NEW a \in Admin, adm[a].pc = "deliver", By(a) = b,
             s = req[adm[a].r].cmd
      PROVE  Sealed(b, s, gen)
  <2>1. adm[a].r \in 1..Len(req) /\ Undelivered(adm[a].r)
    BY <1>2, Holder DEF Holding, Undelivered
  <2>2. gen = req[adm[a].r].gen /\ req[adm[a].r].by = b
    BY <1>2 DEF Base, Fencing, Fenced, By
  <2> QED BY <1>2, <2>1, <2>2 DEF Dated
<1>3. ASSUME NEW a \in Admin, adm[a].pc = "line", By(a) = b, s = adm[a].item
      PROVE  Sealed(b, s, gen)
  BY <1>3 DEF Dated, WithItem, Sealed, Elems
<1> QED BY <1>1, <1>2, <1>3 DEF Sending

\* What has been delivered stays in its epoch.
LEMMA EpochStays ==
  ASSUME Base, Pauses, [Next]_vars, Places, NEW i \in 1..Len(sent)
  PROVE  LET d == sent[i] IN
         /\ typed'[d.from][d.n] = typed[d.from][d.n]
         /\ <<d.from, d.n>> \in newline' <=> <<d.from, d.n>> \in newline
<1>0. sent \in Seq(Delivered) BY TypeParts DEF Base, PastOK, Delivered
<1>1. sent[i] \in Delivered BY <1>0, ElementOfSeq
<1>2. PICK c \in Browser, n \in Nat : c = sent[i].from /\ n = sent[i].n
  BY <1>1 DEF Delivered
<1>3. n \in Gone(c) BY <1>2 DEF Gone
<1>4. n \in 1..Len(typed[c]) BY <1>3 DEF Places, Known
<1>5. /\ typed'[c][n] = typed[c][n]
      /\ <<c, n>> \in newline' <=> <<c, n>> \in newline
  BY <1>4, TypedMoves
<1> QED BY <1>2, <1>5

LEMMA EpochStep ==
  ASSUME Base, Pauses, [Next]_vars, Places, EpochKept,
         \A b \in Browser : Dated(b)
  PROVE  EpochKept'
<1>0. /\ sent \in Seq(Delivered) /\ Len(sent) \in Nat
  BY TypeParts, LenProperties DEF Base, PastOK, Delivered
<1>1. stranded \subseteq stranded' BY StrandedGrows
<1> DEFINE Holds(i) ==
      \/ <<sent'[i].from, sent'[i].n>> \in stranded'
      \/ typed'[sent'[i].from][sent'[i].n] = sent'[i].gen
      \/ /\ <<sent'[i].from, sent'[i].n>> \notin newline'
         /\ \E j \in i+1 .. Len(sent') :
              /\ sent'[j].from = sent'[i].from /\ sent'[j].gen = sent'[i].gen
              /\ typed'[sent'[j].from][sent'[j].n] = sent'[j].gen
<1>2. ASSUME \A i \in 1..Len(sent) : sent'[i] = sent[i], Len(sent') \in Nat,
             Len(sent) <= Len(sent'), NEW i \in 1..Len(sent)
      PROVE  Holds(i)
  <2>1. CASE Stranded(sent[i]) \/ InOwnEpoch(sent[i])
    BY <1>1, <1>2, <2>1, EpochStays DEF Stranded, InOwnEpoch
  <2>2. ASSUME NEW j \in i+1 .. Len(sent), CompletedBy(sent[i], sent[j])
        PROVE  Holds(i)
    <3>1. j \in 1..Len(sent) /\ j \in i+1 .. Len(sent') BY <1>0, <1>2
    <3>2. /\ <<sent[i].from, sent[i].n>> \notin newline'
          /\ sent[j].from = sent[i].from /\ sent[j].gen = sent[i].gen
          /\ typed'[sent[j].from][sent[j].n] = sent[j].gen
      BY <2>2, <3>1, EpochStays DEF CompletedBy, InOwnEpoch
    <3> QED BY <1>2, <3>1, <3>2
  <2> QED BY <2>1, <2>2 DEF EpochKept
<1> HIDE DEF Holds
<1>3. CASE UNCHANGED sent
  <2>1. \A i \in 1..Len(sent') : Holds(i) BY <1>0, <1>2, <1>3
  <2> QED BY <2>1 DEF Holds, EpochKept, Stranded, InOwnEpoch, CompletedBy
<1>4. CASE ~UNCHANGED sent
  <2>1. PICK b \in Browser : \E s \in Seq(Nat) : Sending(b, s)
    BY <1>4, Sendings
  <2>2. PICK s \in Seq(Nat) : Sending(b, s) BY <2>1
  <2>3. Follow(b, s) /\ Leaves(b, s) BY <2>2 DEF Sending
  <2>4. Len(s) \in Nat BY LenProperties
  <2>5. Sealed(b, s, gen) BY <2>2, SentSealed
  <2>6. \A k \in 1..Len(s) : s[k] \in 1..Len(typed[b])
    BY <2>3 DEF Leaves, Elems, Places, Known
  <2>7. Sealed(b, s, gen)'
    <3>1. PICK g : g = gen OBVIOUS
    <3>2. \A n \in Elems(s) : n \in 1..Len(typed[b]) BY <2>6 DEF Elems
    <3>3. Sealed(b, s, g)' BY <2>4, <2>5, <3>1, <3>2, SealedKept
    <3>4. gen' = gen BY <1>4, SentGen DEF Base
    <3> QED BY <3>1, <3>3, <3>4 DEF Sealed
  <2>8. ASSUME NEW k \in 1..Len(s) PROVE Holds(Len(sent) + k)
    <3>1. \A j \in 1..Len(s) :
            sent'[Len(sent) + j] = [from |-> b, n |-> s[j], gen |-> gen]
      BY <2>3 DEF Follow
    <3>2. gen' = gen BY <1>4, SentGen DEF Base
    <3>i. PICK i : i = Len(sent) + k OBVIOUS
    <3>e. sent'[Len(sent) + k] = [from |-> b, n |-> s[k], gen |-> gen]
      BY <3>1, Zenon
    <3>f. sent'[i].from = b /\ sent'[i].n = s[k] /\ sent'[i].gen = gen
      BY <3>e, <3>i
    <3>3. CASE ~Fresh(b, s[k])' \/ typed'[b][s[k]] = gen
      BY <3>f, <3>i, <3>3 DEF Fresh, Holds
    <3>4. ASSUME <<b, s[k]>> \notin newline',
                 NEW j \in k+1 .. Len(s), typed'[b][s[j]] = gen
          PROVE  Holds(Len(sent) + k)
      <4>1. /\ j \in 1..Len(s)
            /\ Len(sent) + j \in i + 1 .. Len(sent')
        BY <1>0, <2>3, <2>4, <3>i DEF Follow
      <4>2. PICK m \in i + 1 .. Len(sent') : m = Len(sent) + j BY <4>1
      <4>e. sent'[Len(sent) + j] = [from |-> b, n |-> s[j], gen |-> gen]
        BY <3>1, <4>1, Zenon
      <4>3. sent'[m].from = b /\ sent'[m].n = s[j] /\ sent'[m].gen = gen
        BY <4>2, <4>e
      <4>4. Holds(i) BY <3>4, <3>f, <4>3 DEF Holds
      <4> QED BY <3>i, <4>4
    <3> QED BY <2>7, <3>2, <3>3, <3>4 DEF Sealed
  <2>9. ASSUME NEW i \in 1..Len(sent') PROVE Holds(i)
    <3>1. Len(sent') = Len(sent) + Len(s) BY <2>3 DEF Follow
    <3>2. CASE i \in 1..Len(sent)
            BY <1>0, <1>2, <2>3, <2>4, <3>1, <3>2 DEF Follow
    <3>3. CASE i \notin 1..Len(sent)
      <4>1. PICK k \in 1..Len(s) : i = Len(sent) + k
        <5>1. i - Len(sent) \in 1..Len(s) /\ i = Len(sent) + (i - Len(sent))
          BY <1>0, <2>4, <3>1, <3>3
        <5> QED BY <5>1
      <4> QED BY <2>8, <4>1
    <3> QED BY <3>2, <3>3
  <2> QED BY <2>9 DEF Holds, EpochKept, Stranded, InOwnEpoch, CompletedBy
<1> QED BY <1>3, <1>4

LEMMA EpochsAlways == Spec => [](Base /\ Pauses /\ Places /\ Sequel /\ Epochs)
<1>1. ASSUME Init PROVE Epochs
  <2>1. ASSUME NEW b \in Browser PROVE Dated(b)
    <3>1. /\ Len(typed[b]) = 0 /\ Len(req) = 0 /\ Buffer(b) = {} /\ Line(b) = {}
      BY <1>1, NothingPlaced
    <3>2. Owed = {} BY <3>1 DEF Owed
    <3>3. /\ ~InHand(b) /\ work[b].pc = "idle"
          /\ \A a \in Admin : adm[a].pc \notin WithItem
      BY <1>1 DEF Init, InHand, Idle, NoJob, WithItem
    <3> QED BY <3>1, <3>2, <3>3 DEF Dated
  <2>2. Len(sent) = 0 BY <1>1, EmptySeq DEF Init
  <2> QED BY <2>1, <2>2 DEF Epochs, EpochKept
<1>2. Base /\ Pauses /\ Places /\ Sequel /\ Epochs /\ [Next]_vars => Epochs'
  BY DatedStep, EpochStep DEF Epochs, Sequel, Places
<1> QED BY <1>1, <1>2, SequelAlways, PTL DEF Spec

\* What is delivered was typed in the epoch it is delivered in, or begins a line
\* that was completed in it: a handler's own command, a held one and the input
\* replayed after it; unless it was stranded.
THEOREM KeptInEpoch == Spec => []EpochKept
<1>1. Epochs => EpochKept BY DEF Epochs
<1> QED BY <1>1, EpochsAlways, PTL
=============================================================================
