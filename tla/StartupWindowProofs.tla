------------------------ MODULE StartupWindowProofs ------------------------
(***************************************************************************)
(* Proofs about StartupWindow, for every set of sockets, every cap and     *)
(* every bound.  The feed of a joining browser (what it got, what is being *)
(* sent, what is buffered) only ever grows by the delta just broadcast:    *)
(* FeedStep.  Order and completeness of the feed follow from that alone.   *)
(***************************************************************************)
EXTENDS StartupWindow, SequenceTheorems, TLAPS

\* Where a browser keeps nothing: before it registers, outside its flush, and
\* outside the window.
Tidy ==
  \A b \in Browser :
    /\ phase[b] = "new" => got[b] = <<>> /\ missed[b] = {}
    /\ phase[b] # "flush" => batch[b] = <<>> /\ batchHeld[b] = 0
    /\ ~Pending(b) => buf[b] = <<>> /\ held[b] = 0

\* Snapshots are numbered by their commits, and one broadcast at a time is
\* past the fence.
CastsCount ==
  /\ \A w \in Socket : cast[w].n <= screen
  /\ \A w \in Socket : cast[w].stage = "unused" => cast[w].n = 0
  /\ \A v, w \in FenceHolders : v = w

\* What a browser shows is no newer than what is on its way to it.
Newer(b) ==
  /\ shown[b] <= screen /\ init[b] <= screen
  /\ held[b] <= screen /\ batchHeld[b] <= screen
  /\ held[b] # 0 => shown[b] <= held[b] /\ init[b] <= held[b]
                    /\ batchHeld[b] <= held[b]
  /\ batchHeld[b] # 0 => shown[b] <= batchHeld[b]
  /\ phase[b] \in {"new", "hello"} => shown[b] = 0

ShownFirst ==
  /\ \A b \in Browser : Newer(b)
  /\ \A w \in FenceHolders : \A b \in cast[w].to :
       ~Pending(b) /\ phase[b] # "new" /\ shown[b] <= cast[w].n

Shape == TypeOK /\ Tidy

-----------------------------------------------------------------------------
(* Types. *)

LEMMA TypeInit == Init => TypeOK
BY WindowAssumption DEF Init, TypeOK, Phase, Cast, Stage

LEMMA TypeBrowser ==
  ASSUME TypeOK,
         NEW b \in Browser,
         BrowserStep(b)
  PROVE  TypeOK'
<1> USE DEF TypeOK, hubVars, windowVars, seenVars, Phase
<1>1. CASE Register(b) BY <1>1 DEF Register
<1>2. CASE Hello(b) BY <1>2 DEF Hello
<1>3. CASE Activate(b) BY <1>3 DEF Activate
<1>4. CASE TakeBatch(b) BY <1>4 DEF TakeBatch
<1>5. CASE FlushDelta(b)
  <2>1. Head(batch[b]) \in Nat /\ Tail(batch[b]) \in Seq(Nat)
    BY <1>5, HeadTailProperties DEF FlushDelta
  <2>2. Append(got[b], Head(batch[b])) \in Seq(Nat) BY <2>1
  <2> QED BY <1>5, <2>1, <2>2 DEF FlushDelta
<1>6. CASE FlushSnapshot(b) BY <1>6 DEF FlushSnapshot
<1>7. CASE FlushFails(b) BY <1>7 DEF FlushFails
<1>8. CASE Leave(b) BY <1>8 DEF Leave
<1>9. CASE RemoveDead(b) BY <1>9 DEF RemoveDead
<1> QED
  BY <1>1, <1>2, <1>3, <1>4, <1>5, <1>6, <1>7, <1>8, <1>9
  DEF BrowserStep, Flush

LEMMA TypeWorker ==
  ASSUME TypeOK,
         NEW w \in Socket,
         WorkerStep(w)
  PROVE  TypeOK'
<1> USE DEF TypeOK, hubVars, windowVars, seenVars
<1>1. CASE RegisterWorker(w) BY <1>1 DEF RegisterWorker, Cast, Stage
<1>2. CASE Commit(w)
  <2>1. screen + 1 \in Nat OBVIOUS
  <2>2. cast' \in [Socket -> Cast]
    <3> DEFINE r == [cast[w] EXCEPT !.stage = "waiting", !.n = screen + 1]
    <3>1. r \in Cast
      <4>1. cast[w] \in Cast OBVIOUS
      <4> QED BY <4>1, <2>1 DEF Cast, Stage
    <3>2. cast' = [cast EXCEPT ![w] = r] BY <1>2 DEF Commit
    <3> QED BY <3>1, <3>2
  <2> QED BY <1>2, <2>1, <2>2 DEF Commit
<1>3. CASE Take(w)
  <2>1. Reached \subseteq Browser BY DEF Reached
  <2>2. cast' \in [Socket -> Cast]
    <3> DEFINE r == [cast[w] EXCEPT !.stage = "gate", !.to = Reached]
    <3>1. r \in Cast
      <4>1. cast[w] \in Cast OBVIOUS
      <4> QED BY <4>1, <2>1 DEF Cast, Stage
    <3>2. cast' = [cast EXCEPT ![w] = r] BY <1>3 DEF Take
    <3> QED BY <3>1, <3>2
  <2>3. held' \in [Browser -> Nat] BY <1>3 DEF Take, Cast
  <2> QED BY <1>3, <2>2, <2>3 DEF Take
<1>4. CASE Revalidate(w)
  <2>1. cast' \in [Socket -> Cast]
    <3> DEFINE r == [cast[w] EXCEPT !.stage = "sending"]
    <3>1. r \in Cast
      <4>1. cast[w] \in Cast OBVIOUS
      <4> QED BY <4>1 DEF Cast, Stage
    <3>2. cast' = [cast EXCEPT ![w] = r] BY <1>4 DEF Revalidate
    <3> QED BY <3>1, <3>2
  <2> QED BY <1>4, <2>1 DEF Revalidate
<1>5. CASE Abort(w)
  <2>1. cast' \in [Socket -> Cast]
    <3> DEFINE r == [cast[w] EXCEPT !.stage = "idle", !.to = {}]
    <3>1. r \in Cast
      <4>1. cast[w] \in Cast OBVIOUS
      <4> QED BY <4>1 DEF Cast, Stage
    <3>2. cast' = [cast EXCEPT ![w] = r] BY <1>5 DEF Abort
    <3> QED BY <3>1, <3>2
  <2> QED BY <1>5, <2>1 DEF Abort
<1>6. CASE Sent(w)
  <2>1. cast' \in [Socket -> Cast]
    <3> DEFINE r == [cast[w] EXCEPT !.stage = "idle", !.dead = {}]
    <3>1. r \in Cast
      <4>1. cast[w] \in Cast OBVIOUS
      <4> QED BY <4>1 DEF Cast, Stage
    <3>2. cast' = [cast EXCEPT ![w] = r] BY <1>6 DEF Sent
    <3> QED BY <3>1, <3>2
  <2>2. phase' \in [Browser -> Phase] BY <1>6 DEF Sent, Phase
  <2> QED BY <1>6, <2>1, <2>2 DEF Sent
<1>7. ASSUME NEW b \in Browser, SendSnapshot(w, b) PROVE TypeOK'
  <2>1. /\ cast[w].to \ {b} \subseteq Browser
        /\ cast[w].dead \cup {b} \subseteq Browser
    BY <1>7 DEF Cast
  <2>2. \/ cast' = [cast EXCEPT ![w].to = @ \ {b}]
        \/ cast' = [cast EXCEPT ![w].to = @ \ {b}, ![w].dead = @ \cup {b}]
    BY <1>7 DEF SendSnapshot
  <2>3. PICK r \in Cast : cast' = [cast EXCEPT ![w] = r]
    <3>1. CASE cast' = [cast EXCEPT ![w].to = @ \ {b}]
      <4> DEFINE r == [cast[w] EXCEPT !.to = @ \ {b}]
      <4>1. r \in Cast BY <2>1 DEF Cast
      <4> QED BY <3>1, <4>1
    <3>2. CASE cast' = [cast EXCEPT ![w].to = @ \ {b},
                                    ![w].dead = @ \cup {b}]
      <4> DEFINE r == [cast[w] EXCEPT !.to = @ \ {b}, !.dead = @ \cup {b}]
      <4>1. r \in Cast BY <2>1 DEF Cast
      <4> QED BY <3>2, <4>1
    <3> QED BY <2>2, <3>1, <3>2
  <2>4. phase' \in [Browser -> Phase] BY <1>7 DEF SendSnapshot, Phase
  <2>5. shown' \in [Browser -> Nat] BY <1>7 DEF SendSnapshot, Cast
  <2>6. cast' \in [Socket -> Cast] BY <2>3
  <2> QED BY <1>7, <2>4, <2>5, <2>6 DEF SendSnapshot
<1> QED
  BY <1>1, <1>2, <1>3, <1>4, <1>5, <1>6, <1>7 DEF WorkerStep, Publish

LEMMA TypeHub ==
  ASSUME TypeOK,
         BroadcastDelta \/ BroadcastStatus \/ WorkerLost
  PROVE  TypeOK'
<1> USE DEF TypeOK, hubVars, windowVars, seenVars
<1>1. CASE BroadcastDelta
  <2>1. phase' \in [Browser -> Phase]
    BY <1>1 DEF BroadcastDelta, PhaseAfter, Phase
  <2>2. kept + 1 \in Nat OBVIOUS
  <2>3. \A b \in Browser : /\ Append(got[b], kept + 1) \in Seq(Nat)
                           /\ Append(buf[b], kept + 1) \in Seq(Nat)
                           /\ missed[b] \cup {kept + 1} \in SUBSET Nat
    BY <2>2
  <2>4. got' \in [Browser -> Seq(Nat)] BY <1>1, <2>3 DEF BroadcastDelta
  <2>5. buf' \in [Browser -> Seq(Nat)] BY <1>1, <2>3 DEF BroadcastDelta
  <2>6. missed' \in [Browser -> SUBSET Nat] BY <1>1, <2>3 DEF BroadcastDelta
  <2> QED BY <1>1, <2>1, <2>2, <2>4, <2>5, <2>6 DEF BroadcastDelta
<1>2. CASE BroadcastStatus
  <2>1. phase' \in [Browser -> Phase]
    BY <1>2 DEF BroadcastStatus, PhaseAfter, Phase
  <2> QED BY <1>2, <2>1 DEF BroadcastStatus
<1>3. CASE WorkerLost BY <1>3 DEF WorkerLost
<1> QED BY <1>1, <1>2, <1>3

LEMMA TypeStep == ASSUME TypeOK, [Next]_vars PROVE TypeOK'
<1>1. CASE Next BY <1>1, TypeBrowser, TypeWorker, TypeHub DEF Next
<1>2. CASE UNCHANGED vars
  BY <1>2 DEF TypeOK, vars, hubVars, windowVars, seenVars
<1> QED BY <1>1, <1>2

\* Every variable keeps its type: in particular a broadcast only ever names
\* sockets that are browsers of the worker.
THEOREM TypeCorrect == Spec => []TypeOK
BY TypeInit, TypeStep, PTL DEF Spec

-----------------------------------------------------------------------------
(* Where frames can be. *)

LEMMA TidyInit == Init => Tidy
<1> SUFFICES ASSUME Init, NEW b \in Browser
             PROVE  /\ got[b] = <<>> /\ missed[b] = {}
                    /\ batch[b] = <<>> /\ batchHeld[b] = 0
                    /\ buf[b] = <<>> /\ held[b] = 0
  BY DEF Tidy
<1> QED BY DEF Init

LEMMA TidyStep == ASSUME Shape, [Next]_vars PROVE Tidy'
<1> USE DEF Shape, TypeOK, Tidy, Pending, hubVars, windowVars, seenVars
<1>1. ASSUME NEW b \in Browser, BrowserStep(b) PROVE Tidy'
  <2>1. CASE Register(b) BY <2>1 DEF Register
  <2>2. CASE Hello(b) BY <2>2 DEF Hello
  <2>3. CASE Activate(b)
    <3>1. buf[b] = <<>> /\ held[b] = 0
      BY <2>3, EmptySeq, LenProperties DEF Activate, Buffered
    <3> QED BY <2>3, <3>1 DEF Activate, BatchEmpty
  <2>4. CASE TakeBatch(b) BY <2>4 DEF TakeBatch
  <2>5. CASE FlushDelta(b) BY <2>5 DEF FlushDelta
  <2>6. CASE FlushSnapshot(b) BY <2>6 DEF FlushSnapshot
  <2>7. CASE FlushFails(b) BY <2>7 DEF FlushFails
  <2>8. CASE Leave(b) BY <2>8 DEF Leave
  <2>9. CASE RemoveDead(b) BY <2>9 DEF RemoveDead
  <2> QED
    BY <1>1, <2>1, <2>2, <2>3, <2>4, <2>5, <2>6, <2>7, <2>8, <2>9
    DEF BrowserStep, Flush
<1>2. ASSUME NEW w \in Socket, WorkerStep(w) PROVE Tidy'
  <2>1. CASE RegisterWorker(w) BY <2>1 DEF RegisterWorker
  <2>2. CASE Commit(w) BY <2>2 DEF Commit
  <2>3. CASE Take(w) BY <2>3 DEF Take
  <2>4. CASE Revalidate(w) BY <2>4 DEF Revalidate
  <2>5. CASE Abort(w) BY <2>5 DEF Abort
  <2>6. CASE Sent(w) BY <2>6 DEF Sent, Reached
  <2>7. ASSUME NEW b \in Browser, SendSnapshot(w, b) PROVE Tidy'
    <3>1. \/ phase' = phase
          \/ b \in Reached /\ phase' = [phase EXCEPT ![b] = "dying"]
      BY <2>7 DEF SendSnapshot
    <3> QED BY <2>7, <3>1 DEF SendSnapshot, Reached
  <2> QED
    BY <1>2, <2>1, <2>2, <2>3, <2>4, <2>5, <2>6, <2>7 DEF WorkerStep, Publish
<1>3. CASE BroadcastDelta BY <1>3 DEF BroadcastDelta, PhaseAfter, Reached
<1>4. CASE BroadcastStatus BY <1>4 DEF BroadcastStatus, PhaseAfter, Reached
<1>5. CASE WorkerLost BY <1>5 DEF WorkerLost
<1>6. CASE UNCHANGED vars BY <1>6 DEF vars
<1> QED BY <1>1, <1>2, <1>3, <1>4, <1>5, <1>6 DEF Next

-----------------------------------------------------------------------------
(* The feed of a joining browser. *)

LEMMA FeedTyped ==
  ASSUME TypeOK, NEW b \in Browser PROVE Feed(b) \in Seq(Nat)
BY ConcatProperties DEF TypeOK, Feed

LEMMA FeedLive ==
  ASSUME NEW s \in Seq(Nat) PROVE (s \o <<>>) \o <<>> = s
BY ConcatEmptySeq

LEMMA FeedTaken ==
  ASSUME NEW s \in Seq(Nat), NEW t \in Seq(Nat)
  PROVE  (s \o t) \o <<>> = (s \o <<>>) \o t
BY ConcatEmptySeq, ConcatProperties

LEMMA FeedMoved ==
  ASSUME NEW s \in Seq(Nat), NEW t \in Seq(Nat), NEW u \in Seq(Nat),
         t # <<>>
  PROVE  (Append(s, Head(t)) \o Tail(t)) \o u = (s \o t) \o u
<1>1. Head(t) \in Nat /\ Tail(t) \in Seq(Nat) BY HeadTailProperties
<1>2. Append(s, Head(t)) = s \o <<Head(t)>> BY <1>1, AppendIsConcat
<1>3. <<Head(t)>> \in Seq(Nat) BY <1>1
<1>4. t = <<Head(t)>> \o Tail(t)
  <2> DEFINE v == <<Head(t)>> \o Tail(t)
  <2>1. v \in Seq(Nat) /\ Len(v) = 1 + Len(Tail(t)) BY <1>1, <1>3, ConcatProperties
  <2>2. Len(v) = Len(t) BY <2>1, HeadTailProperties, LenProperties
  <2>3. \A i \in 1..Len(t) :
          v[i] = IF i <= 1 THEN Head(t) ELSE Tail(t)[i - 1]
    BY <1>1, <1>3, <2>1, <2>2, ConcatProperties
  <2>4. \A i \in 1..Len(t) : i > 1 => Tail(t)[i - 1] = t[i]
    BY HeadTailProperties, LenProperties
  <2>5. Head(t) = t[1] OBVIOUS
  <2>6. \A i \in 1..Len(t) : v[i] = t[i]
    BY <2>3, <2>4, <2>5, LenProperties
  <2> HIDE DEF v
  <2>7. v = t BY <2>1, <2>2, <2>6, SeqEqual
  <2> QED BY <2>7 DEF v
<1>5. (s \o <<Head(t)>>) \o Tail(t) = s \o (<<Head(t)>> \o Tail(t))
  BY SMTT(30), <1>1, <1>3, ConcatAssociative
<1> QED BY <1>2, <1>4, <1>5

LEMMA FeedQueued ==
  ASSUME NEW s \in Seq(Nat), NEW t \in Seq(Nat), NEW n \in Nat
  PROVE  s \o Append(t, n) = Append(s \o t, n)
<1>1. Append(t, n) = t \o <<n>> BY AppendIsConcat
<1>2. s \o t \in Seq(Nat) /\ <<n>> \in Seq(Nat) BY ConcatProperties
<1>3. Append(s \o t, n) = (s \o t) \o <<n>> BY <1>2, AppendIsConcat
<1> QED BY <1>1, <1>2, <1>3, ConcatAssociative

\* How a step leaves what joining browser b is owed.
Opens(b) == /\ phase[b] = "new"
            /\ Feed(b)' = <<>> /\ missed'[b] = {} /\ since'[b] = kept
            /\ kept' = kept
Keeps(b) == /\ Joining(b) /\ kept' = kept
            /\ Feed(b)' = Feed(b)
            /\ missed'[b] = missed[b] /\ since'[b] = since[b]
Gains(b) == /\ Joining(b) /\ kept' = kept + 1
            /\ Feed(b)' = Append(Feed(b), kept + 1)
            /\ missed'[b] = missed[b] /\ since'[b] = since[b]
Misses(b) == /\ Joining(b) /\ kept' = kept + 1
             /\ Feed(b)' = Feed(b)
             /\ missed'[b] = missed[b] \cup {kept + 1}
             /\ since'[b] = since[b]

LEMMA FeedStep ==
  ASSUME Shape, [Next]_vars, NEW b \in Browser, Joining(b)'
  PROVE  Opens(b) \/ Keeps(b) \/ Gains(b) \/ Misses(b)
<1> USE DEF Shape, TypeOK, hubVars, windowVars, seenVars
<1>1. got[b] \in Seq(Nat) /\ batch[b] \in Seq(Nat) /\ buf[b] \in Seq(Nat)
  OBVIOUS
<1>2. ASSUME UNCHANGED <<got, batch, buf, missed, since, kept>>, Joining(b)
      PROVE  Keeps(b)
  BY <1>2 DEF Keeps, Feed
<1>3. ASSUME NEW c \in Browser, BrowserStep(c)
      PROVE  Opens(b) \/ Keeps(b)
  <2>1. CASE c # b
    <3>1. /\ phase'[b] = phase[b] /\ got'[b] = got[b] /\ batch'[b] = batch[b]
          /\ buf'[b] = buf[b] /\ missed'[b] = missed[b]
          /\ since'[b] = since[b] /\ kept' = kept
      BY <1>3, <2>1
      DEF BrowserStep, Flush, Register, Hello, Activate, TakeBatch, FlushDelta,
          FlushSnapshot, FlushFails, Leave, RemoveDead
    <3> QED BY <3>1 DEF Keeps, Feed, Joining
  <2>2. CASE c = b /\ Register(b)
    <3>1. got[b] = <<>> /\ batch[b] = <<>> /\ buf[b] = <<>> /\ missed[b] = {}
      BY <2>2 DEF Register, Tidy, Pending
    <3>2. Feed(b) = <<>>
      BY <3>1, FeedLive, EmptySeq DEF Feed
    <3> QED BY <2>2, <3>1, <3>2 DEF Register, Opens, Feed
  <2>3. CASE c = b /\ (Hello(b) \/ Activate(b) \/ FlushSnapshot(b))
    <3>1. UNCHANGED <<got, batch, buf, missed, since, kept>>
      BY <2>3 DEF Hello, Activate, FlushSnapshot
    <3>2. Joining(b) BY <2>3 DEF Hello, Activate, FlushSnapshot, Joining
    <3> QED BY <1>2, <3>1, <3>2
  <2>4. CASE c = b /\ TakeBatch(b)
    <3>1. /\ got'[b] = got[b] /\ batch'[b] = buf[b] /\ buf'[b] = <<>>
          /\ batch[b] = <<>>
      BY <2>4 DEF TakeBatch, BatchEmpty
    <3>2. (got[b] \o buf[b]) \o <<>> = (got[b] \o <<>>) \o buf[b]
      BY <1>1, FeedTaken
    <3>3. Feed(b)' = Feed(b) BY <3>1, <3>2 DEF Feed
    <3> QED BY <2>4, <3>3 DEF TakeBatch, Keeps, Joining
  <2>5. CASE c = b /\ FlushDelta(b)
    <3>1. /\ got'[b] = Append(got[b], Head(batch[b]))
          /\ batch'[b] = Tail(batch[b]) /\ buf'[b] = buf[b]
          /\ batch[b] # <<>>
      BY <2>5 DEF FlushDelta
    <3>2. (Append(got[b], Head(batch[b])) \o Tail(batch[b])) \o buf[b]
            = (got[b] \o batch[b]) \o buf[b]
      BY <1>1, <3>1, FeedMoved
    <3>3. Feed(b)' = Feed(b) BY <3>1, <3>2 DEF Feed
    <3> QED BY <2>5, <3>3 DEF FlushDelta, Keeps, Joining
  <2>6. CASE c = b /\ (FlushFails(b) \/ Leave(b) \/ RemoveDead(b))
    BY <2>6 DEF FlushFails, Leave, RemoveDead, Joining
  <2> QED
    BY <1>3, <2>1, <2>2, <2>3, <2>4, <2>5, <2>6 DEF BrowserStep, Flush
<1>4. ASSUME NEW w \in Socket, WorkerStep(w) PROVE Keeps(b)
  <2>1. UNCHANGED <<got, batch, buf, missed, since, kept>>
    BY <1>4
    DEF WorkerStep, Publish, RegisterWorker, Commit, Take, Revalidate, Abort,
        Sent, SendSnapshot
  <2>2. phase'[b] \in {phase[b], "dropped", "dying"}
    <3>1. CASE Sent(w) BY <3>1 DEF Sent
    <3>2. CASE \E c \in Browser : SendSnapshot(w, c)
      <4>1. PICK c \in Browser : SendSnapshot(w, c) BY <3>2
      <4>2. phase'[b] = phase[b] \/ phase'[b] \in {phase[b], "dying"}
        BY SMTT(30), <4>1 DEF SendSnapshot
      <4> QED BY <4>2
    <3>3. CASE ~Sent(w) /\ ~\E c \in Browser : SendSnapshot(w, c)
      BY <1>4, <3>3
      DEF WorkerStep, Publish, RegisterWorker, Commit, Take, Revalidate, Abort
    <3> QED BY <3>1, <3>2, <3>3
  <2>3. Joining(b) BY <2>2 DEF Joining
  <2> QED BY <1>2, <2>1, <2>3
<1>5. CASE BroadcastDelta
  <2>1. Joining(b) /\ phase'[b] = phase[b]
    BY <1>5 DEF BroadcastDelta, PhaseAfter, Joining, Reached
  <2>2. kept' = kept + 1 /\ since'[b] = since[b] /\ batch'[b] = batch[b]
    BY <1>5 DEF BroadcastDelta
  <2>3. kept + 1 \in Nat OBVIOUS
  <2>4. CASE phase[b] = "live"
    <3>1. batch[b] = <<>> /\ buf[b] = <<>> BY <2>4 DEF Tidy, Pending
    <3>2. got'[b] = Append(got[b], kept + 1) /\ buf'[b] = buf[b]
          /\ missed'[b] = missed[b]
      BY <1>5, <2>1, <2>4 DEF BroadcastDelta, PhaseAfter, Reached, Pending
    <3>3. Append(got[b], kept + 1) \in Seq(Nat) BY <1>1, <2>3
    <3>4. Feed(b) = got[b] /\ Feed(b)' = got'[b]
      BY <1>1, <2>2, <3>1, <3>2, <3>3, FeedLive DEF Feed
    <3> QED BY <2>1, <2>2, <3>2, <3>4 DEF Gains
  <2>5. CASE Pending(b) /\ Buffered(b) < Cap
    <3>0. b \notin Reached BY <2>5 DEF Reached, Pending
    <3>1. got'[b] = got[b] BY <1>5, <3>0 DEF BroadcastDelta
    <3>2. buf'[b] = Append(buf[b], kept + 1) BY <1>5, <2>5 DEF BroadcastDelta
    <3>3. ~(Buffered(b) >= Cap)
      BY <1>1, <2>5, WindowAssumption, LenProperties DEF Buffered
    <3>4. missed'[b] = missed[b] BY <1>5, <3>3 DEF BroadcastDelta
    <3>5. got[b] \o batch[b] \in Seq(Nat) BY <1>1, ConcatProperties
    <3>6. (got[b] \o batch[b]) \o Append(buf[b], kept + 1)
            = Append((got[b] \o batch[b]) \o buf[b], kept + 1)
      BY <1>1, <2>3, <3>5, FeedQueued
    <3>7. Feed(b)' = Append(Feed(b), kept + 1)
      BY <2>2, <3>1, <3>2, <3>6 DEF Feed
    <3> QED BY <2>1, <2>2, <3>4, <3>7 DEF Gains
  <2>6. CASE Pending(b) /\ ~(Buffered(b) < Cap)
    <3>1. Buffered(b) >= Cap
      BY <1>1, <2>6, WindowAssumption, LenProperties DEF Buffered
    <3>2. b \notin Reached BY <2>6 DEF Reached, Pending
    <3>3. got'[b] = got[b] BY <1>5, <3>2 DEF BroadcastDelta
    <3>4. buf'[b] = buf[b] BY <1>5, <2>6 DEF BroadcastDelta
    <3>5. missed'[b] = missed[b] \cup {kept + 1}
      BY <1>5, <2>6, <3>1 DEF BroadcastDelta
    <3> QED BY <2>1, <2>2, <3>3, <3>4, <3>5 DEF Misses, Feed
  <2> QED BY <2>1, <2>4, <2>5, <2>6 DEF Joining, Pending
<1>6. CASE BroadcastStatus \/ WorkerLost
  <2>1. UNCHANGED <<got, batch, buf, missed, since, kept>>
    BY <1>6 DEF BroadcastStatus, WorkerLost
  <2>2. Joining(b)
    BY <1>6 DEF BroadcastStatus, WorkerLost, PhaseAfter, Joining, Reached
  <2> QED BY <1>2, <2>1, <2>2
<1>7. CASE UNCHANGED vars BY <1>2, <1>7 DEF vars, Joining
<1> QED BY <1>3, <1>4, <1>5, <1>6, <1>7 DEF Next

-----------------------------------------------------------------------------
(* Order and completeness. *)

Ordered(s) == \A i, j \in 1..Len(s) : i < j => s[i] < s[j]
Elements(s) == {s[i] : i \in 1..Len(s)}

LEMMA AppendElements ==
  ASSUME NEW s \in Seq(Nat), NEW n \in Nat
  PROVE  Elements(Append(s, n)) = Elements(s) \cup {n}
<1> DEFINE t == Append(s, n)
<1>1. /\ Len(t) = Len(s) + 1 /\ t[Len(s) + 1] = n
      /\ \A i \in 1..Len(s) : t[i] = s[i]
  BY AppendProperties
<1>2. Len(s) \in Nat BY LenProperties
<1> HIDE DEF t
<1>3. ASSUME NEW i \in 1..Len(t) PROVE t[i] \in Elements(s) \cup {n}
  <2>1. i \in 1..Len(s) \/ i = Len(s) + 1 BY <1>1, <1>2
  <2> QED BY <1>1, <2>1 DEF Elements
<1>4. ASSUME NEW i \in 1..Len(s) PROVE s[i] \in Elements(t)
  BY <1>1, <1>2 DEF Elements
<1>5. n \in Elements(t)
  <2>1. Len(s) + 1 \in 1..Len(t) BY <1>1, <1>2
  <2> QED BY <1>1, <2>1 DEF Elements
<1>6. Elements(t) \subseteq Elements(s) \cup {n}
  <2>1. \A e \in Elements(t) : \E i \in 1..Len(t) : e = t[i] BY DEF Elements
  <2> QED BY <1>3, <2>1
<1>7. Elements(s) \cup {n} \subseteq Elements(t)
  <2>1. \A e \in Elements(s) : \E i \in 1..Len(s) : e = s[i] BY DEF Elements
  <2> QED BY <1>4, <1>5, <2>1
<1>8. Elements(t) = Elements(s) \cup {n} BY <1>6, <1>7
<1> QED BY <1>8 DEF t

LEMMA AppendOrdered ==
  ASSUME NEW s \in Seq(Nat), NEW n \in Nat,
         Ordered(s), \A e \in Elements(s) : e < n
  PROVE  Ordered(Append(s, n))
<1> DEFINE t == Append(s, n)
<1>1. /\ Len(t) = Len(s) + 1 /\ t[Len(s) + 1] = n
      /\ \A i \in 1..Len(s) : t[i] = s[i]
  BY AppendProperties
<1>2. Len(s) \in Nat BY LenProperties
<1>3. \A i \in 1..Len(s) : s[i] < n BY DEF Elements
<1> HIDE DEF t
<1>4. ASSUME NEW i \in 1..Len(t), NEW j \in 1..Len(t), i < j
      PROVE  t[i] < t[j]
  <2>1. i \in 1..Len(s) BY <1>1, <1>2, <1>4
  <2>2. CASE j \in 1..Len(s) BY <1>1, <1>4, <2>1, <2>2 DEF Ordered
  <2>3. CASE j = Len(s) + 1 BY <1>1, <1>3, <2>1, <2>3
  <2> QED BY <1>1, <1>2, <2>2, <2>3
<1>5. Ordered(t) BY <1>4 DEF Ordered
<1> QED BY <1>5 DEF t

\* The feed of b is what was broadcast since b registered, less what the cap
\* refused, in order.
FeedExact(b) ==
  /\ since[b] <= kept /\ missed[b] \subseteq 1..kept
  /\ Ordered(Feed(b))
  /\ Elements(Feed(b)) = (since[b] + 1)..kept \ missed[b]
FeedInv == \A b \in Browser : Joining(b) => FeedExact(b)

LEMMA FeedInit == Init => FeedInv
BY DEF Init, FeedInv, Joining

LEMMA FeedInvStep == ASSUME Shape, FeedInv, [Next]_vars PROVE FeedInv'
<1>1. TypeOK' BY TypeStep DEF Shape
<1> SUFFICES ASSUME NEW b \in Browser, Joining(b)' PROVE FeedExact(b)'
  BY DEF FeedInv
<1>2. Opens(b) \/ Keeps(b) \/ Gains(b) \/ Misses(b) BY FeedStep
<1>3. kept \in Nat /\ since[b] \in Nat /\ missed[b] \in SUBSET Nat
      /\ Feed(b) \in Seq(Nat)
  BY FeedTyped DEF Shape, TypeOK
<1>4. CASE Opens(b)
  <2>1. Elements(Feed(b)') = {} /\ Ordered(Feed(b)')
    BY <1>4, EmptySeq DEF Opens, Elements, Ordered
  <2>2. (since'[b] + 1)..kept' = {} BY <1>3, <1>4 DEF Opens
  <2>3. since'[b] <= kept' /\ missed'[b] \subseteq 1..kept'
    BY <1>3, <1>4 DEF Opens
  <2> QED BY <2>1, <2>2, <2>3 DEF FeedExact
<1>5. CASE Keeps(b)
  <2>1. FeedExact(b) BY <1>5 DEF FeedInv, Keeps
  <2> QED BY <1>5, <2>1 DEF FeedExact, Keeps
<1>6. CASE Gains(b)
  <2>1. FeedExact(b) BY <1>6 DEF FeedInv, Gains
  <2>2. /\ since[b] <= kept /\ missed[b] \subseteq 1..kept
        /\ Elements(Feed(b)) = (since[b] + 1)..kept \ missed[b]
        /\ Ordered(Feed(b))
    BY <2>1 DEF FeedExact
  <2>3. \A e \in Elements(Feed(b)) : e < kept + 1 BY <1>3, <2>2
  <2>4. Ordered(Append(Feed(b), kept + 1))
    BY <1>3, <2>2, <2>3, AppendOrdered
  <2>5. Elements(Append(Feed(b), kept + 1)) = Elements(Feed(b)) \cup {kept + 1}
    BY <1>3, AppendElements
  <2>6. (since[b] + 1)..(kept + 1) \ missed[b]
          = ((since[b] + 1)..kept \ missed[b]) \cup {kept + 1}
    BY <1>3, <2>2
  <2>7. missed[b] \subseteq 1..(kept + 1) /\ since[b] <= kept + 1
    BY <1>3, <2>2
  <2> QED BY <1>6, <2>2, <2>4, <2>5, <2>6, <2>7 DEF FeedExact, Gains
<1>7. CASE Misses(b)
  <2>1. FeedExact(b) BY <1>7 DEF FeedInv, Misses
  <2>2. /\ since[b] <= kept /\ missed[b] \subseteq 1..kept
        /\ Elements(Feed(b)) = (since[b] + 1)..kept \ missed[b]
        /\ Ordered(Feed(b))
    BY <2>1 DEF FeedExact
  <2>3. (since[b] + 1)..(kept + 1) \ (missed[b] \cup {kept + 1})
          = (since[b] + 1)..kept \ missed[b]
    BY <1>3, <2>2
  <2>4. missed[b] \cup {kept + 1} \subseteq 1..(kept + 1)
        /\ since[b] <= kept + 1
    BY <1>3, <2>2
  <2> QED BY <1>7, <2>2, <2>3, <2>4 DEF FeedExact, Misses
<1> QED BY <1>2, <1>4, <1>5, <1>6, <1>7

LEMMA FeedAlways == Spec => [](Shape /\ FeedInv)
<1>1. Init => Shape /\ FeedInv BY TypeInit, TidyInit, FeedInit DEF Shape
<1>2. Shape /\ FeedInv /\ [Next]_vars => (Shape /\ FeedInv)'
  BY TypeStep, TidyStep, FeedInvStep DEF Shape
<1> QED BY <1>1, <1>2, PTL DEF Spec

\* A frame broadcast while a backlog goes out queues behind it, and one sent
\* directly comes after the last of it: activate_browser_broadcasts makes the
\* browser live only on an empty queue, under the lock broadcasts take.
THEOREM FeedOrdered == Spec => []FeedInOrder
<1>1. Shape /\ FeedInv => FeedInOrder
  BY DEF FeedInv, FeedExact, Ordered, FeedInOrder
<1> QED BY <1>1, FeedAlways, PTL

\* No delta is lost between registration and activation, except those refused
\* at the cap of the startup buffer, and none is delivered twice.
THEOREM FeedWhole == Spec => []FeedComplete
<1>1. Shape /\ FeedInv => FeedComplete
  BY DEF FeedInv, FeedExact, Elements, FeedComplete
<1> QED BY <1>1, FeedAlways, PTL

-----------------------------------------------------------------------------
(* The buffer. *)

LEMMA BufferStep ==
  ASSUME Shape, BufferBounded, [Next]_vars PROVE BufferBounded'
<1> SUFFICES ASSUME NEW b \in Browser PROVE Len(buf'[b]) <= Cap
  BY DEF BufferBounded
<1>1. Len(buf[b]) <= Cap /\ buf[b] \in Seq(Nat) /\ Cap \in Nat
  BY WindowAssumption DEF BufferBounded, Shape, TypeOK
<1>2. CASE buf'[b] = buf[b] \/ buf'[b] = <<>> BY <1>1, <1>2, EmptySeq
<1>3. CASE BroadcastDelta
  <2>1. CASE Pending(b) /\ Buffered(b) < Cap
    <3>1. buf'[b] = Append(buf[b], kept + 1)
      BY <1>3, <2>1 DEF BroadcastDelta, Shape, TypeOK
    <3>2. Len(buf'[b]) = Len(buf[b]) + 1
      BY <1>1, <3>1, AppendProperties DEF Shape, TypeOK
    <3>3. Len(buf[b]) \in Nat BY <1>1, LenProperties
    <3>4. Buffered(b) = Len(buf[b]) + 0 \/ Buffered(b) = Len(buf[b]) + 1
      BY Zenon DEF Buffered
    <3> QED BY <1>1, <2>1, <3>2, <3>3, <3>4
  <2>2. CASE ~(Pending(b) /\ Buffered(b) < Cap)
    BY <1>2, <1>3, <2>2 DEF BroadcastDelta
  <2> QED BY <2>1, <2>2
<1>4. CASE \E c \in Browser : BrowserStep(c)
  BY <1>2, <1>4
  DEF BrowserStep, Flush, Register, Hello, Activate, TakeBatch, FlushDelta,
      FlushSnapshot, FlushFails, Leave, RemoveDead, Shape, TypeOK
<1>5. CASE \E w \in Socket : WorkerStep(w)
  BY <1>2, <1>5
  DEF WorkerStep, Publish, RegisterWorker, Commit, Take, Revalidate, Abort,
      Sent, SendSnapshot, windowVars
<1>6. CASE BroadcastStatus \/ WorkerLost \/ UNCHANGED vars
  BY <1>2, <1>6 DEF BroadcastStatus, WorkerLost, vars, windowVars
<1> QED BY <1>3, <1>4, <1>5, <1>6 DEF Next

\* A browser that never activates cannot grow its backlog past the cap: neither
\* one whose hello hangs nor one whose flush failed, which stays pending.
THEOREM BufferCapped == Spec => []BufferBounded
<1>1. Init => BufferBounded
  <2> SUFFICES ASSUME Init, NEW b \in Browser PROVE Len(buf[b]) <= Cap
    BY DEF BufferBounded
  <2>1. buf[b] = <<>> BY DEF Init
  <2>2. Len(buf[b]) = 0 BY <2>1
  <2> QED BY <2>2, WindowAssumption
<1>2. Init => Shape BY TypeInit, TidyInit DEF Shape
<1>3. Shape /\ BufferBounded /\ [Next]_vars => (Shape /\ BufferBounded)'
  BY TypeStep, TidyStep, BufferStep DEF Shape
<1> QED BY <1>1, <1>2, <1>3, PTL DEF Spec

-----------------------------------------------------------------------------
(* Snapshots. *)

SnapInv == CastsCount /\ ShownFirst

LEMMA SnapInit == Init => SnapInv
<1> SUFFICES ASSUME Init PROVE SnapInv
  OBVIOUS
<1>1. FenceHolders = {} BY DEF Init, FenceHolders
<1>2. CastsCount BY <1>1 DEF Init, CastsCount
<1>3. ASSUME NEW b \in Browser PROVE Newer(b) BY DEF Init, Newer
<1> QED BY <1>1, <1>2, <1>3 DEF SnapInv, ShownFirst

LEMMA SendEffect ==
  ASSUME Shape, NEW w \in Socket, NEW c \in Browser, SendSnapshot(w, c)
  PROVE  /\ \A v \in Socket : /\ cast'[v].n = cast[v].n
                              /\ cast'[v].stage = cast[v].stage
         /\ \A v \in Socket \ {w} : cast'[v] = cast[v]
         /\ cast'[w].to = cast[w].to \ {c}
<1>0. \/ cast' = [cast EXCEPT ![w].to = @ \ {c}]
      \/ cast' = [cast EXCEPT ![w].to = @ \ {c}, ![w].dead = @ \cup {c}]
  BY DEF SendSnapshot
<1>1. cast \in [Socket -> Cast] BY DEF Shape, TypeOK
<1> QED BY <1>0, <1>1 DEF Cast

LEMMA CastsStep ==
  ASSUME Shape, CastsCount, [Next]_vars PROVE CastsCount'
<1> USE DEF Shape, TypeOK, Cast, CastsCount, FenceHolders
<1>1. ASSUME NEW w \in Socket, WorkerStep(w) PROVE CastsCount'
  <2>1. CASE RegisterWorker(w) BY <2>1 DEF RegisterWorker
  <2>2. CASE Commit(w) BY <2>2 DEF Commit
  <2>3. CASE Take(w) BY <2>3 DEF Take, hubVars
  <2>4. CASE Revalidate(w) BY <2>4 DEF Revalidate, hubVars
  <2>5. CASE Abort(w) BY <2>5 DEF Abort, hubVars
  <2>6. CASE Sent(w) BY <2>6 DEF Sent, hubVars
  <2>7. ASSUME NEW b \in Browser, SendSnapshot(w, b) PROVE CastsCount'
    <3>1. \A v \in Socket : cast'[v].n = cast[v].n
                            /\ cast'[v].stage = cast[v].stage
      BY <2>7, SendEffect
    <3>2. screen' = screen BY <2>7 DEF SendSnapshot, hubVars
    <3> QED BY <3>1, <3>2
  <2> QED
    BY <1>1, <2>1, <2>2, <2>3, <2>4, <2>5, <2>6, <2>7 DEF WorkerStep, Publish
<1>2. ASSUME UNCHANGED <<cast, screen>> PROVE CastsCount'
  BY <1>2
<1>3. ASSUME NEW b \in Browser, BrowserStep(b) PROVE UNCHANGED <<cast, screen>>
  BY <1>3
  DEF BrowserStep, Flush, Register, Hello, Activate, TakeBatch, FlushDelta,
      FlushSnapshot, FlushFails, Leave, RemoveDead, hubVars
<1>4. CASE BroadcastDelta \/ BroadcastStatus \/ WorkerLost \/ UNCHANGED vars
  BY <1>2, <1>4 DEF BroadcastDelta, BroadcastStatus, WorkerLost, vars, hubVars
<1> QED BY <1>1, <1>2, <1>3, <1>4 DEF Next

\* What a step does to the screens on their way to b, and to the place of b.
LEMMA NewerBrowser ==
  ASSUME Shape, ShownFirst, NEW c \in Browser, BrowserStep(c),
         NEW b \in Browser
  PROVE  Newer(b)'
<1> USE DEF Shape, TypeOK, hubVars, windowVars, seenVars
<1>0. Newer(b) BY DEF ShownFirst
<1>1. screen' = screen
  BY DEF BrowserStep, Flush, Register, Hello, Activate, TakeBatch, FlushDelta,
         FlushSnapshot, FlushFails, Leave, RemoveDead
<1>2. CASE c # b
  <2>1. /\ phase'[b] = phase[b] /\ shown'[b] = shown[b] /\ init'[b] = init[b]
        /\ held'[b] = held[b] /\ batchHeld'[b] = batchHeld[b]
    BY <1>2
    DEF BrowserStep, Flush, Register, Hello, Activate, TakeBatch, FlushDelta,
        FlushSnapshot, FlushFails, Leave, RemoveDead
  <2> QED BY <1>0, <1>1, <2>1 DEF Newer
<1>3. CASE c = b /\ Register(b)
  <2>1. held[b] = 0 /\ batchHeld[b] = 0 BY <1>3 DEF Register, Tidy, Pending
  <2> QED BY <1>0, <1>3, <2>1 DEF Register, Newer
<1>4. CASE c = b /\ Hello(b)
  <2>1. batchHeld[b] = 0 BY <1>4 DEF Hello, Tidy
  <2> QED BY <1>0, <1>4, <2>1 DEF Hello, Newer
<1>5. CASE c = b /\ TakeBatch(b)
  BY <1>0, <1>5 DEF TakeBatch, Newer
<1>6. CASE c = b /\ FlushSnapshot(b)
  BY <1>0, <1>6 DEF FlushSnapshot, Newer
<1>7. CASE c = b /\ (Activate(b) \/ FlushDelta(b) \/ RemoveDead(b))
  BY <1>0, <1>7 DEF Activate, FlushDelta, RemoveDead, Newer
<1>8. CASE c = b /\ (FlushFails(b) \/ Leave(b))
  BY <1>0, <1>8 DEF FlushFails, Leave, Newer
<1> QED
  BY <1>2, <1>3, <1>4, <1>5, <1>6, <1>7, <1>8 DEF BrowserStep, Flush

LEMMA NewerWorker ==
  ASSUME Shape, CastsCount, ShownFirst, NEW w \in Socket, WorkerStep(w),
         NEW b \in Browser
  PROVE  Newer(b)'
<1> USE DEF Shape, TypeOK, hubVars, windowVars, seenVars
<1>0. Newer(b) BY DEF ShownFirst
<1>1. CASE Commit(w)
  <2>1. UNCHANGED windowVars /\ UNCHANGED shown /\ screen' = screen + 1
    BY <1>1 DEF Commit
  <2> QED BY <1>0, <2>1 DEF Newer
<1>2. CASE Take(w)
  <2>1. screen' = screen /\ phase' = phase /\ shown' = shown /\ init' = init
        /\ batchHeld' = batchHeld
    BY <1>2 DEF Take
  <2>2. held'[b] = screen \/ held'[b] = held[b]
    BY <1>2 DEF Take, Current
  <2> QED BY <1>0, <2>1, <2>2 DEF Newer
<1>3. ASSUME NEW c \in Browser, SendSnapshot(w, c) PROVE Newer(b)'
  <2>1. UNCHANGED <<screen, init, held, batchHeld>>
    BY <1>3 DEF SendSnapshot
  <2>2. w \in FenceHolders BY <1>3 DEF SendSnapshot, FenceHolders
  <2>3. ~Pending(c) /\ phase[c] # "new" BY <1>3, <2>2 DEF ShownFirst, SendSnapshot
  <2>4. held[c] = 0 /\ batchHeld[c] = 0 BY <2>3 DEF Tidy, Pending
  <2>5. cast[w].n <= screen /\ cast[w].n \in Nat BY DEF CastsCount, Cast
  <2>6. b # c => shown'[b] = shown[b] /\ phase'[b] = phase[b]
    BY <1>3 DEF SendSnapshot
  <2>7. shown'[c] \in {shown[c], cast[w].n}
        /\ phase'[c] \in {phase[c], "dying"}
    BY <1>3 DEF SendSnapshot
  <2>8. CASE b # c BY <1>0, <2>1, <2>6, <2>8 DEF Newer
  <2>9. CASE b = c
    BY <1>0, <2>1, <2>3, <2>4, <2>5, <2>7, <2>9 DEF Newer, Pending
  <2> QED BY <2>8, <2>9
<1>4. CASE Sent(w)
  <2>1. phase'[b] \in {phase[b], "dropped"}
        /\ UNCHANGED <<screen, init, held, batchHeld, shown>>
    BY <1>4 DEF Sent
  <2> QED BY <1>0, <2>1 DEF Newer
<1>5. CASE RegisterWorker(w) \/ Revalidate(w) \/ Abort(w)
  <2>1. UNCHANGED windowVars /\ UNCHANGED shown /\ screen' = screen
    BY <1>5 DEF RegisterWorker, Revalidate, Abort
  <2> QED BY <1>0, <2>1 DEF Newer
<1> QED BY <1>1, <1>2, <1>3, <1>4, <1>5 DEF WorkerStep, Publish

LEMMA NewerHub ==
  ASSUME Shape, ShownFirst,
         BroadcastDelta \/ BroadcastStatus \/ WorkerLost \/ UNCHANGED vars,
         NEW b \in Browser
  PROVE  Newer(b)'
<1>1. UNCHANGED <<screen, init, held, batchHeld, shown>>
  BY DEF BroadcastDelta, BroadcastStatus, WorkerLost, vars, hubVars,
         windowVars, seenVars
<1>2. phase'[b] \in {phase[b], "dying"}
  BY DEF BroadcastDelta, BroadcastStatus, WorkerLost, vars, hubVars,
         windowVars, seenVars, PhaseAfter
<1>3. Newer(b) BY DEF ShownFirst
<1> QED BY <1>1, <1>2, <1>3 DEF Newer

\* Whoever a snapshot is being sent to left its window before.
Receivers ==
  \A w \in FenceHolders : \A b \in cast[w].to :
    ~Pending(b) /\ phase[b] # "new" /\ shown[b] <= cast[w].n

LEMMA ReceiversStep ==
  ASSUME Shape, CastsCount, ShownFirst, [Next]_vars PROVE Receivers'
<1> USE DEF Shape, TypeOK, Cast, FenceHolders, hubVars, windowVars, seenVars
<1>0. Receivers BY DEF ShownFirst, Receivers
<1>1. ASSUME NEW w \in Socket, WorkerStep(w) PROVE Receivers'
  <2>1. CASE RegisterWorker(w)
    <3>1. \A v \in Socket : v # w => cast'[v] = cast[v] BY <2>1 DEF RegisterWorker
    <3>2. cast'[w].stage = "idle" BY <2>1 DEF RegisterWorker
    <3>3. UNCHANGED <<phase, shown>> BY <2>1 DEF RegisterWorker
    <3> QED BY <1>0, <3>1, <3>2, <3>3 DEF Receivers, Pending
  <2>2. CASE Commit(w)
    <3>1. \A v \in Socket : v # w => cast'[v] = cast[v] BY <2>2 DEF Commit
    <3>2. cast'[w].stage = "waiting" BY <2>2 DEF Commit
    <3>3. UNCHANGED <<phase, shown>> BY <2>2 DEF Commit
    <3> QED BY <1>0, <3>1, <3>2, <3>3 DEF Receivers, Pending
  <2>3. CASE Take(w)
    <3>1. \A v \in Socket : v # w => cast'[v] = cast[v] BY <2>3 DEF Take
    <3>2. cast'[w].to = Reached /\ cast'[w].n = screen
      BY <2>3 DEF Take, Current
    <3>3. UNCHANGED <<phase, shown>> BY <2>3 DEF Take
    <3>4. \A b \in Reached : ~Pending(b) /\ phase[b] # "new"
      BY DEF Reached, Pending
    <3>5. \A b \in Browser : shown[b] <= screen BY DEF ShownFirst, Newer
    <3>6. \A b \in Reached : b \in Browser BY DEF Reached
    <3> QED
      BY <1>0, <3>1, <3>2, <3>3, <3>4, <3>5, <3>6 DEF Receivers, Pending
  <2>4. CASE Revalidate(w)
    <3>1. \A v \in Socket : v # w => cast'[v] = cast[v] BY <2>4 DEF Revalidate
    <3>2. /\ cast'[w].to = cast[w].to /\ cast'[w].n = cast[w].n
          /\ cast[w].stage = "gate"
      BY <2>4 DEF Revalidate
    <3>3. UNCHANGED <<phase, shown>> BY <2>4 DEF Revalidate
    <3>4. \A v \in FenceHolders' : v \in FenceHolders BY <3>1, <3>2
    <3>5. \A v \in Socket : cast'[v].to = cast[v].to /\ cast'[v].n = cast[v].n
      BY <3>1, <3>2
    <3> QED
      BY <1>0, <3>3, <3>4, <3>5 DEF Receivers, Pending
  <2>5. CASE Abort(w)
    <3>1. \A v \in Socket : v # w => cast'[v] = cast[v] BY <2>5 DEF Abort
    <3>2. cast'[w].stage = "idle" BY <2>5 DEF Abort
    <3>3. UNCHANGED <<phase, shown>> BY <2>5 DEF Abort
    <3> QED BY <1>0, <3>1, <3>2, <3>3 DEF Receivers, Pending
  <2>6. CASE Sent(w)
    <3>1. \A v \in Socket : v # w => cast'[v] = cast[v] BY <2>6 DEF Sent
    <3>2. cast'[w].stage = "idle" BY <2>6 DEF Sent
    <3>3. shown' = shown /\ \A b \in Browser : phase'[b] \in {phase[b], "dropped"}
      BY <2>6 DEF Sent
    <3> QED BY <1>0, <3>1, <3>2, <3>3 DEF Receivers, Pending
  <2>7. ASSUME NEW c \in Browser, SendSnapshot(w, c) PROVE Receivers'
    <3>1. /\ \A v \in Socket : /\ cast'[v].n = cast[v].n
                               /\ cast'[v].stage = cast[v].stage
          /\ \A v \in Socket \ {w} : cast'[v] = cast[v]
          /\ cast'[w].to = cast[w].to \ {c}
      BY <2>7, SendEffect
    <3>2. \A v \in FenceHolders : v = w
      BY <2>7 DEF CastsCount, SendSnapshot
    <3>3. \A b \in Browser : b # c =>
            shown'[b] = shown[b] /\ phase'[b] = phase[b]
      BY <2>7 DEF SendSnapshot
    <3>4. ASSUME NEW v \in Socket, cast'[v].stage \in {"gate", "sending"},
                 NEW b \in cast'[v].to
          PROVE  ~Pending(b)' /\ phase'[b] # "new" /\ shown'[b] <= cast'[v].n
      <4>1. v = w BY <3>1, <3>2, <3>4
      <4>2. b \in cast[w].to /\ b # c /\ b \in Browser BY <3>1, <3>4, <4>1
      <4>3. w \in FenceHolders BY <3>1, <3>4, <4>1
      <4>4. ~Pending(b) /\ phase[b] # "new" /\ shown[b] <= cast[w].n
        BY <1>0, <4>2, <4>3 DEF Receivers
      <4> QED BY <3>1, <3>3, <4>1, <4>2, <4>4 DEF Pending
    <3> QED BY <3>4 DEF Receivers
  <2> QED
    BY <1>1, <2>1, <2>2, <2>3, <2>4, <2>5, <2>6, <2>7 DEF WorkerStep, Publish
<1>2. ASSUME cast' = cast,
             \A b \in Browser :
               /\ ~Pending(b) /\ phase[b] # "new" =>
                    ~Pending(b)' /\ phase'[b] # "new" /\ shown'[b] = shown[b]
      PROVE  Receivers'
  BY <1>0, <1>2 DEF Receivers
<1>3. ASSUME NEW c \in Browser, BrowserStep(c) PROVE Receivers'
  <2>1. cast' = cast
    BY <1>3
    DEF BrowserStep, Flush, Register, Hello, Activate, TakeBatch, FlushDelta,
        FlushSnapshot, FlushFails, Leave, RemoveDead
  <2>2. \A b \in Browser \ {c} : phase'[b] = phase[b] /\ shown'[b] = shown[b]
    BY <1>3
    DEF BrowserStep, Flush, Register, Hello, Activate, TakeBatch, FlushDelta,
        FlushSnapshot, FlushFails, Leave, RemoveDead
  <2>3. ~Pending(c) /\ phase[c] # "new" =>
          phase'[c] \in {"dropped", "gone"} /\ shown'[c] = shown[c]
    BY <1>3
    DEF BrowserStep, Flush, Register, Hello, Activate, TakeBatch, FlushDelta,
        FlushSnapshot, FlushFails, Leave, RemoveDead, Pending
  <2> QED BY <1>2, <2>1, <2>2, <2>3 DEF Pending
<1>4. CASE BroadcastDelta \/ BroadcastStatus \/ WorkerLost \/ UNCHANGED vars
  <2>1. UNCHANGED <<cast, shown>>
    BY <1>4 DEF BroadcastDelta, BroadcastStatus, WorkerLost, vars
  <2>2. \A b \in Browser : phase'[b] \in {phase[b], "dying"}
    BY <1>4 DEF BroadcastDelta, BroadcastStatus, WorkerLost, vars, PhaseAfter
  <2> QED BY <1>2, <2>1, <2>2 DEF Pending
<1> QED BY <1>1, <1>3, <1>4 DEF Next

LEMMA SnapStep == ASSUME Shape, SnapInv, [Next]_vars PROVE SnapInv'
<1>1. CastsCount' BY CastsStep DEF SnapInv
<1>2. ASSUME NEW b \in Browser PROVE Newer(b)'
  BY NewerBrowser, NewerWorker, NewerHub DEF SnapInv, Next
<1>3. Receivers' BY ReceiversStep DEF SnapInv
<1> QED BY <1>1, <1>2, <1>3 DEF SnapInv, ShownFirst, Receivers

LEMMA SnapAlways == Spec => [](Shape /\ SnapInv)
<1>1. Init => Shape /\ SnapInv BY TypeInit, TidyInit, SnapInit DEF Shape
<1>2. Shape /\ SnapInv /\ [Next]_vars => (Shape /\ SnapInv)'
  BY TypeStep, TidyStep, SnapStep DEF Shape
<1> QED BY <1>1, <1>2, PTL DEF Spec

\* An older snapshot never reaches a browser after a newer one: not from the
\* hello, not from the backlog, not from a handler that waited at the fence or
\* in the policy gate while a newer snapshot was committed.
THEOREM ScreensAdvance == Spec => ScreenAdvances
<1>1. ASSUME Shape, SnapInv, [Next]_vars, NEW b \in Browser
      PROVE  shown'[b] >= shown[b]
  <2> USE <1>1 DEF Shape, TypeOK, seenVars
  <2>1. CASE shown'[b] = shown[b] BY <2>1
  <2>2. CASE Hello(b)
    <3>1. shown[b] = 0 BY <2>2 DEF Hello, SnapInv, ShownFirst, Newer
    <3> QED BY <2>2, <3>1 DEF Hello
  <2>3. CASE FlushSnapshot(b)
    BY <2>3 DEF FlushSnapshot, SnapInv, ShownFirst, Newer
  <2>4. ASSUME NEW w \in Socket, SendSnapshot(w, b)
        PROVE  shown'[b] \in {shown[b], cast[w].n} /\ shown[b] <= cast[w].n
    <3>1. w \in FenceHolders /\ b \in cast[w].to
      BY <2>4 DEF SendSnapshot, FenceHolders
    <3> QED BY <2>4, <3>1 DEF SendSnapshot, SnapInv, ShownFirst, Cast
  <2>5. \/ shown'[b] = shown[b] \/ Hello(b) \/ FlushSnapshot(b)
        \/ \E w \in Socket : SendSnapshot(w, b)
    <3>1. ASSUME NEW c \in Browser, BrowserStep(c)
          PROVE  shown'[b] = shown[b] \/ Hello(b) \/ FlushSnapshot(b)
      BY <3>1
      DEF BrowserStep, Flush, Register, Hello, Activate, TakeBatch,
          FlushDelta, FlushSnapshot, FlushFails, Leave, RemoveDead
    <3>2. ASSUME NEW w \in Socket, WorkerStep(w)
          PROVE  shown'[b] = shown[b] \/ SendSnapshot(w, b)
      BY <3>2
      DEF WorkerStep, Publish, RegisterWorker, Commit, Take, Revalidate,
          Abort, Sent, SendSnapshot
    <3>3. CASE \/ BroadcastDelta \/ BroadcastStatus \/ WorkerLost
               \/ UNCHANGED vars
      BY <3>3 DEF BroadcastDelta, BroadcastStatus, WorkerLost, vars
    <3> QED BY <3>1, <3>2, <3>3 DEF Next
  <2> QED BY <2>1, <2>2, <2>3, <2>4, <2>5 DEF Cast
<1>2. ASSUME Shape, SnapInv, [Next]_vars
      PROVE  [\A b \in Browser : shown'[b] >= shown[b]]_vars
  BY <1>1, <1>2
<1> QED BY <1>2, SnapAlways, PTL DEF ScreenAdvances, Spec

-----------------------------------------------------------------------------
(* The latest screen reaches who joins. *)

\* The committer of the latest snapshot still owes it to b, or was lost.
Owed(b) ==
  \E w \in Socket : cast[w].n = screen /\ (worker = w => OnItsWay(w, b))
Reaches(b) == Joining(b) => Coming(b) = screen \/ Owed(b)

\* A step that changes neither what b has nor who owes it.
LEMMA ReachesKept ==
  ASSUME NEW b \in Browser, Reaches(b), Joining(b)' => Joining(b),
         screen' = screen, worker' = worker, cast' = cast,
         Joining(b)' => Coming(b)' = Coming(b)
  PROVE  Reaches(b)'
BY DEF Reaches, Owed, OnItsWay

LEMMA ReachesBrowser ==
  ASSUME Shape, SnapInv, NEW c \in Browser, BrowserStep(c),
         NEW b \in Browser, Reaches(b)
  PROVE  Reaches(b)'
<1> USE DEF Shape, TypeOK, hubVars, seenVars
<1>1. screen' = screen /\ worker' = worker /\ cast' = cast
  BY DEF BrowserStep, Flush, Register, Hello, Activate, TakeBatch, FlushDelta,
         FlushSnapshot, FlushFails, Leave, RemoveDead
<1>2. CASE c # b
  <2>1. /\ phase'[b] = phase[b] /\ shown'[b] = shown[b] /\ init'[b] = init[b]
        /\ held'[b] = held[b] /\ batchHeld'[b] = batchHeld[b]
    BY <1>2
    DEF BrowserStep, Flush, Register, Hello, Activate, TakeBatch, FlushDelta,
        FlushSnapshot, FlushFails, Leave, RemoveDead
  <2>2. Coming(b)' = Coming(b) BY <2>1 DEF Coming
  <2>3. Joining(b)' => Joining(b) BY <2>1 DEF Joining
  <2> QED BY <1>1, <2>2, <2>3, ReachesKept
<1>3. CASE c = b /\ Register(b)
  <2>1. held[b] = 0 /\ batchHeld[b] = 0 BY <1>3 DEF Register, Tidy, Pending
  <2>2. Coming(b)' = screen BY <1>3, <2>1 DEF Register, Coming
  <2> QED BY <1>1, <2>2 DEF Reaches
<1>4. CASE c = b /\ Hello(b)
  <2>1. batchHeld[b] = 0 BY <1>4 DEF Hello, Tidy
  <2>2. Coming(b)' = Coming(b) BY <1>4, <2>1 DEF Hello, Coming
  <2>3. Joining(b) BY <1>4 DEF Hello, Joining
  <2> QED BY <1>1, <2>2, <2>3, ReachesKept
<1>5. CASE c = b /\ TakeBatch(b)
  <2>1. batchHeld[b] = 0 /\ phase[b] = "flush" /\ phase' = phase
    BY <1>5 DEF TakeBatch, BatchEmpty
  <2>2. Coming(b)' = Coming(b) BY <1>5, <2>1 DEF TakeBatch, Coming
  <2>3. Joining(b) BY <2>1 DEF Joining
  <2> QED BY <1>1, <2>2, <2>3, ReachesKept
<1>6. CASE c = b /\ FlushSnapshot(b)
  <2>1. batchHeld[b] # 0 /\ phase[b] = "flush" BY <1>6 DEF FlushSnapshot
  <2>2. Coming(b)' = Coming(b) BY <1>6, <2>1 DEF FlushSnapshot, Coming
  <2>3. Joining(b) BY <2>1 DEF Joining
  <2> QED BY <1>1, <2>2, <2>3, ReachesKept
<1>7. CASE c = b /\ (Activate(b) \/ FlushDelta(b))
  <2>1. /\ phase[b] = "flush" /\ phase'[b] \in {"flush", "live"}
        /\ UNCHANGED <<held, batchHeld, shown>>
    BY <1>7 DEF Activate, FlushDelta
  <2>2. Coming(b)' = Coming(b) BY <2>1 DEF Coming
  <2>3. Joining(b) BY <2>1 DEF Joining
  <2> QED BY <1>1, <2>2, <2>3, ReachesKept
<1>8. CASE c = b /\ (FlushFails(b) \/ Leave(b) \/ RemoveDead(b))
  <2>1. ~Joining(b)' BY <1>8 DEF FlushFails, Leave, RemoveDead, Joining
  <2> QED BY <2>1 DEF Reaches
<1> QED
  BY <1>2, <1>3, <1>4, <1>5, <1>6, <1>7, <1>8 DEF BrowserStep, Flush

LEMMA ReachesWorker ==
  ASSUME Shape, SnapInv, NEW w \in Socket, WorkerStep(w),
         NEW b \in Browser, Reaches(b)
  PROVE  Reaches(b)'
<1> USE DEF Shape, TypeOK, Cast, hubVars, seenVars
<1> SUFFICES ASSUME Joining(b)' PROVE Coming(b)' = screen' \/ Owed(b)'
  BY DEF Reaches
<1>0. phase'[b] \in {phase[b], "dropped", "dying"}
  BY DEF WorkerStep, Publish, RegisterWorker, Commit, Take, Revalidate, Abort,
         Sent, SendSnapshot, windowVars
<1>1. Joining(b) /\ phase'[b] = phase[b] BY <1>0 DEF Joining
<1>2. Coming(b) = screen \/ Owed(b) BY <1>1 DEF Reaches
<1>3. Newer(b) /\ \A v \in Socket : cast[v].n <= screen
  BY DEF SnapInv, CastsCount, ShownFirst
<1>4. CASE RegisterWorker(w)
  <2>1. /\ screen' = screen /\ worker' = w
        /\ cast[w].n = 0
        /\ \A v \in Socket \ {w} : cast'[v] = cast[v]
    BY <1>4 DEF RegisterWorker, SnapInv, CastsCount
  <2>2. Coming(b)' = Coming(b)
    BY <1>1, <1>4 DEF RegisterWorker, Coming, windowVars
  <2>3. ASSUME NEW v \in Socket, cast[v].n = screen
        PROVE  Coming(b)' = screen' \/ Owed(b)'
    <3>1. CASE v = w
      <4>1. screen = 0 BY <2>1, <2>3, <3>1
      <4>2. Coming(b) = 0 BY <1>3, <4>1 DEF Newer, Coming
      <4> QED BY <2>1, <2>2, <4>1, <4>2
    <3>2. CASE v # w BY <2>1, <2>3, <3>2 DEF Owed
    <3> QED BY <3>1, <3>2
  <2> QED BY <1>2, <2>1, <2>2, <2>3 DEF Owed
<1>5. CASE Commit(w)
  <2>1. cast'[w].n = screen' /\ cast'[w].stage = "waiting" BY <1>5 DEF Commit
  <2> QED BY <2>1 DEF Owed, OnItsWay
<1>6. CASE Take(w)
  <2>1. /\ screen' = screen /\ cast[w].n = screen /\ cast'[w].n = screen
        /\ cast'[w].stage = "gate" /\ cast'[w].to = Reached
    BY <1>6 DEF Take, Current
  <2>2. CASE Pending(b)
    <3>1. held'[b] = screen /\ UNCHANGED <<phase, batchHeld, init, shown>>
      BY <1>6, <2>1, <2>2 DEF Take
    <3>2. CASE screen # 0 BY <2>1, <3>1, <3>2 DEF Coming
    <3>3. CASE screen = 0
      <4>1. Coming(b)' = 0 BY <1>3, <3>1, <3>3 DEF Newer, Coming
      <4> QED BY <2>1, <3>3, <4>1
    <3> QED BY <3>2, <3>3
  <2>3. CASE b \in Reached BY <2>1, <2>3 DEF Owed, OnItsWay
  <2> QED BY <1>1, <2>2, <2>3 DEF Joining, Pending, Reached
<1>7. CASE Revalidate(w) \/ Abort(w)
  <2>1. /\ screen' = screen /\ worker' = worker
        /\ \A v \in Socket : cast'[v].n = cast[v].n
        /\ \A v \in Socket \ {w} : cast'[v] = cast[v]
    <3>1. CASE Revalidate(w) BY <3>1 DEF Revalidate
    <3>2. CASE Abort(w) BY <3>2 DEF Abort
    <3> QED BY <1>7, <3>1, <3>2
  <2>2. Coming(b)' = Coming(b)
    BY <1>1, <1>7 DEF Revalidate, Abort, Coming, windowVars
  <2>3. ASSUME NEW v \in Socket, cast[v].n = screen,
               worker = v => OnItsWay(v, b)
        PROVE  worker' = v => OnItsWay(v, b)'
    <3>1. CASE v # w BY <2>1, <2>3, <3>1 DEF OnItsWay
    <3>2. CASE v = w /\ Revalidate(w)
      BY <2>1, <2>3, <3>2 DEF OnItsWay, Revalidate
    <3>3. CASE v = w /\ Abort(w)
      BY <2>1, <2>3, <3>3 DEF Abort, Current
    <3> QED BY <1>7, <3>1, <3>2, <3>3
  <2> QED BY <1>2, <2>1, <2>2, <2>3 DEF Owed
<1>8. CASE Sent(w)
  <2>1. /\ screen' = screen /\ worker' = worker
        /\ \A v \in Socket : cast'[v].n = cast[v].n
        /\ \A v \in Socket \ {w} : cast'[v] = cast[v]
        /\ cast[w].to = {} /\ cast[w].stage = "sending"
    BY <1>8 DEF Sent
  <2>2. Coming(b)' = Coming(b)
    BY <1>1, <1>8 DEF Sent, Coming
  <2>3. ASSUME NEW v \in Socket, cast[v].n = screen,
               worker = v => OnItsWay(v, b)
        PROVE  worker' = v => OnItsWay(v, b)'
    BY <2>1, <2>3 DEF OnItsWay
  <2> QED BY <1>2, <2>1, <2>2, <2>3 DEF Owed
<1>9. ASSUME NEW c \in Browser, SendSnapshot(w, c)
      PROVE  Coming(b)' = screen' \/ Owed(b)'
  <2>1. /\ \A v \in Socket : /\ cast'[v].n = cast[v].n
                             /\ cast'[v].stage = cast[v].stage
        /\ \A v \in Socket \ {w} : cast'[v] = cast[v]
        /\ cast'[w].to = cast[w].to \ {c}
    BY <1>9, SendEffect
  <2>2. /\ screen' = screen /\ worker' = worker
        /\ UNCHANGED <<held, batchHeld, init>>
        /\ cast[w].stage = "sending" /\ c \in cast[w].to
    BY <1>9 DEF SendSnapshot
  <2>3. CASE c # b
    <3>1. Coming(b)' = Coming(b)
      BY <1>1, <1>9, <2>2, <2>3 DEF SendSnapshot, Coming
    <3>2. ASSUME NEW v \in Socket, worker = v => OnItsWay(v, b)
          PROVE  worker' = v => OnItsWay(v, b)'
      BY <2>1, <2>2, <2>3, <3>2 DEF OnItsWay
    <3> QED BY <1>2, <2>1, <2>2, <3>1, <3>2 DEF Owed
  <2>4. CASE c = b
    <3>1. w \in FenceHolders BY <2>2 DEF FenceHolders
    <3>2. ~Pending(b) /\ shown[b] <= cast[w].n
      BY <2>2, <2>4, <3>1 DEF SnapInv, ShownFirst
    <3>3. phase[b] = "live" BY <1>1, <3>2 DEF Joining, Pending
    <3>4. held[b] = 0 /\ batchHeld[b] = 0 BY <3>3 DEF Tidy, Pending
    <3>5. shown'[b] = cast[w].n
      BY <1>1, <1>9, <2>4, <3>3 DEF SendSnapshot, Reached
    <3>6. Coming(b)' = cast[w].n /\ Coming(b) = shown[b]
      BY <1>1, <2>2, <3>3, <3>4, <3>5 DEF Coming
    <3>7. CASE cast[w].n = screen BY <2>2, <3>6, <3>7
    <3>8. CASE cast[w].n # screen
      <4>1. Coming(b) # screen
        <5>1. cast[w].n \in Nat /\ shown[b] \in Nat /\ cast[w].n <= screen
          BY <1>3
        <5> QED BY SMTT(30), <3>2, <3>6, <3>8, <5>1
      <4>2. PICK v \in Socket : /\ cast[v].n = screen
                                /\ worker = v => OnItsWay(v, b)
        BY <1>2, <4>1 DEF Owed
      <4>3. v # w BY <3>8, <4>2
      <4> QED BY <2>1, <2>2, <4>2, <4>3 DEF Owed, OnItsWay
    <3> QED BY <3>7, <3>8
  <2> QED BY <2>3, <2>4
<1> QED
  BY <1>4, <1>5, <1>6, <1>7, <1>8, <1>9 DEF WorkerStep, Publish

LEMMA ReachesHub ==
  ASSUME Shape, BroadcastDelta \/ BroadcastStatus \/ UNCHANGED vars,
         NEW b \in Browser, Reaches(b)
  PROVE  Reaches(b)'
<1>1. UNCHANGED <<screen, worker, cast, held, batchHeld, init, shown>>
  BY DEF BroadcastDelta, BroadcastStatus, vars, hubVars, windowVars, seenVars
<1>2. phase'[b] \in {phase[b], "dying"}
  BY DEF BroadcastDelta, BroadcastStatus, vars, windowVars, PhaseAfter
<1>3. Joining(b)' => phase'[b] = phase[b] BY <1>2 DEF Joining
<1>4. Joining(b)' => Joining(b) /\ Coming(b)' = Coming(b)
  BY <1>1, <1>3 DEF Joining, Coming
<1> QED BY <1>1, <1>4, ReachesKept

LEMMA ReachesLost ==
  ASSUME Shape, WorkerLost, NEW b \in Browser, Reaches(b)
  PROVE  Reaches(b)'
<1>1. /\ UNCHANGED <<screen, cast, phase, held, batchHeld, init, shown>>
      /\ worker' = NULL
  BY DEF WorkerLost, windowVars, seenVars
<1>2. Joining(b)' => Joining(b) /\ Coming(b)' = Coming(b)
  BY <1>1 DEF Joining, Coming
<1>3. Owed(b) => Owed(b)' BY <1>1, WindowAssumption DEF Owed
<1> QED BY <1>1, <1>2, <1>3 DEF Reaches

\* The one snapshot of a terminal that then goes idle is not lost to a browser
\* inside its startup window: the failure the coalescing buffer was added for.
THEOREM ScreenArrives == Spec => []ScreenReaches
<1>1. Init => ScreenReaches BY DEF Init, ScreenReaches, Joining
<1>2. ScreenReaches <=> \A b \in Browser : Reaches(b)
  BY DEF ScreenReaches, Reaches, Owed
<1>3. ASSUME Shape, SnapInv, ScreenReaches, [Next]_vars
      PROVE  ScreenReaches'
  <2>1. \A b \in Browser : Reaches(b)'
    BY <1>2, <1>3, ReachesBrowser, ReachesWorker, ReachesHub, ReachesLost
    DEF Next
  <2> QED BY <2>1 DEF ScreenReaches, Reaches, Owed
<1> QED BY <1>1, <1>3, SnapAlways, PTL DEF Spec
=============================================================================
