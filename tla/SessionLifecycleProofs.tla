----------------------- MODULE SessionLifecycleProofs -----------------------
(***************************************************************************)
(* Proofs about SessionLifecycle, for every set of operations, every set   *)
(* of run loops and every bound.  The handlers are reduced to a few kinds  *)
(* of steps: a step of a run loop (Moves), a start (Launches), a stop that *)
(* cancels a loop (Cancels), one that goes on after it (Ends) and the rest *)
(* (Waits).  What is proved of a kind holds of every handler of that kind. *)
(***************************************************************************)
EXTENDS SessionLifecycle, TLAPS

\* Where an operation is inside stop(), and where a loop may have a logger.
Busy   == {"join", "flush", "closed", "drop"}
Linked == {"build", "open", "link", "back", "close"}

\* Sessions are counted; one is inserted only if the bound allows it.
Counted ==
  /\ session <= made
  /\ \A o \in Op : op[o].gen <= made
  /\ \A o \in Op : op[o].pc \in Busy \cup {"save", "grace"} =>
                     op[o].gen # NoGen
  /\ \A o \in Op : op[o].pc \in {"clear", "insert"} => made < MaxGen

\* A loop works for a session there is, a task is a loop of its own session,
\* and a session that is not there yet has a fresh runtime.
Placed ==
  /\ \A l \in Loop : IF loop[l].pc = "done" THEN loop[l] = Over
                     ELSE loop[l].gen \in 1..made
  /\ \A g \in Gen : Alive(rt[g].task) => loop[rt[g].task].gen = g
  /\ \A o \in Op : op[o].pc = "join" /\ Alive(op[o].task) =>
                     loop[op[o].task].gen = op[o].gen
  /\ \A g \in Gen : g > made => rt[g] = Fresh

\* A cancelled loop is waited for.
Dying(l) == loop[l].hit \/ loop[l].then = "cut"

Awaited ==
  \A l \in Loop : Dying(l) => \E o \in Op : op[o].pc = "join" /\ op[o].task = l

\* A session that nobody started behind a stop's back has at most the run loop
\* that its runtime knows and that every stop waits for.  After the wait there
\* is neither a loop nor an open recording.
Deleting(g) ==
  \E o \in Op : op[o].pc = "join" /\ op[o].why = "delete" /\ op[o].gen = g

Sole(g) ==
  /\ \A l \in Loop : loop[l].gen = g => rt[g].task = l
  /\ HasLoop(g) => g = session \/ Deleting(g)
  /\ \A o \in Op : op[o].gen = g /\ op[o].pc = "join" =>
       \A l \in Loop : loop[l].gen = g => op[o].task = l
  /\ \A o \in Op : op[o].gen = g /\ op[o].pc \in Busy \ {"join"} =>
       op[o].pc = "drop" /\ ~HasLoop(g)
  /\ rt[g].log => \E l \in Loop : loop[l].gen = g /\ loop[l].pc \in Linked

SoleLoop == \A g \in Gen \ stray : Sole(g)

\* The recording is clean from the step that clears it on.
Inserting == \E o \in Op : op[o].pc = "insert"

OwnFile ==
  session # NoGen \/ Inserting => file.by \subseteq {session} \cup stray

\* A loop that may come to its end without setting the state: the closing of the
\* recording in _stop_connector may raise, or has.
MayRaise(s) == (s.pc = "close" /\ s.then = "stop") \/ s.then = "raise"

\* A connector, an open recording and a state other than "stopped" are left to
\* a loop or to an operation that will see to them; the state of a session that
\* is being stopped, to the operation.
Tended(g) ==
  /\ rt[g].conn \/ rt[g].log =>
       \/ \E l \in Loop : loop[l].gen = g /\ loop[l].pc # "drop"
       \/ \E o \in Op : op[o].gen = g /\ op[o].pc \in Busy \ {"drop"}
  /\ ~rt[g].down =>
       \/ \E l \in Loop : loop[l].gen = g /\ ~MayRaise(loop[l])
       \/ \E o \in Op : op[o].gen = g /\ op[o].pc \in Busy
  /\ ~rt[g].down /\ rt[g].stop =>
       \E o \in Op : op[o].gen = g /\ op[o].pc \in Busy

AllTended == \A g \in Gen \ cut : Tended(g)

Shape == TypeOK /\ IdHeld /\ Counted /\ Placed

\* The part of it that is about the registry, the operations and the recording.
RegistryOK ==
  /\ session \in 0..MaxGen /\ made \in 0..MaxGen
  /\ holder \in Op \cup {None}
  /\ op \in [Op -> OpState]
  /\ file \in [by: SUBSET Gen, opener: 0..MaxGen]
  /\ cut \subseteq Gen
  /\ Counted /\ IdHeld

-----------------------------------------------------------------------------
(* The kinds of steps *)

\* What every step of a run loop keeps of its runtime.
Keeps(l, r) ==
  /\ r.task = Own(l).task /\ r.stop = Own(l).stop
  /\ Own(l).down => r.down \/ ~r.stop

\* A step of a run loop: what it makes of the loop and of its runtime.
MovesTo(l, s, r) ==
  /\ Becomes(l, s, r)
  /\ Keeps(l, r)
  /\ \/ s = Over
     \/ s.pc \notin {"done", "new"} /\ s.gen = loop[l].gen /\ ~s.hit
  /\ s.then = "cut" => Dying(l)
  /\ s.pc = "drop" => ~r.conn /\ ~r.log
  /\ r.log => \/ s.pc \in Linked
              \/ Own(l).log /\ loop[l].pc \in {"new", "drop"}
  /\ MayRaise(s) => /\ Own(l).down => r.down
                    /\ r.stop \/ MayRaise(loop[l])
  /\ s = Over /\ ~Dying(l) =>
       /\ r.down \/ (MayRaise(loop[l]) /\ ~Own(l).down)
       /\ r.conn \/ r.log => loop[l].pc = "drop"
                             /\ (Own(l).conn \/ Own(l).log)

Moves(l) ==
  loop[l].pc # "done" /\ \E s \in LoopState, r \in Runtime : MovesTo(l, s, r)

\* A request that neither starts nor stops a runtime.
Waits(o) ==
  /\ UNCHANGED <<rt, loop, history>>
  /\ \E s \in OpState : op' = [op EXCEPT ![o] = s] /\ s.pc \notin Busy
  /\ op[o].pc \notin Busy
  /\ session' = session \/ session = NoGen
  /\ made <= made'
  /\ file' = file \/ file' = NoFile
  /\ session' # NoGen \/ Inserting' =>
       file' = NoFile \/ session # NoGen \/ Inserting

\* A start of session g.
Launches(o, g) ==
  /\ Start(g, rt[g]) /\ UNCHANGED <<file, cut>>
  /\ g \in Gen /\ g <= made' /\ made <= made'
  /\ op' = op \/ op' = [op EXCEPT ![o] = Idle]
  /\ op[o].pc \notin Busy
  /\ session' = session \/ session = NoGen
  /\ session' # NoGen => session # NoGen \/ Inserting

\* A stop that begins, of the session that the id names.
Claims(o, g, why) ==
  /\ g = session /\ op[o].pc \in {"idle", "grace"}
  /\ UNCHANGED <<made, file>>
  /\ IF why = "delete" THEN session' = NoGen /\ holder' = o
                       ELSE UNCHANGED <<session, holder>>

\* stop() cancels the loop and waits for it.
Cancels(o, g, why) ==
  /\ Alive(rt[g].task)
  /\ Claims(o, g, why)
  /\ rt' = [rt EXCEPT ![g] = [rt[g] EXCEPT !.stop = TRUE]]
  /\ loop' = [loop EXCEPT ![rt[g].task].hit = TRUE]
  /\ \E s \in OpState : /\ op' = [op EXCEPT ![o] = s]
                        /\ s.pc = "join" /\ s.gen = g
                        /\ s.task = rt[g].task /\ s.why = why
  /\ UNCHANGED history

\* stop() goes on when there is no loop to wait for: q is what it leaves of the
\* runtime, s where the operation goes.
Left(o, g, why, q, s) ==
  /\ q.task \in {rt[g].task, None}
  /\ q.log => rt[g].log
  /\ q.conn \/ q.log => \/ s.pc = "flush"
                        \/ op[o].pc = "drop" /\ (rt[g].conn \/ rt[g].log)
  /\ \/ s.pc = "flush" /\ q.log /\ s.gen = g /\ s.why = why
     \/ s.pc = "drop" /\ s.gen = g /\ s.why = why
     \/ s.pc = "retire" /\ why = "delete" /\ s.gen = g /\ q.down
     \/ s = Idle /\ why # "delete" /\ q.down

EndsTo(o, g, why, q, s) ==
  /\ Left(o, g, why, q, s)
  /\ op' = [op EXCEPT ![o] = s]
  /\ \/ rt' = [rt EXCEPT ![g] = q] /\ UNCHANGED <<loop, stray>>
     \/ s = Idle /\ Start(g, q)

Ends(o, g, why) ==
  /\ \/ Claims(o, g, why) /\ ~Alive(rt[g].task)
     \/ /\ op[o].gen = g /\ op[o].why = why /\ UNCHANGED <<registry, file>>
        /\ \/ op[o].pc = "join" /\ ~Alive(op[o].task)
           \/ op[o].pc \in {"closed", "drop"}
  /\ UNCHANGED cut
  /\ \E q \in Runtime, s \in OpState : EndsTo(o, g, why, q, s)

-----------------------------------------------------------------------------
(* What the handlers do *)

\* A loop that goes on, and one that is over.
LEMMA MovesOn ==
  ASSUME NEW l \in Loop, loop[l].pc # "done",
         NEW s \in LoopState, NEW r \in Runtime, Becomes(l, s, r),
         Keeps(l, r),
         s.pc \notin {"done", "new"}, s.gen = loop[l].gen, ~s.hit,
         s.then = "cut" => Dying(l),
         s.pc = "drop" => ~r.conn /\ ~r.log,
         MayRaise(s) => /\ Own(l).down => r.down
                        /\ r.stop \/ MayRaise(loop[l]),
         r.log => s.pc \in Linked
  PROVE  Moves(l)
<1>1. s # Over BY DEF Over
<1>2. MovesTo(l, s, r) BY <1>1 DEF MovesTo
<1> QED BY <1>2 DEF Moves

LEMMA MovesOver ==
  ASSUME NEW l \in Loop, loop[l].pc # "done",
         NEW r \in Runtime, Becomes(l, Over, r), Keeps(l, r),
         r.log => Own(l).log /\ loop[l].pc \in {"new", "drop"},
         ~Dying(l) =>
           /\ r.down \/ (MayRaise(loop[l]) /\ ~Own(l).down)
           /\ r.conn \/ r.log => /\ loop[l].pc = "drop"
                                 /\ Own(l).conn \/ Own(l).log
  PROVE  Moves(l)
<1>1. Over \in LoopState BY SessionAssumption DEF Over, LoopState, NoGen
<1>2. Over.then # "cut" /\ Over.pc # "drop" /\ ~MayRaise(Over)
  BY DEF Over, MayRaise
<1>3. MovesTo(l, Over, r) BY <1>2 DEF MovesTo
<1> QED BY <1>1, <1>3 DEF Moves

LEMMA AtFields ==
  ASSUME TypeOK, NEW l \in Loop,
         NEW pc \in {"new", "build", "open", "link", "back", "close", "drop",
                     "done"}
  PROVE  /\ At(l, pc) \in LoopState
         /\ At(l, pc).pc = pc /\ At(l, pc).gen = loop[l].gen
         /\ ~At(l, pc).hit /\ At(l, pc).then = "again"
<1>1. loop[l] \in LoopState BY DEF TypeOK
<1> QED BY <1>1 DEF At, LoopState

LEMMA AtMoves ==
  ASSUME TypeOK, NEW l \in Loop, loop[l].pc # "done",
         NEW pc \in {"build", "open", "link", "back"},
         NEW r \in Runtime, Keeps(l, r), Becomes(l, At(l, pc), r)
  PROVE  Moves(l)
<1>1. At(l, pc) \in LoopState /\ At(l, pc).pc = pc
      /\ At(l, pc).gen = loop[l].gen
      /\ ~At(l, pc).hit /\ At(l, pc).then = "again"
  BY AtFields
<1>2. ~MayRaise(At(l, pc)) BY <1>1 DEF MayRaise
<1> QED BY <1>1, <1>2, MovesOn DEF Linked

\* A loop that waits in a finally clause, for the logger or the connector.
LEMMA ThenFields ==
  ASSUME TypeOK, NEW l \in Loop, NEW pc \in {"close", "drop"},
         NEW then \in {"again", "leave", "stop", "raise", "cut"}
  PROVE  LET s == [At(l, pc) EXCEPT !.then = then]
         IN  /\ s \in LoopState
             /\ s.pc = pc /\ s.gen = loop[l].gen
             /\ ~s.hit /\ s.then = then
<1>1. At(l, pc) \in LoopState /\ ~At(l, pc).hit
      /\ At(l, pc).pc = pc /\ At(l, pc).gen = loop[l].gen
  BY AtFields
<1> QED BY <1>1 DEF LoopState

LEMMA AttemptMoves ==
  ASSUME TypeOK, NEW l \in Loop, loop[l].pc # "done",
         NEW r \in Runtime, Keeps(l, r), ~r.stop, Attempt(l, r)
  PROVE  Moves(l)
<1> DEFINE up == [r EXCEPT !.down = FALSE]
<1>1. up \in Runtime /\ up.task = r.task /\ up.stop = r.stop BY DEF Runtime
<1>2. CASE Records(l, up)
  <2> DEFINE q == [up EXCEPT !.log = TRUE]
  <2>1. q \in Runtime /\ q.task = r.task /\ q.stop = r.stop
    BY <1>1 DEF Runtime
  <2>2. \/ Becomes(l, At(l, "link"), up)
        \/ Becomes(l, At(l, "open"), q)
    BY <1>2 DEF Records
  <2> HIDE DEF q, up
  <2>3. Keeps(l, up) /\ Keeps(l, q) BY <1>1, <2>1 DEF Keeps
  <2> QED BY AtMoves, <1>1, <2>1, <2>2, <2>3
<1>3. CASE Becomes(l, At(l, "build"), [up EXCEPT !.conn = FALSE])
  <2> DEFINE q == [up EXCEPT !.conn = FALSE]
  <2>1. q \in Runtime /\ q.task = r.task /\ q.stop = r.stop
    BY <1>1 DEF Runtime
  <2>2. Becomes(l, At(l, "build"), q) BY <1>3
  <2> HIDE DEF q
  <2>3. Keeps(l, q) BY <2>1 DEF Keeps
  <2> QED BY AtMoves, <2>1, <2>2, <2>3
<1> QED BY <1>2, <1>3 DEF Attempt

\* The recording is closed: the connector goes, and the state is set unless the
\* closing raised.
LEMMA TakeDownMoves ==
  ASSUME TypeOK, NEW l \in Loop, loop[l].pc # "done",
         NEW r \in Runtime, Keeps(l, r), ~r.log,
         NEW then \in {"stop", "raise"}, TakeDown(l, then, r),
         then = "raise" => MayRaise(loop[l]) /\ (Own(l).down <=> r.down)
  PROVE  Moves(l)
<1>1. CASE r.conn
  <2> DEFINE s == [At(l, "drop") EXCEPT !.then = then]
             q == [r EXCEPT !.conn = FALSE]
  <2>1. /\ q \in Runtime /\ q.task = r.task /\ q.stop = r.stop
        /\ ~q.conn /\ ~q.log /\ q.down = r.down
    BY DEF Runtime
  <2>2. /\ s \in LoopState /\ s.pc = "drop" /\ s.gen = loop[l].gen
        /\ ~s.hit /\ s.then = then
    <3>1. then \in {"again", "leave", "stop", "raise", "cut"}
      OBVIOUS
    <3> QED BY <3>1, ThenFields
  <2>3. Becomes(l, s, q) BY <1>1 DEF TakeDown
  <2> HIDE DEF q, s
  <2>4. Keeps(l, q) BY <2>1 DEF Keeps
  <2>5. MayRaise(s) => /\ Own(l).down => q.down
                       /\ q.stop \/ MayRaise(loop[l])
    BY <2>1, <2>2 DEF MayRaise
  <2> QED BY <2>1, <2>2, <2>3, <2>4, <2>5, MovesOn
<1>2. CASE ~r.conn
  <2> DEFINE b == r.down \/ then # "raise"
             q == [r EXCEPT !.down = b]
  <2>1. b \in BOOLEAN /\ (r.down => b) /\ (then = "stop" => b)
        /\ (then # "stop" => b = r.down)
    BY DEF Runtime
  <2>2. Becomes(l, Over, q) BY <1>2 DEF TakeDown
  <2> HIDE DEF b
  <2>3. /\ q \in Runtime /\ q.task = r.task /\ q.stop = r.stop
        /\ q.conn = r.conn /\ q.log = r.log /\ q.down = b
    BY <2>1 DEF Runtime
  <2> HIDE DEF q
  <2>4. Keeps(l, q) BY <2>1, <2>3 DEF Keeps
  <2>5. q.down \/ (MayRaise(loop[l]) /\ ~Own(l).down) BY <2>1, <2>3
  <2> QED BY <1>2, <2>2, <2>3, <2>4, <2>5, MovesOver
<1> QED BY <1>1, <1>2

LEMMA LeaveMoves ==
  ASSUME TypeOK, NEW l \in Loop, loop[l].pc # "done",
         NEW r \in Runtime, Keeps(l, r), LeaveLoop(l, r),
         r.log => r.stop
  PROVE  Moves(l)
<1>1. CASE r.log
  <2> DEFINE s == [At(l, "close") EXCEPT !.then = "stop"]
  <2>1. s \in LoopState /\ s.pc = "close" /\ s.gen = loop[l].gen
        /\ ~s.hit /\ s.then = "stop"
    BY ThenFields
  <2>2. Becomes(l, s, r) BY <1>1 DEF LeaveLoop
  <2> HIDE DEF s
  <2>3. r.stop /\ (Own(l).down => r.down) BY <1>1 DEF Keeps
  <2> QED BY <2>1, <2>2, <2>3, MovesOn DEF Linked
<1>2. CASE ~r.log
  <2>1. TakeDown(l, "stop", r) BY <1>2 DEF LeaveLoop
  <2> QED BY <1>2, <2>1, TakeDownMoves
<1> QED BY <1>1, <1>2

LEMMA GoOnMoves ==
  ASSUME TypeOK, NEW l \in Loop, loop[l].pc # "done",
         NEW r \in Runtime, Keeps(l, r),
         NEW then \in {"again", "leave", "stop", "raise", "cut"},
         GoOn(l, then, r),
         r.log => then = "again",
         then = "stop" => MayRaise(loop[l]) /\ (Own(l).down <=> r.down),
         then = "cut" => Dying(l)
  PROVE  Moves(l)
<1>1. CASE then = "again" /\ ~r.stop /\ Attempt(l, r)
  BY <1>1, AttemptMoves
<1>2. CASE then = "again" /\ r.stop /\ LeaveLoop(l, r)
  BY <1>2, LeaveMoves
<1>3. CASE then = "leave" /\ LeaveLoop(l, r) BY <1>3, LeaveMoves
<1>4. CASE then = "stop" /\ (TakeDown(l, "stop", r) \/ TakeDown(l, "raise", r))
  BY <1>4, TakeDownMoves
<1>5. CASE then = "cut" /\ Becomes(l, Over, r) BY <1>5, MovesOver
<1> QED BY <1>1, <1>2, <1>3, <1>4, <1>5 DEF GoOn

\* A loop keeps its runtime's task and its order to stop.
LEMMA OwnKept == ASSUME NEW l \in Loop PROVE Keeps(l, Own(l))
BY DEF Keeps

LEMMA EndMoves ==
  ASSUME TypeOK, NEW l \in Loop, loop[l].pc # "done",
         NEW then \in {"again", "leave", "cut"},
         then = "cut" => Dying(l), Own(l) \in Runtime,
         EndConnection(l, then, Own(l))
  PROVE  Moves(l)
<1>1. CASE Own(l).log
  <2> DEFINE s == [At(l, "close") EXCEPT !.then = then]
  <2>1. s \in LoopState /\ s.pc = "close" /\ s.gen = loop[l].gen
        /\ ~s.hit /\ s.then = then
    <3>1. then \in {"again", "leave", "stop", "raise", "cut"}
      OBVIOUS
    <3> QED BY <3>1, ThenFields
  <2> HIDE DEF s
  <2>2. Becomes(l, s, Own(l)) BY <1>1 DEF s, EndConnection
  <2>3. ~MayRaise(s) BY <2>1 DEF MayRaise
  <2> QED BY <2>1, <2>2, <2>3, OwnKept, MovesOn DEF Linked
<1>2. CASE ~Own(l).log
  <2>1. GoOn(l, then, Own(l)) BY <1>2 DEF EndConnection
  <2> QED BY <1>2, <2>1, OwnKept, GoOnMoves
<1> QED BY <1>1, <1>2

\* Every step of a run loop but Record, which only writes, moves the loop.
LEMMA LoopMoves ==
  ASSUME Shape, NEW l \in Loop, LoopNext(l), ~Record(l)
  PROVE  Moves(l) /\ UNCHANGED LoopVars
<1>0. SUFFICES Moves(l)
  <2>1. UNCHANGED LoopVars
    BY DEF LoopNext, Begin, Built, Opened, Record, Retry, GiveUp,
           ConnectionEnds, Closed, Dropped, Hit
  <2> QED BY <2>1
<1>1. loop[l] \in LoopState BY DEF Shape, TypeOK
<1>2. TypeOK BY DEF Shape
<1>3. Own(l) \in Runtime \/ loop[l].pc = "done"
  <2>1. SUFFICES ASSUME loop[l].pc # "done" PROVE Own(l) \in Runtime
    OBVIOUS
  <2>2. loop[l].gen \in Gen
    BY <2>1, SessionAssumption DEF Shape, TypeOK, Placed, Gen
  <2> QED BY <2>2 DEF Shape, TypeOK, Own
<1>4. Keeps(l, Own(l)) BY OwnKept
<1>5. CASE Begin(l) BY <1>2, <1>3, <1>4, <1>5, GoOnMoves DEF Begin
<1>6. CASE Built(l)
  <2> DEFINE r == [Own(l) EXCEPT !.conn = TRUE]
             q == [r EXCEPT !.log = TRUE]
  <2>1. /\ r \in Runtime /\ Keeps(l, r)
        /\ q \in Runtime /\ Keeps(l, q)
    BY <1>3, <1>6 DEF Built, Runtime, Keeps
  <2>2. Records(l, r) /\ loop[l].pc # "done" BY <1>6 DEF Built
  <2>4. Becomes(l, At(l, "link"), r) \/ Becomes(l, At(l, "open"), q)
    BY <2>2 DEF Records
  <2> HIDE DEF r, q
  <2>5. CASE Becomes(l, At(l, "link"), r)
    BY <1>2, <2>1, <2>2, <2>5, AtMoves
  <2>6. CASE Becomes(l, At(l, "open"), q)
    BY <1>2, <2>1, <2>2, <2>6, AtMoves
  <2> QED BY <1>6, <2>4, <2>5, <2>6 DEF Built
<1>7. CASE Opened(l) BY <1>2, <1>3, <1>4, <1>7, AtMoves DEF Opened
<1>8. CASE Retry(l) BY <1>2, <1>3, <1>4, <1>8, AtMoves DEF Retry
<1>9. CASE GiveUp(l) BY <1>2, <1>3, <1>9, EndMoves DEF GiveUp
<1>10. CASE ConnectionEnds(l)
  BY <1>2, <1>3, <1>10, EndMoves DEF ConnectionEnds
<1>11. CASE Closed(l)
  <2> DEFINE r == [Own(l) EXCEPT !.log = FALSE]
  <2>1. r \in Runtime /\ Keeps(l, r) /\ ~r.log /\ r.down = Own(l).down
    BY <1>3, <1>11 DEF Closed, Runtime, Keeps
  <2>2. loop[l].then \in {"again", "leave", "stop", "raise", "cut"}
    BY <1>1 DEF LoopState
  <2>3. /\ loop[l].pc # "done" /\ GoOn(l, loop[l].then, r)
        /\ loop[l].then = "stop" => MayRaise(loop[l])
        /\ loop[l].then = "cut" => Dying(l)
    BY <1>11 DEF Closed, MayRaise, Dying
  <2> HIDE DEF r
  <2>4. Moves(l) BY <1>2, <2>1, <2>2, <2>3, GoOnMoves
  <2> QED BY <1>11, <2>4 DEF Closed
<1>12. CASE Dropped(l)
  <2> DEFINE b == Own(l).down \/ loop[l].then # "raise"
             r == [Own(l) EXCEPT !.down = b]
  <2>1. /\ b \in BOOLEAN /\ Own(l) \in Runtime
        /\ Own(l).down => b
        /\ b \/ (loop[l].then = "raise" /\ ~Own(l).down)
    BY <1>3, <1>12 DEF Dropped, Runtime
  <2>2. loop[l].pc = "drop" /\ Becomes(l, Over, r) BY <1>12 DEF Dropped
  <2> HIDE DEF b
  <2>3. /\ r \in Runtime /\ r.down = b
        /\ r.task = Own(l).task /\ r.stop = Own(l).stop
        /\ r.conn = Own(l).conn /\ r.log = Own(l).log
    BY <2>1 DEF Runtime
  <2> HIDE DEF r
  <2>4. Keeps(l, r) BY <2>1, <2>3 DEF Keeps
  <2>5. ~Dying(l) => r.down \/ (MayRaise(loop[l]) /\ ~Own(l).down)
    BY <2>1, <2>3 DEF MayRaise
  <2>6. Moves(l) BY <2>1, <2>2, <2>3, <2>4, <2>5, MovesOver
  <2> QED BY <1>12, <2>6 DEF Dropped
<1>13. CASE Hit(l)
  <2>1. loop[l].hit /\ Dying(l) /\ loop[l].pc # "done"
    <3>1. loop[l].hit /\ loop[l].pc # "done" BY <1>13 DEF Hit
    <3> QED BY <3>1 DEF Dying
  <2>2. CASE EndConnection(l, "cut", Own(l))
    <3>1. Own(l) \in Runtime BY <1>3, <2>1
    <3> QED BY <1>2, <2>1, <2>2, <3>1, EndMoves
  <2>3. CASE Becomes(l, At(l, "back"), Own(l))
    BY <1>2, <1>3, <1>4, <2>1, <2>3, AtMoves
  <2>4. ASSUME loop[l].pc = "close",
               LET r == [Own(l) EXCEPT !.log = FALSE]
               IN  IF loop[l].then = "stop" THEN TakeDown(l, "raise", r)
                                            ELSE Becomes(l, Over, r)
        PROVE  Moves(l)
    <3> DEFINE r == [Own(l) EXCEPT !.log = FALSE]
    <3>1. r \in Runtime /\ Keeps(l, r) /\ ~r.log /\ r.down = Own(l).down
      BY <1>3, <2>1 DEF Runtime, Keeps
    <3>2. \/ loop[l].then = "stop" /\ TakeDown(l, "raise", r)
          \/ Becomes(l, Over, r)
      BY <2>4
    <3> HIDE DEF r
    <3>3. CASE loop[l].then = "stop" /\ TakeDown(l, "raise", r)
      <4>1. MayRaise(loop[l]) BY <2>4, <3>3 DEF MayRaise
      <4> QED BY <1>2, <2>1, <3>1, <3>3, <4>1, TakeDownMoves
    <3>4. CASE Becomes(l, Over, r)
      BY <2>1, <3>1, <3>4, MovesOver
    <3> QED BY <3>2, <3>3, <3>4
  <2>5. CASE loop[l].pc \in {"new", "drop"} /\ Becomes(l, Over, Own(l))
    BY <1>3, <1>4, <2>1, <2>5, MovesOver
  <2> QED BY <1>13, <2>2, <2>3, <2>4, <2>5 DEF Hit
<1> QED
  BY <1>5, <1>6, <1>7, <1>8, <1>9, <1>10, <1>11, <1>12, <1>13 DEF LoopNext

LEMMA StoppedEnds ==
  ASSUME NEW o \in Op, NEW p \in OpState, NEW r \in Runtime,
         r.task \in {rt[p.gen].task, None},
         r.log => rt[p.gen].log,
         r.conn \/ r.log =>
           op[o].pc = "drop" /\ (rt[p.gen].conn \/ rt[p.gen].log),
         Stopped(o, p, r)
  PROVE  \E q \in Runtime, s \in OpState : EndsTo(o, p.gen, p.why, q, s)
<1> DEFINE down == [r EXCEPT !.down = TRUE]
           next == [p EXCEPT !.pc = "retire", !.task = None]
<1>1. /\ down \in Runtime /\ down.task = r.task /\ down.down
      /\ down.conn = r.conn /\ down.log = r.log
  BY DEF Runtime
<1>2. /\ next \in OpState /\ next.pc = "retire" /\ next.gen = p.gen
  BY DEF OpState
<1>3. Idle \in OpState BY SessionAssumption DEF Idle, OpState, NoGen
<1>4. \/ p.why = "restart" /\ OpTo(o, Idle) /\ Start(p.gen, down)
      \/ /\ rt' = [rt EXCEPT ![p.gen] = down]
         /\ OpTo(o, IF p.why = "delete" THEN next ELSE Idle)
         /\ UNCHANGED <<loop, stray>>
  BY DEF Stopped
<1> HIDE DEF down, next
<1>5. CASE p.why = "restart" /\ OpTo(o, Idle) /\ Start(p.gen, down)
  <2>1. Left(o, p.gen, p.why, down, Idle) BY <1>1, <1>5 DEF Left
  <2>2. EndsTo(o, p.gen, p.why, down, Idle)
    BY <1>5, <2>1 DEF EndsTo, OpTo
  <2> QED BY <1>1, <1>3, <2>2
<1>6. CASE /\ rt' = [rt EXCEPT ![p.gen] = down]
           /\ OpTo(o, IF p.why = "delete" THEN next ELSE Idle)
           /\ UNCHANGED <<loop, stray>>
  <2>1. CASE p.why = "delete"
    <3>1. Left(o, p.gen, p.why, down, next) BY <1>1, <1>2, <2>1 DEF Left
    <3>2. EndsTo(o, p.gen, p.why, down, next)
      BY <1>6, <2>1, <3>1 DEF EndsTo, OpTo
    <3> QED BY <1>1, <1>2, <3>2
  <2>2. CASE p.why # "delete"
    <3>1. Left(o, p.gen, p.why, down, Idle) BY <1>1, <2>2 DEF Left
    <3>2. EndsTo(o, p.gen, p.why, down, Idle)
      BY <1>6, <2>2, <3>1 DEF EndsTo, OpTo
    <3> QED BY <1>1, <1>3, <3>2
  <2> QED BY <2>1, <2>2
<1> QED BY <1>4, <1>5, <1>6

LEMMA DiscardEnds ==
  ASSUME NEW o \in Op, NEW p \in OpState, NEW r \in Runtime,
         r.task = rt[p.gen].task, ~r.log, Discard(o, p, r)
  PROVE  \E q \in Runtime, s \in OpState : EndsTo(o, p.gen, p.why, q, s)
<1> DEFINE free == [r EXCEPT !.task = None]
           less == [free EXCEPT !.conn = FALSE]
           next == [p EXCEPT !.pc = "drop", !.task = None]
<1>1. /\ free \in Runtime /\ free.task = None
      /\ free.conn = r.conn /\ free.log = r.log
  BY DEF Runtime
<1>2. /\ less \in Runtime /\ less.task = None /\ ~less.conn
      /\ less.log = r.log
  BY DEF Runtime
<1>3. /\ next \in OpState /\ next.pc = "drop" /\ next.gen = p.gen
      /\ next.why = p.why
  BY DEF OpState
<1>4. IF r.conn
      THEN /\ rt' = [rt EXCEPT ![p.gen] = less]
           /\ OpTo(o, next)
           /\ UNCHANGED <<loop, stray>>
      ELSE Stopped(o, p, free)
  BY DEF Discard
<1> HIDE DEF free, less, next
<1>5. CASE r.conn
  <2>1. Left(o, p.gen, p.why, less, next) BY <1>2, <1>3 DEF Left
  <2>2. EndsTo(o, p.gen, p.why, less, next)
    BY <1>4, <1>5, <2>1 DEF EndsTo, OpTo
  <2> QED BY <1>2, <1>3, <2>2
<1>6. CASE ~r.conn BY <1>1, <1>4, <1>6, StoppedEnds
<1> QED BY <1>5, <1>6

LEMMA CloseEnds ==
  ASSUME NEW o \in Op, NEW p \in OpState, NEW r \in Runtime,
         r.task = rt[p.gen].task, r.log = rt[p.gen].log,
         CloseRecording(o, p, r)
  PROVE  \E q \in Runtime, s \in OpState : EndsTo(o, p.gen, p.why, q, s)
<1> DEFINE next == [p EXCEPT !.pc = "flush", !.task = None]
<1>1. /\ next \in OpState /\ next.pc = "flush" /\ next.gen = p.gen
      /\ next.why = p.why
  BY DEF OpState
<1>2. IF r.log
      THEN /\ rt' = [rt EXCEPT ![p.gen] = r]
           /\ OpTo(o, next)
           /\ UNCHANGED <<loop, stray>>
      ELSE Discard(o, p, r)
  BY DEF CloseRecording
<1> HIDE DEF next
<1>3. CASE r.log
  <2>1. Left(o, p.gen, p.why, r, next) BY <1>1, <1>3 DEF Left
  <2>2. EndsTo(o, p.gen, p.why, r, next)
    BY <1>2, <1>3, <2>1 DEF EndsTo, OpTo
  <2> QED BY <1>1, <2>2
<1>4. CASE ~r.log BY <1>2, <1>4, DiscardEnds
<1> QED BY <1>3, <1>4

LEMMA BeginStops ==
  ASSUME TypeOK, NEW o \in Op, NEW why \in {"delete", "stop", "restart"},
         session # NoGen, Claims(o, session, why), UNCHANGED cut,
         BeginStop(o, session, why)
  PROVE  Cancels(o, session, why) \/ Ends(o, session, why)
<1> DEFINE r == [rt[session] EXCEPT !.stop = TRUE]
           p == [Idle EXCEPT !.pc = "join", !.gen = session,
                             !.task = r.task, !.why = why]
<1>1. session \in Gen
  BY SessionAssumption DEF TypeOK, Gen, NoGen
<1>2. rt[session] \in Runtime BY <1>1 DEF TypeOK
<1>3. /\ r \in Runtime /\ r.task = rt[session].task
      /\ r.log = rt[session].log
  BY <1>2 DEF Runtime
<1>4. IF Alive(r.task)
      THEN /\ rt' = [rt EXCEPT ![session] = r]
           /\ loop' = [loop EXCEPT ![r.task].hit = TRUE]
           /\ OpTo(o, p)
           /\ UNCHANGED stray
      ELSE CloseRecording(o, p, r)
  BY DEF BeginStop
<1>5. rt' = [rt EXCEPT ![session] = r] =>
      rt' = [rt EXCEPT ![session] = [rt[session] EXCEPT !.stop = TRUE]]
  OBVIOUS
<1> HIDE DEF r
<1>6. r.task \in Loop \cup {None} BY <1>3 DEF Runtime
<1>7. /\ p \in OpState /\ p.pc = "join" /\ p.gen = session
      /\ p.task = r.task /\ p.why = why
  <2>1. session \in 0..MaxGen BY DEF TypeOK
  <2>2. Idle \in OpState BY SessionAssumption DEF Idle, OpState, NoGen
  <2> QED BY <1>6, <2>1, <2>2 DEF OpState
<1>9. CASE Alive(r.task)
  <2>1. /\ rt' = [rt EXCEPT ![session] = r]
        /\ loop' = [loop EXCEPT ![r.task].hit = TRUE]
        /\ OpTo(o, p)
        /\ UNCHANGED stray
    BY <1>4, <1>9
  <2> HIDE DEF p
  <2> QED BY <1>3, <1>5, <1>7, <1>9, <2>1 DEF Cancels, OpTo, history
<1>10. CASE ~Alive(r.task)
  <2> HIDE DEF p
  <2>1. \E q \in Runtime, s \in OpState : EndsTo(o, session, why, q, s)
    BY <1>3, <1>4, <1>7, <1>10, CloseEnds
  <2> QED BY <1>3, <1>10, <2>1 DEF Ends
<1> QED BY <1>9, <1>10

LEMMA JoinedEnds ==
  ASSUME Shape, NEW o \in Op, Joined(o)
  PROVE  Ends(o, op[o].gen, op[o].why)
<1>1. op[o] \in OpState /\ op[o].pc = "join" /\ ~Alive(op[o].task)
  BY DEF Shape, TypeOK, Joined
<1>2. rt[op[o].gen] \in Runtime
  <2>1. op[o].gen \in Gen
    BY <1>1, SessionAssumption DEF Shape, Counted, TypeOK, Busy, OpState, Gen, NoGen
  <2> QED BY <2>1 DEF Shape, TypeOK
<1>3. CloseRecording(o, op[o], rt[op[o].gen]) BY DEF Joined
<1>4. \E q \in Runtime, s \in OpState :
         EndsTo(o, op[o].gen, op[o].why, q, s)
  BY <1>1, <1>2, <1>3, CloseEnds
<1>5. UNCHANGED <<registry, file, cut>> BY DEF Joined
<1> QED BY <1>1, <1>4, <1>5 DEF Ends

LEMMA ClosingEnds ==
  ASSUME Shape, NEW o \in Op, Closing(o)
  PROVE  Ends(o, op[o].gen, op[o].why)
<1>1. op[o] \in OpState /\ op[o].pc = "closed"
  BY DEF Shape, TypeOK, Closing
<1>2. rt[op[o].gen] \in Runtime
  <2>1. op[o].gen \in Gen
    BY <1>1, SessionAssumption DEF Shape, Counted, TypeOK, Busy, OpState, Gen, NoGen
  <2> QED BY <2>1 DEF Shape, TypeOK
<1> DEFINE r == [rt[op[o].gen] EXCEPT !.log = FALSE]
<1>3. r \in Runtime /\ r.task = rt[op[o].gen].task /\ ~r.log
  BY <1>2 DEF Runtime
<1>4. Discard(o, op[o], r) BY DEF Closing
<1> HIDE DEF r
<1>5. \E q \in Runtime, s \in OpState :
         EndsTo(o, op[o].gen, op[o].why, q, s)
  BY <1>1, <1>3, <1>4, DiscardEnds
<1>6. UNCHANGED <<registry, file, cut>> BY DEF Closing
<1> QED BY <1>1, <1>5, <1>6 DEF Ends

LEMMA ConnectorEnds ==
  ASSUME Shape, NEW o \in Op, ConnectorStopped(o)
  PROVE  Ends(o, op[o].gen, op[o].why)
<1>1. op[o] \in OpState /\ op[o].pc = "drop"
  BY DEF Shape, TypeOK, ConnectorStopped
<1>2. rt[op[o].gen] \in Runtime
  <2>1. op[o].gen \in Gen
    BY <1>1, SessionAssumption DEF Shape, Counted, TypeOK, Busy, OpState, Gen, NoGen
  <2> QED BY <2>1 DEF Shape, TypeOK
<1>3. Stopped(o, op[o], rt[op[o].gen]) BY DEF ConnectorStopped
<1>4. \E q \in Runtime, s \in OpState :
         EndsTo(o, op[o].gen, op[o].why, q, s)
  BY <1>1, <1>2, <1>3, StoppedEnds
<1>5. UNCHANGED <<registry, file, cut>> BY DEF ConnectorStopped
<1> QED BY <1>1, <1>4, <1>5 DEF Ends

Ending(o) ==
  \E g \in Gen, why \in {"delete", "stop", "restart"} :
    Cancels(o, g, why) \/ Ends(o, g, why)

\* Every step of an operation is of one of these kinds.
OpKinds(o) ==
  \/ Waits(o)
  \/ \E g \in Gen : Launches(o, g)
  \/ Ending(o)
  \/ Flushed(o)
  \/ TimesOut(o)

LEMMA RemoveEnds ==
  ASSUME Shape, NEW o \in Op, op[o].pc \in {"idle", "grace"},
         session # NoGen, Remove(o)
  PROVE  Ending(o)
<1>1. session \in Gen BY SessionAssumption DEF Shape, TypeOK, Gen, NoGen
<1>2. Claims(o, session, "delete") BY DEF Remove, Claims
<1>3. Cancels(o, session, "delete") \/ Ends(o, session, "delete")
  BY <1>2, BeginStops DEF Remove, Shape
<1> QED BY <1>1, <1>3 DEF Ending

LEMMA StopEnds ==
  ASSUME Shape, NEW o \in Op, StopSession(o)
  PROVE  Ending(o)
<1>1. session \in Gen
  BY SessionAssumption DEF Shape, TypeOK, Gen, NoGen, StopSession
<1>2. PICK why \in {"stop", "restart"} : BeginStop(o, session, why)
  BY DEF StopSession
<1>3. Claims(o, session, why) BY DEF StopSession, Claims, registry
<1>4. session # NoGen /\ UNCHANGED cut BY DEF StopSession
<1>5. Cancels(o, session, why) \/ Ends(o, session, why)
  BY <1>2, <1>3, <1>4, BeginStops DEF Shape
<1> QED BY <1>1, <1>5 DEF Ending

LEMMA GoesOnEnds ==
  ASSUME Shape, NEW o \in Op, Joined(o) \/ Closing(o) \/ ConnectorStopped(o)
  PROVE  Ending(o)
<1>1. op[o] \in OpState /\ op[o].pc \in {"join", "closed", "drop"}
  BY DEF Shape, TypeOK, Joined, Closing, ConnectorStopped
<1>2. op[o].gen \in Gen
  BY <1>1, SessionAssumption DEF Shape, Counted, Busy, OpState, Gen, NoGen
<1>3. op[o].why \in {"delete", "stop", "restart"} BY <1>1 DEF OpState
<1>4. Ends(o, op[o].gen, op[o].why)
  BY JoinedEnds, ClosingEnds, ConnectorEnds
<1> QED BY <1>2, <1>3, <1>4 DEF Ending

LEMMA WaitsKinds ==
  ASSUME Shape, NEW o \in Op,
         Create(o) \/ CreateRefused(o) \/ Cleared(o) \/ CreateFails(o)
         \/ WorkerEmpty(o) \/ Retired(o)
  PROVE  Waits(o)
<1>1. Idle \in OpState BY SessionAssumption DEF Idle, OpState, NoGen
<1>2. op[o] \in OpState /\ op \in [Op -> OpState] BY DEF Shape, TypeOK
<1>3. session \in 0..MaxGen /\ made <= made BY DEF Shape, TypeOK
<1>4. \A pc \in {"clear", "wait", "retire"} :
         LET s == [Idle EXCEPT !.pc = pc] IN s \in OpState /\ s.pc = pc
  BY <1>1 DEF OpState
<1>5. Idle.pc = "idle" BY DEF Idle
<1>6. CASE Create(o)
  <2>1. \E pc \in {"clear", "wait"} :
           op' = [op EXCEPT ![o] = [Idle EXCEPT !.pc = pc]]
    BY <1>6 DEF Create, OpTo
  <2>2. PICK s \in OpState : /\ op' = [op EXCEPT ![o] = s]
                             /\ s.pc \in {"clear", "wait"}
    BY <1>4, <2>1
  <2>3. Inserting' => Inserting BY <1>2, <2>2 DEF Inserting
  <2>4. op[o].pc \notin Busy /\ s.pc \notin Busy BY <1>6, <2>2 DEF Create, Busy
  <2> QED BY <1>3, <1>6, <2>2, <2>3, <2>4 DEF Create, Waits, history
<1>7. CASE CreateRefused(o)
  <2>1. Inserting' => Inserting
    BY <1>2, <1>5, <1>7 DEF CreateRefused, Inserting, OpTo
  <2>2. op[o].pc \notin Busy /\ Idle.pc \notin Busy
    BY <1>5, <1>7 DEF CreateRefused, Busy
  <2> QED
    BY <1>1, <1>3, <1>7, <2>1, <2>2
    DEF CreateRefused, Waits, history, registry, OpTo
<1>8. CASE Cleared(o)
  <2> DEFINE s == [op[o] EXCEPT !.pc = "insert"]
  <2>1. s \in OpState /\ s.pc = "insert" BY <1>2 DEF OpState
  <2> HIDE DEF s
  <2>2. op' = [op EXCEPT ![o] = s] BY <1>8 DEF s, Cleared, OpTo
  <2>3. op[o].pc \notin Busy /\ s.pc \notin Busy
    BY <1>8, <2>1 DEF Cleared, Busy
  <2> QED BY <1>3, <1>8, <2>1, <2>2, <2>3 DEF Cleared, Waits, history, registry
<1>9. CASE CreateFails(o)
  <2>1. Inserting' => Inserting
    BY <1>2, <1>5, <1>9 DEF CreateFails, Inserting, OpTo
  <2>2. op[o].pc \notin Busy /\ Idle.pc \notin Busy
    BY <1>5, <1>9 DEF CreateFails, Busy
  <2> QED
    BY <1>1, <1>3, <1>9, <2>1, <2>2 DEF CreateFails, Waits, history, OpTo
<1>10. CASE WorkerEmpty(o)
  <2> DEFINE s == [Idle EXCEPT !.pc = "grace", !.gen = session]
  <2>1. s \in OpState /\ s.pc = "grace" BY <1>1, <1>3 DEF OpState
  <2> HIDE DEF s
  <2>2. op' = [op EXCEPT ![o] = s] BY <1>10 DEF s, WorkerEmpty, OpTo
  <2>3. op[o].pc \notin Busy /\ s.pc \notin Busy
    BY <1>10, <2>1 DEF WorkerEmpty, Busy
  <2> QED 
    BY <1>3, <1>10, <2>1, <2>2, <2>3
    DEF WorkerEmpty, Waits, history, registry
<1>11. CASE Retired(o)
  <2>1. Inserting' => Inserting
    BY <1>2, <1>5, <1>11 DEF Retired, Inserting, OpTo
  <2>2. op[o].pc \notin Busy /\ Idle.pc \notin Busy
    BY <1>5, <1>11 DEF Retired, Busy
  <2> QED
    BY <1>1, <1>3, <1>11, <2>1, <2>2 DEF Retired, Waits, history, OpTo
<1> QED BY <1>6, <1>7, <1>8, <1>9, <1>10, <1>11

LEMMA OpIsKind ==
  ASSUME Shape, NEW o \in Op, OpNext(o)
  PROVE  OpKinds(o)
<1>1. Idle \in OpState /\ Idle.pc = "idle"
  BY SessionAssumption DEF Idle, OpState, NoGen
<1>2. op[o] \in OpState /\ op \in [Op -> OpState] /\ made <= made
  BY DEF Shape, TypeOK
<1>3. CASE Inserted(o)
  <2>1. session = NoGen /\ op[o].pc = "insert" /\ op[o].pc \notin Busy
    BY <1>3, SessionAssumption DEF Inserted, Shape, IdHeld, Busy
  <2>2. /\ made + 1 \in Gen /\ made + 1 <= made' /\ made <= made'
        /\ rt[made + 1] = Fresh
    BY <1>3, <2>1, SessionAssumption
    DEF Inserted, Shape, TypeOK, Counted, Placed, Gen
  <2>3. Inserting BY <2>1 DEF Inserting
  <2>4. CASE OpTo(o, Idle) /\ UNCHANGED <<rt, loop, stray>>
    <3>1. Idle.pc \notin Busy BY <1>1 DEF Busy
    <3>2. UNCHANGED <<file, cut>> BY <1>3 DEF Inserted
    <3>3. Waits(o)
      BY <1>1, <1>2, <2>1, <2>2, <2>3, <2>4, <3>1, <3>2 DEF Waits, history, OpTo
    <3> QED BY <3>3 DEF OpKinds
  <2>5. CASE OpTo(o, Idle) /\ Start(made + 1, Fresh)
    <3>1. UNCHANGED <<file, cut>> BY <1>3 DEF Inserted
    <3>2. Launches(o, made + 1)
      BY <2>1, <2>2, <2>3, <2>5, <3>1 DEF Launches, OpTo
    <3> QED BY <2>2, <3>2 DEF OpKinds
  <2>6. CASE /\ OpTo(o, [op[o] EXCEPT !.pc = "save", !.gen = made + 1])
             /\ UNCHANGED <<rt, loop, stray>>
    <3> DEFINE s == [op[o] EXCEPT !.pc = "save", !.gen = made + 1]
    <3>1. made + 1 \in 0..MaxGen BY <2>2 DEF Gen
    <3>2. s \in OpState /\ s.pc = "save" BY <1>2, <3>1 DEF OpState
    <3> HIDE DEF s
    <3>3. op' = [op EXCEPT ![o] = s] BY <2>6 DEF s, OpTo
    <3>4. s.pc \notin Busy BY <3>2 DEF Busy
    <3>5. UNCHANGED <<file, cut>> BY <1>3 DEF Inserted
    <3>6. Waits(o)
      BY <2>1, <2>2, <2>3, <2>6, <3>2, <3>3, <3>4, <3>5
      DEF Waits, history
    <3> QED BY <3>6 DEF OpKinds
  <2> QED BY <1>3, <2>4, <2>5, <2>6 DEF Inserted
<1>4. CASE Saved(o)
  <2>1. op[o].gen \in Gen /\ op[o].gen <= made
    BY <1>2, <1>4, SessionAssumption
    DEF Saved, Shape, Counted, OpState, Gen, NoGen
  <2>2. /\ UNCHANGED <<file, cut>> /\ op[o].pc \notin Busy
        /\ session' = session /\ made' = made
    BY <1>4 DEF Saved, registry, Busy
  <2>3. made <= made' BY <2>2 DEF Shape, TypeOK
  <2>4. Launches(o, op[o].gen)
    BY <1>4, <2>1, <2>2, <2>3 DEF Saved, Launches, OpTo
  <2> QED BY <2>1, <2>4 DEF OpKinds
<1>5. CASE StartSession(o)
  <2>1. session \in Gen /\ session <= made
    BY <1>5, SessionAssumption
    DEF StartSession, Shape, Counted, TypeOK, Gen, NoGen
  <2>2. /\ UNCHANGED <<file, cut>> /\ op[o].pc \notin Busy
        /\ session' = session /\ made' = made /\ op' = op
    BY <1>5 DEF StartSession, registry, Busy
  <2>3. made <= made' BY <2>2 DEF Shape, TypeOK
  <2>4. Launches(o, session)
    BY <1>5, <2>1, <2>2, <2>3 DEF StartSession, Launches
  <2> QED BY <2>1, <2>4 DEF OpKinds
<1>6. CASE Delete(o)
  <2>1. CASE session # NoGen /\ Remove(o)
    <3>1. op[o].pc \in {"idle", "grace"} BY <1>6 DEF Delete
    <3> QED BY <2>1, <3>1, RemoveEnds DEF OpKinds
  <2>2. CASE /\ session = NoGen
             /\ holder' = o /\ OpTo(o, [Idle EXCEPT !.pc = "retire"])
             /\ UNCHANGED <<session, made, rt, loop, file, history>>
    <3> DEFINE s == [Idle EXCEPT !.pc = "retire"]
    <3>1. s \in OpState /\ s.pc = "retire" BY <1>1 DEF OpState
    <3> HIDE DEF s
    <3>2. op' = [op EXCEPT ![o] = s] BY <2>2 DEF s, OpTo
    <3>3. op[o].pc \notin Busy /\ s.pc \notin Busy
      BY <1>6, <3>1 DEF Delete, Busy
    <3>4. Inserting' => Inserting BY <1>2, <3>1, <3>2 DEF Inserting
    <3>5. Waits(o) BY <1>2, <2>2, <3>1, <3>2, <3>3, <3>4 DEF Waits, history
    <3> QED BY <3>5 DEF OpKinds
  <2> QED BY <1>6, <2>1, <2>2 DEF Delete
<1>7. CASE GraceOver(o)
  <2>1. CASE session = op[o].gen /\ Remove(o)
    <3>1. op[o].pc \in {"idle", "grace"} BY <1>7 DEF GraceOver
    <3>2. session # NoGen BY <1>7, <2>1 DEF GraceOver, Shape, Counted
    <3> QED BY <2>1, <3>1, <3>2, RemoveEnds DEF OpKinds
  <2>2. CASE OpTo(o, Idle) /\ UNCHANGED <<registry, rt, loop, file, history>>
    <3>1. op[o].pc \notin Busy /\ Idle.pc \notin Busy
      BY <1>1, <1>7 DEF GraceOver, Busy
    <3>2. Inserting' => Inserting BY <1>1, <1>2, <2>2 DEF Inserting, OpTo
    <3>3. Waits(o)
      BY <1>1, <1>2, <2>2, <3>1, <3>2 DEF Waits, history, registry, OpTo
    <3> QED BY <3>3 DEF OpKinds
  <2> QED BY <1>7, <2>1, <2>2 DEF GraceOver
<1> QED
  BY <1>3, <1>4, <1>5, <1>6, <1>7, WaitsKinds, StopEnds, GoesOnEnds
  DEF OpNext, OpKinds

-----------------------------------------------------------------------------
(* The registry *)

\* Operation o becomes s, which works for a session there is and which holds
\* the id if and only if o does after the step.
Holds(s) == \/ s.pc \in {"clear", "insert", "retire"}
            \/ s.pc \in Busy /\ s.why = "delete"

LEMMA RegistryStep ==
  ASSUME Shape, NEW o \in Op, NEW s \in OpState,
         op' = [op EXCEPT ![o] = s],
         session' \in 0..MaxGen, made' \in 0..MaxGen,
         holder' \in Op \cup {None},
         session' <= made', made <= made', s.gen <= made',
         s.pc \in Busy \cup {"save", "grace"} => s.gen # NoGen,
         s.pc \in {"clear", "insert"} => made' < MaxGen,
         made' = made \/ holder = o,
         session' # NoGen => holder' = None,
         Holds(s) <=> holder' = o,
         \/ holder' = holder
         \/ holder' = o /\ holder = None
         \/ holder' = None /\ holder = o
  PROVE  Counted' /\ IdHeld' /\ op' \in [Op -> OpState]
<1> USE SessionAssumption
<1>1. op \in [Op -> OpState] /\ made \in 0..MaxGen BY DEF Shape, TypeOK
<1>2. op' \in [Op -> OpState] BY <1>1
<1>3. /\ op'[o] = s
      /\ \A p \in Op \ {o} : op'[p] = op[p]
  BY <1>1
<1>4. \A p \in Op : op[p].gen \in 0..MaxGen /\ s.gen \in 0..MaxGen
  BY <1>1 DEF OpState
<1>5. Counted'
  <2>1. \A p \in Op : op'[p].gen <= made'
    BY <1>1, <1>3, <1>4 DEF Shape, Counted
  <2>2. \A p \in Op : op'[p].pc \in Busy \cup {"save", "grace"} =>
                        op'[p].gen # NoGen
    BY <1>3 DEF Shape, Counted
  <2>3. \A p \in Op : op'[p].pc \in {"clear", "insert"} => made' < MaxGen
    BY <1>3 DEF Shape, Counted, IdHeld
  <2> QED BY <2>1, <2>2, <2>3 DEF Counted
<1>6. \A p \in Op : holder' = p <=> Holds(op'[p])
  BY <1>3 DEF Shape, IdHeld, Holds, Busy
<1>7. IdHeld' BY <1>6 DEF IdHeld, Holds, Busy
<1> QED BY <1>2, <1>5, <1>7

LEMMA RegistryOp ==
  ASSUME Shape, NEW o \in Op, OpNext(o)
  PROVE  RegistryOK'
<1> USE SessionAssumption
<1>1. /\ Idle \in OpState /\ Idle.pc = "idle" /\ Idle.gen = NoGen
      /\ ~Holds(Idle)
  BY DEF Idle, OpState, NoGen, Holds, Busy
<1>2. op[o] \in OpState /\ op \in [Op -> OpState] BY DEF Shape, TypeOK
<1>3. /\ session \in 0..MaxGen /\ made \in 0..MaxGen /\ session <= made
      /\ holder \in Op \cup {None} /\ o # None /\ MaxGen \in Nat
      /\ cut \subseteq Gen /\ file \in [by: SUBSET Gen, opener: 0..MaxGen]
      /\ op[o].gen <= made /\ op[o].gen \in 0..MaxGen
      /\ made <= made /\ NoGen <= made /\ NoGen \in 0..MaxGen
  BY DEF Shape, TypeOK, Counted, OpState, NoGen
<1>4. NoFile \in [by: SUBSET Gen, opener: 0..MaxGen] BY <1>3 DEF NoFile, NoGen
<1>5. holder = o <=> Holds(op[o]) BY DEF Shape, IdHeld, Holds, Busy
<1>6. session # NoGen => holder = None BY DEF Shape, IdHeld
<1>7. ASSUME NEW pc \in {"clear", "wait", "retire"}
      PROVE  LET s == [Idle EXCEPT !.pc = pc]
             IN  s \in OpState /\ s.pc = pc /\ s.gen = NoGen
  BY <1>1 DEF OpState
<1>8. CASE Create(o)
  <2>1. PICK s \in OpState :
           /\ op' = [op EXCEPT ![o] = s] /\ s.gen = NoGen
           /\ \/ s.pc = "clear" /\ holder = None /\ holder' = o
              \/ s.pc = "wait" /\ UNCHANGED holder
    BY <1>7, <1>8 DEF Create, OpTo
  <2>2. UNCHANGED <<session, made, file, cut>> /\ made < MaxGen
        /\ session = NoGen /\ op[o].pc \in {"idle", "wait"}
    BY <1>8 DEF Create, history
  <2>3. Holds(s) <=> holder' = o
    BY <1>3, <1>5, <2>1, <2>2 DEF Holds, Busy
  <2>4. Counted' /\ IdHeld' /\ op' \in [Op -> OpState]
    BY <1>3, <1>6, <2>1, <2>2, <2>3, RegistryStep DEF Busy, NoGen
  <2> QED BY <1>3, <2>1, <2>2, <2>4 DEF RegistryOK
<1>9. ASSUME op' = [op EXCEPT ![o] = Idle], UNCHANGED <<session, made, cut>>,
             file' \in {file, NoFile},
             holder' = (IF Holds(op[o]) THEN None ELSE holder)
      PROVE  RegistryOK'
  <2>1. Counted' /\ IdHeld' /\ op' \in [Op -> OpState]
    BY <1>1, <1>3, <1>5, <1>6, <1>9, RegistryStep DEF Busy, NoGen
  <2> QED BY <1>3, <1>4, <1>9, <2>1 DEF RegistryOK
<1>10. CASE CreateRefused(o)
  <2>1. ~Holds(op[o]) BY <1>10 DEF CreateRefused, Holds, Busy
  <2> QED BY <1>9, <1>10, <2>1 DEF CreateRefused, registry, history, OpTo
<1>11. CASE Cleared(o)
  <2> DEFINE s == [op[o] EXCEPT !.pc = "insert"]
  <2>1. s \in OpState /\ s.pc = "insert" /\ s.gen = op[o].gen
    BY <1>2 DEF OpState
  <2> HIDE DEF s
  <2>2. op' = [op EXCEPT ![o] = s] BY <1>11 DEF s, Cleared, OpTo
  <2>3. UNCHANGED <<registry, cut>> /\ file' = NoFile /\ op[o].pc = "clear"
    BY <1>11 DEF Cleared, history
  <2>4. Holds(s) <=> holder' = o
    BY <1>5, <2>1, <2>3 DEF Holds, registry
  <2>5. made < MaxGen BY <2>3 DEF Shape, Counted
  <2>6. Counted' /\ IdHeld' /\ op' \in [Op -> OpState]
    BY <1>3, <1>6, <2>1, <2>2, <2>3, <2>4, <2>5, RegistryStep
    DEF Busy, registry
  <2> QED BY <1>3, <1>4, <2>3, <2>6 DEF RegistryOK, registry
<1>12. CASE CreateFails(o)
  <2>1. Holds(op[o]) BY <1>12 DEF CreateFails, Holds
  <2>2. holder' = None BY <1>5, <1>12, <2>1 DEF CreateFails, Release
  <2> QED BY <1>9, <1>12, <2>1, <2>2 DEF CreateFails, history, OpTo
<1>13. CASE Inserted(o)
  <2>1. op[o].pc = "insert" /\ Holds(op[o]) /\ holder = o
    BY <1>5, <1>13 DEF Inserted, Holds
  <2>2. made < MaxGen BY <2>1 DEF Shape, Counted
  <2>3. /\ session' = made + 1 /\ made' = made + 1 /\ holder' = None
        /\ UNCHANGED <<file, cut>>
    BY <1>13, <2>1 DEF Inserted, Release
  <2>4. made + 1 \in 0..MaxGen /\ made <= made + 1 /\ NoGen <= made + 1
        /\ made + 1 # NoGen
    BY <1>3, <2>2 DEF NoGen
  <2> DEFINE p == [op[o] EXCEPT !.pc = "save", !.gen = made + 1]
  <2>5. p \in OpState /\ p.pc = "save" /\ p.gen = made + 1
    BY <1>2, <2>4 DEF OpState
  <2>6. op' = [op EXCEPT ![o] = Idle] \/ op' = [op EXCEPT ![o] = p]
    BY <1>13 DEF Inserted, OpTo
  <2> HIDE DEF p
  <2>7. ~Holds(p) BY <2>5 DEF Holds, Busy
  <2>8. PICK s \in OpState : /\ op' = [op EXCEPT ![o] = s]
                             /\ s.pc \in {"idle", "save"} /\ ~Holds(s)
                             /\ s.gen \in {NoGen, made + 1}
                             /\ s.pc = "save" => s.gen # NoGen
    BY <1>1, <2>4, <2>5, <2>6, <2>7
  <2>9. made + 1 <= made + 1 BY <1>3
  <2>10. Counted' /\ IdHeld' /\ op' \in [Op -> OpState]
    BY <1>3, <2>1, <2>3, <2>4, <2>8, <2>9, RegistryStep DEF Busy
  <2> QED BY <1>3, <2>3, <2>4, <2>10 DEF RegistryOK
<1>14. CASE Saved(o)
  <2>1. ~Holds(op[o]) BY <1>14 DEF Saved, Holds, Busy
  <2> QED BY <1>9, <1>14, <2>1 DEF Saved, registry, OpTo
<1>15. CASE WorkerEmpty(o)
  <2> DEFINE s == [Idle EXCEPT !.pc = "grace", !.gen = session]
  <2>1. s \in OpState /\ s.pc = "grace" /\ s.gen = session
    BY <1>1, <1>3 DEF OpState
  <2> HIDE DEF s
  <2>2. op' = [op EXCEPT ![o] = s] BY <1>15 DEF s, WorkerEmpty, OpTo
  <2>3. UNCHANGED <<registry, file, cut>> /\ session # NoGen
    BY <1>15 DEF WorkerEmpty, history
  <2>4. ~Holds(s) /\ ~Holds(op[o])
    BY <1>15, <2>1 DEF Holds, Busy, WorkerEmpty
  <2>5. Counted' /\ IdHeld' /\ op' \in [Op -> OpState]
    BY <1>3, <1>5, <1>6, <2>1, <2>2, <2>3, <2>4, RegistryStep
    DEF Busy, registry
  <2> QED BY <1>3, <2>3, <2>5 DEF RegistryOK, registry
<1>16. CASE Retired(o)
  <2>1. Holds(op[o]) BY <1>16 DEF Retired, Holds
  <2> QED BY <1>9, <1>16, <2>1 DEF Retired, history, OpTo
<1>17. CASE StartSession(o)
  <2>1. UNCHANGED <<registry, op, file, cut>> BY <1>17 DEF StartSession
  <2>2. Counted' /\ IdHeld'
    BY <2>1 DEF Shape, Counted, IdHeld, registry
  <2> QED BY <1>2, <1>3, <2>1, <2>2 DEF RegistryOK, registry
<1>18. ASSUME OpTo(o, [Idle EXCEPT !.pc = "retire"]),
              ~Holds(op[o]), holder = None, holder' = o, session' = NoGen,
              UNCHANGED <<made, file, cut>>
       PROVE  RegistryOK'
  <2>1. PICK s \in OpState : /\ op' = [op EXCEPT ![o] = s]
                             /\ s.pc = "retire" /\ s.gen = NoGen
    BY <1>7, <1>18 DEF OpTo
  <2>2. Holds(s) BY <2>1 DEF Holds
  <2>3. Counted' /\ IdHeld' /\ op' \in [Op -> OpState]
    BY <1>3, <1>18, <2>1, <2>2, RegistryStep DEF Busy, NoGen
  <2> QED BY <1>3, <1>18, <2>3 DEF RegistryOK, NoGen
<1>19. CASE Ending(o)
  <2>1. PICK g \in Gen, why \in {"delete", "stop", "restart"} :
           Cancels(o, g, why) \/ Ends(o, g, why)
    BY <1>19 DEF Ending
  <2>2. UNCHANGED <<made, file, cut>>
    BY <2>1 DEF Cancels, Ends, Claims, history, registry
  <2>3. \/ Claims(o, g, why)
        \/ /\ op[o].pc \in Busy /\ op[o].gen = g /\ op[o].why = why
           /\ UNCHANGED registry
    BY <2>1 DEF Cancels, Ends, Busy
  <2>4. PICK s \in OpState :
           /\ op' = [op EXCEPT ![o] = s]
           /\ \/ s.pc \in Busy /\ s.gen = g /\ s.why = why
              \/ s.pc = "retire" /\ why = "delete" /\ s.gen = g
              \/ s = Idle /\ why # "delete"
    BY <2>1 DEF Cancels, Ends, EndsTo, Left, Busy
  <2>5. Holds(s) <=> why = "delete" BY <1>1, <2>4 DEF Holds, Busy
  <2>6. CASE Claims(o, g, why)
    <3>1. g = session /\ session # NoGen /\ holder = None /\ ~Holds(op[o])
      BY <1>3, <1>6, <2>6 DEF Claims, Holds, Busy, Gen, NoGen
    <3>2. s.gen <= made /\ (s.pc \in Busy \cup {"save", "grace"} =>
                              s.gen # NoGen)
          /\ s.pc \notin {"clear", "insert"}
      BY <1>1, <1>3, <2>4, <3>1 DEF Busy, NoGen
    <3>3. Counted' /\ IdHeld' /\ op' \in [Op -> OpState]
      <4>1. CASE why = "delete"
        <5>1. session' = NoGen /\ holder' = o BY <2>6, <4>1 DEF Claims
        <5> QED
          BY <1>3, <2>2, <2>4, <2>5, <3>1, <3>2, <4>1, <5>1, RegistryStep
          DEF NoGen
      <4>2. CASE why # "delete"
        <5>1. session' = session /\ holder' = holder
          BY <2>6, <4>2 DEF Claims
        <5> QED
          BY <1>3, <2>2, <2>4, <2>5, <3>1, <3>2, <4>2, <5>1, RegistryStep
      <4> QED BY <4>1, <4>2
    <3> QED BY <1>3, <2>2, <2>6, <3>3 DEF RegistryOK, Claims, NoGen
  <2>7. CASE /\ op[o].pc \in Busy /\ op[o].gen = g /\ op[o].why = why
             /\ UNCHANGED registry
    <3>1. Holds(op[o]) <=> why = "delete" BY <2>7 DEF Holds, Busy
    <3>2. g # NoGen BY <2>7 DEF Shape, Counted
    <3>3. s.gen <= made /\ (s.pc \in Busy \cup {"save", "grace"} =>
                              s.gen # NoGen)
          /\ s.pc \notin {"clear", "insert"}
      BY <1>1, <1>3, <2>4, <2>7, <3>2 DEF Busy, NoGen
    <3>4. Counted' /\ IdHeld' /\ op' \in [Op -> OpState]
      BY <1>3, <1>5, <1>6, <2>2, <2>4, <2>5, <2>7, <3>1, <3>3, RegistryStep
      DEF registry
    <3> QED BY <1>3, <2>2, <2>7, <3>4 DEF RegistryOK, registry
  <2> QED BY <2>3, <2>6, <2>7
<1>20. CASE Delete(o)
  <2>1. CASE session # NoGen /\ Remove(o)
    <3>1. op[o].pc \in {"idle", "grace"} BY <1>20 DEF Delete
    <3> QED BY <1>19, <2>1, <3>1, RemoveEnds
  <2>2. CASE /\ session = NoGen
             /\ holder' = o /\ OpTo(o, [Idle EXCEPT !.pc = "retire"])
             /\ UNCHANGED <<session, made, rt, loop, file, history>>
    <3>1. ~Holds(op[o]) /\ holder = None
      BY <1>20 DEF Delete, Holds, Busy
    <3> QED BY <1>18, <2>2, <3>1 DEF history
  <2> QED BY <1>20, <2>1, <2>2 DEF Delete
<1>21. CASE GraceOver(o)
  <2>1. CASE session = op[o].gen /\ Remove(o)
    <3>1. op[o].pc \in {"idle", "grace"} BY <1>21 DEF GraceOver
    <3>2. session # NoGen BY <1>21, <2>1 DEF GraceOver, Shape, Counted
    <3> QED BY <1>19, <2>1, <3>1, <3>2, RemoveEnds
  <2>2. CASE OpTo(o, Idle) /\ UNCHANGED <<registry, rt, loop, file, history>>
    <3>1. ~Holds(op[o]) BY <1>21 DEF GraceOver, Holds, Busy
    <3> QED BY <1>9, <2>2, <3>1 DEF registry, history, OpTo
  <2> QED BY <1>21, <2>1, <2>2 DEF GraceOver
<1>22. CASE Flushed(o)
  <2>1. op' = LoggerDone(op[o].gen) /\ UNCHANGED <<registry, cut>>
    BY <1>22 DEF Flushed, history
  <2>2. \A p \in Op : LET s == [op[p] EXCEPT !.pc = "closed"]
                      IN  /\ s \in OpState /\ s.pc = "closed"
                          /\ s.gen = op[p].gen /\ s.why = op[p].why
    BY <1>2 DEF OpState
  <2>3. \A p \in Op : /\ op'[p] \in OpState
                      /\ op'[p].gen = op[p].gen /\ op'[p].why = op[p].why
                      /\ \/ op'[p].pc = op[p].pc
                         \/ op[p].pc = "flush" /\ op'[p].pc = "closed"
    BY <1>2, <2>1, <2>2 DEF LoggerDone
  <2>4. op' \in [Op -> OpState] BY <2>1, <2>3 DEF LoggerDone
  <2>5. Counted' BY <2>1, <2>3 DEF Shape, Counted, registry, Busy
  <2>6. IdHeld' BY <2>1, <2>3 DEF Shape, IdHeld, registry
  <2>7. file' \in [by: SUBSET Gen, opener: 0..MaxGen]
    <3>1. op[o].gen \in Gen
      BY <1>3, <1>22 DEF Flushed, Shape, Counted, Busy, Gen, NoGen
    <3>2. file' = file \/ file' = Written(op[o].gen)
      BY <1>22 DEF Flushed, LoggerStops
    <3> QED BY <1>3, <3>1, <3>2 DEF Written
  <2> QED BY <1>3, <2>1, <2>4, <2>5, <2>6, <2>7 DEF RegistryOK, registry
<1>23. CASE TimesOut(o)
  <2>1. UNCHANGED <<registry, file>> /\ op[o].why = "delete"
        /\ op[o].pc \in {"join", "flush", "drop"}
    BY <1>23 DEF TimesOut
  <2>2. op[o].gen # NoGen BY <2>1 DEF Shape, Counted, Busy
  <2> DEFINE p == [op[o] EXCEPT !.late = TRUE]
             q == [op[o] EXCEPT !.pc = "retire", !.task = None]
  <2>3. /\ p \in OpState /\ p.pc = op[o].pc /\ p.gen = op[o].gen
        /\ p.why = op[o].why
    BY <1>2 DEF OpState
  <2>4. q \in OpState /\ q.pc = "retire" /\ q.gen = op[o].gen
    BY <1>2 DEF OpState
  <2>5. op' = [op EXCEPT ![o] = p] \/ op' = [op EXCEPT ![o] = q]
    BY <1>23 DEF TimesOut, OpTo
  <2> HIDE DEF p, q
  <2>6. Holds(p) /\ Holds(q) /\ Holds(op[o])
    BY <2>1, <2>3, <2>4 DEF Holds, Busy
  <2>7. PICK s \in OpState : /\ op' = [op EXCEPT ![o] = s] /\ Holds(s)
                             /\ s.gen = op[o].gen
                             /\ s.pc \in {"join", "flush", "drop", "retire"}
    BY <2>1, <2>3, <2>4, <2>5, <2>6
  <2>8. Counted' /\ IdHeld' /\ op' \in [Op -> OpState]
    BY <1>3, <1>5, <1>6, <2>1, <2>2, <2>6, <2>7, RegistryStep DEF registry
  <2>9. cut' \subseteq Gen
    <3>1. op[o].gen \in Gen BY <1>3, <2>2 DEF Gen, NoGen
    <3> QED BY <1>3, <1>23, <3>1 DEF TimesOut, history
  <2> QED BY <1>3, <2>1, <2>8, <2>9 DEF RegistryOK, registry
<1> QED
  BY <1>8, <1>10, <1>11, <1>12, <1>13, <1>14, <1>15, <1>16, <1>17, <1>19,
     <1>20, <1>21, <1>22, <1>23, StopEnds, GoesOnEnds
  DEF OpNext

LEMMA RegistryLoop ==
  ASSUME Shape, NEW l \in Loop, LoopNext(l)
  PROVE  RegistryOK' /\ UNCHANGED LoopVars
<1>1. UNCHANGED LoopVars
  BY DEF LoopNext, Begin, Built, Opened, Record, Retry, GiveUp,
         ConnectionEnds, Closed, Dropped, Hit
<1>2. loop[l].pc # "done"
  BY DEF LoopNext, Begin, Built, Opened, Record, Retry, GiveUp,
         ConnectionEnds, Closed, Dropped, Hit, Shape, Placed, Over
<1>3. loop[l].gen \in Gen /\ loop[l].gen \in 0..MaxGen
  BY <1>2, SessionAssumption DEF Shape, TypeOK, Placed, Gen
<1>4. \/ file' = file \/ file' = OpenedBy(loop[l].gen)
      \/ file' = Written(loop[l].gen)
  BY DEF LoopNext, Begin, Built, Opened, Record, Retry, GiveUp,
         ConnectionEnds, Closed, Dropped, Hit, Fails, LoggerStops
<1>5. file' \in [by: SUBSET Gen, opener: 0..MaxGen]
  BY <1>3, <1>4 DEF Shape, TypeOK, OpenedBy, Written
<1>6. Counted' /\ IdHeld'
  BY <1>1 DEF Shape, Counted, IdHeld, LoopVars, registry
<1> QED
  BY <1>1, <1>5, <1>6
  DEF RegistryOK, Shape, TypeOK, LoopVars, registry, history

-----------------------------------------------------------------------------
(* Loops and tasks *)

RuntimeOK ==
  /\ rt \in [Gen -> Runtime]
  /\ loop \in [Loop -> LoopState]
  /\ stray \subseteq Gen
  /\ Placed

\* What a start makes of the runtime and of an unused loop.
Starts(g, q, l, s, r) ==
  /\ ~Alive(q.task) /\ Unused(l)
  /\ s.pc = "new" /\ s.gen = g /\ ~s.hit /\ s.then = "again"
  /\ r.task = l /\ r.conn = q.conn /\ r.log = q.log /\ ~r.stop
  /\ loop' = [loop EXCEPT ![l] = s]
  /\ rt' = [rt EXCEPT ![g] = r]
  /\ stray' = IF g # session' \/ Stopping(g) THEN stray \cup {g} ELSE stray

LEMMA StartForm ==
  ASSUME NEW g \in Gen, NEW q \in Runtime, Start(g, q)
  PROVE  \/ /\ Alive(q.task)
            /\ rt' = [rt EXCEPT ![g] = q]
            /\ UNCHANGED <<loop, stray>>
         \/ \E l \in Loop, s \in LoopState, r \in Runtime :
              Starts(g, q, l, s, r)
<1> USE SessionAssumption
<1>1. CASE Alive(q.task) BY <1>1 DEF Start
<1>2. CASE ~Alive(q.task)
  <2>1. PICK l \in Loop :
           /\ Unused(l)
           /\ rt' = [rt EXCEPT ![g] = [q EXCEPT !.task = l, !.stop = FALSE,
                                                !.down = FALSE]]
           /\ loop' = [loop EXCEPT ![l] = [Over EXCEPT !.pc = "new",
                                                       !.gen = g]]
    BY <1>2 DEF Start
  <2> DEFINE s == [Over EXCEPT !.pc = "new", !.gen = g]
             r == [q EXCEPT !.task = l, !.stop = FALSE, !.down = FALSE]
  <2>2. Over \in LoopState /\ ~Over.hit /\ Over.then = "again"
    BY DEF Over, LoopState, NoGen
  <2>3. /\ s \in LoopState /\ s.pc = "new" /\ s.gen = g /\ ~s.hit
        /\ s.then = "again"
    <3>1. g \in 0..MaxGen BY DEF Gen
    <3> QED BY <2>2, <3>1 DEF LoopState
  <2>4. /\ r \in Runtime /\ r.task = l /\ r.conn = q.conn /\ r.log = q.log
        /\ ~r.stop
    BY DEF Runtime
  <2>5. loop' = [loop EXCEPT ![l] = s] /\ rt' = [rt EXCEPT ![g] = r]
    BY <2>1
  <2>6. stray' = IF g # session' \/ Stopping(g) THEN stray \cup {g} ELSE stray
    BY <1>2 DEF Start
  <2> HIDE DEF s, r
  <2>7. Starts(g, q, l, s, r)
    BY <1>2, <2>1, <2>3, <2>4, <2>5, <2>6 DEF Starts
  <2> QED BY <2>3, <2>4, <2>7
<1> QED BY <1>1, <1>2

LEMMA PlacedMoves ==
  ASSUME Shape, NEW l \in Loop, Moves(l), UNCHANGED LoopVars
  PROVE  RuntimeOK'
<1> USE SessionAssumption
<1>1. PICK s \in LoopState, r \in Runtime : MovesTo(l, s, r) BY DEF Moves
<1>2. loop[l].pc # "done" /\ loop[l].gen \in 1..made /\ loop[l].gen \in Gen
  BY DEF Moves, Shape, TypeOK, Placed, Gen
<1>3. /\ loop \in [Loop -> LoopState] /\ rt \in [Gen -> Runtime]
      /\ stray \subseteq Gen /\ made \in 0..MaxGen
  BY DEF Shape, TypeOK
<1>4. /\ loop' = [loop EXCEPT ![l] = s] /\ rt' = [rt EXCEPT ![loop[l].gen] = r]
      /\ r.task = rt[loop[l].gen].task
      /\ s = Over \/ (s.gen = loop[l].gen /\ s.pc # "done")
  BY <1>1 DEF MovesTo, Keeps, Becomes, Own
<1>5. /\ loop' \in [Loop -> LoopState] /\ rt' \in [Gen -> Runtime]
      /\ stray' \subseteq Gen /\ made' = made /\ op' = op
  BY <1>3, <1>4 DEF LoopVars, registry, history
<1>6. \A k \in Loop : \/ k = l /\ loop'[k] = s
                      \/ k # l /\ loop'[k] = loop[k]
  BY <1>3, <1>4
<1>7. \A g \in Gen : rt'[g].task = rt[g].task BY <1>2, <1>3, <1>4
<1>8. \A k \in Loop : IF loop'[k].pc = "done" THEN loop'[k] = Over
                      ELSE loop'[k].gen \in 1..made'
  <2>1. Over.pc = "done" BY DEF Over
  <2>2. \A k \in Loop : IF loop[k].pc = "done" THEN loop[k] = Over
                        ELSE loop[k].gen \in 1..made
    BY DEF Shape, Placed
  <2>3. loop'[l] = Over \/ (loop'[l].gen \in 1..made /\ loop'[l].pc # "done")
    BY <1>2, <1>4, <1>6
  <2> QED BY <1>5, <1>6, <2>1, <2>2, <2>3
<1>9. \A g \in Gen : rt[g].task \in Loop \cup {None}
  BY <1>3 DEF Runtime
<1>10. \A p \in Op : op[p].task \in Loop \cup {None}
  BY DEF Shape, TypeOK, OpState
<1>11. \A k \in Loop : Alive(k)' => Alive(k) /\ loop'[k].gen = loop[k].gen
  BY <1>2, <1>4, <1>6 DEF Alive, Over
<1>12. ~Alive(None)' BY DEF Alive
<1>13. \A g \in Gen : Alive(rt[g].task)' => loop'[rt'[g].task].gen = g
  BY <1>7, <1>9, <1>11, <1>12 DEF Shape, Placed, Alive
<1>14. \A p \in Op : op'[p].pc = "join" /\ Alive(op[p].task)' =>
                       loop'[op'[p].task].gen = op'[p].gen
  BY <1>5, <1>10, <1>11, <1>12 DEF Shape, Placed, Alive
<1>15. \A g \in Gen : g > made' => rt'[g] = Fresh
  <2> SUFFICES ASSUME NEW g \in Gen, g > made PROVE rt'[g] = Fresh
    BY <1>5
  <2>1. g # loop[l].gen BY <1>2, <1>3 DEF Gen
  <2> QED BY <1>3, <1>4, <2>1 DEF Shape, Placed
<1> QED BY <1>5, <1>8, <1>13, <1>14, <1>15 DEF RuntimeOK, Placed

LEMMA HitLoop ==
  ASSUME loop \in [Loop -> LoopState], NEW k \in Loop,
         loop' = [loop EXCEPT ![k].hit = TRUE]
  PROVE  /\ loop' \in [Loop -> LoopState]
         /\ \A l \in Loop \ {k} : loop'[l] = loop[l]
         /\ loop'[k].pc = loop[k].pc /\ loop'[k].gen = loop[k].gen
         /\ loop'[k].then = loop[k].then
<1> DEFINE s == [loop[k] EXCEPT !.hit = TRUE]
<1>1. /\ s \in LoopState /\ s.pc = loop[k].pc /\ s.gen = loop[k].gen
      /\ s.then = loop[k].then
  BY DEF LoopState
<1>2. loop' = [loop EXCEPT ![k] = s] OBVIOUS
<1> HIDE DEF s
<1> QED BY <1>1, <1>2

\* A step that starts no loop: tasks are kept or forgotten, and whoever begins
\* to wait waits for the task of its session.
LEMMA PlacedKept ==
  ASSUME Shape, made <= made', made' \in 0..MaxGen,
         rt' \in [Gen -> Runtime], loop' \in [Loop -> LoopState],
         stray' \subseteq Gen,
         \A l \in Loop :
           \/ loop'[l] = loop[l]
           \/ /\ loop[l].pc # "done"
              /\ loop'[l].pc = loop[l].pc /\ loop'[l].gen = loop[l].gen,
         \A g \in Gen : rt'[g].task \in {rt[g].task, None},
         \A g \in Gen : g > made' => rt'[g] = rt[g],
         \A p \in Op : op'[p].pc = "join" =>
           \/ /\ op[p].pc = "join"
              /\ op'[p].task = op[p].task /\ op'[p].gen = op[p].gen
           \/ op'[p].gen \in Gen /\ op'[p].task = rt[op'[p].gen].task
  PROVE  RuntimeOK'
<1> USE SessionAssumption
<1>1. /\ loop \in [Loop -> LoopState] /\ rt \in [Gen -> Runtime]
      /\ made \in 0..MaxGen
  BY DEF Shape, TypeOK
<1>2. \A g \in Gen : rt[g].task \in Loop \cup {None} BY <1>1 DEF Runtime
<1>3. \A p \in Op : op[p].task \in Loop \cup {None}
  BY DEF Shape, TypeOK, OpState
<1>4. \A l \in Loop : IF loop'[l].pc = "done" THEN loop'[l] = Over
                      ELSE loop'[l].gen \in 1..made'
  <2> SUFFICES ASSUME NEW l \in Loop
               PROVE  IF loop'[l].pc = "done" THEN loop'[l] = Over
                      ELSE loop'[l].gen \in 1..made'
    OBVIOUS
  <2>1. loop[l].gen \in 1..made => loop[l].gen \in 1..made' BY <1>1
  <2> QED BY <2>1 DEF Shape, Placed
<1>5. \A l \in Loop : loop'[l].pc = loop[l].pc /\ loop'[l].gen = loop[l].gen
  OBVIOUS
<1>6. \A k \in Loop \cup {None} : Alive(k)' <=> Alive(k) BY <1>5 DEF Alive
<1>7. \A g \in Gen : Alive(rt[g].task)' => loop'[rt'[g].task].gen = g
  BY <1>2, <1>5, <1>6 DEF Shape, Placed, Alive
<1>8. \A p \in Op : op'[p].pc = "join" /\ Alive(op[p].task)' =>
                      loop'[op'[p].task].gen = op'[p].gen
  BY <1>2, <1>3, <1>5, <1>6 DEF Shape, Placed, Alive
<1>9. \A g \in Gen : g > made' => rt'[g] = Fresh
  <2> SUFFICES ASSUME NEW g \in Gen, g > made' PROVE rt[g] = Fresh
    OBVIOUS
  <2>1. g > made BY <1>1 DEF Gen
  <2> QED BY <2>1 DEF Shape, Placed
<1> QED BY <1>4, <1>7, <1>8, <1>9 DEF RuntimeOK, Placed

LEMMA PlacedStart ==
  ASSUME Shape, NEW g \in Gen, g <= made', made <= made', made' \in 0..MaxGen,
         NEW q \in Runtime, q.task \in {rt[g].task, None}, Start(g, q),
         \A p \in Op : op'[p].pc = "join" => op'[p] = op[p]
  PROVE  RuntimeOK'
<1> USE SessionAssumption
<1>1. /\ loop \in [Loop -> LoopState] /\ rt \in [Gen -> Runtime]
      /\ stray \subseteq Gen /\ made \in 0..MaxGen
      /\ \A p \in Op : op[p].task \in Loop \cup {None}
      /\ \A f \in Gen : rt[f].task \in Loop \cup {None}
  BY DEF Shape, TypeOK, OpState, Runtime
<1>2. CASE /\ Alive(q.task)
           /\ rt' = [rt EXCEPT ![g] = q]
           /\ UNCHANGED <<loop, stray>>
  <2>1. rt' \in [Gen -> Runtime] BY <1>1, <1>2
  <2>2. \A f \in Gen : rt'[f].task \in {rt[f].task, None} BY <1>1, <1>2
  <2>3. \A f \in Gen : f > made' => rt'[f] = rt[f]
    <3> SUFFICES ASSUME NEW f \in Gen, f > made' PROVE rt'[f] = rt[f]
      OBVIOUS
    <3>1. f # g BY DEF Gen
    <3> QED BY <1>1, <1>2, <3>1
  <2> QED BY <1>1, <1>2, <2>1, <2>2, <2>3, PlacedKept
<1>3. ASSUME NEW l \in Loop, NEW s \in LoopState, NEW r \in Runtime,
             Starts(g, q, l, s, r)
      PROVE  RuntimeOK'
  <2>1. /\ loop' = [loop EXCEPT ![l] = s] /\ rt' = [rt EXCEPT ![g] = r]
        /\ s.pc = "new" /\ s.gen = g /\ r.task = l
        /\ stray' \in {stray, stray \cup {g}}
    BY <1>3 DEF Starts
  <2>2. /\ loop[l].pc = "done"
        /\ \A p \in Op : op[p].task # l
        /\ \A f \in Gen : rt[f].task # l
    BY <1>3 DEF Starts, Unused
  <2>3. /\ loop' \in [Loop -> LoopState] /\ rt' \in [Gen -> Runtime]
        /\ stray' \subseteq Gen
    BY <1>1, <2>1
  <2>4. \A k \in Loop \ {l} : loop'[k] = loop[k] BY <1>1, <2>1
  <2>5. loop'[l].pc = "new" /\ loop'[l].gen = g BY <1>1, <2>1
  <2>6. g \in 1..made' BY DEF Gen
  <2>7. \A k \in Loop : IF loop'[k].pc = "done" THEN loop'[k] = Over
                        ELSE loop'[k].gen \in 1..made'
    <3> SUFFICES ASSUME NEW k \in Loop \ {l}
                 PROVE  IF loop'[k].pc = "done" THEN loop'[k] = Over
                        ELSE loop'[k].gen \in 1..made'
      BY <2>5, <2>6
    <3>1. loop[k].gen \in 1..made => loop[k].gen \in 1..made' BY <1>1
    <3> QED BY <2>4, <3>1 DEF Shape, Placed
  <2>8. /\ rt'[g].task = l
        /\ \A f \in Gen \ {g} : rt'[f] = rt[f]
    BY <1>1, <2>1
  <2>9. \A k \in (Loop \cup {None}) \ {l} : Alive(k)' <=> Alive(k)
    BY <2>4 DEF Alive
  <2>10. \A f \in Gen : Alive(rt[f].task)' => loop'[rt'[f].task].gen = f
    <3> SUFFICES ASSUME NEW f \in Gen \ {g}, Alive(rt[f].task)'
                 PROVE  loop'[rt'[f].task].gen = f
      BY <2>5, <2>8
    <3>1. rt'[f].task = rt[f].task /\ rt[f].task \in (Loop \cup {None}) \ {l}
      BY <1>1, <2>2, <2>8
    <3>2. Alive(rt[f].task) /\ rt[f].task \in Loop \ {l}
      BY <2>9, <3>1 DEF Alive
    <3> QED BY <2>4, <3>1, <3>2 DEF Shape, Placed
  <2>11. \A p \in Op : op'[p].pc = "join" /\ Alive(op[p].task)' =>
                         loop'[op'[p].task].gen = op'[p].gen
    <3> SUFFICES ASSUME NEW p \in Op, op'[p].pc = "join", Alive(op[p].task)'
                 PROVE  loop'[op'[p].task].gen = op'[p].gen
      OBVIOUS
    <3>1. op'[p] = op[p] /\ op[p].task \in (Loop \cup {None}) \ {l}
      BY <1>1, <2>2
    <3>2. Alive(op[p].task) /\ op[p].task \in Loop \ {l}
      BY <2>9, <3>1 DEF Alive
    <3> QED BY <2>4, <3>1, <3>2 DEF Shape, Placed
  <2>12. \A f \in Gen : f > made' => rt'[f] = Fresh
    <3> SUFFICES ASSUME NEW f \in Gen, f > made' PROVE rt'[f] = Fresh
      OBVIOUS
    <3>1. f # g /\ f > made BY <1>1 DEF Gen
    <3> QED BY <2>8, <3>1 DEF Shape, Placed
  <2> QED BY <2>3, <2>7, <2>10, <2>11, <2>12 DEF RuntimeOK, Placed
<1> QED BY <1>2, <1>3, StartForm

LEMMA PlacedOp ==
  ASSUME Shape, NEW o \in Op, OpKinds(o), RegistryOK'
  PROVE  RuntimeOK'
<1> USE SessionAssumption
<1>1. /\ loop \in [Loop -> LoopState] /\ rt \in [Gen -> Runtime]
      /\ stray \subseteq Gen /\ made \in 0..MaxGen /\ made <= made
      /\ op \in [Op -> OpState] /\ made' \in 0..MaxGen
  BY DEF Shape, TypeOK, RegistryOK
<1>2. CASE Waits(o)
  <2>1. PICK s \in OpState : op' = [op EXCEPT ![o] = s] /\ s.pc \notin Busy
    BY <1>2 DEF Waits
  <2>2. \A p \in Op : op'[p].pc = "join" => op'[p] = op[p]
    BY <1>1, <2>1 DEF Busy
  <2>3. made <= made' /\ UNCHANGED <<rt, loop, stray>>
    BY <1>2 DEF Waits, history
  <2> QED BY <1>1, <2>2, <2>3, PlacedKept
<1>3. ASSUME NEW g \in Gen, Launches(o, g) PROVE RuntimeOK'
  <2>1. \A p \in Op : op'[p].pc = "join" => op'[p] = op[p]
    BY <1>1, <1>3 DEF Launches, Idle
  <2>2. rt[g] \in Runtime BY <1>1
  <2> QED BY <1>1, <1>3, <2>1, <2>2, PlacedStart DEF Launches
<1>4. ASSUME NEW g \in Gen, NEW why, Cancels(o, g, why) PROVE RuntimeOK'
  <2>1. UNCHANGED <<made, stray>> BY <1>4 DEF Cancels, Claims, history
  <2>2. rt' = [rt EXCEPT ![g] = [rt[g] EXCEPT !.stop = TRUE]]
    BY <1>4 DEF Cancels
  <2>3. rt[g] \in Runtime /\ [rt[g] EXCEPT !.stop = TRUE] \in Runtime
        /\ [rt[g] EXCEPT !.stop = TRUE].task = rt[g].task
    BY <1>1 DEF Runtime
  <2>4. /\ rt' \in [Gen -> Runtime]
        /\ \A f \in Gen : rt'[f].task \in {rt[f].task, None}
        /\ \A f \in Gen \ {g} : rt'[f] = rt[f]
    BY <1>1, <2>2, <2>3
  <2>5. rt[g].task \in Loop /\ loop[rt[g].task].pc # "done"
    BY <1>4, <2>3 DEF Cancels, Alive, Runtime
  <2>6. loop' = [loop EXCEPT ![rt[g].task].hit = TRUE]
    BY <1>4 DEF Cancels
  <2>7. /\ loop' \in [Loop -> LoopState]
        /\ \A l \in Loop :
             \/ loop'[l] = loop[l]
             \/ /\ loop[l].pc # "done"
                /\ loop'[l].pc = loop[l].pc /\ loop'[l].gen = loop[l].gen
    BY <1>1, <2>5, <2>6, HitLoop
  <2>8. g <= made
    BY <1>4 DEF Cancels, Claims, Shape, Counted
  <2>9. \A f \in Gen : f > made' => rt'[f] = rt[f]
    <3> SUFFICES ASSUME NEW f \in Gen, f > made' PROVE rt'[f] = rt[f]
      OBVIOUS
    <3>1. f # g BY <1>1, <2>1, <2>8 DEF Gen
    <3> QED BY <2>4, <3>1
  <2>10. \A p \in Op : op'[p].pc = "join" =>
           \/ /\ op[p].pc = "join"
              /\ op'[p].task = op[p].task /\ op'[p].gen = op[p].gen
           \/ op'[p].gen \in Gen /\ op'[p].task = rt[op'[p].gen].task
    BY <1>1, <1>4 DEF Cancels
  <2> QED
    BY <1>1, <2>1, <2>4, <2>7, <2>9, <2>10, PlacedKept
<1>5. ASSUME NEW g \in Gen, NEW why, Ends(o, g, why) PROVE RuntimeOK'
  <2>1. PICK q \in Runtime, s \in OpState : EndsTo(o, g, why, q, s)
    BY <1>5 DEF Ends
  <2>2. q.task \in {rt[g].task, None} /\ s.pc # "join"
    BY <2>1 DEF EndsTo, Left, Idle
  <2>3. \A p \in Op : op'[p].pc = "join" => op'[p] = op[p]
    BY <1>1, <2>1, <2>2 DEF EndsTo
  <2>4. made' = made /\ g <= made
    BY <1>5 DEF Ends, Claims, registry, Shape, Counted
  <2>5. CASE rt' = [rt EXCEPT ![g] = q] /\ UNCHANGED <<loop, stray>>
    <3>1. rt' \in [Gen -> Runtime] BY <1>1, <2>5
    <3>2. \A f \in Gen : rt'[f].task \in {rt[f].task, None}
      BY <1>1, <2>2, <2>5
    <3>3. \A f \in Gen : f > made' => rt'[f] = rt[f]
      <4> SUFFICES ASSUME NEW f \in Gen, f > made' PROVE rt'[f] = rt[f]
        OBVIOUS
      <4>1. f # g BY <1>1, <2>4 DEF Gen
      <4> QED BY <1>1, <2>5, <4>1
    <3> QED BY <1>1, <2>3, <2>4, <2>5, <3>1, <3>2, <3>3, PlacedKept
  <2>6. CASE Start(g, q)
    BY <1>1, <2>2, <2>3, <2>4, <2>6, PlacedStart
  <2> QED BY <2>1, <2>5, <2>6 DEF EndsTo
<1>6. CASE Flushed(o)
  <2>1. /\ UNCHANGED <<made, rt, loop, stray>>
        /\ op' = LoggerDone(op[o].gen)
    BY <1>6 DEF Flushed, registry, history
  <2>2. \A p \in Op : [op[p] EXCEPT !.pc = "closed"].pc = "closed"
    BY <1>1 DEF OpState
  <2>3. \A p \in Op : op'[p].pc = "join" => op'[p] = op[p]
    BY <1>1, <2>1, <2>2 DEF LoggerDone
  <2> QED BY <1>1, <2>1, <2>3, PlacedKept
<1>7. CASE TimesOut(o)
  <2>1. UNCHANGED <<made, stray>> BY <1>7 DEF TimesOut, registry, history
  <2>2. op[o].pc \in {"join", "flush", "drop"} BY <1>7 DEF TimesOut
  <2>3. op[o].gen \in Gen /\ op[o].gen <= made /\ op[o] \in OpState
    BY <1>1, <2>2 DEF Shape, Counted, Busy, OpState, Gen, NoGen
  <2>4. CASE /\ op[o].pc = "join" /\ Alive(op[o].task)
             /\ loop' = [loop EXCEPT ![op[o].task].hit = TRUE]
             /\ OpTo(o, [op[o] EXCEPT !.late = TRUE])
             /\ UNCHANGED <<rt, history>>
    <3>1. op[o].task \in Loop /\ loop[op[o].task].pc # "done"
      BY <2>3, <2>4 DEF Alive, OpState
    <3>2. /\ loop' \in [Loop -> LoopState]
          /\ \A l \in Loop :
               \/ loop'[l] = loop[l]
               \/ /\ loop[l].pc # "done"
                  /\ loop'[l].pc = loop[l].pc /\ loop'[l].gen = loop[l].gen
      BY <1>1, <2>4, <3>1, HitLoop
    <3>3. /\ [op[o] EXCEPT !.late = TRUE].task = op[o].task
          /\ [op[o] EXCEPT !.late = TRUE].gen = op[o].gen
      BY <2>3 DEF OpState
    <3>4. \A p \in Op : op'[p].pc = "join" =>
            /\ op[p].pc = "join"
            /\ op'[p].task = op[p].task /\ op'[p].gen = op[p].gen
      BY <1>1, <2>4, <3>3 DEF OpTo
    <3> QED BY <1>1, <2>1, <2>4, <3>2, <3>4, PlacedKept
  <2>5. CASE /\ op[o].pc \in {"flush", "drop"}
             /\ rt' = [rt EXCEPT ![op[o].gen].log = @ /\ op[o].pc # "flush"]
             /\ OpTo(o, [op[o] EXCEPT !.pc = "retire", !.task = None])
             /\ UNCHANGED <<loop, stray>>
    <3> DEFINE g == op[o].gen
               b == rt[g].log /\ op[o].pc # "flush"
               r == [rt[g] EXCEPT !.log = b]
    <3>1. b \in BOOLEAN /\ rt' = [rt EXCEPT ![g] = r] BY <2>5
    <3> HIDE DEF b
    <3>2. r \in Runtime /\ r.task = rt[g].task
      BY <1>1, <2>3, <3>1 DEF Runtime
    <3> HIDE DEF r
    <3>3. /\ rt' \in [Gen -> Runtime]
          /\ \A f \in Gen : rt'[f].task \in {rt[f].task, None}
          /\ \A f \in Gen \ {g} : rt'[f] = rt[f]
      BY <1>1, <2>3, <3>1, <3>2
    <3>4. \A f \in Gen : f > made' => rt'[f] = rt[f]
      <4> SUFFICES ASSUME NEW f \in Gen, f > made' PROVE rt'[f] = rt[f]
        OBVIOUS
      <4>1. f # g BY <1>1, <2>1, <2>3 DEF Gen
      <4> QED BY <3>3, <4>1
    <3>5. [op[o] EXCEPT !.pc = "retire", !.task = None].pc = "retire"
      BY <2>3 DEF OpState
    <3>6. \A p \in Op : op'[p].pc = "join" => op'[p] = op[p]
      BY <1>1, <2>5, <3>5 DEF OpTo
    <3> QED BY <1>1, <2>1, <2>5, <3>3, <3>4, <3>6, PlacedKept
  <2> QED BY <1>7, <2>4, <2>5 DEF TimesOut
<1> QED
  BY <1>2, <1>3, <1>4, <1>5, <1>6, <1>7 DEF OpKinds, Ending

LEMMA ShapeInit == Init => Shape
<1> USE SessionAssumption
<1> SUFFICES ASSUME Init PROVE Shape
  OBVIOUS
<1>1. Fresh \in Runtime /\ Fresh.task = None BY DEF Fresh, Runtime
<1>2. Over \in LoopState /\ Over.pc = "done"
  BY DEF Over, LoopState, NoGen
<1>3. Idle \in OpState /\ Idle.pc = "idle" /\ Idle.gen = NoGen
  BY DEF Idle, OpState, NoGen
<1>4. NoFile \in [by: SUBSET Gen, opener: 0..MaxGen] BY DEF NoFile, NoGen
<1>5. TypeOK BY <1>1, <1>2, <1>3, <1>4 DEF Init, TypeOK
<1>6. IdHeld BY <1>3 DEF Init, IdHeld
<1>7. Counted BY <1>3 DEF Init, Counted, Busy, NoGen
<1>8. Placed BY <1>1, <1>2, <1>3 DEF Init, Placed, Alive
<1> QED BY <1>5, <1>6, <1>7, <1>8 DEF Shape

LEMMA ShapeFrom ==
  ASSUME RegistryOK, RuntimeOK
  PROVE  Shape
BY DEF RegistryOK, RuntimeOK, Shape, TypeOK

LEMMA ShapeStep ==
  ASSUME Shape, [Next]_vars
  PROVE  Shape'
<1>1. ASSUME NEW l \in Loop, LoopNext(l) PROVE Shape'
  <2>1. RegistryOK' /\ UNCHANGED LoopVars BY <1>1, RegistryLoop
  <2>2. CASE Record(l)
    <3>1. UNCHANGED <<rt, loop>> BY <2>2 DEF Record
    <3>2. RuntimeOK'
      BY <2>1, <3>1
      DEF RuntimeOK, Shape, TypeOK, Placed, Alive, LoopVars, registry, history
    <3> QED BY <2>1, <3>2, ShapeFrom DEF RegistryOK, RuntimeOK, Shape, TypeOK
  <2>3. CASE ~Record(l)
    <3>1. RuntimeOK' BY <1>1, <2>1, <2>3, LoopMoves, PlacedMoves
    <3> QED BY <2>1, <3>1 DEF RegistryOK, RuntimeOK, Shape, TypeOK
  <2> QED BY <2>2, <2>3
<1>2. ASSUME NEW o \in Op, OpNext(o) PROVE Shape'
  <2>1. RegistryOK' BY <1>2, RegistryOp
  <2>2. RuntimeOK' BY <1>2, <2>1, OpIsKind, PlacedOp
  <2> QED BY <2>1, <2>2 DEF RegistryOK, RuntimeOK, Shape, TypeOK
<1>3. CASE UNCHANGED vars
  BY <1>3
  DEF vars, registry, history, Shape, TypeOK, IdHeld, Counted, Placed, Alive
<1> QED BY <1>1, <1>2, <1>3 DEF Next

LEMMA ShapeAlways == Spec => []Shape
<1> QED BY ShapeInit, ShapeStep, PTL DEF Spec

\* Every variable has its type.
THEOREM SessionTypes == Spec => []TypeOK
<1>1. Shape => TypeOK BY DEF Shape
<1> QED BY <1>1, ShapeAlways, PTL

\* The reservation of the id: nobody has it while a session is visible, and
\* exactly one operation, which is creating or deleting, while it is taken.
THEOREM OneHolder == Spec => []IdHeld
<1>1. Shape => IdHeld BY DEF Shape
<1> QED BY <1>1, ShapeAlways, PTL

-----------------------------------------------------------------------------
(* A step concerns one session *)

\* Nothing that Sole and Tended say of session g is changed.
SameFor(g) ==
  /\ rt'[g].task = rt[g].task /\ rt'[g].conn = rt[g].conn
  /\ rt'[g].log = rt[g].log /\ rt'[g].down = rt[g].down
  /\ rt'[g].stop = rt[g].stop
  /\ \A l \in Loop : loop[l].gen = g \/ loop'[l].gen = g =>
       /\ loop'[l].gen = loop[l].gen /\ loop'[l].pc = loop[l].pc
       /\ loop'[l].then = loop[l].then
  /\ \A p \in Op :
       \/ op[p].gen = g /\ op[p].pc \in Busy
       \/ op'[p].gen = g /\ op'[p].pc \in Busy
       => /\ op'[p].gen = op[p].gen /\ op'[p].pc = op[p].pc
          /\ op'[p].task = op[p].task /\ op'[p].why = op[p].why
  /\ g = session => g = session'

LEMMA SameSole ==
  ASSUME NEW g, SameFor(g), Sole(g)
  PROVE  Sole(g)'
<1>1. HasLoop(g)' <=> HasLoop(g) BY DEF SameFor, HasLoop
<1>2. Deleting(g) => Deleting(g)' BY DEF SameFor, Deleting, Busy
<1>3. \A l \in Loop : loop'[l].gen = g => rt'[g].task = l
  BY DEF SameFor, Sole
<1>4. HasLoop(g)' => g = session' \/ Deleting(g)'
  BY <1>1, <1>2 DEF SameFor, Sole
<1>5. \A p \in Op : op'[p].gen = g /\ op'[p].pc = "join" =>
        \A l \in Loop : loop'[l].gen = g => op'[p].task = l
  BY DEF SameFor, Sole, Busy
<1>6. \A p \in Op : op'[p].gen = g /\ op'[p].pc \in Busy \ {"join"} =>
        op'[p].pc = "drop" /\ ~HasLoop(g)'
  BY <1>1 DEF SameFor, Sole
<1>7. rt'[g].log => \E l \in Loop : loop'[l].gen = g /\ loop'[l].pc \in Linked
  BY DEF SameFor, Sole
<1> QED BY <1>3, <1>4, <1>5, <1>6, <1>7 DEF Sole

LEMMA SameTended ==
  ASSUME NEW g, SameFor(g), Tended(g)
  PROVE  Tended(g)'
BY DEF SameFor, Tended, MayRaise

LEMMA SameMoves ==
  ASSUME Shape, NEW l \in Loop, Moves(l), UNCHANGED LoopVars,
         NEW g \in Gen \ {loop[l].gen}
  PROVE  SameFor(g)
<1> USE SessionAssumption
<1>1. PICK s \in LoopState, r \in Runtime : MovesTo(l, s, r) BY DEF Moves
<1>2. /\ loop \in [Loop -> LoopState] /\ rt \in [Gen -> Runtime]
  BY DEF Shape, TypeOK
<1>3. /\ loop' = [loop EXCEPT ![l] = s] /\ rt' = [rt EXCEPT ![loop[l].gen] = r]
      /\ s.gen \in {NoGen, loop[l].gen}
  BY <1>1 DEF MovesTo, Becomes, Over
<1>4. g # NoGen BY DEF Gen, NoGen
<1>5. rt'[g] = rt[g] BY <1>2, <1>3
<1>6. \A k \in Loop : loop[k].gen = g \/ loop'[k].gen = g =>
        /\ loop'[k].gen = loop[k].gen /\ loop'[k].pc = loop[k].pc
        /\ loop'[k].then = loop[k].then
  BY <1>2, <1>3, <1>4
<1> QED BY <1>5, <1>6 DEF SameFor, LoopVars, registry

LEMMA SameWaits ==
  ASSUME Shape, NEW o \in Op, Waits(o), NEW g \in Gen
  PROVE  SameFor(g)
<1>1. PICK s \in OpState : op' = [op EXCEPT ![o] = s] /\ s.pc \notin Busy
  BY DEF Waits
<1>2. op \in [Op -> OpState] BY DEF Shape, TypeOK
<1>3. \A p \in Op : op[p].pc \in Busy \/ op'[p].pc \in Busy => op'[p] = op[p]
  BY <1>1, <1>2 DEF Waits
<1>4. g = session => g = session'
  BY SessionAssumption DEF Waits, Gen, NoGen
<1>5. UNCHANGED <<rt, loop>> BY DEF Waits
<1> QED BY <1>3, <1>4, <1>5 DEF SameFor

LEMMA SameStart ==
  ASSUME Shape, NEW f \in Gen, NEW q \in Runtime, Start(f, q),
         NEW g \in Gen \ {f}
  PROVE  /\ rt'[g] = rt[g]
         /\ \A l \in Loop : loop[l].gen = g \/ loop'[l].gen = g =>
              /\ loop'[l].gen = loop[l].gen /\ loop'[l].pc = loop[l].pc
              /\ loop'[l].then = loop[l].then
<1> USE SessionAssumption
<1>1. loop \in [Loop -> LoopState] /\ rt \in [Gen -> Runtime]
  BY DEF Shape, TypeOK
<1>2. CASE rt' = [rt EXCEPT ![f] = q] /\ UNCHANGED <<loop, stray>>
  BY <1>1, <1>2
<1>3. ASSUME NEW l \in Loop, NEW s \in LoopState, NEW r \in Runtime,
             Starts(f, q, l, s, r)
      PROVE  /\ rt'[g] = rt[g]
             /\ \A k \in Loop : loop[k].gen = g \/ loop'[k].gen = g =>
                  /\ loop'[k].gen = loop[k].gen /\ loop'[k].pc = loop[k].pc
                  /\ loop'[k].then = loop[k].then
  <2>1. /\ loop' = [loop EXCEPT ![l] = s] /\ rt' = [rt EXCEPT ![f] = r]
        /\ s.gen = f /\ loop[l].pc = "done"
    BY <1>3 DEF Starts, Unused
  <2>2. loop[l].gen # g BY <2>1 DEF Shape, Placed, Over, Gen, NoGen
  <2> QED BY <1>1, <2>1, <2>2
<1> QED BY <1>2, <1>3, StartForm

LEMMA SameLaunches ==
  ASSUME Shape, NEW o \in Op, NEW f \in Gen, Launches(o, f),
         NEW g \in Gen \ {f}
  PROVE  SameFor(g)
<1>1. op \in [Op -> OpState] /\ rt[f] \in Runtime BY DEF Shape, TypeOK
<1>2. \A p \in Op : op[p].pc \in Busy \/ op'[p].pc \in Busy => op'[p] = op[p]
  BY <1>1 DEF Launches, Idle, Busy
<1>3. g = session => g = session'
  BY SessionAssumption DEF Launches, Gen, NoGen
<1>4. /\ rt'[g] = rt[g]
      /\ \A l \in Loop : loop[l].gen = g \/ loop'[l].gen = g =>
           /\ loop'[l].gen = loop[l].gen /\ loop'[l].pc = loop[l].pc
           /\ loop'[l].then = loop[l].then
  BY <1>1, SameStart DEF Launches
<1> QED BY <1>2, <1>3, <1>4 DEF SameFor

LEMMA SameCancels ==
  ASSUME Shape, NEW o \in Op, NEW f \in Gen, NEW why, Cancels(o, f, why)
  PROVE  /\ \A g \in Gen \ {f} : SameFor(g)
         /\ \A l \in Loop : /\ loop'[l].gen = loop[l].gen
                            /\ loop'[l].pc = loop[l].pc
                            /\ loop'[l].then = loop[l].then
         /\ rt'[f].task = rt[f].task /\ rt'[f].conn = rt[f].conn
         /\ rt'[f].log = rt[f].log /\ rt'[f].down = rt[f].down
<1> USE SessionAssumption
<1>1. /\ loop \in [Loop -> LoopState] /\ rt \in [Gen -> Runtime]
      /\ op \in [Op -> OpState]
  BY DEF Shape, TypeOK
<1>2. PICK s \in OpState : op' = [op EXCEPT ![o] = s] /\ s.gen = f
  BY DEF Cancels
<1>3. op[o].pc \notin Busy BY DEF Cancels, Claims, Busy
<1> DEFINE r == [rt[f] EXCEPT !.stop = TRUE]
<1>4. rt' = [rt EXCEPT ![f] = r] BY DEF Cancels
<1>5. /\ r.task = rt[f].task /\ r.conn = rt[f].conn
      /\ r.log = rt[f].log /\ r.down = rt[f].down
  BY <1>1 DEF Runtime
<1> HIDE DEF r
<1>6. \A g \in Gen \ {f} : rt'[g] = rt[g] BY <1>1, <1>4
<1>7. rt[f].task \in Loop BY <1>1 DEF Cancels, Alive, Runtime
<1>8. \A l \in Loop : /\ loop'[l].gen = loop[l].gen
                      /\ loop'[l].pc = loop[l].pc
                      /\ loop'[l].then = loop[l].then
  <2>1. loop' = [loop EXCEPT ![rt[f].task].hit = TRUE] BY DEF Cancels
  <2> QED BY <1>1, <1>7, <2>1, HitLoop
<1>9. \A p \in Op : p # o => op'[p] = op[p] BY <1>1, <1>2
<1>10. op'[o].gen = f BY <1>1, <1>2
<1>11. \A g \in Gen \ {f} : g = session => g = session'
  BY DEF Cancels, Claims
<1>12. \A g \in Gen \ {f} : SameFor(g)
  <2> TAKE g \in Gen \ {f}
  <2> QED BY <1>3, <1>6, <1>8, <1>9, <1>10, <1>11 DEF SameFor
<1>13. /\ rt'[f].task = rt[f].task /\ rt'[f].conn = rt[f].conn
       /\ rt'[f].log = rt[f].log /\ rt'[f].down = rt[f].down
  BY <1>1, <1>4, <1>5
<1> QED BY <1>8, <1>12, <1>13

LEMMA SameEnds ==
  ASSUME Shape, NEW o \in Op, NEW f \in Gen, NEW why, Ends(o, f, why),
         NEW g \in Gen \ {f}
  PROVE  SameFor(g)
<1>1. /\ loop \in [Loop -> LoopState] /\ rt \in [Gen -> Runtime]
      /\ op \in [Op -> OpState]
  BY DEF Shape, TypeOK
<1>2. PICK q \in Runtime, s \in OpState : EndsTo(o, f, why, q, s)
  BY DEF Ends
<1>3. op' = [op EXCEPT ![o] = s] /\ (s.gen = f \/ s.pc \notin Busy)
  BY <1>2 DEF EndsTo, Left, Idle, Busy
<1>4. op[o].pc \notin Busy \/ op[o].gen = f
  BY DEF Ends, Claims, Busy
<1>5. \A p \in Op : \/ op[p].gen = g /\ op[p].pc \in Busy
                    \/ op'[p].gen = g /\ op'[p].pc \in Busy
                    => op'[p] = op[p]
  BY <1>1, <1>3, <1>4
<1>6. g = session => g = session' BY DEF Ends, Claims, registry
<1>7. /\ rt'[g] = rt[g]
      /\ \A l \in Loop : loop[l].gen = g \/ loop'[l].gen = g =>
           /\ loop'[l].gen = loop[l].gen /\ loop'[l].pc = loop[l].pc
           /\ loop'[l].then = loop[l].then
  <2>1. CASE rt' = [rt EXCEPT ![f] = q] /\ UNCHANGED <<loop, stray>>
    BY <1>1, <2>1
  <2>2. CASE Start(f, q) BY <2>2, SameStart
  <2> QED BY <1>2, <2>1, <2>2 DEF EndsTo
<1> QED BY <1>5, <1>6, <1>7 DEF SameFor

\* The logger that operation o waited for has stopped.
LEMMA FlushedForm ==
  ASSUME Shape, NEW o \in Op, Flushed(o)
  PROVE  /\ UNCHANGED <<registry, rt, loop, history>>
         /\ op[o].gen \in Gen
         /\ \A p \in Op :
              /\ op'[p].gen = op[p].gen /\ op'[p].task = op[p].task
              /\ op'[p].why = op[p].why
              /\ \/ op'[p].pc = op[p].pc
                 \/ /\ op[p].pc = "flush" /\ op[p].gen = op[o].gen
                    /\ op'[p].pc = "closed"
<1>1. op \in [Op -> OpState] BY DEF Shape, TypeOK
<1>2. op' = LoggerDone(op[o].gen) BY DEF Flushed
<1>3. \A p \in Op :
        LET s == [op[p] EXCEPT !.pc = "closed"]
        IN  /\ s.pc = "closed" /\ s.gen = op[p].gen
            /\ s.task = op[p].task /\ s.why = op[p].why
  BY <1>1 DEF OpState
<1>4. \A p \in Op : \/ op'[p] = op[p]
                    \/ /\ op[p].pc = "flush" /\ op[p].gen = op[o].gen
                       /\ op'[p] = [op[p] EXCEPT !.pc = "closed"]
  BY <1>2 DEF LoggerDone
<1>5. op[o].gen \in Gen
  BY <1>1, SessionAssumption
  DEF Flushed, Shape, Counted, Busy, OpState, Gen, NoGen
<1>6. ASSUME NEW p \in Op
      PROVE  /\ op'[p].gen = op[p].gen /\ op'[p].task = op[p].task
             /\ op'[p].why = op[p].why
             /\ \/ op'[p].pc = op[p].pc
                \/ /\ op[p].pc = "flush" /\ op[p].gen = op[o].gen
                   /\ op'[p].pc = "closed"
  <2> DEFINE s == [op[p] EXCEPT !.pc = "closed"]
  <2>1. /\ s.pc = "closed" /\ s.gen = op[p].gen
        /\ s.task = op[p].task /\ s.why = op[p].why
    BY <1>3
  <2>2. \/ op'[p] = op[p]
        \/ op[p].pc = "flush" /\ op[p].gen = op[o].gen /\ op'[p] = s
    BY <1>4
  <2> HIDE DEF s
  <2> QED BY <2>1, <2>2
<1>7. UNCHANGED <<registry, rt, loop, history>> BY DEF Flushed
<1> QED BY <1>5, <1>6, <1>7

LEMMA SameFlushed ==
  ASSUME Shape, NEW o \in Op, Flushed(o), NEW g \in Gen \ {op[o].gen}
  PROVE  SameFor(g)
BY FlushedForm DEF SameFor, registry

\* The timer of operation o runs out, in the wait for the run task or later.
LateJoin(o) ==
  /\ UNCHANGED <<rt, cut>>
  /\ op[o].pc = "join"
  /\ \A l \in Loop : /\ loop'[l].gen = loop[l].gen
                     /\ loop'[l].pc = loop[l].pc
                     /\ loop'[l].then = loop[l].then
                     /\ (l # op[o].task => loop'[l] = loop[l])
  /\ \A p \in Op : op'[p].gen = op[p].gen /\ op'[p].task = op[p].task
                   /\ op'[p].why = op[p].why /\ op'[p].pc = op[p].pc

LateStop(o) ==
  /\ UNCHANGED loop /\ cut' = cut \cup {op[o].gen}
  /\ op[o].pc \in {"flush", "drop"}
  /\ \A g \in Gen : rt'[g].task = rt[g].task /\ (rt'[g].log => rt[g].log)
  /\ \A g \in Gen \ {op[o].gen} : rt'[g] = rt[g]
  /\ op'[o].pc = "retire"
  /\ \A p \in Op \ {o} : op'[p] = op[p]

LEMMA TimesOutForm ==
  ASSUME Shape, NEW o \in Op, TimesOut(o)
  PROVE  /\ UNCHANGED <<registry, file, stray>>
         /\ op[o].gen \in Gen
         /\ LateJoin(o) \/ LateStop(o)
<1> USE SessionAssumption
<1>1. /\ op \in [Op -> OpState] /\ loop \in [Loop -> LoopState]
      /\ rt \in [Gen -> Runtime]
  BY DEF Shape, TypeOK
<1>2. op[o] \in OpState BY <1>1
<1>3. op[o].gen \in Gen
  BY <1>2 DEF TimesOut, Shape, Counted, Busy, OpState, Gen, NoGen
<1>4. CASE /\ op[o].pc = "join" /\ Alive(op[o].task)
           /\ loop' = [loop EXCEPT ![op[o].task].hit = TRUE]
           /\ OpTo(o, [op[o] EXCEPT !.late = TRUE])
           /\ UNCHANGED <<rt, history>>
  <2>1. op[o].task \in Loop BY <1>2, <1>4 DEF Alive, OpState
  <2>2. /\ \A l \in Loop \ {op[o].task} : loop'[l] = loop[l]
        /\ loop'[op[o].task].pc = loop[op[o].task].pc
        /\ loop'[op[o].task].gen = loop[op[o].task].gen
        /\ loop'[op[o].task].then = loop[op[o].task].then
    BY <1>1, <1>4, <2>1, HitLoop
  <2> DEFINE s == [op[o] EXCEPT !.late = TRUE]
  <2>3. /\ s.task = op[o].task /\ s.gen = op[o].gen
        /\ s.why = op[o].why /\ s.pc = op[o].pc
    BY <1>2 DEF OpState
  <2>4. op' = [op EXCEPT ![o] = s] BY <1>4 DEF OpTo
  <2> HIDE DEF s
  <2>5. LateJoin(o) BY <1>1, <1>4, <2>2, <2>3, <2>4 DEF LateJoin, history
  <2>6. UNCHANGED <<registry, file, stray>> BY <1>4 DEF TimesOut, history
  <2> QED BY <1>3, <2>5, <2>6
<1>5. CASE /\ op[o].pc \in {"flush", "drop"}
           /\ rt' = [rt EXCEPT ![op[o].gen].log = @ /\ op[o].pc # "flush"]
           /\ OpTo(o, [op[o] EXCEPT !.pc = "retire", !.task = None])
           /\ cut' = cut \cup {op[o].gen}
           /\ UNCHANGED <<loop, stray>>
  <2> DEFINE g == op[o].gen
             b == rt[g].log /\ op[o].pc # "flush"
             r == [rt[g] EXCEPT !.log = b]
             s == [op[o] EXCEPT !.pc = "retire", !.task = None]
  <2>1. b \in BOOLEAN /\ rt' = [rt EXCEPT ![g] = r] /\ (b => rt[g].log)
    BY <1>5
  <2> HIDE DEF b
  <2>2. r.task = rt[g].task /\ r.log = b BY <1>1, <1>3 DEF Runtime
  <2>3. s.pc = "retire" BY <1>2 DEF OpState
  <2>4. op' = [op EXCEPT ![o] = s] BY <1>5 DEF OpTo
  <2> HIDE DEF r, s
  <2>5. \A f \in Gen : \/ rt'[f] = rt[f]
                       \/ f = g /\ rt'[f] = r
    BY <1>1, <2>1
  <2>6. \A f \in Gen : rt'[f].task = rt[f].task /\ (rt'[f].log => rt[f].log)
    BY <2>1, <2>2, <2>5
  <2>7. op'[o].pc = "retire" /\ \A p \in Op \ {o} : op'[p] = op[p]
    BY <1>1, <2>3, <2>4
  <2>8. LateStop(o) BY <1>5, <2>5, <2>6, <2>7 DEF LateStop
  <2>9. UNCHANGED <<registry, file, stray>> BY <1>5 DEF TimesOut
  <2> QED BY <1>3, <2>8, <2>9
<1> QED BY <1>4, <1>5 DEF TimesOut

LEMMA SameTimesOut ==
  ASSUME Shape, NEW o \in Op, TimesOut(o), NEW g \in Gen \ {op[o].gen}
  PROVE  SameFor(g)
<1>1. /\ UNCHANGED <<registry, file, stray>>
      /\ LateJoin(o) \/ LateStop(o)
  BY TimesOutForm
<1>2. CASE LateJoin(o) BY <1>1, <1>2 DEF LateJoin, SameFor, registry
<1>3. CASE LateStop(o)
  BY <1>1, <1>3 DEF LateStop, SameFor, registry, Busy
<1> QED BY <1>1, <1>2, <1>3

-----------------------------------------------------------------------------
(* One run loop for each session *)

LEMMA StrayGrows ==
  ASSUME NEW o \in Op, OpKinds(o), Shape
  PROVE  stray \subseteq stray'
<1>1. ASSUME NEW g, NEW q, Start(g, q) PROVE stray \subseteq stray'
  BY <1>1 DEF Start
<1>2. CASE Waits(o) BY <1>2 DEF Waits, history
<1>3. CASE \E g \in Gen : Launches(o, g) BY <1>1, <1>3 DEF Launches
<1>4. CASE Ending(o)
  BY <1>1, <1>4 DEF Ending, Cancels, Ends, EndsTo, history
<1>5. CASE Flushed(o) BY <1>5 DEF Flushed, history
<1>6. CASE TimesOut(o) BY <1>6, TimesOutForm
<1> QED BY <1>2, <1>3, <1>4, <1>5, <1>6 DEF OpKinds

LEMMA LoopGen ==
  ASSUME Shape, NEW l \in Loop, NEW g \in Gen, loop[l].gen = g
  PROVE  Alive(l)
BY SessionAssumption DEF Shape, Placed, Over, Alive, Gen, NoGen

LEMMA SoleMoves ==
  ASSUME Shape, SoleLoop, NEW l \in Loop, Moves(l), UNCHANGED LoopVars
  PROVE  SoleLoop'
<1> USE SessionAssumption
<1>1. stray' = stray /\ session' = session /\ op' = op
  BY DEF LoopVars, registry, history
<1> SUFFICES ASSUME NEW g \in Gen \ stray PROVE Sole(g)'
  BY <1>1 DEF SoleLoop
<1>2. Sole(g) BY DEF SoleLoop
<1>3. CASE g # loop[l].gen BY <1>2, <1>3, SameMoves, SameSole
<1>4. CASE g = loop[l].gen
  <2>1. PICK s \in LoopState, r \in Runtime : MovesTo(l, s, r) BY DEF Moves
  <2>2. /\ loop \in [Loop -> LoopState] /\ rt \in [Gen -> Runtime]
        /\ g # NoGen
    BY DEF Shape, TypeOK, Gen, NoGen
  <2>3. /\ loop' = [loop EXCEPT ![l] = s] /\ rt' = [rt EXCEPT ![g] = r]
        /\ s.gen \in {NoGen, g} /\ r.task = rt[g].task
        /\ s.pc \in Linked => s.gen = g
    BY <1>4, <2>1 DEF MovesTo, Keeps, Becomes, Own, Over, Linked
  <2>4. /\ \A k \in Loop \ {l} : loop'[k] = loop[k]
        /\ loop'[l] = s /\ rt'[g] = r
    BY <2>2, <2>3
  <2>5. \A k \in Loop : loop'[k].gen = g => loop[k].gen = g
    BY <1>4, <2>4
  <2>6. HasLoop(g)' => HasLoop(g) BY <2>5 DEF HasLoop
  <2>7. Deleting(g)' <=> Deleting(g) BY <1>1 DEF Deleting
  <2>8. r.log => \E k \in Loop : loop'[k].gen = g /\ loop'[k].pc \in Linked
    <3> SUFFICES ASSUME r.log PROVE s.pc \in Linked
      BY <2>3, <2>4
    <3> SUFFICES ASSUME rt[g].log, loop[l].pc \in {"new", "drop"}
                 PROVE  FALSE
      BY <1>4, <2>1 DEF MovesTo, Own
    <3>1. PICK k \in Loop : loop[k].gen = g /\ loop[k].pc \in Linked
      BY <1>2 DEF Sole
    <3>2. k = l BY <1>2, <1>4, <3>1 DEF Sole
    <3> QED BY <3>1, <3>2 DEF Linked
  <2> QED
    BY <1>1, <1>2, <2>3, <2>4, <2>5, <2>6, <2>7, <2>8 DEF Sole
<1> QED BY <1>3, <1>4

\* A session that starts, of which no stop is in progress and which had no
\* loop, has one.
LEMMA SoleStart ==
  ASSUME Shape, NEW g \in Gen \ stray', NEW q \in Runtime, Start(g, q),
         ~HasLoop(g), ~q.log, ~Alive(q.task)
  PROVE  Sole(g)'
<1> USE SessionAssumption
<1>1. PICK l \in Loop, s \in LoopState, r \in Runtime : Starts(g, q, l, s, r)
  BY StartForm
<1>2. g = session' /\ ~Stopping(g) BY <1>1 DEF Starts
<1>3. /\ loop \in [Loop -> LoopState] /\ rt \in [Gen -> Runtime]
  BY DEF Shape, TypeOK
<1>4. /\ loop' = [loop EXCEPT ![l] = s] /\ rt' = [rt EXCEPT ![g] = r]
      /\ r.task = l /\ ~r.log
  BY <1>1 DEF Starts
<1>5. /\ \A k \in Loop \ {l} : loop'[k] = loop[k]
      /\ rt'[g] = r
  BY <1>3, <1>4
<1>6. \A k \in Loop : loop'[k].gen = g => k = l BY <1>5 DEF HasLoop
<1>7. \A p \in Op : ~(op'[p].pc \in Busy /\ op'[p].gen = g)
  BY <1>2 DEF Stopping, Busy
<1> QED BY <1>2, <1>4, <1>5, <1>6, <1>7 DEF Sole, Busy

LEMMA SoleLaunches ==
  ASSUME Shape, SoleLoop, NEW o \in Op, NEW f \in Gen, Launches(o, f),
         stray \subseteq stray'
  PROVE  SoleLoop'
<1> SUFFICES ASSUME NEW g \in Gen \ stray' PROVE Sole(g)'
  BY DEF SoleLoop
<1>1. Sole(g) BY DEF SoleLoop
<1>2. CASE g # f BY <1>1, <1>2, SameLaunches, SameSole
<1>3. CASE g = f
  <2>1. /\ rt \in [Gen -> Runtime] /\ op \in [Op -> OpState]
        /\ loop \in [Loop -> LoopState]
    BY DEF Shape, TypeOK
  <2>2. CASE Alive(rt[g].task)
    <3>1. UNCHANGED <<rt, loop>> BY <1>3, <2>1, <2>2 DEF Launches, Start
    <3>2. \A p \in Op :
            op[p].pc \in Busy \/ op'[p].pc \in Busy => op'[p] = op[p]
      BY <2>1 DEF Launches, Idle, Busy
    <3>3. g = session => g = session'
      BY SessionAssumption DEF Launches, Gen, NoGen
    <3>4. SameFor(g) BY <3>1, <3>2, <3>3 DEF SameFor
    <3> QED BY <1>1, <3>4, SameSole
  <2>3. CASE ~Alive(rt[g].task)
    <3>1. ~HasLoop(g)
      <4> SUFFICES ASSUME NEW l \in Loop, loop[l].gen = g PROVE FALSE
        BY DEF HasLoop
      <4>1. rt[g].task = l BY <1>1 DEF Sole
      <4> QED BY <2>3, <4>1, LoopGen
    <3>2. ~rt[g].log BY <1>1, <3>1 DEF Sole, HasLoop
    <3>3. rt[g] \in Runtime /\ Start(g, rt[g])
      BY <1>3, <2>1 DEF Launches
    <3> QED BY <2>3, <3>1, <3>2, <3>3, SoleStart
  <2> QED BY <2>2, <2>3
<1> QED BY <1>2, <1>3

LEMMA SoleCancels ==
  ASSUME Shape, SoleLoop, NEW o \in Op, NEW f \in Gen, NEW why,
         Cancels(o, f, why)
  PROVE  SoleLoop'
<1>1. stray' = stray BY DEF Cancels, history
<1> SUFFICES ASSUME NEW g \in Gen \ stray PROVE Sole(g)'
  BY <1>1 DEF SoleLoop
<1>2. Sole(g) BY DEF SoleLoop
<1>3. CASE g # f BY <1>2, <1>3, SameCancels, SameSole
<1>4. CASE g = f
  <2>1. op \in [Op -> OpState] BY DEF Shape, TypeOK
  <2>2. PICK s \in OpState : /\ op' = [op EXCEPT ![o] = s]
                             /\ s.pc = "join" /\ s.gen = g
                             /\ s.task = rt[g].task /\ s.why = why
    BY <1>4 DEF Cancels
  <2>3. op'[o] = s /\ \A p \in Op \ {o} : op'[p] = op[p] BY <2>1, <2>2
  <2>4. \A l \in Loop : loop'[l].gen = loop[l].gen /\ loop'[l].pc = loop[l].pc
    BY SameCancels
  <2>5. rt'[g].task = rt[g].task /\ rt'[g].log = rt[g].log
    BY <1>4, SameCancels
  <2>6. HasLoop(g)' <=> HasLoop(g) BY <2>4 DEF HasLoop
  <2>7. g = session' \/ Deleting(g)'
    <3>1. CASE why = "delete" BY <2>2, <2>3, <3>1 DEF Deleting
    <3>2. CASE why # "delete" BY <1>4, <3>2 DEF Cancels, Claims
    <3> QED BY <3>1, <3>2
  <2>8. \A l \in Loop : loop'[l].gen = g => rt'[g].task = l
    BY <1>2, <2>4, <2>5 DEF Sole
  <2>9. \A p \in Op : op'[p].gen = g /\ op'[p].pc = "join" =>
          \A l \in Loop : loop'[l].gen = g => op'[p].task = l
    BY <1>2, <2>2, <2>3, <2>4 DEF Sole
  <2>10. \A p \in Op : op'[p].gen = g /\ op'[p].pc \in Busy \ {"join"} =>
           op'[p].pc = "drop" /\ ~HasLoop(g)'
    BY <1>2, <2>2, <2>3, <2>6 DEF Sole
  <2>11. rt'[g].log =>
           \E l \in Loop : loop'[l].gen = g /\ loop'[l].pc \in Linked
    BY <1>2, <2>4, <2>5 DEF Sole
  <2> QED BY <2>7, <2>8, <2>9, <2>10, <2>11 DEF Sole
<1> QED BY <1>3, <1>4

LEMMA SoleEnds ==
  ASSUME Shape, SoleLoop, NEW o \in Op, NEW f \in Gen, NEW why,
         Ends(o, f, why), stray \subseteq stray'
  PROVE  SoleLoop'
<1> SUFFICES ASSUME NEW g \in Gen \ stray' PROVE Sole(g)'
  BY DEF SoleLoop
<1>1. Sole(g) BY DEF SoleLoop
<1>2. CASE g # f BY <1>1, <1>2, SameEnds, SameSole
<1>3. CASE g = f
  <2>1. /\ rt \in [Gen -> Runtime] /\ op \in [Op -> OpState]
        /\ loop \in [Loop -> LoopState]
    BY DEF Shape, TypeOK
  <2>2. ~HasLoop(g)
    <3> SUFFICES ASSUME NEW l \in Loop, loop[l].gen = g PROVE FALSE
      BY DEF HasLoop
    <3>1. Alive(l) BY LoopGen
    <3>2. CASE ~Alive(rt[g].task) BY <1>1, <3>1, <3>2 DEF Sole
    <3>3. CASE op[o].gen = g /\ op[o].pc = "join" /\ ~Alive(op[o].task)
      BY <1>1, <3>1, <3>3 DEF Sole
    <3>4. CASE op[o].gen = g /\ op[o].pc \in {"closed", "drop"}
      BY <1>1, <3>4 DEF Sole, HasLoop, Busy
    <3> QED BY <1>3, <3>2, <3>3, <3>4 DEF Ends
  <2>3. ~rt[g].log BY <1>1, <2>2 DEF Sole, HasLoop
  <2>4. PICK q \in Runtime, s \in OpState : EndsTo(o, g, why, q, s)
    BY <1>3 DEF Ends
  <2>5. /\ op' = [op EXCEPT ![o] = s] /\ ~q.log
        /\ s.pc # "flush" /\ s.pc # "join" /\ s.pc # "closed"
    BY <2>3, <2>4 DEF EndsTo, Left, Idle
  <2>6. op'[o] = s /\ \A p \in Op \ {o} : op'[p] = op[p] BY <2>1, <2>5
  <2>7. CASE rt' = [rt EXCEPT ![g] = q] /\ UNCHANGED <<loop, stray>>
    <3>1. rt'[g] = q BY <2>1, <2>7
    <3>2. ~HasLoop(g)' BY <2>2, <2>7 DEF HasLoop
    <3>3. \A p \in Op : op'[p].gen = g /\ op'[p].pc \in Busy \ {"join"} =>
            op'[p].pc = "drop"
      BY <1>1, <2>5, <2>6 DEF Sole, Busy
    <3> QED BY <2>5, <3>1, <3>2, <3>3 DEF Sole, HasLoop
  <2>8. CASE Start(g, q)
    <3>1. CASE Alive(q.task)
      <4>1. rt' = [rt EXCEPT ![g] = q] /\ UNCHANGED <<loop, stray>>
        BY <2>8, <3>1 DEF Start
      <4> QED BY <2>7, <4>1
    <3>2. CASE ~Alive(q.task)
      BY <2>2, <2>5, <2>8, <3>2, SoleStart
    <3> QED BY <3>1, <3>2
  <2> QED BY <2>4, <2>7, <2>8 DEF EndsTo
<1> QED BY <1>2, <1>3

LEMMA SoleLate ==
  ASSUME Shape, SoleLoop, NEW o \in Op, Flushed(o) \/ TimesOut(o)
  PROVE  SoleLoop'
<1>1. stray' = stray /\ session' = session
  BY TimesOutForm, FlushedForm DEF registry, history
<1> SUFFICES ASSUME NEW g \in Gen \ stray PROVE Sole(g)'
  BY <1>1 DEF SoleLoop
<1>2. Sole(g) BY DEF SoleLoop
<1>3. CASE Flushed(o)
  <2>1. CASE g # op[o].gen BY <1>2, <1>3, <2>1, SameFlushed, SameSole
  <2>2. CASE g = op[o].gen
    BY <1>2, <1>3, <2>2 DEF Flushed, Sole, Busy
  <2> QED BY <2>1, <2>2
<1>4. CASE TimesOut(o)
  <2>1. CASE g # op[o].gen BY <1>2, <1>4, <2>1, SameTimesOut, SameSole
  <2>2. CASE LateJoin(o)
    <3>1. SameFor(g) BY <1>1, <2>2 DEF LateJoin, SameFor
    <3> QED BY <1>2, <3>1, SameSole
  <2>3. CASE g = op[o].gen /\ LateStop(o)
    <3>1. \A p \in Op : op'[p].pc \in Busy => op'[p] = op[p]
      BY <2>3 DEF LateStop, Busy
    <3>2. ~HasLoop(g) BY <1>2, <2>3 DEF LateStop, Sole, Busy
    <3>3. HasLoop(g)' <=> HasLoop(g) BY <2>3 DEF LateStop, HasLoop
    <3>4. ~rt[g].log BY <1>2, <3>2 DEF Sole, HasLoop
    <3>5. ~rt'[g].log BY <2>3, <3>4 DEF LateStop
    <3> QED BY <1>2, <3>1, <3>2, <3>3, <3>5 DEF Sole, HasLoop
  <2> QED BY <1>4, <2>1, <2>2, <2>3, TimesOutForm
<1> QED BY <1>3, <1>4

LEMMA SoleOp ==
  ASSUME Shape, SoleLoop, NEW o \in Op, OpKinds(o)
  PROVE  SoleLoop'
<1>1. stray \subseteq stray' BY StrayGrows
<1>2. CASE Waits(o)
  <2>1. stray' = stray BY <1>2 DEF Waits, history
  <2> SUFFICES ASSUME NEW g \in Gen \ stray PROVE Sole(g)'
    BY <2>1 DEF SoleLoop
  <2>2. Sole(g) BY DEF SoleLoop
  <2> QED BY <1>2, <2>2, SameWaits, SameSole
<1>3. CASE \E g \in Gen : Launches(o, g) BY <1>1, <1>3, SoleLaunches
<1>4. CASE Ending(o) BY <1>1, <1>4, SoleCancels, SoleEnds DEF Ending
<1> QED BY <1>2, <1>3, <1>4, SoleLate DEF OpKinds

\* One run loop for each session that nobody started behind a stop's back.
LEMMA SoleAlways == Spec => [](Shape /\ SoleLoop)
<1>1. ASSUME Init PROVE SoleLoop
  <2>1. /\ \A l \in Loop : loop[l].gen = NoGen
        /\ \A o \in Op : op[o].pc = "idle"
        /\ \A g \in Gen : rt[g].log = FALSE
    BY <1>1 DEF Init, Over, Idle, Fresh
  <2> QED
    BY <2>1, SessionAssumption DEF SoleLoop, Sole, HasLoop, Gen, NoGen, Busy
<1>2. ASSUME Shape, SoleLoop, [Next]_vars
      PROVE  SoleLoop'
  <2>1. ASSUME NEW l \in Loop, LoopNext(l) PROVE SoleLoop'
    <3>1. UNCHANGED LoopVars BY <1>2, <2>1, RegistryLoop
    <3>2. CASE Record(l)
      <4>1. UNCHANGED <<rt, loop>> BY <3>2 DEF Record
      <4> QED
        BY <1>2, <3>1, <4>1
        DEF SoleLoop, Sole, HasLoop, Deleting, LoopVars, registry, history
    <3>3. CASE ~Record(l)
      BY <1>2, <2>1, <3>1, <3>3, LoopMoves, SoleMoves
    <3> QED BY <3>2, <3>3
  <2>2. ASSUME NEW o \in Op, OpNext(o) PROVE SoleLoop'
    BY <1>2, <2>2, OpIsKind, SoleOp
  <2>3. CASE UNCHANGED vars
    BY <1>2, <2>3
    DEF SoleLoop, Sole, HasLoop, Deleting, vars, registry, history
  <2> QED BY <1>2, <2>1, <2>2, <2>3 DEF Next
<1> QED BY <1>1, <1>2, ShapeInit, ShapeStep, PTL DEF Spec

-----------------------------------------------------------------------------
(* What the id serves *)

\* While a session is visible, or about to be, a loop is of that session, or
\* of one that was started behind a stop's back.
LEMMA LoopOwner ==
  ASSUME Shape, SoleLoop, NEW l \in Loop, loop[l].pc # "done",
         session # NoGen \/ Inserting
  PROVE  loop[l].gen \in {session} \cup stray
<1> SUFFICES ASSUME loop[l].gen \notin stray, loop[l].gen # session
             PROVE  FALSE
  OBVIOUS
<1>1. loop[l].gen \in Gen
  BY SessionAssumption DEF Shape, TypeOK, Placed, Gen
<1>2. PICK o \in Op : op[o].pc = "join" /\ op[o].why = "delete"
  BY <1>1 DEF SoleLoop, Sole, HasLoop, Deleting
<1>3. holder = o BY <1>2 DEF Shape, IdHeld
<1>4. session = NoGen BY <1>3, SessionAssumption DEF Shape, IdHeld
<1>5. PICK p \in Op : op[p].pc = "insert" BY <1>4 DEF Inserting
<1>6. p = o BY <1>3, <1>5 DEF Shape, IdHeld
<1> QED BY <1>2, <1>5, <1>6

LEMMA FlushOwner ==
  ASSUME Shape, SoleLoop, NEW o \in Op, op[o].pc = "flush"
  PROVE  op[o].gen \in stray
<1>1. op[o] \in OpState /\ op[o].gen # NoGen
  BY DEF Shape, TypeOK, Counted, Busy
<1>2. op[o].gen \in Gen
  BY <1>1, SessionAssumption DEF OpState, Gen, NoGen
<1> QED BY <1>2 DEF SoleLoop, Sole, Busy

LEMMA FileLoop ==
  ASSUME Shape, SoleLoop, OwnFile, NEW l \in Loop, LoopNext(l)
  PROVE  OwnFile'
<1>1. UNCHANGED LoopVars BY RegistryLoop
<1>2. loop[l].pc # "done"
  BY DEF LoopNext, Begin, Built, Opened, Record, Retry, GiveUp,
         ConnectionEnds, Closed, Dropped, Hit, Shape, Placed, Over
<1>3. \/ file' = file \/ file' = OpenedBy(loop[l].gen)
      \/ file' = Written(loop[l].gen)
  BY DEF LoopNext, Begin, Built, Opened, Record, Retry, GiveUp,
         ConnectionEnds, Closed, Dropped, Hit, Fails, LoggerStops
<1>4. file'.by \subseteq file.by \cup {loop[l].gen}
  BY <1>3 DEF OpenedBy, Written, Shape, TypeOK
<1>5. Inserting' <=> Inserting BY <1>1 DEF Inserting, LoopVars
<1>6. session' = session /\ stray' = stray
  BY <1>1 DEF LoopVars, registry, history
<1> QED BY <1>2, <1>4, <1>5, <1>6, LoopOwner DEF OwnFile

LEMMA FileOp ==
  ASSUME Shape, SoleLoop, OwnFile, NEW o \in Op, OpKinds(o)
  PROVE  OwnFile'
<1> USE SessionAssumption
<1>1. stray \subseteq stray' BY StrayGrows
<1>2. /\ op \in [Op -> OpState] /\ file.by \subseteq Gen /\ NoGen \notin Gen
  BY DEF Shape, TypeOK, Gen, NoGen
<1>3. Inserting => session = NoGen BY DEF Shape, IdHeld, Inserting
<1>4. ASSUME file' = file, Inserting' => Inserting,
             session' # NoGen => session # NoGen \/ Inserting,
             session' = session \/ session = NoGen \/ session' = NoGen
      PROVE  OwnFile'
  <2> SUFFICES ASSUME session' # NoGen \/ Inserting'
               PROVE  file.by \subseteq {session'} \cup stray'
    BY <1>4 DEF OwnFile
  <2>1. file.by \subseteq {session} \cup stray
    BY <1>4 DEF OwnFile
  <2>2. session' = session \/ session = NoGen BY <1>3, <1>4
  <2> QED BY <1>1, <1>2, <2>1, <2>2
<1>5. CASE Waits(o)
  <2>1. CASE file' = NoFile BY <2>1 DEF NoFile, OwnFile
  <2>2. CASE file' # NoFile
    <3> SUFFICES ASSUME session' # NoGen \/ Inserting'
                 PROVE  file.by \subseteq {session'} \cup stray'
      BY <1>5, <2>2 DEF Waits, OwnFile
    <3>1. file.by \subseteq {session} \cup stray
      BY <1>5, <2>2 DEF Waits, OwnFile
    <3>2. session' = session \/ session = NoGen BY <1>5 DEF Waits
    <3> QED BY <1>1, <1>2, <3>1, <3>2
  <2> QED BY <2>1, <2>2
<1>6. ASSUME NEW g \in Gen, Launches(o, g) PROVE OwnFile'
  <2>1. Inserting' => Inserting
    BY <1>2, <1>6 DEF Launches, Inserting, Idle
  <2> QED BY <1>4, <1>6, <2>1 DEF Launches
<1>7. ASSUME NEW g \in Gen, NEW why, Cancels(o, g, why) \/ Ends(o, g, why)
      PROVE  OwnFile'
  <2>1. PICK s : op' = [op EXCEPT ![o] = s] /\ s.pc # "insert"
    BY <1>7 DEF Cancels, Ends, EndsTo, Left, Idle
  <2>2. Inserting' => Inserting BY <1>2, <2>1 DEF Inserting
  <2>3. file' = file /\ session' \in {session, NoGen}
    BY <1>7 DEF Cancels, Ends, Claims, registry
  <2> QED BY <1>4, <2>2, <2>3
<1>8. CASE Flushed(o)
  <2>1. op[o].gen \in stray BY <1>8, FlushOwner DEF Flushed
  <2>2. file' = file \/ file' = Written(op[o].gen)
    BY <1>8 DEF Flushed, LoggerStops
  <2>3. file'.by \subseteq file.by \cup {op[o].gen}
    BY <2>2 DEF Written, Shape, TypeOK
  <2>4. session' = session /\ stray' = stray
    BY <1>8, FlushedForm DEF registry, history
  <2>5. Inserting' => Inserting BY <1>8, FlushedForm DEF Inserting
  <2> QED BY <2>1, <2>3, <2>4, <2>5 DEF OwnFile
<1>9. CASE TimesOut(o)
  <2>1. UNCHANGED <<registry, file, stray>> /\ (LateJoin(o) \/ LateStop(o))
    BY <1>9, TimesOutForm
  <2>2. Inserting' => Inserting
    BY <2>1 DEF LateJoin, LateStop, Inserting
  <2> QED BY <1>4, <2>1, <2>2 DEF registry
<1> QED
  BY <1>5, <1>6, <1>7, <1>8, <1>9 DEF OpKinds, Ending

\* A visible id serves what its session wrote, whatever stops, restarts,
\* cancellations and store failures came before: only a session that was
\* started again behind a stop's back can leave something of its own there.
THEOREM OwnEntriesOnly == Spec => []OwnEntries
<1>1. Init => OwnFile BY DEF Init, OwnFile, NoFile
<1>2. ASSUME Shape, SoleLoop, OwnFile, [Next]_vars
      PROVE  OwnFile'
  <2>1. CASE UNCHANGED vars
    BY <1>2, <2>1 DEF OwnFile, Inserting, vars, registry, history
  <2> QED BY <1>2, <2>1, FileLoop, FileOp, OpIsKind DEF Next
<1>3. OwnFile => OwnEntries BY DEF OwnFile, OwnEntries
<1> QED BY <1>1, <1>2, <1>3, SoleAlways, PTL DEF Spec

-----------------------------------------------------------------------------
(* What a stopped session leaves *)

\* Whoever waits for a loop waits on while the loop lives.
LEMMA JoinersStay ==
  ASSUME Shape, NEW o \in Op, OpKinds(o),
         NEW p \in Op, op[p].pc = "join", Alive(op[p].task)
  PROVE  op'[p].pc = "join" /\ op'[p].task = op[p].task
<1>1. op \in [Op -> OpState] BY DEF Shape, TypeOK
<1>2. CASE Waits(o) BY <1>1, <1>2 DEF Waits, Busy
<1>3. CASE \E g \in Gen : Launches(o, g) BY <1>1, <1>3 DEF Launches, Busy
<1>4. CASE Ending(o)
  <2>1. PICK g \in Gen, why \in {"delete", "stop", "restart"} :
           Cancels(o, g, why) \/ Ends(o, g, why)
    BY <1>4 DEF Ending
  <2>2. p # o BY <2>1 DEF Cancels, Ends, Claims
  <2>3. PICK s : op' = [op EXCEPT ![o] = s]
    BY <2>1 DEF Cancels, Ends, EndsTo
  <2> QED BY <1>1, <2>2, <2>3
<1>5. CASE Flushed(o) BY <1>5, FlushedForm
<1>6. CASE TimesOut(o) BY <1>6, TimesOutForm DEF LateJoin, LateStop
<1> QED BY <1>2, <1>3, <1>4, <1>5, <1>6 DEF OpKinds

LEMMA DyingLives ==
  ASSUME Shape, NEW l \in Loop, Dying(l)
  PROVE  Alive(l)
BY SessionAssumption DEF Shape, Placed, Dying, Over, Alive

\* Only the task of somebody who waits, or begins to wait, begins to die.
LEMMA DyingFrom ==
  ASSUME Shape, NEW o \in Op, OpKinds(o), NEW l \in Loop, Dying(l)'
  PROVE  Dying(l) \/ \E p \in Op : op'[p].pc = "join" /\ op'[p].task = l
<1>1. /\ loop \in [Loop -> LoopState] /\ op \in [Op -> OpState]
  BY DEF Shape, TypeOK
<1>2. ASSUME NEW g \in Gen, NEW q \in Runtime, Start(g, q) PROVE Dying(l)
  <2>1. CASE UNCHANGED <<loop, stray>> BY <2>1 DEF Dying
  <2>2. ASSUME NEW k \in Loop, NEW s \in LoopState, NEW r \in Runtime,
               Starts(g, q, k, s, r)
        PROVE  Dying(l)
    <3>1. loop' = [loop EXCEPT ![k] = s] /\ ~s.hit /\ s.then = "again"
      BY <2>2 DEF Starts
    <3> QED BY <1>1, <3>1 DEF Dying
  <2> QED BY <1>2, <2>1, <2>2, StartForm
<1>3. CASE UNCHANGED loop BY <1>3 DEF Dying
<1>4. ASSUME NEW g \in Gen, Launches(o, g) PROVE Dying(l)
  <2>1. rt[g] \in Runtime BY DEF Shape, TypeOK
  <2> QED BY <1>2, <1>4, <2>1 DEF Launches
<1>5. ASSUME NEW g \in Gen, NEW why, Cancels(o, g, why)
      PROVE  Dying(l) \/ \E p \in Op : op'[p].pc = "join" /\ op'[p].task = l
  <2>1. PICK s \in OpState : /\ op' = [op EXCEPT ![o] = s]
                             /\ s.pc = "join" /\ s.task = rt[g].task
    BY <1>5 DEF Cancels
  <2>2. op'[o].pc = "join" /\ op'[o].task = rt[g].task BY <1>1, <2>1
  <2>3. loop' = [loop EXCEPT ![rt[g].task].hit = TRUE] BY <1>5 DEF Cancels
  <2>4. CASE l = rt[g].task BY <2>2, <2>4
  <2>5. CASE l # rt[g].task BY <1>1, <2>3, <2>5 DEF Dying
  <2> QED BY <2>4, <2>5
<1>6. ASSUME NEW g \in Gen, NEW why, Ends(o, g, why) PROVE Dying(l)
  <2>1. PICK q \in Runtime, s \in OpState : EndsTo(o, g, why, q, s)
    BY <1>6 DEF Ends
  <2>2. CASE UNCHANGED loop BY <2>2 DEF Dying
  <2>3. CASE Start(g, q) BY <1>2, <2>3
  <2> QED BY <2>1, <2>2, <2>3 DEF EndsTo
<1>7. CASE TimesOut(o)
  <2>1. LateJoin(o) \/ LateStop(o) BY <1>7, TimesOutForm
  <2>2. CASE LateJoin(o)
    <3>1. CASE l = op[o].task BY <2>2, <3>1 DEF LateJoin
    <3>2. CASE l # op[o].task BY <2>2, <3>2 DEF LateJoin, Dying
    <3> QED BY <3>1, <3>2
  <2>3. CASE LateStop(o) BY <1>3, <2>3 DEF LateStop
  <2> QED BY <2>1, <2>2, <2>3
<1> QED
  BY <1>3, <1>4, <1>5, <1>6, <1>7
  DEF OpKinds, Ending, Waits, Flushed

LEMMA AwaitedOp ==
  ASSUME Shape, Awaited, NEW o \in Op, OpKinds(o)
  PROVE  Awaited'
<1> SUFFICES ASSUME NEW l \in Loop, Dying(l)'
             PROVE  \E p \in Op : op'[p].pc = "join" /\ op'[p].task = l
  BY DEF Awaited
<1>1. CASE Dying(l)
  <2>1. PICK p \in Op : op[p].pc = "join" /\ op[p].task = l
    BY <1>1 DEF Awaited
  <2>2. Alive(op[p].task) BY <1>1, <2>1, DyingLives
  <2> QED BY <2>1, <2>2, JoinersStay
<1> QED BY <1>1, DyingFrom

LEMMA AwaitedMoves ==
  ASSUME Shape, Awaited, NEW l \in Loop, Moves(l), UNCHANGED LoopVars
  PROVE  Awaited'
<1>1. op' = op BY DEF LoopVars
<1> SUFFICES ASSUME NEW k \in Loop, Dying(k)' PROVE Dying(k)
  BY <1>1 DEF Awaited
<1>2. loop \in [Loop -> LoopState] BY DEF Shape, TypeOK
<1>3. PICK s \in LoopState, r \in Runtime : MovesTo(l, s, r) BY DEF Moves
<1>4. /\ loop' = [loop EXCEPT ![l] = s] /\ ~s.hit
      /\ s.then = "cut" => Dying(l)
  BY <1>3 DEF MovesTo, Becomes, Over
<1> QED BY <1>2, <1>4 DEF Dying

LEMMA TendedMoves ==
  ASSUME Shape, Awaited, NEW l \in Loop, Moves(l), UNCHANGED LoopVars,
         NEW g \in Gen, Tended(g)
  PROVE  Tended(g)'
<1> USE SessionAssumption
<1>1. CASE g # loop[l].gen BY <1>1, SameMoves, SameTended
<1>2. CASE g = loop[l].gen
  <2>1. PICK s \in LoopState, r \in Runtime : MovesTo(l, s, r) BY DEF Moves
  <2>2. /\ loop \in [Loop -> LoopState] /\ rt \in [Gen -> Runtime]
        /\ op' = op /\ Alive(l)
    BY <1>2, LoopGen DEF Shape, TypeOK, LoopVars
  <2>3. loop' = [loop EXCEPT ![l] = s] /\ rt' = [rt EXCEPT ![g] = r]
    BY <1>2, <2>1 DEF MovesTo, Becomes
  <2>4. /\ \A k \in Loop \ {l} : loop'[k] = loop[k]
        /\ loop'[l] = s /\ rt'[g] = r
    BY <2>2, <2>3
  <2>5. CASE s # Over
    <3>1. loop'[l].gen = g BY <1>2, <2>1, <2>4, <2>5 DEF MovesTo
    <3>2. r.conn \/ r.log => s.pc # "drop" BY <2>1 DEF MovesTo
    <3>3. /\ ~r.down /\ r.stop => ~rt[g].down /\ rt[g].stop
          /\ MayRaise(s) => /\ rt[g].down => r.down
                            /\ r.stop \/ MayRaise(loop[l])
      BY <1>2, <2>1 DEF MovesTo, Keeps, Own
    <3>4. ~r.down /\ r.stop =>
            \E o \in Op : op'[o].gen = g /\ op'[o].pc \in Busy
      BY <2>2, <3>3 DEF Tended
    <3>5. ~r.down =>
            \/ \E k \in Loop : loop'[k].gen = g /\ ~MayRaise(loop'[k])
            \/ \E o \in Op : op'[o].gen = g /\ op'[o].pc \in Busy
      <4>1. CASE ~MayRaise(s) BY <2>4, <3>1, <4>1
      <4>2. CASE r.stop BY <3>4, <4>2
      <4>3. ASSUME MayRaise(s), MayRaise(loop[l]), ~r.down
            PROVE  \/ \E k \in Loop : loop'[k].gen = g /\ ~MayRaise(loop'[k])
                   \/ \E o \in Op : op'[o].gen = g /\ op'[o].pc \in Busy
        <5>1. ~rt[g].down BY <3>3, <4>3
        <5>2. \A k \in Loop : ~MayRaise(loop[k]) => loop'[k] = loop[k]
          BY <2>4, <4>3
        <5> QED BY <2>2, <5>1, <5>2 DEF Tended
      <4> QED BY <3>3, <4>1, <4>2, <4>3
    <3> QED BY <2>4, <3>1, <3>2, <3>4, <3>5 DEF Tended
  <2>6. CASE s = Over /\ Dying(l)
    <3>1. PICK o \in Op : op[o].pc = "join" /\ op[o].task = l
      BY <2>6 DEF Awaited
    <3>2. op[o].gen = g BY <1>2, <2>2, <3>1 DEF Shape, Placed
    <3> QED BY <2>2, <3>1, <3>2 DEF Tended, Busy
  <2>7. CASE s = Over /\ ~Dying(l)
    <3>1. /\ r.down \/ (MayRaise(loop[l]) /\ ~rt[g].down)
          /\ r.conn \/ r.log => loop[l].pc = "drop"
                                /\ (rt[g].conn \/ rt[g].log)
          /\ ~r.down /\ r.stop => ~rt[g].down /\ rt[g].stop
      BY <1>2, <2>1, <2>7 DEF MovesTo, Own, Keeps
    <3>2. r.conn \/ r.log =>
            \/ \E k \in Loop : loop'[k].gen = g /\ loop'[k].pc # "drop"
            \/ \E o \in Op : op'[o].gen = g /\ op'[o].pc \in Busy \ {"drop"}
      <4> SUFFICES ASSUME r.conn \/ r.log,
                          NEW k \in Loop, loop[k].gen = g, loop[k].pc # "drop"
                   PROVE  loop'[k].gen = g /\ loop'[k].pc # "drop"
        BY <2>2, <3>1 DEF Tended
      <4>1. k # l BY <3>1
      <4> QED BY <2>4, <4>1
    <3>3. ASSUME ~r.down
          PROVE  \/ \E k \in Loop : loop'[k].gen = g /\ ~MayRaise(loop'[k])
                 \/ \E o \in Op : op'[o].gen = g /\ op'[o].pc \in Busy
      <4>1. \A k \in Loop : ~MayRaise(loop[k]) => loop'[k] = loop[k]
        BY <2>4, <3>1, <3>3
      <4> QED BY <2>2, <3>1, <3>3, <4>1 DEF Tended
    <3>4. ~r.down /\ r.stop =>
            \E o \in Op : op'[o].gen = g /\ op'[o].pc \in Busy
      BY <2>2, <3>1 DEF Tended
    <3> QED BY <2>4, <3>2, <3>3, <3>4 DEF Tended
  <2> QED BY <2>5, <2>6, <2>7
<1> QED BY <1>1, <1>2

\* A session that starts is tended by its new loop.
LEMMA TendedStart ==
  ASSUME Shape, NEW g \in Gen, NEW q \in Runtime, Start(g, q),
         ~Alive(q.task)
  PROVE  Tended(g)'
<1>1. PICK l \in Loop, s \in LoopState, r \in Runtime : Starts(g, q, l, s, r)
  BY StartForm
<1>2. /\ loop \in [Loop -> LoopState] /\ rt \in [Gen -> Runtime]
  BY DEF Shape, TypeOK
<1>3. /\ loop'[l].gen = g /\ loop'[l].pc = "new" /\ loop'[l].then = "again"
      /\ ~rt'[g].stop
  BY <1>1, <1>2 DEF Starts
<1>4. ~MayRaise(loop'[l]) BY <1>3 DEF MayRaise
<1> QED BY <1>3, <1>4 DEF Tended

LEMMA TendedLaunches ==
  ASSUME Shape, NEW o \in Op, NEW f \in Gen, Launches(o, f),
         NEW g \in Gen, Tended(g)
  PROVE  Tended(g)'
<1>1. CASE g # f BY <1>1, SameLaunches, SameTended
<1>2. CASE g = f
  <2>1. /\ rt \in [Gen -> Runtime] /\ op \in [Op -> OpState]
    BY DEF Shape, TypeOK
  <2>2. CASE Alive(rt[g].task)
    <3>1. UNCHANGED <<rt, loop>> BY <1>2, <2>1, <2>2 DEF Launches, Start
    <3>2. \A p \in Op : op[p].pc \in Busy => op'[p] = op[p]
      BY <2>1 DEF Launches
    <3> QED BY <3>1, <3>2 DEF Tended
  <2>3. CASE ~Alive(rt[g].task)
    <3>1. rt[g] \in Runtime /\ Start(g, rt[g])
      BY <1>2, <2>1 DEF Launches
    <3> QED BY <2>3, <3>1, TendedStart
  <2> QED BY <2>2, <2>3
<1> QED BY <1>1, <1>2

LEMMA TendedEnding ==
  ASSUME Shape, NEW o \in Op, NEW f \in Gen, NEW why,
         Cancels(o, f, why) \/ Ends(o, f, why),
         NEW g \in Gen, Tended(g)
  PROVE  Tended(g)'
<1>1. CASE g # f BY <1>1, SameCancels, SameEnds, SameTended
<1>2. /\ rt \in [Gen -> Runtime] /\ op \in [Op -> OpState]
  BY DEF Shape, TypeOK
<1>3. CASE g = f /\ Cancels(o, f, why)
  <2>1. PICK s \in OpState : /\ op' = [op EXCEPT ![o] = s]
                             /\ s.pc = "join" /\ s.gen = g
    BY <1>3 DEF Cancels
  <2>2. op'[o].pc = "join" /\ op'[o].gen = g BY <1>2, <2>1
  <2> QED BY <2>2 DEF Tended, Busy
<1>4. CASE g = f /\ Ends(o, f, why)
  <2>1. PICK q \in Runtime, s \in OpState : EndsTo(o, g, why, q, s)
    BY <1>4 DEF Ends
  <2>2. op' = [op EXCEPT ![o] = s] /\ Left(o, g, why, q, s)
    BY <2>1 DEF EndsTo
  <2>3. op'[o] = s /\ \A p \in Op \ {o} : op'[p] = op[p] BY <1>2, <2>2
  <2>4. CASE rt' = [rt EXCEPT ![g] = q] /\ UNCHANGED <<loop, stray>>
    <3>1. rt'[g] = q BY <1>2, <2>4
    <3>2. CASE s.pc = "flush"
      <4>1. s.gen = g BY <2>2, <3>2 DEF Left, Idle
      <4> QED BY <2>3, <3>2, <4>1 DEF Tended, Busy
    <3>3. CASE s.pc # "flush"
      <4>1. q.conn \/ q.log => op[o].pc = "drop" /\ (rt[g].conn \/ rt[g].log)
        BY <2>2, <3>3 DEF Left
      <4>2. q.conn \/ q.log =>
              \/ \E l \in Loop : loop'[l].gen = g /\ loop'[l].pc # "drop"
              \/ \E p \in Op : op'[p].gen = g /\ op'[p].pc \in Busy \ {"drop"}
        BY <2>3, <2>4, <4>1 DEF Tended
      <4>3. ~q.down => s.gen = g /\ s.pc \in Busy
        BY <2>2, <3>3 DEF Left, Busy
      <4> QED BY <2>3, <3>1, <4>2, <4>3 DEF Tended
    <3> QED BY <3>2, <3>3
  <2>5. CASE Start(g, q)
    <3>1. CASE Alive(q.task)
      <4>1. rt' = [rt EXCEPT ![g] = q] /\ UNCHANGED <<loop, stray>>
        BY <2>5, <3>1 DEF Start
      <4> QED BY <2>4, <4>1
    <3>2. CASE ~Alive(q.task) BY <2>5, <3>2, TendedStart
    <3> QED BY <3>1, <3>2
  <2> QED BY <2>1, <2>4, <2>5 DEF EndsTo
<1> QED BY <1>1, <1>3, <1>4

LEMMA TendedOp ==
  ASSUME Shape, AllTended, NEW o \in Op, OpKinds(o)
  PROVE  AllTended'
<1>1. CASE TimesOut(o)
  <2>1. CASE LateJoin(o)
    <3> SUFFICES ASSUME NEW g \in Gen \ cut PROVE Tended(g)'
      BY <2>1 DEF LateJoin, AllTended
    <3>1. Tended(g) BY DEF AllTended
    <3>2. UNCHANGED registry BY <1>1, TimesOutForm
    <3>3. SameFor(g) BY <2>1, <3>2 DEF LateJoin, SameFor, registry
    <3> QED BY <3>1, <3>3, SameTended
  <2>2. CASE LateStop(o)
    <3> SUFFICES ASSUME NEW g \in Gen \ cut' PROVE Tended(g)'
      BY DEF AllTended
    <3>1. Tended(g) /\ g # op[o].gen BY <2>2 DEF LateStop, AllTended
    <3> QED BY <1>1, <3>1, SameTimesOut, SameTended
  <2> QED BY <1>1, <2>1, <2>2, TimesOutForm
<1>2. CASE ~TimesOut(o)
  <2>1. cut' = cut
    BY <1>2
    DEF OpKinds, Waits, Launches, Ending, Cancels, Ends, Flushed, history
  <2> SUFFICES ASSUME NEW g \in Gen \ cut PROVE Tended(g)'
    BY <2>1 DEF AllTended
  <2>2. Tended(g) BY DEF AllTended
  <2>3. CASE Waits(o) BY <2>2, <2>3, SameWaits, SameTended
  <2>4. CASE \E f \in Gen : Launches(o, f) BY <2>2, <2>4, TendedLaunches
  <2>5. CASE Ending(o) BY <2>2, <2>5, TendedEnding DEF Ending
  <2>6. CASE Flushed(o)
    <3>1. CASE g # op[o].gen BY <2>2, <2>6, <3>1, SameFlushed, SameTended
    <3>2. CASE g = op[o].gen
      <4>1. op'[o].gen = g /\ op'[o].pc \in {"flush", "closed"}
        BY <2>6, <3>2, FlushedForm DEF Flushed
      <4> QED BY <4>1 DEF Tended, Busy
    <3> QED BY <3>1, <3>2
  <2> QED BY <1>2, <2>3, <2>4, <2>5, <2>6 DEF OpKinds
<1> QED BY <1>1, <1>2

\* When the last operation on a session is over, it is visible and has a run
\* loop, or it has neither loop, connector nor open recording and says that it
\* is stopped; the exceptions are the sessions started behind a stop's back and
\* those of which a deletion cut the stop short.
THEOREM NothingLeftBehind == Spec => []NothingLeft
<1>1. ASSUME Init PROVE Awaited /\ AllTended
  <2>1. /\ \A l \in Loop : ~loop[l].hit /\ loop[l].then = "again"
        /\ \A g \in Gen : ~rt[g].conn /\ ~rt[g].log /\ rt[g].down
    BY <1>1 DEF Init, Over, Fresh
  <2> QED BY <2>1 DEF Awaited, Dying, AllTended, Tended
<1>2. ASSUME Shape, Awaited, AllTended, [Next]_vars
      PROVE  Awaited' /\ AllTended'
  <2>1. ASSUME NEW l \in Loop, LoopNext(l) PROVE Awaited' /\ AllTended'
    <3>1. UNCHANGED LoopVars BY <1>2, <2>1, RegistryLoop
    <3>2. cut' = cut BY <3>1 DEF LoopVars, history
    <3>3. CASE Record(l)
      <4>1. UNCHANGED <<rt, loop>> BY <3>3 DEF Record
      <4> QED
        BY <1>2, <3>1, <3>2, <4>1
        DEF Awaited, Dying, AllTended, Tended, LoopVars
    <3>4. CASE ~Record(l)
      <4>1. Moves(l) BY <1>2, <2>1, <3>4, LoopMoves
      <4>2. Awaited' BY <1>2, <3>1, <4>1, AwaitedMoves
      <4>3. AllTended'
        BY <1>2, <3>1, <3>2, <4>1, TendedMoves DEF AllTended
      <4> QED BY <4>2, <4>3
    <3> QED BY <3>3, <3>4
  <2>2. ASSUME NEW o \in Op, OpNext(o) PROVE Awaited' /\ AllTended'
    BY <1>2, <2>2, OpIsKind, AwaitedOp, TendedOp
  <2>3. CASE UNCHANGED vars
    BY <1>2, <2>3
    DEF Awaited, Dying, AllTended, Tended, vars, registry, history
  <2> QED BY <1>2, <2>1, <2>2, <2>3 DEF Next
<1>3. ASSUME Shape, SoleLoop, AllTended PROVE NothingLeft
  <2> SUFFICES ASSUME NEW g \in Gen \ cut, \A o \in Op : op[o].gen # g
               PROVE  IF HasLoop(g) THEN g \in {session} \cup stray
                      ELSE ~rt[g].conn /\ ~rt[g].log /\ rt[g].down
    BY DEF NothingLeft
  <2>1. CASE HasLoop(g)
    BY <1>3, <2>1 DEF SoleLoop, Sole, Deleting
  <2>2. CASE ~HasLoop(g)
    BY <1>3, <2>2 DEF AllTended, Tended, HasLoop
  <2> QED BY <2>1, <2>2
<1> QED BY <1>1, <1>2, <1>3, SoleAlways, PTL DEF Spec
=============================================================================
