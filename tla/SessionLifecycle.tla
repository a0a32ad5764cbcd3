-------------------------- MODULE SessionLifecycle --------------------------
(***************************************************************************)
(* The hosted sessions that one id names, one after the other: the         *)
(* registry that creates and deletes them (registry.py), the runtime that  *)
(* starts, stops and restarts each (runtime.py, runtime_connection.py) and *)
(* the recording that the id names in the store (recording.py,             *)
(* session_logger.py).                                                     *)
(*                                                                         *)
(* A request or a background deletion is an operation, a run of _run() is  *)
(* a loop.  A step is what either does between two awaits.  Requests meet  *)
(* at every await of stop(): each of them found the runtime in the         *)
(* registry before it began to wait, and goes on with it whatever the      *)
(* registry says by then.                                                  *)
(*                                                                         *)
(* The recording is abstracted to the sessions that wrote what the id      *)
(* serves and the one that opened it.  A lifecycle state other than        *)
(* "stopped" is one value; the connector, the link to the hub and the      *)
(* store answer, fail or are cancelled at any await.                       *)
(***************************************************************************)
EXTENDS Naturals, FiniteSets

CONSTANTS Op,      \* requests and deletions in progress at a time
          Loop,    \* run loops alive at a time
          None,    \* no operation, no loop
          MaxGen   \* bound: the sessions that the id names in turn

ASSUME SessionAssumption ==
  /\ None \notin Op \cup Loop
  /\ MaxGen \in Nat \ {0}

Gen   == 1..MaxGen
NoGen == 0

VARIABLES
  session,  \* _sessions[id] and _runtimes[id]
  holder,   \* _retiring[id]: the operation that reserved the id
  made,     \* how many sessions there were
  rt,       \* each session's runtime
  loop,     \* each run loop
  op,       \* each operation
  file,     \* the recording served under the id
  stray,    \* history: the sessions with a run loop that nobody will stop
  cut       \* history: the sessions of which a stop was cut short

registry == <<session, holder, made>>
history  == <<stray, cut>>
vars     == <<registry, rt, loop, op, file, history>>

\* task: _task; stop: _stop is set; conn: _connector; log: _logger; down:
\* whether _state is "stopped".
Runtime == [task: Loop \cup {None}, stop: BOOLEAN, conn: BOOLEAN,
            log: BOOLEAN, down: BOOLEAN]
Fresh   == [task |-> None, stop |-> FALSE, conn |-> FALSE, log |-> FALSE,
            down |-> TRUE]

\* Where a loop waits, whether it was cancelled there, and what the finally
\* clause that it is in leads to: another connection, the end of the loop, that
\* of _stop_connector, which may raise, or the end of the task.
LoopState == [pc: {"new", "build", "open", "link", "back", "close", "drop",
                   "done"},
              gen: 0..MaxGen, hit: BOOLEAN,
              then: {"again", "leave", "stop", "raise", "cut"}]
Over      == [pc |-> "done", gen |-> NoGen, hit |-> FALSE, then |-> "again"]

\* Where an operation waits, for which session, for which loop, why it stops
\* the session and whether its timer has run out.
OpState == [pc: {"idle", "wait", "clear", "insert", "save", "grace", "join",
                 "flush", "closed", "drop", "retire"},
            gen: 0..MaxGen, task: Loop \cup {None},
            why: {"delete", "stop", "restart"}, late: BOOLEAN]
Idle    == [pc |-> "idle", gen |-> NoGen, task |-> None, why |-> "stop",
            late |-> FALSE]

Alive(l) == l # None /\ loop[l].pc # "done"

-----------------------------------------------------------------------------
(* The recording *)

\* A start by another session than the one that opened the recording moves it
\* aside.
OpenedBy(g) ==
  [by |-> IF file.opener = g THEN file.by \cup {g} ELSE {g}, opener |-> g]

\* Whatever is written goes to what the id names.
Written(g) == [file EXCEPT !.by = @ \cup {g}]

NoFile == [by |-> {}, opener |-> NoGen]

\* The last flush and log_stop of a logger: there may be nothing to write, and
\* the store may fail.
LoggerStops(g) == file' \in {file, Written(g)}

-----------------------------------------------------------------------------
(* The run loop *)

\* Loop l and its runtime become these.
Becomes(l, s, r) ==
  /\ loop' = [loop EXCEPT ![l] = s]
  /\ rt' = [rt EXCEPT ![loop[l].gen] = r]

At(l, pc) == [loop[l] EXCEPT !.pc = pc, !.hit = FALSE, !.then = "again"]

\* _start_recording: the logger is there before its start is awaited.
Records(l, r) ==
  IF r.log THEN Becomes(l, At(l, "link"), r)
           ELSE Becomes(l, At(l, "open"), [r EXCEPT !.log = TRUE])

\* The top of the loop: a connector that is still connected is kept, any other
\* is replaced.
Attempt(l, r) ==
  LET up == [r EXCEPT !.down = FALSE]
  IN  \/ r.conn /\ Records(l, up)
      \/ Becomes(l, At(l, "build"), [up EXCEPT !.conn = FALSE])

\* The finally clause of _stop_connector.  The state is set unless the closing
\* of the recording was cancelled or raised.
TakeDown(l, then, r) ==
  IF r.conn
  THEN Becomes(l, [At(l, "drop") EXCEPT !.then = then],
                  [r EXCEPT !.conn = FALSE])
  ELSE Becomes(l, Over, [r EXCEPT !.down = @ \/ then # "raise"])

\* After the loop: _stop_connector.
LeaveLoop(l, r) ==
  IF r.log THEN Becomes(l, [At(l, "close") EXCEPT !.then = "stop"], r)
           ELSE TakeDown(l, "stop", r)

\* What the finally clause of a connection leads to.
GoOn(l, then, r) ==
  \/ then = "again" /\ ~r.stop /\ Attempt(l, r)
  \/ then = "again" /\ r.stop /\ LeaveLoop(l, r)
  \/ then = "leave" /\ LeaveLoop(l, r)
  \/ then = "stop" /\ (TakeDown(l, "stop", r) \/ TakeDown(l, "raise", r))
  \/ then = "cut" /\ Becomes(l, Over, r)

\* The finally clause: the recording belongs to the connection that ended.
EndConnection(l, then, r) ==
  IF r.log THEN Becomes(l, [At(l, "close") EXCEPT !.then = then], r)
           ELSE GoOn(l, then, r)

Own(l) == rt[loop[l].gen]

LoopVars == <<registry, op, history>>

Begin(l) ==
  /\ loop[l].pc = "new" /\ ~loop[l].hit
  /\ GoOn(l, "again", Own(l))
  /\ UNCHANGED <<LoopVars, file>>

Built(l) ==
  /\ loop[l].pc = "build" /\ ~loop[l].hit
  /\ Records(l, [Own(l) EXCEPT !.conn = TRUE])
  /\ UNCHANGED <<LoopVars, file>>

Opened(l) ==
  /\ loop[l].pc = "open" /\ ~loop[l].hit
  /\ Becomes(l, At(l, "link"), Own(l))
  /\ file' = OpenedBy(loop[l].gen)
  /\ UNCHANGED LoopVars

\* The logger writes a batch while the loop is connected, or backs off.
Record(l) ==
  /\ loop[l].pc \in {"link", "back"} /\ Own(l).log
  /\ file' = Written(loop[l].gen)
  /\ UNCHANGED <<LoopVars, rt, loop>>

\* An attempt fails or is cancelled; the store may have opened the recording.
Fails(l) ==
  \/ UNCHANGED file
  \/ loop[l].pc = "open" /\ file' = OpenedBy(loop[l].gen)

\* The connector, the store or the connection fails: back off ...
Retry(l) ==
  /\ loop[l].pc \in {"build", "open", "link"} /\ ~loop[l].hit
  /\ Becomes(l, At(l, "back"), Own(l))
  /\ Fails(l)
  /\ UNCHANGED LoopVars

\* ... or give up: a bad configuration, a refused worker.
GiveUp(l) ==
  /\ loop[l].pc \in {"build", "open", "link"} /\ ~loop[l].hit
  /\ EndConnection(l, "leave", Own(l))
  /\ Fails(l)
  /\ UNCHANGED LoopVars

\* The bridge sees that the session is stopped, or the back-off is over.
ConnectionEnds(l) ==
  /\ ~loop[l].hit
  /\ \/ loop[l].pc = "back"
     \/ loop[l].pc = "link" /\ Own(l).stop
  /\ EndConnection(l, "again", Own(l))
  /\ UNCHANGED <<LoopVars, file>>

\* The logger has stopped.  A cancellation may have been taken by the wait for
\* its flush task, which suppresses it.
Closed(l) ==
  /\ loop[l].pc = "close"
  /\ GoOn(l, loop[l].then, [Own(l) EXCEPT !.log = FALSE])
  /\ LoggerStops(loop[l].gen)
  /\ UNCHANGED LoopVars

\* The connector has stopped.
Dropped(l) ==
  /\ loop[l].pc = "drop" /\ ~loop[l].hit
  /\ Becomes(l, Over, [Own(l) EXCEPT !.down = @ \/ loop[l].then # "raise"])
  /\ UNCHANGED <<LoopVars, file>>

\* CancelledError at an await; a bridge that was failing swallows it.
Hit(l) ==
  /\ loop[l].hit
  /\ \/ /\ loop[l].pc \in {"build", "open", "link", "back"}
        /\ EndConnection(l, "cut", Own(l))
     \/ /\ loop[l].pc = "link"
        /\ Becomes(l, At(l, "back"), Own(l))
     \/ /\ loop[l].pc = "close"
        /\ LET r == [Own(l) EXCEPT !.log = FALSE]
           IN  IF loop[l].then = "stop" THEN TakeDown(l, "raise", r)
                                        ELSE Becomes(l, Over, r)
     \/ /\ loop[l].pc \in {"new", "drop"}
        /\ Becomes(l, Over, Own(l))
  /\ Fails(l)
  /\ UNCHANGED LoopVars

-----------------------------------------------------------------------------
(* Starting and stopping a runtime *)

OpTo(o, s) == op' = [op EXCEPT ![o] = s]

Unused(l) ==
  /\ loop[l].pc = "done"
  /\ \A o \in Op : op[o].task # l
  /\ \A g \in Gen : rt[g].task # l

Stopping(g) == \E o \in Op : /\ op'[o].pc \in {"join", "flush", "closed", "drop"}
                             /\ op'[o].gen = g

\* start(), on a runtime that is r by now.  A run loop that is not done stays
\* the only one.  Nobody will stop a loop that starts after its session was
\* deleted, or while a stop is in progress, which forgets it.
Start(g, r) ==
  \/ /\ Alive(r.task)
     /\ rt' = [rt EXCEPT ![g] = r]
     /\ UNCHANGED <<loop, stray>>
  \/ /\ ~Alive(r.task)
     /\ \E l \in Loop :
          /\ Unused(l)
          /\ rt' = [rt EXCEPT ![g] = [r EXCEPT !.task = l, !.stop = FALSE,
                                               !.down = FALSE]]
          /\ loop' = [loop EXCEPT ![l] = [Over EXCEPT !.pc = "new",
                                                      !.gen = g]]
     /\ stray' = IF g # session' \/ Stopping(g) THEN stray \cup {g}
                                               ELSE stray

\* stop() has come to its end for operation o, which is p: the state is set,
\* and then what it was called for.  A stop that raises ends a restart.
Stopped(o, p, r) ==
  LET down == [r EXCEPT !.down = TRUE]
  IN  \/ /\ p.why = "restart"
         /\ OpTo(o, Idle)
         /\ Start(p.gen, down)
      \/ /\ rt' = [rt EXCEPT ![p.gen] = down]
         /\ OpTo(o, IF p.why = "delete"
                    THEN [p EXCEPT !.pc = "retire", !.task = None]
                    ELSE Idle)
         /\ UNCHANGED <<loop, stray>>

\* Mutant: stop() forgets the connector.
DiscardNothing(o, p, r) == Stopped(o, p, [r EXCEPT !.task = None])

\* The task is forgotten and the connector taken down.
Discard(o, p, r) ==
  LET free == [r EXCEPT !.task = None]
  IN  IF r.conn
      THEN /\ rt' = [rt EXCEPT ![p.gen] = [free EXCEPT !.conn = FALSE]]
           /\ OpTo(o, [p EXCEPT !.pc = "drop", !.task = None])
           /\ UNCHANGED <<loop, stray>>
      ELSE Stopped(o, p, free)

\* The run task is over: a recording that is still open is closed.
CloseRecording(o, p, r) ==
  IF r.log
  THEN /\ rt' = [rt EXCEPT ![p.gen] = r]
       /\ OpTo(o, [p EXCEPT !.pc = "flush", !.task = None])
       /\ UNCHANGED <<loop, stray>>
  ELSE Discard(o, p, r)

\* Mutant: a deletion tells the loop to stop and does not wait for it.
BeginStopOnly(o, g, why) ==
  LET r == [rt[g] EXCEPT !.stop = TRUE]
      p == [Idle EXCEPT !.pc = IF why = "delete" THEN "retire" ELSE "join",
                        !.gen = g, !.task = r.task, !.why = why]
  IN  IF Alive(r.task)
      THEN /\ rt' = [rt EXCEPT ![g] = r]
           /\ loop' = [loop EXCEPT ![r.task].hit = TRUE]
           /\ OpTo(o, p)
           /\ UNCHANGED stray
      ELSE CloseRecording(o, p, r)

\* stop() begins: the loop is told to stop, cancelled and waited for.
BeginStop(o, g, why) ==
  LET r == [rt[g] EXCEPT !.stop = TRUE]
      p == [Idle EXCEPT !.pc = "join", !.gen = g, !.task = r.task,
                        !.why = why]
  IN  IF Alive(r.task)
      THEN /\ rt' = [rt EXCEPT ![g] = r]
           /\ loop' = [loop EXCEPT ![r.task].hit = TRUE]
           /\ OpTo(o, p)
           /\ UNCHANGED stray
      ELSE CloseRecording(o, p, r)

Joined(o) ==
  /\ op[o].pc = "join" /\ ~Alive(op[o].task)
  /\ UNCHANGED <<registry, file, cut>>
  /\ CloseRecording(o, op[o], rt[op[o].gen])

\* Two stops of one logger take turns: the second finds nothing to write.
LoggerDone(g) ==
  [o \in Op |-> IF op[o].pc = "flush" /\ op[o].gen = g
                THEN [op[o] EXCEPT !.pc = "closed"] ELSE op[o]]

\* The logger has stopped.
Flushed(o) ==
  /\ op[o].pc = "flush"
  /\ op' = LoggerDone(op[o].gen)
  /\ LoggerStops(op[o].gen)
  /\ UNCHANGED <<registry, rt, loop, history>>

\* The operation drops the logger, whichever it is by now.
Closing(o) ==
  /\ op[o].pc = "closed"
  /\ UNCHANGED <<registry, file, cut>>
  /\ Discard(o, op[o], [rt[op[o].gen] EXCEPT !.log = FALSE])

ConnectorStopped(o) ==
  /\ op[o].pc = "drop"
  /\ UNCHANGED <<registry, file, cut>>
  /\ Stopped(o, op[o], rt[op[o].gen])

\* A deletion has waited long enough.  It waits so once: a timer that runs out
\* in the wait for the run task cancels that task again and is swallowed, in
\* any other wait it ends the stop, and the deletion goes on.
TimesOut(o) ==
  /\ op[o].why = "delete" /\ ~op[o].late
  /\ \/ /\ op[o].pc = "join" /\ Alive(op[o].task)
        /\ loop' = [loop EXCEPT ![op[o].task].hit = TRUE]
        /\ OpTo(o, [op[o] EXCEPT !.late = TRUE])
        /\ UNCHANGED <<rt, history>>
     \/ /\ op[o].pc \in {"flush", "drop"}
        /\ rt' = [rt EXCEPT ![op[o].gen].log = @ /\ op[o].pc # "flush"]
        /\ OpTo(o, [op[o] EXCEPT !.pc = "retire", !.task = None])
        /\ cut' = cut \cup {op[o].gen}
        /\ UNCHANGED <<loop, stray>>
  /\ UNCHANGED <<registry, file>>

-----------------------------------------------------------------------------
(* The registry *)

\* Mutant: the reservation is left behind as a session.
ReleaseTo(o) == holder' = IF holder = o THEN NoGen ELSE holder

\* _release_mine: a later holder's reservation is never released.
Release(o) == holder' = IF holder = o THEN None ELSE holder

Create(o) ==
  /\ op[o].pc \in {"idle", "wait"}
  /\ session = NoGen /\ made < MaxGen
  /\ \/ holder = None /\ holder' = o /\ OpTo(o, [Idle EXCEPT !.pc = "clear"])
     \/ /\ holder # None /\ op[o].pc = "idle"
        /\ OpTo(o, [Idle EXCEPT !.pc = "wait"])
        /\ UNCHANGED holder
  /\ UNCHANGED <<session, made, rt, loop, file, history>>

\* The id was not released in time, or it names a session again.
CreateRefused(o) ==
  /\ op[o].pc = "wait"
  /\ OpTo(o, Idle)
  /\ UNCHANGED <<registry, rt, loop, file, history>>

Cleared(o) ==
  /\ op[o].pc = "clear"
  /\ file' = NoFile
  /\ OpTo(o, [op[o] EXCEPT !.pc = "insert"])
  /\ UNCHANGED <<registry, rt, loop, history>>

\* Mutant: a create that fails keeps its reservation.
CreateLeaks(o) ==
  /\ op[o].pc \in {"clear", "insert"}
  /\ OpTo(o, Idle)
  /\ UNCHANGED <<registry, rt, loop, file, history>>

\* The store fails, the registry is full, the request is cancelled.
CreateFails(o) ==
  /\ op[o].pc \in {"clear", "insert"}
  /\ Release(o) /\ OpTo(o, Idle)
  /\ UNCHANGED <<session, made, rt, loop, file, history>>

\* The id is released and the session inserted in one step.  A session that is
\* to be started is started now, or after its definition was saved.
Inserted(o) ==
  /\ op[o].pc = "insert"
  /\ Release(o)
  /\ made' = made + 1 /\ session' = made + 1
  /\ \/ OpTo(o, Idle) /\ UNCHANGED <<rt, loop, stray>>
     \/ OpTo(o, Idle) /\ Start(made + 1, Fresh)
     \/ /\ OpTo(o, [op[o] EXCEPT !.pc = "save", !.gen = made + 1])
        /\ UNCHANGED <<rt, loop, stray>>
  /\ UNCHANGED <<file, cut>>

Saved(o) ==
  /\ op[o].pc = "save"
  /\ UNCHANGED <<registry, file, cut>>
  /\ OpTo(o, Idle) /\ Start(op[o].gen, rt[op[o].gen])

\* The session leaves the registry and its id is reserved until the runtime has
\* stopped and the recording is retired.
Remove(o) ==
  /\ session' = NoGen /\ holder' = o
  /\ BeginStop(o, session, "delete")
  /\ UNCHANGED <<made, file, cut>>

\* A deletion finds nothing to do while another call holds the id.  An id that
\* names no session is reserved and its recording retired all the same.
Delete(o) ==
  /\ op[o].pc = "idle" /\ holder = None
  /\ \/ session # NoGen /\ Remove(o)
     \/ /\ session = NoGen
        /\ holder' = o /\ OpTo(o, [Idle EXCEPT !.pc = "retire"])
        /\ UNCHANGED <<session, made, rt, loop, file, history>>

\* The last browser has gone: after a grace period the session is deleted if it
\* is still the same.
WorkerEmpty(o) ==
  /\ op[o].pc = "idle" /\ session # NoGen
  /\ OpTo(o, [Idle EXCEPT !.pc = "grace", !.gen = session])
  /\ UNCHANGED <<registry, rt, loop, file, history>>

GraceOver(o) ==
  /\ op[o].pc = "grace"
  /\ \/ session = op[o].gen /\ Remove(o)
     \/ OpTo(o, Idle) /\ UNCHANGED <<registry, rt, loop, file, history>>

\* The recording is retired, unless the store fails, and the id released,
\* whoever holds it.
Retired(o) ==
  /\ op[o].pc = "retire"
  /\ file' \in {NoFile, file}
  /\ holder' = None /\ OpTo(o, Idle)
  /\ UNCHANGED <<session, made, rt, loop, history>>

StartSession(o) ==
  /\ op[o].pc = "idle" /\ session # NoGen
  /\ UNCHANGED <<registry, op, file, cut>>
  /\ Start(session, rt[session])

StopSession(o) ==
  /\ op[o].pc = "idle" /\ session # NoGen
  /\ UNCHANGED <<registry, file, cut>>
  /\ \E why \in {"stop", "restart"} : BeginStop(o, session, why)

-----------------------------------------------------------------------------
\* The first session comes from the configuration, stopped.
Init ==
  /\ session = 1 /\ made = 1 /\ holder = None
  /\ rt = [g \in Gen |-> Fresh]
  /\ loop = [l \in Loop |-> Over]
  /\ op = [o \in Op |-> Idle]
  /\ file = NoFile
  /\ stray = {} /\ cut = {}

LoopNext(l) ==
  \/ Begin(l) \/ Built(l) \/ Opened(l) \/ Record(l)
  \/ Retry(l) \/ GiveUp(l) \/ ConnectionEnds(l)
  \/ Closed(l) \/ Dropped(l) \/ Hit(l)

OpNext(o) ==
  \/ Create(o) \/ CreateRefused(o) \/ Cleared(o) \/ CreateFails(o)
  \/ Inserted(o) \/ Saved(o)
  \/ Delete(o) \/ WorkerEmpty(o) \/ GraceOver(o) \/ Retired(o)
  \/ StartSession(o) \/ StopSession(o)
  \/ Joined(o) \/ Flushed(o) \/ Closing(o) \/ ConnectorStopped(o)
  \/ TimesOut(o)

Next ==
  \/ \E l \in Loop : LoopNext(l)
  \/ \E o \in Op : OpNext(o)

Spec == Init /\ [][Next]_vars

-----------------------------------------------------------------------------
(* Properties *)

\* Every variable has its type.
TypeOK ==
  /\ session \in 0..MaxGen /\ made \in 0..MaxGen
  /\ holder \in Op \cup {None}
  /\ rt \in [Gen -> Runtime]
  /\ loop \in [Loop -> LoopState]
  /\ op \in [Op -> OpState]
  /\ file \in [by: SUBSET Gen, opener: 0..MaxGen]
  /\ stray \subseteq Gen /\ cut \subseteq Gen

\* While a session is visible nobody has reserved its id, and a reserved id is
\* held by exactly one operation, which is creating or deleting
\* (registry.py:126-133, 175-187).
IdHeld ==
  /\ session # NoGen => holder = None
  /\ \A o \in Op :
       holder = o <=> \/ op[o].pc \in {"clear", "insert", "retire"}
                      \/ /\ op[o].pc \in {"join", "flush", "closed", "drop"}
                         /\ op[o].why = "delete"

\* What the id serves while it names a session was written by that session, or
\* by one that was started again after it was deleted (registry.py:126-130).
OwnEntries == session # NoGen => file.by \subseteq {session} \cup stray

HasLoop(g) == \E l \in Loop : loop[l].gen = g

\* A session that no operation works on has a run loop, which only a session
\* that can be named, or that was started again, still has; or it has neither
\* loop, connector nor open recording and says that it is stopped.  The
\* exception is a session of which a deletion cut the stop short
\* (runtime.py:221-235, registry.py:126-130).
NothingLeft ==
  \A g \in Gen \ cut : (\A o \in Op : op[o].gen # g) =>
    IF HasLoop(g) THEN g \in {session} \cup stray
                  ELSE ~rt[g].conn /\ ~rt[g].log /\ rt[g].down

\* A new session is never served what another wrote (registry.py:126-130).
NoForeignEntries == session # NoGen => file.by \subseteq {session}
=============================================================================
