------------------------------ MODULE EventFeed ------------------------------
(***************************************************************************)
(* The events of one worker id: the ring that numbers them                 *)
(* (router_impl.py), the bus that hands them to subscribers (event_bus.py) *)
(* and the worker's connections, whose ends end the subscriptions          *)
(* (connection.py, connection_hijack.py, core_delegates_connection.py).    *)
(*                                                                         *)
(* A number is given, the ring trimmed and the bus served without an await *)
(* in between, so AppendEvent is one step.  What is not one step is        *)
(* disconnect_worker, which takes the connection away and ends the         *)
(* subscriptions only after it has told every browser: the worker may have *)
(* come back by then, or the request have been cancelled.  A send that     *)
(* fails takes the connection away and ends nothing.                       *)
(*                                                                         *)
(* An event is its identity and its size in bytes.  Filters by type and    *)
(* pattern are left out: a subscription here accepts every event.  The     *)
(* second, private bus of the hub is served and closed at the same places. *)
(***************************************************************************)
EXTENDS Integers, Sequences, FiniteSets, FiniteSetsExt

CONSTANTS Conn,        \* the worker's sockets
          Sub,         \* subscriptions
          None,        \* no socket
          Size,        \* the sizes an event may have
          RingCap,     \* _event_deque_maxlen
          QueueCap,    \* max_queue_depth
          QueueBytes,  \* max_queue_bytes
          MaxSubs,     \* max_subscribers_per_worker
          Limit,       \* the page size of the reader
          MaxEvents    \* bound: events appended

ASSUME FeedAssumption ==
  /\ None \notin Conn
  /\ Size \subseteq Nat \ {0}
  /\ {RingCap, QueueCap, QueueBytes, MaxSubs, Limit} \subseteq Nat \ {0}
  /\ MaxEvents \in Nat

VARIABLES
  ws,       \* st.worker_ws
  entry,    \* whether the registry holds an entry of this worker
  conn,     \* each socket's handler: "new", "open", "done"
  cut,      \* its disconnect_worker: "no", "closing", "done", "broken"
  lost,     \* history: the sockets a failed send took away
  latest,   \* history: the socket that registered last
  seq,      \* st.event_seq
  ring,     \* st.events, the numbers it holds
  minSeq,   \* st.min_event_seq
  total,    \* history: the events appended, under every entry
  closed,   \* EventBus._closed
  subs,     \* EventBus._subs
  sub,      \* each subscription
  page      \* the lease holder that reads the ring page by page

connVars == <<ws, entry, conn, cut, lost, latest>>
ringVars == <<seq, ring, minSeq, total>>
busVars  == <<closed, subs, sub>>
vars     == <<connVars, ringVars, busVars, page>>

\* What a queue holds.  The sentinel weighs nothing.
End   == [id |-> 0, size |-> 0]
Event == [id: 1..MaxEvents, size: Size]

\* A subscription: its queue and its count of drops; as history how many events
\* it took, the last of them, the events of its time, (from, upto], and the
\* socket that was connected when it began.
Subscription ==
  [state: {"idle", "watching", "left", "ended"}, queue: Seq(Event \cup {End}),
   dropped: Nat, taken: Nat, last: Nat, from: Nat, upto: Nat,
   on: Conn \cup {None}]

Unused == [state |-> "idle", queue |-> <<>>, dropped |-> 0, taken |-> 0,
           last |-> 0, from |-> 0, upto |-> 0, on |-> None]

NoPage == [held |-> FALSE, cursor |-> 0, read |-> {}, told |-> {}]

-----------------------------------------------------------------------------
(* The bus *)

Bytes(q) == MapThenSumSet(LAMBDA i : q[i].size, DOMAIN q)

Fits(q, e) == Len(q) < QueueCap /\ Bytes(q) + e.size <= QueueBytes

\* Mutant: only the depth of the queue counts.
EvictedByDepth(q, e) == IF Len(q) < QueueCap THEN 0 ELSE 1

\* How many of the oldest go to make room for e.
Evicted(q, e) ==
  CHOOSE k \in 0..Len(q) :
    /\ k = Len(q) \/ Fits(SubSeq(q, k + 1, Len(q)), e)
    /\ \A j \in 0..(k - 1) : ~Fits(SubSeq(q, j + 1, Len(q)), e)

\* An event that does not fit into an empty queue is dropped itself.
Delivered(r, e) ==
  IF e.size > QueueBytes
  THEN [r EXCEPT !.dropped = @ + 1]
  ELSE LET k == Evicted(r.queue, e)
       IN  [r EXCEPT !.queue = Append(SubSeq(@, k + 1, Len(@)), e),
                     !.dropped = @ + k]

\* Mutant: _put_sentinel does not count what it drops.
PutEndUncounted(r) ==
  IF Len(r.queue) < QueueCap
  THEN [r EXCEPT !.queue = Append(@, End)]
  ELSE [r EXCEPT !.queue = Append(Tail(@), End)]

\* Mutant: the sentinel is suppressed like an event when the queue is full.
PutEndIfRoom(r) ==
  IF Len(r.queue) < QueueCap THEN [r EXCEPT !.queue = Append(@, End)] ELSE r

\* The oldest goes if the queue is full, and is counted.
PutEnd(r) ==
  IF Len(r.queue) < QueueCap
  THEN [r EXCEPT !.queue = Append(@, End)]
  ELSE [r EXCEPT !.queue = Append(Tail(@), End), !.dropped = @ + 1]

\* Every subscription is woken and forgotten.
CloseWorker ==
  /\ sub' = [s \in Sub |-> IF s \in subs
                           THEN [PutEnd(sub[s]) EXCEPT !.upto = total]
                           ELSE sub[s]]
  /\ subs' = {}

Watch(s) ==
  /\ sub[s].state = "idle"
  /\ Cardinality(subs) < MaxSubs
  /\ LET r == [Unused EXCEPT !.state = "watching", !.from = total,
                             !.upto = total, !.on = ws]
     IN  IF closed
         THEN /\ sub' = [sub EXCEPT ![s] = PutEnd(r)]
              /\ UNCHANGED subs
         ELSE /\ sub' = [sub EXCEPT ![s] = r]
              /\ subs' = subs \cup {s}
  /\ UNCHANGED <<connVars, ringVars, closed, page>>

\* The consumer takes the head of its queue; the sentinel ends it.
Get(s) ==
  /\ sub[s].state = "watching"
  /\ sub[s].queue # <<>>
  /\ LET r == sub[s]
     IN  sub' = [sub EXCEPT ![s] =
                   IF Head(r.queue) = End
                   THEN [r EXCEPT !.queue = Tail(@), !.state = "ended"]
                   ELSE [r EXCEPT !.queue = Tail(@), !.taken = @ + 1,
                                  !.last = Head(r.queue).id]]
  /\ UNCHANGED <<connVars, ringVars, closed, subs, page>>

\* The consumer leaves: a timeout, enough events, a cancellation.
Leave(s) ==
  /\ sub[s].state = "watching"
  /\ sub' = [sub EXCEPT ![s].state = "left",
                        ![s].upto = IF s \in subs THEN total ELSE @]
  /\ subs' = subs \ {s}
  /\ UNCHANGED <<connVars, ringVars, closed, page>>

Close ==
  /\ ~closed /\ closed' = TRUE
  /\ CloseWorker
  /\ UNCHANGED <<connVars, ringVars, page>>

-----------------------------------------------------------------------------
(* The ring *)

Kept(q) == IF Len(q) > RingCap THEN Tail(q) ELSE q

Oldest(q) == IF q = <<>> THEN 0 ELSE Head(q)

\* Mutant: min_event_seq is taken before the ring is appended to.
AppendEventLate(size) ==
  /\ entry /\ total < MaxEvents
  /\ total' = total + 1
  /\ seq' = seq + 1
  /\ ring' = Kept(Append(ring, seq + 1))
  /\ minSeq' = Oldest(ring)
  /\ sub' = [s \in Sub |-> IF s \in subs
                           THEN Delivered(sub[s], [id |-> total + 1,
                                                   size |-> size])
                           ELSE sub[s]]
  /\ UNCHANGED <<connVars, closed, subs, page>>

\* append_event and commit_snapshot_event; without an entry neither does
\* anything.
AppendEvent(size) ==
  /\ entry /\ total < MaxEvents
  /\ total' = total + 1
  /\ seq' = seq + 1
  /\ ring' = Kept(Append(ring, seq + 1))
  /\ minSeq' = Oldest(ring')
  /\ sub' = [s \in Sub |-> IF s \in subs
                           THEN Delivered(sub[s], [id |-> total + 1,
                                                   size |-> size])
                           ELSE sub[s]]
  /\ UNCHANGED <<connVars, closed, subs, page>>

\* A client takes a lease and reads from the ring's beginning.
Acquire ==
  /\ ws # None /\ ~page.held
  /\ page' = [NoPage EXCEPT !.held = TRUE]
  /\ UNCHANGED <<connVars, ringVars, busVars>>

Release ==
  /\ page.held
  /\ page' = NoPage
  /\ UNCHANGED <<connVars, ringVars, busVars>>

\* The first Limit rows after the cursor; the ring is increasing, so what comes
\* after the cursor is the ring's end.  The client moves its cursor to the last
\* row and learns from min_event_seq what it can no longer get.
ReadPage ==
  LET after == page.cursor
      later == {i \in DOMAIN ring : ring[i] > after}
      rows  == {i \in later : i < Min(later) + Limit}
  IN  /\ page.held /\ later # {}
      /\ page' = [page EXCEPT !.cursor = ring[Max(rows)],
                              !.read = @ \cup {ring[i] : i \in rows},
                              !.told = @ \cup (after + 1)..(minSeq - 1)]
      /\ UNCHANGED <<connVars, ringVars, busVars>>

-----------------------------------------------------------------------------
(* The worker's connections *)

\* A connection replaces the one before it; a new entry counts from zero.
Register(c) ==
  /\ conn[c] = "new"
  /\ conn' = [conn EXCEPT ![c] = "open"]
  /\ ws' = c /\ latest' = c
  /\ entry' = TRUE
  /\ IF entry THEN UNCHANGED <<seq, ring, minSeq>>
     ELSE seq' = 0 /\ ring' = <<>> /\ minSeq' = 0
  /\ UNCHANGED <<cut, lost, total, busVars, page>>

\* Mutant: the bus is closed whether or not this was still the worker.
HandlerEndsAnyway(c) ==
  /\ conn[c] = "open"
  /\ conn' = [conn EXCEPT ![c] = "done"]
  /\ IF ws = c THEN ws' = None /\ page' = NoPage ELSE UNCHANGED <<ws, page>>
  /\ CloseWorker
  /\ UNCHANGED <<entry, cut, lost, latest, ringVars, closed>>

\* Mutant: the bus is closed if a lease was held, instead of whenever the
\* worker went.
HandlerEndsQuietly(c) ==
  /\ conn[c] = "open"
  /\ conn' = [conn EXCEPT ![c] = "done"]
  /\ IF ws = c
     THEN /\ ws' = None /\ page' = NoPage
          /\ IF page.held THEN CloseWorker ELSE UNCHANGED <<subs, sub>>
     ELSE UNCHANGED <<ws, page, subs, sub>>
  /\ UNCHANGED <<entry, cut, lost, latest, ringVars, closed>>

\* The handler ends.  deregister_worker ends the lease and the subscriptions
\* unless another connection has taken the worker, or the worker is gone.
HandlerEnds(c) ==
  /\ conn[c] = "open"
  /\ conn' = [conn EXCEPT ![c] = "done"]
  /\ IF ws = c
     THEN ws' = None /\ page' = NoPage /\ CloseWorker
     ELSE UNCHANGED <<ws, page, subs, sub>>
  /\ UNCHANGED <<entry, cut, lost, latest, ringVars, closed>>

\* A send to the worker raises: the connection is forgotten, and only that.
SendFails(c) ==
  /\ ws = c
  /\ ws' = None /\ lost' = lost \cup {c}
  /\ UNCHANGED <<entry, conn, cut, latest, ringVars, busVars, page>>

\* disconnect_worker takes the connection and the lease away ...
Disconnect(c) ==
  /\ ws = c
  /\ ws' = None /\ page' = NoPage
  /\ cut' = [cut EXCEPT ![c] = "closing"]
  /\ UNCHANGED <<entry, conn, lost, latest, ringVars, busVars>>

\* Mutant: the subscriptions are ended only if the worker is still away.
CutEndsIfAway(c) ==
  /\ cut[c] = "closing"
  /\ cut' = [cut EXCEPT ![c] = "done"]
  /\ IF ws = None THEN CloseWorker ELSE UNCHANGED <<subs, sub>>
  /\ UNCHANGED <<ws, entry, conn, lost, latest, ringVars, closed, page>>

\* ... and after the socket's close and the broadcasts ends the subscriptions,
\* whoever is connected by then.
CutEnds(c) ==
  /\ cut[c] = "closing"
  /\ cut' = [cut EXCEPT ![c] = "done"]
  /\ CloseWorker
  /\ UNCHANGED <<ws, entry, conn, lost, latest, ringVars, closed, page>>

\* The request is cancelled, or raises, while it closes the socket or tells the
\* browsers: nobody ends the subscriptions in its place.
CutBreaks(c) ==
  /\ cut[c] = "closing"
  /\ cut' = [cut EXCEPT ![c] = "broken"]
  /\ UNCHANGED <<ws, entry, conn, lost, latest, ringVars, busVars, page>>

\* prune_if_idle, when no browser is there either: the entry goes, its numbers
\* with it, the subscriptions stay.
Prune ==
  /\ entry /\ ws = None /\ ~page.held
  /\ entry' = FALSE
  /\ UNCHANGED <<ws, conn, cut, lost, latest, ringVars, busVars, page>>

-----------------------------------------------------------------------------
Init ==
  /\ ws = None /\ entry = FALSE
  /\ conn = [c \in Conn |-> "new"] /\ cut = [c \in Conn |-> "no"]
  /\ lost = {} /\ latest = None
  /\ seq = 0 /\ ring = <<>> /\ minSeq = 0 /\ total = 0
  /\ closed = FALSE /\ subs = {} /\ sub = [s \in Sub |-> Unused]
  /\ page = NoPage

Next ==
  \/ \E c \in Conn : \/ Register(c) \/ HandlerEnds(c) \/ SendFails(c)
                     \/ Disconnect(c) \/ CutEnds(c) \/ CutBreaks(c)
  \/ \E s \in Sub : Watch(s) \/ Get(s) \/ Leave(s)
  \/ \E size \in Size : AppendEvent(size)
  \/ Acquire \/ Release \/ ReadPage \/ Prune \/ Close

Spec == Init /\ [][Next]_vars

\* A disconnect that has begun comes to its end or breaks off, a consumer goes
\* on taking.
Fairness ==
  /\ \A c \in Conn : WF_vars(CutEnds(c) \/ CutBreaks(c))
  /\ \A s \in Sub : WF_vars(Get(s))

FairSpec == Spec /\ Fairness

-----------------------------------------------------------------------------
(* Properties *)

Typed ==
  /\ ws \in Conn \cup {None} /\ latest \in Conn \cup {None}
  /\ entry \in BOOLEAN /\ closed \in BOOLEAN
  /\ conn \in [Conn -> {"new", "open", "done"}]
  /\ cut \in [Conn -> {"no", "closing", "done", "broken"}]
  /\ lost \subseteq Conn /\ subs \subseteq Sub
  /\ seq \in 0..MaxEvents /\ minSeq \in 0..MaxEvents /\ total \in 0..MaxEvents
  /\ ring \in Seq(1..MaxEvents) /\ Len(ring) <= RingCap
  /\ sub \in [Sub -> Subscription]
  /\ \A s \in Sub : Len(sub[s].queue) <= QueueCap
  /\ page \in [held: BOOLEAN, cursor: Nat, read: SUBSET Nat, told: SUBSET Nat]

\* Every variable has its type, no queue outgrows its depth or its bytes, and
\* the ring keeps to its length (event_bus.py:206-219, router_impl.py:207).
TypeOK ==
  /\ Typed
  /\ \A s \in Sub : Bytes(sub[s].queue) <= QueueBytes

Upto(s) == IF s \in subs THEN total ELSE sub[s].upto

\* How many events wait in a queue.
Waiting(q) == IF q # <<>> /\ q[Len(q)] = End THEN Len(q) - 1 ELSE Len(q)

\* Every event of a subscription's time was taken, waits, or is counted as
\* dropped, and what was taken and what waits is in the order of the events
\* (event_bus.py:167-219, 250-275).
FeedCounted ==
  \A s \in Sub :
    LET q == sub[s].queue
    IN  /\ sub[s].taken + Waiting(q) + sub[s].dropped = Upto(s) - sub[s].from
        /\ \A i \in 1..Waiting(q) :
             /\ sub[s].last < q[i].id /\ q[i].id <= Upto(s)
             /\ \A j \in 1..(i - 1) : q[j].id < q[i].id

\* A subscription the bus has let go is woken: the sentinel is the last thing
\* in its queue.  One the bus still serves holds no sentinel
\* (event_bus.py:225-236, 251-275).
EndDelivered ==
  \A s \in Sub :
    sub[s].state = "watching" =>
      LET q == sub[s].queue
      IN  IF s \in subs THEN \A i \in DOMAIN q : q[i] # End
          ELSE /\ q # <<>> /\ q[Len(q)] = End
               /\ \A i \in 1..(Len(q) - 1) : q[i] # End

\* While the connection a subscription began with is the worker's, only a
\* disconnect of an earlier connection or the end of the bus ends it: the
\* teardown of a replaced handler does not
\* (connection.py:287-291, core_delegates_connection.py:75-80).
OwnEndOnly ==
  \A s \in Sub :
    sub[s].state \in {"watching", "ended"} /\ s \notin subs /\ ~closed
      /\ sub[s].on # None /\ sub[s].on = ws
    => \E c \in Conn \ {ws} : cut[c] = "done"

\* Nobody is connected, no handler and no disconnect is at work.
Over ==
  /\ ws = None
  /\ \A c \in Conn : conn[c] # "open" /\ cut[c] # "closing"

Stranded(s) == s \in subs /\ sub[s].on # None /\ Over

\* Whoever still waits for a worker that is gone does so because a failed send
\* took its last connection, or because the disconnect that took it broke off:
\* every other end of a connection, replaced or pruned in between, ends the
\* subscriptions (core_delegates_connection.py:73-81,
\* connection_hijack.py:66-91).
OnlyFailureStrands ==
  \A s \in Sub : Stranded(s) => latest \in lost \/ cut[latest] = "broken"

\* When the worker has disconnected, no subscription that saw it connected
\* goes on waiting (event_bus.py:119-121, 251-256).
NobodyStranded == \A s \in Sub : ~Stranded(s)

\* The reader of the ring has read, or has been told that it missed, every
\* event up to its cursor, whatever the ring dropped between two pages
\* (lease.py:510-512, router_impl.py:207-210).
PageWhole == page.held => page.read \cup page.told = 1..page.cursor

\* A worker that is disconnected by request is the end of every subscription
\* of that moment, even if the worker is back before the request is done: only
\* the request's own breaking off prevents it (connection_hijack.py:66-91).
DisconnectEnds ==
  \A s \in Sub, c \in Conn :
    (s \in subs /\ cut[c] = "closing")
      ~> (sub[s].state \in {"left", "ended"} \/ cut[c] = "broken")
=============================================================================
