--------------------------- MODULE EventFeedProofs ---------------------------
(***************************************************************************)
(* What TLAPS proves about EventFeed, for every set of sockets and         *)
(* subscriptions, every capacity and every bound on the events.            *)
(*                                                                         *)
(* Four inductive invariants: FeedInv about what each subscription has     *)
(* taken, waits for and lost, ConnInv about the worker's connections and   *)
(* the ends of subscriptions, RingInv about the ring and its reader, and   *)
(* ByteInv about the bytes of the queues (what Bytes comes to is in        *)
(* QueueBytesProofs).                                                      *)
(***************************************************************************)
EXTENDS QueueBytesProofs

-----------------------------------------------------------------------------
(* The queue of one subscription *)

\* What holds of a subscription r that the bus serves (in) or not, and whose
\* time ends with the event u.
Good(r, in, u) ==
  /\ r.state = "idle" => r = Unused /\ ~in
  /\ in => r.state = "watching"
  /\ r.state = "watching" /\ ~in
       => r.queue # <<>> /\ r.queue[Len(r.queue)] = End
  /\ \A i \in 1..Len(r.queue) : r.queue[i] = End => i = Len(r.queue) /\ ~in
  /\ r.taken + Waiting(r.queue) + r.dropped = u - r.from
  /\ r.last <= u
  /\ \A i \in 1..Waiting(r.queue) :
       /\ r.last < r.queue[i].id /\ r.queue[i].id <= u
       /\ \A j \in 1..(i - 1) : r.queue[j].id < r.queue[i].id

\* The number of events that have to go exists, and when they are gone the
\* event fits or nothing is left.
LEMMA EvictedEnough ==
  ASSUME NEW q \in Seq(Item), NEW e
  PROVE  LET k == Evicted(q, e)
         IN  /\ k \in 0..Len(q)
             /\ k = Len(q) \/ Fits(SubSeq(q, k + 1, Len(q)), e)
<1> DEFINE Enough == {k \in 0..Len(q) :
                        k = Len(q) \/ Fits(SubSeq(q, k + 1, Len(q)), e)}
<1>1. Len(q) \in Nat
  BY LenProperties
<1>2. Enough \in SUBSET Nat /\ Enough # {}
  BY <1>1
<1>3. PICK k \in Enough : \A m \in Enough : k <= m
  <2> HIDE DEF Enough
  <2> QED
    BY <1>2, Least
<1>4. \A j \in 0..(k - 1) : ~Fits(SubSeq(q, j + 1, Len(q)), e)
  <2> SUFFICES ASSUME NEW j \in 0..(k - 1), Fits(SubSeq(q, j + 1, Len(q)), e)
               PROVE  FALSE
    OBVIOUS
  <2>1. k \in 0..Len(q)
    OBVIOUS
  <2>2. j \in 0..Len(q) /\ ~(k <= j)
    BY <1>1, <2>1
  <2>3. j \in Enough
    BY <2>2
  <2> QED
    BY <1>3, <2>2, <2>3
<1> QED
  BY <1>1, <1>3, <1>4 DEF Evicted

\* An event that is handed over keeps the account and the order, and makes room
\* for itself.
LEMMA DeliveredGood ==
  ASSUME NEW r \in Subscription, NEW t \in Nat, NEW e \in Event,
         e.id = t + 1, Good(r, TRUE, t)
  PROVE  /\ Delivered(r, e) \in Subscription
         /\ Good(Delivered(r, e), TRUE, t + 1)
         /\ Delivered(r, e).on = r.on
<1> DEFINE q == r.queue
           k == Evicted(q, e)
           rest == SubSeq(q, k + 1, Len(q))
           new == Append(rest, e)
<1>1. q \in Seq(Item) /\ e \in Item /\ e # End
  BY DEF Subscription, Item, Event, End
<1>2. k \in 0..Len(q) /\ Len(q) \in Nat
  BY <1>1, EvictedEnough, LenProperties
<1>3. /\ r.state = "watching" /\ r.taken \in Nat /\ r.dropped \in Nat
      /\ r.from \in Nat /\ r.last \in Nat /\ r.upto \in Nat
      /\ \A i \in 1..Len(q) : q[i] # End
  BY DEF Good, Subscription
<1>4. Waiting(q) = Len(q)
  BY <1>1, <1>2, <1>3, EmptySeq DEF Waiting
<1>n. PICK n \in Nat : n = Len(q)
  BY <1>2
<1>a. r.taken + n + r.dropped = t - r.from
  BY <1>4, <1>n DEF Good
<1>5. CASE e.size > QueueBytes
  <2>1. Delivered(r, e) = [r EXCEPT !.dropped = @ + 1]
    BY <1>5 DEF Delivered
  <2>2. [r EXCEPT !.dropped = @ + 1] \in Subscription
    <3>1. r.dropped + 1 \in Nat
      BY <1>3
    <3> QED
      BY <3>1 DEF Subscription
  <2>3. Good([r EXCEPT !.dropped = @ + 1], TRUE, t + 1)
    <3> DEFINE d == [r EXCEPT !.dropped = @ + 1]
    <3>1. /\ d.queue = q /\ d.state = "watching" /\ d.taken = r.taken
          /\ d.dropped = r.dropped + 1 /\ d.last = r.last /\ d.from = r.from
      BY <1>3 DEF Subscription
    <3> HIDE DEF d
    <3>3. d.taken + Waiting(d.queue) + d.dropped = (t + 1) - d.from
      <4>1. Waiting(d.queue) = n
        BY <1>4, <1>n, <3>1
      <4>2. r.taken \in Nat /\ r.dropped \in Nat /\ r.from \in Nat
        BY <1>3
      <4>3. d.taken + Waiting(d.queue) + d.dropped
              = r.taken + n + (r.dropped + 1)
        BY <3>1, <4>1
      <4>4. r.taken + n + (r.dropped + 1) = (t + 1) - r.from
        BY <1>a, <4>2
      <4>5. (t + 1) - d.from = (t + 1) - r.from
        BY <3>1
      <4> QED
        BY <4>3, <4>4, <4>5
    <3>4. \A i \in 1..Len(q) : q[i].id \in Nat
      BY <1>1, ElementOfSeq DEF Item, Event, End
    <3>5. \A i \in 1..Waiting(q) :
            /\ r.last < q[i].id /\ q[i].id <= t + 1
            /\ \A j \in 1..(i - 1) : q[j].id < q[i].id
      BY <1>2, <1>4, <3>4 DEF Good
    <3>6. r.last <= t + 1
      BY <1>3 DEF Good
    <3> QED
      BY <1>3, <3>1, <3>3, <3>5, <3>6 DEF Good
  <2>4. [r EXCEPT !.dropped = @ + 1].on = r.on
    BY DEF Subscription
  <2> QED
    BY <2>1, <2>2, <2>3, <2>4
<1>6. CASE ~(e.size > QueueBytes)
  <2> DEFINE d == [r EXCEPT !.queue = new, !.dropped = r.dropped + k]
  <2>1. Delivered(r, e) = d
    BY <1>3, <1>6 DEF Delivered, Subscription
  <2>2. /\ rest \in Seq(Item) /\ Len(rest) = Len(q) - k
        /\ \A i \in 1..(Len(q) - k) : rest[i] = q[i + k]
    <3>1. \A i \in (k + 1)..Len(q) : q[i] \in Item
      BY <1>1, <1>2, ElementOfSeq
    <3>2. k + 1 \in Int /\ Len(q) \in Int
      BY <1>2
    <3>3. /\ rest \in Seq(Item)
          /\ Len(rest) = IF k + 1 <= Len(q) THEN Len(q) - (k + 1) + 1 ELSE 0
          /\ \A i \in 1..(Len(q) - (k + 1) + 1) : rest[i] = q[(k + 1) + i - 1]
      BY <3>1, <3>2, SubSeqProperties
    <3>4. ASSUME NEW i \in 1..(Len(q) - k)
          PROVE  rest[i] = q[i + k]
      <4>1. i \in 1..(Len(q) - (k + 1) + 1) /\ (k + 1) + i - 1 = i + k
        BY <1>2
      <4> QED
        BY <3>3, <4>1
    <3> QED
      BY <1>2, <3>3, <3>4
  <2> HIDE DEF q, k, rest
  <2>3. /\ new \in Seq(Item) /\ Len(new) = Len(q) - k + 1 /\ new # <<>>
        /\ \A i \in 1..(Len(q) - k) : new[i] = q[i + k]
        /\ new[Len(q) - k + 1] = e
    BY <1>1, <1>2, <2>2, AppendProperties
  <2>4. d \in Subscription
    <3>1. r.dropped + k \in Nat
      BY <1>2, <1>3
    <3>2. new \in Seq(Event \cup {End})
      BY <2>3 DEF Item
    <3> HIDE DEF new
    <3> QED
      BY <3>1, <3>2 DEF Subscription
  <2> HIDE DEF new
  <2>5. /\ d.queue = new /\ d.state = "watching" /\ d.taken = r.taken
        /\ d.dropped = r.dropped + k /\ d.last = r.last /\ d.from = r.from
        /\ d.on = r.on
    BY <1>3 DEF Subscription
  <2> HIDE DEF d
  <2>6. \A i \in 1..Len(new) : new[i] # End
    <3> SUFFICES ASSUME NEW i \in 1..Len(new)
                 PROVE  new[i] # End
      OBVIOUS
    <3>1. CASE i = Len(q) - k + 1
      BY <1>1, <2>3, <3>1
    <3>2. CASE i # Len(q) - k + 1
      <4>1. i \in 1..(Len(q) - k + 1)
        BY <2>3
      <4>2. i \in 1..(Len(q) - k) /\ i + k \in 1..Len(q)
        BY <1>2, <3>2, <4>1
      <4> QED
        BY <1>3, <2>3, <4>2
    <3> QED
      BY <3>1, <3>2
  <2>7. Waiting(new) = Len(q) - k + 1
    <3>1. new[Len(new)] # End
      BY <1>2, <2>3, <2>6
    <3> QED
      BY <2>3, <3>1 DEF Waiting
  <2>8. d.taken + Waiting(d.queue) + d.dropped = (t + 1) - d.from
    <3>1. k \in Int
      BY <1>2
    <3>2. r.taken \in Nat /\ r.dropped \in Nat /\ r.from \in Nat
      BY <1>3
    <3>3. Waiting(d.queue) = n - k + 1
      BY <1>n, <2>5, <2>7
    <3>4. d.taken + Waiting(d.queue) + d.dropped
            = r.taken + (n - k + 1) + (r.dropped + k)
      BY <2>5, <3>3
    <3>5. r.taken + (n - k + 1) + (r.dropped + k) = (t + 1) - r.from
      BY <1>a, <3>1, <3>2
    <3>6. (t + 1) - d.from = (t + 1) - r.from
      BY <2>5
    <3> QED
      BY <3>4, <3>5, <3>6
  <2>9. \A i \in 1..Len(q) : /\ q[i].id \in Nat /\ r.last < q[i].id
                             /\ q[i].id <= t
                             /\ \A j \in 1..(i - 1) : q[j].id < q[i].id
    <3>1. \A i \in 1..Len(q) : q[i].id \in Nat
      BY <1>1, ElementOfSeq DEF Item, Event, End
    <3> QED
      BY <1>4, <3>1 DEF Good, q
  <2>10. ASSUME NEW i \in 1..(Len(q) - k + 1)
         PROVE  /\ r.last < new[i].id /\ new[i].id <= t + 1
                /\ \A j \in 1..(i - 1) : new[j].id < new[i].id
    <3>1. r.last <= t
      BY DEF Good
    <3>2. CASE i = Len(q) - k + 1
      <4>1. new[i].id = t + 1
        BY <2>3, <3>2
      <4>2. ASSUME NEW j \in 1..(i - 1)
            PROVE  new[j].id < new[i].id
        <5>1. j \in 1..(Len(q) - k) /\ j + k \in 1..Len(q)
          BY <1>2, <3>2
        <5>2. new[j] = q[j + k] /\ q[j + k].id \in Nat /\ q[j + k].id <= t
          BY <2>3, <2>9, <5>1
        <5> QED
          BY <4>1, <5>2
      <4> QED
        BY <1>3, <3>1, <4>1, <4>2
    <3>3. CASE i # Len(q) - k + 1
      <4>1. i \in 1..(Len(q) - k) /\ i + k \in 1..Len(q)
        BY <1>2, <3>3
      <4>2. new[i] = q[i + k]
        BY <2>3, <4>1
      <4>3. ASSUME NEW j \in 1..(i - 1)
            PROVE  new[j].id < new[i].id
        <5>1. j \in 1..(Len(q) - k) /\ j + k \in 1..(i + k - 1)
          BY <1>2, <4>1
        <5>2. new[j] = q[j + k]
          BY <2>3, <5>1
        <5>3. j + k \in 1..((i + k) - 1)
          BY <1>2, <4>1
        <5>4. \A m \in 1..((i + k) - 1) : q[m].id < q[i + k].id
          BY <2>9, <4>1
        <5>5. q[j + k].id < q[i + k].id
          BY <5>3, <5>4
        <5>6. new[j].id = q[j + k].id /\ new[i].id = q[i + k].id
          BY <4>2, <5>2
        <5>7. \A x, y, z, w : x < y /\ z = x /\ w = y => z < w
          OBVIOUS
        <5> QED
          BY <5>5, <5>6, <5>7, Zenon
      <4>4. q[i + k].id \in Nat /\ r.last < q[i + k].id /\ q[i + k].id <= t
        BY <2>9, <4>1
      <4> QED
        BY <4>2, <4>3, <4>4
    <3> QED
      BY <3>2, <3>3
  <2>11. r.last <= t + 1
    BY <1>3 DEF Good
  <2>12. Good(d, TRUE, t + 1)
    BY <2>5, <2>6, <2>7, <2>8, <2>10, <2>11 DEF Good
  <2> QED
    BY <2>1, <2>4, <2>5, <2>12
<1> QED
  BY <1>5, <1>6

\* What is left of an ordered queue when its first k go is ordered.
LEMMA Shifted ==
  ASSUME NEW q, NEW new, NEW m \in Nat, NEW k \in Nat, NEW lo \in Nat,
         NEW hi \in Nat,
         \A i \in 1..m : new[i] = q[i + k],
         \A i \in 1..(m + k) :
           /\ q[i].id \in Nat /\ lo < q[i].id /\ q[i].id <= hi
           /\ \A j \in 1..(i - 1) : q[j].id < q[i].id
  PROVE  \A i \in 1..m :
           /\ lo < new[i].id /\ new[i].id <= hi
           /\ \A j \in 1..(i - 1) : new[j].id < new[i].id
<1> SUFFICES ASSUME NEW i \in 1..m
             PROVE  /\ lo < new[i].id /\ new[i].id <= hi
                    /\ \A j \in 1..(i - 1) : new[j].id < new[i].id
  OBVIOUS
<1>1. new[i] = q[i + k] /\ i + k \in 1..(m + k)
  OBVIOUS
<1>2. /\ lo < q[i + k].id /\ q[i + k].id <= hi
      /\ \A j \in 1..((i + k) - 1) : q[j].id < q[i + k].id
  BY <1>1
<1>3. ASSUME NEW j \in 1..(i - 1)
      PROVE  new[j].id < new[i].id
  <2>1. j \in 1..m /\ j + k \in 1..((i + k) - 1)
    OBVIOUS
  <2>2. new[j] = q[j + k]
    BY <2>1
  <2>3. q[j + k].id < q[i + k].id
    BY <1>2, <2>1
  <2> QED
    BY <1>1, <2>2, <2>3, Zenon
<1>4. lo < new[i].id /\ new[i].id <= hi
  BY <1>1, <1>2, Zenon
<1> QED
  BY <1>3, <1>4

\* What Good says of the queue's order, with the types of the numbers.
LEMMA GoodOrder ==
  ASSUME NEW r \in Subscription, NEW in, NEW u, Good(r, in, u)
  PROVE  \A i \in 1..Waiting(r.queue) :
           /\ r.queue[i].id \in Nat
           /\ r.last < r.queue[i].id /\ r.queue[i].id <= u
           /\ \A j \in 1..(i - 1) : r.queue[j].id < r.queue[i].id
<1> DEFINE q == r.queue
<1>1. q \in Seq(Item)
  BY DEF Subscription, Item
<1>2. Len(q) \in Nat /\ \A i \in 1..Len(q) : q[i].id \in Nat
  BY <1>1, ElementOfSeq, LenProperties DEF Item, Event, End
<1>3. Waiting(q) \in Int /\ Waiting(q) <= Len(q)
  BY <1>2 DEF Waiting
<1>4. \A i \in 1..Waiting(q) : q[i].id \in Nat
  BY <1>2, <1>3
<1> QED
  BY <1>4 DEF Good

\* The sentinel that wakes a subscription is its queue's last item, and what
\* it displaces is counted.
LEMMA PutEndGood ==
  ASSUME NEW r \in Subscription, NEW t \in Nat, NEW w \in Nat,
         Good(r, TRUE, t), QueueCap \in Nat \ {0}
  PROVE  LET d == [PutEnd(r) EXCEPT !.upto = w]
         IN  /\ d \in Subscription
             /\ d.upto = w /\ d.on = r.on /\ d.state = r.state
             /\ Good(d, FALSE, t)
             /\ Len(r.queue) <= QueueCap => Len(d.queue) <= QueueCap
<1> DEFINE q == r.queue
           k == IF Len(q) < QueueCap THEN 0 ELSE 1
           new == Append(IF Len(q) < QueueCap THEN q ELSE Tail(q), End)
           d == [PutEnd(r) EXCEPT !.upto = w]
<1>1. q \in Seq(Item) /\ End \in Item /\ Len(q) \in Nat
  BY LenProperties DEF Subscription, Item
<1>2. /\ r.state = "watching" /\ r.taken \in Nat /\ r.dropped \in Nat
      /\ r.from \in Nat /\ r.last \in Nat /\ r.last <= t
      /\ \A i \in 1..Len(q) : q[i] # End
  BY DEF Good, Subscription
<1>3. PICK n \in Nat : n = Len(q)
  BY <1>1
<1>4. k \in 0..1 /\ k <= n
  BY <1>3
<1>5. Waiting(q) = n
  BY <1>1, <1>2, <1>3, EmptySeq DEF Waiting
<1>6. r.taken + n + r.dropped = t - r.from
  BY <1>5 DEF Good
<1>7. /\ new \in Seq(Item) /\ Len(new) = n - k + 1 /\ new # <<>>
      /\ \A i \in 1..(n - k) : new[i] = q[i + k]
      /\ new[n - k + 1] = End
  <2>1. CASE Len(q) < QueueCap
    BY <1>1, <1>3, <2>1, AppendProperties
  <2>2. CASE ~(Len(q) < QueueCap)
    <3>1. q # <<>>
      BY <1>1, <2>2
    <3>2. /\ Tail(q) \in Seq(Item) /\ Len(Tail(q)) = n - 1
          /\ \A i \in 1..(n - 1) : Tail(q)[i] = q[i + 1]
      BY <1>1, <1>3, <3>1, HeadTailProperties
    <3> QED
      BY <1>1, <1>3, <2>2, <3>1, <3>2, AppendProperties
  <2> QED
    BY <2>1, <2>2
<1>8. d = [r EXCEPT !.queue = new, !.dropped = r.dropped + k, !.upto = w]
  <2>1. CASE Len(q) < QueueCap
    <3>1. PutEnd(r) = [r EXCEPT !.queue = new]
      BY <2>1 DEF PutEnd
    <3>2. k = 0
      BY <2>1
    <3> HIDE DEF new, k
    <3>3. r.dropped + k = r.dropped
      BY <1>2, <3>2
    <3> QED
      BY <3>1, <3>3 DEF Subscription
  <2>2. CASE ~(Len(q) < QueueCap)
    <3>1. PutEnd(r) = [r EXCEPT !.queue = new, !.dropped = r.dropped + 1]
      BY <2>2 DEF PutEnd, Subscription
    <3>2. k = 1
      BY <2>2
    <3> HIDE DEF new, k
    <3> QED
      BY <3>1, <3>2 DEF Subscription
  <2> QED
    BY <2>1, <2>2
<1> HIDE DEF new, k, d
<1>9. d \in Subscription
  <2>1. r.dropped + k \in Nat
    BY <1>2, <1>4
  <2>2. new \in Seq(Event \cup {End})
    BY <1>7 DEF Item
  <2> QED
    BY <1>8, <2>1, <2>2 DEF Subscription
<1>10. /\ d.queue = new /\ d.state = "watching" /\ d.taken = r.taken
       /\ d.dropped = r.dropped + k /\ d.last = r.last /\ d.from = r.from
       /\ d.upto = w /\ d.on = r.on
  BY <1>2, <1>8 DEF Subscription
<1>11. Waiting(new) = n - k
  BY <1>4, <1>7 DEF Waiting
<1>12. ASSUME NEW i \in 1..Len(new), new[i] = End
       PROVE  i = Len(new)
  <2>1. CASE i \in 1..(n - k)
    <3>1. i + k \in 1..n
      BY <1>4, <2>1
    <3> QED
      BY <1>2, <1>3, <1>7, <1>12, <2>1, <3>1
  <2>2. CASE ~(i \in 1..(n - k))
    BY <1>4, <1>7, <2>2
  <2> QED
    BY <2>1, <2>2
<1>13. \A i \in 1..(n - k) : /\ r.last < new[i].id /\ new[i].id <= t
                             /\ \A j \in 1..(i - 1) : new[j].id < new[i].id
  <2>1. PICK m \in Nat : m = n - k
    BY <1>4
  <2>2. m + k = n /\ k \in Nat
    BY <1>4, <2>1
  <2>3. \A i \in 1..(m + k) : /\ q[i].id \in Nat
                              /\ r.last < q[i].id /\ q[i].id <= t
                              /\ \A j \in 1..(i - 1) : q[j].id < q[i].id
    BY <1>5, <2>2, GoodOrder
  <2>4. \A i \in 1..m : new[i] = q[i + k]
    BY <1>7, <2>1
  <2> HIDE DEF q
  <2>5. r.last \in Nat
    BY <1>2
  <2>6. \A i \in 1..m : /\ r.last < new[i].id /\ new[i].id <= t
                        /\ \A j \in 1..(i - 1) : new[j].id < new[i].id
    BY <2>2, <2>3, <2>4, <2>5, Shifted
  <2> QED
    BY <2>1, <2>6, Zenon
<1>14. d.taken + Waiting(d.queue) + d.dropped = t - d.from
  <2>1. d.taken + Waiting(d.queue) + d.dropped
          = r.taken + (n - k) + (r.dropped + k)
    BY <1>10, <1>11
  <2>2. r.taken + (n - k) + (r.dropped + k) = t - r.from
    BY <1>2, <1>4, <1>6
  <2> QED
    BY <1>10, <2>1, <2>2
<1>15. new[Len(new)] = End
  BY <1>7
<1>16. Good(d, FALSE, t)
  BY <1>2, <1>7, <1>10, <1>11, <1>12, <1>13, <1>14, <1>15 DEF Good
<1>17. Len(q) <= QueueCap => Len(d.queue) <= QueueCap
  BY <1>3, <1>7, <1>10 DEF k
<1> QED
  BY <1>2, <1>9, <1>10, <1>16, <1>17 DEF d

\* No queue outgrows its depth.
LEMMA DeliveredShort ==
  ASSUME NEW r \in Subscription, NEW e, Len(r.queue) <= QueueCap,
         QueueCap \in Nat \ {0}, e \in Event
  PROVE  Len(Delivered(r, e).queue) <= QueueCap
<1> DEFINE q == r.queue
           k == Evicted(q, e)
           rest == SubSeq(q, k + 1, Len(q))
<1>1. q \in Seq(Item) /\ e \in Item
  BY DEF Subscription, Item
<1>2. /\ k \in 0..Len(q) /\ Len(q) \in Nat
      /\ k = Len(q) \/ Fits(rest, e)
  BY <1>1, EvictedEnough, LenProperties
<1>3. CASE e.size > QueueBytes
  BY <1>3 DEF Delivered, Subscription
<1>4. CASE ~(e.size > QueueBytes)
  <2>1. Delivered(r, e).queue = Append(rest, e)
    BY <1>4 DEF Delivered, Subscription
  <2>2. rest \in Seq(Item) /\ Len(rest) = Len(q) - k
    <3>1. \A i \in (k + 1)..Len(q) : q[i] \in Item
      BY <1>1, <1>2, ElementOfSeq
    <3>2. k + 1 \in Int /\ Len(q) \in Int
      BY <1>2
    <3>3. /\ rest \in Seq(Item)
          /\ Len(rest) = IF k + 1 <= Len(q) THEN Len(q) - (k + 1) + 1 ELSE 0
      BY <3>1, <3>2, SubSeqProperties
    <3> QED
      BY <1>2, <3>3
  <2>3. Len(Append(rest, e)) = Len(q) - k + 1
    BY <1>1, <2>2, AppendProperties
  <2>4. k = Len(q) \/ Len(q) - k < QueueCap
    BY <1>2, <2>2 DEF Fits
  <2> QED
    BY <1>2, <2>1, <2>3, <2>4
<1> QED
  BY <1>3, <1>4

Takes(r) == r.state = "watching" /\ r.queue # <<>> /\ Head(r.queue) # End

\* The event a consumer takes leaves the account and the order as they are.
LEMMA TakenGood ==
  ASSUME NEW r \in Subscription, NEW in \in BOOLEAN, NEW u \in Nat,
         Good(r, in, u), Takes(r)
  PROVE  LET d == [r EXCEPT !.queue = Tail(@), !.taken = @ + 1,
                            !.last = Head(r.queue).id]
         IN  d \in Subscription /\ Good(d, in, u) /\ d.on = r.on
<1> DEFINE q == r.queue
           new == Tail(q)
           d == [r EXCEPT !.queue = Tail(@), !.taken = @ + 1,
                          !.last = Head(r.queue).id]
<1>1. q \in Seq(Item) /\ Len(q) \in Nat /\ q # <<>> /\ Head(q) # End
  BY LenProperties DEF Subscription, Item, Takes
<1>2. /\ r.state = "watching" /\ r.taken \in Nat /\ r.dropped \in Nat
      /\ r.from \in Nat /\ r.last \in Nat
      /\ \A i \in 1..Len(q) : q[i] = End => i = Len(q) /\ ~in
      /\ ~in => q[Len(q)] = End
  BY DEF Good, Subscription, Takes
<1>3. PICK n \in Nat : n = Len(q) /\ n >= 1
  BY <1>1, EmptySeq
<1>4. /\ new \in Seq(Item) /\ Len(new) = n - 1 /\ Head(q) = q[1]
      /\ \A i \in 1..(n - 1) : new[i] = q[i + 1]
  BY <1>1, <1>3, HeadTailProperties
<1>a. r.taken + Waiting(q) + r.dropped = u - r.from
  BY DEF Good
<1>b. \A i \in 1..Waiting(q) : /\ q[i].id \in Nat
                               /\ r.last < q[i].id /\ q[i].id <= u
                               /\ \A j \in 1..(i - 1) : q[j].id < q[i].id
  BY GoodOrder
<1>c. d = [r EXCEPT !.queue = new, !.taken = r.taken + 1, !.last = q[1].id]
  BY <1>4 DEF Subscription
<1> HIDE DEF new, q, d
<1>5. q[1] \in Event /\ q[1].id \in Nat
  <2>1. q[1] \in Item
    BY <1>1, <1>3, ElementOfSeq
  <2> QED
    BY <1>1, <1>4, <2>1 DEF Item, Event
<1>6. ~in => n >= 2
  BY <1>1, <1>2, <1>3, <1>4
<1>7. PICK m \in Nat : m = Waiting(q) /\ m >= 1 /\ m <= n
  BY <1>2, <1>3, <1>6 DEF Waiting
<1>8. Waiting(new) = m - 1
  <2>1. CASE n = 1
    <3>1. Waiting(q) = 1
      BY <1>3, <1>4, <2>1, <1>1 DEF Waiting
    <3>2. new = <<>>
      BY <1>4, <2>1, EmptySeq
    <3>3. Waiting(new) = 0
      BY <3>2, <1>4, <2>1 DEF Waiting
    <3> QED
      BY <1>7, <3>1, <3>3
  <2>2. CASE n # 1
    <3>1. new # <<>> /\ new[n - 1] = q[n]
      <4>1. n - 1 \in 1..(n - 1) /\ (n - 1) + 1 = n
        BY <1>3, <2>2
      <4> QED
        BY <1>4, <4>1
    <3> QED
      BY <1>1, <1>3, <1>4, <1>7, <3>1 DEF Waiting
  <2> QED
    BY <2>1, <2>2
<1>9. \A i \in 1..Len(new) : new[i] = End => i = Len(new) /\ ~in
  <2> SUFFICES ASSUME NEW i \in 1..Len(new), new[i] = End
               PROVE  i = Len(new) /\ ~in
    OBVIOUS
  <2>1. i \in 1..(n - 1) /\ i + 1 \in 1..n
    BY <1>3, <1>4
  <2>2. q[i + 1] = End
    BY <1>4, <2>1
  <2> QED
    BY <1>2, <1>3, <1>4, <2>1, <2>2
<1>10. ~in => new # <<>> /\ new[Len(new)] = End
  <2> HAVE ~in
  <2>1. n - 1 \in 1..(n - 1) /\ (n - 1) + 1 = n
    BY <1>6
  <2> QED
    BY <1>2, <1>3, <1>4, <2>1
<1>11. \A i \in 1..m : /\ q[i].id \in Nat
                       /\ r.last < q[i].id /\ q[i].id <= u
                       /\ \A j \in 1..(i - 1) : q[j].id < q[i].id
  BY <1>7, <1>b
<1>12. q[1].id <= u /\ r.last < q[1].id
  BY <1>7, <1>11
<1>13. PICK p \in Nat : p = m - 1
  BY <1>7
<1>14. \A i \in 1..p : /\ q[1].id < new[i].id /\ new[i].id <= u
                       /\ \A j \in 1..(i - 1) : new[j].id < new[i].id
  <2>1. \A i \in 1..p : new[i] = q[i + 1]
    BY <1>3, <1>4, <1>7, <1>13
  <2>2. ASSUME NEW i \in 1..p
        PROVE  q[1].id < new[i].id
    <3>1. i + 1 \in 1..m /\ 1 \in 1..((i + 1) - 1)
      BY <1>13
    <3> QED
      BY <1>11, <2>1, <3>1
  <2>3. p + 1 = m
    BY <1>7, <1>13
  <2>4. \A i \in 1..(p + 1) : /\ q[i].id \in Nat
                              /\ r.last < q[i].id /\ q[i].id <= u
                              /\ \A j \in 1..(i - 1) : q[j].id < q[i].id
    BY <1>11, <2>3
  <2>5. \A i \in 1..p : /\ r.last < new[i].id /\ new[i].id <= u
                        /\ \A j \in 1..(i - 1) : new[j].id < new[i].id
    <3>1. r.last \in Nat /\ 1 \in Nat
      BY <1>2
    <3> QED
      BY <2>1, <2>4, <3>1, Shifted
  <2> QED
    BY <2>2, <2>5
<1>16. d \in Subscription
  <2>1. r.taken + 1 \in Nat
    BY <1>2
  <2>2. new \in Seq(Event \cup {End})
    BY <1>4 DEF Item
  <2> QED
    BY <1>5, <1>c, <2>1, <2>2 DEF Subscription
<1>17. /\ d.queue = new /\ d.state = "watching" /\ d.taken = r.taken + 1
       /\ d.dropped = r.dropped /\ d.last = q[1].id /\ d.from = r.from
       /\ d.on = r.on
  BY <1>2, <1>c DEF Subscription
<1>18. d.taken + Waiting(d.queue) + d.dropped = u - d.from
  <2>1. r.taken + m + r.dropped = u - r.from
    BY <1>7, <1>a
  <2>2. d.taken + Waiting(d.queue) + d.dropped
          = (r.taken + 1) + (m - 1) + r.dropped
    BY <1>8, <1>17
  <2>3. (r.taken + 1) + (m - 1) + r.dropped = r.taken + m + r.dropped
    BY <1>2
  <2> QED
    BY <1>17, <2>1, <2>2, <2>3
<1>19. Good(d, in, u)
  BY <1>8, <1>9, <1>10, <1>12, <1>13, <1>14, <1>17, <1>18 DEF Good
<1> QED
  BY <1>16, <1>17, <1>19 DEF d

-----------------------------------------------------------------------------
(* The subscriptions *)

FeedTyped ==
  /\ ws \in Conn \cup {None} /\ closed \in BOOLEAN
  /\ total \in 0..MaxEvents /\ subs \subseteq Sub
  /\ sub \in [Sub -> Subscription]
  /\ \A s \in Sub : Len(sub[s].queue) <= QueueCap

FeedInv ==
  /\ FeedTyped
  /\ \A s \in Sub : Good(sub[s], s \in subs, Upto(s))

\* A subscription from one state to the next: it is still sound.
StillGood(s) ==
  /\ sub'[s] \in Subscription /\ Len(sub'[s].queue) <= QueueCap
  /\ Good(sub'[s], s \in subs', IF s \in subs' THEN total' ELSE sub'[s].upto)

LEMMA CapsPositive == QueueCap \in Nat \ {0} /\ RingCap \in Nat \ {0}
                      /\ Limit \in Nat \ {0} /\ MaxEvents \in Nat
BY FeedAssumption

LEMMA UptoTyped ==
  ASSUME FeedInv, NEW s \in Sub
  PROVE  Upto(s) \in Nat /\ total \in Nat
BY CapsPositive DEF FeedInv, FeedTyped, Upto, Subscription

\* A subscription nobody touches is as sound as it was.
LEMMA UntouchedGood ==
  ASSUME FeedInv, NEW s \in Sub, sub'[s] = sub[s], s \in subs' <=> s \in subs,
         s \in subs => total' = total
  PROVE  StillGood(s)
<1>1. (IF s \in subs' THEN total' ELSE sub'[s].upto) = Upto(s)
  BY DEF Upto
<1>2. (s \in subs') = (s \in subs)
  OBVIOUS
<1> QED
  BY <1>1, <1>2 DEF FeedInv, FeedTyped, StillGood

\* The end of every subscription of the moment.
LEMMA CloseWorkerGood ==
  ASSUME FeedInv, CloseWorker, total' = total
  PROVE  /\ subs' = {} /\ sub' = [s \in Sub |-> sub'[s]]
         /\ \A s \in Sub : /\ StillGood(s)
                           /\ sub'[s].on = sub[s].on
                           /\ sub'[s].state = sub[s].state
<1>1. subs' = {} /\ sub' = [s \in Sub |-> sub'[s]]
  BY DEF CloseWorker
<1>2. ASSUME NEW s \in Sub
      PROVE  /\ StillGood(s) /\ sub'[s].on = sub[s].on
             /\ sub'[s].state = sub[s].state
  <2>1. CASE s \in subs
    <3> DEFINE d == [PutEnd(sub[s]) EXCEPT !.upto = total]
    <3>1. sub'[s] = d
      BY <2>1 DEF CloseWorker
    <3>2. /\ sub[s] \in Subscription /\ total \in Nat
          /\ Good(sub[s], TRUE, total) /\ Len(sub[s].queue) <= QueueCap
      BY <2>1, UptoTyped DEF FeedInv, FeedTyped, Upto
    <3>a. QueueCap \in Nat \ {0}
      BY CapsPositive
    <3>3. /\ d \in Subscription /\ d.upto = total /\ d.on = sub[s].on
          /\ d.state = sub[s].state /\ Good(d, FALSE, total)
          /\ Len(d.queue) <= QueueCap
      <4>1. PICK r \in Subscription : r = sub[s]
        BY <3>2
      <4> DEFINE x == [PutEnd(r) EXCEPT !.upto = total]
      <4>2. Good(r, TRUE, total) /\ Len(r.queue) <= QueueCap /\ x = d
        BY <3>2, <4>1
      <4>3. /\ x \in Subscription /\ x.upto = total /\ x.on = r.on
            /\ x.state = r.state /\ Good(x, FALSE, total)
            /\ Len(r.queue) <= QueueCap => Len(x.queue) <= QueueCap
        BY <3>2, <3>a, <4>2, PutEndGood
      <4> HIDE DEF x, d
      <4> QED
        BY <4>1, <4>2, <4>3, Zenon
    <3> HIDE DEF d
    <3>4. (s \in subs') = FALSE
          /\ (IF s \in subs' THEN total' ELSE sub'[s].upto) = total
      BY <1>1, <3>1, <3>3
    <3> QED
      BY <3>1, <3>3, <3>4 DEF StillGood
  <2>2. CASE s \notin subs
    <3>1. sub'[s] = sub[s]
      BY <2>2 DEF CloseWorker
    <3>2. s \in subs' <=> s \in subs
      BY <1>1, <2>2
    <3> QED
      BY <2>2, <3>1, <3>2, UntouchedGood
  <2> QED
    BY <2>1, <2>2
<1> QED
  BY <1>1, <1>2

Fresh(t, c) == [Unused EXCEPT !.state = "watching", !.from = t,
                              !.upto = t, !.on = c]

\* A fresh subscription is sound.
LEMMA FreshGood ==
  ASSUME NEW t \in Nat, NEW c \in Conn \cup {None}
  PROVE  LET r == Fresh(t, c)
         IN  /\ r \in Subscription /\ Good(r, TRUE, t) /\ r.upto = t
             /\ r.state = "watching" /\ r.on = c /\ Len(r.queue) = 0
<1> DEFINE r == Fresh(t, c)
           empty == <<>>
<1>1. Unused = [state |-> "idle", queue |-> empty, dropped |-> 0, taken |-> 0,
                last |-> 0, from |-> 0, upto |-> 0, on |-> None]
  BY DEF Unused
<1>2. empty \in Seq(Event \cup {End}) /\ Len(empty) = 0
  BY EmptySeq
<1>3. Waiting(empty) = 0
  BY <1>2 DEF Waiting
<1> HIDE DEF empty
<1>4. r \in Subscription
  <2>1. Unused \in Subscription
    BY <1>1, <1>2 DEF Subscription
  <2> QED
    BY <2>1 DEF Fresh, Subscription
<1>5. /\ r.state = "watching" /\ r.queue = empty /\ r.dropped = 0
      /\ r.taken = 0 /\ r.last = 0 /\ r.from = t /\ r.upto = t /\ r.on = c
  BY <1>1 DEF Fresh
<1> HIDE DEF r
<1>6. Good(r, TRUE, t)
  BY <1>2, <1>3, <1>5 DEF Good
<1> QED
  BY <1>2, <1>4, <1>5, <1>6 DEF r

LEMMA WatchGood ==
  ASSUME FeedInv, NEW s \in Sub, Watch(s)
  PROVE  /\ subs' \subseteq Sub /\ sub' = [u \in Sub |-> sub'[u]]
         /\ \A u \in Sub : StillGood(u)
         /\ \A u \in Sub \ {s} : sub'[u] = sub[u]
                                 /\ (u \in subs' <=> u \in subs)
         /\ sub'[s].on = ws /\ sub'[s].state = "watching"
         /\ s \in subs' <=> ~closed
<1> DEFINE r == Fresh(total, ws)
<1>1. /\ r \in Subscription /\ Good(r, TRUE, total) /\ r.upto = total
      /\ r.state = "watching" /\ r.on = ws /\ Len(r.queue) = 0
  BY FreshGood, UptoTyped DEF FeedInv, FeedTyped
<1>2. total' = total /\ sub \in [Sub -> Subscription] /\ subs \subseteq Sub
  BY DEF Watch, ringVars, FeedInv, FeedTyped
<1>3. s \notin subs
  BY DEF FeedInv, Good, Watch
<1>4. \A u \in Sub \ {s} : sub'[u] = sub[u] /\ (u \in subs' <=> u \in subs)
  BY <1>2 DEF Watch
<1>5. \A u \in Sub \ {s} : StillGood(u)
  BY <1>2, <1>4, UntouchedGood
<1>6. CASE closed
  <2> DEFINE d == PutEnd(r)
             e == [d EXCEPT !.upto = total]
  <2>1. sub' = [sub EXCEPT ![s] = d] /\ subs' = subs
    BY <1>6 DEF Watch, Fresh
  <2>2. total \in Nat
    BY UptoTyped
  <2>3. /\ e \in Subscription /\ e.upto = total /\ e.on = r.on
        /\ e.state = r.state /\ Good(e, FALSE, total)
        /\ Len(r.queue) <= QueueCap => Len(e.queue) <= QueueCap
    BY <1>1, <2>2, PutEndGood, CapsPositive
  <2>4. d = e
    BY <1>1 DEF PutEnd, Subscription
  <2>5. Len(r.queue) <= QueueCap
    BY <1>1, CapsPositive
  <2> HIDE DEF r, d, e
  <2>6. sub'[s] = e
    BY <1>2, <2>1, <2>4
  <2>a. (s \in subs') = FALSE
        /\ (IF s \in subs' THEN total' ELSE sub'[s].upto) = total
    BY <1>3, <2>1, <2>3, <2>6
  <2>7. StillGood(s)
    BY <2>3, <2>5, <2>6, <2>a DEF StillGood
  <2>8. sub' = [u \in Sub |-> sub'[u]]
    BY <1>2, <2>1
  <2> QED
    BY <1>1, <1>2, <1>3, <1>4, <1>5, <1>6, <2>1, <2>3, <2>6, <2>7, <2>8
<1>7. CASE ~closed
  <2>1. sub' = [sub EXCEPT ![s] = r] /\ subs' = subs \cup {s}
    BY <1>7 DEF Watch, Fresh
  <2>2. Len(r.queue) <= QueueCap
    BY <1>1, CapsPositive
  <2> HIDE DEF r
  <2>3. sub'[s] = r
    BY <1>2, <2>1
  <2>4. StillGood(s)
    BY <1>1, <1>2, <2>1, <2>2, <2>3 DEF StillGood
  <2>5. sub' = [u \in Sub |-> sub'[u]]
    BY <1>2, <2>1
  <2> QED
    BY <1>1, <1>2, <1>4, <1>5, <1>7, <2>1, <2>3, <2>4, <2>5
<1> QED
  BY <1>6, <1>7

LEMMA GetGood ==
  ASSUME FeedInv, NEW s \in Sub, Get(s)
  PROVE  /\ subs' = subs /\ total' = total /\ sub' = [u \in Sub |-> sub'[u]]
         /\ \A u \in Sub : StillGood(u) /\ sub'[u].on = sub[u].on
         /\ \A u \in Sub \ {s} : sub'[u] = sub[u]
         /\ sub[s].state = "watching" /\ sub'[s].state \in {"watching", "ended"}
         /\ sub'[s].state = "ended" => s \notin subs
<1>1. /\ subs' = subs /\ total' = total /\ sub \in [Sub -> Subscription]
      /\ sub[s].state = "watching" /\ sub[s].queue # <<>>
  BY DEF Get, ringVars, FeedInv, FeedTyped
<1>2. \A u \in Sub \ {s} : sub'[u] = sub[u]
  BY <1>1 DEF Get
<1>3. \A u \in Sub \ {s} : StillGood(u)
  BY <1>1, <1>2, UntouchedGood
<1>4. sub' = [u \in Sub |-> sub'[u]]
  BY <1>1 DEF Get
<1>5. PICK r \in Subscription : r = sub[s]
  BY <1>1
<1>6. PICK in \in BOOLEAN : in = (s \in subs)
  <2>1. CASE s \in subs
    <3>1. TRUE = (s \in subs)
      BY <2>1
    <3> QED
      BY <3>1
  <2>2. CASE s \notin subs
    <3>1. FALSE = (s \in subs)
      BY <2>2
    <3> QED
      BY <3>1
  <2> QED
    BY <2>1, <2>2
<1>7. Good(r, in, Upto(s)) /\ Upto(s) \in Nat /\ Len(r.queue) <= QueueCap
  BY <1>5, <1>6, UptoTyped DEF FeedInv, FeedTyped
<1>8. r.queue \in Seq(Item) /\ Len(r.queue) \in Nat
  BY <1>5, LenProperties DEF Subscription, Item
<1>9. CASE Head(sub[s].queue) # End
  <2> DEFINE d == [r EXCEPT !.queue = Tail(@), !.taken = @ + 1,
                            !.last = Head(r.queue).id]
  <2>1. sub'[s] = d
    BY <1>1, <1>5, <1>9 DEF Get
  <2>2. Takes(r)
    BY <1>1, <1>5, <1>9 DEF Takes
  <2>3. d \in Subscription /\ Good(d, in, Upto(s)) /\ d.on = r.on
    BY <1>7, <2>2, TakenGood
  <2>4. d.upto = r.upto /\ d.state = "watching" /\ d.queue = Tail(r.queue)
    BY <1>1, <1>5 DEF Subscription
  <2>5. Len(Tail(r.queue)) <= QueueCap
    <3>1. Len(Tail(r.queue)) = Len(r.queue) - 1
      BY <1>1, <1>5, <1>8, HeadTailProperties
    <3> QED
      BY <1>7, <1>8, <3>1, CapsPositive
  <2> HIDE DEF d
  <2>6. (s \in subs') = in
        /\ (IF s \in subs' THEN total' ELSE sub'[s].upto) = Upto(s)
    BY <1>1, <1>5, <1>6, <2>1, <2>4 DEF Upto
  <2>7. StillGood(s)
    BY <2>1, <2>3, <2>4, <2>5, <2>6 DEF StillGood
  <2> QED
    BY <1>1, <1>2, <1>3, <1>4, <1>5, <2>1, <2>3, <2>4, <2>7
<1>10. CASE Head(sub[s].queue) = End
  <2> DEFINE d == [r EXCEPT !.queue = Tail(@), !.state = "ended"]
  <2>1. sub'[s] = d
    BY <1>1, <1>5, <1>10 DEF Get
  <2>2. /\ r.queue # <<>> /\ r.queue[1] = End /\ Len(r.queue) >= 1
        /\ r.state = "watching"
    BY <1>1, <1>5, <1>8, <1>10, HeadTailProperties, EmptySeq
  <2>3. Len(r.queue) = 1 /\ ~in
    <3>1. 1 \in 1..Len(r.queue)
      BY <1>8, <2>2
    <3> QED
      BY <1>7, <2>2, <3>1 DEF Good
  <2>4. Tail(r.queue) \in Seq(Item) /\ Len(Tail(r.queue)) = 0
    BY <1>8, <2>2, <2>3, HeadTailProperties
  <2>5. Tail(r.queue) = <<>>
    BY <2>4, EmptySeq
  <2>6. Waiting(r.queue) = 0 /\ Waiting(Tail(r.queue)) = 0
    <3>1. Waiting(r.queue) = 0
      BY <2>2, <2>3 DEF Waiting
    <3>2. Waiting(Tail(r.queue)) = 0
      BY <2>4, <2>5 DEF Waiting
    <3> QED
      BY <3>1, <3>2
  <2>7. /\ d.queue = Tail(r.queue) /\ d.state = "ended" /\ d.taken = r.taken
        /\ d.dropped = r.dropped /\ d.last = r.last /\ d.from = r.from
        /\ d.on = r.on /\ d.upto = r.upto
    BY <1>5 DEF Subscription
  <2>8. d \in Subscription
    <3>1. Tail(r.queue) \in Seq(Event \cup {End})
      BY <2>4 DEF Item
    <3> QED
      BY <3>1 DEF Subscription
  <2> HIDE DEF d
  <2>9. Good(d, FALSE, Upto(s))
    BY <1>7, <2>2, <2>3, <2>4, <2>6, <2>7 DEF Good
  <2>10. (s \in subs') = FALSE
         /\ (IF s \in subs' THEN total' ELSE sub'[s].upto) = Upto(s)
    <3>1. s \notin subs
      BY <1>6, <2>3
    <3> QED
      <4>1. s \notin subs' /\ Upto(s) = sub[s].upto
        BY <1>1, <3>1 DEF Upto
      <4>2. sub'[s].upto = sub[s].upto
        BY <1>5, <2>1, <2>7
      <4>3. (s \in subs') = FALSE
        BY <4>1
      <4>4. (IF s \in subs' THEN total' ELSE sub'[s].upto) = Upto(s)
        BY <4>1, <4>2
      <4> QED
        BY <4>3, <4>4
  <2>11. Len(d.queue) <= QueueCap
    <3>1. 0 <= QueueCap
      BY CapsPositive
    <3>2. Len(d.queue) = 0
      BY <2>4, <2>7
    <3> QED
      BY <3>1, <3>2
  <2>12. StillGood(s)
    BY <2>1, <2>8, <2>9, <2>10, <2>11 DEF StillGood
  <2> QED
    BY <1>1, <1>2, <1>3, <1>4, <1>5, <1>6, <2>1, <2>3, <2>7, <2>12
<1> QED
  BY <1>9, <1>10

LEMMA LeaveGood ==
  ASSUME FeedInv, NEW s \in Sub, Leave(s)
  PROVE  /\ subs' = subs \ {s} /\ total' = total
         /\ sub' = [u \in Sub |-> sub'[u]]
         /\ \A u \in Sub : StillGood(u) /\ sub'[u].on = sub[u].on
         /\ \A u \in Sub \ {s} : sub'[u] = sub[u]
         /\ sub'[s].state = "left"
<1>1. /\ subs' = subs \ {s} /\ total' = total /\ sub \in [Sub -> Subscription]
      /\ sub[s].state = "watching"
  BY DEF Leave, ringVars, FeedInv, FeedTyped
<1>2. \A u \in Sub \ {s} : sub'[u] = sub[u]
  BY <1>1 DEF Leave
<1>3. \A u \in Sub \ {s} : StillGood(u)
  BY <1>1, <1>2, UntouchedGood
<1>4. sub' = [u \in Sub |-> sub'[u]]
  BY <1>1 DEF Leave
<1>5. PICK r \in Subscription : r = sub[s]
  BY <1>1
<1> DEFINE d == [r EXCEPT !.state = "left", !.upto = Upto(s)]
<1>6. sub'[s] = d
  <2>1. CASE s \in subs
    BY <1>1, <1>5, <2>1 DEF Leave, Upto
  <2>2. CASE s \notin subs
    BY <1>1, <1>5, <2>2 DEF Leave, Upto
  <2> QED
    BY <2>1, <2>2
<1>7. PICK in \in BOOLEAN : in = (s \in subs)
  <2>1. CASE s \in subs
    <3>1. TRUE = (s \in subs)
      BY <2>1
    <3> QED
      BY <3>1
  <2>2. CASE s \notin subs
    <3>1. FALSE = (s \in subs)
      BY <2>2
    <3> QED
      BY <3>1
  <2> QED
    BY <2>1, <2>2
<1>8. Good(r, in, Upto(s)) /\ Upto(s) \in Nat /\ Len(r.queue) <= QueueCap
  BY <1>5, <1>7, UptoTyped DEF FeedInv, FeedTyped
<1>9. /\ d.queue = r.queue /\ d.state = "left" /\ d.taken = r.taken
      /\ d.dropped = r.dropped /\ d.last = r.last /\ d.from = r.from
      /\ d.on = r.on /\ d.upto = Upto(s)
  BY <1>5 DEF Subscription
<1>10. d \in Subscription
  BY <1>8 DEF Subscription
<1> HIDE DEF d
<1>11. Good(d, FALSE, Upto(s))
  BY <1>8, <1>9 DEF Good
<1>12. (s \in subs') = FALSE
       /\ (IF s \in subs' THEN total' ELSE sub'[s].upto) = Upto(s)
  BY <1>1, <1>6, <1>9
<1>13. StillGood(s)
  BY <1>6, <1>8, <1>9, <1>10, <1>11, <1>12 DEF StillGood
<1> QED
  BY <1>1, <1>2, <1>3, <1>4, <1>5, <1>6, <1>9, <1>13

LEMMA AppendGood ==
  ASSUME FeedInv, NEW size \in Size, AppendEvent(size)
  PROVE  /\ subs' = subs /\ total' \in 0..MaxEvents
         /\ sub' = [u \in Sub |-> sub'[u]]
         /\ \A u \in Sub : /\ StillGood(u) /\ sub'[u].on = sub[u].on
                           /\ sub'[u].state = sub[u].state
<1> DEFINE e == [id |-> total + 1, size |-> size]
<1>1. /\ subs' = subs /\ total' = total + 1 /\ total \in Nat
      /\ total < MaxEvents /\ sub \in [Sub -> Subscription]
  BY CapsPositive DEF AppendEvent, FeedInv, FeedTyped
<1>2. total' \in 0..MaxEvents /\ e \in Event /\ e.id = total + 1
  BY <1>1, CapsPositive DEF Event
<1>3. sub' = [u \in Sub |-> IF u \in subs THEN Delivered(sub[u], e)
                                          ELSE sub[u]]
  BY DEF AppendEvent
<1> HIDE DEF e
<1>4. ASSUME NEW u \in Sub
      PROVE  /\ StillGood(u) /\ sub'[u].on = sub[u].on
             /\ sub'[u].state = sub[u].state
  <2>1. CASE u \in subs
    <3>1. PICK r \in Subscription : r = sub[u]
      BY <1>1
    <3>2. Good(r, TRUE, total) /\ Len(r.queue) <= QueueCap
          /\ r.state = "watching"
      <4>1. (u \in subs) = TRUE /\ Upto(u) = total
        BY <2>1 DEF Upto
      <4>2. Good(r, TRUE, total)
        BY <3>1, <4>1 DEF FeedInv
      <4> QED
        BY <3>1, <4>2 DEF Good, FeedInv, FeedTyped
    <3> DEFINE d == Delivered(r, e)
    <3>3. d \in Subscription /\ Good(d, TRUE, total + 1) /\ d.on = r.on
      BY <1>1, <1>2, <3>2, DeliveredGood
    <3>4. Len(d.queue) <= QueueCap
      BY <1>2, <3>2, DeliveredShort, CapsPositive
    <3>5. sub'[u] = d
      BY <1>3, <2>1, <3>1
    <3> HIDE DEF d
    <3>6. (u \in subs') = TRUE
          /\ (IF u \in subs' THEN total' ELSE sub'[u].upto) = total + 1
      BY <1>1, <2>1
    <3>7. StillGood(u)
      BY <3>3, <3>4, <3>5, <3>6 DEF StillGood
    <3>8. d.state = "watching"
      BY <3>3 DEF Good
    <3> QED
      BY <3>1, <3>2, <3>3, <3>5, <3>7, <3>8
  <2>2. CASE u \notin subs
    <3>1. sub'[u] = sub[u]
      BY <1>3, <2>2
    <3> QED
      BY <1>1, <2>2, <3>1, UntouchedGood
  <2> QED
    BY <2>1, <2>2
<1>5. sub' = [u \in Sub |-> sub'[u]]
  BY <1>3
<1> QED
  BY <1>1, <1>2, <1>4, <1>5

\* The next state of every subscription, and of what else FeedInv is about, is
\* FeedInv's next state.
LEMMA FeedFromParts ==
  ASSUME ws' \in Conn \cup {None}, closed' \in BOOLEAN,
         total' \in 0..MaxEvents, subs' \subseteq Sub,
         sub' = [s \in Sub |-> sub'[s]], \A s \in Sub : StillGood(s)
  PROVE  FeedInv'
<1>1. sub' \in [Sub -> Subscription]
  BY DEF StillGood
<1>2. \A s \in Sub : Len(sub'[s].queue) <= QueueCap
  BY DEF StillGood
<1>3. ASSUME NEW s \in Sub
      PROVE  Good(sub'[s], s \in subs', Upto(s)')
  <2>1. Upto(s)' = IF s \in subs' THEN total' ELSE sub'[s].upto
    BY DEF Upto
  <2> QED
    BY <2>1 DEF StillGood
<1> QED
  BY <1>1, <1>2, <1>3 DEF FeedInv, FeedTyped

LEMMA FeedInit == Init => FeedInv
<1> SUFFICES ASSUME Init
             PROVE  FeedInv
  OBVIOUS
<1> DEFINE empty == <<>>
<1>1. Unused = [state |-> "idle", queue |-> empty, dropped |-> 0, taken |-> 0,
                last |-> 0, from |-> 0, upto |-> 0, on |-> None]
  BY DEF Unused
<1>2. empty \in Seq(Event \cup {End}) /\ Len(empty) = 0 /\ empty = <<>>
  BY EmptySeq
<1>3. Waiting(empty) = 0
  BY <1>2 DEF Waiting
<1> HIDE DEF empty
<1>4. /\ Unused.state = "idle" /\ Unused.queue = empty /\ Unused.dropped = 0
      /\ Unused.taken = 0 /\ Unused.last = 0 /\ Unused.from = 0
      /\ Unused.upto = 0
  BY <1>1
<1>5. Unused \in Subscription
  BY <1>1, <1>2 DEF Subscription
<1>6. Good(Unused, FALSE, 0)
  BY <1>2, <1>3, <1>4 DEF Good
<1>7. /\ subs = {} /\ total = 0 /\ sub = [s \in Sub |-> Unused]
      /\ closed = FALSE /\ ws = None
  BY DEF Init
<1>8. Len(Unused.queue) <= QueueCap
  BY <1>2, <1>4, CapsPositive
<1>9. FeedTyped
  <2>1. sub \in [Sub -> Subscription]
    BY <1>5, <1>7
  <2>2. \A s \in Sub : Len(sub[s].queue) <= QueueCap
    BY <1>7, <1>8, Zenon
  <2>3. 0 \in 0..MaxEvents
    BY CapsPositive
  <2> QED
    BY <1>7, <2>1, <2>2, <2>3 DEF FeedTyped
<1>10. ASSUME NEW s \in Sub
       PROVE  Good(sub[s], s \in subs, Upto(s))
  <2>1. sub[s] = Unused /\ Upto(s) = 0 /\ (s \in subs) = FALSE
    BY <1>4, <1>7 DEF Upto
  <2> QED
    BY <1>6, <2>1
<1> QED
  BY <1>9, <1>10 DEF FeedInv

\* One step keeps every subscription sound.
LEMMA FeedStep == FeedInv /\ [Next]_vars => FeedInv'
<1> SUFFICES ASSUME FeedInv, [Next]_vars
             PROVE  FeedInv'
  OBVIOUS
<1>1. /\ ws \in Conn \cup {None} /\ closed \in BOOLEAN
      /\ total \in 0..MaxEvents /\ subs \subseteq Sub
      /\ sub = [s \in Sub |-> sub[s]]
  BY DEF FeedInv, FeedTyped
<1>2. ASSUME UNCHANGED <<busVars, total>>, ws' \in Conn \cup {None}
      PROVE  FeedInv'
  <2>1. /\ closed' = closed /\ subs' = subs /\ sub' = sub /\ total' = total
    BY <1>2 DEF busVars
  <2>2. \A s \in Sub : StillGood(s)
    BY <2>1, UntouchedGood
  <2> QED
    BY <1>1, <1>2, <2>1, <2>2, FeedFromParts
<1>3. ASSUME CloseWorker, total' = total, ws' \in Conn \cup {None},
             closed' \in BOOLEAN
      PROVE  FeedInv'
  <2>1. /\ subs' = {} /\ sub' = [s \in Sub |-> sub'[s]]
        /\ \A s \in Sub : StillGood(s)
    BY <1>3, CloseWorkerGood
  <2> QED
    BY <1>1, <1>3, <2>1, FeedFromParts
<1>4. ASSUME NEW c \in Conn, Register(c)
      PROVE  FeedInv'
  BY <1>2, <1>4 DEF Register
<1>5. ASSUME NEW c \in Conn, HandlerEnds(c)
      PROVE  FeedInv'
  <2>1. total' = total /\ closed' = closed
    BY <1>5 DEF HandlerEnds, ringVars
  <2>2. CASE ws = c
    BY <1>1, <1>3, <1>5, <2>1, <2>2 DEF HandlerEnds
  <2>3. CASE ws # c
    BY <1>1, <1>2, <1>5, <2>1, <2>3 DEF HandlerEnds, busVars
  <2> QED
    BY <2>2, <2>3
<1>6. ASSUME NEW c \in Conn, SendFails(c) \/ Disconnect(c) \/ CutBreaks(c)
      PROVE  FeedInv'
  BY <1>1, <1>2, <1>6 DEF SendFails, Disconnect, CutBreaks, ringVars
<1>7. ASSUME NEW c \in Conn, CutEnds(c)
      PROVE  FeedInv'
  BY <1>1, <1>3, <1>7 DEF CutEnds, ringVars
<1>8. CASE Close
  BY <1>1, <1>3, <1>8 DEF Close, ringVars, connVars
<1>9. ASSUME NEW s \in Sub, Watch(s)
      PROVE  FeedInv'
  <2>1. ws' = ws /\ closed' = closed /\ total' = total
    BY <1>9 DEF Watch, connVars, ringVars
  <2> QED
    BY <1>1, <1>9, <2>1, WatchGood, FeedFromParts
<1>10. ASSUME NEW s \in Sub, Get(s)
       PROVE  FeedInv'
  <2>1. ws' = ws /\ closed' = closed
    BY <1>10 DEF Get, connVars
  <2> QED
    BY <1>1, <1>10, <2>1, GetGood, FeedFromParts
<1>11. ASSUME NEW s \in Sub, Leave(s)
       PROVE  FeedInv'
  <2>1. ws' = ws /\ closed' = closed
    BY <1>11 DEF Leave, connVars
  <2>2. subs' \subseteq Sub
    BY <1>1, <1>11, LeaveGood
  <2> QED
    BY <1>1, <1>11, <2>1, <2>2, LeaveGood, FeedFromParts
<1>12. ASSUME NEW size \in Size, AppendEvent(size)
       PROVE  FeedInv'
  <2>1. ws' = ws /\ closed' = closed
    BY <1>12 DEF AppendEvent, connVars
  <2> QED
    BY <1>1, <1>12, <2>1, AppendGood, FeedFromParts
<1>13. CASE Acquire \/ Release \/ ReadPage
  BY <1>1, <1>2, <1>13 DEF Acquire, Release, ReadPage, connVars, ringVars
<1>14. CASE Prune
  BY <1>1, <1>2, <1>14 DEF Prune, ringVars
<1>15. CASE UNCHANGED vars
  BY <1>1, <1>2, <1>15 DEF vars, connVars, ringVars
<1> QED
  BY <1>4, <1>5, <1>6, <1>7, <1>8, <1>9, <1>10, <1>11, <1>12, <1>13, <1>14,
     <1>15 DEF Next

\* FeedInv holds of every reachable state.
THEOREM FeedInvariant == Spec => []FeedInv
<1>1. Init => FeedInv
  BY FeedInit
<1>2. FeedInv /\ [Next]_vars => FeedInv'
  BY FeedStep
<1> QED
  BY <1>1, <1>2, PTL DEF Spec

\* Every event of a subscription's time was taken, waits or is counted as
\* dropped, in the order of the events, whatever the sizes and capacities.
THEOREM CountedTheorem == Spec => []FeedCounted
<1>1. FeedInv => FeedCounted
  BY DEF FeedInv, Good, FeedCounted
<1> QED
  BY <1>1, FeedInvariant, PTL

\* A subscription that the bus let go finds the sentinel at the end of its
\* queue and nowhere else.
THEOREM EndTheorem == Spec => []EndDelivered
<1> DEFINE q(s) == sub[s].queue
<1>1. ASSUME FeedInv
      PROVE  EndDelivered
  <2> SUFFICES ASSUME NEW s \in Sub, sub[s].state = "watching"
               PROVE  IF s \in subs THEN \A i \in DOMAIN q(s) : q(s)[i] # End
                      ELSE /\ q(s) # <<>> /\ q(s)[Len(q(s))] = End
                           /\ \A i \in 1..(Len(q(s)) - 1) : q(s)[i] # End
    BY DEF EndDelivered
  <2>1. sub[s] \in Subscription /\ Good(sub[s], s \in subs, Upto(s))
    BY <1>1 DEF FeedInv, FeedTyped
  <2>2. q(s) \in Seq(Item) /\ DOMAIN q(s) = 1..Len(q(s)) /\ Len(q(s)) \in Nat
    BY <2>1, LenProperties DEF Subscription, Item
  <2>3. \A i \in 1..Len(q(s)) : q(s)[i] = End => i = Len(q(s)) /\ s \notin subs
    BY <2>1 DEF Good
  <2>4. s \notin subs => q(s) # <<>> /\ q(s)[Len(q(s))] = End
    BY <2>1 DEF Good
  <2> HIDE DEF q
  <2>5. \A i \in 1..(Len(q(s)) - 1) : q(s)[i] # End
    <3>1. PICK n \in Nat : n = Len(q(s))
      BY <2>2
    <3>2. \A i \in 1..n : q(s)[i] = End => i = n
      BY <2>3, <3>1
    <3>3. \A i \in 1..(n - 1) : q(s)[i] # End
      BY <3>2
    <3> QED
      BY <3>1, <3>3
  <2> QED
    BY <2>2, <2>3, <2>4, <2>5
<1> QED
  BY <1>1, FeedInvariant, PTL

-----------------------------------------------------------------------------
(* The connections *)

ConnTyped ==
  /\ latest \in Conn \cup {None} /\ entry \in BOOLEAN /\ lost \subseteq Conn
  /\ conn \in [Conn -> {"new", "open", "done"}]
  /\ cut \in [Conn -> {"no", "closing", "done", "broken"}]

Here(s) == sub[s].state \in {"watching", "ended"}

\* Stranded, without asking whether a handler or a disconnect is still at work.
WaitsInVain(s) == s \in subs /\ sub[s].on # None /\ ws = None

\* The latest connection went without ending the subscriptions, so far at least.
EndedNone ==
  \/ latest \in lost
  \/ latest \in Conn /\ cut[latest] \in {"closing", "broken"}

\* A socket registers once; the latest is the worker's while there is one; a
\* disconnected socket is not the worker's any more.
ConnInv ==
  /\ ConnTyped
  /\ ws # None => latest = ws /\ conn[ws] # "new"
  /\ \A c \in Conn : cut[c] # "no" => ws # c /\ conn[c] # "new"
  /\ \A s \in Sub : sub[s].on # None => conn[sub[s].on] # "new"
  /\ OwnEndOnly
  /\ \A s \in Sub : WaitsInVain(s) => EndedNone

\* A step that moves a subscription without cutting it, or begins it with the
\* connection of the moment.
Calm(s) ==
  /\ sub'[s].on = sub[s].on
  /\ Here(s)' => Here(s) /\ (s \in subs => s \in subs')
  /\ s \in subs' => s \in subs

Begun(s) == sub'[s].on = ws /\ (s \in subs' \/ closed)

LEMMA ConnInit == Init => ConnInv
<1> SUFFICES ASSUME Init
             PROVE  ConnInv
  OBVIOUS
<1>1. \A s \in Sub : sub[s].on = None
  BY DEF Init, Unused
<1>2. ConnTyped
  BY DEF Init, ConnTyped
<1>3. OwnEndOnly /\ \A s \in Sub : ~WaitsInVain(s)
  BY <1>1 DEF OwnEndOnly, WaitsInVain
<1> QED
  BY <1>1, <1>2, <1>3 DEF Init, ConnInv

\* What the bus does leaves the connections' invariant.
LEMMA ConnQuiet ==
  ASSUME FeedInv, ConnInv, UNCHANGED connVars, closed' = closed,
         \A s \in Sub : Calm(s) \/ Begun(s)
  PROVE  ConnInv'
<1>1. /\ ws' = ws /\ entry' = entry /\ conn' = conn /\ cut' = cut
      /\ lost' = lost /\ latest' = latest
  BY DEF connVars
<1>2. ASSUME NEW s \in Sub, sub'[s].on # None
      PROVE  conn'[sub'[s].on] # "new"
  <2>1. CASE sub'[s].on = sub[s].on
    BY <1>1, <1>2, <2>1 DEF ConnInv
  <2>2. CASE sub'[s].on = ws
    BY <1>1, <1>2, <2>2 DEF ConnInv
  <2> QED
    BY <2>1, <2>2 DEF Calm, Begun
<1>3. OwnEndOnly'
  <2> SUFFICES ASSUME NEW s \in Sub, Here(s)', s \notin subs', ~closed,
                      sub'[s].on # None, sub'[s].on = ws
               PROVE  \E c \in Conn \ {ws} : cut[c] = "done"
    BY <1>1 DEF OwnEndOnly, Here
  <2>1. Calm(s)
    BY DEF Begun
  <2>2. Here(s) /\ s \notin subs /\ sub[s].on # None /\ sub[s].on = ws
    BY <2>1 DEF Calm
  <2> QED
    BY <2>2 DEF ConnInv, OwnEndOnly, Here
<1>4. ASSUME NEW s \in Sub, WaitsInVain(s)'
      PROVE  EndedNone'
  <2>1. s \in subs' /\ sub'[s].on # None /\ ws = None
    BY <1>1, <1>4 DEF WaitsInVain
  <2>2. Calm(s)
    BY <2>1 DEF Begun
  <2>3. WaitsInVain(s)
    BY <2>1, <2>2 DEF WaitsInVain, Calm
  <2> QED
    BY <1>1, <2>3 DEF ConnInv, EndedNone
<1> QED
  BY <1>1, <1>2, <1>3, <1>4 DEF ConnInv, ConnTyped

\* What the bus does is quiet.
LEMMA BusQuiet ==
  ASSUME FeedInv,
         \/ \E s \in Sub : Watch(s) \/ Get(s) \/ Leave(s)
         \/ \E size \in Size : AppendEvent(size)
         \/ UNCHANGED busVars /\ UNCHANGED connVars
  PROVE  /\ UNCHANGED connVars /\ closed' = closed
         /\ \A s \in Sub : Calm(s) \/ Begun(s)
<1>1. ASSUME NEW s \in Sub, Watch(s)
      PROVE  \A u \in Sub : Calm(u) \/ Begun(u)
  <2>1. Begun(s)
    BY <1>1, WatchGood DEF Begun
  <2>2. \A u \in Sub \ {s} : Calm(u)
    BY <1>1, WatchGood DEF Calm, Here
  <2> QED
    BY <2>1, <2>2
<1>2. ASSUME NEW s \in Sub, Get(s)
      PROVE  \A u \in Sub : Calm(u)
  BY <1>2, GetGood DEF Calm, Here
<1>3. ASSUME NEW s \in Sub, Leave(s)
      PROVE  \A u \in Sub : Calm(u)
  BY <1>3, LeaveGood DEF Calm, Here
<1>4. ASSUME NEW size \in Size, AppendEvent(size)
      PROVE  \A u \in Sub : Calm(u)
  BY <1>4, AppendGood DEF Calm, Here
<1>5. ASSUME UNCHANGED busVars
      PROVE  \A u \in Sub : Calm(u)
  BY <1>5 DEF busVars, Calm, Here
<1>6. UNCHANGED connVars /\ closed' = closed
  BY DEF Watch, Get, Leave, AppendEvent, busVars
<1> QED
  BY <1>1, <1>2, <1>3, <1>4, <1>5, <1>6

\* One step of a connection keeps its invariant.
LEMMA ConnStep == FeedInv /\ ConnInv /\ [Next]_vars => ConnInv'
<1> SUFFICES ASSUME FeedInv, ConnInv, [Next]_vars
             PROVE  ConnInv'
  OBVIOUS
<1>1. ConnTyped /\ ws \in Conn \cup {None} /\ None \notin Conn
  BY FeedAssumption DEF ConnInv, FeedInv, FeedTyped
<1>a. \A s \in Sub : sub[s].on \in Conn \cup {None}
  BY DEF FeedInv, FeedTyped, Subscription
<1>2. ASSUME \/ \E s \in Sub : Watch(s) \/ Get(s) \/ Leave(s)
             \/ \E size \in Size : AppendEvent(size)
             \/ UNCHANGED busVars /\ UNCHANGED connVars
      PROVE  ConnInv'
  BY <1>2, BusQuiet, ConnQuiet
<1>3. ASSUME NEW c \in Conn, Register(c)
      PROVE  ConnInv'
  <2>1. /\ conn[c] = "new" /\ conn' = [conn EXCEPT ![c] = "open"]
        /\ ws' = c /\ latest' = c /\ entry' = TRUE /\ cut' = cut
        /\ lost' = lost /\ subs' = subs /\ sub' = sub /\ closed' = closed
    BY <1>3 DEF Register, busVars
  <2>2. ConnTyped'
    BY <1>1, <2>1 DEF ConnTyped
  <2>3. conn'[c] # "new" /\ \A d \in Conn \ {c} : conn'[d] = conn[d]
    BY <1>1, <2>1 DEF ConnTyped
  <2>4. \A d \in Conn : cut'[d] # "no" => ws' # d /\ conn'[d] # "new"
    BY <2>1, <2>3 DEF ConnInv
  <2>5. \A s \in Sub : sub'[s].on # None => conn'[sub'[s].on] # "new"
    BY <1>a, <2>1, <2>3 DEF ConnInv
  <2>6. OwnEndOnly'
    <3>1. \A s \in Sub : sub[s].on # c
      BY <1>1, <2>1 DEF ConnInv
    <3> QED
      BY <2>1, <3>1 DEF OwnEndOnly
  <2>7. \A s \in Sub : ~WaitsInVain(s)'
    BY <1>1, <2>1 DEF WaitsInVain
  <2> QED
    BY <2>1, <2>2, <2>3, <2>4, <2>5, <2>6, <2>7 DEF ConnInv
<1>4. ASSUME NEW c \in Conn, HandlerEnds(c)
      PROVE  ConnInv'
  <2>1. /\ conn' = [conn EXCEPT ![c] = "done"] /\ entry' = entry
        /\ cut' = cut /\ lost' = lost /\ latest' = latest
        /\ closed' = closed
    BY <1>4 DEF HandlerEnds
  <2>2. ConnTyped' /\ \A d \in Conn : conn[d] # "new" => conn'[d] # "new"
    BY <1>1, <2>1 DEF ConnTyped
  <2>3. CASE ws = c
    <3>1. ws' = None /\ CloseWorker /\ total' = total
      BY <1>4, <2>3 DEF HandlerEnds, ringVars
    <3>2. subs' = {} /\ \A s \in Sub : sub'[s].on = sub[s].on
      BY <3>1, CloseWorkerGood
    <3>3. OwnEndOnly'
      BY <3>1 DEF OwnEndOnly
    <3>4. \A s \in Sub : ~WaitsInVain(s)'
      BY <3>2 DEF WaitsInVain
    <3>5. \A d \in Conn : cut'[d] # "no" => ws' # d /\ conn'[d] # "new"
      BY <1>1, <2>1, <2>2, <3>1 DEF ConnInv
    <3>6. \A s \in Sub : sub'[s].on # None => conn'[sub'[s].on] # "new"
      BY <1>a, <2>2, <3>2 DEF ConnInv
    <3> QED
      BY <2>2, <3>1, <3>3, <3>4, <3>5, <3>6 DEF ConnInv
  <2>4. CASE ws # c
    <3>1. ws' = ws /\ subs' = subs /\ sub' = sub
      BY <1>4, <2>4 DEF HandlerEnds
    <3>2. OwnEndOnly'
      BY <2>1, <3>1 DEF ConnInv, OwnEndOnly
    <3>3. \A s \in Sub : WaitsInVain(s)' => EndedNone'
      BY <2>1, <3>1 DEF ConnInv, WaitsInVain, EndedNone
    <3>4. \A d \in Conn : cut'[d] # "no" => ws' # d /\ conn'[d] # "new"
      BY <2>1, <2>2, <3>1 DEF ConnInv
    <3>5. \A s \in Sub : sub'[s].on # None => conn'[sub'[s].on] # "new"
      BY <1>a, <2>2, <3>1 DEF ConnInv
    <3>6. ws' # None => latest' = ws' /\ conn'[ws'] # "new"
      BY <1>1, <2>1, <2>2, <3>1 DEF ConnInv
    <3> QED
      BY <2>2, <3>2, <3>3, <3>4, <3>5, <3>6 DEF ConnInv
  <2> QED
    BY <2>3, <2>4
<1>5. ASSUME NEW c \in Conn, SendFails(c)
      PROVE  ConnInv'
  <2>1. /\ ws = c /\ ws' = None /\ lost' = lost \cup {c} /\ entry' = entry
        /\ conn' = conn /\ cut' = cut /\ latest' = latest
        /\ closed' = closed /\ subs' = subs /\ sub' = sub
    BY <1>5 DEF SendFails, busVars
  <2>2. EndedNone'
    BY <1>1, <2>1 DEF ConnInv, EndedNone
  <2>3. ConnTyped'
    BY <1>1, <2>1 DEF ConnTyped
  <2>4. OwnEndOnly'
    BY <2>1 DEF OwnEndOnly
  <2> QED
    BY <1>1, <2>1, <2>2, <2>3, <2>4 DEF ConnInv
<1>6. ASSUME NEW c \in Conn, Disconnect(c)
      PROVE  ConnInv'
  <2>1. /\ ws = c /\ ws' = None /\ cut' = [cut EXCEPT ![c] = "closing"]
        /\ entry' = entry /\ conn' = conn /\ lost' = lost
        /\ latest' = latest /\ subs' = subs /\ sub' = sub
    BY <1>6 DEF Disconnect, busVars
  <2>2. ConnTyped' /\ cut'[c] = "closing"
        /\ \A d \in Conn \ {c} : cut'[d] = cut[d]
    BY <1>1, <2>1 DEF ConnTyped
  <2>3. OwnEndOnly'
    BY <2>1 DEF OwnEndOnly
  <2>4. EndedNone'
    BY <1>1, <2>1, <2>2 DEF ConnInv, EndedNone
  <2>5. conn[c] # "new"
    BY <1>1, <2>1 DEF ConnInv
  <2>6. \A d \in Conn : cut'[d] # "no" => ws' # d /\ conn'[d] # "new"
    BY <1>1, <2>1, <2>2, <2>5 DEF ConnInv
  <2>7. \A s \in Sub : sub'[s].on # None => conn'[sub'[s].on] # "new"
    BY <2>1 DEF ConnInv
  <2> QED
    BY <2>1, <2>2, <2>3, <2>4, <2>6, <2>7 DEF ConnInv
<1>7. ASSUME NEW c \in Conn, CutEnds(c)
      PROVE  ConnInv'
  <2>1. /\ cut[c] = "closing" /\ cut' = [cut EXCEPT ![c] = "done"]
        /\ CloseWorker /\ total' = total /\ ws' = ws /\ entry' = entry
        /\ conn' = conn /\ lost' = lost /\ latest' = latest
    BY <1>7 DEF CutEnds, ringVars
  <2>2. subs' = {} /\ \A s \in Sub : sub'[s].on = sub[s].on
    BY <2>1, CloseWorkerGood
  <2>3. ConnTyped' /\ cut'[c] = "done"
        /\ \A d \in Conn \ {c} : cut'[d] = cut[d]
    BY <1>1, <2>1 DEF ConnTyped
  <2>4. ws # c /\ conn[c] # "new"
    BY <2>1 DEF ConnInv
  <2>5. OwnEndOnly'
    BY <2>1, <2>3, <2>4 DEF OwnEndOnly
  <2>6. \A s \in Sub : ~WaitsInVain(s)'
    BY <2>2 DEF WaitsInVain
  <2>7. \A d \in Conn : cut'[d] # "no" => ws' # d /\ conn'[d] # "new"
    BY <2>1, <2>3, <2>4 DEF ConnInv
  <2>8. \A s \in Sub : sub'[s].on # None => conn'[sub'[s].on] # "new"
    BY <2>1, <2>2 DEF ConnInv
  <2>9. ws' # None => latest' = ws' /\ conn'[ws'] # "new"
    BY <2>1 DEF ConnInv
  <2> QED
    BY <2>3, <2>5, <2>6, <2>7, <2>8, <2>9 DEF ConnInv
<1>8. CASE Close
  <2>1. /\ closed' = TRUE /\ CloseWorker /\ total' = total /\ ws' = ws
        /\ entry' = entry /\ conn' = conn /\ cut' = cut /\ lost' = lost
        /\ latest' = latest
    BY <1>8 DEF Close, connVars, ringVars
  <2>2. subs' = {} /\ \A s \in Sub : sub'[s].on = sub[s].on
    BY <2>1, CloseWorkerGood
  <2>3. OwnEndOnly' /\ \A s \in Sub : ~WaitsInVain(s)'
    BY <2>1, <2>2 DEF OwnEndOnly, WaitsInVain
  <2>4. \A s \in Sub : sub'[s].on # None => conn'[sub'[s].on] # "new"
    BY <2>1, <2>2 DEF ConnInv
  <2>5. ws' # None => latest' = ws' /\ conn'[ws'] # "new"
    BY <2>1 DEF ConnInv
  <2> QED
    BY <1>1, <2>1, <2>3, <2>4, <2>5 DEF ConnInv, ConnTyped
<1>9. CASE Prune
  <2>1. /\ entry' = FALSE /\ ws' = ws /\ conn' = conn /\ cut' = cut
        /\ lost' = lost /\ latest' = latest /\ closed' = closed
        /\ subs' = subs /\ sub' = sub
    BY <1>9 DEF Prune, busVars
  <2>2. OwnEndOnly'
    BY <2>1 DEF ConnInv, OwnEndOnly
  <2>3. \A s \in Sub : WaitsInVain(s)' => EndedNone'
    BY <2>1 DEF ConnInv, WaitsInVain, EndedNone
  <2>4. \A s \in Sub : sub'[s].on # None => conn'[sub'[s].on] # "new"
    BY <2>1 DEF ConnInv
  <2>5. ws' # None => latest' = ws' /\ conn'[ws'] # "new"
    BY <2>1 DEF ConnInv
  <2> QED
    BY <1>1, <2>1, <2>2, <2>3, <2>4, <2>5 DEF ConnInv, ConnTyped
<1>10. CASE Acquire \/ Release \/ ReadPage \/ UNCHANGED vars
  <2>1. UNCHANGED busVars /\ UNCHANGED connVars
    BY <1>10 DEF Acquire, Release, ReadPage, vars, connVars, busVars
  <2> QED
    BY <1>2, <2>1
<1>11. ASSUME NEW c \in Conn, CutBreaks(c)
       PROVE  ConnInv'
  <2>1. /\ cut[c] = "closing" /\ cut' = [cut EXCEPT ![c] = "broken"]
        /\ ws' = ws /\ entry' = entry /\ conn' = conn /\ lost' = lost
        /\ latest' = latest /\ closed' = closed /\ subs' = subs /\ sub' = sub
    BY <1>11 DEF CutBreaks, busVars
  <2>2. ConnTyped' /\ cut'[c] = "broken"
        /\ \A d \in Conn \ {c} : cut'[d] = cut[d]
    BY <1>1, <2>1 DEF ConnTyped
  <2>3. OwnEndOnly'
    <3>1. \A d \in Conn : cut[d] = "done" => cut'[d] = "done"
      BY <2>1, <2>2
    <3> QED
      BY <2>1, <3>1 DEF ConnInv, OwnEndOnly
  <2>4. \A s \in Sub : WaitsInVain(s)' => EndedNone'
    <3>1. EndedNone => EndedNone'
      BY <2>1, <2>2 DEF EndedNone
    <3> QED
      BY <2>1, <3>1 DEF ConnInv, WaitsInVain
  <2>5. \A d \in Conn : cut'[d] # "no" => ws' # d /\ conn'[d] # "new"
    BY <2>1, <2>2 DEF ConnInv
  <2>6. \A s \in Sub : sub'[s].on # None => conn'[sub'[s].on] # "new"
    BY <2>1 DEF ConnInv
  <2>7. ws' # None => latest' = ws' /\ conn'[ws'] # "new"
    BY <2>1 DEF ConnInv
  <2> QED
    BY <2>2, <2>3, <2>4, <2>5, <2>6, <2>7 DEF ConnInv
<1> QED
  BY <1>2, <1>3, <1>4, <1>5, <1>6, <1>7, <1>8, <1>9, <1>10, <1>11 DEF Next

\* ConnInv holds of every reachable state: who is connected, and which ends of
\* a connection have still to reach which subscriptions.
THEOREM ConnInvariant == Spec => []ConnInv
<1>1. Init => ConnInv
  BY ConnInit
<1>2. FeedInv /\ ConnInv /\ [Next]_vars => ConnInv'
  BY ConnStep
<1> QED
  BY <1>1, <1>2, FeedInvariant, PTL DEF Spec

\* While the connection a subscription began with is there, only a disconnect
\* of another connection or the end of the bus ends it.
THEOREM OwnEndTheorem == Spec => []OwnEndOnly
<1>1. ConnInv => OwnEndOnly
  BY DEF ConnInv
<1> QED
  BY <1>1, ConnInvariant, PTL

\* Only a failed send or a disconnect that broke off leaves a subscription
\* waiting for a worker that is gone.
THEOREM StrandTheorem == Spec => []OnlyFailureStrands
<1>1. ConnInv => OnlyFailureStrands
  BY DEF ConnInv, OnlyFailureStrands, Stranded, Over, WaitsInVain, EndedNone
<1> QED
  BY <1>1, ConnInvariant, PTL

-----------------------------------------------------------------------------
(* The ring and its reader *)

\* The ring q holds the last Len(q) of the numbers up to n.
Holds(q, n) == Len(q) <= n /\ \A i \in 1..Len(q) : q[i] = n - Len(q) + i

RingTyped ==
  /\ seq \in 0..MaxEvents /\ minSeq \in 0..MaxEvents
  /\ ring \in Seq(1..MaxEvents) /\ Len(ring) <= RingCap
  /\ page \in [held: BOOLEAN, cursor: Nat, read: SUBSET Nat, told: SUBSET Nat]

\* The ring is contiguous, and nobody reads the ring of an entry that is gone.
RingInv ==
  /\ RingTyped
  /\ seq <= total
  /\ Holds(ring, seq)
  /\ minSeq = Oldest(ring)
  /\ ws # None => entry
  /\ ~entry => ~page.held
  /\ page.held => page.cursor <= seq
  /\ PageWhole

LEMMA MinIs ==
  ASSUME NEW S \in SUBSET Int, NEW m \in S, \A y \in S : m <= y
  PROVE  Min(S) = m
<1>1. \E x \in S : \A y \in S : x <= y
  OBVIOUS
<1>2. Min(S) \in S /\ \A y \in S : Min(S) <= y
  BY <1>1 DEF Min
<1>3. PICK x \in Int : x = Min(S) /\ x <= m
  BY <1>2
<1>4. m <= x
  BY <1>2, <1>3
<1>5. x = m
  BY <1>3, <1>4
<1> QED
  BY <1>3, <1>5

LEMMA MaxIs ==
  ASSUME NEW S \in SUBSET Int, NEW m \in S, \A y \in S : y <= m
  PROVE  Max(S) = m
<1>1. \E x \in S : \A y \in S : x >= y
  OBVIOUS
<1>2. Max(S) \in S /\ \A y \in S : Max(S) >= y
  BY <1>1 DEF Max
<1>3. PICK x \in Int : x = Max(S) /\ x >= m
  BY <1>2
<1>4. m >= x
  BY <1>2, <1>3
<1>5. x = m
  BY <1>3, <1>4
<1> QED
  BY <1>3, <1>5

\* Appending the next number and trimming keeps the ring contiguous.
LEMMA KeptHolds ==
  ASSUME NEW q \in Seq(1..MaxEvents), NEW n \in 0..MaxEvents, n < MaxEvents,
         Holds(q, n), Len(q) <= RingCap
  PROVE  LET k == Kept(Append(q, n + 1))
         IN  /\ k \in Seq(1..MaxEvents) /\ Len(k) <= RingCap
             /\ Holds(k, n + 1) /\ Oldest(k) \in 0..MaxEvents
<1> DEFINE a == Append(q, n + 1)
           k == Kept(a)
<1>1. n + 1 \in 1..MaxEvents /\ n \in Nat /\ MaxEvents \in Nat
  BY CapsPositive
<1>2. PICK l \in Nat : l = Len(q)
  BY LenProperties
<1>3. /\ a \in Seq(1..MaxEvents) /\ Len(a) = l + 1 /\ a # <<>>
      /\ \A i \in 1..l : a[i] = q[i]
  BY <1>1, <1>2, AppendProperties
<1>4. a[l + 1] = n + 1
  BY <1>1, <1>2, AppendProperties
<1>5. l <= n /\ \A i \in 1..l : q[i] = n - l + i
  BY <1>2 DEF Holds
<1> HIDE DEF a
<1>6. \A i \in 1..(l + 1) : a[i] = (n + 1) - (l + 1) + i
  <2> SUFFICES ASSUME NEW i \in 1..(l + 1)
               PROVE  a[i] = (n + 1) - (l + 1) + i
    OBVIOUS
  <2>1. CASE i = l + 1
    BY <1>1, <1>4, <2>1
  <2>2. CASE i # l + 1
    <3>1. i \in 1..l
      BY <2>2
    <3>2. a[i] = n - l + i
      BY <1>3, <1>5, <3>1
    <3>3. n - l + i = (n + 1) - (l + 1) + i
      BY <1>1
    <3> QED
      BY <3>2, <3>3
  <2> QED
    BY <2>1, <2>2
<1>7. CASE l + 1 <= RingCap
  <2>1. k = a
    BY <1>3, <1>7, CapsPositive DEF Kept
  <2>2. Holds(a, n + 1)
    BY <1>1, <1>3, <1>5, <1>6 DEF Holds
  <2>3. Head(a) \in 1..MaxEvents
    BY <1>3, HeadTailProperties
  <2>4. Oldest(a) \in 0..MaxEvents
    BY <1>1, <1>3, <2>3 DEF Oldest
  <2> QED
    BY <1>3, <1>7, <2>1, <2>2, <2>4 DEF a
<1>8. CASE ~(l + 1 <= RingCap)
  <2>1. l = RingCap /\ l >= 1
    BY <1>2, <1>8, CapsPositive
  <2> DEFINE t == Tail(a)
  <2>2. k = t
    BY <1>3, <1>8, CapsPositive DEF Kept
  <2>3. /\ t \in Seq(1..MaxEvents) /\ Len(t) = l
        /\ \A i \in 1..l : t[i] = a[i + 1]
    BY <1>3, HeadTailProperties
  <2> HIDE DEF t, k
  <2>4. ASSUME NEW i \in 1..l
        PROVE  t[i] = (n + 1) - l + i
    <3>1. i + 1 \in 1..(l + 1)
      OBVIOUS
    <3>2. t[i] = (n + 1) - (l + 1) + (i + 1)
      BY <1>6, <2>3, <3>1
    <3>3. (n + 1) - (l + 1) + (i + 1) = (n + 1) - l + i
      BY <1>1
    <3> QED
      BY <3>2, <3>3
  <2>5. Holds(t, n + 1)
    BY <1>1, <1>5, <2>3, <2>4 DEF Holds
  <2>6. t # <<>>
    BY <2>1, <2>3, EmptySeq
  <2>7. Head(t) \in 1..MaxEvents
    BY <2>3, <2>6, HeadTailProperties
  <2>8. Oldest(t) \in 0..MaxEvents
    BY <1>1, <2>6, <2>7 DEF Oldest
  <2>9. Len(t) <= RingCap
    BY <2>1, <2>3
  <2> QED
    BY <2>2, <2>3, <2>5, <2>8, <2>9 DEF k, a
<1> QED
  BY <1>2, <1>7, <1>8

LEMMA RingInit == Init => RingInv
<1> SUFFICES ASSUME Init
             PROVE  RingInv
  OBVIOUS
<1>1. /\ seq = 0 /\ ring = <<>> /\ minSeq = 0 /\ total = 0 /\ ws = None
      /\ entry = FALSE /\ page = NoPage
  BY DEF Init
<1>2. <<>> \in Seq(1..MaxEvents) /\ Len(<<>>) = 0
  BY EmptySeq
<1>3. NoPage \in [held: BOOLEAN, cursor: Nat, read: SUBSET Nat,
                  told: SUBSET Nat] /\ NoPage.held = FALSE
  BY DEF NoPage
<1>4. RingTyped
  BY <1>1, <1>2, <1>3, CapsPositive DEF RingTyped
<1>5. Holds(ring, seq) /\ minSeq = Oldest(ring)
  BY <1>1, <1>2 DEF Holds, Oldest
<1>6. seq <= total
  BY <1>1
<1> QED
  BY <1>1, <1>3, <1>4, <1>5, <1>6 DEF RingInv, PageWhole

\* A page takes the reader to the last row it got, and what it could not get
\* any more it is told.
LEMMA ReadPageWhole ==
  ASSUME RingInv, ReadPage
  PROVE  /\ page' \in [held: BOOLEAN, cursor: Nat, read: SUBSET Nat,
                       told: SUBSET Nat]
         /\ page'.held /\ page'.cursor <= seq
         /\ page'.read \cup page'.told = 1..page'.cursor
<1> DEFINE after == page.cursor
           later == {i \in DOMAIN ring : ring[i] > after}
           rows  == {i \in later : i < Min(later) + Limit}
<1>1. /\ page.held /\ later # {}
      /\ page' = [page EXCEPT !.cursor = ring[Max(rows)],
                              !.read = @ \cup {ring[i] : i \in rows},
                              !.told = @ \cup (after + 1)..(minSeq - 1)]
  BY DEF ReadPage
<1>2. /\ page \in [held: BOOLEAN, cursor: Nat, read: SUBSET Nat,
                   told: SUBSET Nat]
      /\ seq \in Nat /\ ring \in Seq(1..MaxEvents) /\ Holds(ring, seq)
      /\ minSeq = Oldest(ring) /\ page.read \cup page.told = 1..page.cursor
  BY <1>1, CapsPositive DEF RingInv, RingTyped, PageWhole
<1>3. PICK n \in Nat : n = Len(ring)
  BY <1>2, LenProperties
<1>4. PICK b \in Nat : b = seq - n
  BY <1>2, <1>3 DEF Holds
<1>5. PICK a \in Nat : a = after
  BY <1>2
<1>6. DOMAIN ring = 1..n /\ \A i \in 1..n : ring[i] = b + i
  BY <1>2, <1>3, <1>4, LenProperties DEF Holds
<1>7. later = {i \in 1..n : b + i > a}
  BY <1>5, <1>6
<1> HIDE DEF later, after
<1>8. PICK lo \in 1..n : lo = IF a < b THEN 1 ELSE a - b + 1
  <2>1. PICK i \in 1..n : b + i > a
    BY <1>1, <1>7
  <2>2. CASE a < b
    <3>1. 1 \in 1..n
      BY <2>1
    <3> QED
      BY <2>2, <3>1
  <2>3. CASE ~(a < b)
    <3>1. a - b + 1 \in 1..n
      BY <2>1, <2>3
    <3> QED
      BY <2>3, <3>1
  <2> QED
    BY <2>2, <2>3
<1>9. later = lo..n
  BY <1>7, <1>8
<1>10. Min(later) = lo
  <2>1. later \in SUBSET Int /\ lo \in later /\ \A y \in later : lo <= y
    BY <1>8, <1>9
  <2> QED
    BY <2>1, MinIs
<1>11. Limit \in Nat \ {0}
  BY CapsPositive
<1>12. PICK hi \in lo..n : hi = IF lo + Limit - 1 <= n THEN lo + Limit - 1
                                                      ELSE n
  <2>1. CASE lo + Limit - 1 <= n
    <3>1. lo + Limit - 1 \in lo..n
      BY <1>11, <2>1
    <3> QED
      BY <2>1, <3>1
  <2>2. CASE ~(lo + Limit - 1 <= n)
    <3>1. n \in lo..n
      BY <1>8
    <3> QED
      BY <2>2, <3>1
  <2> QED
    BY <2>1, <2>2
<1>13. rows = lo..hi
  BY <1>8, <1>9, <1>10, <1>11, <1>12
<1> HIDE DEF rows
<1>14. Max(rows) = hi
  <2>1. rows \in SUBSET Int /\ hi \in rows /\ \A y \in rows : y <= hi
    BY <1>8, <1>12, <1>13
  <2> QED
    BY <2>1, MaxIs
<1>15. ring[Max(rows)] = b + hi /\ hi \in 1..n
  BY <1>6, <1>8, <1>12, <1>14
<1>16. {ring[i] : i \in rows} = (b + lo)..(b + hi)
  <2>1. \A i \in rows : ring[i] = b + i
    BY <1>6, <1>8, <1>12, <1>13
  <2>2. ASSUME NEW x \in (b + lo)..(b + hi)
        PROVE  \E i \in rows : ring[i] = x
    <3>1. x - b \in rows /\ b + (x - b) = x
      BY <1>8, <1>12, <1>13
    <3> QED
      BY <2>1, <3>1
  <2>3. \A i \in rows : b + i \in (b + lo)..(b + hi)
    BY <1>8, <1>12, <1>13
  <2> QED
    BY <2>1, <2>2, <2>3
<1>17. minSeq = b + 1
  <2>1. ring # <<>> /\ Head(ring) = ring[1]
    BY <1>2, <1>3, <1>8, EmptySeq, HeadTailProperties
  <2>2. 1 \in 1..n
    BY <1>8
  <2> QED
    BY <1>2, <1>6, <2>1, <2>2 DEF Oldest
<1>18. page' = [page EXCEPT !.cursor = b + hi,
                            !.read = page.read \cup (b + lo)..(b + hi),
                            !.told = page.told \cup (a + 1)..b]
  <2>1. minSeq - 1 = b
    BY <1>17
  <2> QED
    BY <1>1, <1>2, <1>5, <1>15, <1>16, <2>1
<1>19. /\ page'.held = page.held /\ page'.cursor = b + hi
       /\ page'.read = page.read \cup (b + lo)..(b + hi)
       /\ page'.told = page.told \cup (a + 1)..b
  BY <1>2, <1>18
<1>20. page' \in [held: BOOLEAN, cursor: Nat, read: SUBSET Nat,
                  told: SUBSET Nat]
  <2>1. /\ b + hi \in Nat /\ (b + lo)..(b + hi) \in SUBSET Nat
        /\ (a + 1)..b \in SUBSET Nat
    BY <1>8, <1>12
  <2>2. /\ page.read \cup (b + lo)..(b + hi) \in SUBSET Nat
        /\ page.told \cup (a + 1)..b \in SUBSET Nat
    BY <1>2, <2>1
  <2> QED
    BY <1>2, <1>18, <2>1, <2>2
<1>21. b + hi <= seq
  BY <1>2, <1>4, <1>12
<1>22. (1..a) \cup ((b + lo)..(b + hi)) \cup ((a + 1)..b) = 1..(b + hi)
  BY <1>8, <1>12
<1>23. page'.read \cup page'.told = 1..(b + hi)
  <2>1. page.read \cup page.told = 1..a
    BY <1>2, <1>5 DEF after
  <2> QED
    BY <1>19, <1>22, <2>1
<1> QED
  BY <1>1, <1>19, <1>20, <1>21, <1>23

\* One step keeps the ring contiguous and its reader's account whole.
LEMMA RingStep == FeedInv /\ RingInv /\ [Next]_vars => RingInv'
<1> SUFFICES ASSUME FeedInv, RingInv, [Next]_vars
             PROVE  RingInv'
  OBVIOUS
<1>1. RingTyped /\ total \in 0..MaxEvents /\ MaxEvents \in Nat
      /\ None \notin Conn /\ seq <= total
  BY CapsPositive, FeedAssumption DEF RingInv, FeedInv, FeedTyped
<1>2. NoPage.held = FALSE /\ NoPage.cursor = 0
      /\ NoPage \in [held: BOOLEAN, cursor: Nat, read: SUBSET Nat,
                     told: SUBSET Nat]
  BY DEF NoPage
<1>3. ASSUME UNCHANGED ringVars, page' = page \/ page' = NoPage,
             ws' = ws \/ ws' = None, entry' = entry
      PROVE  RingInv'
  <2>1. seq' = seq /\ ring' = ring /\ minSeq' = minSeq /\ total' = total
    BY <1>3 DEF ringVars
  <2>2. ws' # None => entry'
    BY <1>3 DEF RingInv
  <2>3. CASE page' = page
    BY <1>3, <2>1, <2>2, <2>3 DEF RingInv, RingTyped, PageWhole
  <2>4. CASE page' = NoPage
    <3>1. ~page'.held
      BY <1>2, <2>4
    <3>2. RingTyped'
      BY <1>1, <1>2, <2>1, <2>4 DEF RingTyped
    <3>3. seq' <= total' /\ Holds(ring', seq') /\ minSeq' = Oldest(ring')
      BY <2>1 DEF RingInv
    <3> QED
      BY <2>2, <3>1, <3>2, <3>3 DEF RingInv, PageWhole
  <2> QED
    BY <1>3, <2>3, <2>4
<1>4. ASSUME NEW c \in Conn, Register(c)
      PROVE  RingInv'
  <2>1. ws' = c /\ entry' = TRUE /\ page' = page /\ total' = total
    BY <1>4 DEF Register
  <2>2. CASE entry
    <3>1. seq' = seq /\ ring' = ring /\ minSeq' = minSeq
      BY <1>4, <2>2 DEF Register
    <3> QED
      BY <2>1, <3>1 DEF RingInv, RingTyped, PageWhole
  <2>3. CASE ~entry
    <3>1. seq' = 0 /\ ring' = <<>> /\ minSeq' = 0
      BY <1>4, <2>3 DEF Register
    <3>2. <<>> \in Seq(1..MaxEvents) /\ Len(<<>>) = 0
      BY EmptySeq
    <3>3. ~page'.held
      BY <2>1, <2>3 DEF RingInv
    <3>4. RingTyped'
      <4>1. 0 <= RingCap
        BY CapsPositive
      <4>2. /\ seq' \in 0..MaxEvents /\ minSeq' \in 0..MaxEvents
            /\ ring' \in Seq(1..MaxEvents)
        BY <1>1, <3>1, <3>2
      <4>3. Len(ring') <= RingCap
        BY <3>1, <3>2, <4>1
      <4> QED
        BY <1>1, <2>1, <4>2, <4>3 DEF RingTyped
    <3>5. Holds(ring', seq') /\ minSeq' = Oldest(ring')
      BY <3>1, <3>2 DEF Holds, Oldest
    <3>6. seq' <= total'
      BY <1>1, <2>1, <3>1
    <3> QED
      BY <2>1, <3>3, <3>4, <3>5, <3>6 DEF RingInv, PageWhole
  <2> QED
    BY <2>2, <2>3
<1>5. ASSUME NEW c \in Conn, HandlerEnds(c)
      PROVE  RingInv'
  <2>1. UNCHANGED ringVars /\ entry' = entry
    BY <1>5 DEF HandlerEnds
  <2>2. (page' = page \/ page' = NoPage) /\ (ws' = ws \/ ws' = None)
    BY <1>5 DEF HandlerEnds
  <2> QED
    BY <1>3, <2>1, <2>2
<1>6. ASSUME NEW c \in Conn, SendFails(c) \/ Disconnect(c) \/ CutEnds(c)
                              \/ CutBreaks(c)
      PROVE  RingInv'
  BY <1>3, <1>6 DEF SendFails, Disconnect, CutEnds, CutBreaks
<1>7. ASSUME NEW s \in Sub, Watch(s) \/ Get(s) \/ Leave(s)
      PROVE  RingInv'
  BY <1>3, <1>7 DEF Watch, Get, Leave, connVars
<1>8. CASE Close \/ Release \/ UNCHANGED vars
  BY <1>3, <1>8 DEF Close, Release, vars, connVars
<1>9. ASSUME NEW size \in Size, AppendEvent(size)
      PROVE  RingInv'
  <2>1. /\ entry /\ total < MaxEvents /\ total' = total + 1
        /\ seq' = seq + 1 /\ ring' = Kept(Append(ring, seq + 1))
        /\ minSeq' = Oldest(ring') /\ page' = page /\ ws' = ws
        /\ entry' = entry
    BY <1>9 DEF AppendEvent, connVars
  <2>2. /\ ring \in Seq(1..MaxEvents) /\ seq \in 0..MaxEvents
        /\ Holds(ring, seq) /\ Len(ring) <= RingCap /\ seq < MaxEvents
    BY <1>1, <2>1 DEF RingInv, RingTyped
  <2>3. /\ ring' \in Seq(1..MaxEvents) /\ Len(ring') <= RingCap
        /\ Holds(ring', seq + 1) /\ Oldest(ring') \in 0..MaxEvents
    BY <2>1, <2>2, KeptHolds
  <2>4. seq' \in 0..MaxEvents /\ seq' <= total'
    BY <1>1, <2>1, <2>2
  <2>5. RingTyped'
    BY <1>1, <2>1, <2>3, <2>4 DEF RingTyped
  <2>6. page'.held => page'.cursor <= seq'
    BY <1>1, <2>1 DEF RingInv, RingTyped
  <2> QED
    BY <2>1, <2>3, <2>4, <2>5, <2>6 DEF RingInv, PageWhole
<1>10. CASE Acquire
  <2>1. /\ ws # None /\ page' = [NoPage EXCEPT !.held = TRUE]
        /\ ws' = ws /\ entry' = entry /\ UNCHANGED ringVars
    BY <1>10 DEF Acquire, connVars
  <2>2. /\ page' = [held |-> TRUE, cursor |-> 0, read |-> {}, told |-> {}]
    BY <2>1 DEF NoPage
  <2>3. seq' = seq /\ ring' = ring /\ minSeq' = minSeq /\ total' = total
    BY <2>1 DEF ringVars
  <2>4. RingTyped'
    BY <1>1, <2>2, <2>3 DEF RingTyped
  <2>5. page'.cursor <= seq' /\ page'.read \cup page'.told = 1..page'.cursor
    BY <1>1, <2>2, <2>3 DEF RingTyped
  <2>6. entry
    BY <2>1 DEF RingInv
  <2> QED
    BY <2>1, <2>3, <2>4, <2>5, <2>6 DEF RingInv, PageWhole
<1>11. CASE ReadPage
  <2>1. ws' = ws /\ entry' = entry /\ UNCHANGED ringVars /\ page.held
    BY <1>11 DEF ReadPage, connVars
  <2>2. seq' = seq /\ ring' = ring /\ minSeq' = minSeq /\ total' = total
    BY <2>1 DEF ringVars
  <2>3. /\ page' \in [held: BOOLEAN, cursor: Nat, read: SUBSET Nat,
                      told: SUBSET Nat]
        /\ page'.held /\ page'.cursor <= seq
        /\ page'.read \cup page'.told = 1..page'.cursor
    BY <1>11, ReadPageWhole
  <2>4. entry
    BY <2>1 DEF RingInv
  <2> QED
    BY <1>1, <2>1, <2>2, <2>3, <2>4 DEF RingInv, RingTyped, PageWhole
<1>12. CASE Prune
  <2>1. /\ ws = None /\ ~page.held /\ ws' = ws /\ page' = page
        /\ entry' = FALSE /\ UNCHANGED ringVars
    BY <1>12 DEF Prune
  <2>2. seq' = seq /\ ring' = ring /\ minSeq' = minSeq /\ total' = total
    BY <2>1 DEF ringVars
  <2> QED
    BY <1>1, <2>1, <2>2 DEF RingInv, RingTyped, PageWhole
<1> QED
  BY <1>4, <1>5, <1>6, <1>7, <1>8, <1>9, <1>10, <1>11, <1>12 DEF Next

\* RingInv holds of every reachable state: the ring is the end of the numbers
\* given so far and minSeq is its oldest.
THEOREM RingInvariant == Spec => []RingInv
<1>1. Init => RingInv
  BY RingInit
<1>2. FeedInv /\ RingInv /\ [Next]_vars => RingInv'
  BY RingStep
<1> QED
  BY <1>1, <1>2, FeedInvariant, PTL DEF Spec

\* The reader of the ring has read or was told that it missed every event up
\* to its cursor, for every length of the ring and of a page.
THEOREM PageTheorem == Spec => []PageWhole
<1>1. RingInv => PageWhole
  BY DEF RingInv
<1> QED
  BY <1>1, RingInvariant, PTL

\* Every variable has its type, and no queue and no ring outgrows its length.
THEOREM TypedTheorem == Spec => []Typed
<1>1. FeedInv /\ ConnInv /\ RingInv => Typed
  BY DEF FeedInv, FeedTyped, ConnInv, ConnTyped, RingInv, RingTyped, Typed
<1> QED
  BY <1>1, FeedInvariant, ConnInvariant, RingInvariant, PTL

-----------------------------------------------------------------------------
(* The bytes of the queues *)

\* No queue outgrows its bytes.
ByteInv == \A s \in Sub : Bytes(sub[s].queue) <= QueueBytes

LEMMA ByteRoom == QueueBytes \in Nat \ {0} /\ QueueCap \in Nat \ {0}
BY FeedAssumption

\* An event that is handed over fits, or is dropped itself.
LEMMA DeliveredBytes ==
  ASSUME NEW r \in Subscription, NEW e \in Event, Bytes(r.queue) <= QueueBytes
  PROVE  Bytes(Delivered(r, e).queue) <= QueueBytes
<1> DEFINE q == r.queue
           k == Evicted(q, e)
<1>0. PICK rest : rest = SubSeq(q, k + 1, Len(q))
  OBVIOUS
<1>1. q \in Seq(Item) /\ e \in Item
  BY DEF Subscription, Item
<1>2. /\ k \in 0..Len(q) /\ Len(q) \in Nat
      /\ k = Len(q) \/ Fits(rest, e)
  BY <1>0, <1>1, EvictedEnough, LenProperties
<1>3. CASE e.size > QueueBytes
  BY <1>3 DEF Delivered, Subscription
<1>4. ASSUME ~(e.size > QueueBytes)
      PROVE  Bytes(Delivered(r, e).queue) <= QueueBytes
  <2>1. Delivered(r, e).queue = Append(rest, e)
    BY <1>0, <1>4 DEF Delivered, Subscription
  <2>2. rest \in Seq(Item) /\ Len(rest) = Len(q) - k
    <3>1. \A i \in (k + 1)..Len(q) : q[i] \in Item
      BY <1>1, <1>2, ElementOfSeq
    <3>2. k + 1 \in Int /\ Len(q) \in Int
      BY <1>2
    <3>3. /\ rest \in Seq(Item)
          /\ Len(rest) = IF k + 1 <= Len(q) THEN Len(q) - (k + 1) + 1 ELSE 0
      BY <1>0, <3>1, <3>2, SubSeqProperties
    <3> QED
      BY <1>2, <3>3
  <2>3. Bytes(Append(rest, e)) = Bytes(rest) + e.size
    BY <1>1, <2>2, BytesAppend
  <2>4. Bytes(rest) \in Nat /\ e.size \in Nat
    BY <1>1, <2>2, BytesNat, ItemSize
  <2>5. CASE k = Len(q)
    <3>1. rest = <<>>
      BY <1>2, <2>2, <2>5, EmptySeq
    <3>2. Bytes(rest) = 0
      BY <3>1, BytesEmpty
    <3> QED
      BY <1>4, <2>1, <2>3, <2>4, <3>2, ByteRoom
  <2>6. CASE Fits(rest, e)
    BY <2>1, <2>3, <2>6 DEF Fits
  <2> QED
    BY <1>2, <2>5, <2>6
<1> QED
  BY <1>3, <1>4

\* The sentinel weighs nothing.
LEMMA PutEndBytes ==
  ASSUME NEW r \in Subscription, Bytes(r.queue) <= QueueBytes
  PROVE  Bytes(PutEnd(r).queue) <= QueueBytes
<1>1. PICK q \in Seq(Item) : q = r.queue
  BY DEF Subscription, Item
<1>2. End \in Item /\ End.size = 0
  BY DEF Item, End
<1>3. ASSUME Len(q) < QueueCap
      PROVE  Bytes(PutEnd(r).queue) <= QueueBytes
  <2>1. PutEnd(r).queue = Append(q, End)
    BY <1>1, <1>3 DEF PutEnd, Subscription
  <2>2. Bytes(Append(q, End)) = Bytes(q) + 0 /\ Bytes(q) \in Nat
    BY <1>2, BytesAppend, BytesNat
  <2> QED
    BY <1>1, <2>1, <2>2
<1>4. ASSUME ~(Len(q) < QueueCap)
      PROVE  Bytes(PutEnd(r).queue) <= QueueBytes
  <2>1. PutEnd(r).queue = Append(Tail(q), End)
    BY <1>1, <1>4 DEF PutEnd, Subscription
  <2>2. q # <<>>
    BY <1>4, EmptySeq, ByteRoom
  <2>3. PICK rest \in Seq(Item) : rest = Tail(q)
    BY <2>2, HeadTailProperties
  <2>4. Bytes(Append(rest, End)) = Bytes(rest) + 0 /\ Bytes(rest) \in Nat
    BY <1>2, BytesAppend, BytesNat
  <2>5. Bytes(rest) <= Bytes(q) /\ Bytes(q) \in Nat
    BY <2>2, <2>3, BytesTail, BytesNat
  <2> QED
    BY <1>1, <2>1, <2>3, <2>4, <2>5, ByteRoom
<1> QED
  BY <1>3, <1>4

\* A subscription nobody has taken holds nothing.
LEMMA UnusedBytes == Bytes(Unused.queue) <= QueueBytes
<1>1. Unused.queue = <<>>
  BY DEF Unused
<1> QED
  BY <1>1, BytesEmpty, ByteRoom

\* Closing keeps every queue within its bytes.
LEMMA CloseWorkerBytes ==
  ASSUME FeedInv, ByteInv, CloseWorker
  PROVE  ByteInv'
<1> SUFFICES ASSUME NEW s \in Sub
             PROVE  Bytes(sub'[s].queue) <= QueueBytes
  BY DEF ByteInv
<1>1. PICK r \in Subscription : r = sub[s]
  BY DEF FeedInv, FeedTyped
<1>2. Bytes(r.queue) <= QueueBytes
  BY <1>1 DEF ByteInv
<1>3. CASE s \in subs
  <2>1. sub'[s].queue = PutEnd(r).queue
    <3>1. sub'[s] = [PutEnd(r) EXCEPT !.upto = total]
      BY <1>1, <1>3 DEF CloseWorker
    <3>2. PutEnd(r) = [PutEnd(r) EXCEPT !.queue = PutEnd(r).queue]
      BY DEF PutEnd, Subscription
    <3> QED
      BY <3>1 DEF PutEnd, Subscription
  <2> QED
    BY <1>2, <2>1, PutEndBytes
<1>4. CASE s \notin subs
  BY <1>1, <1>2, <1>4 DEF CloseWorker
<1> QED
  BY <1>3, <1>4

\* One step keeps every queue within its bytes.
LEMMA ByteStep == FeedInv /\ ByteInv /\ [Next]_vars => ByteInv'
<1> SUFFICES ASSUME FeedInv, ByteInv, [Next]_vars
             PROVE  ByteInv'
  OBVIOUS
<1>1. sub \in [Sub -> Subscription]
  BY DEF FeedInv, FeedTyped
<1>2. ASSUME sub' = sub
      PROVE  ByteInv'
  BY <1>2 DEF ByteInv
<1>3. ASSUME NEW c \in Conn, Register(c) \/ SendFails(c) \/ Disconnect(c)
                              \/ CutBreaks(c)
      PROVE  ByteInv'
  BY <1>2, <1>3 DEF Register, SendFails, Disconnect, CutBreaks, busVars
<1>4. ASSUME NEW c \in Conn, HandlerEnds(c) \/ CutEnds(c)
      PROVE  ByteInv'
  BY <1>2, <1>4, CloseWorkerBytes DEF HandlerEnds, CutEnds
<1>5. CASE Close
  BY <1>5, CloseWorkerBytes DEF Close
<1>6. ASSUME NEW s \in Sub, Watch(s)
      PROVE  ByteInv'
  <2>1. PICK r : r = [Unused EXCEPT !.state = "watching", !.from = total,
                                    !.upto = total, !.on = ws]
    OBVIOUS
  <2>2. r.queue = <<>> /\ r = Fresh(total, ws)
    BY <2>1 DEF Unused, Fresh
  <2>3. r \in Subscription /\ Bytes(r.queue) <= QueueBytes
    <3>1. total \in Nat /\ ws \in Conn \cup {None}
      BY CapsPositive DEF FeedInv, FeedTyped
    <3>2. Fresh(total, ws) \in Subscription
      BY <3>1, FreshGood
    <3>3. Bytes(r.queue) = 0
      BY <2>2, BytesEmpty
    <3> QED
      BY <2>2, <3>2, <3>3, ByteRoom
  <2>4. sub' = [sub EXCEPT ![s] = PutEnd(r)] \/ sub' = [sub EXCEPT ![s] = r]
    BY <1>6, <2>1 DEF Watch
  <2>5. Bytes(PutEnd(r).queue) <= QueueBytes
    BY <2>3, PutEndBytes
  <2> QED
    BY <1>1, <2>3, <2>4, <2>5 DEF ByteInv
<1>7. ASSUME NEW s \in Sub, Get(s)
      PROVE  ByteInv'
  <2>1. PICK r \in Subscription : r = sub[s]
    BY <1>1
  <2>2. PICK q \in Seq(Item) : q = r.queue
    BY DEF Subscription, Item
  <2>3. q # <<>> /\ Bytes(q) <= QueueBytes
    BY <1>7, <2>1, <2>2 DEF Get, ByteInv
  <2>4. Bytes(Tail(q)) <= QueueBytes
    <3>1. Bytes(Tail(q)) <= Bytes(q)
      BY <2>3, BytesTail
    <3>2. Bytes(Tail(q)) \in Nat /\ Bytes(q) \in Nat
      BY <2>3, HeadTailProperties, BytesNat
    <3> QED
      BY <2>3, <3>1, <3>2, ByteRoom
  <2>5. sub'[s].queue = Tail(q) /\ \A u \in Sub \ {s} : sub'[u] = sub[u]
    BY <1>1, <1>7, <2>1, <2>2 DEF Get, Subscription
  <2> QED
    BY <2>4, <2>5 DEF ByteInv
<1>8. ASSUME NEW s \in Sub, Leave(s)
      PROVE  ByteInv'
  <2>1. \A u \in Sub : sub'[u].queue = sub[u].queue
    BY <1>1, <1>8 DEF Leave, Subscription
  <2> QED
    BY <2>1 DEF ByteInv
<1>9. ASSUME NEW size \in Size, AppendEvent(size)
      PROVE  ByteInv'
  <2>1. PICK e : e = [id |-> total + 1, size |-> size]
    OBVIOUS
  <2>2. e \in Event
    BY <1>9, <2>1, CapsPositive DEF AppendEvent, FeedInv, FeedTyped, Event
  <2>3. sub' = [u \in Sub |-> IF u \in subs THEN Delivered(sub[u], e)
                                            ELSE sub[u]]
    BY <1>9, <2>1 DEF AppendEvent
  <2>4. ASSUME NEW u \in Sub
        PROVE  Bytes(sub'[u].queue) <= QueueBytes
    <3>1. PICK r \in Subscription : r = sub[u]
      BY <1>1
    <3>2. Bytes(r.queue) <= QueueBytes
      BY <3>1 DEF ByteInv
    <3>3. Bytes(Delivered(r, e).queue) <= QueueBytes
      BY <2>2, <3>2, DeliveredBytes
    <3>4. sub'[u] = Delivered(r, e) \/ sub'[u] = r
      BY <2>3, <3>1
    <3> QED
      BY <3>2, <3>3, <3>4
  <2> QED
    BY <2>4 DEF ByteInv
<1>10. CASE Acquire \/ Release \/ ReadPage \/ Prune
  BY <1>2, <1>10 DEF Acquire, Release, ReadPage, Prune, busVars
<1>11. CASE UNCHANGED vars
  BY <1>2, <1>11 DEF vars, busVars
<1> QED
  BY <1>3, <1>4, <1>5, <1>6, <1>7, <1>8, <1>9, <1>10, <1>11 DEF Next

\* Every variable has its type, no queue outgrows its depth or its bytes, and
\* the ring keeps to its length, whatever the sizes of the events and whatever
\* order they come in.
THEOREM BytesTheorem == Spec => []TypeOK
<1>1. Init => ByteInv
  BY UnusedBytes DEF Init, ByteInv
<1>2. FeedInv /\ ByteInv /\ [Next]_vars => ByteInv'
  BY ByteStep
<1>3. Typed /\ ByteInv => TypeOK
  BY DEF ByteInv, TypeOK
<1> QED
  BY <1>1, <1>2, <1>3, FeedInvariant, TypedTheorem, PTL DEF Spec
=============================================================================
