-------------------------- MODULE QueueBytesProofs --------------------------
(***************************************************************************)
(* What the bytes of a queue come to, for every queue: the lemmas about    *)
(* EventFeed's Bytes that the bound on a queue's bytes rests on.           *)
(*                                                                         *)
(* Bytes folds over a set with a recursive function on its subsets.  The   *)
(* inductions over them are by the least number that fails (WFMin), which  *)
(* needs no theorem with an operator parameter.                            *)
(***************************************************************************)
EXTENDS EventFeed, FiniteSetTheorems, WellFoundedInduction, SequenceTheorems,
        TLAPS

Item == Event \cup {End}

\* What a queue holds has a size.
LEMMA ItemSize == ASSUME NEW e \in Item PROVE e.size \in Nat
<1>1. CASE e \in Event
  <2>1. e.size \in Size
    BY <1>1 DEF Event
  <2> QED
    BY <2>1, FeedAssumption
<1>2. CASE e = End
  BY <1>2 DEF End
<1> QED
  BY <1>1, <1>2 DEF Item

\* A set of numbers has a least one.
LEMMA Least ==
  ASSUME NEW T \in SUBSET Nat, T # {}
  PROVE  \E k \in T : \A m \in T : k <= m
<1>1. PICK k \in T : \A m \in T : ~(<<m, k>> \in OpToRel(<, Nat))
  BY NatLessThanWellFounded, WFMin
<1>2. \A m \in T : ~(m < k)
  BY <1>1 DEF OpToRel
<1>3. \A m \in T : m \in Nat /\ k \in Nat
  OBVIOUS
<1> QED
  BY <1>2, <1>3

\* A family of subsets of 1..n has a member that no member is one smaller than.
LEMMA Smallest ==
  ASSUME NEW n \in Nat, NEW T \in SUBSET SUBSET (1..n), T # {}
  PROVE  \E s \in T : \A x \in s : s \ {x} \notin T
<1> DEFINE C == {Cardinality(s) : s \in T}
<1>1. \A s \in T : IsFiniteSet(s) /\ Cardinality(s) \in Nat
  <2> TAKE s \in T
  <2>1. IsFiniteSet(1..n) /\ s \in SUBSET (1..n)
    BY FS_Interval
  <2>2. IsFiniteSet(s)
    BY <2>1, FS_Subset
  <2> QED
    BY <2>2, FS_CardinalityType
<1>2. C \in SUBSET Nat /\ C # {}
  BY <1>1
<1>3. PICK k \in C : \A m \in C : k <= m
  <2> HIDE DEF C
  <2> QED
    BY <1>2, Least
<1>4. PICK s \in T : k = Cardinality(s)
  OBVIOUS
<1>5. ASSUME NEW x \in s, s \ {x} \in T
      PROVE  FALSE
  <2>1. Cardinality(s \ {x}) = Cardinality(s) - 1
    BY <1>1, <1>5, FS_RemoveElement
  <2>2. Cardinality(s) <= Cardinality(s \ {x})
    BY <1>3, <1>4, <1>5
  <2> QED
    BY <1>1, <2>1, <2>2
<1> QED
  BY <1>5

-----------------------------------------------------------------------------
(* The fold *)

\* The element it takes first.
Pick(s) == CHOOSE x \in s : TRUE

\* f is the fold of the sizes in q, over the index sets in K.
Folds(f, q, K) ==
  f = [s \in K |-> IF s = {} THEN 0 ELSE q[Pick(s)].size + f[s \ {Pick(s)}]]

\* Bytes, with the definitions it is made of expanded.
LEMMA BytesFold ==
  ASSUME NEW q
  PROVE  Bytes(q) = (CHOOSE f : Folds(f, q, SUBSET DOMAIN q))[DOMAIN q]
BY DEF Bytes, MapThenSumSet, MapThenFoldSet, Folds, Pick

LEMMA PickIn == ASSUME NEW s, s # {} PROVE Pick(s) \in s
BY DEF Pick

\* There is such a function.
LEMMA FoldExists ==
  ASSUME NEW q, NEW n \in Nat
  PROVE  \E f : Folds(f, q, SUBSET (1..n))
<1> DEFINE K(c) == {s \in SUBSET (1..n) : Cardinality(s) <= c}
           Missing == {c \in Nat : ~\E f : Folds(f, q, K(c))}
<1>1. \A s \in SUBSET (1..n) : IsFiniteSet(s) /\ Cardinality(s) \in 0..n
  <2> TAKE s \in SUBSET (1..n)
  <2>1. IsFiniteSet(1..n) /\ Cardinality(1..n) = n
    BY FS_Interval
  <2>2. IsFiniteSet(s) /\ Cardinality(s) <= n
    BY <2>1, FS_Subset
  <2> QED
    BY <2>2, FS_CardinalityType
<1>2. K(n) = SUBSET (1..n)
  BY <1>1
<1>3. ASSUME Missing # {}
      PROVE  FALSE
  <2>1. PICK c \in Missing : \A m \in Missing : c <= m
    BY <1>3, Least
  <2>2. CASE c = 0
    <3>1. \A s \in K(0) : s = {}
      BY <1>1, FS_EmptySet
    <3> DEFINE g == [s \in K(0) |-> 0]
    <3>2. Folds(g, q, K(0))
      BY <3>1 DEF Folds
    <3> QED
      BY <2>2, <3>2
  <2>3. CASE c # 0
    <3>0. c \in Nat
      OBVIOUS
    <3>1. c - 1 \in Nat /\ c - 1 \notin Missing
      <4> HIDE DEF Missing
      <4>1. c - 1 \in Nat /\ ~(c <= c - 1)
        BY <3>0, <2>3
      <4> QED
        BY <2>1, <4>1
    <3>2. PICK f : Folds(f, q, K(c - 1))
      BY <3>1
    <3> DEFINE g == [s \in K(c) |->
                       IF s = {} THEN 0 ELSE q[Pick(s)].size + f[s \ {Pick(s)}]]
    <3>3. K(c - 1) \subseteq K(c)
      BY <1>1, <3>1
    <3>4. \A s \in K(c - 1) : g[s] = f[s]
      BY <3>2, <3>3 DEF Folds
    <3>5. \A s \in K(c) : s # {} => s \ {Pick(s)} \in K(c - 1)
      <4> TAKE s \in K(c)
      <4> HAVE s # {}
      <4>1. Pick(s) \in s
        BY PickIn
      <4>2. Cardinality(s \ {Pick(s)}) = Cardinality(s) - 1
        BY <1>1, <4>1, FS_RemoveElement
      <4>3. s \ {Pick(s)} \in SUBSET (1..n) /\ Cardinality(s) <= c
        OBVIOUS
      <4>4. Cardinality(s) \in Int /\ c \in Int
        BY <1>1, <3>0
      <4>5. Cardinality(s \ {Pick(s)}) <= c - 1
        BY <4>2, <4>3, <4>4
      <4> QED
        BY <4>3, <4>5
    <3>6. g = [s \in K(c) |->
                 IF s = {} THEN 0 ELSE q[Pick(s)].size + g[s \ {Pick(s)}]]
      <4> HIDE DEF K
      <4>1. \A s \in K(c) :
              g[s] = IF s = {} THEN 0 ELSE q[Pick(s)].size + g[s \ {Pick(s)}]
        BY <3>4, <3>5
      <4> QED
        BY <4>1
    <3>7. Folds(g, q, K(c))
      BY <3>6 DEF Folds
    <3> QED
      BY <3>7
  <2> QED
    BY <2>2, <2>3
<1>4. \E f : Folds(f, q, K(n))
  BY <1>3
<1> QED
  BY <1>2, <1>4

\* The fold of q, as a function on index sets.
Sum(f, q) ==
  /\ f \in [SUBSET (1..Len(q)) -> Nat]
  /\ f[{}] = 0
  /\ \A s \in SUBSET (1..Len(q)) :
       s # {} => f[s] = q[Pick(s)].size + f[s \ {Pick(s)}]

\* The bytes of a queue are the sum over all of its indexes.
LEMMA BytesSum ==
  ASSUME NEW q \in Seq(Item)
  PROVE  \E f : Sum(f, q) /\ Bytes(q) = f[1..Len(q)]
<1>1. /\ Len(q) \in Nat /\ DOMAIN q = 1..Len(q)
      /\ \A i \in 1..Len(q) : q[i] \in Item
  BY LenProperties, ElementOfSeq
<1> DEFINE f == CHOOSE f : Folds(f, q, SUBSET (1..Len(q)))
<1>2. Bytes(q) = f[1..Len(q)]
  BY <1>1, BytesFold
<1>3. Folds(f, q, SUBSET (1..Len(q)))
  BY <1>1, FoldExists
<1> HIDE DEF f
<1>4. /\ f[{}] = 0
      /\ \A s \in SUBSET (1..Len(q)) :
           s # {} => f[s] = q[Pick(s)].size + f[s \ {Pick(s)}]
  BY <1>3 DEF Folds
<1>5. \A s \in SUBSET (1..Len(q)) : f[s] \in Nat
  <2> DEFINE T == {s \in SUBSET (1..Len(q)) : f[s] \notin Nat}
  <2>1. ASSUME T # {} PROVE FALSE
    <3>1. PICK s \in T : \A x \in s : s \ {x} \notin T
      BY <1>1, <2>1, Smallest
    <3>2. s # {} /\ Pick(s) \in s
      <4>1. f[{}] \in Nat
        BY <1>4
      <4>2. f[s] \notin Nat
        OBVIOUS
      <4> QED
        BY <4>1, <4>2, PickIn
    <3>3. f[s \ {Pick(s)}] \in Nat
      BY <3>1, <3>2
    <3>4. q[Pick(s)].size \in Nat
      <4>1. Pick(s) \in 1..Len(q)
        BY <3>2
      <4>2. q[Pick(s)] \in Item
        BY <1>1, <4>1
      <4> QED
        BY <4>2, ItemSize
    <3>5. f[s] = q[Pick(s)].size + f[s \ {Pick(s)}]
      BY <1>4, <3>2
    <3>6. f[s] \notin Nat
      OBVIOUS
    <3> QED
      BY <3>3, <3>4, <3>5, <3>6
  <2> QED
    BY <2>1
<1>6. f \in [SUBSET (1..Len(q)) -> Nat]
  BY <1>3, <1>5 DEF Folds
<1> QED
  BY <1>2, <1>4, <1>6 DEF Sum

\* The order does not matter: any element may be taken first.
LEMMA SumAny ==
  ASSUME NEW q \in Seq(Item), NEW f, Sum(f, q),
         NEW s \in SUBSET (1..Len(q)), NEW x \in s
  PROVE  f[s] = q[x].size + f[s \ {x}]
<1>1. Len(q) \in Nat /\ \A i \in 1..Len(q) : q[i].size \in Nat
  <2>1. Len(q) \in Nat /\ \A i \in 1..Len(q) : q[i] \in Item
    BY LenProperties, ElementOfSeq
  <2> QED
    BY <2>1, ItemSize
<1> DEFINE T == {t \in SUBSET (1..Len(q)) :
                   \E y \in t : f[t] # q[y].size + f[t \ {y}]}
<1>2. ASSUME T # {} PROVE FALSE
  <2>1. PICK t \in T : \A y \in t : t \ {y} \notin T
    BY <1>1, <1>2, Smallest
  <2>2. PICK y \in t : f[t] # q[y].size + f[t \ {y}]
    OBVIOUS
  <2> DEFINE p == Pick(t)
  <2>3. p \in t /\ f[t] = q[p].size + f[t \ {p}]
    BY PickIn DEF Sum
  <2>4. p # y
    BY <2>2, <2>3
  <2> HIDE DEF p
  <2>5. f[t \ {p}] = q[y].size + f[(t \ {p}) \ {y}]
    BY <2>1, <2>3, <2>4
  <2>6. f[t \ {y}] = q[p].size + f[(t \ {y}) \ {p}]
    BY <2>1, <2>2, <2>3, <2>4
  <2>7. (t \ {p}) \ {y} = (t \ {y}) \ {p}
    OBVIOUS
  <2>8. f[(t \ {p}) \ {y}] \in Nat /\ q[p].size \in Nat /\ q[y].size \in Nat
    BY <1>1, <2>3 DEF Sum
  <2>9. PICK rest \in Nat, a \in Nat, b \in Nat :
          /\ rest = f[(t \ {p}) \ {y}]
          /\ a = q[p].size /\ b = q[y].size
    BY <2>8
  <2>10. f[t] = a + (b + rest)
    BY <2>3, <2>5, <2>9
  <2>11. q[y].size + f[t \ {y}] = b + (a + rest)
    BY <2>6, <2>7, <2>9
  <2>12. a + (b + rest) = b + (a + rest)
    BY <2>9
  <2> QED
    BY <2>2, <2>10, <2>11, <2>12
<1> QED
  BY <1>2

\* f is a sum that may take any index first.
AnySum(f, q) ==
  /\ Sum(f, q)
  /\ \A s \in SUBSET (1..Len(q)) : \A x \in s : f[s] = q[x].size + f[s \ {x}]

\* The same, with the order left open.
LEMMA BytesAnySum ==
  ASSUME NEW q \in Seq(Item)
  PROVE  \E f : AnySum(f, q) /\ Bytes(q) = f[1..Len(q)]
<1>1. PICK f : Sum(f, q) /\ Bytes(q) = f[1..Len(q)]
  BY BytesSum
<1>2. ASSUME NEW s \in SUBSET (1..Len(q)), NEW x \in s
      PROVE  f[s] = q[x].size + f[s \ {x}]
  BY <1>1, SumAny
<1>3. AnySum(f, q)
  BY <1>1, <1>2 DEF AnySum
<1> QED
  BY <1>1, <1>3

-----------------------------------------------------------------------------
(* The queues *)

\* A queue's bytes are a number.
LEMMA BytesNat == ASSUME NEW q \in Seq(Item) PROVE Bytes(q) \in Nat
<1>1. PICK f : Sum(f, q) /\ Bytes(q) = f[1..Len(q)]
  BY BytesSum
<1>2. 1..Len(q) \in SUBSET (1..Len(q))
  OBVIOUS
<1> QED
  BY <1>1, <1>2 DEF Sum

\* An empty queue weighs nothing.
LEMMA BytesEmpty == Bytes(<<>>) = 0
<1>1. <<>> \in Seq(Item) /\ Len(<<>>) = 0
  BY EmptySeq
<1>2. 1..0 = {}
  OBVIOUS
<1> QED
  BY <1>1, <1>2, BytesSum DEF Sum

\* An event at the end adds its size.
LEMMA BytesAppend ==
  ASSUME NEW q \in Seq(Item), NEW e \in Item
  PROVE  Bytes(Append(q, e)) = Bytes(q) + e.size
<1> DEFINE n == Len(q)
<1>0. PICK p : p = Append(q, e)
  OBVIOUS
<1>1. /\ p \in Seq(Item) /\ n \in Nat /\ Len(p) = n + 1
      /\ p[n + 1] = e /\ \A i \in 1..n : p[i] = q[i]
  BY <1>0, AppendProperties, LenProperties
<1>2. PICK old : Sum(old, q) /\ Bytes(q) = old[1..n]
  BY BytesSum
<1>3. PICK new : AnySum(new, p) /\ Bytes(p) = new[1..(n + 1)]
  BY <1>1, BytesAnySum
<1>4. SUBSET (1..n) \subseteq SUBSET (1..(n + 1))
  BY <1>1
<1>5. \A s \in SUBSET (1..n) : new[s] = old[s]
  <2> DEFINE T == {s \in SUBSET (1..n) : new[s] # old[s]}
  <2>1. ASSUME T # {} PROVE FALSE
    <3>1. PICK s \in T : \A x \in s : s \ {x} \notin T
      BY <1>1, <2>1, Smallest
    <3>2. s # {} /\ Pick(s) \in s
      BY <1>2, <1>3, PickIn DEF Sum, AnySum
    <3>3. new[s \ {Pick(s)}] = old[s \ {Pick(s)}]
      BY <3>1, <3>2
    <3>4. /\ old[s] = q[Pick(s)].size + old[s \ {Pick(s)}]
          /\ new[s] = p[Pick(s)].size + new[s \ {Pick(s)}]
      BY <1>1, <1>2, <1>3, <1>4, <3>2 DEF Sum, AnySum
    <3> QED
      BY <1>1, <3>2, <3>3, <3>4
  <2> QED
    BY <2>1
<1>6. n + 1 \in 1..(n + 1) /\ (1..(n + 1)) \ {n + 1} = 1..n
  BY <1>1
<1>7. new[1..(n + 1)] = p[n + 1].size + new[1..n]
  <2>1. 1..(n + 1) \in SUBSET (1..Len(p)) /\ n + 1 \in 1..(n + 1)
    BY <1>1, <1>6
  <2> QED
    BY <1>3, <1>6, <2>1 DEF AnySum
<1>8. Bytes(p) = e.size + Bytes(q)
  BY <1>1, <1>2, <1>3, <1>5, <1>7
<1> QED
  BY <1>0, <1>8, BytesNat, ItemSize

\* Without its head a queue weighs no more.
LEMMA BytesTail ==
  ASSUME NEW q \in Seq(Item), q # <<>>
  PROVE  Bytes(Tail(q)) <= Bytes(q)
<1> DEFINE p == Tail(q)
           n == Len(p)
           Up(s) == {i + 1 : i \in s}
<1>1. /\ p \in Seq(Item) /\ n \in Nat /\ Len(q) = n + 1
      /\ \A i \in 1..n : p[i] = q[i + 1]
  BY HeadTailProperties, LenProperties
<1>2. PICK f : AnySum(f, q) /\ Bytes(q) = f[1..(n + 1)]
  BY <1>1, BytesAnySum
<1> HIDE DEF p
<1>3. PICK g : Sum(g, p) /\ Bytes(p) = g[1..n]
  BY <1>1, BytesSum
<1>a. ASSUME NEW s \in SUBSET (1..Len(q)), NEW x \in s
      PROVE  f[s] = q[x].size + f[s \ {x}]
  BY <1>2 DEF AnySum
<1>4. \A s \in SUBSET (1..n) : Up(s) \in SUBSET (1..(n + 1))
  BY <1>1
<1>5. \A s \in SUBSET (1..n) : g[s] = f[Up(s)]
  <2> DEFINE T == {s \in SUBSET (1..n) : g[s] # f[Up(s)]}
  <2>1. ASSUME T # {} PROVE FALSE
    <3>1. PICK s \in T : \A x \in s : s \ {x} \notin T
      BY <1>1, <2>1, Smallest
    <3>2. s # {} /\ Pick(s) \in s
      <4>1. Up({}) = {}
        OBVIOUS
      <4> QED
        BY <1>2, <1>3, <4>1, PickIn DEF Sum, AnySum
    <3> DEFINE x == Pick(s)
    <3>3. g[s \ {x}] = f[Up(s \ {x})]
      <4>1. s \ {x} \in SUBSET (1..n) /\ s \ {x} \notin T
        BY <3>1, <3>2
      <4> HIDE DEF Up, x
      <4> QED
        BY <4>1
    <3>4. g[s] = p[x].size + g[s \ {x}]
      BY <1>3, <3>2 DEF Sum
    <3> HIDE DEF x
    <3>5. x \in s /\ x \in 1..n /\ \A i \in s : i \in Nat
      <4>1. x \in s
        BY <3>2 DEF x
      <4>2. s \in SUBSET (1..n)
        OBVIOUS
      <4> QED
        BY <4>1, <4>2
    <3>6. x + 1 \in Up(s)
      BY <3>5
    <3>7. Up(s) \ {x + 1} = Up(s \ {x})
      <4>1. ASSUME NEW i \in s, i # x PROVE i + 1 # x + 1
        BY <3>5, <4>1
      <4> QED
        BY <4>1
    <3>8. f[Up(s)] = q[x + 1].size + f[Up(s) \ {x + 1}]
      <4>1. Up(s) \in SUBSET (1..Len(q))
        BY <1>1, <1>4
      <4> HIDE DEF Up
      <4> QED
        BY <1>a, <3>6, <4>1
    <3>9. g[s] # f[Up(s)]
      OBVIOUS
    <3>10. p[x] = q[x + 1]
      BY <1>1, <3>5
    <3> HIDE DEF Up
    <3> QED
      BY <3>3, <3>4, <3>7, <3>8, <3>9, <3>10
  <2> QED
    BY <2>1
<1>6. 1 \in 1..(n + 1) /\ (1..(n + 1)) \ {1} = Up(1..n)
  <2>1. ASSUME NEW i \in 2..(n + 1) PROVE i \in Up(1..n)
    <3>1. i - 1 \in 1..n /\ i = (i - 1) + 1
      BY <1>1
    <3> QED
      BY <3>1
  <2>2. (1..(n + 1)) \ {1} = 2..(n + 1) /\ 1 \in 1..(n + 1)
    BY <1>1
  <2>3. \A i \in Up(1..n) : i \in 2..(n + 1)
    BY <1>1
  <2> HIDE DEF Up
  <2> QED
    BY <2>1, <2>2, <2>3
<1>7. f[1..(n + 1)] = q[1].size + f[(1..(n + 1)) \ {1}]
  <2>1. 1..(n + 1) \in SUBSET (1..Len(q))
    BY <1>1
  <2> QED
    BY <1>a, <1>6, <2>1
<1>8. Bytes(q) = q[1].size + Bytes(p)
  <2>1. 1..n \in SUBSET (1..n)
    OBVIOUS
  <2> HIDE DEF Up
  <2>2. g[1..n] = f[Up(1..n)]
    BY <1>5, <2>1
  <2> QED
    BY <1>2, <1>3, <1>6, <1>7, <2>2
<1>9. q[1].size \in Nat
  <2>1. 1 \in 1..Len(q)
    BY <1>1, <1>6
  <2>2. q[1] \in Item
    BY <2>1, ElementOfSeq
  <2> QED
    BY <2>2, ItemSize
<1>10. Bytes(p) \in Nat
  BY <1>1, BytesNat
<1> QED
  BY <1>8, <1>9, <1>10 DEF p
=============================================================================
