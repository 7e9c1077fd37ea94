--------------------------- MODULE OperatorProofs ---------------------------
(***************************************************************************)
(* Facts about the operators that the models share, for every argument:    *)
(* what the methods of ProcessQueue return and keep, that bounded sets     *)
(* have a first and a last element, that the elements of a finite set of   *)
(* numbers have the positions of a list, and that Allocate divides queues. *)
(***************************************************************************)
EXTENDS ProcessQueue, Allocation, FiniteSetTheorems, WellFoundedInduction, TLAPS

(* A bounded set of offsets has a least element: among the finite sets     *)
(* {y \in S : y <= x} one is minimal for inclusion.                        *)
LEMMA FirstIsLeast ==
    ASSUME NEW n \in Int, NEW S \in SUBSET (0 .. n), S # {}
    PROVE  First(S) \in S /\ \A y \in S : First(S) <= y
<1> DEFINE D(x) == {y \in S : y <= x}
           F == {D(x) : x \in S}
<1>1. IsFiniteSet(0 .. n)
    BY FS_Interval
<1>2. \A x \in S : D(x) \in FiniteSubsetsOf(0 .. n)
  <2>1. FiniteSubsetsOf(0 .. n) = SUBSET (0 .. n)
    BY <1>1, FS_FiniteSubsetsOfFinite
  <2> QED
    BY <2>1
<1>3. F \subseteq FiniteSubsetsOf(0 .. n) /\ F # {}
    BY <1>2
<1>4. \E d \in F : \A e \in F : ~(<<e, d>> \in StrictSubsetOrdering(0 .. n))
  <2> HIDE DEF F
  <2> QED
    BY <1>3, FS_StrictSubsetOrderingWellFounded, WFMin
<1>5. PICK x \in S :
          \A y \in S : ~(<<D(y), D(x)>> \in StrictSubsetOrdering(0 .. n))
    BY <1>4
<1>6. ASSUME NEW y \in S PROVE x <= y
  <2> SUFFICES ASSUME y < x PROVE FALSE
    OBVIOUS
  <2>1. D(y) \subseteq D(x) /\ D(y) # D(x)
    <3>1. x \in D(x) /\ x \notin D(y)
      OBVIOUS
    <3>2. ASSUME NEW z \in D(y) PROVE z \in D(x)
      <4>1. z \in Int /\ y \in Int /\ x \in Int /\ z <= y
        OBVIOUS
      <4> QED BY <4>1
    <3> QED BY <3>1, <3>2
  <2>2. D(y) \in SUBSET (0 .. n) /\ D(x) \in SUBSET (0 .. n)
    OBVIOUS
  <2> HIDE DEF D
  <2>3. <<D(y), D(x)>> \in StrictSubsetOrdering(0 .. n)
    BY <2>1, <2>2 DEF StrictSubsetOrdering
  <2> QED
    BY <1>5, <2>3
<1> QED
    BY <1>6 DEF First

(* And a greatest one, the least of the mirrored set.                      *)
LEMMA LastIsGreatest ==
    ASSUME NEW n \in Int, NEW S \in SUBSET (0 .. n), S # {}
    PROVE  Last(S) \in S /\ \A y \in S : y <= Last(S)
<1> DEFINE T == {n - y : y \in S}
<1>1. T \in SUBSET (0 .. n)
    OBVIOUS
<1>2. T # {}
    OBVIOUS
<1>3. First(T) \in T /\ \A y \in T : First(T) <= y
  <2> HIDE DEF T
  <2> QED
    BY <1>1, <1>2, FirstIsLeast
<1>4. PICK x \in S : First(T) = n - x
    BY <1>3
<1>5. \A y \in S : n - y \in T
    OBVIOUS
<1> HIDE DEF T
<1>6. \A y \in S : y <= x
    BY <1>3, <1>4, <1>5
<1> QED
    BY <1>6 DEF Last
(* Cardinalities of bounded sets of offsets: finite, and additive.         *)
LEMMA BoundedIsFinite ==
    ASSUME NEW n \in Int, NEW S \in SUBSET (0 .. n)
    PROVE  IsFiniteSet(S) /\ Cardinality(S) \in Nat
<1>1. IsFiniteSet(0 .. n)
    BY FS_Interval
<1>2. IsFiniteSet(S)
    BY <1>1, FS_Subset
<1> QED
    BY <1>2, FS_CardinalityType

LEMMA DisjointUnionCount ==
    ASSUME NEW n \in Int, NEW S \in SUBSET (0 .. n), NEW T \in SUBSET (0 .. n),
           S \cap T = {}
    PROVE  Cardinality(S \cup T) = Cardinality(S) + Cardinality(T)
<1>1. IsFiniteSet(S) /\ IsFiniteSet(T)
    BY BoundedIsFinite
<1>2. Cardinality(S) \in Nat /\ Cardinality(T) \in Nat
    BY BoundedIsFinite
<1>3. Cardinality(S \cup T) = Cardinality(S) + Cardinality(T) - Cardinality(S \cap T)
    BY <1>1, FS_Union
<1>4. Cardinality(S \cap T) = 0
    BY FS_EmptySet
<1> QED
    BY <1>2, <1>3, <1>4

LEMMA DifferenceCount ==
    ASSUME NEW n \in Int, NEW S \in SUBSET (0 .. n), NEW T \in SUBSET S
    PROVE  Cardinality(S \ T) = Cardinality(S) - Cardinality(T)
<1>1. IsFiniteSet(S)
    BY BoundedIsFinite
<1>2. S \cap T = T
    OBVIOUS
<1>3. Cardinality(S \ T) = Cardinality(S) - Cardinality(S \cap T)
    BY <1>1, FS_Difference
<1> QED
    BY <1>2, <1>3

-----------------------------------------------------------------------------
(* Offsets are bounded by the end of the broker's queue.                   *)
Bounded(M) == \E n \in Int : M \in SUBSET (0 .. n)

(* putMessage of messages not yet buffered keeps the object well formed,   *)
(* keeps m_msgCount equal to the size of the map, and leaves               *)
(* m_queueOffsetMax alone or at one of the new messages.                   *)
LEMMA PutMessage ==
    ASSUME NEW M, Bounded(M),
           NEW q \in ProcessQueueType(M), NEW msgs \in SUBSET M,
           q.msgCount = Cardinality(q.msgTreeMap),
           q.msgTreeMap \cap msgs = {}
    PROVE  /\ putMessage(q, msgs) \in ProcessQueueType(M)
           /\ putMessage(q, msgs).msgTreeMap = q.msgTreeMap \cup msgs
           /\ putMessage(q, msgs).msgCount = Cardinality(q.msgTreeMap \cup msgs)
           /\ putMessage(q, msgs).droped = q.droped
           /\ msgs = {} => putMessage(q, msgs).queueOffsetMax = q.queueOffsetMax
           /\ msgs # {} => /\ putMessage(q, msgs).queueOffsetMax \in msgs
                           /\ \A o \in msgs : o <= putMessage(q, msgs).queueOffsetMax
<1>0. PICK n \in Int : M \in SUBSET (0 .. n)
    BY DEF Bounded
<1>1. q.msgTreeMap \in SUBSET (0 .. n) /\ msgs \in SUBSET (0 .. n)
    BY <1>0 DEF ProcessQueueType
<1>2. /\ Cardinality(q.msgTreeMap) \in Nat
      /\ Cardinality(msgs) \in Nat
    BY <1>1, BoundedIsFinite
<1>3. Cardinality(q.msgTreeMap \cup msgs)
        = Cardinality(q.msgTreeMap) + Cardinality(msgs)
    BY <1>1, DisjointUnionCount
<1>4. msgs # {} => Last(msgs) \in msgs /\ \A o \in msgs : o <= Last(msgs)
    BY <1>1, LastIsGreatest
<1>5. msgs # {} => Last(msgs) \in Int
  <2>1. \A x \in msgs : x \in Int
    BY <1>1
  <2> QED
    BY <1>4, <2>1
<1> DEFINE max == IF msgs = {} THEN q.queueOffsetMax ELSE Last(msgs)
           cons == q.consuming \/ q.msgTreeMap \cup msgs # {}
<1>6. putMessage(q, msgs) =
          [q EXCEPT !.msgTreeMap = q.msgTreeMap \cup msgs,
                    !.queueOffsetMax = max,
                    !.msgCount = Cardinality(q.msgTreeMap \cup msgs),
                    !.consuming = cons]
    BY <1>3 DEF putMessage
<1>7. max \in Int /\ cons \in BOOLEAN
    BY <1>5 DEF ProcessQueueType
<1>8. msgs # {} => max \in msgs /\ \A o \in msgs : o <= max
    BY <1>4
<1>9. Cardinality(q.msgTreeMap \cup msgs) \in Int
    BY <1>2, <1>3
<1>10. msgs = {} => max = q.queueOffsetMax
    OBVIOUS
<1> HIDE DEF max, cons
<1> QED
    BY <1>6, <1>7, <1>8, <1>9, <1>10 DEF ProcessQueueType

(* removeMessage of buffered messages takes exactly these out of the map   *)
(* and keeps m_msgCount equal to its size.                                 *)
LEMMA RemoveMessage ==
    ASSUME NEW M, Bounded(M),
           NEW q \in ProcessQueueType(M), NEW msgs \in SUBSET q.msgTreeMap,
           q.msgCount = Cardinality(q.msgTreeMap)
    PROVE  /\ removeMessage(q, msgs) \in ProcessQueueType(M)
           /\ removeMessage(q, msgs).msgTreeMap = q.msgTreeMap \ msgs
           /\ removeMessage(q, msgs).msgCount = Cardinality(q.msgTreeMap \ msgs)
           /\ removeMessage(q, msgs).droped = q.droped
           /\ removeMessage(q, msgs).queueOffsetMax = q.queueOffsetMax
<1>0. PICK n \in Int : M \in SUBSET (0 .. n)
    BY DEF Bounded
<1>1. q.msgTreeMap \in SUBSET (0 .. n) /\ msgs \in SUBSET (0 .. n)
    BY <1>0 DEF ProcessQueueType
<1>2. /\ Cardinality(q.msgTreeMap) \in Nat
      /\ Cardinality(msgs) \in Nat
    BY <1>1, BoundedIsFinite
<1>3. Cardinality(q.msgTreeMap \ msgs)
        = Cardinality(q.msgTreeMap) - Cardinality(msgs)
    BY <1>1, DifferenceCount
<1>4. CASE q.msgTreeMap = {}
    BY <1>4 DEF removeMessage
<1>5. CASE q.msgTreeMap # {}
  <2>1. removeMessage(q, msgs) =
            [q EXCEPT !.msgTreeMap = q.msgTreeMap \ msgs,
                      !.msgCount = Cardinality(q.msgTreeMap \ msgs)]
    BY <1>3, <1>5 DEF removeMessage
  <2>2. Cardinality(q.msgTreeMap \ msgs) \in Int
    BY <1>2, <1>3
  <2> QED
    BY <2>1, <2>2 DEF ProcessQueueType
<1> QED
    BY <1>4, <1>5

(* The offset removeMessage returns, when it returns one, is not beyond    *)
(* any message left in the buffer, and is a buffered message's offset or   *)
(* the one after the last message ever put.                                *)
LEMMA RemoveMessageResult ==
    ASSUME NEW M, Bounded(M),
           NEW q \in ProcessQueueType(M), NEW msgs,
           removeMessageResult(q, msgs) # -1
    PROVE  /\ q.msgTreeMap # {}
           /\ removeMessageResult(q, msgs) \in Int
           /\ \/ removeMessageResult(q, msgs) \in q.msgTreeMap
              \/ removeMessageResult(q, msgs) = q.queueOffsetMax + 1
           /\ \A o \in q.msgTreeMap \ msgs : removeMessageResult(q, msgs) <= o
<1> DEFINE left == q.msgTreeMap \ msgs
<1>0. PICK n \in Int : M \in SUBSET (0 .. n)
    BY DEF Bounded
<1>1. left \in SUBSET (0 .. n)
    BY <1>0 DEF ProcessQueueType
<1>2. CASE left = {}
    BY <1>2 DEF removeMessageResult, ProcessQueueType
<1>3. CASE left # {}
  <2> HIDE DEF left
  <2>1. First(left) \in left /\ \A y \in left : First(left) <= y
    BY <1>1, <1>3, FirstIsLeast
  <2> USE DEF left
  <2>2. removeMessageResult(q, msgs) = First(left)
    BY <1>3 DEF removeMessageResult
  <2> QED
    BY <1>1, <2>1, <2>2
<1> QED
    BY <1>2, <1>3

-----------------------------------------------------------------------------
(* The slices of AllocateMessageQueueAveragely.                            *)

LEMMA SmallRemainder ==
    ASSUME NEW a \in Nat, NEW n \in Nat, a < n
    PROVE  a % n = a
  OBVIOUS

LEMMA Division ==
    ASSUME NEW n \in Nat, NEW k \in Nat \ {0}
    PROVE  n \div k \in Nat /\ n % k \in Nat /\ n % k < k
           /\ n = k * (n \div k) + (n % k)
  OBVIOUS

LEMMA TimesGrows ==
    ASSUME NEW i \in Nat, NEW j \in Nat, NEW m \in Nat, i < j
    PROVE  i * m + m <= j * m
  <1>1. PICK d \in Nat : j = i + 1 + d
    <2>1. j - i - 1 \in Nat /\ j = i + 1 + (j - i - 1)
      OBVIOUS
    <2> QED
      BY <2>1
  <1>2. d * m \in Nat
    OBVIOUS
  <1>3. j * m = i * m + m + d * m
    BY <1>1
  <1> QED
    BY <1>2, <1>3


LEMMA StartAndSize ==
    ASSUME NEW n \in Nat \ {0}, NEW k \in Nat \ {0}, NEW i \in Nat
    PROVE  /\ AverageSize(i, n, k) \in Nat
           /\ StartIndex(i, n, k) \in Nat
           /\ SliceSize(i, n, k) \in Int
           /\ SliceSize(i, n, k) <= AverageSize(i, n, k)
           /\ SliceSize(i, n, k) <= n - StartIndex(i, n, k)
  <1>1. n \div k \in Nat /\ n % k \in Nat
    BY Division
  <1>2. AverageSize(i, n, k) \in Nat
    BY <1>1 DEF AverageSize
  <1>3. i * AverageSize(i, n, k) \in Nat
    BY <1>2
  <1>4. StartIndex(i, n, k) \in Nat
    BY <1>1, <1>3 DEF StartIndex
  <1> QED
    BY <1>2, <1>4 DEF SliceSize

(* The wrap-around of (startIndex + i) % mqAll.size() never happens: a     *)
(* slice is an interval that begins at startIndex.                         *)
LEMMA SliceIsInterval ==
    ASSUME NEW n \in Nat \ {0}, NEW k \in Nat \ {0}, NEW i \in Nat
    PROVE  Slice(i, n, k) = {StartIndex(i, n, k) + x : x \in 0 .. SliceSize(i, n, k) - 1}
  <1> DEFINE s == StartIndex(i, n, k)
             z == SliceSize(i, n, k)
  <1>1. s \in Nat /\ z \in Int /\ z <= n - s
    BY StartAndSize
  <1> HIDE DEF s, z
  <1>2. \A x \in 0 .. z - 1 : (s + x) % n = s + x
    <2> SUFFICES ASSUME NEW x \in 0 .. z - 1 PROVE (s + x) % n = s + x
      OBVIOUS
    <2>1. s + x \in Nat /\ s + x < n
      BY <1>1
    <2> QED
      BY <2>1, SmallRemainder
  <1>3. {(s + x) % n : x \in 0 .. z - 1} = {s + x : x \in 0 .. z - 1}
    BY <1>2
  <1> QED
    BY <1>3 DEF Slice, s, z

LEMMA NextStart ==
    ASSUME NEW n \in Nat \ {0}, NEW k \in Nat \ {0}, NEW i \in Nat, NEW j \in Nat, i < j
    PROVE  StartIndex(i, n, k) + AverageSize(i, n, k) <= StartIndex(j, n, k)
  <1> DEFINE q == n \div k
             r == n % k
  <1>1. q \in Nat /\ r \in Nat
    BY Division
  <1> HIDE DEF q, r
  <1>2. CASE n <= k
    <2>1. AverageSize(i, n, k) = 1 /\ AverageSize(j, n, k) = 1
      BY <1>2 DEF AverageSize
    <2>2. /\ StartIndex(i, n, k) = IF r > 0 /\ i < r THEN i ELSE i + r
          /\ StartIndex(j, n, k) = IF r > 0 /\ j < r THEN j ELSE j + r
      BY <2>1 DEF StartIndex, r
    <2> QED
      BY <1>1, <2>1, <2>2
  <1>3. CASE n > k
    <2>1. /\ AverageSize(i, n, k) = IF r > 0 /\ i < r THEN q + 1 ELSE q
          /\ AverageSize(j, n, k) = IF r > 0 /\ j < r THEN q + 1 ELSE q
      BY <1>3 DEF AverageSize, q, r
    <2>2. /\ StartIndex(i, n, k) = IF r > 0 /\ i < r THEN i * (q + 1) ELSE i * q + r
          /\ StartIndex(j, n, k) = IF r > 0 /\ j < r THEN j * (q + 1) ELSE j * q + r
      BY <2>1 DEF StartIndex, r
    <2>3. i * (q + 1) + (q + 1) <= j * (q + 1) /\ i * q + q <= j * q
      BY <1>1, TimesGrows
    <2>4. i * (q + 1) = i * q + i /\ i * q \in Nat /\ j * q \in Nat
      BY <1>1
    <2> QED
      BY <1>1, <2>1, <2>2, <2>3, <2>4
  <1> QED
    BY <1>2, <1>3

LEMMA SlicesApart ==
    ASSUME NEW n \in Nat \ {0}, NEW k \in Nat \ {0}, NEW i \in Nat, NEW j \in Nat, i < j
    PROVE  Slice(i, n, k) \cap Slice(j, n, k) = {}
  <1>1. /\ Slice(i, n, k) = {StartIndex(i, n, k) + x : x \in 0 .. SliceSize(i, n, k) - 1}
        /\ Slice(j, n, k) = {StartIndex(j, n, k) + x : x \in 0 .. SliceSize(j, n, k) - 1}
    BY SliceIsInterval
  <1>2. /\ StartIndex(i, n, k) \in Nat /\ StartIndex(j, n, k) \in Nat
        /\ AverageSize(i, n, k) \in Nat
        /\ SliceSize(i, n, k) \in Int /\ SliceSize(j, n, k) \in Int
        /\ SliceSize(i, n, k) <= AverageSize(i, n, k)
    BY StartAndSize
  <1>3. StartIndex(i, n, k) + AverageSize(i, n, k) <= StartIndex(j, n, k)
    BY NextStart
  <1>4. \A y \in Slice(i, n, k) : y \in Int /\ y < StartIndex(j, n, k)
    BY <1>1, <1>2, <1>3
  <1>5. \A y \in Slice(j, n, k) : y \in Int /\ StartIndex(j, n, k) <= y
    BY <1>1, <1>2
  <1> QED
    BY <1>2, <1>4, <1>5

(* Every position is in the slice of one of the k clients.                 *)
LEMMA SlicesCover ==
    ASSUME NEW n \in Nat \ {0}, NEW k \in Nat \ {0}, NEW p \in 0 .. n - 1
    PROVE  \E i \in 0 .. k - 1 : p \in Slice(i, n, k)
  <1> DEFINE q == n \div k
             r == n % k
  <1>1. q \in Nat /\ r \in Nat /\ r < k /\ n = k * q + r
    BY Division
  <1>2. ASSUME NEW i \in 0 .. k - 1, NEW x \in Nat,
               p = StartIndex(i, n, k) + x,
               x < AverageSize(i, n, k),
               StartIndex(i, n, k) + AverageSize(i, n, k) <= n
        PROVE  \E j \in 0 .. k - 1 : p \in Slice(j, n, k)
    <2>1. i \in Nat
      OBVIOUS
    <2>2. AverageSize(i, n, k) \in Nat /\ StartIndex(i, n, k) \in Nat
      BY <2>1, StartAndSize
    <2>3. SliceSize(i, n, k) = AverageSize(i, n, k)
      BY <1>2, <2>2 DEF SliceSize
    <2>4. x \in 0 .. SliceSize(i, n, k) - 1
      BY <1>2, <2>2, <2>3
    <2>5. p \in Slice(i, n, k)
      BY <1>2, <2>1, <2>4, SliceIsInterval
    <2> QED
      BY <2>5
  <1>3. CASE n <= k
    <2>1. (r = 0 /\ n = k) \/ r = n
      <3>1. CASE n < k
        BY <3>1, SmallRemainder
      <3>2. CASE n = k
        BY <3>2
      <3> QED
        BY <1>3, <3>1, <3>2
    <2>2. AverageSize(p, n, k) = 1
      BY <1>3 DEF AverageSize
    <2> HIDE DEF q, r
    <2>3. StartIndex(p, n, k) = IF r > 0 /\ p < r THEN p ELSE p + r
      BY <2>2 DEF StartIndex, r
    <2>4. StartIndex(p, n, k) = p
      BY <2>1, <2>3
    <2>5. p \in 0 .. k - 1 /\ 0 \in Nat
      BY <1>3
    <2> QED
      BY <1>2, <2>2, <2>4, <2>5
  <1>4. CASE n > k
    <2> HIDE DEF q, r
    <2>1. \A i \in Nat :
              /\ AverageSize(i, n, k) = IF r > 0 /\ i < r THEN q + 1 ELSE q
              /\ StartIndex(i, n, k) = IF r > 0 /\ i < r THEN i * (q + 1) ELSE i * q + r
      BY <1>4 DEF AverageSize, StartIndex, q, r
    <2>2. k * q \in Nat /\ r * q \in Nat /\ r * (q + 1) = r * q + r
      BY <1>1
    <2>3. CASE p < r * (q + 1)
      <3> DEFINE i == p \div (q + 1)
                 x == p % (q + 1)
      <3>1. i \in Nat /\ x \in Nat /\ x < q + 1 /\ p = (q + 1) * i + x
        <4>1. p \in Nat /\ q + 1 \in Nat \ {0}
          BY <1>1
        <4> QED
          BY <4>1, Division, Zenon
      <3> HIDE DEF i, x
      <3>2. (q + 1) * i = i * (q + 1) /\ i * (q + 1) \in Nat
        BY <1>1, <3>1
      <3>3. i < r
        <4> SUFFICES ASSUME r <= i PROVE FALSE
          BY <1>1, <3>1
        <4>1. r * (q + 1) <= i * (q + 1)
          <5>1. CASE r = i
            BY <1>1, <3>1, <5>1
          <5>2. CASE r < i
            BY <1>1, <2>2, <3>1, <3>2, <5>2, TimesGrows
          <5> QED
            BY <1>1, <3>1, <5>1, <5>2
        <4> QED
          BY <1>1, <2>2, <2>3, <3>1, <3>2, <4>1
      <3>4. i * (q + 1) + (q + 1) <= n
        <4>1. i * (q + 1) + (q + 1) <= r * (q + 1)
          BY <1>1, <3>1, <3>3, TimesGrows
        <4>2. r * q + q <= k * q
          BY <1>1, TimesGrows
        <4> QED
          BY <1>1, <2>2, <3>2, <4>1, <4>2
      <3>5. AverageSize(i, n, k) = q + 1 /\ StartIndex(i, n, k) = i * (q + 1)
        BY <1>1, <2>1, <3>1, <3>3
      <3>6. i \in 0 .. k - 1
        BY <1>1, <3>1, <3>3
      <3> QED
        BY <1>2, <3>1, <3>2, <3>4, <3>5, <3>6
    <2>4. CASE p >= r * (q + 1)
      <3> DEFINE m == p - r * (q + 1)
                 e == m \div q
                 x == m % q
                 i == r + e
      <3>1. q # 0
        BY <1>1, <1>4
      <3>2. m \in Nat /\ p = m + r * q + r
        BY <1>1, <2>2, <2>4
      <3> HIDE DEF m
      <3>3. e \in Nat /\ x \in Nat /\ x < q /\ m = q * e + x
        BY <1>1, <3>1, <3>2, Division
      <3> HIDE DEF e, x
      <3>4. q * e = e * q /\ e * q \in Nat /\ i * q = r * q + e * q
        BY <1>1, <3>3
      <3>5. i \in Nat /\ i >= r
        BY <1>1, <3>3
      <3> HIDE DEF i
      <3>6. i * q \in Nat /\ i * q + r + x = p
        BY <1>1, <2>2, <3>2, <3>3, <3>4, <3>5
      <3>7. i < k
        <4> SUFFICES ASSUME k <= i PROVE FALSE
          BY <1>1, <3>5
        <4>1. k * q <= i * q
          <5>1. CASE k = i
            BY <1>1, <5>1, <3>6
          <5>2. CASE k < i
            BY <1>1, <2>2, <3>5, <3>6, <5>2, TimesGrows
          <5> QED
            BY <3>5, <5>1, <5>2
        <4> QED
          BY <1>1, <2>2, <3>3, <3>6, <4>1
      <3>8. i * q + q <= k * q
        BY <1>1, <3>5, <3>7, TimesGrows
      <3>9. AverageSize(i, n, k) = q /\ StartIndex(i, n, k) = i * q + r
        BY <1>1, <2>1, <3>5
      <3>10. StartIndex(i, n, k) + AverageSize(i, n, k) <= n
        BY <1>1, <2>2, <3>6, <3>8, <3>9
      <3> QED
        BY <1>2, <3>3, <3>5, <3>6, <3>7, <3>9, <3>10
    <2> QED
      BY <1>1, <2>2, <2>3, <2>4
  <1> QED
    BY <1>3, <1>4

-----------------------------------------------------------------------------
(* Positions in the sorted list.                                           *)

LEMMA PositionInRange ==
    ASSUME NEW S, IsFiniteSet(S), \A y \in S : y \in Int, NEW x \in S
    PROVE  Position(S, x) \in 0 .. Cardinality(S) - 1
  <1> DEFINE B == {y \in S : y < x}
  <1>1. B \in SUBSET S /\ x \in S \ B
    OBVIOUS
  <1>2. IsFiniteSet(B) /\ Cardinality(B) <= Cardinality(S)
        /\ (Cardinality(S) = Cardinality(B) => S = B)
    BY <1>1, FS_Subset
  <1>3. Cardinality(B) \in Nat /\ Cardinality(S) \in Nat
    BY <1>2, FS_CardinalityType
  <1>4. Cardinality(S) # Cardinality(B)
    BY <1>1, <1>2
  <1>5. Position(S, x) = Cardinality(B)
    BY DEF Position
  <1> HIDE DEF B
  <1> QED
    BY <1>2, <1>3, <1>4, <1>5

LEMMA PositionGrows ==
    ASSUME NEW S, IsFiniteSet(S), \A y \in S : y \in Int,
           NEW x \in S, NEW y \in S, x < y
    PROVE  Position(S, x) < Position(S, y)
  <1> DEFINE A == {z \in S : z < x}
             B == {z \in S : z < y}
  <1>1. A \in SUBSET B /\ B \in SUBSET S /\ x \in B /\ x \notin A
    OBVIOUS
  <1>2. IsFiniteSet(B)
    BY <1>1, FS_Subset
  <1>3. IsFiniteSet(A) /\ Cardinality(A) <= Cardinality(B)
        /\ (Cardinality(B) = Cardinality(A) => B = A)
    BY <1>1, <1>2, FS_Subset
  <1>4. Cardinality(A) \in Nat /\ Cardinality(B) \in Nat
    BY <1>2, <1>3, FS_CardinalityType
  <1>5. Cardinality(A) # Cardinality(B)
    BY <1>1, <1>3
  <1>6. Position(S, x) = Cardinality(A) /\ Position(S, y) = Cardinality(B)
    BY DEF Position
  <1> HIDE DEF A, B
  <1> QED
    BY <1>3, <1>4, <1>5, <1>6

LEMMA PositionsDiffer ==
    ASSUME NEW S, IsFiniteSet(S), \A y \in S : y \in Int,
           NEW x \in S, NEW y \in S, x # y
    PROVE  Position(S, x) # Position(S, y)
  <1>1. /\ Position(S, x) \in 0 .. Cardinality(S) - 1
        /\ Position(S, y) \in 0 .. Cardinality(S) - 1
    BY PositionInRange
  <1>2. Cardinality(S) \in Nat
    BY FS_CardinalityType
  <1>3. CASE x < y
    BY <1>1, <1>2, <1>3, PositionGrows
  <1>4. CASE y < x
    BY <1>1, <1>2, <1>4, PositionGrows
  <1>5. x \in Int /\ y \in Int
    OBVIOUS
  <1> QED
    BY <1>3, <1>4, <1>5

(* Every position is that of an element: the positions of the list are     *)
(* all different, and there are as many as elements.                       *)
LEMMA PositionTaken ==
    ASSUME NEW S, IsFiniteSet(S), \A y \in S : y \in Int,
           NEW p \in 0 .. Cardinality(S) - 1
    PROVE  \E x \in S : Position(S, x) = p
  <1> DEFINE n == Cardinality(S)
             P == 0 .. n - 1
             f == [x \in S |-> Position(S, x)]
  <1>1. n \in Nat
    BY FS_CardinalityType
  <1>2. IsFiniteSet(P) /\ Cardinality(P) = n
    BY <1>1, FS_Interval
  <1> p \in P
    OBVIOUS
  <1> HIDE DEF P, n
  <1>3. IsFiniteSet(P \ {p}) /\ Cardinality(P \ {p}) = n - 1
    BY <1>2, FS_RemoveElement
  <1> SUFFICES ASSUME \A x \in S : Position(S, x) # p PROVE FALSE
    OBVIOUS
  <1>4. \A x \in S : Position(S, x) \in P
    BY PositionInRange DEF P, n
  <1>5. f \in [S -> P \ {p}]
    BY <1>4
  <1>6. Cardinality(P \ {p}) < Cardinality(S)
    BY <1>1, <1>3 DEF n
  <1> HIDE DEF f
  <1>7. PICK x \in S, y \in S : x # y /\ f[x] = f[y]
    BY <1>3, <1>5, <1>6, FS_PigeonHole
  <1>8. Position(S, x) = Position(S, y)
    BY <1>7 DEF f
  <1> QED
    BY <1>7, <1>8, PositionsDiffer

-----------------------------------------------------------------------------
(* Allocate divides the queues.                                            *)

(* Two clients that compute their shares from the same queues and the same *)
(* ids get no queue both.                                                  *)
LEMMA SharesAreDisjoint ==
    ASSUME NEW Q, IsFiniteSet(Q), \A y \in Q : y \in Int,
           NEW K, IsFiniteSet(K), \A y \in K : y \in Int,
           NEW c, NEW d, c # d
    PROVE  Allocate(c, Q, K) \cap Allocate(d, Q, K) = {}
  <1> SUFFICES ASSUME NEW m, m \in Allocate(c, Q, K), m \in Allocate(d, Q, K)
               PROVE  FALSE
    OBVIOUS
  <1> DEFINE n == Cardinality(Q)
             k == Cardinality(K)
             i == Position(K, c)
             j == Position(K, d)
  <1>1. /\ c \in K /\ d \in K /\ m \in Q
        /\ Position(Q, m) \in Slice(i, n, k) /\ Position(Q, m) \in Slice(j, n, k)
    BY DEF Allocate
  <1>2. n \in Nat \ {0} /\ k \in Nat \ {0}
    BY <1>1, FS_CardinalityType, FS_EmptySet
  <1>3. i \in 0 .. k - 1 /\ j \in 0 .. k - 1
    BY <1>1, PositionInRange
  <1>4. i # j
    BY <1>1, PositionsDiffer
  <1> HIDE DEF n, k, i, j
  <1>5. i \in Nat /\ j \in Nat
    BY <1>2, <1>3
  <1>6. CASE i < j
    BY <1>1, <1>2, <1>5, <1>6, SlicesApart
  <1>7. CASE j < i
    BY <1>1, <1>2, <1>5, <1>7, SlicesApart
  <1> QED
    BY <1>4, <1>5, <1>6, <1>7

(* Every queue is in the share of a client of the list.                    *)
LEMMA SharesCover ==
    ASSUME NEW Q, IsFiniteSet(Q), \A y \in Q : y \in Int,
           NEW K, IsFiniteSet(K), \A y \in K : y \in Int, K # {},
           NEW m \in Q
    PROVE  \E c \in K : m \in Allocate(c, Q, K)
  <1> DEFINE n == Cardinality(Q)
             k == Cardinality(K)
             p == Position(Q, m)
  <1>1. n \in Nat \ {0} /\ k \in Nat \ {0}
    BY FS_CardinalityType, FS_EmptySet
  <1>2. p \in 0 .. n - 1
    BY PositionInRange
  <1> HIDE DEF n, k, p
  <1>3. PICK i \in 0 .. k - 1 : p \in Slice(i, n, k)
    BY <1>1, <1>2, SlicesCover
  <1>4. PICK c \in K : Position(K, c) = i
    BY PositionTaken DEF k
  <1>5. m \in Allocate(c, Q, K)
    BY <1>3, <1>4 DEF Allocate, n, k, p
  <1> QED
    BY <1>5

(* AllocateMessageQueueAveragely: of any queues and any list of ids, every *)
(* queue goes to exactly one client of the list, whatever the numbers of   *)
(* both and the remainder of their division.                               *)
THEOREM AllocationIsPartition ==
    ASSUME NEW Q, IsFiniteSet(Q), \A y \in Q : y \in Int,
           NEW K, IsFiniteSet(K), \A y \in K : y \in Int, K # {},
           NEW m \in Q
    PROVE  \E c \in K : /\ m \in Allocate(c, Q, K)
                        /\ \A d \in K : m \in Allocate(d, Q, K) => d = c
  <1>1. PICK c \in K : m \in Allocate(c, Q, K)
    BY SharesCover
  <1>2. ASSUME NEW d \in K, m \in Allocate(d, Q, K), d # c
        PROVE  FALSE
    <2>1. Allocate(d, Q, K) \cap Allocate(c, Q, K) = {}
      BY <1>2, SharesAreDisjoint
    <2> QED
      BY <1>1, <1>2, <2>1
  <1> QED
    BY <1>1, <1>2
=============================================================================
