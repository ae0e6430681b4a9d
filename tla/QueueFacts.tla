----------------------------- MODULE QueueFacts -----------------------------
(***************************************************************************)
(* What the operations of QCameraQueue do to a queue, as the proofs about  *)
(* its users need it: places of entries, and how many entries satisfy a    *)
(* condition, given as the set of the places where they are.               *)
(***************************************************************************)
EXTENDS QCameraQueue, FiniteSetTheorems, SequenceTheorems, TLAPS

\* The places of a queue that hold an entry of the set E.
PlacesOf(q, E) == {i \in 1 .. Len(q) : q[i] \in E}

Counts(e, E) == IF e \in E THEN 1 ELSE 0

\* How many there are.
CountOf(q, E) == Cardinality(PlacesOf(q, E))

\* It is a number.
LEMMA PlacesFinite ==
  ASSUME NEW S, NEW q \in Seq(S), NEW E
  PROVE  IsFiniteSet(PlacesOf(q, E)) /\ CountOf(q, E) \in Nat
<1>1. IsFiniteSet(1 .. Len(q))
  BY FS_Interval, LenProperties
<1>2. PlacesOf(q, E) \in SUBSET (1 .. Len(q))
  BY DEF PlacesOf
<1>3. IsFiniteSet(PlacesOf(q, E))
  BY <1>1, <1>2, FS_Subset
<1> QED BY <1>3, FS_CardinalityType DEF CountOf

\* An empty queue holds nothing.
LEMMA CountEmpty == ASSUME NEW E PROVE CountOf(<< >>, E) = 0
<1>1. PlacesOf(<< >>, E) = {}
  BY DEF PlacesOf
<1> QED BY <1>1, FS_EmptySet DEF CountOf

\* enqueue() adds one entry behind all others.
LEMMA CountEnqueue ==
  ASSUME NEW S, NEW q \in Seq(S), NEW e \in S, NEW E
  PROVE  /\ enqueue(q, e) \in Seq(S)
         /\ Len(enqueue(q, e)) = Len(q) + 1
         /\ CountOf(enqueue(q, e), E) = CountOf(q, E) + Counts(e, E)
<1>1. /\ Append(q, e) \in Seq(S)
      /\ Len(Append(q, e)) = Len(q) + 1
      /\ \A i \in 1 .. Len(q) : Append(q, e)[i] = q[i]
      /\ Append(q, e)[Len(q) + 1] = e
      /\ Len(q) \in Nat
  BY AppendProperties, LenProperties
<1>2. PlacesOf(Append(q, e), E) = PlacesOf(q, E) \cup IF e \in E THEN {Len(q) + 1} ELSE {}
  BY <1>1 DEF PlacesOf
<1>3. Len(q) + 1 \notin PlacesOf(q, E)
  BY <1>1 DEF PlacesOf
<1>4. IsFiniteSet(PlacesOf(q, E)) /\ CountOf(q, E) \in Nat
  BY PlacesFinite
<1>5. Cardinality(PlacesOf(q, E) \cup {Len(q) + 1}) = CountOf(q, E) + 1
  BY <1>3, <1>4, FS_AddElement DEF CountOf
<1>6. CountOf(Append(q, e), E) = CountOf(q, E) + Counts(e, E)
  <2>1. CASE e \in E
    BY <2>1, <1>2, <1>5 DEF CountOf, Counts
  <2>2. CASE e \notin E
    <3>1. PlacesOf(Append(q, e), E) = PlacesOf(q, E)
      BY <2>2, <1>2
    <3> QED BY <2>2, <3>1, <1>4 DEF CountOf, Counts
  <2> QED BY <2>1, <2>2
<1> QED BY <1>1, <1>6 DEF enqueue

\* A queue from which the entry at place k was removed.
RemovedAt(q, r, k) ==
  /\ k \in 1 .. Len(q)
  /\ Len(r) = Len(q) - 1
  /\ \A i \in 1 .. Len(r) : r[i] = IF i < k THEN q[i] ELSE q[i + 1]

\* Removing one entry lowers the count by one if the entry is counted.
LEMMA CountRemoved ==
  ASSUME NEW S, NEW q \in Seq(S), NEW r \in Seq(S), NEW k \in Nat,
         RemovedAt(q, r, k), NEW E
  PROVE  CountOf(q, E) = CountOf(r, E) + Counts(q[k], E)
<1> DEFINE P == PlacesOf(q, E) \ {k}
           R == PlacesOf(r, E)
           f == [i \in R |-> IF i < k THEN i ELSE i + 1]
<1>1. Len(q) \in Nat /\ Len(r) \in Nat
  BY LenProperties
<1>2. f \in [R -> P]
  BY <1>1 DEF PlacesOf, RemovedAt
<1>3. \A i, j \in R : f[i] = f[j] => i = j
  BY <1>1 DEF PlacesOf, RemovedAt
<1>4. ASSUME NEW p \in P PROVE \E i \in R : f[i] = p
  <2>0. p \in 1 .. Len(q) /\ q[p] \in E /\ k \in 1 .. Len(q) /\ p # k
    BY DEF PlacesOf, RemovedAt
  <2>1. CASE p < k
    <3>1. p \in R
      BY <2>1, <1>1 DEF PlacesOf, RemovedAt
    <3> QED BY <2>1, <3>1
  <2>2. CASE p > k
    <3>1. p - 1 \in R /\ ~(p - 1 < k) /\ p - 1 + 1 = p
      BY <2>2, <1>1 DEF PlacesOf, RemovedAt
    <3> QED BY <3>1
  <2> QED BY <2>0, <2>1, <2>2, <1>1
<1>5. f \in Bijection(R, P)
  BY <1>2, <1>3, <1>4 DEF Bijection, Injection, Surjection, IsInjective
<1>6. ExistsBijection(R, P)
  BY <1>5 DEF ExistsBijection
<1>7. IsFiniteSet(R) /\ IsFiniteSet(PlacesOf(q, E))
  BY PlacesFinite
<1>8. Cardinality(P) = Cardinality(R)
  BY <1>6, <1>7, FS_Bijection
<1>9. Cardinality(P) = IF k \in PlacesOf(q, E) THEN CountOf(q, E) - 1 ELSE CountOf(q, E)
  BY <1>7, FS_RemoveElement DEF CountOf
<1>10. k \in PlacesOf(q, E) <=> q[k] \in E
  BY DEF PlacesOf, RemovedAt
<1>11. CountOf(q, E) \in Nat /\ CountOf(r, E) \in Nat
  BY PlacesFinite
<1> HIDE DEF P, R, f
<1> QED BY <1>8, <1>9, <1>10, <1>11 DEF CountOf, Counts, R

\* dequeue() removes the first entry.
LEMMA CountDequeue ==
  ASSUME NEW S, NEW q \in Seq(S), q # << >>, NEW E
  PROVE  /\ Head(q) \in S /\ Tail(q) \in Seq(S)
         /\ Len(Tail(q)) = Len(q) - 1
         /\ CountOf(q, E) = CountOf(Tail(q), E) + Counts(Head(q), E)
<1>1. /\ Head(q) \in S /\ Tail(q) \in Seq(S)
      /\ Len(Tail(q)) = Len(q) - 1
      /\ \A i \in 1 .. Len(Tail(q)) : Tail(q)[i] = q[i + 1]
      /\ Len(q) \in Nat /\ Len(q) > 0
      /\ Head(q) = q[1]
  BY HeadTailProperties, LenProperties, EmptySeq
<1>2. RemovedAt(q, Tail(q), 1)
  BY <1>1 DEF RemovedAt
<1>3. \A r \in Seq(S) : RemovedAt(q, r, 1) => CountOf(q, E) = CountOf(r, E) + Counts(q[1], E)
  BY CountRemoved
<1>4. CountOf(q, E) = CountOf(Tail(q), E) + Counts(Head(q), E)
  BY <1>1, <1>2, <1>3, Zenon
<1> QED BY <1>1, <1>4
-----------------------------------------------------------------------------
\* How many elements of a set of places lie up to place i.
Rank(K, i) == Cardinality({j \in K : j <= i})

\* The ranks of the elements of a set of places are 1, 2, 3 and so on.
LEMMA Ranks ==
  ASSUME NEW m \in Nat, NEW K \in SUBSET (1 .. m)
  PROVE  /\ IsFiniteSet(K) /\ Cardinality(K) \in Nat
         /\ \A i \in K : Rank(K, i) \in 1 .. Cardinality(K)
         /\ \A i, j \in K : i < j => Rank(K, i) < Rank(K, j)
         /\ \A n \in 1 .. Cardinality(K) : \E i \in K : Rank(K, i) = n
<1>1. IsFiniteSet(K) /\ Cardinality(K) \in Nat
  <2>1. IsFiniteSet(1 .. m)
    BY FS_Interval
  <2>2. IsFiniteSet(K)
    BY <2>1, FS_Subset
  <2> QED BY <2>2, FS_CardinalityType
<1>0. \A i \in K : i \in Int
  OBVIOUS
<1> DEFINE Below(i) == {j \in K : j <= i}
<1>2. \A i \in K : /\ IsFiniteSet(Below(i)) /\ Cardinality(Below(i)) \in Nat
                   /\ Cardinality(Below(i)) <= Cardinality(K)
  <2>1. \A i \in K : Below(i) \in SUBSET K
    OBVIOUS
  <2> HIDE DEF Below
  <2> QED BY <1>1, <2>1, FS_Subset, FS_CardinalityType
<1>3. \A i \in K : Cardinality(Below(i)) # 0
  <2>1. \A i \in K : i \in Below(i)
    OBVIOUS
  <2> HIDE DEF Below
  <2> QED BY <1>2, <2>1, FS_EmptySet
<1>4. ASSUME NEW i \in K, NEW j \in K, i < j PROVE Cardinality(Below(i)) < Cardinality(Below(j))
  <2>1. Below(i) \in SUBSET Below(j) /\ j \in Below(j) /\ j \notin Below(i)
    <3>1. \A l \in K : l <= i => l <= j
      BY <1>0, <1>4
    <3>2. j <= j /\ ~(j <= i)
      BY <1>0, <1>4
    <3> QED BY <3>1, <3>2
  <2> HIDE DEF Below
  <2>2. Cardinality(Below(i)) <= Cardinality(Below(j))
    BY <1>2, <2>1, FS_Subset
  <2>3. Cardinality(Below(j)) # Cardinality(Below(i))
    BY <1>2, <2>1, FS_Subset
  <2> QED BY <1>2, <2>2, <2>3
<1>5. \A i \in K : Rank(K, i) \in 1 .. Cardinality(K)
  BY <1>1, <1>2, <1>3 DEF Rank
<1>6. \A i, j \in K : i < j => Rank(K, i) < Rank(K, j)
  BY <1>4 DEF Rank
<1>7. \A n \in 1 .. Cardinality(K) : \E i \in K : Rank(K, i) = n
  <2> DEFINE f == [i \in K |-> Rank(K, i)]
             N == 1 .. Cardinality(K)
  <2>1. f \in [K -> N]
    BY <1>5
  <2>2. \A i, j \in K : i # j => f[i] # f[j]
    <3>1. ASSUME NEW i \in K, NEW j \in K, i # j PROVE f[i] # f[j]
      <4>1. i \in Int /\ j \in Int /\ Rank(K, i) \in Int /\ Rank(K, j) \in Int
        BY <1>5, <1>1
      <4>2. i < j \/ j < i
        BY <3>1, <4>1
      <4> QED BY <4>1, <4>2, <1>6
    <3> QED BY <3>1
  <2>3. f \in Injection(K, N)
    BY <2>1, <2>2 DEF Injection, IsInjective
  <2>4. IsFiniteSet(N) /\ Cardinality(N) = Cardinality(K)
    BY <1>1, FS_Interval
  <2>5. f \in Surjection(K, N)
    <3> HIDE DEF f, N
    <3> QED BY <2>3, <2>4, FS_Injection
  <2> QED BY <2>5 DEF Surjection
<1> QED BY <1>1, <1>5, <1>6, <1>7

\* The places whose entries flushNodes() leaves in the queue.
Kept(q, M) == {i \in 1 .. Len(q) : q[i] \notin M}

\* flushNodes() keeps exactly the entries that are not matched, in their order.
LEMMA FlushKeeps ==
  ASSUME NEW S, NEW q \in Seq(S), NEW M
  PROVE  LET r == flushNodes(q, M) IN
         /\ r \in Seq(S)
         /\ \E at \in [1 .. Len(r) -> Kept(q, M)] :
              /\ \A n \in 1 .. Len(r) : r[n] = q[at[n]]
              /\ \A m, n \in 1 .. Len(r) : m < n => at[m] < at[n]
              /\ \A i \in Kept(q, M) : \E n \in 1 .. Len(r) : at[n] = i
<1> DEFINE K == Kept(q, M)
           N == Cardinality(K)
           nth(n) == CHOOSE i \in K : Rank(K, i) = n
           at == [n \in 1 .. N |-> nth(n)]
           r == flushNodes(q, M)
<1>1. /\ Len(q) \in Nat /\ K \in SUBSET (1 .. Len(q))
      /\ \A i \in K : i \in Int /\ q[i] \in S
  BY LenProperties, ElementOfSeq DEF Kept
<1>2. r = [n \in 1 .. N |-> q[nth(n)]]
  BY DEF flushNodes, Kept, Rank
<1> HIDE DEF K, r
<1>3. /\ IsFiniteSet(K) /\ N \in Nat
      /\ \A i \in K : Rank(K, i) \in 1 .. N
      /\ \A i, j \in K : i < j => Rank(K, i) < Rank(K, j)
      /\ \A n \in 1 .. N : \E i \in K : Rank(K, i) = n
  BY <1>1, Ranks
<1>4. \A n \in 1 .. N : nth(n) \in K /\ Rank(K, nth(n)) = n
  BY <1>3
<1> HIDE DEF nth, N
<1>5. r \in Seq(S) /\ Len(r) = N
  <2>1. \A n \in 1 .. N : q[nth(n)] \in S
    BY <1>1, <1>4
  <2>2. r \in [1 .. N -> S]
    BY <1>2, <2>1
  <2>3. r \in Seq(S)
    BY <1>3, <2>2, SeqDef
  <2>4. DOMAIN r = 1 .. N /\ DOMAIN r = 1 .. Len(r) /\ Len(r) \in Nat
    BY <2>2, <2>3, LenProperties
  <2> QED BY <1>3, <2>3, <2>4
<1>6. at \in [1 .. N -> K] /\ \A n \in 1 .. N : r[n] = q[at[n]]
  BY <1>2, <1>4
<1>7. ASSUME NEW m \in 1 .. N, NEW n \in 1 .. N, m < n PROVE at[m] < at[n]
  <2>1. nth(m) \in K /\ nth(n) \in K /\ Rank(K, nth(m)) = m /\ Rank(K, nth(n)) = n
    BY <1>4
  <2>2. nth(m) \in Int /\ nth(n) \in Int
    BY <1>1, <2>1
  <2>3. CASE nth(n) < nth(m)
    <3>1. n < m
      BY <1>3, <2>1, <2>3
    <3> QED BY <1>3, <1>7, <3>1
  <2>4. nth(n) # nth(m)
    <3>1. m # n
      BY <1>3, <1>7
    <3> QED BY <2>1, <3>1
  <2> QED BY <2>2, <2>3, <2>4
<1>8. ASSUME NEW i \in K PROVE \E n \in 1 .. N : at[n] = i
  <2> DEFINE n == Rank(K, i)
  <2>1. n \in 1 .. N
    BY <1>3
  <2>2. nth(n) \in K /\ Rank(K, nth(n)) = n
    BY <1>4, <2>1
  <2>3. i \in Int /\ nth(n) \in Int
    BY <1>1, <2>2
  <2>4. ~(i < nth(n)) /\ ~(nth(n) < i)
    <3>1. n \in Int /\ ~(n < n)
      BY <2>1, <1>3
    <3> QED BY <1>3, <2>2, <3>1
  <2>5. at[n] = nth(n)
    BY <2>1
  <2> HIDE DEF n
  <2> QED BY <2>1, <2>3, <2>4, <2>5
<1> HIDE DEF at
<1>9. /\ at \in [1 .. Len(r) -> K]
      /\ \A n \in 1 .. Len(r) : r[n] = q[at[n]]
      /\ \A m, n \in 1 .. Len(r) : m < n => at[m] < at[n]
      /\ \A i \in K : \E n \in 1 .. Len(r) : at[n] = i
  BY <1>5, <1>6, <1>7, <1>8
<1> QED BY <1>5, <1>9 DEF K, r
-----------------------------------------------------------------------------
\* The entries of a queue, and that no two of them are the same.
Entries(q) == {q[i] : i \in 1 .. Len(q)}
Distinct(q) == \A i, j \in 1 .. Len(q) : q[i] = q[j] => i = j

\* An empty queue has no entries.
LEMMA EntriesEmpty == Entries(<< >>) = {} /\ Distinct(<< >>)
  BY DEF Entries, Distinct

\* enqueue() adds its entry, a new one keeps the entries distinct.
LEMMA EntriesEnqueue ==
  ASSUME NEW S, NEW q \in Seq(S), NEW e \in S
  PROVE  /\ Entries(enqueue(q, e)) = Entries(q) \cup {e}
         /\ Distinct(q) /\ e \notin Entries(q) => Distinct(enqueue(q, e))
<1>1. /\ Append(q, e) \in Seq(S)
      /\ Len(Append(q, e)) = Len(q) + 1
      /\ \A i \in 1 .. Len(q) : Append(q, e)[i] = q[i]
      /\ Append(q, e)[Len(q) + 1] = e
      /\ Len(q) \in Nat
  BY AppendProperties, LenProperties
<1> DEFINE r == enqueue(q, e)
<1>2. /\ Len(r) = Len(q) + 1 /\ r[Len(q) + 1] = e
      /\ \A i \in 1 .. Len(q) : r[i] = q[i]
  BY <1>1, Zenon DEF enqueue
<1> HIDE DEF r
<1>3. Entries(r) = Entries(q) \cup {e}
  <2>1. 1 .. Len(r) = (1 .. Len(q)) \cup {Len(q) + 1}
    BY <1>1, <1>2
  <2> QED BY <1>2, <2>1 DEF Entries
<1>4. ASSUME Distinct(q), e \notin Entries(q) PROVE Distinct(r)
  BY <1>1, <1>2, <1>4 DEF Distinct, Entries
<1> QED BY <1>3, <1>4 DEF r

\* dequeue() takes the first entry away, which is in no other place.
LEMMA EntriesDequeue ==
  ASSUME NEW S, NEW q \in Seq(S), q # << >>
  PROVE  /\ Entries(q) = Entries(Tail(q)) \cup {Head(q)}
         /\ Distinct(q) => Distinct(Tail(q)) /\ Head(q) \notin Entries(Tail(q))
<1> DEFINE r == Tail(q)
<1>1. /\ Len(r) = Len(q) - 1 /\ Head(q) = q[1]
      /\ \A i \in 1 .. Len(r) : r[i] = q[i + 1]
      /\ Len(q) \in Nat /\ Len(q) > 0
  BY HeadTailProperties, LenProperties, EmptySeq
<1> HIDE DEF r
<1>2. Entries(q) = Entries(r) \cup {q[1]}
  <2>1. \A i \in 1 .. Len(q) : i = 1 \/ (i - 1 \in 1 .. Len(r) /\ r[i - 1] = q[i])
    BY <1>1
  <2>2. \A i \in 1 .. Len(r) : i + 1 \in 1 .. Len(q) /\ r[i] = q[i + 1]
    BY <1>1
  <2>3. 1 \in 1 .. Len(q)
    BY <1>1
  <2>4. ASSUME NEW x \in Entries(q) PROVE x \in Entries(r) \cup {q[1]}
    <3>1. PICK i \in 1 .. Len(q) : x = q[i]
      BY DEF Entries
    <3>2. CASE i = 1
      BY <3>1, <3>2
    <3>3. CASE i - 1 \in 1 .. Len(r) /\ r[i - 1] = q[i]
      BY <3>1, <3>3 DEF Entries
    <3> QED BY <2>1, <3>2, <3>3
  <2>5. Entries(r) \cup {q[1]} \subseteq Entries(q)
    BY <2>2, <2>3 DEF Entries
  <2> QED BY <2>4, <2>5
<1>3. Distinct(q) => Distinct(r) /\ q[1] \notin Entries(r)
  <2> SUFFICES ASSUME Distinct(q) PROVE Distinct(r) /\ q[1] \notin Entries(r)
    OBVIOUS
  <2>1. Distinct(r)
    BY <1>1 DEF Distinct
  <2>2. q[1] \notin Entries(r)
    BY <1>1 DEF Distinct, Entries
  <2> QED BY <2>1, <2>2
<1> QED BY <1>1, <1>2, <1>3 DEF r

\* A queue with an entry in front of the others.
InFront(q, r, e) ==
  Len(r) = Len(q) + 1 /\ r[1] = e /\ \A i \in 1 .. Len(q) : r[i + 1] = q[i]

\* enqueueWithPriority() adds its entry in front of all others.
LEMMA EntriesPriority ==
  ASSUME NEW S, NEW q \in Seq(S), NEW e \in S, NEW r, r = enqueueWithPriority(q, e)
  PROVE  r \in Seq(S) /\ InFront(q, r, e) /\ Entries(r) = Entries(q) \cup {e}
<1>1. << e >> \in Seq(S) /\ Len(<< e >>) = 1 /\ << e >>[1] = e
  OBVIOUS
<1>2. Len(q) \in Nat
  BY LenProperties
<1> DEFINE p == << e >>
<1>3. /\ p \o q \in Seq(S) /\ Len(p \o q) = Len(p) + Len(q)
      /\ \A i \in 1 .. Len(p) + Len(q) : (p \o q)[i] = IF i <= Len(p) THEN p[i] ELSE q[i - Len(p)]
  <2> HIDE DEF p
  <2>1. p \in Seq(S)
    BY <1>1 DEF p
  <2> QED BY <2>1, ConcatProperties
<1>4. p \in Seq(S) /\ Len(p) = 1 /\ p[1] = e
  BY <1>1
<1> HIDE DEF p
<1> DEFINE c == p \o q
<1>5. c = r
  BY DEF p, enqueueWithPriority
<1>6. /\ c \in Seq(S) /\ Len(c) = 1 + Len(q)
      /\ \A i \in 1 .. 1 + Len(q) : c[i] = IF i <= 1 THEN p[i] ELSE q[i - 1]
  BY <1>3, <1>4
<1> HIDE DEF c
<1>7. r \in Seq(S) /\ Len(r) = Len(q) + 1 /\ r[1] = e
  BY <1>2, <1>4, <1>5, <1>6
<1>8. \A i \in 1 .. Len(q) : r[i + 1] = q[i]
  <2> TAKE i \in 1 .. Len(q)
  <2>1. i + 1 \in 1 .. 1 + Len(q) /\ ~(i + 1 <= 1) /\ i + 1 - 1 = i
    BY <1>2
  <2> QED BY <2>1, <1>5, <1>6
<1>9. Entries(r) = Entries(q) \cup {e}
  <2>1. \A i \in 1 .. Len(r) : i = 1 \/ (i - 1 \in 1 .. Len(q) /\ r[i] = q[i - 1])
    BY <1>2, <1>5, <1>6, <1>7
  <2>2. 1 \in 1 .. Len(r) /\ \A i \in 1 .. Len(q) : i + 1 \in 1 .. Len(r)
    BY <1>2, <1>7
  <2>3. Entries(r) \subseteq Entries(q) \cup {e}
    BY <1>7, <2>1 DEF Entries
  <2>4. Entries(q) \cup {e} \subseteq Entries(r)
    BY <1>7, <1>8, <2>2 DEF Entries
  <2> QED BY <2>3, <2>4
<1> QED BY <1>7, <1>8, <1>9 DEF InFront

\* flushNodes() takes the matched entries out and no others.
LEMMA EntriesFlushed ==
  ASSUME NEW S, NEW q \in Seq(S), NEW M
  PROVE  flushNodes(q, M) \in Seq(S) /\ Entries(flushNodes(q, M)) = Entries(q) \ M
<1> DEFINE r == flushNodes(q, M)
<1>1. /\ r \in Seq(S)
      /\ \E at \in [1 .. Len(r) -> Kept(q, M)] :
           /\ \A n \in 1 .. Len(r) : r[n] = q[at[n]]
           /\ \A m, n \in 1 .. Len(r) : m < n => at[m] < at[n]
           /\ \A i \in Kept(q, M) : \E n \in 1 .. Len(r) : at[n] = i
  BY FlushKeeps
<1> HIDE DEF r
<1>2. PICK at \in [1 .. Len(r) -> Kept(q, M)] :
        /\ \A n \in 1 .. Len(r) : r[n] = q[at[n]]
        /\ \A i \in Kept(q, M) : \E n \in 1 .. Len(r) : at[n] = i
  BY <1>1
<1>3. Entries(r) \subseteq Entries(q) \ M
  BY <1>2 DEF Entries, Kept
<1>4. ASSUME NEW x \in Entries(q), x \notin M PROVE x \in Entries(r)
  <2>1. PICK i \in 1 .. Len(q) : x = q[i]
    BY DEF Entries
  <2>2. i \in Kept(q, M)
    BY <1>4, <2>1 DEF Kept
  <2>3. PICK n \in 1 .. Len(r) : at[n] = i
    BY <1>2, <2>2
  <2> QED BY <1>2, <2>1, <2>3 DEF Entries
<1>5. Entries(r) = Entries(q) \ M
  BY <1>3, <1>4
<1> QED BY <1>1, <1>5 DEF r
=============================================================================
