---------------------------- MODULE CalloutProofs ----------------------------
(* The delta list of kern_clock.c keeps the promise of Timers, and loses   *)
(* no entry of its table, for a table of any size, any delays and any      *)
(* lateness of softclock().                                                *)
EXTENDS Callout, FiniteSetTheorems, SequenceTheorems, TLAPS

-----------------------------------------------------------------------------
(* Sums of ticks.  f is c_time in some state.                              *)

LEMMA LeastExists ==
  ASSUME NEW n \in Nat, NEW K \in SUBSET (1..n), K # {}
  PROVE  \E m \in K : \A k \in K : m <= k
<1> DEFINE T == {1..k : k \in K}
<1>1. T \subseteq FiniteSubsetsOf(1..n) /\ T # {}
  <2>1. IsFiniteSet(1..n)
    BY FS_Interval
  <2>2. \A k \in K : 1..k \in SUBSET (1..n)
    OBVIOUS
  <2>3. \A k \in K : IsFiniteSet(1..k)
    BY <2>1, <2>2, FS_Subset
  <2>4. PICK k \in K : TRUE
    OBVIOUS
  <2>5. 1..k \in T
    OBVIOUS
  <2> QED BY <2>2, <2>3, <2>5 DEF FiniteSubsetsOf
<1>2. PICK x \in T : \A y \in T : <<y, x>> \notin StrictSubsetOrdering(1..n)
  <2>1. IsFiniteSet(1..n)
    BY FS_Interval
  <2>2. IsWellFoundedOn(StrictSubsetOrdering(1..n), FiniteSubsetsOf(1..n))
    BY FS_StrictSubsetOrderingWellFounded
  <2> HIDE DEF T
  <2> QED BY <1>1, <2>2, WFMin
<1>3. PICK m \in K : x = 1..m
  OBVIOUS
<1>4. ASSUME NEW k \in K PROVE m <= k
  <2> SUFFICES ASSUME k < m PROVE FALSE
    OBVIOUS
  <2>1. k \in 1..n /\ m \in 1..n
    OBVIOUS
  <2>2. 1..k \subseteq 1..m /\ 1..m \subseteq 1..n /\ m \in 1..m /\ m \notin 1..k
    BY <2>1
  <2>3. 1..k # 1..m /\ 1..k \subseteq 1..n
    BY <2>2
  <2>4. <<1..k, 1..m>> \in StrictSubsetOrdering(1..n)
    BY <2>2, <2>3 DEF StrictSubsetOrdering
  <2>5. 1..k \in T
    OBVIOUS
  <2> QED BY <1>2, <1>3, <2>4, <2>5
<1> QED BY <1>4

TicksOf(f, E) == UNION {{e} \X (1..f[e]) : e \in E}
Total(f, E) == Cardinality(TicksOf(f, E))

(* Times, with a bound M.                                                  *)
Times(M) == [Entry -> {t \in Int : t <= M}]

LEMMA TotalType ==
  ASSUME NEW M \in Nat, NEW f \in Times(M), NEW E \in SUBSET Entry
  PROVE  IsFiniteSet(TicksOf(f, E)) /\ Total(f, E) \in Nat
<1>1. IsFiniteSet(Entry) /\ IsFiniteSet(1..M)
  BY BoundsAreNat, FS_Interval DEF Entry
<1>2. IsFiniteSet(Entry \X (1..M))
  BY <1>1, FS_Product
<1>3. TicksOf(f, E) \subseteq Entry \X (1..M)
  BY DEF TicksOf, Times
<1> QED BY <1>2, <1>3, FS_Subset, FS_CardinalityType DEF Total

LEMMA TotalEmpty ==
  ASSUME NEW f
  PROVE  Total(f, {}) = 0
BY FS_EmptySet DEF Total, TicksOf

LEMMA TotalAdds ==
  ASSUME NEW M \in Nat, NEW f \in Times(M), NEW E \in SUBSET Entry, NEW e \in Entry \ E
  PROVE  Total(f, E \cup {e}) = Total(f, E) + Positive(f[e])
<1>1. PICK A, B : A = TicksOf(f, E) /\ B = {e} \X (1..f[e])
  OBVIOUS
<1>2. TicksOf(f, E \cup {e}) = A \cup B /\ A \cap B = {}
  BY <1>1 DEF TicksOf
<1>3. f[e] \in Int
  BY DEF Times
<1>4. IsFiniteSet(B) /\ Cardinality(B) = Positive(f[e])
  <2>1. IsFiniteSet(1..f[e]) /\ Cardinality(1..f[e]) = Positive(f[e])
    BY <1>3, FS_Interval DEF Positive
  <2>2. IsFiniteSet({e}) /\ Cardinality({e}) = 1
    BY FS_Singleton
  <2>3. IsFiniteSet(B) /\ Cardinality(B) = 1 * Positive(f[e])
    <3>1. PICK C, D : C = {e} /\ D = 1..f[e]
      OBVIOUS
    <3>2. IsFiniteSet(C \X D) /\ Cardinality(C \X D) = Cardinality(C) * Cardinality(D)
      BY <2>1, <2>2, <3>1, FS_Product
    <3> QED BY <1>1, <2>1, <2>2, <3>1, <3>2
  <2>4. 1 * Positive(f[e]) = Positive(f[e])
    BY <1>3 DEF Positive
  <2> QED BY <2>3, <2>4
<1>5. IsFiniteSet(A) /\ Cardinality(A) \in Nat
  BY <1>1, TotalType DEF Total
<1>6. Cardinality(A \cup B) = Cardinality(A) + Cardinality(B) - Cardinality(A \cap B)
  BY <1>4, <1>5, FS_Union
<1>7. Cardinality(A \cap B) = 0
  BY <1>2, FS_EmptySet
<1>8. Positive(f[e]) \in Nat
  BY <1>3 DEF Positive
<1>9. Cardinality(A \cup B) = Cardinality(A) + Positive(f[e])
  BY <1>4, <1>5, <1>6, <1>7, <1>8
<1> QED BY <1>1, <1>2, <1>9 DEF Total

LEMMA TotalSame ==
  ASSUME NEW f, NEW g, NEW E, \A e \in E : f[e] = g[e]
  PROVE  Total(f, E) = Total(g, E)
<1>1. TicksOf(f, E) = TicksOf(g, E)
  BY DEF TicksOf
<1> QED BY <1>1 DEF Total

LEMMA TotalMonotone ==
  ASSUME NEW M \in Nat, NEW f \in Times(M), NEW E \in SUBSET Entry, NEW D \in SUBSET E
  PROVE  Total(f, D) <= Total(f, E)
<1>1. TicksOf(f, D) \subseteq TicksOf(f, E)
  BY DEF TicksOf
<1>2. IsFiniteSet(TicksOf(f, E))
  BY TotalType
<1>3. Cardinality(TicksOf(f, D)) <= Cardinality(TicksOf(f, E))
  BY <1>1, <1>2, FS_Subset
<1> QED BY <1>3 DEF Total

LEMMA TotalZero ==
  ASSUME NEW M \in Nat, NEW f \in Times(M), NEW E \in SUBSET Entry
  PROVE  Total(f, E) = 0 <=> \A e \in E : f[e] <= 0
<1>1. Total(f, E) = 0 <=> TicksOf(f, E) = {}
  BY TotalType, FS_EmptySet DEF Total
<1>2. \A e \in E : f[e] \in Int
  BY DEF Times
<1>3. TicksOf(f, E) = {} <=> \A e \in E : 1..f[e] = {}
  <2>1. ASSUME NEW e \in E, NEW t \in 1..f[e] PROVE TicksOf(f, E) # {}
    <3>1. <<e, t>> \in {e} \X (1..f[e])
      OBVIOUS
    <3> QED BY <3>1 DEF TicksOf
  <2>2. ASSUME \A e \in E : 1..f[e] = {}, NEW x \in TicksOf(f, E) PROVE FALSE
    <3>1. PICK e \in E : x \in {e} \X (1..f[e])
      BY DEF TicksOf
    <3> QED BY <2>2, <3>1
  <2> QED BY <2>1, <2>2
<1>4. \A e \in E : 1..f[e] = {} <=> f[e] <= 0
  <2> TAKE e \in E
  <2>1. f[e] > 0 => 1 \in 1..f[e]
    BY <1>2
  <2>2. f[e] <= 0 => \A x \in 1..f[e] : FALSE
    BY <1>2
  <2> QED BY <1>2, <2>1, <2>2
<1> QED BY <1>1, <1>3, <1>4

-----------------------------------------------------------------------------
(* The same along a queue q.                                               *)

Queue == {q \in Seq(Entry) : IsInjective(q)}
First(q, i) == {q[j] : j \in 1..i}
Sum(f, q, i) == Total(f, First(q, i))
LeftOf(f, q, i) == IF Sum(f, q, i) > 0 THEN Sum(f, q, i) ELSE f[q[i]]

(* An entry is never overdue by more than one before it.                   *)
Ordered(f, q) == \A i, j \in DOMAIN q : i < j /\ f[q[j]] < 0 => f[q[i]] <= f[q[j]]

LEMMA QueueIs ==
  ASSUME NEW q \in Queue
  PROVE  /\ Len(q) \in Nat /\ DOMAIN q = 1..Len(q)
         /\ \A i \in 1..Len(q) : q[i] \in Entry
         /\ \A i, j \in 1..Len(q) : q[i] = q[j] => i = j
BY DEF Queue, IsInjective

LEMMA SumIs ==
  ASSUME NEW M \in Nat, NEW f \in Times(M), NEW q \in Queue, NEW i \in 0..Len(q)
  PROVE  /\ First(q, i) \in SUBSET Entry /\ Sum(f, q, i) \in Nat
         /\ Sum(f, q, i) = 0 <=> \A j \in 1..i : f[q[j]] <= 0
         /\ i = 0 => Sum(f, q, i) = 0
<1>1. 1..i \subseteq 1..Len(q) /\ (i = 0 => 1..i = {})
  BY QueueIs
<1>2. First(q, i) \in SUBSET Entry
  BY <1>1, QueueIs DEF First
<1>3. Sum(f, q, i) \in Nat
  BY <1>2, TotalType DEF Sum
<1>4. Sum(f, q, i) = 0 <=> \A e \in First(q, i) : f[e] <= 0
  BY <1>2, TotalZero DEF Sum
<1>5. (\A e \in First(q, i) : f[e] <= 0) <=> \A j \in 1..i : f[q[j]] <= 0
  BY DEF First
<1>6. i = 0 => First(q, i) = {}
  BY <1>1 DEF First
<1> QED BY <1>2, <1>3, <1>4, <1>5, <1>6, TotalEmpty DEF Sum

LEMMA SumAdds ==
  ASSUME NEW M \in Nat, NEW f \in Times(M), NEW q \in Queue, NEW i \in 1..Len(q)
  PROVE  /\ First(q, i) = First(q, i - 1) \cup {q[i]} /\ q[i] \notin First(q, i - 1)
         /\ Sum(f, q, i) = Sum(f, q, i - 1) + Positive(f[q[i]])
<1>0. i - 1 \in 0..Len(q) /\ 1..i = (1..i - 1) \cup {i} /\ 1..i \subseteq 1..Len(q)
  BY QueueIs
<1>1. First(q, i) = First(q, i - 1) \cup {q[i]}
  BY <1>0 DEF First
<1>2. q[i] \notin First(q, i - 1)
  <2>1. ASSUME NEW j \in 1..i - 1 PROVE q[j] # q[i]
    BY <1>0, QueueIs
  <2> QED BY <2>1 DEF First
<1>3. First(q, i - 1) \in SUBSET Entry
  BY <1>0, SumIs
<1>4. q[i] \in Entry
  BY QueueIs
<1>5. Total(f, First(q, i - 1) \cup {q[i]}) = Total(f, First(q, i - 1)) + Positive(f[q[i]])
  BY <1>2, <1>3, <1>4, TotalAdds
<1> QED BY <1>1, <1>2, <1>5 DEF Sum

LEMMA SumMonotone ==
  ASSUME NEW M \in Nat, NEW f \in Times(M), NEW q \in Queue, NEW j \in 0..Len(q), NEW i \in 0..j
  PROVE  Sum(f, q, i) <= Sum(f, q, j)
<1>1. Len(q) \in Nat
  BY QueueIs
<1>2. 1..i \subseteq 1..j
  BY <1>1
<1>3. First(q, i) \in SUBSET First(q, j)
  BY <1>2 DEF First
<1>4. First(q, j) \in SUBSET Entry
  BY SumIs
<1> QED BY <1>3, <1>4, TotalMonotone DEF Sum

(* Timers further down the queue have no fewer ticks left.                 *)
LEMMA LeftMonotone ==
  ASSUME NEW M \in Nat, NEW f \in Times(M), NEW q \in Queue, Ordered(f, q),
         NEW j \in 1..Len(q), NEW i \in 1..j
  PROVE  LeftOf(f, q, i) <= LeftOf(f, q, j)
<1>1. /\ Len(q) \in Nat /\ DOMAIN q = 1..Len(q) /\ i \in 1..Len(q) /\ i \in 0..j
      /\ i \in 0..Len(q) /\ j \in 0..Len(q) /\ i \in Int /\ j \in Int /\ i <= j
  BY QueueIs
<1>2. Sum(f, q, i) \in Nat /\ Sum(f, q, j) \in Nat /\ Sum(f, q, i) <= Sum(f, q, j)
  BY <1>1, SumIs, SumMonotone
<1>3. f[q[i]] \in Int /\ f[q[j]] \in Int
  BY <1>1, QueueIs DEF Times
<1>4. Sum(f, q, i) = 0 => f[q[i]] <= 0
  <2>1. i \in 1..i
    BY <1>1
  <2> QED BY <1>1, <2>1, SumIs
<1>5. f[q[j]] < 0 => f[q[i]] <= f[q[j]]
  <2>1. CASE i = j
    BY <1>3, <2>1
  <2>2. CASE i < j
    BY <1>1, <2>2 DEF Ordered
  <2> QED BY <1>1, <2>1, <2>2
<1> QED BY <1>2, <1>3, <1>4, <1>5 DEF LeftOf

-----------------------------------------------------------------------------
(* hardclock(): every timer has one tick less left.                        *)

(* CountedDown of a queue q with times f.                                  *)
Counted(f, q) == {q[i] : i \in {j \in DOMAIN q : \A h \in 1..(j - 1) : f[q[h]] <= 0}}

LEMMA TickIs ==
  ASSUME NEW M \in Nat, NEW f \in Times(M), NEW q \in Queue, NEW g,
         \A e \in Entry : g[e] = IF e \in Counted(f, q) THEN f[e] - 1 ELSE f[e],
         NEW i \in 1..Len(q)
  PROVE  g[q[i]] = IF \A h \in 1..(i - 1) : f[q[h]] <= 0 THEN f[q[i]] - 1 ELSE f[q[i]]
<1>1. q[i] \in Counted(f, q) <=> \A h \in 1..(i - 1) : f[q[h]] <= 0
  BY QueueIs DEF Counted
<1> QED BY <1>1, QueueIs

LEMMA TickSum ==
  ASSUME NEW M \in Nat, NEW f \in Times(M), NEW q \in Queue, NEW g \in Times(M),
         \A e \in Entry : g[e] = IF e \in Counted(f, q) THEN f[e] - 1 ELSE f[e],
         NEW i \in 0..Len(q)
  PROVE  Sum(g, q, i) = IF Sum(f, q, i) > 0 THEN Sum(f, q, i) - 1 ELSE 0
<1>0. Len(q) \in Nat /\ 1..i \subseteq 1..Len(q) /\ \A j \in 1..Len(q) : q[j] \in Entry /\ f[q[j]] \in Int
  BY QueueIs DEF Times
<1>1. Sum(f, q, i) \in Nat /\ (Sum(f, q, i) = 0 <=> \A j \in 1..i : f[q[j]] <= 0)
  BY SumIs
<1>2. CASE Sum(f, q, i) = 0
  <2>1. \A j \in 1..i : g[q[j]] <= 0
    BY <1>0, <1>1, <1>2
  <2>2. Sum(g, q, i) = 0
    BY <2>1, SumIs
  <2> QED BY <1>2, <2>2
<1>3. CASE Sum(f, q, i) # 0
  <2>1. PICK m \in 1..i : f[q[m]] > 0 /\ \A h \in 1..(m - 1) : f[q[h]] <= 0
    <3> DEFINE K == {j \in 1..i : f[q[j]] > 0}
    <3>1. K # {} /\ K \in SUBSET (1..i)
      BY <1>0, <1>1, <1>3
    <3>2. PICK m \in K : \A k \in K : m <= k
      <4>1. i \in Nat
        BY <1>0
      <4> HIDE DEF K
      <4> QED BY <3>1, <4>1, LeastExists
    <3>3. ASSUME NEW h \in 1..(m - 1) PROVE f[q[h]] <= 0
      <4>1. h \in 1..i /\ h < m /\ h \in Int /\ m \in Int
        BY <1>0
      <4>2. h \notin K
        BY <3>2, <4>1
      <4> QED BY <1>0, <4>1, <4>2
    <3> QED BY <3>2, <3>3
  <2>2. ASSUME NEW j \in 1..i PROVE g[q[j]] = IF j <= m THEN f[q[j]] - 1 ELSE f[q[j]]
    <3>1. j \in 1..Len(q) /\ m \in 1..Len(q) /\ j \in Int /\ m \in Int
      BY <1>0
    <3>2. j <= m => \A h \in 1..(j - 1) : f[q[h]] <= 0
      BY <2>1, <3>1
    <3>3. j > m => m \in 1..(j - 1)
      BY <3>1
    <3>4. ~(f[q[m]] <= 0)
      BY <1>0, <2>1, <3>1
    <3> QED BY <3>1, <3>2, <3>3, <3>4, TickIs
  <2>p. PICK x : x = <<q[m], f[q[m]]>>
    OBVIOUS
  <2>3. x \in TicksOf(f, First(q, i))
    <3>1. f[q[m]] \in 1..f[q[m]]
      BY <1>0, <2>1
    <3> QED BY <2>p, <3>1 DEF TicksOf, First
  <2>4. TicksOf(g, First(q, i)) = TicksOf(f, First(q, i)) \ {x}
    <3>1. ASSUME NEW j \in 1..i
          PROVE  {q[j]} \X (1..g[q[j]]) = ({q[j]} \X (1..f[q[j]])) \ {x}
      <4>0. j \in 1..Len(q) /\ m \in 1..Len(q) /\ f[q[j]] \in Int /\ j \in Int /\ m \in Int
        BY <1>0
      <4>1. CASE j = m
        <5>1. 1..(f[q[m]] - 1) = (1..f[q[m]]) \ {f[q[m]]}
          BY <4>0, <4>1
        <5>2. g[q[j]] = f[q[m]] - 1
          BY <2>2, <4>0, <4>1
        <5>3. {q[m]} \X ((1..f[q[m]]) \ {f[q[m]]}) = ({q[m]} \X (1..f[q[m]])) \ {x}
          BY <2>p
        <5> QED BY <4>1, <5>1, <5>2, <5>3
      <4>2. CASE j < m
        <5>1. f[q[j]] <= 0
          <6>1. j \in 1..(m - 1)
            BY <4>0, <4>2
          <6> QED BY <2>1, <6>1
        <5>2. g[q[j]] <= 0
          BY <2>2, <4>0, <4>2, <5>1
        <5>3. 1..f[q[j]] = {} /\ 1..g[q[j]] = {}
          BY <4>0, <5>1, <5>2, <2>2
        <5> QED BY <5>3
      <4>3. CASE j > m
        <5>1. g[q[j]] = f[q[j]]
          BY <2>2, <4>0, <4>3
        <5>2. q[j] # q[m]
          BY <4>0, <4>3, QueueIs
        <5> QED BY <2>p, <5>1, <5>2
      <4> QED BY <4>0, <4>1, <4>2, <4>3
    <3>2. \A y : y \in TicksOf(g, First(q, i)) <=> \E j \in 1..i : y \in {q[j]} \X (1..g[q[j]])
      BY DEF TicksOf, First
    <3>3. \A y : y \in TicksOf(f, First(q, i)) <=> \E j \in 1..i : y \in {q[j]} \X (1..f[q[j]])
      BY DEF TicksOf, First
    <3> QED BY <3>1, <3>2, <3>3
  <2>5. IsFiniteSet(TicksOf(f, First(q, i)))
    BY SumIs, TotalType
  <2>6. Cardinality(TicksOf(f, First(q, i)) \ {x}) = Cardinality(TicksOf(f, First(q, i))) - 1
    BY <2>3, <2>5, FS_RemoveElement
  <2> QED BY <1>1, <1>3, <2>4, <2>6 DEF Sum, Total
<1> QED BY <1>2, <1>3

LEMMA TickKeeps ==
  ASSUME NEW M \in Nat, NEW f \in Times(M), NEW q \in Queue, NEW g \in Times(M), Ordered(f, q),
         \A e \in Entry : g[e] = IF e \in Counted(f, q) THEN f[e] - 1 ELSE f[e]
  PROVE  /\ Ordered(g, q)
         /\ \A i \in 1..Len(q) : LeftOf(g, q, i) = LeftOf(f, q, i) - 1
<1>0. /\ Len(q) \in Nat /\ DOMAIN q = 1..Len(q)
      /\ \A j \in 1..Len(q) : q[j] \in Entry /\ f[q[j]] \in Int /\ g[q[j]] \in Int
  BY QueueIs DEF Times
<1>1. Ordered(g, q)
  <2> SUFFICES ASSUME NEW i \in 1..Len(q), NEW j \in 1..Len(q), i < j, g[q[j]] < 0
        PROVE  g[q[i]] <= g[q[j]]
    BY <1>0 DEF Ordered
  <2>0. i \in 1..(j - 1) /\ 1..(i - 1) \subseteq 1..(j - 1)
    BY <1>0
  <2>1. /\ g[q[i]] = IF \A h \in 1..(i - 1) : f[q[h]] <= 0 THEN f[q[i]] - 1 ELSE f[q[i]]
        /\ g[q[j]] = IF \A h \in 1..(j - 1) : f[q[h]] <= 0 THEN f[q[j]] - 1 ELSE f[q[j]]
    <3>1. g[q[i]] = IF \A h \in 1..(i - 1) : f[q[h]] <= 0 THEN f[q[i]] - 1 ELSE f[q[i]]
      BY TickIs
    <3>2. g[q[j]] = IF \A h \in 1..(j - 1) : f[q[h]] <= 0 THEN f[q[j]] - 1 ELSE f[q[j]]
      BY TickIs
    <3> QED BY <3>1, <3>2
  <2>2. ASSUME f[q[j]] < 0, NEW h \in 1..(j - 1) PROVE f[q[h]] <= f[q[j]]
    <3>1. h \in 1..Len(q) /\ h < j
      BY <1>0
    <3> QED BY <1>0, <2>2, <3>1 DEF Ordered
  <2>3. CASE \A h \in 1..(j - 1) : f[q[h]] <= 0
    <3>1. f[q[i]] <= 0 /\ g[q[i]] = f[q[i]] - 1 /\ g[q[j]] = f[q[j]] - 1
      BY <2>0, <2>1, <2>3
    <3>2. f[q[j]] < 0 => f[q[i]] <= f[q[j]]
      BY <2>0, <2>2
    <3> QED BY <1>0, <3>1, <3>2
  <2>4. CASE ~ \A h \in 1..(j - 1) : f[q[h]] <= 0
    <3>1. f[q[j]] < 0
      BY <2>1, <2>4
    <3>2. \A h \in 1..(j - 1) : f[q[h]] <= 0
      BY <1>0, <2>2, <3>1
    <3> QED BY <2>4, <3>2
  <2> QED BY <2>3, <2>4
<1>2. ASSUME NEW i \in 1..Len(q) PROVE LeftOf(g, q, i) = LeftOf(f, q, i) - 1
  <2>0. i \in 0..Len(q) /\ i \in 1..i /\ 1..(i - 1) \subseteq 1..i /\ 1..i \subseteq 1..Len(q) /\ i \in Int
    BY <1>0
  <2>1. Sum(g, q, i) = IF Sum(f, q, i) > 0 THEN Sum(f, q, i) - 1 ELSE 0
    BY <2>0, TickSum
  <2>2. /\ Sum(f, q, i) \in Nat /\ (Sum(f, q, i) = 0 <=> \A j \in 1..i : f[q[j]] <= 0)
        /\ Sum(g, q, i) \in Nat /\ (Sum(g, q, i) = 0 <=> \A j \in 1..i : g[q[j]] <= 0)
    BY <2>0, SumIs
  <2>3. g[q[i]] = IF \A h \in 1..(i - 1) : f[q[h]] <= 0 THEN f[q[i]] - 1 ELSE f[q[i]]
    BY TickIs
  <2>4. CASE Sum(f, q, i) = 0
    <3>1. g[q[i]] = f[q[i]] - 1
      BY <2>0, <2>2, <2>3, <2>4
    <3> QED BY <2>1, <2>4, <3>1 DEF LeftOf
  <2>5. CASE Sum(f, q, i) > 1
    BY <2>1, <2>2, <2>5 DEF LeftOf
  <2>6. CASE Sum(f, q, i) = 1
    <3>1. Sum(g, q, i) = 0 /\ \A j \in 1..i : g[q[j]] <= 0
      BY <2>1, <2>2, <2>6
    <3>2. g[q[i]] = 0
      <4>1. CASE \A h \in 1..(i - 1) : f[q[h]] <= 0
        <5>1. f[q[i]] > 0
          <6> SUFFICES ASSUME f[q[i]] <= 0 PROVE FALSE
            BY <1>0
          <6>1. \A j \in 1..i : f[q[j]] <= 0
            <7> TAKE j \in 1..i
            <7>1. j = i \/ j \in 1..(i - 1)
              BY <2>0
            <7> QED BY <4>1, <7>1
          <6> QED BY <2>2, <2>6, <6>1
        <5> QED BY <1>0, <2>0, <2>3, <3>1, <4>1, <5>1
      <4>2. CASE ~ \A h \in 1..(i - 1) : f[q[h]] <= 0
        <5>1. PICK h \in 1..(i - 1) : ~(f[q[h]] <= 0)
          BY <4>2
        <5>2. h \in 1..Len(q) /\ h < i
          BY <1>0, <2>0
        <5>3. ~(f[q[i]] < 0)
          BY <1>0, <5>1, <5>2 DEF Ordered
        <5>4. g[q[i]] = f[q[i]] /\ g[q[i]] <= 0
          BY <2>0, <2>3, <3>1, <4>2
        <5> QED BY <1>0, <5>3, <5>4
      <4> QED BY <4>1, <4>2
    <3> QED BY <2>6, <3>1, <3>2 DEF LeftOf
  <2> QED BY <2>2, <2>4, <2>5, <2>6
<1> QED BY <1>1, <1>2

-----------------------------------------------------------------------------
(* timeout(): one more timer, the others as they were.                     *)

LEMMA InsertAtIs ==
  ASSUME NEW q \in Queue, NEW i \in 1..(Len(q) + 1), NEW e \in Entry, e \notin ToSet(q)
  PROVE  /\ InsertAt(q, i, e) \in Queue /\ Len(InsertAt(q, i, e)) = Len(q) + 1
         /\ \A j \in 1..(Len(q) + 1) :
              InsertAt(q, i, e)[j] = IF j < i THEN q[j] ELSE IF j = i THEN e ELSE q[j - 1]
         /\ ToSet(InsertAt(q, i, e)) = ToSet(q) \cup {e}
<1>t. PICK t : t = InsertAt(q, i, e)
  OBVIOUS
<1>n. PICK n : n = Len(q)
  OBVIOUS
<1>0. n \in Nat /\ DOMAIN q = 1..n /\ q \in Seq(Entry) /\ i \in 1..(n + 1) /\ i \in Int
      /\ \A j \in 1..n : q[j] \in Entry /\ \A k \in 1..n : q[j] = q[k] => j = k
  BY <1>n, QueueIs DEF Queue
<1>p. PICK a, b : a = SubSeq(q, 1, i - 1) /\ b = SubSeq(q, i, n)
  OBVIOUS
<1>a. a \in Seq(Entry) /\ Len(a) = i - 1 /\ \A j \in 1..(i - 1) : a[j] = q[j]
  <2>1. i - 1 \in Int /\ \A j \in 1..(i - 1) : q[j] \in Entry
    BY <1>0
  <2>2. /\ SubSeq(q, 1, i - 1) \in Seq(Entry)
        /\ Len(SubSeq(q, 1, i - 1)) = IF 1 <= i - 1 THEN (i - 1) - 1 + 1 ELSE 0
        /\ \A j \in 1..((i - 1) - 1 + 1) : SubSeq(q, 1, i - 1)[j] = q[1 + j - 1]
    BY <2>1, SubSeqProperties
  <2> QED BY <1>0, <1>p, <2>2
<1>b. b \in Seq(Entry) /\ Len(b) = n - i + 1 /\ \A j \in 1..(n - i + 1) : b[j] = q[i + j - 1]
  <2>1. n \in Int /\ \A j \in i..n : q[j] \in Entry
    BY <1>0
  <2>2. /\ SubSeq(q, i, n) \in Seq(Entry)
        /\ Len(SubSeq(q, i, n)) = IF i <= n THEN n - i + 1 ELSE 0
        /\ \A j \in 1..(n - i + 1) : SubSeq(q, i, n)[j] = q[i + j - 1]
    BY <1>0, <2>1, SubSeqProperties
  <2> QED BY <1>0, <1>p, <2>2
<1>c. PICK c : c = a \o <<e>>
  OBVIOUS
<1>d. c \in Seq(Entry) /\ Len(c) = i /\ \A j \in 1..i : c[j] = IF j < i THEN q[j] ELSE e
  <2>u. PICK u : u = <<e>>
    OBVIOUS
  <2>1. u \in Seq(Entry) /\ Len(u) = 1 /\ u[1] = e
    BY <2>u
  <2>2. /\ c \in Seq(Entry) /\ Len(c) = (i - 1) + 1
        /\ \A j \in 1..((i - 1) + 1) : c[j] = IF j <= i - 1 THEN a[j] ELSE u[j - (i - 1)]
    BY <1>a, <1>c, <2>u, <2>1, ConcatProperties
  <2>3. ASSUME NEW j \in 1..i PROVE c[j] = IF j < i THEN q[j] ELSE e
    <3>1. CASE j < i
      BY <1>0, <1>a, <2>2, <3>1
    <3>2. CASE j = i
      <4>1. j - (i - 1) = 1 /\ ~(j <= i - 1) /\ j \in 1..((i - 1) + 1)
        BY <1>0, <3>2
      <4> QED BY <2>1, <2>2, <3>2, <4>1
    <3> QED BY <1>0, <3>1, <3>2
  <2> QED BY <1>0, <2>2, <2>3
<1>e. t = c \o b
  BY <1>c, <1>n, <1>p, <1>t DEF InsertAt
<1>f. /\ t \in Seq(Entry) /\ Len(t) = Len(c) + Len(b)
      /\ \A j \in 1..(Len(c) + Len(b)) : t[j] = IF j <= Len(c) THEN c[j] ELSE b[j - Len(c)]
  BY <1>b, <1>d, <1>e, ConcatProperties
<1>1. t \in Seq(Entry) /\ Len(t) = n + 1
  BY <1>0, <1>b, <1>d, <1>f
<1>2. ASSUME NEW j \in 1..(n + 1)
      PROVE  t[j] = IF j < i THEN q[j] ELSE IF j = i THEN e ELSE q[j - 1]
  <2>1. t[j] = IF j <= i THEN c[j] ELSE b[j - i]
    BY <1>0, <1>b, <1>d, <1>f
  <2>2. j > i => j - i \in 1..(n - i + 1) /\ i + (j - i) - 1 = j - 1
    BY <1>0
  <2>3. j > i => b[j - i] = q[j - 1]
    BY <1>b, <2>2
  <2> QED BY <1>0, <1>d, <2>1, <2>3
<1>3. DOMAIN t = 1..(n + 1)
  BY <1>1
<1>4. \A j \in 1..n : q[j] # e
  BY <1>0 DEF ToSet
<1>5. ASSUME NEW j \in 1..(n + 1), NEW k \in 1..(n + 1), t[j] = t[k] PROVE j = k
  <2>1. j \in Int /\ k \in Int
    OBVIOUS
  <2>2. CASE j = i \/ k = i
    BY <1>0, <1>2, <1>4, <1>5, <2>1, <2>2
  <2>3. CASE j # i /\ k # i
    <3>1. PICK h \in 1..n : t[j] = q[h] /\ h = (IF j < i THEN j ELSE j - 1)
      BY <1>0, <1>2, <2>1, <2>3
    <3>2. PICK m \in 1..n : t[k] = q[m] /\ m = (IF k < i THEN k ELSE k - 1)
      BY <1>0, <1>2, <2>1, <2>3
    <3>3. h = m
      BY <1>0, <1>5, <3>1, <3>2
    <3> QED BY <1>0, <2>1, <2>3, <3>1, <3>2, <3>3
  <2> QED BY <2>2, <2>3
<1>6. t \in Queue
  BY <1>1, <1>3, <1>5 DEF Queue, IsInjective
<1>7. ToSet(t) = ToSet(q) \cup {e}
  <2>1. ASSUME NEW j \in 1..(n + 1) PROVE t[j] \in ToSet(q) \cup {e}
    BY <1>0, <1>2 DEF ToSet
  <2>2. ASSUME NEW j \in 1..n PROVE q[j] \in ToSet(t)
    <3>1. j < i => j \in 1..(n + 1) /\ t[j] = q[j]
      BY <1>0, <1>2
    <3>2. ~(j < i) => j + 1 \in 1..(n + 1) /\ t[j + 1] = q[j]
      BY <1>0, <1>2
    <3> QED BY <1>3, <3>1, <3>2 DEF ToSet
  <2>3. e \in ToSet(t)
    BY <1>0, <1>2, <1>3 DEF ToSet
  <2> QED BY <1>0, <1>3, <2>1, <2>2, <2>3 DEF ToSet
<1> QED BY <1>1, <1>2, <1>6, <1>7, <1>n, <1>t

(* d ticks are taken from the entry after the new one, which has as many.  *)
LEMMA InsertSums ==
  ASSUME NEW M \in Nat, NEW f \in Times(M), NEW q \in Queue, NEW g \in Times(M),
         NEW e \in Entry, e \notin ToSet(q), NEW i \in 1..(Len(q) + 1), NEW d \in Nat,
         i <= Len(q) => d <= f[q[i]],
         \A y \in Entry : g[y] = IF y = e THEN d
                                 ELSE IF i <= Len(q) /\ y = q[i] THEN f[y] - d ELSE f[y]
  PROVE  /\ \A j \in 0..(i - 1) : Sum(g, InsertAt(q, i, e), j) = Sum(f, q, j)
         /\ Sum(g, InsertAt(q, i, e), i) = Sum(f, q, i - 1) + d
         /\ \A j \in i..Len(q) : Sum(g, InsertAt(q, i, e), j + 1) = Sum(f, q, j)
<1>t. PICK t : t = InsertAt(q, i, e)
  OBVIOUS
<1>n. PICK n : n = Len(q)
  OBVIOUS
<1>0. /\ n \in Nat /\ DOMAIN q = 1..n /\ i \in 1..(n + 1) /\ i \in Int
      /\ \A j \in 1..n : q[j] \in Entry /\ q[j] # e /\ f[q[j]] \in Int
      /\ \A j, k \in 1..n : q[j] = q[k] => j = k
  BY <1>n, QueueIs DEF ToSet, Times
<1>1. /\ t \in Queue /\ Len(t) = n + 1
      /\ \A j \in 1..(n + 1) : t[j] = IF j < i THEN q[j] ELSE IF j = i THEN e ELSE q[j - 1]
  BY <1>n, <1>t, InsertAtIs
<1>2. ASSUME NEW j \in 0..(i - 1) PROVE Sum(g, t, j) = Sum(f, q, j)
  <2>1. ASSUME NEW h \in 1..j PROVE h \in 1..n /\ t[h] = q[h] /\ g[q[h]] = f[q[h]]
    <3>1. h \in 1..n /\ h \in 1..(n + 1) /\ h < i
      BY <1>0
    <3>2. i <= n => i \in 1..n /\ q[h] # q[i]
      BY <1>0, <3>1
    <3>3. g[q[h]] = f[q[h]]
      BY <1>0, <1>n, <3>1, <3>2
    <3> QED BY <1>1, <3>1, <3>3
  <2>2. First(t, j) = First(q, j) /\ \A y \in First(q, j) : g[y] = f[y]
    BY <2>1 DEF First
  <2> QED BY <2>2, TotalSame DEF Sum
<1>3. Sum(g, t, i) = Sum(f, q, i - 1) + d
  <2>1. Sum(g, t, i) = Sum(g, t, i - 1) + Positive(g[t[i]])
    <3>1. t \in Queue /\ i \in 1..Len(t)
      BY <1>0, <1>1
    <3> QED BY ONLY M \in Nat, g \in Times(M), <3>1, SumAdds
  <2>2. t[i] = e /\ g[e] = d /\ Positive(d) = d
    BY <1>0, <1>1 DEF Positive
  <2>3. i - 1 \in 0..(i - 1)
    BY <1>0
  <2> QED BY <1>2, <2>1, <2>2, <2>3
<1>4. ASSUME NEW j \in i..n PROVE Sum(g, t, j + 1) = Sum(f, q, j)
  <2>0. j \in 1..n /\ i \in 1..n /\ i \in 1..j /\ j \in 0..n /\ j + 1 \in 0..(n + 1)
    BY <1>0
  <2>x. PICK x : x = q[i]
    OBVIOUS
  <2>R. PICK R : R = First(q, j) \ {x}
    OBVIOUS
  <2>1. x \in First(q, j) /\ First(q, j) \in SUBSET Entry /\ e \notin First(q, j) /\ x # e
    BY <1>0, <1>n, <2>0, <2>x, SumIs DEF First
  <2>2. First(t, j + 1) = First(q, j) \cup {e}
    <3>1. ASSUME NEW h \in 1..(j + 1) PROVE t[h] \in First(q, j) \cup {e}
      <4>1. CASE h < i
        <5>1. h \in 1..j /\ h \in 1..(n + 1) /\ t[h] = q[h]
          BY <1>0, <1>1, <2>0, <4>1
        <5> QED BY <5>1 DEF First
      <4>2. CASE h = i
        BY <1>0, <1>1, <4>2
      <4>3. CASE h > i
        <5>1. h - 1 \in 1..j /\ h \in 1..(n + 1) /\ t[h] = q[h - 1]
          BY <1>0, <1>1, <2>0, <4>3
        <5> QED BY <5>1 DEF First
      <4> QED BY <1>0, <4>1, <4>2, <4>3
    <3>2. ASSUME NEW h \in 1..j PROVE q[h] \in First(t, j + 1)
      <4>1. CASE h < i
        <5>1. h \in 1..(j + 1) /\ h \in 1..(n + 1) /\ t[h] = q[h]
          BY <1>0, <1>1, <2>0, <4>1
        <5> QED BY <5>1 DEF First
      <4>2. CASE h >= i
        <5>1. h + 1 \in 1..(j + 1) /\ h + 1 \in 1..(n + 1) /\ t[h + 1] = q[h]
          BY <1>0, <1>1, <2>0, <4>2
        <5> QED BY <5>1 DEF First
      <4> QED BY <1>0, <2>0, <4>1, <4>2
    <3>3. e \in First(t, j + 1)
      <4>1. i \in 1..(j + 1) /\ t[i] = e
        BY <1>0, <1>1, <2>0
      <4> QED BY <4>1 DEF First
    <3> QED BY <3>1, <3>2, <3>3 DEF First
  <2>3. /\ R \in SUBSET Entry /\ x \in Entry \ R /\ e \in Entry \ (R \cup {x}) /\ R \cup {x} \in SUBSET Entry
        /\ First(q, j) = R \cup {x} /\ First(t, j + 1) = (R \cup {x}) \cup {e}
    BY <2>1, <2>2, <2>R
  <2>4. Total(f, R \cup {x}) = Total(f, R) + Positive(f[x])
    BY <2>3, TotalAdds
  <2>5. Total(g, R \cup {x}) = Total(g, R) + Positive(g[x])
    BY <2>3, TotalAdds
  <2>6. Total(g, (R \cup {x}) \cup {e}) = Total(g, R \cup {x}) + Positive(g[e])
    BY <2>3, TotalAdds
  <2>7. Total(g, R) = Total(f, R)
    <3>1. \A y \in R : y \in Entry /\ y # e /\ y # x
      BY <2>3
    <3>2. \A y \in R : g[y] = f[y]
      BY <2>x, <3>1
    <3> QED BY <3>2, TotalSame
  <2>8. g[x] = f[x] - d /\ g[e] = d /\ d <= f[x] /\ f[x] \in Int
    BY <1>0, <1>n, <2>0, <2>1, <2>x
  <2>9. Positive(f[x]) = Positive(g[x]) + Positive(g[e]) /\ Positive(g[x]) \in Nat /\ Positive(g[e]) \in Nat
    BY <2>8 DEF Positive
  <2>10. Total(f, R) \in Nat
    BY <2>3, TotalType
  <2>11. Total(g, (R \cup {x}) \cup {e}) = Total(f, R \cup {x})
    BY <2>4, <2>5, <2>6, <2>7, <2>9, <2>10
  <2> QED BY <2>3, <2>11 DEF Sum
<1> QED BY <1>2, <1>3, <1>4, <1>n, <1>t

LEMMA InsertKeeps ==
  ASSUME NEW M \in Nat, NEW f \in Times(M), NEW q \in Queue, NEW g \in Times(M), Ordered(f, q),
         NEW e \in Entry, e \notin ToSet(q), NEW i \in 1..(Len(q) + 1), NEW d \in Nat \ {0},
         i <= Len(q) => d <= f[q[i]],
         \A y \in Entry : g[y] = IF y = e THEN d
                                 ELSE IF i <= Len(q) /\ y = q[i] THEN f[y] - d ELSE f[y]
  PROVE  /\ Ordered(g, InsertAt(q, i, e))
         /\ LeftOf(g, InsertAt(q, i, e), i) = Sum(f, q, i - 1) + d
         /\ \A j \in 1..(i - 1) : LeftOf(g, InsertAt(q, i, e), j) = LeftOf(f, q, j)
         /\ \A j \in i..Len(q) : LeftOf(g, InsertAt(q, i, e), j + 1) = LeftOf(f, q, j)
<1>t. PICK t : t = InsertAt(q, i, e)
  OBVIOUS
<1>n. PICK n : n = Len(q)
  OBVIOUS
<1>0. /\ n \in Nat /\ DOMAIN q = 1..n /\ i \in 1..(n + 1) /\ i \in Int
      /\ \A j \in 1..n : q[j] \in Entry /\ q[j] # e /\ f[q[j]] \in Int
      /\ \A j, k \in 1..n : q[j] = q[k] => j = k
  BY <1>n, QueueIs DEF ToSet, Times
<1>1. /\ t \in Queue /\ Len(t) = n + 1 /\ DOMAIN t = 1..(n + 1)
      /\ \A j \in 1..(n + 1) : t[j] = IF j < i THEN q[j] ELSE IF j = i THEN e ELSE q[j - 1]
  BY <1>n, <1>t, InsertAtIs, QueueIs
<1>2. /\ \A j \in 0..(i - 1) : Sum(g, t, j) = Sum(f, q, j)
      /\ Sum(g, t, i) = Sum(f, q, i - 1) + d
      /\ \A j \in i..n : Sum(g, t, j + 1) = Sum(f, q, j)
  <2>1. d \in Nat
    OBVIOUS
  <2>2. /\ \A j \in 0..(i - 1) : Sum(g, InsertAt(q, i, e), j) = Sum(f, q, j)
        /\ Sum(g, InsertAt(q, i, e), i) = Sum(f, q, i - 1) + d
        /\ \A j \in i..Len(q) : Sum(g, InsertAt(q, i, e), j + 1) = Sum(f, q, j)
    BY <2>1, InsertSums
  <2> QED BY <1>n, <1>t, <2>2
<1>3. \A j \in 1..n : g[q[j]] = IF j = i THEN f[q[j]] - d ELSE f[q[j]]
  BY <1>0, <1>n
<1>4. g[e] = d /\ d > 0
  OBVIOUS
<1>5. i \in 1..n => 0 <= g[q[i]] /\ 0 < f[q[i]]
  BY <1>0, <1>3, <1>n, <1>4
<1>6. Ordered(g, t)
  <2> SUFFICES ASSUME NEW a \in 1..(n + 1), NEW b \in 1..(n + 1), a < b, g[t[b]] < 0
      PROVE  g[t[a]] <= g[t[b]]
    BY <1>1 DEF Ordered
  <2>0. a \in Int /\ b \in Int /\ b # i
    BY <1>0, <1>1, <1>4
  <2>b. PICK k \in 1..n : t[b] = q[k] /\ k = (IF b < i THEN b ELSE b - 1)
    BY <1>0, <1>1, <2>0
  <2>1. k # i /\ g[q[k]] = f[q[k]] /\ f[q[k]] < 0
    <3>1. g[q[k]] < 0 /\ g[q[k]] \in Int
      BY <1>0, <2>b DEF Times
    <3>2. k # i
      BY <1>5, <3>1
    <3> QED BY <1>3, <3>1, <3>2
  <2>2. i < b => FALSE
    <3> SUFFICES ASSUME i < b PROVE FALSE
      OBVIOUS
    <3>1. i \in 1..n /\ i < k
      BY <1>0, <2>0, <2>1, <2>b
    <3>2. f[q[i]] <= f[q[k]]
      BY <1>0, <2>1, <3>1 DEF Ordered
    <3> QED BY <1>0, <1>5, <2>1, <3>1, <3>2
  <2>3. a \in 1..n /\ a < k /\ a < i /\ t[a] = q[a]
    <3>1. a < i /\ a \in 1..n /\ a < k
      BY <1>0, <2>0, <2>2, <2>b
    <3> QED BY <1>1, <3>1
  <2>4. f[q[a]] <= f[q[k]]
    BY <1>0, <2>1, <2>3 DEF Ordered
  <2>5. g[q[a]] = f[q[a]]
    BY <1>0, <1>3, <2>3
  <2> QED BY <2>1, <2>3, <2>4, <2>5, <2>b
<1>7. LeftOf(g, t, i) = Sum(f, q, i - 1) + d
  <2>1. Sum(f, q, i - 1) \in Nat
    BY <1>0, <1>n, SumIs
  <2> QED BY <1>2, <1>4, <2>1 DEF LeftOf
<1>8. ASSUME NEW j \in 1..(i - 1) PROVE LeftOf(g, t, j) = LeftOf(f, q, j)
  <2>1. j \in 0..(i - 1) /\ j \in 1..n /\ j # i /\ t[j] = q[j]
    BY <1>0, <1>1
  <2> QED BY <1>2, <1>3, <2>1 DEF LeftOf
<1>9. ASSUME NEW j \in i..n PROVE LeftOf(g, t, j + 1) = LeftOf(f, q, j)
  <2>1. i \in 1..n /\ j \in 1..n /\ j \in 0..n /\ i \in 1..j
    BY <1>0
  <2>2. ~(f[q[i]] <= 0)
    BY <1>0, <1>5, <2>1
  <2>3. Sum(f, q, j) \in Nat /\ Sum(f, q, j) # 0
    BY <1>n, <2>1, <2>2, SumIs
  <2>4. Sum(f, q, j) > 0
    BY <2>3
  <2> QED BY <1>2, <2>4 DEF LeftOf
<1> QED BY <1>6, <1>7, <1>8, <1>9, <1>n, <1>t

-----------------------------------------------------------------------------
(* untimeout() and softclock(): one timer less, the others as they were.   *)

LEMMA RemoveAtIs ==
  ASSUME NEW q \in Queue, NEW i \in 1..Len(q)
  PROVE  /\ RemoveAt(q, i) \in Queue /\ Len(RemoveAt(q, i)) = Len(q) - 1
         /\ \A j \in 1..(Len(q) - 1) : RemoveAt(q, i)[j] = IF j < i THEN q[j] ELSE q[j + 1]
         /\ ToSet(RemoveAt(q, i)) = ToSet(q) \ {q[i]}
<1>t. PICK t : t = RemoveAt(q, i)
  OBVIOUS
<1>n. PICK n : n = Len(q)
  OBVIOUS
<1>0. n \in Nat /\ DOMAIN q = 1..n /\ q \in Seq(Entry) /\ i \in 1..n /\ i \in Int
      /\ \A j \in 1..n : q[j] \in Entry /\ \A k \in 1..n : q[j] = q[k] => j = k
  BY <1>n, QueueIs DEF Queue
<1>p. PICK a, b : a = SubSeq(q, 1, i - 1) /\ b = SubSeq(q, i + 1, n)
  OBVIOUS
<1>a. a \in Seq(Entry) /\ Len(a) = i - 1 /\ \A j \in 1..(i - 1) : a[j] = q[j]
  <2>1. i - 1 \in Int /\ \A j \in 1..(i - 1) : q[j] \in Entry
    BY <1>0
  <2>2. /\ SubSeq(q, 1, i - 1) \in Seq(Entry)
        /\ Len(SubSeq(q, 1, i - 1)) = IF 1 <= i - 1 THEN (i - 1) - 1 + 1 ELSE 0
        /\ \A j \in 1..((i - 1) - 1 + 1) : SubSeq(q, 1, i - 1)[j] = q[1 + j - 1]
    BY <2>1, SubSeqProperties
  <2> QED BY <1>0, <1>p, <2>2
<1>b. b \in Seq(Entry) /\ Len(b) = n - i /\ \A j \in 1..(n - i) : b[j] = q[i + j]
  <2>1. n \in Int /\ i + 1 \in Int /\ \A j \in (i + 1)..n : q[j] \in Entry
    BY <1>0
  <2>2. /\ SubSeq(q, i + 1, n) \in Seq(Entry)
        /\ Len(SubSeq(q, i + 1, n)) = IF i + 1 <= n THEN n - (i + 1) + 1 ELSE 0
        /\ \A j \in 1..(n - (i + 1) + 1) : SubSeq(q, i + 1, n)[j] = q[(i + 1) + j - 1]
    BY <2>1, SubSeqProperties
  <2>3. n - (i + 1) + 1 = n - i /\ \A j \in 1..(n - i) : (i + 1) + j - 1 = i + j
    BY <1>0
  <2> QED BY <1>0, <1>p, <2>2, <2>3
<1>e. t = a \o b
  BY <1>n, <1>p, <1>t DEF RemoveAt
<1>f. /\ t \in Seq(Entry) /\ Len(t) = Len(a) + Len(b)
      /\ \A j \in 1..(Len(a) + Len(b)) : t[j] = IF j <= Len(a) THEN a[j] ELSE b[j - Len(a)]
  BY <1>a, <1>b, <1>e, ConcatProperties
<1>1. t \in Seq(Entry) /\ Len(t) = n - 1 /\ DOMAIN t = 1..(n - 1)
  BY <1>0, <1>a, <1>b, <1>f
<1>2. ASSUME NEW j \in 1..(n - 1) PROVE t[j] = IF j < i THEN q[j] ELSE q[j + 1]
  <2>1. t[j] = IF j <= i - 1 THEN a[j] ELSE b[j - (i - 1)]
    BY <1>0, <1>a, <1>b, <1>f
  <2>2. j >= i => j - (i - 1) \in 1..(n - i) /\ i + (j - (i - 1)) = j + 1
    BY <1>0
  <2>3. j >= i => b[j - (i - 1)] = q[j + 1]
    BY <1>b, <2>2
  <2> QED BY <1>0, <1>a, <2>1, <2>3
<1>k. ASSUME NEW j \in 1..(n - 1)
      PROVE  \E h \in 1..n : h = (IF j < i THEN j ELSE j + 1) /\ t[j] = q[h] /\ h # i
  BY <1>0, <1>2
<1>3. ASSUME NEW j \in 1..(n - 1), NEW k \in 1..(n - 1), t[j] = t[k] PROVE j = k
  <2>1. PICK x \in 1..n : x = (IF j < i THEN j ELSE j + 1) /\ t[j] = q[x]
    BY <1>k
  <2>2. PICK y \in 1..n : y = (IF k < i THEN k ELSE k + 1) /\ t[k] = q[y]
    BY <1>k
  <2>3. x = y
    BY <1>0, <1>3, <2>1, <2>2
  <2>4. j \in Int /\ k \in Int
    OBVIOUS
  <2> QED BY <1>0, <2>1, <2>2, <2>3, <2>4
<1>4. t \in Queue
  BY <1>1, <1>3 DEF Queue, IsInjective
<1>5. ToSet(t) = ToSet(q) \ {q[i]}
  <2>1. ASSUME NEW j \in 1..(n - 1) PROVE t[j] \in ToSet(q) \ {q[i]}
    <3>1. PICK h \in 1..n : t[j] = q[h] /\ h # i
      BY <1>k
    <3> QED BY <1>0, <3>1 DEF ToSet
  <2>2. ASSUME NEW j \in 1..n, j # i PROVE q[j] \in ToSet(t)
    <3>1. j < i => j \in 1..(n - 1) /\ t[j] = q[j]
      BY <1>0, <1>2
    <3>2. j > i => j - 1 \in 1..(n - 1) /\ t[j - 1] = q[j]
      <4>1. j > i => j - 1 \in 1..(n - 1) /\ ~(j - 1 < i) /\ (j - 1) + 1 = j
        BY <1>0
      <4> QED BY <1>2, <4>1
    <3>3. j < i \/ j > i
      BY <1>0, <2>2
    <3> QED BY <1>1, <3>1, <3>2, <3>3 DEF ToSet
  <2> QED BY <1>0, <1>1, <2>1, <2>2 DEF ToSet
<1> QED BY <1>1, <1>2, <1>4, <1>5, <1>n, <1>t

(* Where the j-th was before the i-th went.                                *)
Before(i, j) == IF j < i THEN j ELSE j + 1

(* The i-th of q goes, and its ticks, if any are left, to the one after    *)
(* it: the times f become g.                                               *)
Removes(f, g, q, i) ==
  /\ f \in Times(MaxTicks) /\ q \in Queue /\ g \in Times(MaxTicks) /\ Ordered(f, q)
  /\ i \in 1..Len(q)
  /\ \A y \in Entry : g[y] = IF i < Len(q) /\ y = q[i + 1] THEN f[y] + Positive(f[q[i]]) ELSE f[y]

LEMMA RemoveSums ==
  ASSUME NEW f, NEW g, NEW q, NEW i, Removes(f, g, q, i)
  PROVE  \A j \in 0..(Len(q) - 1) : Sum(g, RemoveAt(q, i), j) = Sum(f, q, Before(i, j))
<1>r. /\ f \in Times(MaxTicks) /\ q \in Queue /\ g \in Times(MaxTicks) /\ Ordered(f, q)
      /\ i \in 1..Len(q) /\ MaxTicks \in Nat
      /\ \A y \in Entry : g[y] = IF i < Len(q) /\ y = q[i + 1] THEN f[y] + Positive(f[q[i]]) ELSE f[y]
  BY BoundsAreNat DEF Removes
<1>t. PICK t : t = RemoveAt(q, i)
  OBVIOUS
<1>n. PICK n : n = Len(q)
  OBVIOUS
<1>0. /\ n \in Nat /\ DOMAIN q = 1..n /\ i \in 1..n /\ i \in Int
      /\ \A j \in 1..n : q[j] \in Entry /\ f[q[j]] \in Int
      /\ \A j, k \in 1..n : q[j] = q[k] => j = k
  BY <1>n, <1>r, QueueIs DEF Times
<1>1. /\ t \in Queue /\ Len(t) = n - 1
      /\ \A j \in 1..(n - 1) : t[j] = IF j < i THEN q[j] ELSE q[j + 1]
  BY <1>n, <1>r, <1>t, RemoveAtIs
<1>2. ASSUME NEW j \in 0..(n - 1), j < i PROVE Sum(g, t, j) = Sum(f, q, j)
  <2>1. ASSUME NEW h \in 1..j PROVE t[h] = q[h] /\ q[h] \in Entry /\ g[q[h]] = f[q[h]]
    <3>1. h \in 1..n /\ h \in 1..(n - 1) /\ h < i /\ h # i + 1
      BY <1>0, <1>2
    <3>2. i < n => q[h] # q[i + 1]
      BY <1>0, <3>1
    <3> QED BY <1>0, <1>1, <1>n, <1>r, <3>1, <3>2
  <2>2. First(t, j) = First(q, j) /\ \A y \in First(q, j) : g[y] = f[y]
    BY <2>1 DEF First
  <2> QED BY <2>2, TotalSame DEF Sum
<1>3. ASSUME NEW j \in 0..(n - 1), j >= i PROVE Sum(g, t, j) = Sum(f, q, j + 1)
  <2>0. /\ i < n /\ i + 1 \in 1..n /\ i \in 1..(j + 1) /\ i + 1 \in 1..(j + 1)
        /\ j + 1 \in 0..n /\ 1..(j + 1) \subseteq 1..n /\ j \in Int
    BY <1>0, <1>3
  <2>x. PICK x, e : x = q[i + 1] /\ e = q[i]
    OBVIOUS
  <2>R. PICK R : R = First(q, j + 1) \ {x, e}
    OBVIOUS
  <2>1. x # e /\ x \in First(q, j + 1) /\ e \in First(q, j + 1) /\ First(q, j + 1) \in SUBSET Entry
    BY <1>0, <1>n, <1>r, <2>0, <2>x, SumIs DEF First
  <2>2. First(t, j) = First(q, j + 1) \ {e}
    <3>1. ASSUME NEW h \in 1..j PROVE t[h] \in First(q, j + 1) \ {e}
      <4>1. PICK k \in 1..(j + 1) : t[h] = q[k] /\ k # i
        <5>1. h \in 1..(n - 1) /\ h \in 1..(j + 1) /\ h + 1 \in 1..(j + 1) /\ (h < i => h # i) /\ (~(h < i) => h + 1 # i)
          BY <1>0, <2>0
        <5>2. t[h] = IF h < i THEN q[h] ELSE q[h + 1]
          BY <1>1, <5>1
        <5> QED BY <5>1, <5>2
      <4> QED BY <1>0, <2>0, <2>x, <4>1 DEF First
    <3>2. ASSUME NEW k \in 1..(j + 1), k # i PROVE q[k] \in First(t, j)
      <4>1. CASE k < i
        <5>1. k \in 1..j /\ k \in 1..(n - 1) /\ t[k] = q[k]
          BY <1>0, <1>1, <1>3, <2>0, <4>1
        <5> QED BY <5>1 DEF First
      <4>2. CASE k > i
        <5>1. k - 1 \in 1..j /\ k - 1 \in 1..(n - 1) /\ ~(k - 1 < i) /\ (k - 1) + 1 = k
          BY <1>0, <2>0, <4>2
        <5>2. t[k - 1] = q[k]
          BY <1>1, <5>1
        <5> QED BY <5>1, <5>2 DEF First
      <4>3. k < i \/ k > i
        BY <1>0, <2>0, <3>2
      <4> QED BY <4>1, <4>2, <4>3
    <3>3. \A y \in First(q, j + 1) \ {e} : y \in First(t, j)
      BY <2>x, <3>2 DEF First
    <3>4. \A y \in First(t, j) : y \in First(q, j + 1) \ {e}
      BY <3>1 DEF First
    <3> QED BY <3>3, <3>4
  <2>3. /\ R \in SUBSET Entry /\ x \in Entry \ R /\ e \in Entry \ (R \cup {x}) /\ R \cup {x} \in SUBSET Entry
        /\ First(q, j + 1) = (R \cup {x}) \cup {e} /\ First(t, j) = R \cup {x}
    BY <2>1, <2>2, <2>R
  <2>4. Total(f, R \cup {x}) = Total(f, R) + Positive(f[x])
    BY <1>r, <2>3, TotalAdds
  <2>5. Total(f, (R \cup {x}) \cup {e}) = Total(f, R \cup {x}) + Positive(f[e])
    BY <1>r, <2>3, TotalAdds
  <2>6. Total(g, R \cup {x}) = Total(g, R) + Positive(g[x])
    BY <1>r, <2>3, TotalAdds
  <2>7. Total(g, R) = Total(f, R)
    <3>1. \A y \in R : y \in Entry /\ y # x
      BY <2>3
    <3>2. \A y \in R : g[y] = f[y]
      BY <1>r, <2>x, <3>1
    <3> QED BY <3>2, TotalSame
  <2>8. g[x] = f[x] + Positive(f[e]) /\ f[x] \in Int /\ f[e] \in Int /\ (f[x] < 0 => f[e] <= f[x])
    <3>1. g[x] = f[x] + Positive(f[e])
      BY <1>n, <1>r, <2>0, <2>3, <2>x
    <3>2. f[x] < 0 => f[e] <= f[x]
      BY <1>0, <1>r, <2>0, <2>x DEF Ordered
    <3> QED BY <1>0, <2>0, <2>x, <3>1, <3>2
  <2>9. Positive(g[x]) = Positive(f[x]) + Positive(f[e]) /\ Positive(f[x]) \in Nat /\ Positive(f[e]) \in Nat
    BY <2>8 DEF Positive
  <2>10. Total(f, R) \in Nat
    BY <1>r, <2>3, TotalType
  <2>11. Total(g, R \cup {x}) = Total(f, (R \cup {x}) \cup {e})
    BY <2>4, <2>5, <2>6, <2>7, <2>9, <2>10
  <2> QED BY <2>3, <2>11 DEF Sum
<1>4. ASSUME NEW j \in 0..(n - 1) PROVE Sum(g, t, j) = Sum(f, q, Before(i, j))
  <2>1. j \in Int
    BY <1>0
  <2> QED BY <1>0, <1>2, <1>3, <2>1 DEF Before
<1> QED BY <1>4, <1>n, <1>t

LEMMA RemoveKeeps ==
  ASSUME NEW f, NEW g, NEW q, NEW i, Removes(f, g, q, i)
  PROVE  /\ Ordered(g, RemoveAt(q, i))
         /\ \A j \in 1..(Len(q) - 1) :
              LeftOf(g, RemoveAt(q, i), j) = LeftOf(f, q, Before(i, j))
<1>r. /\ f \in Times(MaxTicks) /\ q \in Queue /\ g \in Times(MaxTicks) /\ Ordered(f, q)
      /\ i \in 1..Len(q) /\ MaxTicks \in Nat
      /\ \A y \in Entry : g[y] = IF i < Len(q) /\ y = q[i + 1] THEN f[y] + Positive(f[q[i]]) ELSE f[y]
  BY BoundsAreNat DEF Removes
<1>t. PICK t : t = RemoveAt(q, i)
  OBVIOUS
<1>n. PICK n : n = Len(q)
  OBVIOUS
<1>0. /\ n \in Nat /\ DOMAIN q = 1..n /\ i \in 1..n /\ i \in Int
      /\ \A j \in 1..n : q[j] \in Entry /\ f[q[j]] \in Int /\ g[q[j]] \in Int
      /\ \A j, k \in 1..n : q[j] = q[k] => j = k
  BY <1>n, <1>r, QueueIs DEF Times
<1>1. /\ t \in Queue /\ Len(t) = n - 1 /\ DOMAIN t = 1..(n - 1)
      /\ \A j \in 1..(n - 1) : t[j] = IF j < i THEN q[j] ELSE q[j + 1]
  BY <1>n, <1>r, <1>t, RemoveAtIs, QueueIs
<1>2. \A j \in 0..(n - 1) : Sum(g, t, j) = Sum(f, q, Before(i, j))
  <2>1. \A j \in 0..(Len(q) - 1) :
           Sum(g, RemoveAt(q, i), j) = Sum(f, q, Before(i, j))
    BY RemoveSums
  <2> QED BY <1>n, <1>t, <2>1
<1>3. ASSUME NEW k \in 1..n
      PROVE  g[q[k]] = IF k = i + 1 THEN f[q[k]] + Positive(f[q[i]]) ELSE f[q[k]]
  <2>1. k = i + 1 => i < n
    BY <1>0
  <2>2. k # i + 1 => ~(i < n /\ q[k] = q[i + 1])
    BY <1>0
  <2> QED BY <1>0, <1>n, <1>r, <2>1, <2>2
<1>k. ASSUME NEW j \in 1..(n - 1)
      PROVE  \E h \in 1..n : h = (IF j < i THEN j ELSE j + 1) /\ t[j] = q[h] /\ h # i
  BY <1>0, <1>1
<1>4. Ordered(g, t)
  <2> SUFFICES ASSUME NEW a \in 1..(n - 1), NEW b \in 1..(n - 1), a < b, g[t[b]] < 0
      PROVE  g[t[a]] <= g[t[b]]
    BY <1>1 DEF Ordered
  <2>a. PICK x \in 1..n : x = (IF a < i THEN a ELSE a + 1) /\ t[a] = q[x] /\ x # i
    BY <1>k
  <2>b. PICK y \in 1..n : y = (IF b < i THEN b ELSE b + 1) /\ t[b] = q[y] /\ y # i
    BY <1>k
  <2>1. x < y /\ x \in Int /\ y \in Int
    BY <1>0, <2>a, <2>b
  <2>2. f[q[y]] < 0
    <3>1. g[q[y]] < 0
      BY <2>b
    <3>2. y = i + 1 => g[q[y]] = f[q[y]] + Positive(f[q[i]])
      BY <1>3
    <3>3. y # i + 1 => g[q[y]] = f[q[y]]
      BY <1>3
    <3>4. Positive(f[q[i]]) >= 0 /\ Positive(f[q[i]]) \in Int
      BY <1>0 DEF Positive
    <3> QED BY <1>0, <3>1, <3>2, <3>3, <3>4
  <2>3. f[q[x]] <= f[q[y]]
    BY <1>0, <1>r, <2>1, <2>2 DEF Ordered
  <2>4. i < y => Positive(f[q[i]]) = 0
    <3>1. i < y => f[q[i]] <= f[q[y]]
      BY <1>0, <1>r, <2>2 DEF Ordered
    <3> QED BY <1>0, <2>2, <3>1 DEF Positive
  <2>5. g[q[y]] = f[q[y]]
    BY <1>0, <1>3, <2>1, <2>4
  <2>6. g[q[x]] = f[q[x]]
    BY <1>0, <1>3, <2>1, <2>4
  <2> QED BY <2>3, <2>5, <2>6, <2>a, <2>b
<1>5. ASSUME NEW j \in 1..(n - 1) PROVE LeftOf(g, t, j) = LeftOf(f, q, Before(i, j))
  <2>k. PICK k \in 1..n : k = (IF j < i THEN j ELSE j + 1) /\ t[j] = q[k] /\ k # i
    BY <1>k
  <2>1. j \in 0..(n - 1) /\ k \in 0..n /\ k \in Int
    BY <1>0
  <2>2. Sum(g, t, j) = Sum(f, q, k) /\ Sum(f, q, k) \in Nat
        /\ (Sum(f, q, k) = 0 <=> \A h \in 1..k : f[q[h]] <= 0)
    BY <1>2, <1>n, <1>r, <2>1, <2>k, SumIs DEF Before
  <2>3. CASE Sum(f, q, k) > 0
    <3>1. LeftOf(g, t, j) = LeftOf(f, q, k)
      BY <2>2, <2>3 DEF LeftOf
    <3> QED BY <2>k, <3>1 DEF Before
  <2>4. CASE Sum(f, q, k) = 0
    <3>1. k = i + 1 => i \in 1..k
      BY <1>0
    <3>2. k = i + 1 => Positive(f[q[i]]) = 0
      BY <1>0, <2>2, <2>4, <3>1 DEF Positive
    <3>3. g[q[k]] = f[q[k]]
      BY <1>0, <1>3, <3>2
    <3>4. LeftOf(g, t, j) = LeftOf(f, q, k)
      BY <2>2, <2>4, <2>k, <3>3 DEF LeftOf
    <3> QED BY <2>k, <3>4 DEF Before
  <2> QED BY <2>2, <2>3, <2>4
<1> QED BY <1>4, <1>5, <1>n, <1>t

-----------------------------------------------------------------------------
(* The timers of a queue: Armed of a queue q, times f and keys key.        *)

ArmedOf(q, f, key) == [e \in ToSet(q) |->
  [key |-> key[e], left |-> LeftOf(f, q, CHOOSE i \in DOMAIN q : q[i] = e)]]

LEMMA ArmedIs ==
  ASSUME NEW q \in Queue, NEW f, NEW key
  PROVE  /\ ToSet(q) \subseteq Entry /\ \A y : y \in ToSet(q) <=> \E i \in 1..Len(q) : y = q[i]
         /\ \A i \in 1..Len(q) :
              ArmedOf(q, f, key)[q[i]] = [key |-> key[q[i]], left |-> LeftOf(f, q, i)]
<1>1. \A y : y \in ToSet(q) <=> \E i \in 1..Len(q) : y = q[i]
  BY QueueIs DEF ToSet
<1>2. ToSet(q) \subseteq Entry
  BY <1>1, QueueIs
<1>3. ASSUME NEW i \in 1..Len(q)
      PROVE  ArmedOf(q, f, key)[q[i]] = [key |-> key[q[i]], left |-> LeftOf(f, q, i)]
  <2>1. (CHOOSE j \in DOMAIN q : q[j] = q[i]) = i
    BY QueueIs
  <2>2. q[i] \in ToSet(q)
    BY <1>1
  <2> QED BY <2>1, <2>2 DEF ArmedOf
<1> QED BY <1>1, <1>2, <1>3

LEMMA ArmedFields ==
  ASSUME NEW q \in Queue, NEW f, NEW key, NEW i \in 1..Len(q)
  PROVE  /\ q[i] \in ToSet(q) /\ ArmedOf(q, f, key)[q[i]].key = key[q[i]]
         /\ ArmedOf(q, f, key)[q[i]].left = LeftOf(f, q, i)
<1>1. PICK k, l : k = key[q[i]] /\ l = LeftOf(f, q, i)
  OBVIOUS
<1>2. ArmedOf(q, f, key)[q[i]] = [key |-> k, left |-> l]
  BY <1>1, ArmedIs
<1>3. [key |-> k, left |-> l].key = k /\ [key |-> k, left |-> l].left = l
  OBVIOUS
<1>4. q[i] \in ToSet(q)
  BY ArmedIs
<1> QED BY <1>1, <1>2, <1>3, <1>4

(* e goes into q before the i-th, d ticks after the one before it: the     *)
(* times f become g, and the keys key become r.                            *)
Inserts(f, g, q, i, e, d) ==
  /\ f \in Times(MaxTicks) /\ q \in Queue /\ g \in Times(MaxTicks) /\ Ordered(f, q)
  /\ e \in Entry /\ e \notin ToSet(q) /\ i \in 1..(Len(q) + 1) /\ d \in Nat \ {0}
  /\ i <= Len(q) => d <= f[q[i]]
  /\ \A y \in Entry : g[y] = IF y = e THEN d
                            ELSE IF i <= Len(q) /\ y = q[i] THEN f[y] - d ELSE f[y]
AtKey(k, l) == [key |-> k, left |-> l]
KeyOfOne(key, r, e) == \A y \in Entry : y # e => r[y] = key[y]

LEMMA ArmedInsert ==
  ASSUME NEW f, NEW q, NEW g, NEW e, NEW i, NEW d, Inserts(f, g, q, i, e, d),
         NEW key, NEW r, KeyOfOne(key, r, e)
  PROVE  /\ ArmedOf(InsertAt(q, i, e), g, r)[e] = AtKey(r[e], Sum(f, q, i - 1) + d)
         /\ \A y \in ToSet(q) : ArmedOf(InsertAt(q, i, e), g, r)[y] = ArmedOf(q, f, key)[y]
<1>i. /\ f \in Times(MaxTicks) /\ q \in Queue /\ g \in Times(MaxTicks) /\ Ordered(f, q)
      /\ e \in Entry /\ e \notin ToSet(q) /\ i \in 1..(Len(q) + 1) /\ d \in Nat \ {0}
      /\ i <= Len(q) => d <= f[q[i]]
      /\ \A y \in Entry : g[y] = IF y = e THEN d
                                ELSE IF i <= Len(q) /\ y = q[i] THEN f[y] - d ELSE f[y]
      /\ \A y \in Entry : y # e => r[y] = key[y]
      /\ MaxTicks \in Nat
  BY BoundsAreNat DEF Inserts, KeyOfOne
<1>t. PICK t : t = InsertAt(q, i, e)
  OBVIOUS
<1>n. PICK n : n = Len(q)
  OBVIOUS
<1>0. /\ n \in Nat /\ i \in 1..(n + 1) /\ i \in Int
      /\ \A j \in 1..n : q[j] \in Entry /\ q[j] # e
  BY <1>i, <1>n, QueueIs DEF ToSet
<1>1. /\ t \in Queue /\ Len(t) = n + 1 /\ ToSet(t) = ToSet(q) \cup {e}
      /\ \A j \in 1..(n + 1) : t[j] = IF j < i THEN q[j] ELSE IF j = i THEN e ELSE q[j - 1]
  BY <1>i, <1>n, <1>t, InsertAtIs
<1>2. /\ LeftOf(g, t, i) = Sum(f, q, i - 1) + d
      /\ \A j \in 1..(i - 1) : LeftOf(g, t, j) = LeftOf(f, q, j)
      /\ \A j \in i..n : LeftOf(g, t, j + 1) = LeftOf(f, q, j)
  <2>1. /\ LeftOf(g, InsertAt(q, i, e), i) = Sum(f, q, i - 1) + d
        /\ \A j \in 1..(i - 1) : LeftOf(g, InsertAt(q, i, e), j) = LeftOf(f, q, j)
        /\ \A j \in i..Len(q) : LeftOf(g, InsertAt(q, i, e), j + 1) = LeftOf(f, q, j)
    BY <1>i, InsertKeeps
  <2> QED BY <1>n, <1>t, <2>1
<1>3. ArmedOf(t, g, r)[e] = AtKey(r[e], Sum(f, q, i - 1) + d)
  <2>1. i \in 1..Len(t) /\ t[i] = e
    BY <1>0, <1>1
  <2>2. ArmedOf(t, g, r)[t[i]] = [key |-> r[t[i]], left |-> LeftOf(g, t, i)]
    BY <1>1, <2>1, ArmedIs
  <2> QED BY <1>0, <1>2, <2>1, <2>2 DEF AtKey
<1>4. ASSUME NEW j \in 1..n PROVE ArmedOf(t, g, r)[q[j]] = ArmedOf(q, f, key)[q[j]]
  <2>1. PICK h \in 1..(n + 1) : t[h] = q[j] /\ LeftOf(g, t, h) = LeftOf(f, q, j)
    <3>1. CASE j < i
      <4>1. j \in 1..(n + 1) /\ j \in 1..(i - 1) /\ t[j] = q[j]
        BY <1>0, <1>1, <3>1
      <4> QED BY <1>2, <4>1
    <3>2. CASE j >= i
      <4>1. j + 1 \in 1..(n + 1) /\ j \in i..n /\ t[j + 1] = q[j]
        BY <1>0, <1>1, <3>2
      <4> QED BY <1>2, <4>1
    <3> QED BY <1>0, <3>1, <3>2
  <2>2. ArmedOf(t, g, r)[t[h]] = [key |-> r[t[h]], left |-> LeftOf(g, t, h)]
    BY <1>1, ArmedIs
  <2>3. ArmedOf(q, f, key)[q[j]] = [key |-> key[q[j]], left |-> LeftOf(f, q, j)]
    BY <1>i, <1>n, ArmedIs
  <2>4. r[q[j]] = key[q[j]]
    BY <1>0, <1>i
  <2> QED BY <2>1, <2>2, <2>3, <2>4
<1>5. ASSUME NEW y \in ToSet(q) PROVE y # e /\ ArmedOf(t, g, r)[y] = ArmedOf(q, f, key)[y]
  <2>1. PICK j \in 1..n : y = q[j]
    BY <1>i, <1>n, ArmedIs
  <2> QED BY <1>0, <1>4, <2>1
<1> QED BY <1>3, <1>5, <1>t

LEMMA ArmedRemove ==
  ASSUME NEW f, NEW g, NEW q, NEW i, Removes(f, g, q, i), NEW key
  PROVE  \A y \in ToSet(q) \ {q[i]} : ArmedOf(RemoveAt(q, i), g, key)[y] = ArmedOf(q, f, key)[y]
<1>r. f \in Times(MaxTicks) /\ q \in Queue /\ g \in Times(MaxTicks) /\ i \in 1..Len(q)
  BY DEF Removes
<1>t. PICK t : t = RemoveAt(q, i)
  OBVIOUS
<1>n. PICK n : n = Len(q)
  OBVIOUS
<1>0. n \in Nat /\ i \in 1..n /\ i \in Int
  BY <1>n, <1>r, QueueIs
<1>1. /\ t \in Queue /\ Len(t) = n - 1 /\ ToSet(t) = ToSet(q) \ {q[i]}
      /\ \A j \in 1..(n - 1) : t[j] = IF j < i THEN q[j] ELSE q[j + 1]
  BY <1>n, <1>r, <1>t, RemoveAtIs
<1>2. \A j \in 1..(n - 1) : LeftOf(g, t, j) = LeftOf(f, q, IF j < i THEN j ELSE j + 1)
  <2>1. \A j \in 1..(Len(q) - 1) : LeftOf(g, RemoveAt(q, i), j) = LeftOf(f, q, Before(i, j))
    BY RemoveKeeps
  <2> QED BY <1>n, <1>t, <2>1 DEF Before
<1>3. ASSUME NEW y \in ToSet(t) PROVE ArmedOf(t, g, key)[y] = ArmedOf(q, f, key)[y]
  <2>1. PICK j \in 1..(n - 1) : y = t[j]
    BY <1>1, ArmedIs
  <2>2. PICK h \in 1..n : t[j] = q[h] /\ LeftOf(g, t, j) = LeftOf(f, q, h)
    <3>1. CASE j < i
      <4>1. j \in 1..n
        BY <1>0
      <4> QED BY <1>1, <1>2, <3>1, <4>1
    <3>2. CASE ~(j < i)
      <4>1. j + 1 \in 1..n
        BY <1>0
      <4> QED BY <1>1, <1>2, <3>2, <4>1
    <3> QED BY <3>1, <3>2
  <2>3. ArmedOf(t, g, key)[t[j]] = [key |-> key[t[j]], left |-> LeftOf(g, t, j)]
    BY <1>1, ArmedIs
  <2>4. ArmedOf(q, f, key)[q[h]] = [key |-> key[q[h]], left |-> LeftOf(f, q, h)]
    BY <1>n, <1>r, ArmedIs
  <2> QED BY <2>1, <2>2, <2>3, <2>4
<1> QED BY <1>1, <1>3, <1>t

LEMMA ArmedTick ==
  ASSUME NEW M \in Nat, NEW f \in Times(M), NEW q \in Queue, NEW g \in Times(M), Ordered(f, q),
         \A e \in Entry : g[e] = IF e \in Counted(f, q) THEN f[e] - 1 ELSE f[e],
         NEW key
  PROVE  \A y \in ToSet(q) :
           ArmedOf(q, g, key)[y] = [ArmedOf(q, f, key)[y] EXCEPT !.left = @ - 1]
<1>1. ASSUME NEW y \in ToSet(q)
      PROVE  ArmedOf(q, g, key)[y] = [ArmedOf(q, f, key)[y] EXCEPT !.left = @ - 1]
  <2>1. PICK i \in 1..Len(q) : y = q[i]
    BY ArmedIs
  <2>2. ArmedOf(q, g, key)[q[i]] = [key |-> key[q[i]], left |-> LeftOf(g, q, i)]
    BY ArmedIs
  <2>3. ArmedOf(q, f, key)[q[i]] = [key |-> key[q[i]], left |-> LeftOf(f, q, i)]
    BY ArmedIs
  <2>4. LeftOf(g, q, i) = LeftOf(f, q, i) - 1
    BY TickKeeps
  <2> QED BY <2>1, <2>2, <2>3, <2>4
<1> QED BY <1>1

-----------------------------------------------------------------------------
(* The invariant.                                                          *)

(* Every entry is on one of the two lists, once.                           *)
Lists ==
  /\ calltodo \in Queue /\ callfree \in Queue
  /\ ToSet(calltodo) \cap ToSet(callfree) = {}
  /\ ToSet(calltodo) \cup ToSet(callfree) = Entry

(* What is due is about to be run.                                         *)
Noticed == calltodo # <<>> /\ Due(calltodo[1]) => softpend \/ insoft

(* No timer is due after more than MaxTicks, and none is overdue by more   *)
(* than one before it.  Without the order, the loop of hardclock() would   *)
(* stop before an overdue entry and not count it, and untimeout() would    *)
(* hand ticks to an entry that is overdue already.                         *)
InOrder ==
  /\ Ordered(c_time, calltodo)
  /\ Sum(c_time, calltodo, Len(calltodo)) <= MaxTicks

CInv == TypeOK /\ Lists /\ Noticed /\ InOrder

LEMMA CInvFacts ==
  ASSUME CInv
  PROVE  /\ c_time \in Times(MaxTicks) /\ calltodo \in Queue /\ callfree \in Queue
         /\ c_time \in [Entry -> (-MaxOverdue)..MaxTicks] /\ c_key \in [Entry -> Key]
         /\ Ordered(c_time, calltodo) /\ MaxTicks \in Nat \ {0} /\ MaxOverdue \in Nat
         /\ \A i : Passed(i) = Sum(c_time, calltodo, i)
<1>1. c_time \in Times(MaxTicks)
  BY BoundsAreNat DEF CInv, TypeOK, Times
<1>2. \A i : Passed(i) = Sum(c_time, calltodo, i)
  BY DEF Passed, Ticks, Sum, Total, TicksOf, First
<1> QED BY <1>1, <1>2, BoundsAreNat DEF CInv, TypeOK, Lists, InOrder

(* What the walk of timeout() leaves of the ticks is at least one, and no  *)
(* more than the entry that it stops at has.                               *)
LEMMA PlaceLeaves ==
  ASSUME CInv, NEW n \in 1..MaxTicks, NEW i \in 1..(Len(calltodo) + 1), Place(n, i)
  PROVE  /\ Passed(i - 1) \in Nat /\ n - Passed(i - 1) \in (1..MaxTicks)
         /\ i <= Len(calltodo) => n - Passed(i - 1) <= c_time[calltodo[i]]
<1>q. PICK q, f : q = calltodo /\ f = c_time
  OBVIOUS
<1>0. /\ q \in Queue /\ f \in Times(MaxTicks) /\ Ordered(f, q) /\ MaxTicks \in Nat
      /\ \A j : Passed(j) = Sum(f, q, j)
  BY <1>q, CInvFacts
<1>1. /\ Len(q) \in Nat /\ DOMAIN q = 1..Len(q) /\ i \in Int /\ n \in Int /\ i - 1 \in 0..Len(q) /\ i \in 1..(Len(q) + 1)
      /\ \A j \in 1..Len(q) : f[q[j]] \in Int
  BY <1>0, <1>q, QueueIs DEF Times
<1>2. Sum(f, q, i - 1) \in Nat
      /\ (Sum(f, q, i - 1) = 0 <=> \A j \in 1..(i - 1) : f[q[j]] <= 0)
      /\ (i = 1 => Sum(f, q, i - 1) = 0)
  <2>1. PICK k \in 0..Len(q) : k = i - 1
    BY <1>1
  <2>2. /\ Sum(f, q, k) \in Nat /\ (k = 0 => Sum(f, q, k) = 0)
        /\ (Sum(f, q, k) = 0 <=> \A j \in 1..k : f[q[j]] <= 0)
    BY <1>0, SumIs
  <2>3. i = 1 => k = 0
    BY <2>1
  <2> QED BY <2>1, <2>2, <2>3
<1>3. n - Sum(f, q, i - 1) >= 1
  <2>1. CASE i = 1
    BY <1>1, <1>2, <2>1
  <2>2. CASE i > 1
    <3>1. i - 1 \in 1..Len(q) /\ i - 1 \in 1..(i - 1) /\ (i - 1) - 1 \in 0..Len(q)
      BY <1>1, <2>2
    <3>2. n - Sum(f, q, (i - 1) - 1) > f[q[i - 1]]
      BY <1>0, <1>q, <3>1 DEF Place
    <3>3. Sum(f, q, i - 1) = Sum(f, q, (i - 1) - 1) + Positive(f[q[i - 1]])
      BY <1>0, <3>1, SumAdds
    <3>4. Sum(f, q, (i - 1) - 1) \in Nat
      BY <1>0, <3>1, SumIs
    <3>5. CASE f[q[i - 1]] >= 0
      BY <1>1, <3>1, <3>2, <3>3, <3>4, <3>5 DEF Positive
    <3>6. CASE f[q[i - 1]] < 0
      <4>1. ASSUME NEW j \in 1..(i - 1) PROVE f[q[j]] <= 0
        <5>1. j \in 1..Len(q) /\ (j = i - 1 \/ j < i - 1)
          BY <1>1
        <5>2. j < i - 1 => f[q[j]] <= f[q[i - 1]]
          BY <1>0, <1>1, <3>1, <3>6, <5>1 DEF Ordered
        <5> QED BY <1>1, <3>1, <3>6, <5>1, <5>2
      <4>2. Sum(f, q, i - 1) = 0
        BY <1>2, <4>1
      <4> QED BY <1>1, <4>2
    <3> QED BY <1>1, <3>1, <3>5, <3>6
  <2> QED BY <1>1, <2>1, <2>2
<1>4. i <= Len(calltodo) => n - Passed(i - 1) <= c_time[calltodo[i]]
  BY DEF Place
<1> QED BY <1>0, <1>1, <1>2, <1>3, <1>4

-----------------------------------------------------------------------------
(* One lemma for each operation: what it does to the invariant and to the  *)
(* timers.                                                                 *)

Timer == ArmedOf(calltodo, c_time, c_key)

LEMMA ArmedIsTimer == Armed = Timer /\ Armed' = Timer'
<1>1. Armed = Timer
  BY DEF Armed, Timer, ArmedOf, Left, LeftOf, Passed, Ticks, Sum, Total, TicksOf, First
<1>2. Armed' = Timer'
  BY DEF Armed, Timer, ArmedOf, Left, LeftOf, Passed, Ticks, Sum, Total, TicksOf, First
<1> QED BY <1>1, <1>2

LEMMA TimerIs == Timer' = [y \in DOMAIN Timer' |-> Timer'[y]]
BY DEF Timer, ArmedOf

LEMMA AbstractArm ==
  ASSUME NEW e \in Entry, NEW k \in Key, NEW n \in 1..MaxTicks, e \notin DOMAIN Timer,
         DOMAIN Timer' = DOMAIN Timer \cup {e}, Timer'[e] = [key |-> k, left |-> n],
         \A y \in DOMAIN Timer : Timer'[y] = Timer[y]
  PROVE  Abstract!Next
<1>1. Timer' = [y \in DOMAIN Timer \cup {e} |->
                 IF y = e THEN [key |-> k, left |-> n] ELSE Timer[y]]
  BY TimerIs
<1>2. Abstract!Arm(e, k, n)
  BY <1>1, ArmedIsTimer DEF Abstract!Arm
<1> QED BY <1>2 DEF Abstract!Next

LEMMA AbstractCancel ==
  ASSUME NEW e \in Entry, e \in DOMAIN Timer,
         \A y \in DOMAIN Timer : Timer[y].key = Timer[e].key => Timer[e].left <= Timer[y].left,
         DOMAIN Timer' = DOMAIN Timer \ {e},
         \A y \in DOMAIN Timer \ {e} : Timer'[y] = Timer[y]
  PROVE  Abstract!Next
<1>1. Timer' = [y \in DOMAIN Timer \ {e} |-> Timer[y]]
  BY TimerIs
<1>2. Abstract!Cancel(e)
  BY <1>1, ArmedIsTimer DEF Abstract!Cancel, Abstract!Without
<1> QED BY <1>2 DEF Abstract!Next

LEMMA AbstractFire ==
  ASSUME NEW e \in Entry, e \in DOMAIN Timer, Timer[e].left <= 0,
         \A y \in DOMAIN Timer : Timer[e].left <= Timer[y].left,
         DOMAIN Timer' = DOMAIN Timer \ {e},
         \A y \in DOMAIN Timer \ {e} : Timer'[y] = Timer[y]
  PROVE  Abstract!Next
<1>1. Timer' = [y \in DOMAIN Timer \ {e} |-> Timer[y]]
  BY TimerIs
<1>2. Abstract!Fire(e)
  BY <1>1, ArmedIsTimer DEF Abstract!Fire, Abstract!Without
<1> QED BY <1>2 DEF Abstract!Next

LEMMA AbstractTick ==
  ASSUME DOMAIN Timer' = DOMAIN Timer,
         \A y \in DOMAIN Timer : Timer'[y] = [Timer[y] EXCEPT !.left = @ - 1]
  PROVE  Abstract!Next
<1>1. Timer' = [y \in DOMAIN Timer |-> [Timer[y] EXCEPT !.left = @ - 1]]
  BY TimerIs
<1>2. Abstract!Tick
  BY <1>1, ArmedIsTimer DEF Abstract!Tick
<1> QED BY <1>2 DEF Abstract!Next

LEMMA QueueEnds ==
  ASSUME NEW q \in Queue
  PROVE  /\ \A e \in Entry : <<e>> \o q = InsertAt(q, 1, e)
         /\ q # <<>> => 1 \in 1..Len(q) /\ Head(q) = q[1] /\ Tail(q) = RemoveAt(q, 1)
<1>0. q \in Seq(Entry) /\ Len(q) \in Nat /\ SubSeq(q, 1, Len(q)) = q
  BY SubSeqFull DEF Queue
<1>1. SubSeq(q, 1, 0) = <<>> /\ SubSeq(q, 1, 1 - 1) = SubSeq(q, 1, 0)
  BY SubSeqEmpty
<1>2. ASSUME NEW e \in Entry PROVE <<e>> \o q = InsertAt(q, 1, e)
  <2>1. <<e>> \in Seq(Entry)
    OBVIOUS
  <2>2. <<>> \o <<e>> = <<e>>
    BY <2>1, ConcatEmptySeq
  <2> QED BY <1>0, <1>1, <2>2 DEF InsertAt
<1>3. ASSUME q # <<>>
      PROVE  1 \in 1..Len(q) /\ Head(q) = q[1] /\ Tail(q) = RemoveAt(q, 1)
  <2>1. 1 \in 1..Len(q) /\ Head(q) = q[1]
    BY <1>0, <1>3
  <2>2. Tail(q) = SubSeq(q, 2, Len(q)) /\ SubSeq(q, 1 + 1, Len(q)) = SubSeq(q, 2, Len(q))
    BY <1>0, <1>3, TailIsSubSeq
  <2>3. Tail(q) \in Seq(Entry)
    BY <1>0, <1>3, HeadTailProperties
  <2>4. <<>> \o Tail(q) = Tail(q)
    BY <2>3, ConcatEmptySeq
  <2> QED BY <1>1, <2>1, <2>2, <2>4 DEF RemoveAt
<1> QED BY <1>2, <1>3

LEMMA TimeoutStep ==
  ASSUME CInv, NEW k \in Key, NEW ticks \in 0..MaxTicks, timeout(k, ticks)
  PROVE  CInv' /\ (Abstract!Next \/ Timer' = Timer)
<1>0. MaxTicks \in Nat \ {0} /\ MaxOverdue \in Nat
  BY BoundsAreNat
<1>1. CASE callfree = <<>> /\ panicked' = TRUE /\ UNCHANGED <<calltodo, callfree, c_time, c_key>>
  <2>1. UNCHANGED <<calltodo, callfree, c_time, c_key, softpend, insoft>> /\ panicked' \in BOOLEAN
    BY <1>1 DEF timeout
  <2>2. TypeOK'
    BY <2>1 DEF CInv, TypeOK
  <2>3. Lists' /\ Noticed' /\ InOrder'
    BY <2>1 DEF CInv, Lists, Noticed, Due, InOrder
  <2>4. Timer' = Timer
    BY <2>1 DEF Timer
  <2> QED BY <2>2, <2>3, <2>4 DEF CInv
<1>2. CASE ~(callfree = <<>> /\ panicked' = TRUE /\ UNCHANGED <<calltodo, callfree, c_time, c_key>>)
  <2>n. PICK n : n = AtLeastOne(ticks)
    OBVIOUS
  <2>1. /\ callfree # <<>> /\ n \in 1..MaxTicks
        /\ \E i \in 1..(Len(calltodo) + 1) : Place(n, i) /\ Insert(k, i, n - Passed(i - 1))
        /\ UNCHANGED <<panicked, softpend, insoft>>
    BY <1>0, <1>2, <2>n DEF timeout, AtLeastOne
  <2>2. PICK i \in 1..(Len(calltodo) + 1) : Place(n, i) /\ Insert(k, i, n - Passed(i - 1))
    BY <2>1
  <2>e. PICK q, f, e, d : q = calltodo /\ f = c_time /\ e = Head(callfree) /\ d = n - Passed(i - 1)
    OBVIOUS
  <2>3. /\ q \in Queue /\ callfree \in Queue /\ f \in Times(MaxTicks) /\ Ordered(f, q)
        /\ f \in [Entry -> (-MaxOverdue)..MaxTicks] /\ c_key \in [Entry -> Key]
        /\ Passed(i - 1) = Sum(f, q, i - 1)
    BY <2>e, CInvFacts
  <2>4. /\ d \in 1..MaxTicks /\ d \in Nat /\ d \in Nat \ {0} /\ (i <= Len(q) => d <= f[q[i]])
        /\ Sum(f, q, i - 1) \in Nat /\ Sum(f, q, i - 1) + d = n
    <3>1. /\ Passed(i - 1) \in Nat /\ n - Passed(i - 1) \in (1..MaxTicks)
          /\ i <= Len(calltodo) => n - Passed(i - 1) <= c_time[calltodo[i]]
      BY <2>1, <2>2, PlaceLeaves
    <3> QED BY <1>0, <2>1, <2>3, <2>e, <3>1
  <2>5. /\ e \in Entry /\ e \notin ToSet(q) /\ e \in ToSet(callfree)
        /\ callfree' \in Queue /\ ToSet(callfree') = ToSet(callfree) \ {e}
    <3>1. 1 \in 1..Len(callfree) /\ e = callfree[1] /\ callfree' = RemoveAt(callfree, 1)
      BY <2>1, <2>2, <2>3, <2>e, QueueEnds DEF Insert
    <3>2. callfree' \in Queue /\ ToSet(callfree') = ToSet(callfree) \ {e}
      BY <2>3, <3>1, RemoveAtIs
    <3>3. e \in ToSet(callfree) /\ e \in Entry
      BY <2>3, <3>1, QueueIs DEF ToSet
    <3> QED BY <2>e, <3>2, <3>3 DEF CInv, Lists
  <2>6. /\ calltodo' = InsertAt(q, i, e) /\ c_key' = [c_key EXCEPT ![e] = k]
        /\ c_time' = [y \in Entry |-> IF y = e THEN d
                       ELSE IF i <= Len(q) /\ y = q[i] THEN f[y] - d ELSE f[y]]
    BY <2>2, <2>e DEF Insert
  <2>g. PICK g : g = c_time'
    OBVIOUS
  <2>7. /\ \A y \in Entry : g[y] = IF y = e THEN d
                              ELSE IF i <= Len(q) /\ y = q[i] THEN f[y] - d ELSE f[y]
        /\ g \in [Entry -> (-MaxOverdue)..MaxTicks] /\ g \in Times(MaxTicks)
    <3>1. \A y \in Entry : g[y] = IF y = e THEN d
                              ELSE IF i <= Len(q) /\ y = q[i] THEN f[y] - d ELSE f[y]
      BY <2>6, <2>g
    <3>2. ASSUME NEW y \in Entry PROVE g[y] \in (-MaxOverdue)..MaxTicks
      <4>1. f[y] \in (-MaxOverdue)..MaxTicks
        BY <2>3
      <4>2. i <= Len(q) /\ y = q[i] => d <= f[y]
        BY <2>4
      <4> QED BY <1>0, <2>4, <3>1, <4>1, <4>2
    <3>3. g \in [Entry -> (-MaxOverdue)..MaxTicks]
      BY <2>6, <2>g, <3>2
    <3> QED BY <1>0, <3>1, <3>3 DEF Times
  <2>8. /\ calltodo' \in Queue /\ Len(calltodo') = Len(q) + 1 /\ ToSet(calltodo') = ToSet(q) \cup {e}
        /\ \A j \in 1..(Len(q) + 1) :
             calltodo'[j] = IF j < i THEN q[j] ELSE IF j = i THEN e ELSE q[j - 1]
    <3>1. i \in 1..(Len(q) + 1)
      BY <2>e
    <3> QED BY <2>3, <2>5, <2>6, <3>1, InsertAtIs
  <2>9. TypeOK'
    <3>1. calltodo' \in Seq(Entry) /\ callfree' \in Seq(Entry)
      BY <2>5, <2>8 DEF Queue
    <3>2. c_key' \in [Entry -> Key]
      BY <2>3, <2>6
    <3>3. c_time' \in [Entry -> (-MaxOverdue)..MaxTicks]
      BY <2>7, <2>g
    <3> QED BY <2>1, <3>1, <3>2, <3>3 DEF CInv, TypeOK
  <2>10. Lists'
    <3>1. ToSet(q) \cap ToSet(callfree) = {} /\ ToSet(q) \cup ToSet(callfree) = Entry
      BY <2>e DEF CInv, Lists
    <3> QED BY <2>5, <2>8, <3>1 DEF Lists
  <2>11. InOrder'
    <3>0. i \in 1..(Len(q) + 1)
      BY <2>e
    <3>a. /\ MaxTicks \in Nat /\ f \in Times(MaxTicks) /\ q \in Queue /\ g \in Times(MaxTicks)
          /\ Ordered(f, q)
      BY <1>0, <2>3, <2>7
    <3>b. /\ e \in Entry /\ e \notin ToSet(q) /\ d \in Nat /\ d \in Nat \ {0}
          /\ (i <= Len(q) => d <= f[q[i]])
      BY <2>4, <2>5
    <3>c. \A y \in Entry : g[y] = IF y = e THEN d
                              ELSE IF i <= Len(q) /\ y = q[i] THEN f[y] - d ELSE f[y]
      BY <2>7
    <3>1. Ordered(g, InsertAt(q, i, e))
      BY ONLY <3>0, <3>a, <3>b, <3>c, InsertKeeps
    <3>2. /\ Sum(g, InsertAt(q, i, e), i) = Sum(f, q, i - 1) + d
          /\ \A j \in i..Len(q) : Sum(g, InsertAt(q, i, e), j + 1) = Sum(f, q, j)
      BY ONLY <3>0, <3>a, <3>b, <3>c, InsertSums
    <3>3. Sum(g, InsertAt(q, i, e), Len(q) + 1) <= MaxTicks
      <4>0. Len(q) \in Nat
        BY <2>3, QueueIs
      <4>1. CASE i = Len(q) + 1
        <5>1. Sum(g, InsertAt(q, i, e), i) = n
          BY <2>4, <3>2
        <5> QED BY <2>1, <4>1, <5>1
      <4>2. CASE i <= Len(q)
        <5>1. Len(q) \in i..Len(q)
          BY <3>0, <4>0, <4>2
        <5>2. Sum(g, InsertAt(q, i, e), Len(q) + 1) = Sum(f, q, Len(q))
          BY <3>2, <5>1
        <5>3. Sum(f, q, Len(q)) <= MaxTicks
          BY <2>e DEF CInv, InOrder
        <5> QED BY <5>2, <5>3
      <4> QED BY <3>0, <4>0, <4>1, <4>2
    <3>4. Ordered(c_time', calltodo') /\ Sum(c_time', calltodo', Len(calltodo')) <= MaxTicks
      BY <2>6, <2>8, <2>g, <3>1, <3>3
    <3> QED BY <3>4 DEF InOrder
  <2>12. Noticed'
    <3> SUFFICES ASSUME c_time'[calltodo'[1]] <= 0 PROVE (softpend \/ insoft)'
      BY DEF Noticed, Due
    <3>0. Len(q) \in Nat /\ i \in 1..(Len(q) + 1) /\ \A j \in 1..Len(q) : q[j] \in Entry /\ q[j] # e
      BY <2>3, <2>5, <2>e, QueueIs DEF ToSet
    <3>1. CASE i = 1
      <4>1. calltodo'[1] = e
        BY <2>8, <3>0, <3>1
      <4>2. c_time'[e] = d
        BY <2>5, <2>7, <2>g
      <4> QED BY <2>4, <4>1, <4>2
    <3>2. CASE i # 1
      <4>1. 1 \in 1..Len(q) /\ 1 \in 1..(Len(q) + 1) /\ 1 < i
        BY <3>0, <3>2
      <4>2. calltodo'[1] = q[1]
        BY <2>8, <4>1
      <4>3. i <= Len(q) => q[1] # q[i]
        BY <2>3, <3>0, <4>1, QueueIs
      <4>4. c_time'[q[1]] = f[q[1]]
        BY <2>7, <2>g, <3>0, <4>1, <4>3
      <4>5. q # <<>> /\ f[q[1]] <= 0
        BY <4>1, <4>2, <4>4
      <4>6. softpend \/ insoft
        BY <2>e, <4>5 DEF CInv, Noticed, Due
      <4> QED BY <2>1, <4>6
    <3> QED BY <3>1, <3>2
  <2>13. Abstract!Next
    <3>0. i \in 1..(Len(q) + 1) /\ MaxTicks \in Nat
      BY <1>0, <2>e
    <3>c. PICK c, r : c = c_key /\ r = [c_key EXCEPT ![e] = k]
      OBVIOUS
    <3>x. r[e] = k /\ AtKey(r[e], Sum(f, q, i - 1) + d) = [key |-> k, left |-> n]
      BY <2>3, <2>4, <2>5, <3>c DEF AtKey
    <3>1. /\ ArmedOf(InsertAt(q, i, e), g, r)[e] = AtKey(r[e], Sum(f, q, i - 1) + d)
          /\ \A y \in ToSet(q) : ArmedOf(InsertAt(q, i, e), g, r)[y] = ArmedOf(q, f, c)[y]
      <4>1. Inserts(f, g, q, i, e, d)
        BY <2>3, <2>4, <2>5, <2>7, <3>0 DEF Inserts
      <4>2. KeyOfOne(c, r, e)
        BY <2>3, <2>5, <3>c DEF KeyOfOne
      <4> QED BY ONLY <4>1, <4>2, ArmedInsert
    <3>2. Timer' = ArmedOf(InsertAt(q, i, e), g, r) /\ DOMAIN Timer' = ToSet(q) \cup {e}
      <4>1. Timer' = ArmedOf(InsertAt(q, i, e), g, r)
        BY <2>6, <2>g, <3>c DEF Timer
      <4>2. DOMAIN Timer' = ToSet(calltodo')
        BY DEF Timer, ArmedOf
      <4> QED BY <2>8, <4>1, <4>2
    <3>3. Timer = ArmedOf(q, f, c) /\ DOMAIN Timer = ToSet(q)
      BY <2>e, <3>c DEF Timer, ArmedOf
    <3>4. /\ DOMAIN Timer' = DOMAIN Timer \cup {e} /\ Timer'[e] = [key |-> k, left |-> n]
          /\ \A y \in DOMAIN Timer : Timer'[y] = Timer[y]
      BY <3>1, <3>2, <3>3, <3>x
    <3>5. e \notin DOMAIN Timer
      BY <2>5, <3>3
    <3> QED BY <2>1, <2>5, <3>4, <3>5, AbstractArm
  <2> QED BY <2>9, <2>10, <2>11, <2>12, <2>13 DEF CInv
<1> QED BY <1>1, <1>2

(* The i-th timer goes, and the ticks it has left go to the one after it.  *)
LEMMA OneGoes ==
  ASSUME CInv, NEW i \in 1..Len(calltodo), calltodo' = RemoveAt(calltodo, i),
         callfree' = <<calltodo[i]>> \o callfree, c_time' = [y \in Entry |-> c_time'[y]],
         \A y \in Entry : c_time'[y] = IF i < Len(calltodo) /\ y = calltodo[i + 1]
                                       THEN c_time[y] + Positive(c_time[calltodo[i]]) ELSE c_time[y],
         UNCHANGED <<c_key, softpend, insoft, panicked>>
  PROVE  /\ CInv' /\ DOMAIN Timer' = DOMAIN Timer \ {calltodo[i]}
         /\ \A y \in DOMAIN Timer \ {calltodo[i]} : Timer'[y] = Timer[y]
<1>e. PICK q, f, g, e, p, c : /\ q = calltodo /\ f = c_time /\ g = c_time' /\ e = calltodo[i]
                              /\ p = callfree /\ c = c_key
  OBVIOUS
<1>0. MaxTicks \in Nat \ {0} /\ MaxOverdue \in Nat /\ MaxTicks \in Nat
  BY BoundsAreNat
<1>1. /\ q \in Queue /\ p \in Queue /\ f \in Times(MaxTicks) /\ Ordered(f, q)
      /\ f \in [Entry -> (-MaxOverdue)..MaxTicks] /\ c \in [Entry -> Key] /\ i \in 1..Len(q)
      /\ ToSet(q) \cap ToSet(p) = {} /\ ToSet(q) \cup ToSet(p) = Entry
      /\ Sum(f, q, Len(q)) <= MaxTicks
  BY <1>e, CInvFacts DEF CInv, Lists, InOrder
<1>2. /\ Len(q) \in Nat /\ DOMAIN q = 1..Len(q) /\ \A j \in 1..Len(q) : q[j] \in Entry /\ f[q[j]] \in Int
      /\ i \in Int /\ e = q[i] /\ e \in Entry /\ e \in ToSet(q) /\ e \notin ToSet(p)
  <2>1. /\ Len(q) \in Nat /\ DOMAIN q = 1..Len(q) /\ i \in Int
        /\ \A j \in 1..Len(q) : q[j] \in Entry
    BY <1>1, QueueIs
  <2>2. e = q[i] /\ e \in Entry
    BY <1>1, <1>e, <2>1
  <2>3. e \in ToSet(q)
    BY <1>1, <2>1, <2>2 DEF ToSet
  <2>4. \A j \in 1..Len(q) : f[q[j]] \in Int
    BY <1>1, <2>1 DEF Times
  <2> QED BY <1>1, <2>1, <2>2, <2>3, <2>4
<1>3. \A y \in Entry : g[y] = IF i < Len(q) /\ y = q[i + 1] THEN f[y] + Positive(f[q[i]]) ELSE f[y]
  BY <1>e
<1>4. i < Len(q) => /\ i + 1 \in 1..Len(q) /\ (f[q[i + 1]] < 0 => f[q[i]] <= f[q[i + 1]])
                    /\ Positive(f[q[i]]) + Positive(f[q[i + 1]]) <= MaxTicks
  <2> SUFFICES ASSUME i < Len(q)
               PROVE  /\ i + 1 \in 1..Len(q) /\ (f[q[i + 1]] < 0 => f[q[i]] <= f[q[i + 1]])
                      /\ Positive(f[q[i]]) + Positive(f[q[i + 1]]) <= MaxTicks
    OBVIOUS
  <2>1. i + 1 \in 1..Len(q) /\ i + 1 \in 0..Len(q) /\ i - 1 \in 0..Len(q) /\ (i + 1) - 1 = i /\ Len(q) \in 0..Len(q) /\ i + 1 \in 0..Len(q)
    BY <1>1, <1>2
  <2>2. f[q[i + 1]] < 0 => f[q[i]] <= f[q[i + 1]]
    BY <1>1, <1>2, <2>1 DEF Ordered
  <2>3. Sum(f, q, i) = Sum(f, q, i - 1) + Positive(f[q[i]])
    BY <1>0, <1>1, SumAdds
  <2>4. PICK k \in 1..Len(q) : k = i + 1
    BY <2>1
  <2>5. Sum(f, q, k) = Sum(f, q, k - 1) + Positive(f[q[k]]) /\ k - 1 = i
    BY <1>0, <1>1, <2>1, <2>4, SumAdds
  <2>6. Sum(f, q, i - 1) \in Nat
    BY <1>0, <1>1, <2>1, SumIs
  <2>7. Sum(f, q, k) \in Nat /\ Sum(f, q, Len(q)) \in Nat /\ Sum(f, q, k) <= Sum(f, q, Len(q))
    <3>1. k \in 0..Len(q)
      BY <1>2
    <3> QED BY <1>0, <1>1, <2>1, <3>1, SumIs, SumMonotone
  <2>8. Positive(f[q[i]]) \in Nat /\ Positive(f[q[k]]) \in Nat
    BY <1>2, <1>1, <2>4 DEF Positive
  <2>9. PICK a, b, u, v, w : /\ a = Positive(f[q[i]]) /\ b = Positive(f[q[k]])
                             /\ u = Sum(f, q, i - 1) /\ v = Sum(f, q, i) /\ w = Sum(f, q, k)
    OBVIOUS
  <2>10. /\ v = u + a /\ w = v + b /\ u \in Nat /\ a \in Nat /\ b \in Nat /\ w \in Nat
    BY <2>3, <2>5, <2>6, <2>7, <2>8, <2>9
  <2>11. w <= MaxTicks
    BY <1>0, <1>1, <2>7, <2>9
  <2>12. a + b <= MaxTicks
    BY <1>0, <2>10, <2>11
  <2> QED BY <2>1, <2>2, <2>4, <2>9, <2>12
<1>5. g \in [Entry -> (-MaxOverdue)..MaxTicks] /\ g \in Times(MaxTicks)
  <2>1. ASSUME NEW y \in Entry PROVE g[y] \in (-MaxOverdue)..MaxTicks
    <3>1. f[y] \in (-MaxOverdue)..MaxTicks
      BY <1>1
    <3>2. CASE i < Len(q) /\ y = q[i + 1]
      <4>1. g[y] = f[y] + Positive(f[q[i]])
        BY <1>3, <3>2
      <4> QED BY <1>0, <1>1, <1>2, <1>4, <3>1, <3>2, <4>1 DEF Positive
    <3>3. CASE ~(i < Len(q) /\ y = q[i + 1])
      BY <1>3, <3>1, <3>3
    <3> QED BY <3>2, <3>3
  <2>2. g = [y \in Entry |-> g[y]]
    BY <1>e
  <2>3. g \in [Entry -> (-MaxOverdue)..MaxTicks]
    BY <2>1, <2>2
  <2> QED BY <1>0, <2>3 DEF Times
<1>r. Removes(f, g, q, i)
  BY <1>1, <1>3, <1>5 DEF Removes
<1>t. PICK t : t = RemoveAt(q, i)
  OBVIOUS
<1>6. /\ t \in Queue /\ Len(t) = Len(q) - 1 /\ ToSet(t) = ToSet(q) \ {e} /\ t = calltodo'
      /\ \A j \in 1..(Len(q) - 1) : t[j] = IF j < i THEN q[j] ELSE q[j + 1]
  <2>1. /\ t \in Queue /\ Len(t) = Len(q) - 1 /\ ToSet(t) = ToSet(q) \ {q[i]}
        /\ \A j \in 1..(Len(q) - 1) : t[j] = IF j < i THEN q[j] ELSE q[j + 1]
    <3>1. q \in Queue /\ i \in 1..Len(q)
      BY <1>1
    <3> QED BY ONLY <3>1, <1>t, RemoveAtIs
  <2>2. t = calltodo'
    BY <1>e, <1>t
  <2> QED BY <1>2, <2>1, <2>2
<1>7. callfree' \in Queue /\ ToSet(callfree') = ToSet(p) \cup {e}
  <2>1. callfree' = InsertAt(p, 1, e)
    <3>1. <<e>> \o p = InsertAt(p, 1, e)
      BY <1>1, <1>2, QueueEnds
    <3>2. callfree' = <<e>> \o p
      BY <1>e
    <3> QED BY <3>1, <3>2
  <2>2. 1 \in 1..(Len(p) + 1)
    BY <1>1, QueueIs
  <2>3. InsertAt(p, 1, e) \in Queue /\ ToSet(InsertAt(p, 1, e)) = ToSet(p) \cup {e}
    <3>1. p \in Queue /\ e \in Entry /\ e \notin ToSet(p)
      BY <1>1, <1>2
    <3> QED BY ONLY <2>2, <3>1, InsertAtIs
  <2> QED BY <2>1, <2>3
<1>8. TypeOK'
  <2>1. calltodo' \in Seq(Entry) /\ callfree' \in Seq(Entry)
    BY <1>6, <1>7 DEF Queue
  <2> QED BY <1>1, <1>5, <1>e, <2>1 DEF CInv, TypeOK
<1>9. Lists'
  BY <1>1, <1>2, <1>6, <1>7 DEF Lists
<1>10. InOrder'
  <2>1. Ordered(g, t)
    BY <1>r, <1>t, RemoveKeeps
  <2>2. \A j \in 0..(Len(q) - 1) : Sum(g, RemoveAt(q, i), j) = Sum(f, q, Before(i, j))
    BY <1>r, RemoveSums
  <2>3. PICK j, k : j = Len(q) - 1 /\ k = Before(i, j)
    OBVIOUS
  <2>4. j \in 0..(Len(q) - 1) /\ k \in 0..Len(q) /\ Len(q) \in 0..Len(q)
    BY <1>1, <1>2, <2>3 DEF Before
  <2>5. Sum(g, t, j) = Sum(f, q, k)
    BY <1>t, <2>2, <2>3, <2>4
  <2>6. Sum(f, q, k) <= Sum(f, q, Len(q)) /\ Sum(f, q, k) \in Nat /\ Sum(f, q, Len(q)) \in Nat
    BY <1>0, <1>1, <2>4, SumIs, SumMonotone
  <2>7. Sum(g, t, Len(t)) <= MaxTicks
    BY <1>0, <1>1, <1>6, <2>3, <2>5, <2>6
  <2>8. Ordered(c_time', calltodo') /\ Sum(c_time', calltodo', Len(calltodo')) <= MaxTicks
    BY <1>6, <1>e, <2>1, <2>7
  <2> QED BY <2>8 DEF InOrder
<1>11. Noticed'
  <2> SUFFICES ASSUME t # <<>>, g[t[1]] <= 0 PROVE softpend \/ insoft
    BY <1>6, <1>e DEF Noticed, Due
  <2>1. Len(q) > 1 /\ 1 \in 1..Len(q) /\ 2 \in 1..Len(q) /\ 1 \in 1..(Len(q) - 1)
    <3>1. t \in Seq(Entry)
      BY <1>6 DEF Queue
    <3>2. Len(t) # 0
      BY <3>1
    <3> QED BY <1>2, <1>6, <3>2
  <2>2. f[q[1]] <= 0
    <3>1. CASE i = 1
      <4>0. ~(1 < i) /\ 1 + 1 = 2 /\ i + 1 = 2 /\ i < Len(q)
        BY <2>1, <3>1
      <4>1. t[1] = q[2] /\ q[2] = q[i + 1] /\ i < Len(q)
        BY <1>6, <2>1, <4>0
      <4>2. g[q[2]] = f[q[2]] + Positive(f[q[1]])
        BY <1>2, <1>3, <2>1, <3>1, <4>1
      <4> QED BY <1>2, <1>4, <2>1, <3>1, <4>1, <4>2 DEF Positive
    <3>2. CASE i # 1
      <4>1. 1 < i /\ t[1] = q[1]
        <5>1. 1 < i
          BY <1>1, <1>2, <3>2
        <5> QED BY <1>6, <2>1, <5>1
      <4>2. i < Len(q) => q[1] # q[i + 1]
        <5> SUFFICES ASSUME i < Len(q), q[1] = q[i + 1] PROVE FALSE
          OBVIOUS
        <5>1. i + 1 \in 1..Len(q) /\ 1 # i + 1
          BY <1>2, <4>1
        <5> QED BY <1>1, <2>1, <5>1, QueueIs
      <4>3. g[q[1]] = f[q[1]]
        BY <1>2, <1>3, <2>1, <4>2
      <4> QED BY <4>1, <4>3
    <3> QED BY <3>1, <3>2
  <2>3. q # <<>>
    BY <2>1
  <2> QED BY <1>e, <2>2, <2>3 DEF CInv, Noticed, Due
<1>12. /\ DOMAIN Timer' = DOMAIN Timer \ {calltodo[i]}
       /\ \A y \in DOMAIN Timer \ {calltodo[i]} : Timer'[y] = Timer[y]
  <2>1. \A y \in ToSet(q) \ {q[i]} : ArmedOf(RemoveAt(q, i), g, c)[y] = ArmedOf(q, f, c)[y]
    BY <1>r, ArmedRemove
  <2>2. Timer' = ArmedOf(t, g, c) /\ Timer = ArmedOf(q, f, c)
    BY <1>6, <1>e DEF Timer
  <2>3. DOMAIN Timer' = ToSet(t) /\ DOMAIN Timer = ToSet(q)
    BY <2>2 DEF ArmedOf
  <2> QED BY <1>2, <1>6, <1>e, <1>t, <2>1, <2>2, <2>3
<1> QED BY <1>8, <1>9, <1>10, <1>11, <1>12 DEF CInv

LEMMA TimerOrder ==
  ASSUME CInv, NEW i \in 1..Len(calltodo), NEW j \in 1..Len(calltodo), i <= j
  PROVE  /\ Timer[calltodo[i]].left <= Timer[calltodo[j]].left
         /\ Timer[calltodo[i]].key = c_key[calltodo[i]] /\ calltodo[i] \in DOMAIN Timer
         /\ calltodo[i] \in Entry
         /\ Timer[calltodo[i]].left = LeftOf(c_time, calltodo, i)
         /\ \A y \in DOMAIN Timer : \E h \in 1..Len(calltodo) : y = calltodo[h]
<1>e. PICK q, f, c : q = calltodo /\ f = c_time /\ c = c_key
  OBVIOUS
<1>1. /\ q \in Queue /\ f \in Times(MaxTicks) /\ Ordered(f, q) /\ MaxTicks \in Nat
      /\ i \in 1..Len(q) /\ j \in 1..Len(q)
  BY <1>e, CInvFacts
<1>2. i \in 1..j
  BY <1>1, QueueIs
<1>3. LeftOf(f, q, i) <= LeftOf(f, q, j)
  BY <1>1, <1>2, LeftMonotone
<1>4. Timer = ArmedOf(q, f, c) /\ DOMAIN Timer = ToSet(q)
  BY <1>e DEF Timer, ArmedOf
<1>5. \A h \in 1..Len(q) : /\ Timer[q[h]].left = LeftOf(f, q, h) /\ Timer[q[h]].key = c[q[h]]
                           /\ q[h] \in ToSet(q) /\ q[h] \in Entry
  <2> TAKE h \in 1..Len(q)
  <2>1. q[h] \in Entry
    BY <1>1, QueueIs
  <2>2. q[h] \in ToSet(q) /\ ArmedOf(q, f, c)[q[h]].key = c[q[h]]
        /\ ArmedOf(q, f, c)[q[h]].left = LeftOf(f, q, h)
    BY <1>1, ArmedFields
  <2> QED BY <1>4, <2>1, <2>2
<1>6. \A y \in ToSet(q) : \E h \in 1..Len(q) : y = q[h]
  BY <1>1, ArmedIs
<1> QED BY <1>1, <1>3, <1>4, <1>5, <1>6, <1>e

LEMMA UntimeoutStep ==
  ASSUME CInv, NEW k \in Key, untimeout(k)
  PROVE  CInv' /\ (Abstract!Next \/ Timer' = Timer)
<1>1. CASE UNCHANGED <<calltodo, callfree, c_time>>
  <2>1. UNCHANGED <<calltodo, callfree, c_time, c_key, softpend, insoft, panicked>>
    BY <1>1 DEF untimeout
  <2>2. TypeOK' /\ Lists' /\ Noticed' /\ InOrder'
    BY <2>1 DEF CInv, TypeOK, Lists, Noticed, Due, InOrder
  <2>3. Timer' = Timer
    BY <2>1 DEF Timer
  <2> QED BY <2>2, <2>3 DEF CInv
<1>2. CASE ~UNCHANGED <<calltodo, callfree, c_time>>
  <2>0. calltodo \in Queue
    BY CInvFacts
  <2>1. /\ Len(calltodo) \in Nat /\ DOMAIN calltodo = 1..Len(calltodo)
        /\ \A i \in 1..Len(calltodo) : calltodo[i] \in Entry
    BY <2>0, QueueIs
  <2>2. PICK i \in DOMAIN calltodo :
          /\ c_key[calltodo[i]] = k /\ \A j \in 1..(i - 1) : c_key[calltodo[j]] # k
          /\ calltodo' = RemoveAt(calltodo, i)
          /\ callfree' = GivenBack(calltodo[i])
          /\ c_time' = IF i < Len(calltodo)
                       THEN [c_time EXCEPT ![calltodo[i + 1]] = @ + HandedOn(calltodo[i])]
                       ELSE c_time
    BY <1>2 DEF untimeout
  <2>3. i \in 1..Len(calltodo) /\ UNCHANGED <<c_key, softpend, insoft, panicked>>
    BY <2>1, <2>2 DEF untimeout
  <2>4. callfree' = <<calltodo[i]>> \o callfree
    BY <2>2 DEF GivenBack
  <2>5. /\ c_time' = [y \in Entry |-> c_time'[y]]
        /\ \A y \in Entry : c_time'[y] = IF i < Len(calltodo) /\ y = calltodo[i + 1]
                                       THEN c_time[y] + Positive(c_time[calltodo[i]]) ELSE c_time[y]
    <3>1. c_time \in [Entry -> (-MaxOverdue)..MaxTicks]
      BY CInvFacts
    <3>2. CASE i < Len(calltodo)
      <4>1. c_time' = [c_time EXCEPT ![calltodo[i + 1]] = c_time[calltodo[i + 1]] + Positive(c_time[calltodo[i]])]
        BY <2>2, <3>2 DEF HandedOn
      <4> QED BY <3>1, <3>2, <4>1
    <3>3. CASE ~(i < Len(calltodo))
      BY <2>2, <3>1, <3>3
    <3> QED BY <3>2, <3>3
  <2>6. /\ CInv' /\ DOMAIN Timer' = DOMAIN Timer \ {calltodo[i]}
        /\ \A y \in DOMAIN Timer \ {calltodo[i]} : Timer'[y] = Timer[y]
    BY <2>2, <2>3, <2>4, <2>5, OneGoes
  <2>e. PICK e : e = calltodo[i]
    OBVIOUS
  <2>7. /\ e \in Entry /\ e \in DOMAIN Timer /\ Timer[e].key = k
        /\ \A y \in DOMAIN Timer : \E h \in 1..Len(calltodo) : y = calltodo[h]
    <3>1. i <= i
      BY <2>1, <2>3
    <3> QED BY <2>2, <2>3, <2>e, <3>1, TimerOrder
  <2>8. ASSUME NEW y \in DOMAIN Timer, Timer[y].key = Timer[e].key
        PROVE  Timer[e].left <= Timer[y].left
    <3>1. PICK h \in 1..Len(calltodo) : y = calltodo[h]
      BY <2>7
    <3>2. h <= h /\ h \in Int /\ i \in Int
      BY <2>1, <2>3
    <3>3. Timer[y].key = c_key[calltodo[h]]
      BY <3>1, <3>2, TimerOrder
    <3>4. c_key[calltodo[h]] = k
      BY <2>7, <2>8, <3>3
    <3>5. h \notin 1..(i - 1)
      BY <2>2, <3>4
    <3>6. i <= h
      BY <2>1, <2>3, <3>2, <3>5
    <3> QED BY <2>3, <2>e, <3>1, <3>6, TimerOrder
  <2>9. Abstract!Next
    BY <2>6, <2>7, <2>8, <2>e, AbstractCancel
  <2> QED BY <2>6, <2>9
<1> QED BY <1>1, <1>2

LEMMA RunsStep ==
  ASSUME CInv, SoftclockRuns
  PROVE  CInv' /\ Abstract!Next
<1>0. calltodo \in Queue /\ calltodo # <<>> /\ c_time[Head(calltodo)] <= 0
  BY CInvFacts DEF SoftclockRuns, Due
<1>1. 1 \in 1..Len(calltodo) /\ Head(calltodo) = calltodo[1] /\ Tail(calltodo) = RemoveAt(calltodo, 1)
  BY <1>0, QueueEnds
<1>2. /\ calltodo' = RemoveAt(calltodo, 1) /\ callfree' = <<calltodo[1]>> \o callfree
      /\ UNCHANGED <<c_time, c_key, softpend, insoft, panicked>>
  BY <1>1 DEF SoftclockRuns
<1>t. /\ c_time \in [Entry -> (-MaxOverdue)..MaxTicks] /\ MaxTicks \in Nat /\ MaxOverdue \in Nat
      /\ c_time \in Times(MaxTicks)
  BY CInvFacts
<1>3. calltodo[1] \in Entry /\ c_time[calltodo[1]] \in Int
  BY <1>0, <1>1, <1>t, QueueIs
<1>4. Positive(c_time[calltodo[1]]) = 0
  BY <1>0, <1>1, <1>3 DEF Positive
<1>5. /\ c_time' = [y \in Entry |-> c_time'[y]]
      /\ \A y \in Entry : c_time'[y] = IF 1 < Len(calltodo) /\ y = calltodo[1 + 1]
                                     THEN c_time[y] + Positive(c_time[calltodo[1]]) ELSE c_time[y]
  <2>1. ASSUME NEW y \in Entry PROVE c_time[y] + 0 = c_time[y]
    BY <1>t
  <2>2. c_time' = c_time /\ c_time = [y \in Entry |-> c_time[y]]
    BY <1>2, <1>t
  <2>3. c_time' = [y \in Entry |-> c_time'[y]]
    BY <2>2
  <2> QED BY <1>4, <2>1, <2>2, <2>3
<1>6. /\ CInv' /\ DOMAIN Timer' = DOMAIN Timer \ {calltodo[1]}
      /\ \A y \in DOMAIN Timer \ {calltodo[1]} : Timer'[y] = Timer[y]
  BY <1>1, <1>2, <1>5, OneGoes
<1>e. PICK e : e = calltodo[1]
  OBVIOUS
<1>7. /\ e \in Entry /\ e \in DOMAIN Timer
      /\ \A y \in DOMAIN Timer : \E h \in 1..Len(calltodo) : y = calltodo[h]
  <2>1. 1 <= 1
    OBVIOUS
  <2> QED BY <1>1, <1>e, <2>1, TimerOrder
<1>8. \A y \in DOMAIN Timer : Timer[e].left <= Timer[y].left
  <2> TAKE y \in DOMAIN Timer
  <2>1. PICK h \in 1..Len(calltodo) : y = calltodo[h]
    BY <1>7
  <2>2. 1 <= h
    BY <1>0, QueueIs
  <2> QED BY <1>1, <1>e, <2>1, <2>2, TimerOrder
<1>9. Timer[e].left <= 0
  <2>1. Timer[e].left = LeftOf(c_time, calltodo, 1)
    <3>1. 1 <= 1
      OBVIOUS
    <3> QED BY <1>1, <1>e, <3>1, TimerOrder
  <2>2. ASSUME NEW h \in 1..1 PROVE c_time[calltodo[h]] <= 0
    <3>1. h = 1
      OBVIOUS
    <3> QED BY <1>0, <1>1, <3>1
  <2>q. PICK q, f : q = calltodo /\ f = c_time
    OBVIOUS
  <2>3. q \in Queue /\ f \in Times(MaxTicks) /\ 1 \in 0..Len(q) /\ MaxTicks \in Nat /\ \A h \in 1..1 : f[q[h]] <= 0
    BY <1>0, <1>1, <1>t, <2>2, <2>q
  <2>4. Sum(f, q, 1) = 0
    BY <2>3, SumIs
  <2>5. LeftOf(f, q, 1) = f[q[1]]
    BY <2>4 DEF LeftOf
  <2> QED BY <1>0, <1>1, <2>1, <2>5, <2>q
<1>10. Abstract!Next
  BY <1>6, <1>7, <1>8, <1>9, <1>e, AbstractFire
<1> QED BY <1>6, <1>10

LEMMA HardclockStep ==
  ASSUME CInv, hardclock
  PROVE  CInv' /\ Abstract!Next
<1>e. PICK q, f, g, c : q = calltodo /\ f = c_time /\ g = c_time' /\ c = c_key
  OBVIOUS
<1>0. /\ MaxTicks \in Nat \ {0} /\ MaxOverdue \in Nat /\ MaxTicks \in Nat
      /\ q \in Queue /\ f \in Times(MaxTicks) /\ Ordered(f, q)
      /\ f \in [Entry -> (-MaxOverdue)..MaxTicks]
  BY <1>e, CInvFacts
<1>1. /\ Len(q) \in Nat /\ DOMAIN q = 1..Len(q) /\ \A j \in 1..Len(q) : q[j] \in Entry /\ f[q[j]] \in Int
      /\ \A j, h \in 1..Len(q) : q[j] = q[h] => j = h
  BY <1>0, QueueIs DEF Times
<1>2. /\ CountedDown = Counted(f, q) /\ UNCHANGED <<calltodo, callfree, c_key, insoft, panicked>>
      /\ c_time' = [e \in Entry |-> IF e \in CountedDown THEN c_time[e] - 1 ELSE c_time[e]]
      /\ softpend' = (softpend \/ \E e \in CountedDown : NeedsSoft(e))
      /\ calltodo # <<>> => c_time[calltodo[1]] > -MaxOverdue
  BY <1>e DEF hardclock, CountedDown, Counted, Due
<1>3. \A y \in Entry : g[y] = IF y \in Counted(f, q) THEN f[y] - 1 ELSE f[y]
  BY <1>2, <1>e
<1>4. g \in [Entry -> (-MaxOverdue)..MaxTicks] /\ g \in Times(MaxTicks)
  <2>1. ASSUME NEW y \in Entry PROVE g[y] \in (-MaxOverdue)..MaxTicks
    <3>1. f[y] \in (-MaxOverdue)..MaxTicks
      BY <1>0
    <3>2. CASE y \notin Counted(f, q)
      BY <1>3, <3>1, <3>2
    <3>3. CASE y \in Counted(f, q)
      <4>1. PICK i \in 1..Len(q) : y = q[i] /\ \A h \in 1..(i - 1) : f[q[h]] <= 0
        BY <1>1, <3>3 DEF Counted
      <4>2. 1 \in 1..Len(q) /\ i \in Int /\ q # <<>> /\ f[q[1]] > -MaxOverdue
        BY <1>1, <1>2, <1>e
      <4>3. f[y] > -MaxOverdue
        <5>1. CASE i = 1
          BY <4>1, <4>2, <5>1
        <5>2. CASE i # 1
          <6>1. 1 < i /\ 1 \in 1..(i - 1)
            BY <4>2, <5>2
          <6>2. f[q[1]] <= 0
            BY <4>1, <6>1
          <6>3. f[q[i]] < 0 => f[q[1]] <= f[q[i]]
            BY <1>0, <1>1, <4>2, <6>1 DEF Ordered
          <6> QED BY <1>0, <1>1, <4>1, <4>2, <6>2, <6>3
        <5> QED BY <5>1, <5>2
      <4>4. g[y] = f[y] - 1
        BY <1>3, <3>3
      <4> QED BY <1>0, <3>1, <4>3, <4>4
    <3> QED BY <3>2, <3>3
  <2>2. g = [y \in Entry |-> g[y]]
    BY <1>2, <1>e
  <2>3. g \in [Entry -> (-MaxOverdue)..MaxTicks]
    BY <2>1, <2>2
  <2> QED BY <1>0, <2>3 DEF Times
<1>5. TypeOK'
  <2>1. softpend' \in BOOLEAN
    BY <1>2 DEF CInv, TypeOK
  <2> QED BY <1>2, <1>4, <1>e, <2>1 DEF CInv, TypeOK
<1>6. Lists'
  BY <1>2 DEF CInv, Lists
<1>7. InOrder'
  <2>1. Ordered(g, q)
    BY <1>0, <1>3, <1>4, TickKeeps
  <2>l. Len(q) \in Nat
    BY <1>1
  <2>2. PICK n \in 0..Len(q) : n = Len(q)
    BY ONLY <2>l
  <2>3. Sum(g, q, n) = IF Sum(f, q, n) > 0 THEN Sum(f, q, n) - 1 ELSE 0
    BY <1>0, <1>3, <1>4, TickSum
  <2>4. Sum(f, q, n) <= MaxTicks /\ Sum(f, q, n) \in Nat
    BY <1>0, <1>e, <2>2, SumIs DEF CInv, InOrder
  <2>5. Sum(g, q, n) <= MaxTicks
    BY <1>0, <2>3, <2>4
  <2> QED BY <1>2, <1>e, <2>1, <2>2, <2>5 DEF InOrder
<1>8. Noticed'
  <2> SUFFICES ASSUME q # <<>>, g[q[1]] <= 0 PROVE softpend'
    BY <1>2, <1>e DEF Noticed, Due
  <2>1. 1 \in 1..Len(q)
    BY <1>0, QueueEnds
  <2>2. q[1] \in Counted(f, q)
    <3>1. \A h \in 1..(1 - 1) : f[q[h]] <= 0
      OBVIOUS
    <3> QED BY <1>1, <2>1, <3>1 DEF Counted
  <2>3. f[q[1]] - 1 <= 0
    BY <1>1, <1>3, <2>1, <2>2
  <2> QED BY <1>2, <1>e, <2>2, <2>3 DEF NeedsSoft
<1>9. Abstract!Next
  <2>1. \A y \in ToSet(q) : ArmedOf(q, g, c)[y] = [ArmedOf(q, f, c)[y] EXCEPT !.left = @ - 1]
    BY <1>0, <1>3, <1>4, ArmedTick
  <2>2. Timer' = ArmedOf(q, g, c) /\ Timer = ArmedOf(q, f, c)
    BY <1>2, <1>e DEF Timer
  <2>3. DOMAIN Timer' = ToSet(q) /\ DOMAIN Timer = ToSet(q)
    BY <2>2 DEF ArmedOf
  <2> QED BY <2>1, <2>2, <2>3, AbstractTick
<1> QED BY <1>5, <1>6, <1>7, <1>8, <1>9 DEF CInv

LEMMA OtherStep ==
  ASSUME CInv, softclock \/ SoftclockReturns \/ UNCHANGED vars
  PROVE  CInv' /\ Timer' = Timer
<1>1. UNCHANGED <<calltodo, callfree, c_time, c_key, panicked>>
  BY DEF softclock, SoftclockReturns, vars
<1>2. TypeOK'
  <2>1. softpend' \in BOOLEAN /\ insoft' \in BOOLEAN
    BY DEF CInv, TypeOK, softclock, SoftclockReturns, vars
  <2> QED BY <1>1, <2>1 DEF CInv, TypeOK
<1>3. Lists' /\ InOrder'
  BY <1>1 DEF CInv, Lists, InOrder
<1>4. Noticed'
  <2>1. CASE softclock
    BY <2>1 DEF softclock, Noticed
  <2>2. CASE SoftclockReturns
    <3>1. calltodo # <<>> => Head(calltodo) = calltodo[1] /\ ~(c_time[Head(calltodo)] <= 0)
      BY <2>2, CInvFacts, QueueEnds DEF SoftclockReturns, Due
    <3> QED BY <1>1, <3>1 DEF Noticed, Due
  <2>3. CASE UNCHANGED vars
    BY <2>3 DEF CInv, Noticed, Due, vars
  <2> QED BY <2>1, <2>2, <2>3
<1>5. Timer' = Timer
  BY <1>1 DEF Timer
<1> QED BY <1>2, <1>3, <1>4, <1>5 DEF CInv

-----------------------------------------------------------------------------
(* The theorems.                                                           *)

LEMMA CInvInit == Init => CInv /\ Timer = <<>>
<1> SUFFICES ASSUME Init PROVE CInv /\ Timer = <<>>
  OBVIOUS
<1>0. MaxTicks \in Nat \ {0} /\ MaxOverdue \in Nat /\ ncallout \in Nat \ {0}
  BY BoundsAreNat
<1>1. calltodo = <<>> /\ callfree = [i \in 1..ncallout |-> i]
  BY DEF Init, Entry
<1>2. callfree \in Seq(Entry) /\ Len(callfree) = ncallout /\ DOMAIN callfree = 1..ncallout
  BY <1>0, <1>1 DEF Entry
<1>3. callfree \in Queue /\ ToSet(callfree) = Entry
  BY <1>1, <1>2 DEF Queue, IsInjective, ToSet, Entry
<1>4. calltodo \in Queue /\ ToSet(calltodo) = {} /\ Len(calltodo) = 0 /\ DOMAIN calltodo = {}
  BY <1>1 DEF Queue, IsInjective, ToSet
<1>5. TypeOK
  <2>1. c_time \in [Entry -> (-MaxOverdue)..MaxTicks]
    BY <1>0 DEF Init
  <2> QED BY <1>2, <1>4, <2>1 DEF TypeOK, Init, Queue
<1>6. Lists
  BY <1>3, <1>4 DEF Lists
<1>7. Noticed
  BY <1>1 DEF Noticed
<1>8. InOrder
  <2>1. Ordered(c_time, calltodo)
    BY <1>4 DEF Ordered
  <2>2. First(calltodo, Len(calltodo)) = {}
    BY <1>4 DEF First
  <2>3. Sum(c_time, calltodo, Len(calltodo)) = 0
    BY <2>2, TotalEmpty DEF Sum
  <2> QED BY <1>0, <2>1, <2>3 DEF InOrder
<1>9. Timer = <<>>
  BY <1>4 DEF Timer, ArmedOf
<1> QED BY <1>5, <1>6, <1>7, <1>8, <1>9 DEF CInv

LEMMA CInvNext ==
  ASSUME CInv, [Next]_vars
  PROVE  CInv' /\ (Abstract!Next \/ Timer' = Timer)
<1>1. ASSUME NEW k \in Key, NEW ticks \in 0..MaxTicks, timeout(k, ticks)
      PROVE  CInv' /\ (Abstract!Next \/ Timer' = Timer)
  BY <1>1, TimeoutStep
<1>2. ASSUME NEW k \in Key, untimeout(k)
      PROVE  CInv' /\ (Abstract!Next \/ Timer' = Timer)
  BY <1>2, UntimeoutStep
<1>3. CASE hardclock
  BY <1>3, HardclockStep
<1>4. CASE SoftclockRuns
  BY <1>4, RunsStep
<1>5. CASE softclock \/ SoftclockReturns \/ UNCHANGED vars
  BY <1>5, OtherStep
<1> QED BY <1>1, <1>2, <1>3, <1>4, <1>5 DEF Next

(* The invariant that the theorems below rest on: the two lists share the  *)
(* table, the queue is ordered, and what is due is noticed.                *)
THEOREM CalloutInductive == Spec => []CInv
<1>1. Init => CInv
  BY CInvInit
<1>2. CInv /\ [Next]_vars => CInv'
  BY CInvNext
<1> QED BY <1>1, <1>2, PTL DEF Spec

(* timeout(), untimeout() and hardclock() keep c_time of every entry       *)
(* within the lateness of the first one and the longest delay, however     *)
(* their calls and those of softclock() interleave.                        *)
THEOREM CalloutTypeOK == Spec => []TypeOK
<1>1. CInv => TypeOK
  BY DEF CInv
<1> QED BY <1>1, CalloutInductive, PTL

(* No entry of the table is lost or on both lists, and what is due is      *)
(* about to be run: softclock() is pending or in its loop.                 *)
THEOREM CalloutTableIsKept == Spec => []TableIsKept
<1>1. ASSUME CInv PROVE TableIsKept
  <2>e. PICK a, b, all : a = calltodo /\ b = callfree /\ all = a \o b
    OBVIOUS
  <2>1. a \in Queue /\ b \in Queue /\ ToSet(a) \cap ToSet(b) = {} /\ ToSet(a) \cup ToSet(b) = Entry
    BY <2>e, <1>1 DEF CInv, Lists
  <2>2. /\ Len(a) \in Nat /\ DOMAIN a = 1..Len(a) /\ \A i, j \in 1..Len(a) : a[i] = a[j] => i = j
        /\ a \in Seq(Entry) /\ b \in Seq(Entry)
    BY <2>1, QueueIs DEF Queue
  <2>3. Len(b) \in Nat /\ DOMAIN b = 1..Len(b) /\ \A i, j \in 1..Len(b) : b[i] = b[j] => i = j
    BY <2>1, QueueIs
  <2>4. /\ all \in Seq(Entry) /\ Len(all) = Len(a) + Len(b)
        /\ \A i \in 1..(Len(a) + Len(b)) : all[i] = IF i <= Len(a) THEN a[i] ELSE b[i - Len(a)]
    BY <2>2, <2>e, ConcatProperties
  <2>5. DOMAIN all = 1..(Len(a) + Len(b))
    BY <2>4
  <2>6. \A i \in 1..Len(a), j \in 1..Len(b) : a[i] # b[j]
    <3>1. \A i \in 1..Len(a) : a[i] \in ToSet(a)
      BY <2>2 DEF ToSet
    <3>2. \A j \in 1..Len(b) : b[j] \in ToSet(b)
      BY <2>3 DEF ToSet
    <3> QED BY <2>1, <3>1, <3>2
  <2>7. IsInjective(all)
    <3>1. ASSUME NEW i \in 1..(Len(a) + Len(b)), NEW j \in 1..(Len(a) + Len(b)), all[i] = all[j]
          PROVE  i = j
      <4>1. i \in Int /\ j \in Int
        OBVIOUS
      <4>2. i <= Len(a) => i \in 1..Len(a) /\ all[i] = a[i]
        BY <2>2, <2>4
      <4>3. ~(i <= Len(a)) => i - Len(a) \in 1..Len(b) /\ all[i] = b[i - Len(a)]
        BY <2>2, <2>3, <2>4
      <4>4. j <= Len(a) => j \in 1..Len(a) /\ all[j] = a[j]
        BY <2>2, <2>4
      <4>5. ~(j <= Len(a)) => j - Len(a) \in 1..Len(b) /\ all[j] = b[j - Len(a)]
        BY <2>2, <2>3, <2>4
      <4>6. CASE i <= Len(a) /\ j <= Len(a)
        BY <2>2, <3>1, <4>2, <4>4, <4>6
      <4>7. CASE ~(i <= Len(a)) /\ ~(j <= Len(a))
        <5>1. i - Len(a) = j - Len(a)
          BY <2>3, <3>1, <4>3, <4>5, <4>7
        <5> QED BY <2>2, <4>1, <5>1
      <4>8. CASE i <= Len(a) /\ ~(j <= Len(a))
        BY <2>6, <3>1, <4>2, <4>5, <4>8
      <4>9. CASE ~(i <= Len(a)) /\ j <= Len(a)
        BY <2>6, <3>1, <4>3, <4>4, <4>9
      <4> QED BY <4>6, <4>7, <4>8, <4>9
    <3> QED BY <2>5, <3>1 DEF IsInjective
  <2>8. ToSet(all) = Entry
    <3>1. ASSUME NEW i \in 1..(Len(a) + Len(b)) PROVE all[i] \in Entry
      BY <2>4
    <3>2. ASSUME NEW i \in 1..Len(a) PROVE a[i] \in ToSet(all)
      <4>1. i \in 1..(Len(a) + Len(b)) /\ all[i] = a[i]
        BY <2>2, <2>3, <2>4
      <4> QED BY <2>5, <4>1 DEF ToSet
    <3>3. ASSUME NEW i \in 1..Len(b) PROVE b[i] \in ToSet(all)
      <4>1. i + Len(a) \in 1..(Len(a) + Len(b)) /\ ~(i + Len(a) <= Len(a)) /\ (i + Len(a)) - Len(a) = i
        BY <2>2, <2>3
      <4>2. all[i + Len(a)] = b[i]
        BY <2>4, <4>1
      <4> QED BY <2>5, <4>1, <4>2 DEF ToSet
    <3>4. ToSet(all) \subseteq Entry
      BY <2>5, <3>1 DEF ToSet
    <3>5. ToSet(a) \subseteq ToSet(all) /\ ToSet(b) \subseteq ToSet(all)
      <4>1. ToSet(a) = {a[i] : i \in 1..Len(a)} /\ ToSet(b) = {b[i] : i \in 1..Len(b)}
        BY <2>2, <2>3 DEF ToSet
      <4> QED BY <3>2, <3>3, <4>1
    <3> QED BY <2>1, <3>4, <3>5
  <2>9. calltodo # <<>> /\ Due(calltodo[1]) => softpend \/ insoft
    BY <1>1 DEF CInv, Noticed
  <2>10. IsInjective(calltodo \o callfree) /\ ToSet(calltodo \o callfree) = Entry
    BY <2>7, <2>8, <2>e
  <2> QED BY <2>9, <2>10 DEF TableIsKept
<1> QED BY <1>1, CalloutInductive, PTL

(* The delta list implements Timers: every timer armed with timeout() runs *)
(* after the ticks asked for and never before, those that are due in the   *)
(* order of their deadlines, and untimeout() cancels the earliest of its   *)
(* key and shifts no other.                                                *)
THEOREM CalloutKeepsPromise == Spec => KeepsPromise
<1>1. Init => Abstract!Init
  BY CInvInit, ArmedIsTimer DEF Abstract!Init
<1>2. CInv /\ [Next]_vars => [Abstract!Next]_Armed
  <2> SUFFICES ASSUME CInv, [Next]_vars PROVE Abstract!Next \/ Armed' = Armed
    OBVIOUS
  <2> QED BY CInvNext, ArmedIsTimer
<1> QED BY <1>1, <1>2, CalloutInductive, PTL DEF Spec, KeepsPromise, Abstract!Spec

=============================================================================
