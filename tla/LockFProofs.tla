----------------------------- MODULE LockFProofs -----------------------------
(* For any owners, ranges, requests and maxlockdepth, the lists of         *)
(* lf_setlock() and lf_clearlock() stay in order, nobody is forgotten on   *)
(* them, every circle of waiters is found, and what is granted implements  *)
(* ByteLocks.                                                              *)
(*                                                                         *)
(* The argument has three parts.  Whatever its case, a call makes of the   *)
(* list a list that is Rewritten: what is left of the owner's overlaps and *)
(* all other locks, in the same order, and the new lock between them.  A   *)
(* rewritten list keeps the order and the bytes, and Inherits the waiters  *)
(* that were not woken.  And a sleeper that joins closes no circle that    *)
(* the search did not see: what it finds in n steps it finds in n + 1, and *)
(* among maxlockdepth + 1 sleepers it finds nothing new after maxlockdepth *)
(* steps at the latest.                                                    *)
EXTENDS LockF, FiniteSetTheorems, WellFoundedInduction, TLAPS

(* Of the places 1 .. n, a set that is not empty has a first one.          *)
LEMMA LeastExists ==
  ASSUME NEW n \in Nat, NEW K \in SUBSET (1..n), K # {}
  PROVE  \E l \in K : \A k \in K : l <= k
<1> DEFINE Upto == {1..k : k \in K}
<1>1. IsFiniteSet(1..n)
  BY FS_Interval
<1>2. \A k \in K : 1..k \in SUBSET (1..n) /\ IsFiniteSet(1..k)
  <2>1. \A k \in K : 1..k \in SUBSET (1..n)
    OBVIOUS
  <2> QED
    BY <1>1, <2>1, FS_Subset
<1>3. Upto \subseteq FiniteSubsetsOf(1..n) /\ Upto # {}
  BY <1>2 DEF FiniteSubsetsOf
<1>4. IsWellFoundedOn(StrictSubsetOrdering(1..n), FiniteSubsetsOf(1..n))
  BY <1>1, FS_StrictSubsetOrderingWellFounded
<1>5. PICK u \in Upto : \A v \in Upto : <<v, u>> \notin StrictSubsetOrdering(1..n)
  <2> HIDE DEF Upto
  <2> QED
    BY <1>3, <1>4, WFMin
<1>6. PICK l \in K : u = 1..l
  OBVIOUS
<1>7. ASSUME NEW k \in K, k < l PROVE FALSE
  <2>1. 1..k \subseteq 1..l /\ 1..l \subseteq 1..n /\ l \in 1..l /\ l \notin 1..k
    BY <1>7
  <2>2. <<1..k, 1..l>> \in StrictSubsetOrdering(1..n)
    BY <2>1 DEF StrictSubsetOrdering
  <2>3. 1..k \in Upto
    OBVIOUS
  <2> QED
    BY <1>5, <1>6, <2>2, <2>3
<1>8. \A k \in K : k \in Int /\ l \in Int
  OBVIOUS
<1> QED
  BY <1>7, <1>8

LEMMA FirstOfIs ==
  ASSUME NEW n \in Nat, NEW S \in SUBSET (1..n)
  PROVE  /\ S = {} => FirstOf(S) = 0
         /\ S # {} => FirstOf(S) \in S /\ \A k \in S : FirstOf(S) <= k
<1>1. CASE S = {}
  BY <1>1 DEF FirstOf
<1>2. CASE S # {}
  <2>1. \E l \in S : \A k \in S : l <= k
    BY <1>2, LeastExists
  <2> QED
    BY <1>2, <2>1 DEF FirstOf, Min
<1> QED
  BY <1>1, <1>2

(* f is the concatenation of the first n of ss: its k-th element is the    *)
(* pos[k]-th of the blk[k]-th sequence, and they are in that order.        *)
Spread(f, ss, n, blk, pos) ==
  /\ blk \in [DOMAIN f -> 1..n] /\ pos \in [DOMAIN f -> Nat]
  /\ \A k \in DOMAIN f : pos[k] \in DOMAIN ss[blk[k]] /\ f[k] = ss[blk[k]][pos[k]]
  /\ \A j, k \in DOMAIN f : j < k => blk[j] < blk[k] \/ (blk[j] = blk[k] /\ pos[j] < pos[k])
  /\ \A i \in 1..n : \A j \in DOMAIN ss[i] : \E k \in DOMAIN f : blk[k] = i /\ pos[k] = j

LEMMA SpreadOne ==
  ASSUME NEW S, NEW ss, ss[1] \in Seq(S)
  PROVE  \E blk, pos : Spread(ss[1], ss, 1, blk, pos)
<1> DEFINE blk == [k \in DOMAIN ss[1] |-> 1]
           pos == [k \in DOMAIN ss[1] |-> k]
<1>1. Spread(ss[1], ss, 1, blk, pos)
  BY DEF Spread
<1> QED
  BY <1>1

LEMMA SpreadNext ==
  ASSUME NEW S, NEW ss, NEW n \in Nat, NEW f \in Seq(S), NEW blk, NEW pos,
         Spread(f, ss, n, blk, pos), ss[n + 1] \in Seq(S)
  PROVE  \E b, p : Spread(f \o ss[n + 1], ss, n + 1, b, p)
<1> DEFINE s == ss[n + 1]
           g == f \o s
           m == Len(f)
           b == [k \in DOMAIN g |-> IF k <= m THEN blk[k] ELSE n + 1]
           p == [k \in DOMAIN g |-> IF k <= m THEN pos[k] ELSE k - m]
<1>1. /\ m \in Nat /\ DOMAIN f = 1..m
      /\ Len(s) \in Nat /\ DOMAIN s = 1..Len(s)
      /\ g \in Seq(S) /\ Len(g) = m + Len(s) /\ DOMAIN g = 1 .. m + Len(s)
  OBVIOUS
<1>2. \A k \in 1..m : k \in DOMAIN g /\ g[k] = f[k]
  OBVIOUS
<1>3. \A j \in 1..Len(s) : m + j \in DOMAIN g /\ g[m + j] = s[j]
  OBVIOUS
<1>4. \A k \in DOMAIN g : k \in 1..m \/ (k - m \in 1..Len(s) /\ k = m + (k - m) /\ k > m)
  BY <1>1
<1>5. /\ blk \in [1..m -> 1..n] /\ pos \in [1..m -> Nat]
      /\ \A k \in 1..m : pos[k] \in DOMAIN ss[blk[k]] /\ f[k] = ss[blk[k]][pos[k]]
      /\ \A j, k \in 1..m : j < k => blk[j] < blk[k] \/ (blk[j] = blk[k] /\ pos[j] < pos[k])
      /\ \A i \in 1..n : \A j \in DOMAIN ss[i] : \E k \in 1..m : blk[k] = i /\ pos[k] = j
  <2> HIDE DEF g, s, m, b, p
  <2>1. DOMAIN f = 1..m
    BY <1>1
  <2> QED
    BY <2>1 DEF Spread
<1> HIDE DEF g, s, m
<1>6. \A k \in 1..m : b[k] = blk[k] /\ p[k] = pos[k] /\ b[k] \in 1..n /\ p[k] \in Nat
  BY <1>1, <1>2, <1>5
<1>7. \A k \in DOMAIN g : k \notin 1..m => b[k] = n + 1 /\ p[k] = k - m /\ k - m \in 1..Len(s)
  BY <1>1, <1>4
<1> HIDE DEF b, p
<1>8. b \in [DOMAIN g -> 1 .. n + 1] /\ p \in [DOMAIN g -> Nat]
  <2>1. \A k \in DOMAIN g : b[k] \in 1 .. n + 1 /\ p[k] \in Nat
    <3> SUFFICES ASSUME NEW k \in DOMAIN g PROVE b[k] \in 1 .. n + 1 /\ p[k] \in Nat
      OBVIOUS
    <3>1. CASE k \in 1..m
      BY <1>6, <3>1
    <3>2. CASE k \notin 1..m
      BY <1>7, <3>2
    <3> QED
      BY <3>1, <3>2
  <2> QED
    BY <2>1 DEF b, p
<1>9. ASSUME NEW k \in DOMAIN g
      PROVE  p[k] \in DOMAIN ss[b[k]] /\ g[k] = ss[b[k]][p[k]]
  <2>1. CASE k \in 1..m
    BY <1>2, <1>5, <1>6, <2>1
  <2>2. CASE k \notin 1..m
    <3>1. ss[b[k]] = s /\ p[k] = k - m /\ k - m \in 1..Len(s)
      BY <1>7, <2>2 DEF s
    <3>2. k = m + (k - m)
      BY <1>4, <2>2
    <3>3. g[m + (k - m)] = s[k - m]
      BY <1>3, <3>1
    <3>4. g[k] = s[k - m]
      BY <3>2, <3>3
    <3> QED
      BY <1>1, <3>1, <3>4
  <2> QED
    BY <2>1, <2>2
<1>10. ASSUME NEW j \in DOMAIN g, NEW k \in DOMAIN g, j < k
       PROVE  b[j] < b[k] \/ (b[j] = b[k] /\ p[j] < p[k])
  <2>1. CASE k \in 1..m
    <3>1. j \in 1..m
      BY <1>1, <1>10, <2>1
    <3> QED
      BY <1>5, <1>6, <1>10, <2>1, <3>1
  <2>2. CASE k \notin 1..m /\ j \in 1..m
    BY <1>6, <1>7, <2>2
  <2>3. CASE k \notin 1..m /\ j \notin 1..m
    BY <1>1, <1>7, <1>10, <2>3
  <2> QED
    BY <2>1, <2>2, <2>3
<1>11. ASSUME NEW i \in 1 .. n + 1, NEW j \in DOMAIN ss[i]
       PROVE  \E k \in DOMAIN g : b[k] = i /\ p[k] = j
  <2>1. CASE i \in 1..n
    <3>1. PICK k \in 1..m : blk[k] = i /\ pos[k] = j
      BY <1>5, <2>1
    <3> QED
      BY <1>2, <1>6, <3>1
  <2>2. CASE i = n + 1
    <3>1. j \in 1..Len(s)
      BY <1>1, <2>2 DEF s
    <3>2. m + j \in DOMAIN g /\ m + j \notin 1..m
      BY <1>1, <1>3, <3>1
    <3>3. b[m + j] = i /\ p[m + j] = j
      BY <1>1, <1>7, <2>2, <3>1, <3>2
    <3> QED
      BY <3>2, <3>3
  <2> QED
    BY <2>1, <2>2
<1>12. Spread(g, ss, n + 1, b, p)
  BY <1>8, <1>9, <1>10, <1>11 DEF Spread
<1> QED
  BY <1>12 DEF g, s

(* A recursive definition along 1 .. k has one solution.                   *)
LEMMA FlattenIs ==
  ASSUME NEW k \in Nat \ {0}, NEW seqs, DOMAIN seqs = 1..k, Len(seqs) = k,
         NEW g, g = [i \in 1..k |-> IF i = 1 THEN seqs[i] ELSE g[i - 1] \o seqs[i]]
  PROVE  FlattenSeq(seqs) = g[k]
<1> DEFINE Def(h) == [i \in 1..k |-> IF i = 1 THEN seqs[i] ELSE h[i - 1] \o seqs[i]]
<1>1. PICK f : f = CHOOSE h : h = Def(h)
  OBVIOUS
<1>2. FlattenSeq(seqs) = f[k]
  BY <1>1 DEF FlattenSeq
<1>3. f = Def(f)
  <2>1. g = Def(g)
    OBVIOUS
  <2> HIDE DEF Def
  <2> QED
    BY <1>1, <2>1
<1>4. \A i \in 1..k : f[i] = g[i]
  <2> SUFFICES ASSUME \E i \in 1..k : f[i] # g[i] PROVE FALSE
    OBVIOUS
  <2> DEFINE K == {i \in 1..k : f[i] # g[i]}
  <2>1. K \in SUBSET (1..k) /\ K # {}
    OBVIOUS
  <2>2. PICK l \in K : \A i \in K : l <= i
    <3> HIDE DEF K
    <3> QED
      BY <2>1, LeastExists
  <2>3. CASE l = 1
    <3>1. f[1] = seqs[1] /\ g[1] = seqs[1]
      BY <1>3
    <3> QED
      BY <2>2, <2>3, <3>1
  <2>4. CASE l # 1
    <3>1. l - 1 \in 1..k /\ l - 1 \notin K
      BY <2>2, <2>4
    <3>2. f[l - 1] = g[l - 1]
      BY <3>1
    <3>3. f[l] = f[l - 1] \o seqs[l] /\ g[l] = g[l - 1] \o seqs[l]
      BY <1>3, <2>2, <2>4
    <3> QED
      BY <2>2, <3>2, <3>3
  <2> QED
    BY <2>3, <2>4
<1> QED
  BY <1>2, <1>4

(* FlattenSeq() concatenates.                                              *)
LEMMA FlattenSpreads ==
  ASSUME NEW S, NEW ss \in Seq(Seq(S))
  PROVE  /\ FlattenSeq(ss) \in Seq(S)
         /\ \E blk, pos : Spread(FlattenSeq(ss), ss, Len(ss), blk, pos)
<1> DEFINE n == Len(ss)
           Rec(h, k) == h = [i \in 1..k |-> IF i = 1 THEN ss[i] ELSE h[i - 1] \o ss[i]]
           Good(k) == \E h : /\ Rec(h, k) /\ h[k] \in Seq(S)
                             /\ \E blk, pos : Spread(h[k], ss, k, blk, pos)
<1>1. n \in Nat /\ DOMAIN ss = 1..n /\ \A i \in 1..n : ss[i] \in Seq(S)
  OBVIOUS
<1>2. CASE n = 0
  <2>1. ss = <<>> /\ FlattenSeq(ss) = <<>>
    BY <1>2 DEF FlattenSeq
  <2>2. Spread(<<>>, ss, 0, <<>>, <<>>)
    <3>1. <<>> \in [{} -> 1..0] /\ <<>> \in [{} -> Nat] /\ DOMAIN <<>> = {} /\ 1..0 = {}
      OBVIOUS
    <3> QED
      BY <3>1 DEF Spread
  <2>3. PICK b, p, f : /\ b = <<>> /\ p = <<>> /\ f = <<>>
                       /\ Spread(f, ss, 0, b, p)
    BY <2>2
  <2>4. FlattenSeq(ss) = f
    BY <2>1, <2>3
  <2>5. f \in Seq(S)
    BY <2>3
  <2>6. \E blk, pos : Spread(f, ss, 0, blk, pos)
    BY ONLY <2>3
  <2> QED
    BY ONLY <1>2, <2>4, <2>5, <2>6
<1>3. CASE n # 0
  <2>1. Good(1)
    <3> DEFINE h == [i \in 1..1 |-> ss[i]]
    <3>1. h[1] = ss[1] /\ ss[1] \in Seq(S)
      BY <1>1, <1>3
    <3>2. Rec(h, 1)
      OBVIOUS
    <3>3. \E blk, pos : Spread(ss[1], ss, 1, blk, pos)
      BY <3>1, SpreadOne
    <3> HIDE DEF Rec, h
    <3> QED
      BY <3>1, <3>2, <3>3
  <2>2. ASSUME NEW k \in 1..n, k + 1 \in 1..n, Good(k)
        PROVE  Good(k + 1)
    <3>1. PICK h : /\ Rec(h, k) /\ h[k] \in Seq(S)
                   /\ \E blk, pos : Spread(h[k], ss, k, blk, pos)
      BY <2>2
    <3>0. PICK u : u = h[k] \o ss[k + 1]
      OBVIOUS
    <3> DEFINE g == [i \in 1 .. k + 1 |-> IF i <= k THEN h[i] ELSE u]
    <3>2. k \in Nat /\ k + 1 # 1 /\ ss[k + 1] \in Seq(S)
      BY <1>1, <2>2
    <3>3. Rec(g, k + 1)
      <4>1. \A i \in 1..k : h[i] = IF i = 1 THEN ss[i] ELSE h[i - 1] \o ss[i]
        BY <3>1
      <4>2. ASSUME NEW i \in 1 .. k + 1
            PROVE  g[i] = IF i = 1 THEN ss[i] ELSE g[i - 1] \o ss[i]
        <5>1. CASE i = 1
          BY <3>2, <4>1, <5>1
        <5>2. CASE i # 1 /\ i <= k
          <6>1. i \in 1..k /\ i - 1 \in 1..k /\ i - 1 <= k /\ i - 1 \in 1 .. k + 1
            BY <3>2, <5>2
          <6>2. g[i] = h[i] /\ g[i - 1] = h[i - 1]
            BY <5>2, <6>1
          <6> QED
            BY <4>1, <5>2, <6>1, <6>2
        <5>3. CASE i = k + 1
          <6>1. /\ ~(k + 1 <= k) /\ (k + 1) - 1 = k /\ k <= k
                /\ k \in 1 .. k + 1 /\ k + 1 \in 1 .. k + 1
            BY <3>2
          <6>2. g[k + 1] = u /\ g[k] = h[k]
            BY <6>1
          <6> QED
            BY <3>0, <3>2, <5>3, <6>1, <6>2
        <5> QED
          BY <3>2, <5>1, <5>2, <5>3
      <4>3. g = [i \in 1 .. k + 1 |-> g[i]]
        OBVIOUS
      <4> HIDE DEF g
      <4> QED
        BY <4>2, <4>3
    <3>4. g[k + 1] = u
      <4>1. k + 1 \in 1 .. k + 1 /\ ~(k + 1 <= k)
        BY <3>2
      <4> QED
        BY <4>1
    <3>5. \E b, p : Spread(u, ss, k + 1, b, p)
      BY <3>0, <3>1, <3>2, SpreadNext
    <3>6. u \in Seq(S)
      BY <3>0, <3>1, <3>2
    <3> HIDE DEF Rec, g
    <3> QED
      BY <3>3, <3>4, <3>5, <3>6
  <2> HIDE DEF Good
  <2>3. \A k \in 1..n : Good(k)
    <3> SUFFICES ASSUME \E k \in 1..n : ~Good(k) PROVE FALSE
      OBVIOUS
    <3> DEFINE K == {k \in 1..n : ~Good(k)}
    <3>1. K \in SUBSET (1..n) /\ K # {}
      OBVIOUS
    <3>2. PICK l \in K : \A k \in K : l <= k
      <4> HIDE DEF K
      <4> QED
        BY <1>1, <3>1, LeastExists
    <3>3. l # 1
      BY <2>1
    <3>4. l - 1 \in 1..n /\ l - 1 \notin K /\ (l - 1) + 1 = l
      BY <1>1, <3>2, <3>3
    <3>5. Good(l - 1)
      BY <3>4
    <3>6. (l - 1) + 1 \in 1..n
      BY <3>4
    <3>7. Good((l - 1) + 1)
      BY <2>2, <3>4, <3>5, <3>6
    <3> QED
      BY <3>4, <3>7
  <2>4. PICK h : /\ Rec(h, n) /\ h[n] \in Seq(S)
                 /\ \E blk, pos : Spread(h[n], ss, n, blk, pos)
    <3>1. n \in 1..n
      BY <1>1, <1>3
    <3>2. Good(n)
      BY <2>3, <3>1
    <3> HIDE DEF Rec, n
    <3> QED
      BY <3>2 DEF Good
  <2>5. FlattenSeq(ss) = h[n]
    <3>1. n \in Nat \ {0} /\ DOMAIN ss = 1..n
      BY <1>1, <1>3
    <3>2. h = [i \in 1..n |-> IF i = 1 THEN ss[i] ELSE h[i - 1] \o ss[i]]
      BY <2>4
    <3> QED
      BY <3>1, <3>2, FlattenIs
  <2> QED
    BY <2>4, <2>5
<1> QED
  BY <1>2, <1>3

-----------------------------------------------------------------------------
(* Ranges.  A call is for a lock l that is in no list yet.                 *)
Call ==
  {l \in [id : Owner, type : LockType \cup {"F_UNLCK"}, start : 0 .. LastByte,
          end : (0 .. LastByte) \cup {EOF}, block : {<<>>}] :
     l.end = EOF \/ l.start <= l.end}

Rec(i, t, s, e, b) == [id |-> i, type |-> t, start |-> s, end |-> e, block |-> b]

LEMMA EndChanged ==
  ASSUME NEW i, NEW t, NEW s, NEW e, NEW b, NEW v
  PROVE  [Rec(i, t, s, e, b) EXCEPT !.end = v] = Rec(i, t, s, v, b)
BY DEF Rec

LEMMA StartChanged ==
  ASSUME NEW i, NEW t, NEW s, NEW e, NEW b, NEW v
  PROVE  [Rec(i, t, s, e, b) EXCEPT !.start = v] = Rec(i, t, v, e, b)
BY DEF Rec

LEMMA BlockChanged ==
  ASSUME NEW i, NEW t, NEW s, NEW e, NEW b, NEW v
  PROVE  [Rec(i, t, s, e, b) EXCEPT !.block = v] = Rec(i, t, s, e, v)
BY DEF Rec

(* A lock that ends or starts elsewhere, with nobody on its list.          *)
EndsAt(o, v) == [o EXCEPT !.end = v, !.block = <<>>]
StartsAt(o, v) == [o EXCEPT !.start = v, !.block = <<>>]

LEMMA Shortened ==
  ASSUME NEW i, NEW t, NEW s, NEW e, NEW b, NEW v, NEW o, o = Rec(i, t, s, e, b)
  PROVE  EndsAt(o, v) = Rec(i, t, s, v, <<>>) /\ StartsAt(o, v) = Rec(i, t, v, e, <<>>)
<1>1. EndsAt(o, v) = Rec(i, t, s, v, <<>>)
  <2>1. [Rec(i, t, s, e, b) EXCEPT !.end = v] = Rec(i, t, s, v, b)
    BY EndChanged
  <2>2. [Rec(i, t, s, v, b) EXCEPT !.block = <<>>] = Rec(i, t, s, v, <<>>)
    BY BlockChanged
  <2>3. EndsAt(o, v) = [[o EXCEPT !.end = v] EXCEPT !.block = <<>>]
    BY DEF EndsAt
  <2> QED
    BY <2>1, <2>2, <2>3
<1>2. StartsAt(o, v) = Rec(i, t, v, e, <<>>)
  <2>1. [Rec(i, t, s, e, b) EXCEPT !.start = v] = Rec(i, t, v, e, b)
    BY StartChanged
  <2>2. [Rec(i, t, v, e, b) EXCEPT !.block = <<>>] = Rec(i, t, v, e, <<>>)
    BY BlockChanged
  <2>3. StartsAt(o, v) = [[o EXCEPT !.start = v] EXCEPT !.block = <<>>]
    BY DEF StartsAt
  <2> QED
    BY <2>1, <2>2, <2>3
<1> QED
  BY <1>1, <1>2

LEMMA RecIs ==
  ASSUME NEW i, NEW t, NEW s, NEW e, NEW b, NEW r, r = Rec(i, t, s, e, b)
  PROVE  r.id = i /\ r.type = t /\ r.start = s /\ r.end = e /\ r.block = b
BY DEF Rec

LEMMA LockIs ==
  ASSUME NEW o \in Lock \cup Call
  PROVE  /\ LastByte \in Nat
         /\ o.id \in Owner /\ o.type \in LockType \cup {"F_UNLCK"}
         /\ o.start \in Nat /\ o.start \in 0 .. LastByte + 1
         /\ End(o) \in Nat /\ End(o) \in 0 .. LastByte + 1 /\ o.start <= End(o)
         /\ o.end = EOF => End(o) = LastByte + 1
         /\ o.end # EOF => End(o) = o.end /\ End(o) <= LastByte
         /\ o.block \in Seq(Owner)
         /\ o = Rec(o.id, o.type, o.start, o.end, o.block)
<1>1. LastByte \in Nat
  BY BoundsAreNat
<1>2. EOF = -1
  BY DEF EOF
<1>3. CASE o \in Lock
  BY <1>1, <1>2, <1>3 DEF Lock, End, LockType, Rec
<1>4. CASE o \in Call
  <2>1. o.block = <<>> /\ <<>> \in Seq(Owner)
    BY <1>4 DEF Call
  <2> QED
    BY <1>1, <1>2, <1>4, <2>1 DEF Call, End, LockType, Rec
<1> QED
  BY <1>3, <1>4

LEMMA LockFields ==
  ASSUME NEW o, o.id \in Owner, o.type \in LockType, o.start \in 0 .. LastByte + 1,
         o.end \in (0 .. LastByte) \cup {EOF}, o.block \in Seq(Owner),
         o.end = EOF \/ o.start <= o.end,
         o = Rec(o.id, o.type, o.start, o.end, o.block)
  PROVE  o \in Lock
BY DEF Lock, Rec

(* x is a part of o outside l, and nobody waits for it.                    *)
Piece(x, o, l) ==
  /\ x \in Lock /\ x.id = o.id /\ x.type = o.type /\ x.block = <<>>
  /\ o.start <= x.start /\ End(x) <= End(o)
  /\ End(x) < l.start \/ End(l) < x.start

LEMMA HeadIs ==
  ASSUME NEW o \in Lock, NEW l \in Call, Overlap(o, l)
  PROVE  \/ HeadOf(o, l) = <<>> /\ l.start <= o.start
         \/ \E x : /\ HeadOf(o, l) = <<x>> /\ Piece(x, o, l)
                   /\ x.start = o.start /\ End(x) = l.start - 1
<1> DEFINE x == EndsAt(o, l.start - 1)
<1>1. /\ LastByte \in Nat /\ o.start \in Nat /\ End(o) \in Nat /\ l.start \in Nat
      /\ o.start \in 0 .. LastByte + 1
      /\ o = Rec(o.id, o.type, o.start, o.end, o.block)
  BY LockIs
<1>2. CASE ~(o.start < l.start)
  BY <1>1, <1>2 DEF HeadOf
<1>3. CASE o.start < l.start
  <2>1. x = Rec(o.id, o.type, o.start, l.start - 1, <<>>)
    BY <1>1, Shortened
  <2>2. /\ x.id = o.id /\ x.type = o.type /\ x.start = o.start /\ x.end = l.start - 1
        /\ x.block = <<>>
    BY <2>1, RecIs
  <2>3. l.start \in 0 .. LastByte /\ EOF = -1
    BY DEF Call, EOF
  <2>4. l.start - 1 \in 0 .. LastByte /\ o.start <= l.start - 1 /\ l.start - 1 # EOF
    BY <1>1, <1>3, <2>3
  <2>5. o.id \in Owner /\ o.type \in LockType
    BY DEF Lock
  <2>6. HeadOf(o, l) = <<x>>
    BY <1>3 DEF HeadOf, EndsAt
  <2> HIDE DEF x
  <2>7. x \in Lock
    <3>1. <<>> \in Seq(Owner)
      OBVIOUS
    <3> QED
      BY <1>1, <2>1, <2>2, <2>4, <2>5, <3>1, LockFields
  <2>8. End(x) = l.start - 1
    BY <2>2, <2>4 DEF End
  <2>9. l.start - 1 <= End(o)
    BY <1>1 DEF Overlap
  <2>10. Piece(x, o, l)
    BY <1>1, <2>2, <2>7, <2>8, <2>9 DEF Piece
  <2> QED
    BY <2>2, <2>6, <2>8, <2>10
<1> QED
  BY <1>2, <1>3

LEMMA TailIs ==
  ASSUME NEW o \in Lock, NEW l \in Call, Overlap(o, l)
  PROVE  \/ TailOf(o, l) = <<>> /\ End(o) <= End(l)
         \/ \E x : /\ TailOf(o, l) = <<x>> /\ Piece(x, o, l)
                   /\ x.start = End(l) + 1 /\ End(x) = End(o)
<1> DEFINE x == StartsAt(o, l.end + 1)
<1>1. /\ LastByte \in Nat /\ o.start \in Nat /\ End(o) \in Nat /\ l.start \in Nat /\ End(l) \in Nat
      /\ End(o) \in 0 .. LastByte + 1
      /\ l.end # EOF => End(l) = l.end
      /\ l.end = EOF => End(l) = LastByte + 1
      /\ o.end # EOF => End(o) = o.end
      /\ o = Rec(o.id, o.type, o.start, o.end, o.block)
  BY LockIs
<1>2. CASE ~(End(l) < End(o))
  BY <1>1, <1>2 DEF TailOf
<1>3. CASE End(l) < End(o)
  <2>1. x = Rec(o.id, o.type, l.end + 1, o.end, <<>>)
    BY <1>1, Shortened
  <2>2. /\ x.id = o.id /\ x.type = o.type /\ x.start = l.end + 1 /\ x.end = o.end
        /\ x.block = <<>>
    BY <2>1, RecIs
  <2>3. l.end # EOF /\ l.end = End(l)
    BY <1>1, <1>3
  <2>4. l.end + 1 \in 0 .. LastByte + 1 /\ (o.end = EOF \/ l.end + 1 <= o.end)
    BY <1>1, <1>3, <2>3
  <2>5. o.id \in Owner /\ o.type \in LockType /\ o.end \in (0 .. LastByte) \cup {EOF}
    BY DEF Lock
  <2>6. TailOf(o, l) = <<x>>
    BY <1>3 DEF TailOf, StartsAt
  <2> HIDE DEF x
  <2>7. x \in Lock
    <3>1. <<>> \in Seq(Owner)
      OBVIOUS
    <3> QED
      BY <1>1, <2>1, <2>2, <2>4, <2>5, <3>1, LockFields
  <2>8. End(x) = End(o)
    BY <2>2 DEF End
  <2>9. o.start <= End(l) + 1
    BY <1>1 DEF Overlap
  <2>10. Piece(x, o, l)
    BY <1>1, <2>2, <2>3, <2>7, <2>8, <2>9 DEF Piece
  <2> QED
    BY <2>2, <2>3, <2>6, <2>8, <2>10
<1> QED
  BY <1>2, <1>3

(* What lf_clearlock() or lf_setlock() make of an overlap o: what is left  *)
(* of it, around the new lock if mid holds one.                            *)
Parts(o, l, mid) == HeadOf(o, l) \o mid \o TailOf(o, l)

At(b, o) == o.start <= b /\ b <= End(o)

(* One of the parts is at place j.                                         *)
PartsAre(s, o, l, mid) ==
  /\ s \in Seq(Lock)
  /\ \A j \in DOMAIN s : Piece(s[j], o, l) \/ (mid # <<>> /\ s[j] = mid[1])
  /\ \A j, k \in DOMAIN s : j < k => End(s[j]) < s[k].start
  /\ mid # <<>> => \E j \in DOMAIN s : s[j] = mid[1]
  /\ \A b \in Nat : At(b, o) /\ ~At(b, l) =>
       \E j \in DOMAIN s : Piece(s[j], o, l) /\ At(b, s[j])

(* The elements of three lists of at most one each, and their places.      *)
ThreeAre(f, a, b, c, u, v) ==
  /\ a # <<>> => 1 \in DOMAIN f /\ f[1] = a[1] /\ 1 < u /\ 1 < v
  /\ b # <<>> => u \in DOMAIN f /\ f[u] = b[1] /\ u < v
  /\ c # <<>> => v \in DOMAIN f /\ f[v] = c[1]
  /\ \A j \in DOMAIN f : \/ j = 1 /\ a # <<>>
                         \/ j = u /\ b # <<>>
                         \/ j = v /\ c # <<>>
  /\ u <= v

LEMMA Three ==
  ASSUME NEW S, NEW a \in Seq(S), NEW b \in Seq(S), NEW c \in Seq(S),
         Len(a) <= 1, Len(b) <= 1, Len(c) <= 1,
         NEW f, f = a \o b \o c,
         NEW u, u = Len(a) + 1, NEW v, v = Len(a) + Len(b) + 1
  PROVE  f \in Seq(S) /\ ThreeAre(f, a, b, c, u, v)
<1>1. Len(a) \in {0, 1} /\ Len(b) \in {0, 1} /\ Len(c) \in {0, 1}
  <2>1. \A s \in Seq(S) : Len(s) \in Nat
    OBVIOUS
  <2>2. \A n \in Nat : n <= 1 => n \in {0, 1}
    OBVIOUS
  <2> QED
    BY <2>1, <2>2
<1>2. /\ a # <<>> <=> Len(a) = 1
      /\ b # <<>> <=> Len(b) = 1
      /\ c # <<>> <=> Len(c) = 1
  BY <1>1
<1>3. PICK d : d = a \o b
  OBVIOUS
<1>4. /\ d \in Seq(S) /\ Len(d) = Len(a) + Len(b)
      /\ \A k \in 1..Len(a) : d[k] = a[k]
      /\ \A k \in 1..Len(b) : d[Len(a) + k] = b[k]
  BY <1>3
<1>5. f = d \o c
  BY <1>3
<1>6. /\ f \in Seq(S) /\ Len(f) = Len(d) + Len(c) /\ DOMAIN f = 1..Len(f)
      /\ \A k \in 1..Len(d) : f[k] = d[k]
      /\ \A k \in 1..Len(c) : f[Len(d) + k] = c[k]
  BY <1>4, <1>5
<1>7. Len(a) = 1 => f[1] = a[1]
  BY ONLY <1>1, <1>4, <1>6
<1>8. Len(b) = 1 => f[u] = b[1]
  BY ONLY <1>1, <1>4, <1>6, u = Len(a) + 1
<1>9. Len(c) = 1 => f[v] = c[1]
  BY ONLY <1>1, <1>4, <1>6, v = Len(a) + Len(b) + 1
<1>10. ThreeAre(f, a, b, c, u, v)
  <2>1. PICK x, y, z : x = Len(a) /\ y = Len(b) /\ z = Len(c)
    OBVIOUS
  <2>2. /\ x \in {0, 1} /\ y \in {0, 1} /\ z \in {0, 1}
        /\ u = x + 1 /\ v = x + y + 1
        /\ DOMAIN f = 1 .. x + y + z
    BY ONLY <1>1, <1>4, <1>6, <2>1, u = Len(a) + 1, v = Len(a) + Len(b) + 1
  <2>3. /\ u <= v
        /\ x = 1 => 1 < u /\ 1 < v /\ 1 \in DOMAIN f
        /\ y = 1 => u < v /\ u \in DOMAIN f
        /\ z = 1 => v \in DOMAIN f
        /\ \A j \in DOMAIN f : (j = 1 /\ x = 1) \/ (j = u /\ y = 1) \/ (j = v /\ z = 1)
    BY ONLY <2>2
  <2> QED
    BY ONLY <1>2, <1>7, <1>8, <1>9, <2>1, <2>3 DEF ThreeAre
<1> QED
  BY <1>6, <1>10

NewOne(s, l) ==
  /\ s \in Seq(Lock) /\ Len(s) = 1
  /\ s[1].id = l.id /\ s[1].type = l.type /\ s[1].start = l.start /\ End(s[1]) = End(l)

LEMMA PartsOfOverlap ==
  ASSUME NEW o \in Lock, NEW l \in Call, Overlap(o, l),
         NEW mid, mid = <<>> \/ NewOne(mid, l)
  PROVE  PartsAre(Parts(o, l, mid), o, l, mid)
<1>0. /\ o.start \in Nat /\ End(o) \in Nat /\ l.start \in Nat /\ End(l) \in Nat
      /\ l.start <= End(l) /\ o.start <= End(o)
  BY LockIs
<1>1. PICK a \in {<<>>} \cup {<<x>> : x \in Lock} :
        /\ HeadOf(o, l) = a
        /\ a = <<>> => l.start <= o.start
        /\ a # <<>> => Piece(a[1], o, l) /\ a[1].start = o.start /\ End(a[1]) = l.start - 1
  <2>1. CASE HeadOf(o, l) = <<>> /\ l.start <= o.start
    BY <2>1
  <2>2. ASSUME NEW x, HeadOf(o, l) = <<x>>, Piece(x, o, l),
               x.start = o.start, End(x) = l.start - 1
        PROVE  \E a \in {<<>>} \cup {<<y>> : y \in Lock} :
                 /\ HeadOf(o, l) = a
                 /\ a = <<>> => l.start <= o.start
                 /\ a # <<>> => Piece(a[1], o, l) /\ a[1].start = o.start /\ End(a[1]) = l.start - 1
    <3>1. x \in Lock /\ <<x>> # <<>> /\ <<x>>[1] = x
      BY <2>2 DEF Piece
    <3> QED
      BY <2>2, <3>1
  <2> QED
    BY <2>1, <2>2, HeadIs
<1>2. PICK c \in {<<>>} \cup {<<x>> : x \in Lock} :
        /\ TailOf(o, l) = c
        /\ c = <<>> => End(o) <= End(l)
        /\ c # <<>> => Piece(c[1], o, l) /\ c[1].start = End(l) + 1 /\ End(c[1]) = End(o)
  <2>1. CASE TailOf(o, l) = <<>> /\ End(o) <= End(l)
    BY <2>1
  <2>2. ASSUME NEW x, TailOf(o, l) = <<x>>, Piece(x, o, l),
               x.start = End(l) + 1, End(x) = End(o)
        PROVE  \E c \in {<<>>} \cup {<<y>> : y \in Lock} :
                 /\ TailOf(o, l) = c
                 /\ c = <<>> => End(o) <= End(l)
                 /\ c # <<>> => Piece(c[1], o, l) /\ c[1].start = End(l) + 1 /\ End(c[1]) = End(o)
    <3>1. x \in Lock /\ <<x>> # <<>> /\ <<x>>[1] = x
      BY <2>2 DEF Piece
    <3> QED
      BY <2>2, <3>1
  <2> QED
    BY <2>1, <2>2, TailIs
<1>3. /\ a \in Seq(Lock) /\ mid \in Seq(Lock) /\ c \in Seq(Lock)
      /\ Len(a) <= 1 /\ Len(mid) <= 1 /\ Len(c) <= 1
  <2>1. ASSUME NEW z \in {<<>>} \cup {<<x>> : x \in Lock}
        PROVE  z \in Seq(Lock) /\ Len(z) <= 1
    <3>1. CASE z = <<>>
      BY <3>1
    <3>2. ASSUME NEW x \in Lock, z = <<x>> PROVE z \in Seq(Lock) /\ Len(z) <= 1
      BY <3>2
    <3> QED
      BY <3>1, <3>2
  <2>2. mid \in Seq(Lock) /\ Len(mid) <= 1
    <3>1. CASE mid = <<>>
      BY <3>1
    <3>2. CASE NewOne(mid, l)
      BY <3>2 DEF NewOne
    <3> QED
      BY <3>1, <3>2
  <2> QED
    BY <2>1, <2>2
<1>4. mid # <<>> => mid[1].start = l.start /\ End(mid[1]) = End(l)
  BY DEF NewOne
<1>5. PICK s, u, v : s = a \o mid \o c /\ u = Len(a) + 1 /\ v = Len(a) + Len(mid) + 1
  OBVIOUS
<1>6. /\ s \in Seq(Lock)
      /\ a # <<>> => 1 \in DOMAIN s /\ s[1] = a[1] /\ 1 < u /\ 1 < v
      /\ mid # <<>> => u \in DOMAIN s /\ s[u] = mid[1] /\ u < v
      /\ c # <<>> => v \in DOMAIN s /\ s[v] = c[1]
      /\ \A j \in DOMAIN s : \/ j = 1 /\ a # <<>>
                             \/ j = u /\ mid # <<>>
                             \/ j = v /\ c # <<>>
      /\ u <= v
  <2>1. s \in Seq(Lock) /\ ThreeAre(s, a, mid, c, u, v)
    BY <1>3, <1>5, Three
  <2> QED
    BY <2>1 DEF ThreeAre
<1>7. u \in Int /\ v \in Int
  BY <1>3, <1>5
<1>8. \A j \in DOMAIN s : Piece(s[j], o, l) \/ (mid # <<>> /\ s[j] = mid[1])
  BY <1>1, <1>2, <1>6
<1>9. ASSUME NEW j \in DOMAIN s, NEW k \in DOMAIN s, j < k
      PROVE  End(s[j]) < s[k].start
  <2>1. CASE k = 1 /\ a # <<>>
    BY <1>6, <1>7, <1>9, <2>1
  <2>2. CASE k = u /\ mid # <<>>
    <3>1. j = 1 /\ a # <<>>
      BY <1>6, <1>7, <1>9, <2>2
    <3> QED
      BY <1>0, <1>1, <1>4, <1>6, <2>2, <3>1
  <2>3. CASE k = v /\ c # <<>> /\ j = 1 /\ a # <<>>
    BY <1>0, <1>1, <1>2, <1>6, <2>3
  <2>4. CASE k = v /\ c # <<>> /\ j = u /\ mid # <<>>
    BY <1>0, <1>2, <1>4, <1>6, <2>4
  <2>5. CASE k = v /\ j = v
    BY <1>7, <1>9, <2>5
  <2> QED
    BY <1>6, <2>1, <2>2, <2>3, <2>4, <2>5
<1>10. mid # <<>> => \E j \in DOMAIN s : s[j] = mid[1]
  BY <1>6
<1>11. ASSUME NEW b \in Nat, At(b, o), ~At(b, l)
       PROVE  \E j \in DOMAIN s : Piece(s[j], o, l) /\ At(b, s[j])
  <2>1. CASE b < l.start
    <3>1. a # <<>>
      BY <1>0, <1>1, <1>11, <2>1 DEF At
    <3>2. At(b, a[1])
      BY <1>0, <1>1, <1>11, <2>1, <3>1 DEF At
    <3> QED
      BY <1>1, <1>6, <3>1, <3>2
  <2>2. CASE End(l) < b
    <3>1. c # <<>>
      BY <1>0, <1>2, <1>11, <2>2 DEF At
    <3>2. At(b, c[1])
      BY <1>0, <1>2, <1>11, <2>2, <3>1 DEF At
    <3> QED
      BY <1>2, <1>6, <3>1, <3>2
  <2> QED
    BY <1>0, <1>11, <2>1, <2>2 DEF At
<1>12. s = Parts(o, l, mid)
  BY <1>1, <1>2, <1>5 DEF Parts
<1> QED
  BY <1>6, <1>8, <1>9, <1>10, <1>11, <1>12 DEF PartsAre

-----------------------------------------------------------------------------
(* What a call with the lock l makes of the list.                          *)

OwnInOrder(list) ==
  \A i, j \in DOMAIN list : i < j /\ list[i].id = list[j].id => End(list[i]) < list[j].start

Fits(m, o, l) == (m = o /\ ~Mine(o, l)) \/ (Mine(o, l) /\ Piece(m, o, l))

(* M is the list of the locks that do not overlap l, of what is left of    *)
(* those that do, and, at place nw, if it is not 0, of l.                  *)
Rewritten(M, l, from, nw) ==
  /\ M \in Seq(Lock) /\ nw \in {0} \cup DOMAIN M
  /\ \A k \in DOMAIN M \ {nw} : from[k] \in DOMAIN locks /\ Fits(M[k], locks[from[k]], l)
  /\ \A j, k \in DOMAIN M \ {nw} :
       j < k => from[j] < from[k] \/ (from[j] = from[k] /\ End(M[j]) < M[k].start)
  /\ \A i \in DOMAIN locks : ~Mine(locks[i], l) => \E k \in DOMAIN M \ {nw} : from[k] = i
  /\ \A i \in DOMAIN locks : \A b \in Nat :
       Mine(locks[i], l) /\ At(b, locks[i]) /\ ~At(b, l) =>
         \E k \in DOMAIN M \ {nw} : from[k] = i /\ At(b, M[k])
  /\ nw # 0 =>
       /\ M[nw].id = l.id /\ M[nw].type = l.type
       /\ M[nw].start = l.start /\ End(M[nw]) = End(l)
       /\ \A k \in DOMAIN M : M[k].id = l.id =>
            /\ k < nw => End(M[k]) < l.start
            /\ nw < k => End(l) < M[k].start

LEMMA SpreadParts ==
  ASSUME locks \in Seq(Lock), OwnInOrder(locks), NEW l \in Call,
         NEW new, new = <<>> \/ NewOne(new, l),
         NEW first \in {0} \cup DOMAIN locks, first = 0 <=> new = <<>>,
         first # 0 => Mine(locks[first], l) /\ \A i \in DOMAIN locks : Mine(locks[i], l) => first <= i,
         NEW ss, \A i \in DOMAIN locks :
                   /\ Mine(locks[i], l) => ss[i] = Parts(locks[i], l, IF i = first THEN new ELSE <<>>)
                   /\ ~Mine(locks[i], l) => ss[i] = <<locks[i]>>,
         NEW M \in Seq(Lock), NEW blk, NEW pos, Spread(M, ss, Len(locks), blk, pos)
  PROVE  \E nw : /\ Rewritten(M, l, blk, nw)
                 /\ first = 0 <=> nw = 0
                 /\ nw # 0 => M[nw] = new[1]
<1> DEFINE D == DOMAIN locks
           mid(i) == IF i = first THEN new ELSE <<>>
<1>1. D = 1..Len(locks) /\ Len(locks) \in Nat /\ \A i \in D : i \in Nat /\ locks[i] \in Lock
  OBVIOUS
<1>2. /\ \A k \in DOMAIN M : blk[k] \in D /\ k \in Nat /\ M[k] \in Lock
      /\ \A k \in DOMAIN M : pos[k] \in DOMAIN ss[blk[k]] /\ M[k] = ss[blk[k]][pos[k]]
      /\ \A j, k \in DOMAIN M : j < k => blk[j] < blk[k] \/ (blk[j] = blk[k] /\ pos[j] < pos[k])
      /\ \A i \in D : \A j \in DOMAIN ss[i] : \E k \in DOMAIN M : blk[k] = i /\ pos[k] = j
  <2>1. \A k \in DOMAIN M : k \in Nat /\ M[k] \in Lock
    OBVIOUS
  <2>2. D = 1..Len(locks)
    BY <1>1
  <2> HIDE DEF D
  <2> QED
    BY <2>1, <2>2 DEF Spread
<1>3. ASSUME NEW i \in D, Mine(locks[i], l)
      PROVE  PartsAre(ss[i], locks[i], l, mid(i))
  <2>1. PICK m : m = mid(i) /\ ss[i] = Parts(locks[i], l, m)
    BY <1>3
  <2>2. m = <<>> \/ NewOne(m, l)
    BY <2>1
  <2>3. Overlap(locks[i], l) /\ locks[i] \in Lock
    BY <1>1, <1>3 DEF Mine
  <2>4. PartsAre(Parts(locks[i], l, m), locks[i], l, m)
    BY <2>2, <2>3, PartsOfOverlap
  <2> QED
    BY <2>1, <2>4
<1>4. ASSUME NEW i \in D, ~Mine(locks[i], l)
      PROVE  DOMAIN ss[i] = {1} /\ ss[i][1] = locks[i]
  BY <1>4
<1>5. \A i \in D : (mid(i) # <<>>) => i = first /\ first # 0 /\ mid(i) = new
  OBVIOUS
<1>6. first # 0 => mid(first) = new /\ new # <<>>
  OBVIOUS
<1> HIDE DEF mid
<1>7. PICK nw : /\ nw \in {0} \cup DOMAIN M
                /\ first = 0 <=> nw = 0
                /\ nw # 0 => M[nw] = new[1] /\ blk[nw] = first
  <2>1. CASE first = 0
    BY <2>1
  <2>2. CASE first # 0
    <3>1. first \in D /\ Mine(locks[first], l)
      BY <2>2
    <3>2. PICK j \in DOMAIN ss[first] : ss[first][j] = new[1]
      BY <1>3, <1>6, <2>2, <3>1 DEF PartsAre
    <3>3. PICK k \in DOMAIN M : blk[k] = first /\ pos[k] = j
      BY <1>2, <3>1
    <3>4. M[k] = new[1] /\ k # 0
      BY <1>2, <3>2, <3>3
    <3> QED
      BY <2>2, <3>3, <3>4
  <2> QED
    BY <2>1, <2>2
<1>8. nw # 0 => /\ new[1].id = l.id /\ new[1].type = l.type
                /\ new[1].start = l.start /\ End(new[1]) = End(l)
  BY <1>7 DEF NewOne
<1>9. ASSUME NEW j \in DOMAIN M, NEW k \in DOMAIN M, j < k
      PROVE  blk[j] < blk[k] \/ (blk[j] = blk[k] /\ Mine(locks[blk[j]], l) /\ End(M[j]) < M[k].start)
  <2>1. CASE blk[j] = blk[k] /\ ~Mine(locks[blk[j]], l)
    <3>1. pos[j] = 1 /\ pos[k] = 1
      <4>1. PICK i \in D : i = blk[j] /\ i = blk[k]
        BY <1>2, <2>1
      <4>2. DOMAIN ss[i] = {1}
        BY <1>4, <2>1, <4>1
      <4>3. pos[j] \in DOMAIN ss[i] /\ pos[k] \in DOMAIN ss[i]
        BY <1>2, <4>1
      <4> QED
        BY <4>2, <4>3
    <3> QED
      BY <1>2, <1>9, <2>1, <3>1
  <2>2. CASE blk[j] = blk[k] /\ Mine(locks[blk[j]], l)
    <3>1. PICK i \in D : i = blk[j] /\ i = blk[k]
      BY <1>2, <2>2
    <3>2. /\ pos[j] \in DOMAIN ss[i] /\ pos[k] \in DOMAIN ss[i]
          /\ M[j] = ss[i][pos[j]] /\ M[k] = ss[i][pos[k]]
      BY <1>2, <3>1
    <3>3. pos[j] < pos[k]
      <4>1. ~(blk[j] < blk[k])
        BY <1>1, <3>1
      <4> QED
        BY <1>2, <1>9, <4>1
    <3>4. PartsAre(ss[i], locks[i], l, mid(i))
      BY <1>3, <2>2, <3>1
    <3> QED
      BY <2>2, <3>2, <3>3, <3>4 DEF PartsAre
  <2> QED
    BY <1>2, <1>9, <2>1, <2>2
<1>10. ASSUME NEW k \in DOMAIN M \ {nw}
       PROVE  blk[k] \in D /\ Fits(M[k], locks[blk[k]], l)
  <2>1. PICK i \in D : i = blk[k]
    BY <1>2
  <2>2. CASE ~Mine(locks[i], l)
    BY <1>2, <1>4, <2>1, <2>2 DEF Fits
  <2>3. CASE Mine(locks[i], l)
    <3>1. PartsAre(ss[i], locks[i], l, mid(i))
      BY <1>3, <2>3
    <3>2. Piece(M[k], locks[i], l) \/ (mid(i) # <<>> /\ M[k] = mid(i)[1])
      <4>1. pos[k] \in DOMAIN ss[i] /\ M[k] = ss[i][pos[k]]
        BY <1>2, <2>1
      <4> QED
        BY <3>1, <4>1 DEF PartsAre
    <3>3. ASSUME mid(i) # <<>>, M[k] = mid(i)[1] PROVE FALSE
      <4>1. i = first /\ nw # 0 /\ nw \in DOMAIN M /\ blk[nw] = i /\ M[nw] = M[k]
        BY <1>5, <1>7, <3>3
      <4>2. End(M[k]) \in Nat /\ M[k].start \in Nat /\ M[k].start <= End(M[k])
        BY <1>2, LockIs
      <4>3. k < nw \/ nw < k
        BY <1>2, <4>1
      <4>4. ~(blk[k] < blk[nw]) /\ ~(blk[nw] < blk[k])
        BY <1>1, <2>1, <4>1
      <4>5. k < nw => End(M[k]) < M[nw].start
        BY <1>9, <4>1, <4>4
      <4>6. nw < k => End(M[nw]) < M[k].start
        BY <1>9, <4>1, <4>4
      <4> QED
        BY <4>1, <4>2, <4>3, <4>5, <4>6
    <3> QED
      BY <2>1, <2>3, <3>2, <3>3 DEF Fits
  <2> QED
    BY <2>1, <2>2, <2>3
<1>11. ASSUME NEW i \in D, ~Mine(locks[i], l)
       PROVE  \E k \in DOMAIN M \ {nw} : blk[k] = i
  <2>1. PICK k \in DOMAIN M : blk[k] = i
    BY <1>2, <1>4, <1>11
  <2>2. k # nw
    BY <1>7, <1>11, <2>1
  <2> QED
    BY <2>1, <2>2
<1>12. ASSUME NEW i \in D, NEW b \in Nat, Mine(locks[i], l), At(b, locks[i]), ~At(b, l)
       PROVE  \E k \in DOMAIN M \ {nw} : blk[k] = i /\ At(b, M[k])
  <2>1. PICK j \in DOMAIN ss[i] : At(b, ss[i][j])
    BY <1>3, <1>12 DEF PartsAre
  <2>2. PICK k \in DOMAIN M : blk[k] = i /\ pos[k] = j
    BY <1>2
  <2>3. At(b, M[k])
    BY <1>2, <2>1, <2>2
  <2>4. k # nw
    BY <1>7, <1>8, <1>12, <2>3 DEF At
  <2> QED
    BY <2>2, <2>3, <2>4
<1>13. ASSUME nw # 0, NEW k \in DOMAIN M, M[k].id = l.id
       PROVE  /\ k < nw => End(M[k]) < l.start
              /\ nw < k => End(l) < M[k].start
  <2>1. nw \in DOMAIN M /\ first \in D /\ blk[nw] = first /\ Mine(locks[first], l)
    BY <1>7, <1>13
  <2>2. M[nw].start = l.start /\ End(M[nw]) = End(l)
    BY <1>7, <1>8, <1>13
  <2>3. CASE k = nw
    BY <1>2, <2>3
  <2>4. CASE k # nw
    <3>1. PICK i \in D : i = blk[k]
      BY <1>2
    <3>2. Fits(M[k], locks[i], l)
      BY <1>10, <2>4, <3>1
    <3>3. locks[i].id = l.id /\ locks[first].id = l.id
      BY <1>13, <2>1, <3>2 DEF Fits, Piece, Mine
    <3>4. PICK o, f, x : o = locks[i] /\ f = locks[first] /\ x = M[k]
      OBVIOUS
    <3>5. /\ o.start \in Nat /\ End(o) \in Nat /\ o.start <= End(o)
          /\ f.start \in Nat /\ End(f) \in Nat /\ f.start <= End(f)
          /\ x.start \in Nat /\ End(x) \in Nat /\ x.start <= End(x)
          /\ l.start \in Nat /\ End(l) \in Nat /\ l.start <= End(l)
      BY <1>1, <1>2, <2>1, <3>4, LockIs
    <3>6. o.start <= x.start /\ End(x) <= End(o)
      BY <3>2, <3>4, <3>5 DEF Fits, Piece
    <3>7. (Overlap(o, l) /\ (End(x) < l.start \/ End(l) < x.start)) \/ (x = o /\ ~Overlap(o, l))
      BY <3>2, <3>3, <3>4 DEF Fits, Piece, Mine
    <3>8. f.start <= End(l) /\ l.start <= End(f)
      BY <2>1, <3>4 DEF Mine, Overlap
    <3>9. i < first => End(o) < f.start /\ ~Overlap(o, l)
      BY <1>1, <2>1, <3>3, <3>4 DEF OwnInOrder, Mine
    <3>10. first < i => End(f) < o.start
      BY <1>1, <2>1, <3>3, <3>4 DEF OwnInOrder
    <3>11. i < first => End(x) < l.start
      BY <3>5, <3>6, <3>7, <3>8, <3>9 DEF Overlap
    <3>12. first < i => End(l) < x.start
      BY <3>5, <3>6, <3>7, <3>8, <3>10 DEF Overlap
    <3>13. k < nw => i < first \/ End(x) < l.start
      BY <1>9, <2>1, <2>2, <3>1, <3>4
    <3>14. nw < k => first < i \/ End(l) < x.start
      BY <1>9, <2>1, <2>2, <3>1, <3>4
    <3> QED
      BY <3>4, <3>11, <3>12, <3>13, <3>14
  <2> QED
    BY <2>3, <2>4
<1>14. Rewritten(M, l, blk, nw)
  <2>1. nw # 0 => /\ M[nw].id = l.id /\ M[nw].type = l.type
                  /\ M[nw].start = l.start /\ End(M[nw]) = End(l)
    BY <1>7, <1>8
  <2>2. \A j, k \in DOMAIN M \ {nw} :
          j < k => blk[j] < blk[k] \/ (blk[j] = blk[k] /\ End(M[j]) < M[k].start)
    BY <1>9
  <2> QED
    BY <1>7, <1>10, <1>11, <1>12, <1>13, <2>1, <2>2 DEF Rewritten
<1> QED
  BY <1>7, <1>14

LEMMA ClearedIs ==
  ASSUME locks \in Seq(Lock), OwnInOrder(locks), NEW l \in Call
  PROVE  \E from : Rewritten(Cleared(l), l, from, 0)
<1> DEFINE ss == [i \in DOMAIN locks |-> IF Mine(locks[i], l)
                                         THEN HeadOf(locks[i], l) \o TailOf(locks[i], l)
                                         ELSE <<locks[i]>>]
<1>1. DOMAIN locks = 1..Len(locks) /\ Len(locks) \in Nat /\ \A i \in DOMAIN locks : locks[i] \in Lock
  OBVIOUS
<1>2. ASSUME NEW i \in DOMAIN locks, Mine(locks[i], l)
      PROVE  ss[i] = Parts(locks[i], l, <<>>) /\ ss[i] \in Seq(Lock)
  <2>1. PICK o \in Lock : o = locks[i]
    BY <1>1
  <2>2. Overlap(o, l)
    BY <1>2, <2>1 DEF Mine
  <2>3. HeadOf(o, l) \in Seq(Lock)
    <3>1. CASE HeadOf(o, l) = <<>>
      BY <3>1
    <3>2. ASSUME NEW x, HeadOf(o, l) = <<x>>, Piece(x, o, l) PROVE HeadOf(o, l) \in Seq(Lock)
      BY <3>2 DEF Piece
    <3> QED
      BY <2>2, <3>1, <3>2, HeadIs
  <2>4. HeadOf(o, l) \o <<>> = HeadOf(o, l)
    BY <2>3
  <2>5. ss[i] = Parts(o, l, <<>>)
    BY <1>2, <2>1, <2>4 DEF Parts
  <2>6. PartsAre(Parts(o, l, <<>>), o, l, <<>>)
    BY <2>2, PartsOfOverlap
  <2> QED
    BY <2>1, <2>5, <2>6 DEF PartsAre
<1>3. ASSUME NEW i \in DOMAIN locks, ~Mine(locks[i], l)
      PROVE  ss[i] = <<locks[i]>> /\ ss[i] \in Seq(Lock)
  BY <1>1, <1>3
<1>4. ss \in Seq(Seq(Lock)) /\ Len(ss) = Len(locks)
  <2>1. DOMAIN ss = 1..Len(locks) /\ \A i \in 1..Len(locks) : ss[i] \in Seq(Lock)
    BY <1>1, <1>2, <1>3
  <2>2. ss = [i \in 1..Len(locks) |-> ss[i]]
    BY <1>1
  <2> HIDE DEF ss
  <2> QED
    BY <1>1, <2>1, <2>2
<1>5. Cleared(l) = FlattenSeq(ss)
  BY DEF Cleared
<1> HIDE DEF ss
<1>6. PICK M, blk, pos : /\ M = FlattenSeq(ss) /\ M \in Seq(Lock)
                         /\ Spread(M, ss, Len(locks), blk, pos)
  BY <1>4, FlattenSpreads
<1>7. \A i \in DOMAIN locks :
        /\ Mine(locks[i], l) => ss[i] = Parts(locks[i], l, IF i = 0 THEN <<>> ELSE <<>>)
        /\ ~Mine(locks[i], l) => ss[i] = <<locks[i]>>
  BY <1>2, <1>3
<1>8. \E nw : Rewritten(M, l, blk, nw) /\ (0 = 0 <=> nw = 0)
  <2>1. PICK new, first : new = <<>> /\ first = 0
    OBVIOUS
  <2>2. \A i \in DOMAIN locks :
          /\ Mine(locks[i], l) => ss[i] = Parts(locks[i], l, IF i = first THEN new ELSE <<>>)
          /\ ~Mine(locks[i], l) => ss[i] = <<locks[i]>>
    BY <1>7, <2>1
  <2>3. first \in {0} \cup DOMAIN locks /\ (first = 0 <=> new = <<>>) /\ ~(first # 0)
    BY <2>1
  <2>4. \E nw : Rewritten(M, l, blk, nw) /\ (first = 0 <=> nw = 0)
    BY ONLY locks \in Seq(Lock), OwnInOrder(locks), l \in Call, <1>6, <2>1, <2>2, <2>3, SpreadParts
  <2> QED
    BY <2>1, <2>4
<1> QED
  BY <1>5, <1>6, <1>8

-----------------------------------------------------------------------------
(* Everybody is at most once on a list.                                    *)
OneListEach(list) ==
  \A i, j \in DOMAIN list : \A m \in DOMAIN list[i].block, n \in DOMAIN list[j].block :
    list[i].block[m] = list[j].block[n] => i = j /\ m = n

Moves(i, l) == Mine(locks[i], l) /\ HandedOver(locks[i], l)

(* Exactly those who wait for the locks that are handed over.              *)
Taken(T, l) ==
  /\ T \in Seq(Owner)
  /\ \A n \in DOMAIN T : \E i \in DOMAIN locks : Moves(i, l) /\ T[n] \in ToSet(locks[i].block)
  /\ \A i \in DOMAIN locks : \A q \in ToSet(locks[i].block) : Moves(i, l) =>
       \E n \in DOMAIN T : T[n] = q
  /\ OneListEach(locks) => IsInjective(T)

LEMMA TakenOverIs ==
  ASSUME locks \in Seq(Lock), NEW l \in Call
  PROVE  Taken(TakenOver(l), l)
<1> DEFINE bs == [i \in DOMAIN locks |-> IF Moves(i, l) THEN locks[i].block ELSE <<>>]
<1>1. /\ DOMAIN locks = 1..Len(locks) /\ Len(locks) \in Nat
      /\ \A i \in DOMAIN locks : locks[i] \in Lock /\ locks[i].block \in Seq(Owner)
  BY DEF Lock
<1>2. PICK N \in Nat : N = Len(locks)
  BY <1>1
<1>3. \A i \in 1..N : bs[i] \in Seq(Owner)
  <2>1. <<>> \in Seq(Owner)
    OBVIOUS
  <2> QED
    BY <1>1, <1>2, <2>1
<1>4. bs = [i \in 1..N |-> bs[i]]
  BY <1>1, <1>2
<1>5. TakenOver(l) = FlattenSeq(Reverse(bs))
  BY DEF TakenOver, Moves
<1>6. /\ \A i \in DOMAIN locks : Moves(i, l) => bs[i] = locks[i].block
      /\ \A i \in DOMAIN locks : ~Moves(i, l) => bs[i] = <<>>
  OBVIOUS
<1> HIDE DEF bs
<1>7. Len(bs) = N /\ bs \in Seq(Seq(Owner))
  BY <1>3, <1>4
<1> DEFINE rs == [i \in 1..N |-> bs[(N - i) + 1]]
<1>8. Reverse(bs) = rs
  BY <1>7 DEF Reverse
<1>9. \A i \in 1..N : (N - i) + 1 \in 1..N /\ (N - ((N - i) + 1)) + 1 = i
  OBVIOUS
<1>10. rs \in Seq(Seq(Owner)) /\ Len(rs) = N
  BY <1>3, <1>9
<1>11. /\ \A i \in 1..N : rs[i] = bs[(N - i) + 1]
       /\ \A i \in 1..N : rs[(N - i) + 1] = bs[i]
  BY <1>9
<1> HIDE DEF rs
<1>12. PICK T, blk, pos : /\ T = FlattenSeq(rs) /\ T \in Seq(Owner)
                          /\ Spread(T, rs, N, blk, pos)
  BY <1>10, FlattenSpreads
<1>13. /\ \A k \in DOMAIN T : blk[k] \in 1..N /\ pos[k] \in DOMAIN rs[blk[k]] /\ T[k] = rs[blk[k]][pos[k]]
       /\ \A j, k \in DOMAIN T : j < k => blk[j] < blk[k] \/ (blk[j] = blk[k] /\ pos[j] < pos[k])
       /\ \A i \in 1..N : \A j \in DOMAIN rs[i] : \E k \in DOMAIN T : blk[k] = i /\ pos[k] = j
  BY <1>12 DEF Spread
<1>14. ASSUME NEW k \in DOMAIN T
       PROVE  LET i == (N - blk[k]) + 1
              IN /\ i \in DOMAIN locks /\ Moves(i, l)
                 /\ pos[k] \in DOMAIN locks[i].block /\ T[k] = locks[i].block[pos[k]]
  <2>1. PICK i : i = (N - blk[k]) + 1
    OBVIOUS
  <2>2. i \in DOMAIN locks /\ pos[k] \in DOMAIN bs[i] /\ T[k] = bs[i][pos[k]]
    BY <1>1, <1>2, <1>9, <1>11, <1>13, <2>1
  <2>3. Moves(i, l)
    <3>1. ASSUME ~Moves(i, l) PROVE FALSE
      <4>1. bs[i] = <<>> /\ DOMAIN <<>> = {}
        BY <1>6, <2>2, <3>1
      <4> QED
        BY <2>2, <4>1
    <3> QED
      BY <3>1
  <2> QED
    BY <1>6, <2>1, <2>2, <2>3
<1>15. ASSUME NEW i \in DOMAIN locks, Moves(i, l), NEW q \in ToSet(locks[i].block)
       PROVE  \E n \in DOMAIN T : T[n] = q
  <2>1. PICK m \in DOMAIN locks[i].block : q = locks[i].block[m]
    BY DEF ToSet
  <2>2. PICK j : j = (N - i) + 1
    OBVIOUS
  <2>3. j \in 1..N /\ m \in DOMAIN rs[j] /\ rs[j][m] = q
    BY <1>1, <1>2, <1>6, <1>9, <1>11, <1>15, <2>1, <2>2
  <2> QED
    BY <1>13, <2>3
<1>16. ASSUME OneListEach(locks), NEW a \in DOMAIN T, NEW b \in DOMAIN T, T[a] = T[b], a < b
       PROVE  FALSE
  <2>1. PICK i, j : i = (N - blk[a]) + 1 /\ j = (N - blk[b]) + 1
    OBVIOUS
  <2>2. /\ i \in DOMAIN locks /\ pos[a] \in DOMAIN locks[i].block /\ T[a] = locks[i].block[pos[a]]
        /\ j \in DOMAIN locks /\ pos[b] \in DOMAIN locks[j].block /\ T[b] = locks[j].block[pos[b]]
    BY <1>14, <2>1
  <2>3. i = j /\ pos[a] = pos[b]
    <3>1. PICK m \in DOMAIN locks[i].block, n \in DOMAIN locks[j].block : m = pos[a] /\ n = pos[b]
      BY <2>2
    <3>2. locks[i].block[m] = locks[j].block[n]
      BY <1>16, <2>2, <3>1
    <3>3. i = j /\ m = n
      BY <1>16, <2>2, <3>2 DEF OneListEach
    <3> QED
      BY <3>1, <3>3
  <2>4. blk[a] \in 1..N /\ blk[b] \in 1..N
    BY <1>13
  <2>5. blk[a] = blk[b]
    BY <1>2, <2>1, <2>3, <2>4
  <2>6. pos[a] \in Nat
    BY <1>1, <2>2
  <2> QED
    BY <1>13, <1>16, <2>3, <2>4, <2>5, <2>6
<1>17. OneListEach(locks) => IsInjective(T)
  <2> SUFFICES ASSUME OneListEach(locks), NEW a \in DOMAIN T, NEW b \in DOMAIN T, T[a] = T[b]
               PROVE  a = b
    BY DEF IsInjective
  <2>1. a \in Nat /\ b \in Nat
    BY <1>12
  <2> QED
    BY <1>16, <2>1
<1>18. \A n \in DOMAIN T : \E i \in DOMAIN locks : Moves(i, l) /\ T[n] \in ToSet(locks[i].block)
  BY <1>14 DEF ToSet
<1>19. TakenOver(l) = T
  BY <1>5, <1>8, <1>12
<1> QED
  BY <1>12, <1>15, <1>17, <1>18, <1>19 DEF Taken

LEMMA NewLockIs ==
  ASSUME NEW l \in Call, l.type \in LockType, NEW T \in Seq(Owner)
  PROVE  NewOne(<<[l EXCEPT !.block = T]>>, l) /\ [l EXCEPT !.block = T].block = T
<1>1. /\ l = Rec(l.id, l.type, l.start, l.end, l.block)
      /\ l.start \in 0 .. LastByte + 1 /\ LastByte \in Nat
  BY LockIs
<1>2. /\ l.id \in Owner /\ l.end \in (0 .. LastByte) \cup {EOF}
      /\ l.end = EOF \/ l.start <= l.end
  BY DEF Call
<1>3. PICK n : n = [l EXCEPT !.block = T]
  OBVIOUS
<1>4. n = Rec(l.id, l.type, l.start, l.end, T)
  BY <1>1, <1>3, BlockChanged
<1>5. /\ n.id = l.id /\ n.type = l.type /\ n.start = l.start /\ n.end = l.end /\ n.block = T
  BY <1>4, RecIs
<1>6. n \in Lock
  BY <1>1, <1>2, <1>4, <1>5, LockFields
<1>7. End(n) = End(l)
  BY <1>5 DEF End
<1>8. <<n>> \in Seq(Lock) /\ Len(<<n>>) = 1 /\ <<n>>[1] = n
  BY <1>6
<1> QED
  BY <1>3, <1>5, <1>7, <1>8 DEF NewOne

JoinOf(f, a, b, S) ==
  /\ f \in Seq(S) /\ Len(f) = Len(a) + Len(b)
  /\ \A k \in 1..Len(a) : f[k] = a[k]
  /\ \A k \in 1..Len(b) : f[Len(a) + k] = b[k]

LEMMA Joined ==
  ASSUME NEW S, NEW a \in Seq(S), NEW b \in Seq(S), NEW f, f = a \o b
  PROVE  JoinOf(f, a, b, S)
BY DEF JoinOf

LEMMA ReplacedIs ==
  ASSUME locks \in Seq(Lock), OwnInOrder(locks), NEW l \in Call, l.type \in LockType,
         MyOverlaps(l) # {}
  PROVE  \E from, nw : /\ Rewritten(Replaced(l), l, from, nw) /\ nw # 0
                       /\ Replaced(l)[nw].block = TakenOver(l)
<1>1. DOMAIN locks = 1..Len(locks) /\ Len(locks) \in Nat /\ \A i \in DOMAIN locks : locks[i] \in Lock
  OBVIOUS
<1>2. PICK first : first = FirstOf({i \in DOMAIN locks : Mine(locks[i], l)})
  OBVIOUS
<1>3. first \in DOMAIN locks /\ first # 0 /\ Mine(locks[first], l)
      /\ \A i \in DOMAIN locks : Mine(locks[i], l) => first <= i
  <2> DEFINE K == {i \in DOMAIN locks : Mine(locks[i], l)}
  <2>1. K \in SUBSET (1..Len(locks))
    BY <1>1
  <2>2. K # {}
    BY DEF MyOverlaps, ToSet
  <2>3. first \in K /\ \A k \in K : first <= k
    <3>1. first = FirstOf(K)
      BY <1>2
    <3> HIDE DEF K
    <3> QED
      BY <1>1, <2>1, <2>2, <3>1, FirstOfIs
  <2> QED
    BY <1>1, <2>3
<1>4. PICK T \in Seq(Owner) : T = TakenOver(l)
  BY TakenOverIs DEF Taken
<1>5. PICK new : new = <<[l EXCEPT !.block = T]>>
  OBVIOUS
<1>6. NewOne(new, l) /\ new[1].block = T /\ new # <<>>
  BY <1>5, NewLockIs
<1> DEFINE ss == [i \in DOMAIN locks |->
                    IF ~Mine(locks[i], l) THEN <<locks[i]>>
                    ELSE HeadOf(locks[i], l) \o (IF i = first THEN new ELSE <<>>)
                           \o TailOf(locks[i], l)]
<1>7. Replaced(l) = FlattenSeq(ss)
  BY <1>2, <1>4, <1>5 DEF Replaced
<1>8. ASSUME NEW i \in DOMAIN locks
      PROVE  /\ Mine(locks[i], l) => ss[i] = Parts(locks[i], l, IF i = first THEN new ELSE <<>>)
             /\ ~Mine(locks[i], l) => ss[i] = <<locks[i]>>
             /\ ss[i] \in Seq(Lock)
  <2>0. PICK mid : mid = IF i = first THEN new ELSE <<>>
    OBVIOUS
  <2>1. PICK o \in Lock : o = locks[i]
    BY <1>1
  <2>2. CASE Mine(o, l)
    <3>1. Overlap(o, l)
      BY <2>2 DEF Mine
    <3>2. mid = <<>> \/ NewOne(mid, l)
      BY <1>6, <2>0
    <3>3. PartsAre(Parts(o, l, mid), o, l, mid)
      BY <3>1, <3>2, PartsOfOverlap
    <3>4. ss[i] = Parts(o, l, mid)
      BY <2>0, <2>1, <2>2 DEF Parts
    <3>5. ss[i] \in Seq(Lock)
      BY <3>3, <3>4 DEF PartsAre
    <3> QED
      BY <2>0, <2>1, <2>2, <3>4, <3>5
  <2>3. CASE ~Mine(o, l)
    BY <2>1, <2>3
  <2> QED
    BY <2>2, <2>3
<1>9. ss \in Seq(Seq(Lock)) /\ Len(ss) = Len(locks)
  <2>1. DOMAIN ss = 1..Len(locks) /\ \A i \in 1..Len(locks) : ss[i] \in Seq(Lock)
    BY <1>1, <1>8
  <2>2. ss = [i \in 1..Len(locks) |-> ss[i]]
    BY <1>1
  <2> HIDE DEF ss
  <2> QED
    BY <1>1, <2>1, <2>2
<1> HIDE DEF ss
<1>10. PICK M, blk, pos : /\ M = FlattenSeq(ss) /\ M \in Seq(Lock)
                          /\ Spread(M, ss, Len(locks), blk, pos)
  BY <1>9, FlattenSpreads
<1>11. \E nw : /\ Rewritten(M, l, blk, nw)
               /\ first = 0 <=> nw = 0
               /\ nw # 0 => M[nw] = new[1]
  <2>1. \A i \in DOMAIN locks :
          /\ Mine(locks[i], l) => ss[i] = Parts(locks[i], l, IF i = first THEN new ELSE <<>>)
          /\ ~Mine(locks[i], l) => ss[i] = <<locks[i]>>
    BY <1>8
  <2>2. first \in {0} \cup DOMAIN locks /\ (first = 0 <=> new = <<>>)
    BY <1>3, <1>6
  <2> QED
    BY ONLY locks \in Seq(Lock), OwnInOrder(locks), l \in Call,
       <1>3, <1>6, <1>10, <2>1, <2>2, SpreadParts
<1> QED
  BY <1>3, <1>4, <1>6, <1>7, <1>10, <1>11

(* A lock that overlaps none of its owner's goes where it keeps the order. *)
LEMMA InsertedIs ==
  ASSUME locks \in Seq(Lock), OwnInOrder(locks), NEW l \in Call, l.type \in LockType,
         MyOverlaps(l) = {}
  PROVE  \E from, nw : /\ Rewritten(InsertAt(locks, Place(l), l), l, from, nw) /\ nw # 0
                       /\ InsertAt(locks, Place(l), l)[nw] = l
<1>1. PICK n \in Nat : n = Len(locks)
  OBVIOUS
<1>2. DOMAIN locks = 1..n /\ \A i \in 1..n : locks[i] \in Lock
  BY <1>1
<1>3. \A i \in 1..n : ~Mine(locks[i], l)
  BY <1>2 DEF MyOverlaps, ToSet
<1>4. l \in Lock
  <2>1. /\ l = Rec(l.id, l.type, l.start, l.end, l.block) /\ l.start \in 0 .. LastByte + 1
        /\ l.block \in Seq(Owner)
    BY LockIs
  <2>2. /\ l.id \in Owner /\ l.end \in (0 .. LastByte) \cup {EOF}
        /\ l.end = EOF \/ l.start <= l.end
    BY DEF Call
  <2> QED
    BY <2>1, <2>2, LockFields
<1> DEFINE Own(i) == locks[i].id = l.id
           Behind == {i \in 1..n : Own(i) /\ l.end # EOF /\ locks[i].start > l.end}
<1>5. PICK p : p = Place(l)
  OBVIOUS
<1>6. /\ p \in 1 .. n + 1
      /\ \A i \in 1..n : i < p => i \notin Behind
      /\ p <= n => p \in Behind
  <2>1. PICK behind : behind = FirstOf(Behind)
    OBVIOUS
  <2>2. p = IF behind = 0 THEN n + 1 ELSE behind
    BY <1>1, <1>2, <1>5, <2>1 DEF Place
  <2>3. Behind \in SUBSET (1..n)
    OBVIOUS
  <2> HIDE DEF Behind
  <2>4. Behind = {} => behind = 0
    BY <2>1, <2>3, FirstOfIs
  <2>5. Behind # {} => behind \in Behind /\ \A k \in Behind : behind <= k
    BY <2>1, <2>3, FirstOfIs
  <2>6. CASE Behind = {}
    BY <2>2, <2>4, <2>6
  <2>7. CASE Behind # {}
    <3>1. behind \in Behind /\ behind \in 1..n /\ \A k \in Behind : behind <= k
      BY <2>3, <2>5, <2>7
    <3>2. p = behind
      BY <2>2, <3>1
    <3> QED
      BY <3>1, <3>2
  <2> QED
    BY <2>6, <2>7
<1>7. ASSUME NEW i \in 1..n, Own(i)
      PROVE  /\ i < p => End(locks[i]) < l.start
             /\ p <= i => End(l) < locks[i].start
  <2>1. PICK o \in Lock : o = locks[i]
    BY <1>2
  <2>2. /\ o.start \in Nat /\ End(o) \in Nat /\ o.start <= End(o) /\ End(o) <= LastByte + 1
        /\ l.start \in Nat /\ End(l) \in Nat /\ l.start <= End(l)
        /\ l.end = EOF => End(l) = LastByte + 1
        /\ l.end # EOF => End(l) = l.end
        /\ LastByte \in Nat
    BY LockIs
  <2>3. ~Overlap(o, l)
    BY <1>3, <1>7, <2>1 DEF Mine
  <2>4. CASE i < p
    <3>1. l.end = EOF \/ ~(o.start > l.end)
      BY <1>6, <1>7, <2>1, <2>4
    <3>2. o.start <= End(l)
      <4>1. CASE l.end = EOF
        BY <2>2, <4>1
      <4>2. CASE l.end # EOF
        BY <2>2, <3>1, <4>2
      <4> QED
        BY <4>1, <4>2
    <3>3. End(o) < l.start
      BY <2>2, <2>3, <3>2 DEF Overlap
    <3> QED
      BY <1>6, <2>1, <2>4, <3>3
  <2>5. CASE p <= i
    <3>1. p \in Behind
      BY <1>6, <2>5
    <3>2. PICK f \in Lock : f = locks[p]
      BY <1>2, <3>1
    <3>3. f.id = l.id /\ l.end # EOF /\ f.start > l.end
      BY <3>1, <3>2
    <3>4. f.start \in Nat /\ End(f) \in Nat /\ f.start <= End(f)
      BY LockIs
    <3>5. p = i \/ End(f) < o.start
      BY <1>2, <1>6, <1>7, <2>1, <2>5, <3>1, <3>2, <3>3 DEF OwnInOrder
    <3>6. End(l) < o.start
      BY <2>1, <2>2, <3>2, <3>3, <3>4, <3>5
    <3> QED
      BY <1>6, <2>1, <2>5, <3>6
  <2> QED
    BY <1>6, <2>4, <2>5
<1> HIDE DEF Own, Behind
<1>8. PICK M : M = InsertAt(locks, p, l)
  OBVIOUS
<1>9. /\ M \in Seq(Lock) /\ DOMAIN M = 1 .. n + 1
      /\ \A k \in 1 .. n + 1 : k < p => M[k] = locks[k] /\ k \in 1..n
      /\ M[p] = l
      /\ \A k \in 1 .. n + 1 : p < k => M[k] = locks[k - 1] /\ k - 1 \in 1..n
      /\ \A i \in 1..n : i < p => i \in 1 .. n + 1 /\ M[i] = locks[i]
      /\ \A i \in 1..n : p <= i => i + 1 \in 1 .. n + 1 /\ M[i + 1] = locks[i]
  <2>1. PICK a, b, c : a = SubSeq(locks, 1, p - 1) /\ b = SubSeq(locks, p, Len(locks)) /\ c = <<l>>
    OBVIOUS
  <2>2. /\ a \in Seq(Lock) /\ Len(a) = p - 1 /\ \A k \in 1 .. p - 1 : a[k] = locks[k]
        /\ b \in Seq(Lock) /\ Len(b) = n - p + 1 /\ \A k \in 1 .. n - p + 1 : b[k] = locks[p + k - 1]
    BY <1>1, <1>2, <1>6, <2>1
  <2>3. c \in Seq(Lock) /\ Len(c) = 1 /\ c[1] = l
    BY <1>4, <2>1
  <2>4. PICK d : d = a \o c
    OBVIOUS
  <2>5. d \in Seq(Lock) /\ Len(d) = p /\ (\A k \in 1 .. p - 1 : d[k] = locks[k]) /\ d[p] = l
    <3>1. PICK m \in Nat : m = p - 1 /\ m + 1 = p
      BY <1>6
    <3>2. /\ d \in Seq(Lock) /\ Len(d) = m + 1
          /\ \A k \in 1..m : d[k] = a[k]
          /\ d[m + 1] = c[1]
      <4>1. Len(a) = m /\ a \in Seq(Lock)
        BY <2>2, <3>1
      <4>2. /\ d \in Seq(Lock) /\ Len(d) = Len(a) + Len(c)
            /\ \A k \in 1..Len(a) : d[k] = a[k]
            /\ \A k \in 1..Len(c) : d[Len(a) + k] = c[k]
        <5>1. JoinOf(d, a, c, Lock)
          BY <2>3, <2>4, <4>1, Joined
        <5> QED
          BY <5>1 DEF JoinOf
      <4> QED
        BY ONLY <2>3, <4>1, <4>2
    <3> QED
      BY ONLY <2>2, <2>3, <3>1, <3>2
  <2>6. M = d \o b
    BY <1>8, <2>1, <2>4 DEF InsertAt
  <2>7. /\ M \in Seq(Lock) /\ Len(M) = n + 1
        /\ \A k \in 1..p : M[k] = d[k]
        /\ \A k \in 1 .. n - p + 1 : M[p + k] = b[k]
    <3>1. PICK m \in Nat : m = n - p + 1 /\ p + m = n + 1
      BY <1>6
    <3>2. p \in Nat
      BY <1>6
    <3>3. d \in Seq(Lock) /\ Len(d) = p
      BY <2>5
    <3>4. b \in Seq(Lock) /\ Len(b) = m
      BY <2>2, <3>1
    <3>5. /\ M \in Seq(Lock) /\ Len(M) = p + m
          /\ \A k \in 1..p : M[k] = d[k]
          /\ \A k \in 1..m : M[p + k] = b[k]
      <4>1. /\ M \in Seq(Lock) /\ Len(M) = Len(d) + Len(b)
            /\ \A k \in 1..Len(d) : M[k] = d[k]
            /\ \A k \in 1..Len(b) : M[Len(d) + k] = b[k]
        <5>1. JoinOf(M, d, b, Lock)
          BY <2>6, <3>3, <3>4, Joined
        <5> QED
          BY <5>1 DEF JoinOf
      <4> QED
        BY ONLY <3>3, <3>4, <4>1
    <3> QED
      BY ONLY <3>1, <3>5
  <2>8. \A k \in 1 .. n + 1 : p < k => /\ k - p \in 1 .. n - p + 1 /\ k = p + (k - p)
                                       /\ k - 1 \in 1..n /\ p + (k - p) - 1 = k - 1
    BY <1>6
  <2>9. ASSUME NEW k \in 1 .. n + 1, p < k PROVE M[k] = locks[k - 1] /\ k - 1 \in 1..n
    <3>1. PICK j : j = k - p
      OBVIOUS
    <3>2. j \in 1 .. n - p + 1 /\ k = p + j /\ k - 1 \in 1..n /\ p + j - 1 = k - 1
      BY <2>8, <2>9, <3>1
    <3>3. M[p + j] = b[j] /\ b[j] = locks[p + j - 1]
      BY <2>2, <2>7, <3>2
    <3> QED
      BY <3>2, <3>3
  <2>10. DOMAIN M = 1 .. n + 1 /\ M[p] = l /\ \A k \in 1 .. p - 1 : M[k] = locks[k]
    BY <1>6, <2>5, <2>7
  <2>11. \A k \in 1 .. n + 1 : k < p => k \in 1 .. p - 1 /\ k \in 1..n
    BY <1>6
  <2>12. \A i \in 1..n : p <= i => i + 1 \in 1 .. n + 1 /\ p < i + 1 /\ (i + 1) - 1 = i
    BY <1>6
  <2>13. \A i \in 1..n : i \in 1 .. n + 1
    OBVIOUS
  <2> QED
    BY ONLY <2>7, <2>9, <2>10, <2>11, <2>12, <2>13
<1>10. PICK from : /\ \A k \in 1 .. n + 1 : k < p => from[k] = k
                   /\ \A k \in 1 .. n + 1 : p < k => from[k] = k - 1
  <2> DEFINE f == [k \in 1 .. n + 1 |-> IF k < p THEN k ELSE k - 1]
  <2>1. /\ \A k \in 1 .. n + 1 : k < p => f[k] = k
        /\ \A k \in 1 .. n + 1 : p < k => f[k] = k - 1
    BY <1>6
  <2> HIDE DEF f
  <2> QED
    BY <2>1
<1>11. \A k \in 1 .. n + 1 : k # p => k < p \/ p < k
  BY <1>6
<1>12. \A k \in DOMAIN M \ {p} : from[k] \in 1..n /\ M[k] = locks[from[k]]
  BY <1>9, <1>10, <1>11
<1>13. \A j, k \in DOMAIN M \ {p} : j < k => from[j] < from[k]
  <2>1. ASSUME NEW j \in 1 .. n + 1, NEW k \in 1 .. n + 1, j < k, j # p, k # p
        PROVE  from[j] < from[k]
    BY <1>6, <1>10, <1>11, <2>1
  <2> QED
    BY <1>9, <2>1
<1>14. ASSUME NEW i \in 1..n PROVE \E k \in DOMAIN M \ {p} : from[k] = i
  <2>1. CASE i < p
    BY <1>6, <1>9, <1>10, <2>1
  <2>2. CASE p <= i
    <3>1. i + 1 \in 1 .. n + 1 /\ p < i + 1 /\ (i + 1) - 1 = i /\ i + 1 # p
      BY <1>6, <2>2
    <3> QED
      BY <1>9, <1>10, <3>1
  <2> QED
    BY <1>6, <2>1, <2>2
<1>15. ASSUME NEW k \in DOMAIN M, M[k].id = l.id
       PROVE  (k < p => End(M[k]) < l.start) /\ (p < k => End(l) < M[k].start)
  <2>1. CASE k < p
    BY <1>6, <1>7, <1>9, <1>15, <2>1 DEF Own
  <2>2. CASE p < k
    <3>1. k - 1 \in 1..n /\ M[k] = locks[k - 1] /\ p <= k - 1
      BY <1>6, <1>9, <2>2
    <3> QED
      BY <1>6, <1>7, <1>9, <1>15, <2>2, <3>1 DEF Own
  <2> QED
    BY <2>1, <2>2
<1>16. Rewritten(M, l, from, p)
  <2>1. M \in Seq(Lock) /\ p \in {0} \cup DOMAIN M /\ p # 0
    BY <1>6, <1>9
  <2>2. \A k \in DOMAIN M \ {p} : from[k] \in DOMAIN locks /\ Fits(M[k], locks[from[k]], l)
    BY <1>2, <1>3, <1>12 DEF Fits
  <2>3. \A i \in DOMAIN locks : ~Mine(locks[i], l)
    BY <1>2, <1>3
  <2>4. \A i \in DOMAIN locks : \E k \in DOMAIN M \ {p} : from[k] = i
    BY <1>2, <1>14
  <2>5. M[p].id = l.id /\ M[p].type = l.type /\ M[p].start = l.start /\ End(M[p]) = End(l)
    BY <1>9
  <2> QED
    BY <1>13, <1>15, <2>1, <2>2, <2>3, <2>4, <2>5 DEF Rewritten
<1> QED
  BY <1>5, <1>6, <1>8, <1>9, <1>16

-----------------------------------------------------------------------------
(* No lock of the list is in the way of another.                           *)
NoneInTheWay(list) == \A i, j \in DOMAIN list : ~Blocks(list[i], list[j])

Whole(o) == o.start = 0 /\ End(o) = LastByte + 1

FlocksWhole(list) == \A i \in DOMAIN list : list[i].id \in Flock => Whole(list[i])

LEMMA FitsIs ==
  ASSUME NEW l \in Call, NEW o \in Lock, NEW m \in Lock, Fits(m, o, l)
  PROVE  /\ m.id = o.id /\ m.type = o.type /\ o.start <= m.start /\ End(m) <= End(o)
         /\ m.start \in Nat /\ End(m) \in Nat /\ m.start <= End(m)
         /\ o.start \in Nat /\ End(o) \in Nat /\ o.start <= End(o)
         /\ m.id = l.id => ~Overlap(m, l)
         /\ Mine(o, l) => m.block = <<>>
         /\ ~Mine(o, l) => m = o
<1>1. /\ m.start \in Nat /\ End(m) \in Nat /\ m.start <= End(m)
      /\ o.start \in Nat /\ End(o) \in Nat /\ o.start <= End(o)
      /\ l.start \in Nat /\ End(l) \in Nat /\ l.start <= End(l)
  BY LockIs
<1>2. CASE m = o /\ ~Mine(o, l)
  BY <1>1, <1>2 DEF Mine
<1>3. CASE Mine(o, l) /\ Piece(m, o, l)
  BY <1>1, <1>3 DEF Piece, Overlap
<1> QED
  BY <1>2, <1>3 DEF Fits

LEMMA RewrittenOrder ==
  ASSUME locks \in Seq(Lock), OwnInOrder(locks), NEW l \in Call,
         NEW M, NEW from, NEW nw, Rewritten(M, l, from, nw)
  PROVE  OwnInOrder(M)
<1> SUFFICES ASSUME NEW j \in DOMAIN M, NEW k \in DOMAIN M, j < k, M[j].id = M[k].id
             PROVE  End(M[j]) < M[k].start
  BY DEF OwnInOrder
<1>1. M \in Seq(Lock) /\ M[j] \in Lock /\ M[k] \in Lock /\ j \in Nat /\ k \in Nat /\ k # 0 /\ j # 0
  BY DEF Rewritten
<1>2. CASE j = nw
  BY <1>1, <1>2 DEF Rewritten
<1>3. CASE k = nw
  BY <1>1, <1>3 DEF Rewritten
<1>4. CASE j # nw /\ k # nw
  <2>1. PICK a \in DOMAIN locks, b \in DOMAIN locks :
          /\ a = from[j] /\ b = from[k]
          /\ Fits(M[j], locks[a], l) /\ Fits(M[k], locks[b], l)
          /\ a < b \/ End(M[j]) < M[k].start
    BY <1>4 DEF Rewritten
  <2>2. locks[a] \in Lock /\ locks[b] \in Lock
    OBVIOUS
  <2>3. /\ M[j].id = locks[a].id /\ End(M[j]) <= End(locks[a]) /\ End(M[j]) \in Nat
        /\ End(locks[a]) \in Nat
    BY <1>1, <2>1, <2>2, FitsIs
  <2>4. /\ M[k].id = locks[b].id /\ locks[b].start <= M[k].start /\ M[k].start \in Nat
        /\ locks[b].start \in Nat
    BY <1>1, <2>1, <2>2, FitsIs
  <2>5. a < b => End(locks[a]) < locks[b].start
    BY <2>3, <2>4 DEF OwnInOrder
  <2> QED
    BY <2>1, <2>3, <2>4, <2>5
<1> QED
  BY <1>2, <1>3, <1>4

LEMMA RewrittenApart ==
  ASSUME locks \in Seq(Lock), NoneInTheWay(locks), NEW l \in Call,
         NEW M, NEW from, NEW nw, Rewritten(M, l, from, nw),
         nw # 0 => \A i \in DOMAIN locks : ~Blocks(locks[i], l)
  PROVE  NoneInTheWay(M)
<1> SUFFICES ASSUME NEW j \in DOMAIN M, NEW k \in DOMAIN M, Blocks(M[j], M[k])
             PROVE  FALSE
  BY DEF NoneInTheWay
<1>1. M \in Seq(Lock) /\ M[j] \in Lock /\ M[k] \in Lock /\ j # 0 /\ k # 0
  BY DEF Rewritten
<1>2. ASSUME NEW a \in DOMAIN M \ {nw}
      PROVE  \E i \in DOMAIN locks : Fits(M[a], locks[i], l) /\ locks[i] \in Lock /\ M[a] \in Lock
  BY <1>1, <1>2 DEF Rewritten
<1>3. /\ l.start \in Nat /\ End(l) \in Nat /\ l.start <= End(l)
      /\ \A x \in Lock : x.start \in Nat /\ End(x) \in Nat /\ x.start <= End(x)
  BY LockIs
<1>4. CASE j = nw /\ k = nw
  BY <1>4 DEF Blocks
<1>5. ASSUME nw # 0, NEW a \in DOMAIN M \ {nw}, Blocks(M[a], M[nw]) \/ Blocks(M[nw], M[a])
      PROVE  FALSE
  <2>1. PICK i \in DOMAIN locks : Fits(M[a], locks[i], l) /\ locks[i] \in Lock /\ M[a] \in Lock
    BY <1>2, <1>5
  <2>2. PICK o \in Lock, x \in Lock : o = locks[i] /\ x = M[a]
    BY <2>1
  <2>3. /\ x.id = o.id /\ x.type = o.type /\ o.start <= x.start /\ End(x) <= End(o)
        /\ x.start \in Nat /\ End(x) \in Nat /\ o.start \in Nat /\ End(o) \in Nat
    BY <2>1, <2>2, FitsIs
  <2>4. PICK n : /\ n = M[nw] /\ n.id = l.id /\ n.type = l.type
                 /\ n.start = l.start /\ End(n) = End(l)
    BY <1>5 DEF Rewritten
  <2>5. x.id # l.id /\ "F_WRLCK" \in {x.type, l.type}
    BY <1>5, <2>2, <2>4 DEF Blocks
  <2>6. x.start <= End(l) /\ l.start <= End(x)
    BY <1>5, <2>2, <2>4 DEF Blocks, Overlap
  <2>7. o.start <= End(l) /\ l.start <= End(o)
    BY <1>3, <2>3, <2>6
  <2>8. Blocks(o, l)
    BY <2>3, <2>5, <2>7 DEF Blocks, Overlap
  <2> QED
    BY <1>5, <2>2, <2>8
<1>6. CASE j # nw /\ k # nw
  <2>1. PICK a \in DOMAIN locks : Fits(M[j], locks[a], l) /\ locks[a] \in Lock
    BY <1>2, <1>6
  <2>2. PICK b \in DOMAIN locks : Fits(M[k], locks[b], l) /\ locks[b] \in Lock
    BY <1>2, <1>6
  <2>3. PICK o \in Lock, x \in Lock : o = locks[a] /\ x = M[j]
    BY <1>1, <2>1
  <2>4. PICK p \in Lock, y \in Lock : p = locks[b] /\ y = M[k]
    BY <1>1, <2>2
  <2>5. /\ x.id = o.id /\ x.type = o.type /\ o.start <= x.start /\ End(x) <= End(o)
        /\ x.start \in Nat /\ End(x) \in Nat /\ o.start \in Nat /\ End(o) \in Nat
    BY <2>1, <2>3, FitsIs
  <2>6. /\ y.id = p.id /\ y.type = p.type /\ p.start <= y.start /\ End(y) <= End(p)
        /\ y.start \in Nat /\ End(y) \in Nat /\ p.start \in Nat /\ End(p) \in Nat
    BY <2>2, <2>4, FitsIs
  <2>7. x.start <= End(y) /\ y.start <= End(x)
    BY <2>3, <2>4 DEF Blocks, Overlap
  <2>8. o.start <= End(p) /\ p.start <= End(o)
    BY <2>5, <2>6, <2>7
  <2>9. o.id # p.id /\ "F_WRLCK" \in {o.type, p.type}
    BY <2>3, <2>4, <2>5, <2>6 DEF Blocks
  <2>10. Blocks(o, p)
    BY <2>8, <2>9 DEF Blocks, Overlap
  <2> QED
    BY <2>3, <2>4, <2>10 DEF NoneInTheWay
<1> QED
  BY <1>1, <1>4, <1>5, <1>6

LEMMA RewrittenWhole ==
  ASSUME locks \in Seq(Lock), FlocksWhole(locks), NEW l \in Call, l.id \in Flock => Whole(l),
         NEW M, NEW from, NEW nw, Rewritten(M, l, from, nw)
  PROVE  FlocksWhole(M)
<1> SUFFICES ASSUME NEW k \in DOMAIN M, M[k].id \in Flock
             PROVE  Whole(M[k])
  BY DEF FlocksWhole
<1>1. M[k] \in Lock /\ k # 0
  BY DEF Rewritten
<1>2. CASE k = nw
  BY <1>1, <1>2 DEF Rewritten, Whole
<1>3. CASE k # nw
  <2>1. PICK i \in DOMAIN locks : Fits(M[k], locks[i], l) /\ locks[i] \in Lock
    BY <1>3 DEF Rewritten
  <2>2. CASE ~Mine(locks[i], l)
    BY <2>1, <2>2 DEF Fits, FlocksWhole
  <2>3. CASE Mine(locks[i], l)
    <3>1. PICK x \in Lock : x = M[k]
      BY <1>1
    <3>2. x.id = l.id /\ ~Overlap(x, l)
      BY <1>1, <2>1, <2>3, <3>1, FitsIs DEF Mine
    <3>3. x.start \in Nat /\ End(x) \in Nat /\ End(x) <= LastByte + 1 /\ LastByte \in Nat
          /\ x.start <= End(x)
      BY LockIs
    <3>4. l.start = 0 /\ End(l) = LastByte + 1
      BY <3>1, <3>2 DEF Whole
    <3>5. FALSE
      BY <3>2, <3>3, <3>4 DEF Overlap
    <3> QED
      BY <3>5
  <2> QED
    BY <2>2, <2>3
<1> QED
  BY <1>2, <1>3

-----------------------------------------------------------------------------
(* Who waits for what.                                                     *)
LEMMA WaitersAre ==
  ASSUME NEW list, NEW q
  PROVE  q \in Waiters(ToSet(list)) <=> \E i \in DOMAIN list : q \in ToSet(list[i].block)
BY DEF Waiters, ToSet

(* Those whom a call with l wakes: all who wait for an overlap, unless the *)
(* overlap is replaced and they are handed over.                           *)
Woken(l, nw, q) ==
  \E i \in DOMAIN locks : /\ q \in ToSet(locks[i].block) /\ Mine(locks[i], l)
                          /\ ~(nw # 0 /\ HandedOver(locks[i], l))

(* q waits in M at k for what it waited for in locks at i.                 *)
Same(M, l, nw, k, i) ==
  M[k] = locks[i] \/ (nw # 0 /\ k = nw /\ Moves(i, l))

(* The lists of waiters of M are those of locks without the woken.         *)
Inherits(M, l, nw) ==
  /\ \A k \in DOMAIN M : \A q \in ToSet(M[k].block) :
       \E i \in DOMAIN locks : /\ q \in ToSet(locks[i].block) /\ Same(M, l, nw, k, i)
                               /\ locks[i].id = M[k].id
  /\ \A i \in DOMAIN locks : \A q \in ToSet(locks[i].block) :
       Woken(l, nw, q) \/ \E k \in DOMAIN M : q \in ToSet(M[k].block)
  /\ OneListEach(locks) => OneListEach(M)
  /\ OneListEach(locks) => \A k \in DOMAIN M : \A q \in ToSet(M[k].block) : ~Woken(l, nw, q)

LEMMA RewrittenWaiters ==
  ASSUME locks \in Seq(Lock), NEW l \in Call,
         NEW M, NEW from, NEW nw, Rewritten(M, l, from, nw),
         nw # 0 => Taken(M[nw].block, l)
  PROVE  Inherits(M, l, nw)
<1>1. /\ M \in Seq(Lock) /\ nw \in {0} \cup DOMAIN M /\ 0 \notin DOMAIN M
      /\ \A k \in DOMAIN M : k \in Nat /\ M[k] \in Lock /\ M[k].block \in Seq(Owner)
  BY DEF Rewritten, Lock
<1>2. \A i \in DOMAIN locks : locks[i] \in Lock /\ locks[i].block \in Seq(Owner)
  BY DEF Lock
<1>3. ASSUME NEW k \in DOMAIN M \ {nw}, NEW m \in DOMAIN M[k].block
      PROVE  from[k] \in DOMAIN locks /\ M[k] = locks[from[k]] /\ ~Mine(locks[from[k]], l)
  <2>1. PICK i \in DOMAIN locks : i = from[k] /\ Fits(M[k], locks[i], l)
    BY DEF Rewritten
  <2>2. Mine(locks[i], l) => M[k].block = <<>>
    BY <1>1, <1>2, <2>1, FitsIs
  <2>3. DOMAIN <<>> = {}
    OBVIOUS
  <2>4. ~Mine(locks[i], l)
    BY <2>2, <2>3
  <2>5. M[k] = locks[i]
    BY <1>1, <1>2, <2>1, <2>4, FitsIs
  <2> QED
    BY <2>1, <2>4, <2>5
<1>4. ASSUME NEW i \in DOMAIN locks, ~Mine(locks[i], l)
      PROVE  \E k \in DOMAIN M \ {nw} : M[k] = locks[i]
  <2>1. PICK k \in DOMAIN M \ {nw} : from[k] = i /\ Fits(M[k], locks[i], l)
    BY <1>4 DEF Rewritten
  <2> QED
    BY <1>4, <2>1 DEF Fits
<1>5. ASSUME NEW k \in DOMAIN M, NEW q \in ToSet(M[k].block)
      PROVE  \E i \in DOMAIN locks : /\ q \in ToSet(locks[i].block) /\ Same(M, l, nw, k, i)
                                     /\ locks[i].id = M[k].id
  <2>1. PICK m \in DOMAIN M[k].block : q = M[k].block[m]
    BY DEF ToSet
  <2>2. CASE k = nw
    <3>1. nw # 0
      BY <1>1, <2>2
    <3>2. PICK i \in DOMAIN locks : Moves(i, l) /\ q \in ToSet(locks[i].block)
      BY <2>1, <2>2, <3>1 DEF Taken
    <3>3. M[nw].id = l.id /\ locks[i].id = l.id
      BY <3>1, <3>2 DEF Rewritten, Moves, Mine
    <3> QED
      BY <2>2, <3>1, <3>2, <3>3 DEF Same
  <2>3. CASE k # nw
    BY <1>3, <2>1, <2>3 DEF Same
  <2> QED
    BY <2>2, <2>3
<1>6. ASSUME NEW i \in DOMAIN locks, NEW q \in ToSet(locks[i].block), ~Woken(l, nw, q)
      PROVE  \E k \in DOMAIN M : q \in ToSet(M[k].block)
  <2>1. CASE ~Mine(locks[i], l)
    <3>1. PICK k \in DOMAIN M \ {nw} : M[k] = locks[i]
      BY <1>4, <2>1
    <3> QED
      BY <3>1
  <2>2. CASE Mine(locks[i], l)
    <3>1. nw # 0 /\ Moves(i, l)
      BY <1>6, <2>2 DEF Woken, Moves
    <3>2. \E n \in DOMAIN M[nw].block : M[nw].block[n] = q
      BY <3>1 DEF Taken
    <3>3. nw \in DOMAIN M
      BY <1>1, <3>1
    <3> QED
      BY <3>2, <3>3 DEF ToSet
  <2> QED
    BY <2>1, <2>2
<1>7. ASSUME OneListEach(locks),
             NEW a \in DOMAIN locks, NEW b \in DOMAIN locks, NEW q,
             q \in ToSet(locks[a].block), q \in ToSet(locks[b].block)
      PROVE  a = b
  BY <1>7 DEF OneListEach, ToSet
<1>8. ASSUME OneListEach(locks), NEW k \in DOMAIN M, NEW q \in ToSet(M[k].block)
      PROVE  ~Woken(l, nw, q)
  <2> SUFFICES ASSUME NEW i \in DOMAIN locks, q \in ToSet(locks[i].block), Mine(locks[i], l),
                      ~(nw # 0 /\ HandedOver(locks[i], l))
               PROVE  FALSE
    BY DEF Woken
  <2>1. CASE k = nw
    <3>1. nw # 0
      BY <1>1, <2>1
    <3>2. PICK j \in DOMAIN locks : Moves(j, l) /\ q \in ToSet(locks[j].block)
      BY <2>1, <3>1 DEF Taken, ToSet
    <3>3. j = i
      BY <1>7, <1>8, <3>2
    <3> QED
      BY <3>1, <3>2, <3>3 DEF Moves
  <2>2. CASE k # nw
    <3>1. PICK m \in DOMAIN M[k].block : q = M[k].block[m]
      BY DEF ToSet
    <3>2. from[k] \in DOMAIN locks /\ M[k] = locks[from[k]] /\ ~Mine(locks[from[k]], l)
      BY <1>3, <2>2, <3>1
    <3>3. q \in ToSet(locks[from[k]].block)
      BY <3>2
    <3>4. from[k] = i
      BY <1>7, <1>8, <3>2, <3>3
    <3> QED
      BY <3>2, <3>4
  <2> QED
    BY <2>1, <2>2
<1>9. ASSUME OneListEach(locks), nw # 0, NEW k \in DOMAIN M \ {nw}, NEW q,
             q \in ToSet(M[k].block), q \in ToSet(M[nw].block)
      PROVE  FALSE
  <2>1. PICK j \in DOMAIN locks : Moves(j, l) /\ q \in ToSet(locks[j].block)
    BY <1>9 DEF Taken, ToSet
  <2>2. PICK m \in DOMAIN M[k].block : q = M[k].block[m]
    BY <1>9 DEF ToSet
  <2>3. from[k] \in DOMAIN locks /\ M[k] = locks[from[k]] /\ ~Mine(locks[from[k]], l)
    BY <1>3, <2>2
  <2>4. from[k] = j
    BY <1>7, <1>9, <2>1, <2>3
  <2> QED
    BY <2>1, <2>3, <2>4 DEF Moves
<1>10. ASSUME OneListEach(locks), NEW j \in DOMAIN M, NEW k \in DOMAIN M,
              NEW m \in DOMAIN M[j].block, NEW n \in DOMAIN M[k].block,
              M[j].block[m] = M[k].block[n]
       PROVE  j = k /\ m = n
  <2>1. M[j].block[m] \in ToSet(M[j].block) /\ M[j].block[m] \in ToSet(M[k].block)
    BY <1>10 DEF ToSet
  <2>2. CASE j = nw /\ k = nw
    <3>1. IsInjective(M[nw].block)
      BY <1>1, <1>10, <2>2 DEF Taken
    <3> QED
      BY <1>10, <2>2, <3>1 DEF IsInjective
  <2>3. CASE j = nw /\ k # nw
    BY <1>1, <1>9, <1>10, <2>1, <2>3
  <2>4. CASE j # nw /\ k = nw
    BY <1>1, <1>9, <1>10, <2>1, <2>4
  <2>5. CASE j # nw /\ k # nw
    <3>1. PICK a \in DOMAIN locks : a = from[j] /\ M[j] = locks[a] /\ ~Mine(locks[a], l)
      BY <1>3, <2>5
    <3>2. PICK b \in DOMAIN locks : b = from[k] /\ M[k] = locks[b]
      BY <1>3, <2>5
    <3>3. a = b /\ m = n
      <4>1. m \in DOMAIN locks[a].block /\ n \in DOMAIN locks[b].block
        BY <3>1, <3>2
      <4>2. locks[a].block[m] = locks[b].block[n]
        BY <1>10, <3>1, <3>2
      <4> QED
        BY <1>10, <4>1, <4>2 DEF OneListEach
    <3>4. ASSUME NEW c \in DOMAIN M \ {nw}, NEW d \in DOMAIN M \ {nw}, c < d,
                 from[c] = a, from[d] = a, M[c] = locks[a], M[d] = locks[a]
          PROVE  FALSE
      <4>1. End(M[c]) < M[d].start
        <5>1. ~(from[c] < from[d])
          BY <3>4
        <5> QED
          BY <3>4, <5>1 DEF Rewritten
      <4>2. PICK x \in Lock : x = locks[a]
        BY <1>2
      <4>3. x.start \in Nat /\ End(x) \in Nat /\ x.start <= End(x)
        BY LockIs
      <4> QED
        BY <3>4, <4>1, <4>2, <4>3
    <3>5. j \in Nat /\ k \in Nat
      BY <1>1
    <3>6. j < k => FALSE
      BY <2>5, <3>1, <3>2, <3>3, <3>4
    <3>7. k < j => FALSE
      BY <2>5, <3>1, <3>2, <3>3, <3>4
    <3> QED
      BY <3>3, <3>5, <3>6, <3>7
  <2> QED
    BY <2>2, <2>3, <2>4, <2>5
<1>11. OneListEach(locks) => OneListEach(M)
  BY <1>10 DEF OneListEach
<1> QED
  BY <1>5, <1>6, <1>8, <1>11 DEF Inherits

(* Whoever is handed over still waits for a reason.                        *)
LEMMA StillBlocked ==
  ASSUME locks \in Seq(Lock), NEW l \in Call,
         NEW M, NEW from, NEW nw, Rewritten(M, l, from, nw),
         NEW k \in DOMAIN M, NEW i \in DOMAIN locks, Same(M, l, nw, k, i),
         NEW r \in Call, Blocks(locks[i], r)
  PROVE  Blocks(M[k], r)
<1>1. CASE M[k] = locks[i]
  BY <1>1
<1>2. CASE nw # 0 /\ k = nw /\ Moves(i, l)
  <2>1. PICK o \in Lock : o = locks[i]
    OBVIOUS
  <2>2. PICK n \in Lock : /\ n = M[k] /\ n.id = l.id /\ n.type = l.type
                          /\ n.start = l.start /\ End(n) = End(l)
    BY <1>2 DEF Rewritten
  <2>3. /\ o.id = l.id /\ l.start <= o.start /\ End(o) <= End(l)
        /\ ~(l.type = "F_RDLCK" /\ o.type = "F_WRLCK")
    BY <1>2, <2>1 DEF Moves, Mine, HandedOver, Covers
  <2>4. /\ o.start \in Nat /\ End(o) \in Nat /\ l.start \in Nat /\ End(l) \in Nat
        /\ r.start \in Nat /\ End(r) \in Nat
    BY LockIs
  <2>5. /\ o.id # r.id /\ o.start <= End(r) /\ r.start <= End(o)
        /\ "F_WRLCK" \in {o.type, r.type}
    BY <2>1 DEF Blocks, Overlap
  <2>6. l.start <= End(r) /\ r.start <= End(l)
    BY <2>3, <2>4, <2>5
  <2>7. n.type \in {"F_RDLCK", "F_WRLCK"}
    BY DEF Lock, LockType
  <2>8. "F_WRLCK" \in {n.type, r.type}
    BY <2>2, <2>3, <2>5, <2>7
  <2> QED
    BY <2>2, <2>3, <2>5, <2>6, <2>8 DEF Blocks, Overlap
<1> QED
  BY <1>1, <1>2 DEF Same

-----------------------------------------------------------------------------
(* Lists that differ in who waits only.                                    *)
SameLocks(M, list) ==
  /\ M \in Seq(Lock) /\ DOMAIN M = DOMAIN list
  /\ \A k \in DOMAIN list : /\ M[k].id = list[k].id /\ M[k].type = list[k].type
                            /\ M[k].start = list[k].start /\ M[k].end = list[k].end

LEMMA SameLocksKeep ==
  ASSUME NEW list, NEW M, SameLocks(M, list)
  PROVE  /\ OwnInOrder(list) => OwnInOrder(M)
         /\ NoneInTheWay(list) => NoneInTheWay(M)
         /\ FlocksWhole(list) => FlocksWhole(M)
<1>1. \A k \in DOMAIN list : End(M[k]) = End(list[k])
  BY DEF SameLocks, End
<1>2. OwnInOrder(list) => OwnInOrder(M)
  BY <1>1 DEF SameLocks, OwnInOrder
<1>3. NoneInTheWay(list) => NoneInTheWay(M)
  BY <1>1 DEF SameLocks, NoneInTheWay, Blocks, Overlap
<1>4. FlocksWhole(list) => FlocksWhole(M)
  BY <1>1 DEF SameLocks, FlocksWhole, Whole
<1> QED
  BY <1>2, <1>3, <1>4

LEMMA BlocksSame ==
  ASSUME NEW list, NEW M, SameLocks(M, list), NEW k \in DOMAIN list, NEW r
  PROVE  Blocks(M[k], r) <=> Blocks(list[k], r)
<1>1. End(M[k]) = End(list[k])
  BY DEF SameLocks, End
<1> QED
  BY <1>1 DEF SameLocks, Blocks, Overlap

LEMMA BlockIs ==
  ASSUME NEW o \in Lock, NEW v \in Seq(Owner)
  PROVE  LET n == [o EXCEPT !.block = v]
         IN /\ n \in Lock /\ n.id = o.id /\ n.type = o.type
            /\ n.start = o.start /\ n.end = o.end /\ n.block = v
<1>1. o = Rec(o.id, o.type, o.start, o.end, o.block)
  BY LockIs
<1>2. PICK n : n = [o EXCEPT !.block = v]
  OBVIOUS
<1>3. n = Rec(o.id, o.type, o.start, o.end, v)
  BY <1>1, <1>2, BlockChanged
<1>4. n.id = o.id /\ n.type = o.type /\ n.start = o.start /\ n.end = o.end /\ n.block = v
  BY <1>3, RecIs
<1>5. /\ o.id \in Owner /\ o.type \in LockType /\ o.start \in 0 .. LastByte + 1
      /\ o.end \in (0 .. LastByte) \cup {EOF} /\ (o.end = EOF \/ o.start <= o.end)
  BY DEF Lock
<1>6. n \in Lock
  BY <1>3, <1>4, <1>5, LockFields
<1> QED
  BY <1>2, <1>4, <1>6

(* q goes last on the list of the lock at place b.                         *)
Queued(M, list, b, q) ==
  /\ SameLocks(M, list) /\ b \in DOMAIN list
  /\ M[b].block = Append(list[b].block, q)
  /\ \A k \in DOMAIN list \ {b} : M[k] = list[k]

LEMMA EnqueueIs ==
  ASSUME NEW list \in Seq(Lock), NEW l \in Call,
         NEW j \in DOMAIN list, Blocks(list[j], l)
  PROVE  \E b \in DOMAIN list : /\ Queued(Enqueue(list, l), list, b, l.id)
                                /\ b = FirstBlock(list, l) /\ Blocks(list[b], l)
<1>1. PICK n \in Nat : n = Len(list) /\ DOMAIN list = 1..n
  OBVIOUS
<1>2. PICK b : b = FirstBlock(list, l)
  OBVIOUS
<1>3. b \in DOMAIN list /\ Blocks(list[b], l)
  <2> DEFINE K == {i \in DOMAIN list : Blocks(list[i], l)}
  <2>1. K \in SUBSET (1..n) /\ K # {}
    BY <1>1
  <2>2. b = FirstOf(K)
    BY <1>2 DEF FirstBlock
  <2>3. b \in K
    <3> HIDE DEF K
    <3> QED
      BY <2>1, <2>2, FirstOfIs
  <2> QED
    BY <2>3
<1>4. PICK o \in Lock : o = list[b]
  BY <1>3
<1>5. PICK v \in Seq(Owner) : v = Append(o.block, l.id)
  <2>1. o.block \in Seq(Owner) /\ l.id \in Owner
    BY DEF Lock, Call
  <2>2. Append(o.block, l.id) \in Seq(Owner)
    BY <2>1
  <2> QED
    BY <2>2
<1>6. PICK x \in Lock : /\ x = [o EXCEPT !.block = v]
                        /\ x.id = o.id /\ x.type = o.type /\ x.start = o.start /\ x.end = o.end
                        /\ x.block = v
  BY BlockIs
<1>7. Enqueue(list, l) = [list EXCEPT ![b] = x]
  BY <1>2, <1>3, <1>4, <1>5, <1>6 DEF Enqueue
<1>8. PICK M : M = [list EXCEPT ![b] = x]
  OBVIOUS
<1>9. /\ DOMAIN M = DOMAIN list /\ M[b] = x
      /\ \A k \in DOMAIN list \ {b} : M[k] = list[k]
  BY <1>3, <1>8
<1>10. M \in Seq(Lock)
  BY <1>3, <1>8
<1>11. SameLocks(M, list)
  BY <1>3, <1>4, <1>6, <1>9, <1>10 DEF SameLocks
<1>12. Queued(M, list, b, l.id)
  BY <1>3, <1>4, <1>5, <1>6, <1>9, <1>11 DEF Queued
<1> QED
  BY <1>2, <1>3, <1>7, <1>8, <1>12

LEMMA QueuedWaiters ==
  ASSUME NEW list \in Seq(Lock), NEW M, NEW b, NEW q \in Owner, Queued(M, list, b, q)
  PROVE  /\ ToSet(M[b].block) = ToSet(list[b].block) \cup {q}
         /\ (\A i \in DOMAIN list : q \notin ToSet(list[i].block)) /\ OneListEach(list)
               => OneListEach(M)
<1>1. PICK s \in Seq(Owner) : s = list[b].block
  BY DEF Queued, Lock
<1>2. PICK t : t = M[b].block /\ t = Append(s, q)
  BY <1>1 DEF Queued
<1>3. PICK n \in Nat : n = Len(s) /\ DOMAIN s = 1..n
  OBVIOUS
<1>4. DOMAIN t = 1 .. n + 1 /\ t[n + 1] = q /\ \A m \in 1..n : t[m] = s[m]
  BY <1>2, <1>3
<1>5. ToSet(t) = ToSet(s) \cup {q}
  <2>1. ASSUME NEW m \in 1 .. n + 1 PROVE t[m] \in ToSet(s) \cup {q}
    BY <1>3, <1>4 DEF ToSet
  <2>2. ASSUME NEW m \in 1..n PROVE s[m] \in ToSet(t)
    BY <1>4 DEF ToSet
  <2>3. q \in ToSet(t)
    BY <1>4 DEF ToSet
  <2> QED
    BY <1>3, <1>4, <2>1, <2>2, <2>3 DEF ToSet
<1>6. ASSUME \A i \in DOMAIN list : q \notin ToSet(list[i].block), OneListEach(list)
      PROVE  OneListEach(M)
  <2> SUFFICES ASSUME NEW i \in DOMAIN M, NEW j \in DOMAIN M,
                      NEW m \in DOMAIN M[i].block, NEW k \in DOMAIN M[j].block,
                      M[i].block[m] = M[j].block[k]
               PROVE  i = j /\ m = k
    BY DEF OneListEach
  <2>1. /\ DOMAIN M = DOMAIN list /\ b \in DOMAIN list
        /\ \A c \in DOMAIN list \ {b} : M[c] = list[c]
    BY DEF Queued, SameLocks
  <2>2. ASSUME NEW c \in DOMAIN M, NEW x \in DOMAIN M[c].block
        PROVE  \/ c = b /\ x = n + 1 /\ M[c].block[x] = q
               \/ /\ x \in DOMAIN list[c].block /\ M[c].block[x] = list[c].block[x]
                  /\ M[c].block[x] # q
    <3>1. CASE c = b
      <4>1. M[c].block = t /\ list[c].block = s
        BY <1>1, <1>2, <3>1
      <4>2. x \in 1 .. n + 1
        BY <1>4, <4>1
      <4>3. CASE x = n + 1
        BY <1>4, <3>1, <4>1, <4>3
      <4>4. CASE x # n + 1
        <5>1. x \in 1..n
          BY <4>2, <4>4
        <5>2. t[x] = s[x] /\ s[x] \in ToSet(s)
          BY <1>3, <1>4, <5>1 DEF ToSet
        <5> QED
          BY <1>3, <1>6, <2>1, <4>1, <5>1, <5>2
      <4> QED
        BY <4>3, <4>4
    <3>2. CASE c # b
      <4>1. M[c] = list[c] /\ c \in DOMAIN list
        BY <2>1, <3>2
      <4>2. list[c].block[x] \in ToSet(list[c].block)
        BY <4>1 DEF ToSet
      <4> QED
        BY <1>6, <4>1, <4>2
    <3> QED
      BY <3>1, <3>2
  <2>3. CASE M[i].block[m] = q
    <3>1. i = b /\ m = n + 1
      BY <2>2, <2>3
    <3>2. j = b /\ k = n + 1
      BY <2>2, <2>3
    <3> QED
      BY <3>1, <3>2
  <2>4. CASE M[i].block[m] # q
    <3>1. m \in DOMAIN list[i].block /\ M[i].block[m] = list[i].block[m]
      BY <2>2, <2>4
    <3>2. k \in DOMAIN list[j].block /\ M[j].block[k] = list[j].block[k]
      BY <2>2, <2>4
    <3>3. list[i].block[m] = list[j].block[k] /\ i \in DOMAIN list /\ j \in DOMAIN list
      BY <2>1, <3>1, <3>2
    <3> QED
      BY <1>6, <3>1, <3>2, <3>3 DEF OneListEach
  <2> QED
    BY <2>3, <2>4
<1> QED
  BY <1>1, <1>2, <1>5, <1>6

(* An interrupted sleeper leaves its list.                                 *)
OffListOf(y, x, q) ==
  /\ y \in Seq(Owner) /\ ToSet(y) \subseteq ToSet(x) /\ ToSet(x) \ {q} \subseteq ToSet(y)
  /\ IsInjective(x) => IsInjective(y) /\ q \notin ToSet(y)

LEMMA OffListIs ==
  ASSUME NEW x \in Seq(Owner), NEW q
  PROVE  OffListOf(OffList(x, q), x, q)
<1>1. PICK n \in Nat : n = Len(x) /\ DOMAIN x = 1..n
  OBVIOUS
<1>2. PICK f : f = FirstOf({i \in DOMAIN x : x[i] = q})
  OBVIOUS
<1>3. PICK y : y = OffList(x, q)
  OBVIOUS
<1>4. \/ f = 0 /\ \A i \in 1..n : x[i] # q
      \/ f \in 1..n /\ x[f] = q
  <2> DEFINE K == {i \in DOMAIN x : x[i] = q}
  <2>1. K \in SUBSET (1..n)
    BY <1>1
  <2>2. f = FirstOf(K)
    BY <1>2
  <2>3. \/ f = 0 /\ K = {}
        \/ f \in K
    <3> HIDE DEF K
    <3> QED
      BY <2>1, <2>2, FirstOfIs
  <2> QED
    BY <1>1, <2>3
<1>5. CASE f = 0 /\ \A i \in 1..n : x[i] # q
  <2>1. y = x
    BY <1>2, <1>3, <1>5 DEF OffList
  <2>2. q \notin ToSet(x)
    BY <1>1, <1>5 DEF ToSet
  <2> QED
    BY <1>3, <2>1, <2>2 DEF OffListOf
<1>6. CASE f \in 1..n /\ x[f] = q
  <2>1. y = RemoveAt(x, f)
    BY <1>2, <1>3, <1>6 DEF OffList
  <2>2. PICK a, b : a = SubSeq(x, 1, f - 1) /\ b = SubSeq(x, f + 1, Len(x)) /\ y = a \o b
    BY <2>1 DEF RemoveAt
  <2>3. PICK m \in Nat, k \in Nat : m = f - 1 /\ k = n - f /\ m + 1 + k = n
    BY <1>6
  <2>4. /\ a \in Seq(Owner) /\ Len(a) = m /\ \A i \in 1..m : a[i] = x[i]
        /\ b \in Seq(Owner) /\ Len(b) = k /\ \A i \in 1..k : b[i] = x[f + i]
    BY <1>1, <1>6, <2>2, <2>3
  <2>5. /\ y \in Seq(Owner) /\ Len(y) = m + k
        /\ \A i \in 1..m : y[i] = a[i]
        /\ \A i \in 1..k : y[m + i] = b[i]
    <3>1. JoinOf(y, a, b, Owner)
      BY <2>2, <2>4, Joined
    <3> QED
      BY <2>4, <3>1 DEF JoinOf
  <2>6. DOMAIN y = 1 .. m + k /\ DOMAIN y = 1 .. n - 1
    BY <2>3, <2>5
  <2>7. ASSUME NEW i \in 1 .. n - 1
        PROVE  y[i] = x[IF i < f THEN i ELSE i + 1]
    <3>1. CASE i < f
      <4>1. i \in 1..m
        BY <1>6, <2>3, <3>1
      <4> QED
        BY <2>4, <2>5, <3>1, <4>1
    <3>2. CASE ~(i < f)
      <4>1. PICK j : j = i - m
        OBVIOUS
      <4>2. j \in 1..k /\ m + j = i /\ f + j = i + 1
        BY <1>6, <2>3, <2>7, <3>2, <4>1
      <4>3. y[m + j] = b[j] /\ b[j] = x[f + j]
        BY <2>4, <2>5, <4>2
      <4> QED
        BY <3>2, <4>2, <4>3
    <3> QED
      BY <3>1, <3>2
  <2>8. /\ \A i \in 1 .. n - 1 : (IF i < f THEN i ELSE i + 1) \in 1..n \ {f}
        /\ \A i, j \in 1 .. n - 1 : (IF i < f THEN i ELSE i + 1) = (IF j < f THEN j ELSE j + 1) => i = j
        /\ \A j \in 1..n \ {f} : \E i \in 1 .. n - 1 : j = IF i < f THEN i ELSE i + 1
    <3>1. /\ \A i \in 1 .. n - 1 : (IF i < f THEN i ELSE i + 1) \in 1..n \ {f}
          /\ \A i, j \in 1 .. n - 1 : (IF i < f THEN i ELSE i + 1) = (IF j < f THEN j ELSE j + 1) => i = j
      BY <1>6
    <3>2. ASSUME NEW j \in 1..n \ {f}
          PROVE  \E i \in 1 .. n - 1 : j = IF i < f THEN i ELSE i + 1
      <4>1. CASE j < f
        <5>1. j \in 1 .. n - 1
          BY <1>6, <4>1
        <5> QED
          BY <4>1, <5>1
      <4>2. CASE f < j
        <5>1. j - 1 \in 1 .. n - 1 /\ ~(j - 1 < f) /\ j = (j - 1) + 1
          BY <1>6, <4>2
        <5> QED
          BY <5>1
      <4> QED
        BY <1>6, <4>1, <4>2
    <3> QED
      BY <3>1, <3>2
  <2>9. ToSet(y) \subseteq ToSet(x)
    <3> SUFFICES ASSUME NEW i \in 1 .. n - 1 PROVE y[i] \in ToSet(x)
      BY <2>6 DEF ToSet
    <3>1. PICK c : c = IF i < f THEN i ELSE i + 1
      OBVIOUS
    <3>2. c \in 1..n /\ y[i] = x[c]
      BY <2>7, <2>8, <3>1
    <3> QED
      BY <1>1, <3>2 DEF ToSet
  <2>10. ToSet(x) \ {q} \subseteq ToSet(y)
    <3> SUFFICES ASSUME NEW j \in 1..n, x[j] # q PROVE x[j] \in ToSet(y)
      BY <1>1 DEF ToSet
    <3>1. PICK i \in 1 .. n - 1 : j = IF i < f THEN i ELSE i + 1
      BY <1>6, <2>8
    <3>2. y[i] = x[j]
      BY <2>7, <3>1
    <3> QED
      BY <2>6, <3>2 DEF ToSet
  <2>11. ASSUME IsInjective(x) PROVE IsInjective(y) /\ q \notin ToSet(y)
    <3>1. \A i, j \in 1..n : x[i] = x[j] => i = j
      BY <1>1, <2>11 DEF IsInjective
    <3>2. IsInjective(y)
      <4> SUFFICES ASSUME NEW i \in 1 .. n - 1, NEW j \in 1 .. n - 1, y[i] = y[j] PROVE i = j
        BY <2>6 DEF IsInjective
      <4>1. PICK c, d : c = (IF i < f THEN i ELSE i + 1) /\ d = IF j < f THEN j ELSE j + 1
        OBVIOUS
      <4>2. c \in 1..n /\ d \in 1..n /\ x[c] = x[d]
        BY <2>7, <2>8, <4>1
      <4>3. c = d
        BY <3>1, <4>2
      <4> QED
        BY <2>8, <4>1, <4>3
    <3>3. ASSUME NEW i \in 1 .. n - 1, y[i] = q PROVE FALSE
      <4>1. PICK c : c = IF i < f THEN i ELSE i + 1
        OBVIOUS
      <4>2. c \in 1..n \ {f} /\ x[c] = q
        BY <2>7, <2>8, <3>3, <4>1
      <4> QED
        BY <1>6, <3>1, <4>2
    <3> QED
      BY <2>6, <3>2, <3>3 DEF ToSet
  <2> QED
    BY <1>3, <2>5, <2>9, <2>10, <2>11 DEF OffListOf
<1> QED
  BY <1>4, <1>5, <1>6

-----------------------------------------------------------------------------
(* The search for a deadlock: what it finds in n steps, from h, what it    *)
(* finds in fewer.                                                         *)
Look(p, h, n) ==
  [q \in Owner |->
     IF n = 0 \/ status[q] # "asleep" THEN "no"
     ELSE IF q \in stale THEN "unknown"
     ELSE IF Blocker(q) \in Flock THEN "no"
     ELSE IF Blocker(q) = p THEN "yes"
     ELSE h[n - 1][Blocker(q)]]

LEMMA SearchExists ==
  ASSUME NEW D \in Nat, NEW p
  PROVE  \E h : h = [n \in 0..D |-> Look(p, h, n)]
<1> DEFINE Good(k) == \E h : h = [n \in 0..k |-> Look(p, h, n)]
<1>1. Good(0)
  <2> DEFINE h == [n \in 0..0 |-> Look(p, <<>>, n)]
  <2>1. Look(p, <<>>, 0) = Look(p, h, 0)
    BY DEF Look
  <2>2. h = [n \in 0..0 |-> Look(p, h, n)]
    BY <2>1
  <2> QED
    BY <2>2
<1>2. ASSUME NEW k \in Nat, Good(k) PROVE Good(k + 1)
  <2>1. PICK h : h = [n \in 0..k |-> Look(p, h, n)]
    BY <1>2
  <2>2. PICK r : r = Look(p, h, k + 1)
    OBVIOUS
  <2> DEFINE g == [n \in 0 .. k + 1 |-> IF n <= k THEN h[n] ELSE r]
  <2>3. \A n \in 0..k : n \in 0 .. k + 1 /\ n <= k /\ g[n] = h[n]
    OBVIOUS
  <2>4. k + 1 \in 0 .. k + 1 /\ ~(k + 1 <= k) /\ (k + 1) - 1 = k /\ k \in 0..k
    OBVIOUS
  <2>5. g[k + 1] = r
    BY <2>4
  <2>6. g = [n \in 0 .. k + 1 |-> g[n]]
    OBVIOUS
  <2> HIDE DEF g
  <2>7. ASSUME NEW n \in 0..k PROVE Look(p, h, n) = Look(p, g, n)
    <3>1. CASE n = 0
      BY <3>1 DEF Look
    <3>2. CASE n # 0
      <4>1. n - 1 \in 0..k
        BY <3>2
      <4>2. g[n - 1] = h[n - 1]
        BY <2>3, <4>1
      <4> QED
        BY <4>2 DEF Look
    <3> QED
      BY <3>1, <3>2
  <2>8. Look(p, h, k + 1) = Look(p, g, k + 1)
    <3>1. g[(k + 1) - 1] = h[(k + 1) - 1]
      BY <2>3, <2>4
    <3> QED
      BY <3>1 DEF Look
  <2>9. \A n \in 0..k : h[n] = Look(p, h, n)
    BY <2>1
  <2>10. \A n \in 0 .. k + 1 : n \in 0..k \/ n = k + 1
    OBVIOUS
  <2>11. \A n \in 0 .. k + 1 : g[n] = Look(p, g, n)
    BY <2>2, <2>3, <2>5, <2>7, <2>8, <2>9, <2>10
  <2>12. g = [n \in 0 .. k + 1 |-> Look(p, g, n)]
    BY <2>6, <2>11
  <2> QED
    BY <2>12
<1> HIDE DEF Good
<1>3. CASE D = 0
  BY <1>1, <1>3 DEF Good
<1>4. CASE D # 0
  <2>1. \A k \in 1..D : Good(k)
    <3> SUFFICES ASSUME \E k \in 1..D : ~Good(k) PROVE FALSE
      OBVIOUS
    <3> DEFINE K == {k \in 1..D : ~Good(k)}
    <3>1. K \in SUBSET (1..D) /\ K # {}
      OBVIOUS
    <3>2. PICK l \in K : \A k \in K : l <= k
      <4> HIDE DEF K
      <4> QED
        BY <3>1, LeastExists
    <3>3. l - 1 \in Nat /\ (l - 1) + 1 = l /\ (l - 1 = 0 \/ (l - 1 \in 1..D /\ l - 1 \notin K))
      BY <3>2
    <3>4. Good(l - 1)
      BY <1>1, <3>3
    <3>5. Good((l - 1) + 1)
      BY <1>2, <3>3, <3>4
    <3> QED
      BY <3>3, <3>5
  <2> QED
    BY <1>4, <2>1 DEF Good
<1> QED
  BY <1>3, <1>4

(* What the search finds does not depend on which solution it is.          *)
LEMMA CircleIs ==
  ASSUME NEW p \in Posix, NEW b \in Posix
  PROVE  \E f : /\ \A n \in 0 .. maxlockdepth : f[n] = Look(p, f, n)
                /\ Circle(p, b) = f[maxlockdepth][b]
<1>1. maxlockdepth \in Nat
  BY BoundsAreNat
<1> DEFINE Def(h) == [n \in 0 .. maxlockdepth |->
                        [q \in Owner |->
                           IF n = 0 \/ status[q] # "asleep" THEN "no"
                           ELSE IF q \in stale THEN "unknown"
                           ELSE IF Blocker(q) \in Flock THEN "no"
                           ELSE IF Blocker(q) = p THEN "yes"
                           ELSE h[n - 1][Blocker(q)]]]
<1>2. PICK f : f = CHOOSE h : h = Def(h)
  OBVIOUS
<1>3. {p, b} \subseteq Posix
  OBVIOUS
<1>4. Circle(p, b) = f[maxlockdepth][b]
  BY <1>2, <1>3 DEF Circle
<1>5. \E h : h = Def(h)
  <2>1. \E h : h = [n \in 0 .. maxlockdepth |-> Look(p, h, n)]
    BY <1>1, SearchExists
  <2> QED
    BY <2>1 DEF Look
<1>6. f = Def(f)
  <2> HIDE DEF Def
  <2> QED
    BY <1>2, <1>5
<1>7. \A n \in 0 .. maxlockdepth : f[n] = Look(p, f, n)
  BY <1>6 DEF Look
<1> QED
  BY <1>4, <1>7

(* Sleepers that wait for each other's locks only, p among them, and b     *)
(* from which the search for p found nothing: some of them waited in a     *)
(* circle without p all along.                                             *)
LEMMA SearchFindsCircle ==
  ASSUME NEW T, IsFiniteSet(T), T \subseteq Posix, Cardinality(T) <= maxlockdepth + 1,
         NEW p \in T, NEW b \in T \ {p}, Circle(p, b) # "yes",
         \A q \in T \ {p} : status[q] = "asleep" /\ q \notin stale /\ Blocker(q) \in T
  PROVE  \E W \in SUBSET (T \ {p}) : W # {} /\ \A q \in W : Blocker(q) \in W
<1>1. PICK D \in Nat : D = maxlockdepth
  BY BoundsAreNat
<1>2. PICK f : (\A n \in 0..D : f[n] = Look(p, f, n)) /\ Circle(p, b) = f[D][b]
  BY <1>1, CircleIs
<1>3. T \subseteq Owner /\ \A q \in T : q \notin Flock
  BY OwnersDiffer DEF Owner
<1>4. \A q \in T : f[0][q] # "yes"
  <2>1. 0 \in 0..D
    OBVIOUS
  <2>2. f[0] = Look(p, f, 0)
    BY <1>2, <2>1
  <2>3. \A q \in Owner : Look(p, f, 0)[q] = "no"
    BY DEF Look
  <2>4. \A q \in Owner : f[0][q] = "no"
    BY ONLY <2>2, <2>3
  <2> QED
    BY ONLY <1>3, <2>4
<1>5. \A n \in 1..D : \A q \in T \ {p} :
        f[n][q] = "yes" <=> (Blocker(q) = p \/ f[n - 1][Blocker(q)] = "yes")
  <2> SUFFICES ASSUME NEW n \in 1..D, NEW q \in T \ {p}
               PROVE  f[n][q] = "yes" <=> (Blocker(q) = p \/ f[n - 1][Blocker(q)] = "yes")
    OBVIOUS
  <2>1. n \in 0..D /\ n # 0
    OBVIOUS
  <2>2. q \in Owner /\ status[q] = "asleep" /\ q \notin stale /\ Blocker(q) \notin Flock
    BY <1>3
  <2>3. f[n][q] = IF Blocker(q) = p THEN "yes" ELSE f[n - 1][Blocker(q)]
    <3>1. f[n] = Look(p, f, n)
      BY <1>2, <2>1
    <3>2. Look(p, f, n)[q] = IF Blocker(q) = p THEN "yes" ELSE f[n - 1][Blocker(q)]
      BY <2>1, <2>2 DEF Look
    <3> QED
      BY ONLY <3>1, <3>2
  <2> QED
    BY ONLY <2>3
<1> DEFINE U(n) == {q \in T \ {p} : f[n][q] = "yes"}
<1>6. \A n \in 0 .. D : \A m \in 0 .. D : n <= m => U(n) \subseteq U(m)
  <2> SUFFICES ASSUME \E m \in 1..D : \E n \in 0..D : n < m /\ ~(U(n) \subseteq U(m))
               PROVE  FALSE
    OBVIOUS
  <2> DEFINE K == {m \in 1..D : \E n \in 0..D : n < m /\ ~(U(n) \subseteq U(m))}
  <2>1. PICK m \in K : \A k \in K : m <= k
    <3>1. K \in SUBSET (1..D) /\ K # {}
      OBVIOUS
    <3> HIDE DEF K
    <3> QED
      BY <3>1, LeastExists
  <2>2. PICK n \in 0..D, q \in T \ {p} : n < m /\ f[n][q] = "yes" /\ f[m][q] # "yes"
    BY <2>1
  <2>3. m \in 1..D
    BY <2>1
  <2>4. n # 0
    BY <1>4, <2>2
  <2>5. Blocker(q) # p /\ f[n - 1][Blocker(q)] = "yes" /\ f[m - 1][Blocker(q)] # "yes"
    <3>1. n \in 1..D
      BY <2>4
    <3> QED
      BY <1>5, <2>2, <2>3, <3>1
  <2>6. Blocker(q) \in T \ {p}
    BY <2>5
  <2>7. m - 1 \in 1..D /\ n - 1 \in 0..D /\ n - 1 < m - 1 /\ ~(m <= m - 1)
    BY <2>2, <2>3, <2>4
  <2>8. ~(U(n - 1) \subseteq U(m - 1))
    BY <2>5, <2>6
  <2>9. m - 1 \in K
    BY <2>7, <2>8
  <2> QED
    BY <2>1, <2>7, <2>9
<1>7. \A n \in 0..D : U(n) \subseteq T \ {p, b} /\ b \notin U(n)
  <2> SUFFICES ASSUME NEW n \in 0..D PROVE b \notin U(n)
    OBVIOUS
  <2>1. U(n) \subseteq U(D)
    BY <1>1, <1>6
  <2>2. b \notin U(D)
    BY <1>1, <1>2
  <2> QED
    BY <2>1, <2>2
<1>8. IsFiniteSet(T \ {p, b}) /\ Cardinality(T \ {p, b}) < D
  <2>1. IsFiniteSet(T \ {p}) /\ Cardinality(T \ {p}) = Cardinality(T) - 1
    BY FS_RemoveElement
  <2>2. IsFiniteSet((T \ {p}) \ {b}) /\ Cardinality((T \ {p}) \ {b}) = Cardinality(T \ {p}) - 1
    BY <2>1, FS_RemoveElement
  <2>3. (T \ {p}) \ {b} = T \ {p, b}
    OBVIOUS
  <2>4. Cardinality(T) \in Nat
    BY FS_CardinalityType
  <2>5. PICK t, t1, t2 : /\ t = Cardinality(T) /\ t1 = Cardinality(T \ {p})
                         /\ t2 = Cardinality(T \ {p, b}) /\ t \in Nat
    BY <2>4
  <2>6. t <= D + 1 /\ t1 = t - 1 /\ t2 = t1 - 1
    <3>1. t <= D + 1
      BY <1>1, <2>5
    <3> QED
      BY ONLY <2>1, <2>2, <2>3, <2>5, <3>1
  <2>7. t2 < D
    BY <2>5, <2>6
  <2> QED
    BY ONLY <2>2, <2>3, <2>5, <2>7
<1>9. \A n \in 0..D : IsFiniteSet(U(n)) /\ Cardinality(U(n)) \in Nat /\ Cardinality(U(n)) < D
  <2> SUFFICES ASSUME NEW n \in 0..D
               PROVE  IsFiniteSet(U(n)) /\ Cardinality(U(n)) \in Nat /\ Cardinality(U(n)) < D
    OBVIOUS
  <2>1. PICK u : u = U(n)
    OBVIOUS
  <2>2. u \in SUBSET (T \ {p, b})
    BY <1>7, <2>1
  <2>3. IsFiniteSet(u) /\ Cardinality(u) <= Cardinality(T \ {p, b})
    BY <1>8, <2>2, FS_Subset
  <2>4. Cardinality(u) \in Nat /\ Cardinality(T \ {p, b}) \in Nat
    BY <1>8, <2>3, FS_CardinalityType
  <2> QED
    BY <1>8, <2>1, <2>3, <2>4
<1>10. ASSUME NEW n \in Nat, n + 1 \in 0..D, U(n) # U(n + 1)
       PROVE  Cardinality(U(n)) + 1 <= Cardinality(U(n + 1))
  <2>1. PICK u, v : u = U(n) /\ v = U(n + 1)
    OBVIOUS
  <2>2. n \in 0..D /\ n <= n + 1
    BY <1>10
  <2>3. u \in SUBSET v /\ u # v
    BY <1>6, <1>10, <2>1, <2>2
  <2>4. IsFiniteSet(v) /\ Cardinality(v) \in Nat /\ Cardinality(u) \in Nat
    BY <1>9, <1>10, <2>1, <2>2
  <2>5. Cardinality(u) <= Cardinality(v) /\ (Cardinality(v) = Cardinality(u) => v = u)
    BY <2>3, <2>4, FS_Subset
  <2> QED
    BY <2>1, <2>3, <2>4, <2>5
<1> HIDE DEF U
<1>11. \E m \in 0 .. D - 1 : U(m) = U(m + 1)
  <2> SUFFICES ASSUME \A m \in 0 .. D - 1 : U(m) # U(m + 1) PROVE FALSE
    OBVIOUS
  <2>1. \A n \in 1..D : n <= Cardinality(U(n))
    <3> SUFFICES ASSUME \E n \in 1..D : ~(n <= Cardinality(U(n))) PROVE FALSE
      OBVIOUS
    <3> DEFINE K == {n \in 1..D : ~(n <= Cardinality(U(n)))}
    <3>1. PICK n \in K : \A k \in K : n <= k
      <4>1. K \in SUBSET (1..D) /\ K # {}
        OBVIOUS
      <4> HIDE DEF K
      <4> QED
        BY <4>1, LeastExists
    <3>2. PICK m \in Nat : m = n - 1 /\ m + 1 = n /\ n \in 1..D
      BY <3>1
    <3>3. m \in 0 .. D - 1 /\ m \in 0..D /\ m + 1 \in 0..D
      BY <3>2
    <3>4. Cardinality(U(m)) + 1 <= Cardinality(U(m + 1))
      BY <1>10, <3>2, <3>3
    <3>5. m <= Cardinality(U(m))
      <4>1. CASE m = 0
        BY <1>9, <3>3, <4>1
      <4>2. CASE m # 0
        <5>1. m \in 1..D /\ ~(n <= m)
          BY <3>2, <3>3, <4>2
        <5>2. m \notin K
          BY <3>1, <5>1
        <5> QED
          BY <5>1, <5>2
      <4> QED
        BY <4>1, <4>2
    <3>6. Cardinality(U(m)) \in Nat /\ Cardinality(U(m + 1)) \in Nat
      BY <1>9, <3>3
    <3>7. m + 1 <= Cardinality(U(m + 1))
      BY <3>4, <3>5, <3>6
    <3> QED
      BY <3>1, <3>2, <3>7
  <2>2. CASE D = 0
    <3>1. Cardinality(T \ {p, b}) \in Nat
      BY <1>8, FS_CardinalityType
    <3> QED
      BY <1>8, <2>2, <3>1
  <2>3. CASE D # 0
    <3>1. D \in 1..D /\ D \in 0..D
      BY <2>3
    <3>2. D <= Cardinality(U(D)) /\ Cardinality(U(D)) \in Nat /\ Cardinality(U(D)) < D
      BY <1>9, <2>1, <3>1
    <3> QED
      BY <3>2
  <2> QED
    BY <2>2, <2>3
<1>12. PICK m \in 0 .. D - 1 : U(m) = U(m + 1)
  BY <1>11
<1>13. m \in 0..D /\ m + 1 \in 1..D /\ (m + 1) - 1 = m
  OBVIOUS
<1> DEFINE W == (T \ {p}) \ U(m)
<1>14. b \in W
  BY <1>7, <1>13
<1>15. ASSUME NEW q \in W PROVE Blocker(q) \in W
  <2>1. q \in T \ {p} /\ q \notin U(m + 1)
    BY <1>12
  <2>2. f[m + 1][q] # "yes"
    BY <2>1 DEF U
  <2>3. Blocker(q) # p /\ f[m][Blocker(q)] # "yes"
    BY <1>5, <1>13, <2>1, <2>2
  <2> QED
    BY <2>1, <2>3 DEF U
<1> QED
  BY <1>14, <1>15

-----------------------------------------------------------------------------
(* Why a sleeper sleeps.                                                   *)
BlockerIn(list, q) == (CHOOSE o \in ToSet(list) : q \in ToSet(o.block)).id

LEMMA BlockerIs ==
  ASSUME NEW list, OneListEach(list), NEW i \in DOMAIN list, NEW q, q \in ToSet(list[i].block)
  PROVE  BlockerIn(list, q) = list[i].id
<1>1. list[i] \in ToSet(list)
  BY DEF ToSet
<1>2. PICK o : o = CHOOSE x \in ToSet(list) : q \in ToSet(x.block)
  OBVIOUS
<1>3. o \in ToSet(list) /\ q \in ToSet(o.block)
  BY <1>1, <1>2
<1>4. PICK j \in DOMAIN list : o = list[j]
  BY <1>3 DEF ToSet
<1>5. PICK m \in DOMAIN list[i].block, n \in DOMAIN list[j].block :
        list[i].block[m] = q /\ list[j].block[n] = q
  BY <1>3, <1>4 DEF ToSet
<1>6. i = j
  BY <1>5 DEF OneListEach
<1> QED
  BY <1>2, <1>4, <1>6 DEF BlockerIn

Sleepers(list, st, rq) ==
  /\ OneListEach(list)
  /\ \A q \in Owner : st[q] = "asleep" <=> \E i \in DOMAIN list : q \in ToSet(list[i].block)
  /\ \A i \in DOMAIN list : \A q \in ToSet(list[i].block) : Blocks(list[i], Lockf(q, rq[q]))

(* The sequence of all waiters is injective when everybody is at most once *)
(* on a list.                                                              *)
LEMMA AllListsInjective ==
  ASSUME NEW list \in Seq(Lock), OneListEach(list)
  PROVE  IsInjective(FlattenSeq([i \in DOMAIN list |-> list[i].block]))
<1>1. PICK n \in Nat : n = Len(list) /\ DOMAIN list = 1..n
  OBVIOUS
<1>2. PICK ss : ss = [i \in DOMAIN list |-> list[i].block]
  OBVIOUS
<1>3. \A i \in DOMAIN list : ss[i] = list[i].block /\ ss[i] \in Seq(Owner)
  BY <1>2 DEF Lock
<1>4. ss \in Seq(Seq(Owner)) /\ Len(ss) = n
  <2>1. ss = [i \in 1..n |-> ss[i]]
    BY <1>1, <1>2
  <2>2. \A i \in 1..n : ss[i] \in Seq(Owner)
    BY <1>1, <1>3
  <2> QED
    BY <2>1, <2>2
<1>5. PICK f, blk, pos : f = FlattenSeq(ss) /\ f \in Seq(Owner) /\ Spread(f, ss, n, blk, pos)
  BY <1>4, FlattenSpreads
<1>6. ASSUME NEW j \in DOMAIN f, NEW k \in DOMAIN f, f[j] = f[k] PROVE j = k
  <2>1. /\ blk[j] \in 1..n /\ blk[k] \in 1..n /\ pos[j] \in Nat /\ pos[k] \in Nat
        /\ pos[j] \in DOMAIN ss[blk[j]] /\ f[j] = ss[blk[j]][pos[j]]
        /\ pos[k] \in DOMAIN ss[blk[k]] /\ f[k] = ss[blk[k]][pos[k]]
    BY <1>5 DEF Spread
  <2>2. blk[j] = blk[k] /\ pos[j] = pos[k]
    <3>1. PICK a, b, x, y : a = blk[j] /\ b = blk[k] /\ x = pos[j] /\ y = pos[k]
      OBVIOUS
    <3>2. /\ a \in DOMAIN list /\ b \in DOMAIN list
          /\ x \in DOMAIN ss[a] /\ y \in DOMAIN ss[b] /\ ss[a][x] = ss[b][y]
      BY <1>1, <1>6, <2>1, <3>1
    <3>3. /\ x \in DOMAIN list[a].block /\ y \in DOMAIN list[b].block
          /\ list[a].block[x] = list[b].block[y]
      BY <1>3, <3>2
    <3>4. a = b /\ x = y
      BY <3>2, <3>3 DEF OneListEach
    <3> QED
      BY <3>1, <3>4
  <2>3. j \in Nat /\ k \in Nat
    BY <1>5
  <2>4. ~(j < k) /\ ~(k < j)
    <3>1. /\ j < k => blk[j] < blk[k] \/ (blk[j] = blk[k] /\ pos[j] < pos[k])
          /\ k < j => blk[k] < blk[j] \/ (blk[k] = blk[j] /\ pos[k] < pos[j])
      BY <1>5 DEF Spread
    <3> QED
      BY <2>1, <2>2, <3>1
  <2> QED
    BY <2>3, <2>4
<1> QED
  BY <1>2, <1>5, <1>6 DEF IsInjective

LEMMA ReasonOfSleepers ==
  ASSUME locks \in Seq(Lock), Sleepers(locks, status, request)
  PROVE  SleepsForAReason
<1>1. OneListEach(locks)
  BY DEF Sleepers
<1>2. IsInjective(FlattenSeq([i \in DOMAIN locks |-> locks[i].block]))
  BY <1>1, AllListsInjective
<1>3. Waiters(ToSet(locks)) = {o \in Owner : status[o] = "asleep"}
  <2>1. ASSUME NEW q, q \in Waiters(ToSet(locks)) PROVE q \in Owner /\ status[q] = "asleep"
    <3>1. PICK i \in DOMAIN locks : q \in ToSet(locks[i].block)
      BY <2>1, WaitersAre
    <3>2. locks[i].block \in Seq(Owner)
      BY DEF Lock
    <3>3. q \in Owner
      BY <3>1, <3>2 DEF ToSet
    <3> QED
      BY <3>1, <3>3 DEF Sleepers
  <2>2. ASSUME NEW q \in Owner, status[q] = "asleep" PROVE q \in Waiters(ToSet(locks))
    BY <2>2, WaitersAre DEF Sleepers
  <2> QED
    BY <2>1, <2>2
<1> QED
  BY <1>2, <1>3 DEF SleepsForAReason, Sleepers

(* A flock that sleeps holds no lock.                                      *)
IdleFlocks(list, st) ==
  \A q \in Flock : st[q] = "asleep" => \A i \in DOMAIN list : list[i].id # q

Alive(st, stl) == {o \in Owner : st[o] = "asleep" /\ o \notin stl}

(* Among the owners A, no circle of at most maxlockdepth + 1.              *)
NoCircle(list, A) ==
  \A S \in SUBSET A :
    S # {} /\ Cardinality(S) <= maxlockdepth + 1 => \E o \in S : BlockerIn(list, o) \notin S

Waits(list, st, rq, stl) ==
  Sleepers(list, st, rq) /\ IdleFlocks(list, st) /\ NoCircle(list, Alive(st, stl))

Core(list) == OwnInOrder(list) /\ NoneInTheWay(list) /\ FlocksWhole(list)

(* Who is not running asked for something.                                 *)
Asked(st, rq) ==
  \A o \in Owner : st[o] # "run" =>
    rq[o] \in Request /\ (o \in Flock => rq[o] \in WholeFile)

LEMMA CirclesKept ==
  ASSUME NEW list, NEW A, NoCircle(list, A), NEW M, NEW B, B \subseteq A,
         \A q \in B : BlockerIn(M, q) = BlockerIn(list, q)
  PROVE  NoCircle(M, B)
BY DEF NoCircle

LEMMA LockfIs ==
  ASSUME NEW o \in Owner, NEW r \in Request \cup {NoRequest}
  PROVE  /\ Lockf(o, r) \in Call /\ Lockf(o, r).id = o /\ Lockf(o, r).type = r.type
         /\ Lockf(o, r).start = r.start /\ Lockf(o, r).end = r.end
         /\ r \in Request => Lockf(o, r).type \in LockType
         /\ r \in WholeFile => Whole(Lockf(o, r))
<1>1. PICK l : l = Lockf(o, r)
  OBVIOUS
<1>2. /\ l.id = o /\ l.type = r.type /\ l.start = r.start /\ l.end = r.end /\ l.block = <<>>
      /\ l = Rec(o, r.type, r.start, r.end, <<>>)
  BY <1>1 DEF Lockf, Rec
<1>3. /\ r.type \in LockType \cup {"F_UNLCK"} /\ r.start \in 0 .. LastByte
      /\ r.end \in (0 .. LastByte) \cup {EOF} /\ (r.end = EOF \/ r.start <= r.end)
      /\ r \in Request => r.type \in LockType
  BY BoundsAreNat DEF Request, NoRequest
<1>4. l \in Call
  BY <1>2, <1>3 DEF Call, Rec
<1>5. r \in WholeFile => Whole(l)
  BY <1>2 DEF WholeFile, Whole, End
<1> QED
  BY <1>1, <1>2, <1>3, <1>4, <1>5

(* A sleeper whose lock a call rewrites stays asleep for the same reason,  *)
(* unless it is woken.                                                     *)
LEMMA RewrittenWaits ==
  ASSUME locks \in Seq(Lock), request \in [Owner -> Request \cup {NoRequest}],
         Waits(locks, status, request, stale),
         NEW l \in Call, NEW M, NEW from, NEW nw, Rewritten(M, l, from, nw),
         nw # 0 => Taken(M[nw].block, l) /\ status[l.id] # "asleep",
         NEW st, NEW rq, NEW stl,
         \A q \in Owner : st[q] = "asleep" <=> status[q] = "asleep" /\ ~Woken(l, nw, q),
         \A q \in Owner : status[q] = "asleep" => rq[q] = request[q],
         \A q \in Owner : q \in stale /\ st[q] = "asleep" => q \in stl
  PROVE  Waits(M, st, rq, stl)
<1>1. Inherits(M, l, nw)
  BY RewrittenWaiters
<1>2. Sleepers(locks, status, request) /\ OneListEach(locks)
  BY DEF Waits, Sleepers
<1>3. OneListEach(M)
  BY <1>1, <1>2 DEF Inherits
<1>4. M \in Seq(Lock) /\ \A k \in DOMAIN M : M[k] \in Lock /\ M[k].block \in Seq(Owner)
  BY DEF Rewritten, Lock
<1>5. ASSUME NEW k \in DOMAIN M, NEW q \in ToSet(M[k].block)
      PROVE  /\ q \in Owner /\ st[q] = "asleep" /\ Blocks(M[k], Lockf(q, rq[q]))
             /\ BlockerIn(M, q) = BlockerIn(locks, q)
  <2>1. q \in Owner
    BY <1>4 DEF ToSet
  <2>2. PICK i \in DOMAIN locks : /\ q \in ToSet(locks[i].block) /\ Same(M, l, nw, k, i)
                                  /\ locks[i].id = M[k].id
    BY <1>1 DEF Inherits
  <2>3. status[q] = "asleep" /\ Blocks(locks[i], Lockf(q, request[q]))
    BY <1>2, <2>1, <2>2 DEF Sleepers
  <2>4. ~Woken(l, nw, q)
    BY <1>1, <1>2 DEF Inherits
  <2>5. PICK r \in Call : r = Lockf(q, request[q])
    BY <2>1, LockfIs
  <2>6. Blocks(M[k], r)
    BY <2>2, <2>3, <2>5, StillBlocked
  <2>7. rq[q] = request[q]
    BY <2>1, <2>3
  <2>8. BlockerIn(M, q) = M[k].id
    BY <1>3, BlockerIs
  <2>9. BlockerIn(locks, q) = locks[i].id
    BY <1>2, <2>2, BlockerIs
  <2> QED
    BY <2>1, <2>2, <2>3, <2>4, <2>5, <2>6, <2>7, <2>8, <2>9
<1>6. ASSUME NEW q \in Owner, st[q] = "asleep"
      PROVE  status[q] = "asleep" /\ \E k \in DOMAIN M : q \in ToSet(M[k].block)
  <2>1. status[q] = "asleep" /\ ~Woken(l, nw, q)
    BY <1>6
  <2>2. PICK i \in DOMAIN locks : q \in ToSet(locks[i].block)
    BY <1>2, <2>1 DEF Sleepers
  <2> QED
    BY <1>1, <2>1, <2>2 DEF Inherits
<1>7. Sleepers(M, st, rq)
  BY <1>3, <1>5, <1>6 DEF Sleepers
<1>8. IdleFlocks(M, st)
  <2> SUFFICES ASSUME NEW q \in Flock, st[q] = "asleep", NEW k \in DOMAIN M, M[k].id = q
               PROVE  FALSE
    BY DEF IdleFlocks
  <2>1. q \in Owner /\ status[q] = "asleep"
    BY <1>6 DEF Owner
  <2>2. CASE k = nw
    <3>1. nw # 0
      BY <1>4, <2>2
    <3>2. M[nw].id = l.id
      BY <3>1 DEF Rewritten
    <3> QED
      BY <2>1, <2>2, <3>1, <3>2
  <2>3. CASE k # nw
    <3>1. PICK i \in DOMAIN locks : Fits(M[k], locks[i], l) /\ locks[i] \in Lock
      BY <2>3 DEF Rewritten
    <3>2. M[k].id = locks[i].id
      BY <1>4, <3>1, FitsIs
    <3> QED
      BY <2>1, <3>2 DEF Waits, IdleFlocks
  <2> QED
    BY <2>2, <2>3
<1>9. NoCircle(M, Alive(st, stl))
  <2>1. \A q \in Alive(st, stl) : BlockerIn(M, q) = BlockerIn(locks, q)
    BY <1>5, <1>6 DEF Alive
  <2>2. Alive(st, stl) \subseteq Alive(status, stale)
    BY <1>6 DEF Alive
  <2>3. NoCircle(locks, Alive(status, stale))
    BY DEF Waits
  <2> QED
    BY <2>1, <2>2, <2>3, CirclesKept
<1> QED
  BY <1>7, <1>8, <1>9 DEF Waits

-----------------------------------------------------------------------------
(* The inductive invariant: a lock list is in order, without conflicts, a  *)
(* flock is for the whole file; and as long as nobody is lost, sleepers    *)
(* sleep for a reason, a sleeping flock holds nothing, and no circle went  *)
(* unnoticed.                                                              *)
IInv ==
  /\ TypeOK
  /\ Core(locks)
  /\ Asked(status, request)
  /\ lost = "no" => Waits(locks, status, request, stale)

(* Somebody who is not asleep asks for the lock l.                         *)
MayCall(l) ==
  /\ l \in Call /\ l.type \in LockType /\ status[l.id] # "asleep"
  /\ RequestOf(l) \in Request /\ l = Lockf(l.id, RequestOf(l))
  /\ l.id \in Flock => Whole(l) /\ RequestOf(l) \in WholeFile

LEMMA FirstBlockIs ==
  ASSUME locks \in Seq(Lock), NEW l
  PROVE  /\ lf_getblock(l) = 0 => \A i \in DOMAIN locks : ~Blocks(locks[i], l)
         /\ lf_getblock(l) # 0 => /\ lf_getblock(l) \in DOMAIN locks
                                  /\ Blocks(locks[lf_getblock(l)], l)
<1>1. PICK n \in Nat : DOMAIN locks = 1..n
  OBVIOUS
<1> DEFINE K == {i \in DOMAIN locks : Blocks(locks[i], l)}
<1>2. K \in SUBSET (1..n)
  BY <1>1
<1>3. lf_getblock(l) = FirstOf(K)
  BY DEF lf_getblock, FirstBlock
<1>4. /\ K = {} => FirstOf(K) = 0
      /\ K # {} => FirstOf(K) \in K
  <2> HIDE DEF K
  <2> QED
    BY <1>2, FirstOfIs
<1>5. 0 \notin K
  BY <1>1
<1> QED
  BY <1>3, <1>4, <1>5

LEMMA WaitsKept ==
  ASSUME Waits(locks, status, request, stale), locks \in Seq(Lock),
         NEW st, NEW rq, NEW stl,
         \A q \in Owner : st[q] = "asleep" <=> status[q] = "asleep",
         \A q \in Owner : status[q] = "asleep" => rq[q] = request[q],
         \A q \in Owner : q \in stale /\ st[q] = "asleep" => q \in stl
  PROVE  Waits(locks, st, rq, stl)
<1>1. \A i \in DOMAIN locks : \A q \in ToSet(locks[i].block) : q \in Owner
  BY DEF Lock, ToSet
<1>2. Sleepers(locks, status, request)
  BY DEF Waits
<1>3. \A i \in DOMAIN locks : \A q \in ToSet(locks[i].block) : rq[q] = request[q]
  BY <1>1, <1>2 DEF Sleepers
<1>4. \A i \in DOMAIN locks : \A q \in ToSet(locks[i].block) : Blocks(locks[i], Lockf(q, rq[q]))
  BY <1>2, <1>3 DEF Sleepers
<1>5. Sleepers(locks, st, rq)
  BY <1>2, <1>4 DEF Sleepers
<1>6. IdleFlocks(locks, st)
  BY DEF Waits, IdleFlocks, Owner
<1>7. Alive(st, stl) \subseteq Alive(status, stale)
  BY DEF Alive
<1>8. NoCircle(locks, Alive(st, stl))
  BY <1>7, CirclesKept DEF Waits
<1> QED
  BY <1>5, <1>6, <1>8 DEF Waits

(* What a granted call does to the others: nothing, or it wakes who waits  *)
(* for an overlap that is not handed over.                                 *)
Runs(l) == status' = [status EXCEPT ![l.id] = "run"] /\ stale' = stale

NotHandedOver(l) == Waiters({o \in MyOverlaps(l) : ~HandedOver(o, l)})
Moved(l) == Waiters({o \in MyOverlaps(l) : HandedOver(o, l) /\ ~SameRange(o, l)})

Wakes(l) ==
  /\ status' = [o \in Owner |-> IF o \in NotHandedOver(l) THEN "awake"
                                ELSE IF o = l.id THEN "run" ELSE status[o]]
  /\ stale' = (stale \ NotHandedOver(l)) \cup Moved(l)

(* q waits for one of my overlaps with l that are not handed over.         *)
LEMMA WokenAre ==
  ASSUME NEW l, NEW q, NEW nw
  PROVE  /\ q \in Waiters(MyOverlaps(l)) <=> Woken(l, 0, q)
         /\ nw # 0 =>
              (q \in NotHandedOver(l) <=> Woken(l, nw, q))
<1>1. \A o : o \in MyOverlaps(l) <=> \E i \in DOMAIN locks : o = locks[i] /\ Mine(o, l)
  BY DEF MyOverlaps, ToSet
<1> QED
  BY <1>1 DEF Waiters, Woken, NotHandedOver

LEMMA WaitersOwn ==
  ASSUME locks \in Seq(Lock), NEW S, S \subseteq ToSet(locks)
  PROVE  Waiters(S) \subseteq Owner
BY DEF Waiters, ToSet, Lock

(* Who is woken was asleep.                                                *)
LEMMA WokenSlept ==
  ASSUME locks \in Seq(Lock), Waits(locks, status, request, stale), NEW l, NEW nw, NEW q,
         Woken(l, nw, q)
  PROVE  q \in Owner /\ status[q] = "asleep"
<1>1. PICK i \in DOMAIN locks : q \in ToSet(locks[i].block)
  BY DEF Woken
<1>2. q \in Owner
  BY <1>1 DEF Lock, ToSet
<1> QED
  BY <1>1, <1>2 DEF Waits, Sleepers

LEMMA RewrittenCore ==
  ASSUME locks \in Seq(Lock), Core(locks), NEW l \in Call, l.id \in Flock => Whole(l),
         NEW M, NEW from, NEW nw, Rewritten(M, l, from, nw),
         nw # 0 => \A i \in DOMAIN locks : ~Blocks(locks[i], l)
  PROVE  M \in Seq(Lock) /\ Core(M)
<1>1. OwnInOrder(M)
  BY RewrittenOrder DEF Core
<1>2. NoneInTheWay(M)
  BY RewrittenApart DEF Core
<1>3. FlocksWhole(M)
  BY RewrittenWhole DEF Core
<1> QED
  BY <1>1, <1>2, <1>3 DEF Core, Rewritten

(* What it does to the locks.                                              *)
LEMMA GrantLocks ==
  ASSUME TypeOK, Core(locks), NEW l, MayCall(l), Grant(l)
  PROVE  \/ locks' = locks /\ Runs(l) /\ \E o \in MyOverlaps(l) : HasAlready(o, l)
         \/ \E from, nw : /\ Rewritten(locks', l, from, nw) /\ nw # 0
                          /\ Taken(locks'[nw].block, l)
                          /\ (MyOverlaps(l) = {} /\ Runs(l)) \/ Wakes(l)
<1>1. /\ locks \in Seq(Lock) /\ OwnInOrder(locks) /\ l \in Call /\ l.type \in LockType
  BY DEF TypeOK, Core, MayCall
<1>2. CASE MyOverlaps(l) = {} /\ locks' = InsertAt(locks, Place(l), l) /\ Runs(l)
  <2>1. PICK from, nw : Rewritten(locks', l, from, nw) /\ nw # 0 /\ locks'[nw] = l
    BY <1>1, <1>2, InsertedIs
  <2>2. l.block = <<>>
    BY <1>1 DEF Call
  <2>3. \A i \in DOMAIN locks : ~Moves(i, l)
    BY <1>2 DEF MyOverlaps, Moves, ToSet
  <2>4. Taken(<<>>, l)
    <3>1. <<>> \in Seq(Owner) /\ DOMAIN <<>> = {}
      OBVIOUS
    <3>2. IsInjective(<<>>)
      BY <3>1 DEF IsInjective
    <3> QED
      BY <2>3, <3>1, <3>2 DEF Taken
  <2> QED
    BY <1>2, <2>1, <2>2, <2>4
<1>3. CASE (\E o \in MyOverlaps(l) : HasAlready(o, l)) /\ locks' = locks /\ Runs(l)
  BY <1>3
<1>4. CASE MyOverlaps(l) # {} /\ locks' = Replaced(l) /\ Wakes(l)
  <2>1. PICK from, nw : /\ Rewritten(locks', l, from, nw) /\ nw # 0
                        /\ locks'[nw].block = TakenOver(l)
    BY <1>1, <1>4, ReplacedIs
  <2>2. Taken(TakenOver(l), l)
    BY <1>1, TakenOverIs
  <2> QED
    BY <1>4, <2>1, <2>2
<1> QED
  BY <1>2, <1>3, <1>4 DEF Grant, Runs, Wakes, NotHandedOver, Moved

-----------------------------------------------------------------------------
(* Every step keeps the invariant.                                         *)
LEMMA GrantKeeps ==
  ASSUME IInv, lost = "no", NEW l, MayCall(l), lf_getblock(l) = 0, Grant(l)
  PROVE  IInv'
<1>1. /\ TypeOK /\ Core(locks) /\ Asked(status, request)
      /\ Waits(locks, status, request, stale) /\ locks \in Seq(Lock)
  BY DEF IInv, TypeOK
<1>2. /\ l \in Call /\ l.id \in Owner /\ status[l.id] # "asleep"
      /\ l.id \in Flock => Whole(l)
  BY DEF MayCall, Call
<1>3. /\ request' = [request EXCEPT ![l.id] = NoRequest]
      /\ lost' = "no"
  BY <1>1 DEF Grant, TypeOK
<1>4. /\ request' \in [Owner -> Request \cup {NoRequest}]
      /\ \A q \in Owner \ {l.id} : request'[q] = request[q]
      /\ \A q \in Owner : status[q] = "asleep" => request'[q] = request[q]
  BY <1>1, <1>2, <1>3 DEF TypeOK
<1>5. \A i \in DOMAIN locks : ~Blocks(locks[i], l)
  BY <1>1, FirstBlockIs
<1>6. /\ NotHandedOver(l) \subseteq Owner /\ Moved(l) \subseteq Owner
      /\ \A q \in NotHandedOver(l) : status[q] = "asleep"
  <2>1. ASSUME NEW q, q \in NotHandedOver(l) PROVE q \in Owner /\ status[q] = "asleep"
    <3>1. Woken(l, 1, q)
      BY <2>1, WokenAre
    <3> QED
      BY <1>1, <3>1, WokenSlept
  <2>2. {o \in MyOverlaps(l) : HandedOver(o, l) /\ ~SameRange(o, l)} \subseteq ToSet(locks)
    BY DEF MyOverlaps
  <2>3. Moved(l) \subseteq Owner
    BY <1>1, <2>2, WaitersOwn DEF Moved
  <2> QED
    BY <2>1, <2>3
<1>7. ASSUME Runs(l)
      PROVE  /\ status' \in [Owner -> {"run", "asleep", "awake"}] /\ stale' \subseteq Owner
             /\ \A q \in Owner : status'[q] = "asleep" <=> status[q] = "asleep"
             /\ Asked(status', request')
  <2>1. /\ status' \in [Owner -> {"run", "asleep", "awake"}] /\ stale' \subseteq Owner
        /\ \A q \in Owner \ {l.id} : status'[q] = status[q]
        /\ status'[l.id] = "run"
    BY <1>1, <1>2, <1>7 DEF TypeOK, Runs
  <2>2. Asked(status', request')
    BY <1>1, <1>4, <2>1 DEF Asked
  <2>3. \A q \in Owner : status'[q] = "asleep" <=> status[q] = "asleep"
    BY <1>2, <2>1
  <2> QED
    BY <2>1, <2>2, <2>3
<1>8. ASSUME Wakes(l)
      PROVE  /\ status' \in [Owner -> {"run", "asleep", "awake"}] /\ stale' \subseteq Owner
             /\ \A q \in Owner : status'[q] = "asleep" <=> status[q] = "asleep" /\ q \notin NotHandedOver(l)
             /\ Asked(status', request')
  <2>1. \A q \in Owner : status'[q] = IF q \in NotHandedOver(l) THEN "awake"
                                      ELSE IF q = l.id THEN "run" ELSE status[q]
    BY <1>8 DEF Wakes
  <2>2. status' \in [Owner -> {"run", "asleep", "awake"}] /\ stale' \subseteq Owner
    BY <1>1, <1>6, <1>8 DEF TypeOK, Wakes
  <2>3. \A q \in Owner : status'[q] = "asleep" <=> status[q] = "asleep" /\ q \notin NotHandedOver(l)
    BY <1>2, <2>1
  <2>4. Asked(status', request')
    <3> SUFFICES ASSUME NEW o \in Owner, status'[o] # "run"
                 PROVE  request'[o] \in Request /\ (o \in Flock => request'[o] \in WholeFile)
      BY DEF Asked
    <3>1. o # l.id /\ status[o] # "run"
      BY <1>2, <1>6, <2>1
    <3>2. request'[o] = request[o]
      BY <1>4, <3>1
    <3> QED
      BY <1>1, <3>1, <3>2 DEF Asked
  <2> QED
    BY <2>2, <2>3, <2>4
<1>9. CASE locks' = locks /\ Runs(l)
  <2>1. /\ \A q \in Owner : q \in stale /\ status'[q] = "asleep" => q \in stale'
        /\ \A q \in Owner : status'[q] = "asleep" <=> status[q] = "asleep"
    BY <1>7, <1>9 DEF Runs
  <2>2. Waits(locks, status', request', stale')
    BY <1>1, <1>4, <2>1, WaitsKept
  <2>3. TypeOK'
    BY <1>1, <1>3, <1>4, <1>7, <1>9 DEF TypeOK
  <2> QED
    BY <1>1, <1>7, <1>9, <2>2, <2>3 DEF IInv
<1>10. ASSUME NEW from, NEW nw, Rewritten(locks', l, from, nw), nw # 0,
              Taken(locks'[nw].block, l), (MyOverlaps(l) = {} /\ Runs(l)) \/ Wakes(l)
       PROVE  IInv'
  <2>1. locks' \in Seq(Lock) /\ Core(locks')
    BY <1>1, <1>2, <1>5, <1>10, RewrittenCore
  <2>2. /\ status' \in [Owner -> {"run", "asleep", "awake"}] /\ stale' \subseteq Owner
        /\ Asked(status', request')
        /\ \A q \in Owner : status'[q] = "asleep" <=> status[q] = "asleep" /\ ~Woken(l, nw, q)
        /\ \A q \in Owner : q \in stale /\ status'[q] = "asleep" => q \in stale'
    <3>1. CASE MyOverlaps(l) = {} /\ Runs(l)
      <4>1. \A q : ~Woken(l, nw, q)
        BY <3>1 DEF Woken, MyOverlaps, ToSet
      <4> QED
        BY <1>7, <3>1, <4>1 DEF Runs
    <3>2. CASE Wakes(l)
      <4>1. \A q : q \in NotHandedOver(l) <=> Woken(l, nw, q)
        BY <1>10, WokenAre
      <4>2. \A q \in Owner : status'[q] = "asleep" <=> status[q] = "asleep" /\ ~Woken(l, nw, q)
        BY <1>8, <3>2, <4>1
      <4>3. \A q \in Owner : q \in stale /\ status'[q] = "asleep" => q \in stale'
        BY <1>8, <3>2 DEF Wakes
      <4> QED
        BY <1>8, <3>2, <4>2, <4>3
    <3> QED
      BY <1>10, <3>1, <3>2
  <2>3. Waits(locks', status', request', stale')
    BY <1>1, <1>2, <1>4, <1>10, <2>2, RewrittenWaits DEF TypeOK
  <2>4. TypeOK'
    BY <1>3, <1>4, <2>1, <2>2 DEF TypeOK
  <2> QED
    BY <2>1, <2>2, <2>3, <2>4 DEF IInv
<1>11. \/ locks' = locks /\ Runs(l) /\ \E o \in MyOverlaps(l) : HasAlready(o, l)
       \/ \E from, nw : /\ Rewritten(locks', l, from, nw) /\ nw # 0
                        /\ Taken(locks'[nw].block, l)
                        /\ (MyOverlaps(l) = {} /\ Runs(l)) \/ Wakes(l)
  BY <1>1, GrantLocks
<1> QED
  BY <1>9, <1>10, <1>11

LEMMA GiveUpKeeps ==
  ASSUME IInv, NEW o \in Owner, status[o] # "asleep", GiveUp(o),
         UNCHANGED <<locks, stale, lost>>
  PROVE  IInv'
<1>1. /\ request' \in [Owner -> Request \cup {NoRequest}]
      /\ status' \in [Owner -> {"run", "asleep", "awake"}]
      /\ status'[o] = "run"
      /\ \A q \in Owner \ {o} : request'[q] = request[q] /\ status'[q] = status[q]
  BY DEF IInv, TypeOK, GiveUp
<1>2. TypeOK'
  BY <1>1 DEF IInv, TypeOK
<1>3. Asked(status', request')
  BY <1>1 DEF IInv, Asked
<1>4. ASSUME lost = "no" PROVE Waits(locks, status', request', stale)
  <2>1. /\ \A q \in Owner : status'[q] = "asleep" <=> status[q] = "asleep"
        /\ \A q \in Owner : status[q] = "asleep" => request'[q] = request[q]
    BY <1>1
  <2>2. Waits(locks, status, request, stale) /\ locks \in Seq(Lock)
    BY <1>4 DEF IInv, TypeOK
  <2> QED
    BY <2>1, <2>2, WaitsKept
<1> QED
  BY <1>2, <1>3, <1>4 DEF IInv

LEMMA UnlockKeeps ==
  ASSUME IInv, lost = "no", NEW o \in Owner, NEW r \in Request,
         o \in Flock => r \in WholeFile, Unlock(o, r)
  PROVE  /\ IInv'
         /\ \E l \in Call : /\ l.id = o /\ l.type = "F_UNLCK"
                           /\ \E from : Rewritten(locks', l, from, 0)
<1>1. PICK l : l = [Lockf(o, r) EXCEPT !.type = "F_UNLCK"]
  OBVIOUS
<1>2. /\ l \in Call /\ l.id = o /\ l.type = "F_UNLCK"
      /\ o \in Flock => Whole(l)
  <2>1. l = Rec(o, "F_UNLCK", r.start, r.end, <<>>)
    BY <1>1 DEF Lockf, Rec
  <2>2. /\ r.start \in 0 .. LastByte
        /\ r.end \in (0 .. LastByte) \cup {EOF} /\ (r.end = EOF \/ r.start <= r.end)
    BY DEF Request
  <2>3. l.id = o /\ l.type = "F_UNLCK" /\ l.start = r.start /\ l.end = r.end /\ l.block = <<>>
    BY <2>1, RecIs
  <2>4. l \in Call
    BY <2>1, <2>2 DEF Call, Rec
  <2>5. r \in WholeFile => Whole(l)
    BY <2>3 DEF WholeFile, Whole, End
  <2> QED
    BY <2>3, <2>4, <2>5
<1>3. /\ status[o] = "run" /\ locks' = Cleared(l)
      /\ lf_wakelock(Waiters(MyOverlaps(l))) /\ request' = request /\ lost' = lost
  BY <1>1 DEF Unlock
<1>4. /\ TypeOK /\ Core(locks) /\ OwnInOrder(locks) /\ Asked(status, request)
      /\ Waits(locks, status, request, stale) /\ locks \in Seq(Lock)
  BY DEF IInv, TypeOK, Core
<1>5. PICK from : Rewritten(locks', l, from, 0)
  BY <1>2, <1>3, <1>4, ClearedIs
<1>6. locks' \in Seq(Lock) /\ Core(locks')
  BY <1>2, <1>4, <1>5, RewrittenCore
<1>7. \A q : q \in Waiters(MyOverlaps(l)) <=> Woken(l, 0, q)
  BY WokenAre
<1>8. /\ status' \in [Owner -> {"run", "asleep", "awake"}] /\ stale' \subseteq Owner
      /\ \A q \in Owner : status'[q] = IF Woken(l, 0, q) THEN "awake" ELSE status[q]
      /\ \A q \in Owner : q \in stale /\ ~Woken(l, 0, q) => q \in stale'
  BY <1>3, <1>4, <1>7 DEF lf_wakelock, TypeOK
<1>9. TypeOK'
  BY <1>3, <1>4, <1>6, <1>8 DEF TypeOK
<1>10. \A q \in Owner : Woken(l, 0, q) => status[q] = "asleep"
  BY <1>4, WokenSlept
<1>11. Asked(status', request')
  BY <1>3, <1>4, <1>8, <1>10 DEF Asked
<1>12. Waits(locks', status', request', stale')
  <2>1. \A q \in Owner : status'[q] = "asleep" <=> status[q] = "asleep" /\ ~Woken(l, 0, q)
    BY <1>8
  <2>2. \A q \in Owner : q \in stale /\ status'[q] = "asleep" => q \in stale'
    BY <1>8
  <2>3. /\ \A q \in Owner : status[q] = "asleep" => request'[q] = request[q]
        /\ request \in [Owner -> Request \cup {NoRequest}]
    BY <1>3, <1>4 DEF TypeOK
  <2> QED
    BY <1>2, <1>4, <1>5, <2>1, <2>2, <2>3, RewrittenWaits
<1> QED
  BY <1>2, <1>5, <1>6, <1>9, <1>11, <1>12 DEF IInv

(* One sleeper leaves the list it is on, if any.                           *)
LEMMA WithoutIs ==
  ASSUME locks \in Seq(Lock), NEW o
  PROVE  /\ SameLocks(Without(o), locks)
         /\ \A k \in DOMAIN locks : OffListOf(Without(o)[k].block, locks[k].block, o)
<1>1. PICK n \in Nat : n = Len(locks) /\ DOMAIN locks = 1..n
  OBVIOUS
<1>2. PICK M : M = Without(o)
  OBVIOUS
<1>3. DOMAIN M = DOMAIN locks
  BY <1>2 DEF Without
<1>4. ASSUME NEW k \in DOMAIN locks
      PROVE  /\ M[k] \in Lock
             /\ M[k].id = locks[k].id /\ M[k].type = locks[k].type
             /\ M[k].start = locks[k].start /\ M[k].end = locks[k].end
             /\ OffListOf(M[k].block, locks[k].block, o)
  <2>1. PICK x \in Lock : x = locks[k]
    OBVIOUS
  <2>2. PICK y : y = OffList(x.block, o)
    OBVIOUS
  <2>3. x.block \in Seq(Owner)
    BY DEF Lock
  <2>4. OffListOf(y, x.block, o)
    BY <2>2, <2>3, OffListIs
  <2>5. y \in Seq(Owner)
    BY <2>4 DEF OffListOf
  <2>6. M[k] = [x EXCEPT !.block = y]
    BY <1>2, <2>1, <2>2 DEF Without
  <2>7. PICK z : z = [x EXCEPT !.block = y]
    OBVIOUS
  <2>8. /\ z \in Lock /\ z.id = x.id /\ z.type = x.type
        /\ z.start = x.start /\ z.end = x.end /\ z.block = y
    BY <2>5, <2>7, BlockIs
  <2> QED
    BY <2>1, <2>4, <2>6, <2>7, <2>8
<1>5. M \in Seq(Lock)
  <2>1. M = [k \in 1..n |-> M[k]]
    BY <1>1, <1>2 DEF Without
  <2> QED
    BY <1>1, <1>4, <2>1
<1> QED
  BY <1>2, <1>3, <1>4, <1>5 DEF SameLocks

LEMMA WithoutWaits ==
  ASSUME locks \in Seq(Lock), Waits(locks, status, request, stale),
         NEW o \in Owner, NEW st, NEW rq,
         st[o] = "run", \A q \in Owner \ {o} : st[q] = status[q] /\ rq[q] = request[q]
  PROVE  Waits(Without(o), st, rq, stale \ {o})
<1>1. PICK M : M = Without(o)
  OBVIOUS
<1>2. /\ SameLocks(M, locks) /\ M \in Seq(Lock) /\ DOMAIN M = DOMAIN locks
      /\ \A k \in DOMAIN locks : M[k].id = locks[k].id
      /\ \A k \in DOMAIN locks : OffListOf(M[k].block, locks[k].block, o)
  BY <1>1, WithoutIs DEF SameLocks
<1>3. Sleepers(locks, status, request) /\ OneListEach(locks)
  BY DEF Waits, Sleepers
<1>4. ASSUME NEW k \in DOMAIN locks
      PROVE  /\ IsInjective(M[k].block) /\ o \notin ToSet(M[k].block)
             /\ ToSet(M[k].block) \subseteq ToSet(locks[k].block) /\ M[k].block \in Seq(Owner)
             /\ ToSet(locks[k].block) \ {o} \subseteq ToSet(M[k].block)
  <2>1. IsInjective(locks[k].block)
    BY <1>3 DEF OneListEach, IsInjective
  <2> QED
    BY <1>2, <2>1 DEF OffListOf
<1>5. OneListEach(M)
  <2> SUFFICES ASSUME NEW i \in DOMAIN locks, NEW j \in DOMAIN locks,
                      NEW m \in DOMAIN M[i].block, NEW n \in DOMAIN M[j].block,
                      M[i].block[m] = M[j].block[n]
               PROVE  i = j /\ m = n
    BY <1>2 DEF OneListEach
  <2>1. PICK q : q = M[i].block[m] /\ q \in ToSet(M[i].block) /\ q \in ToSet(M[j].block)
    BY DEF ToSet
  <2>2. q \in ToSet(locks[i].block) /\ q \in ToSet(locks[j].block)
    BY <1>4, <2>1
  <2>3. i = j
    <3>1. PICK a \in DOMAIN locks[i].block, b \in DOMAIN locks[j].block :
            locks[i].block[a] = q /\ locks[j].block[b] = q
      BY <2>2 DEF ToSet
    <3> QED
      BY <1>3, <3>1 DEF OneListEach
  <2>4. m = n
    BY <1>4, <2>3 DEF IsInjective
  <2> QED
    BY <2>3, <2>4
<1>6. ASSUME NEW k \in DOMAIN M, NEW q \in ToSet(M[k].block)
      PROVE  /\ q \in Owner /\ q # o /\ status[q] = "asleep" /\ Blocks(M[k], Lockf(q, rq[q]))
             /\ BlockerIn(M, q) = BlockerIn(locks, q)
  <2>1. k \in DOMAIN locks /\ q \in Owner /\ q # o /\ q \in ToSet(locks[k].block)
    <3>1. k \in DOMAIN locks
      BY <1>2
    <3>2. q # o /\ q \in ToSet(locks[k].block)
      BY <1>4, <3>1
    <3>3. locks[k].block \in Seq(Owner)
      BY <3>1 DEF Lock
    <3>4. q \in Owner
      BY <3>2, <3>3 DEF ToSet
    <3> QED
      BY <3>1, <3>2, <3>4
  <2>2. status[q] = "asleep" /\ Blocks(locks[k], Lockf(q, request[q]))
    BY <1>3, <2>1 DEF Sleepers
  <2>3. Blocks(M[k], Lockf(q, request[q]))
    BY <1>2, <2>1, <2>2, BlocksSame
  <2>4. BlockerIn(M, q) = M[k].id
    BY <1>5, BlockerIs
  <2>5. BlockerIn(locks, q) = locks[k].id
    BY <1>3, <2>1, BlockerIs
  <2> QED
    BY <1>2, <2>1, <2>2, <2>3, <2>4, <2>5
<1>7. ASSUME NEW q \in Owner, st[q] = "asleep"
      PROVE  q # o /\ status[q] = "asleep" /\ \E k \in DOMAIN M : q \in ToSet(M[k].block)
  <2>1. q # o /\ status[q] = "asleep"
    BY <1>7
  <2>2. PICK k \in DOMAIN locks : q \in ToSet(locks[k].block)
    BY <1>3, <2>1 DEF Sleepers
  <2> QED
    BY <1>2, <1>4, <2>1, <2>2
<1>8. Sleepers(M, st, rq)
  BY <1>5, <1>6, <1>7 DEF Sleepers
<1>9. IdleFlocks(M, st)
  BY <1>2, <1>7 DEF Waits, IdleFlocks, Owner
<1>10. NoCircle(M, Alive(st, stale \ {o}))
  <2>1. \A q \in Alive(st, stale \ {o}) : BlockerIn(M, q) = BlockerIn(locks, q)
    BY <1>6, <1>7 DEF Alive
  <2>2. Alive(st, stale \ {o}) \subseteq Alive(status, stale)
    BY <1>7 DEF Alive
  <2>3. NoCircle(locks, Alive(status, stale))
    BY DEF Waits
  <2> QED
    BY <2>1, <2>2, <2>3, CirclesKept
<1> QED
  BY <1>1, <1>8, <1>9, <1>10 DEF Waits

LEMMA InterruptedKeeps ==
  ASSUME IInv, lost = "no", NEW o \in Owner, Interrupted(o)
  PROVE  IInv' /\ (locks' = locks \/ SameLocks(locks', locks))
<1>1. /\ request' \in [Owner -> Request \cup {NoRequest}]
      /\ status' \in [Owner -> {"run", "asleep", "awake"}]
      /\ status'[o] = "run"
      /\ \A q \in Owner \ {o} : request'[q] = request[q] /\ status'[q] = status[q]
      /\ stale' = stale \ {o} /\ stale' \subseteq Owner
  BY DEF IInv, TypeOK, GiveUp, Interrupted
<1>2. Asked(status', request')
  BY <1>1 DEF IInv, Asked
<1>3. locks \in Seq(Lock) /\ Core(locks) /\ Waits(locks, status, request, stale)
  BY DEF IInv, TypeOK
<1>4. CASE locks' = Without(o) /\ lost' = lost
  <2>1. SameLocks(locks', locks) /\ locks' \in Seq(Lock)
    BY <1>3, <1>4, WithoutIs DEF SameLocks
  <2>2. Core(locks')
    BY <1>3, <2>1, SameLocksKeep DEF Core
  <2>3. Waits(locks', status', request', stale')
    BY <1>1, <1>3, <1>4, WithoutWaits
  <2>4. TypeOK'
    BY <1>1, <1>4, <2>1 DEF IInv, TypeOK
  <2> QED
    BY <1>2, <2>1, <2>2, <2>3, <2>4 DEF IInv
<1>5. CASE lost' \in {"panic", "freed"} /\ locks' = locks
  <2>1. TypeOK'
    BY <1>1, <1>3, <1>5 DEF TypeOK
  <2> QED
    BY <1>2, <1>3, <1>5, <2>1 DEF IInv
<1> QED
  BY <1>4, <1>5 DEF Interrupted

-----------------------------------------------------------------------------
(* Going to sleep.                                                         *)
(* The owner of l goes last on the list of the lock at place b.            *)
Joins(M, st2, rq2, list, st, rq, l, b) ==
  /\ list \in Seq(Lock) /\ Sleepers(list, st, rq)
  /\ l \in Call /\ l = Lockf(l.id, RequestOf(l)) /\ st[l.id] # "asleep"
  /\ Queued(M, list, b, l.id) /\ Blocks(list[b], l)
  /\ st2[l.id] = "asleep" /\ rq2[l.id] = RequestOf(l)
  /\ \A q \in Owner \ {l.id} : st2[q] = "asleep" <=> st[q] = "asleep"
  /\ \A q \in Owner \ {l.id} : rq2[q] = rq[q]

LEMMA QueuedSleeps ==
  ASSUME NEW M, NEW st2, NEW rq2, NEW list, NEW st, NEW rq, NEW l, NEW b,
         Joins(M, st2, rq2, list, st, rq, l, b)
  PROVE  /\ Sleepers(M, st2, rq2)
         /\ \A q \in Owner : st[q] = "asleep" => BlockerIn(M, q) = BlockerIn(list, q)
         /\ BlockerIn(M, l.id) = list[b].id
<1>0. /\ list \in Seq(Lock) /\ Sleepers(list, st, rq)
      /\ l \in Call /\ l = Lockf(l.id, RequestOf(l)) /\ st[l.id] # "asleep"
      /\ Queued(M, list, b, l.id) /\ Blocks(list[b], l)
      /\ st2[l.id] = "asleep" /\ rq2[l.id] = RequestOf(l)
      /\ \A q \in Owner \ {l.id} : st2[q] = "asleep" <=> st[q] = "asleep"
      /\ \A q \in Owner \ {l.id} : rq2[q] = rq[q]
  BY DEF Joins
<1> USE <1>0
<1>1. PICK p \in Owner : p = l.id
  BY DEF Call
<1>2. /\ SameLocks(M, list) /\ M \in Seq(Lock) /\ DOMAIN M = DOMAIN list /\ b \in DOMAIN list
      /\ \A k \in DOMAIN list : M[k].id = list[k].id
      /\ \A k \in DOMAIN list \ {b} : M[k] = list[k]
  BY DEF Queued, SameLocks
<1>3. \A i \in DOMAIN list : p \notin ToSet(list[i].block)
  BY <1>1 DEF Sleepers
<1>4. OneListEach(list) /\ OneListEach(M) /\ ToSet(M[b].block) = ToSet(list[b].block) \cup {p}
  <2>1. OneListEach(list)
    BY DEF Sleepers
  <2>2. Queued(M, list, b, p)
    BY <1>1
  <2>3. /\ ToSet(M[b].block) = ToSet(list[b].block) \cup {p}
        /\ (\A i \in DOMAIN list : p \notin ToSet(list[i].block)) /\ OneListEach(list)
              => OneListEach(M)
    BY ONLY <1>0, p \in Owner, <2>2, QueuedWaiters
  <2> QED
    BY <1>3, <2>1, <2>3
<1>5. ASSUME NEW k \in DOMAIN M, NEW q \in ToSet(M[k].block)
      PROVE  (q = p /\ k = b) \/ (q # p /\ q \in Owner /\ q \in ToSet(list[k].block))
  <2>1. q \in Owner
    <3>1. M[k] \in Lock
      BY <1>2
    <3>2. M[k].block \in Seq(Owner)
      BY <3>1 DEF Lock
    <3> QED
      BY <3>2 DEF ToSet
  <2>2. CASE k = b
    BY <1>3, <1>2, <1>4, <2>1, <2>2
  <2>3. CASE k # b
    BY <1>2, <1>3, <2>1, <2>3
  <2> QED
    BY <2>2, <2>3
<1>6. \A k \in DOMAIN list : ToSet(list[k].block) \subseteq ToSet(M[k].block)
  BY <1>2, <1>4
<1>7. ASSUME NEW k \in DOMAIN M, NEW q \in ToSet(M[k].block)
      PROVE  st2[q] = "asleep" /\ Blocks(M[k], Lockf(q, rq2[q])) /\ q \in Owner
  <2>1. CASE q = p /\ k = b
    <3>1. Blocks(M[b], l)
      BY <1>2, BlocksSame
    <3>2. Lockf(q, rq2[q]) = l
      BY <1>1, <2>1
    <3> QED
      BY <1>1, <2>1, <3>1, <3>2
  <2>2. CASE q # p /\ q \in Owner /\ q \in ToSet(list[k].block)
    <3>1. st[q] = "asleep" /\ Blocks(list[k], Lockf(q, rq[q])) /\ k \in DOMAIN list
      BY <1>2, <2>2 DEF Sleepers
    <3>2. Blocks(M[k], Lockf(q, rq[q]))
      BY <1>2, <3>1, BlocksSame
    <3>3. st2[q] = "asleep" /\ rq2[q] = rq[q]
      BY <1>1, <2>2, <3>1
    <3> QED
      BY <2>2, <3>2, <3>3
  <2> QED
    BY <1>5, <2>1, <2>2
<1>8. ASSUME NEW q \in Owner, st2[q] = "asleep"
      PROVE  \E k \in DOMAIN M : q \in ToSet(M[k].block)
  <2>1. CASE q = p
    BY <1>2, <1>4, <2>1
  <2>2. CASE q # p
    <3>1. st[q] = "asleep"
      BY <1>1, <1>8, <2>2
    <3>2. PICK k \in DOMAIN list : q \in ToSet(list[k].block)
      BY <3>1 DEF Sleepers
    <3> QED
      BY <1>2, <1>6, <3>2
  <2> QED
    BY <2>1, <2>2
<1>9. Sleepers(M, st2, rq2)
  BY <1>4, <1>7, <1>8 DEF Sleepers
<1>10. ASSUME NEW q \in Owner, st[q] = "asleep" PROVE BlockerIn(M, q) = BlockerIn(list, q)
  <2>1. PICK k \in DOMAIN list : q \in ToSet(list[k].block)
    BY <1>10 DEF Sleepers
  <2>2. BlockerIn(list, q) = list[k].id
    BY <1>4, <2>1, BlockerIs
  <2>3. k \in DOMAIN M /\ q \in ToSet(M[k].block)
    BY <1>2, <1>6, <2>1
  <2>4. BlockerIn(M, q) = M[k].id
    BY <1>4, <2>3, BlockerIs
  <2> QED
    BY <1>2, <2>1, <2>2, <2>4
<1>11. BlockerIn(M, p) = list[b].id
  <2>1. b \in DOMAIN M /\ p \in ToSet(M[b].block)
    BY <1>2, <1>4
  <2>2. BlockerIn(M, p) = M[b].id
    BY <1>4, <2>1, BlockerIs
  <2> QED
    BY <1>2, <2>2
<1> QED
  BY <1>1, <1>9, <1>10, <1>11

(* The list in which l looks for the lock to wait for, who is woken before *)
(* that, and what holds in between.                                        *)
Before(l) == IF GivesUpShared(l) THEN Cleared(l) ELSE locks
WokenBefore(l) == IF GivesUpShared(l) THEN Waiters(MyOverlaps(l)) ELSE {}

GivenUp(l, list, st, stl) ==
  /\ list = Before(l)
  /\ st = [o \in Owner |-> IF o \in WokenBefore(l) THEN "awake" ELSE status[o]]
  /\ stl = stale \ WokenBefore(l)
  /\ list \in Seq(Lock) /\ Core(list) /\ Waits(list, st, request, stl)
  /\ \A q \in WokenBefore(l) : q \in Owner /\ status[q] = "asleep"
  /\ list = locks \/ \E from : Rewritten(list, l, from, 0)
  /\ l.id \in Flock => \A i \in DOMAIN list : list[i].id # l.id
  /\ \E i \in DOMAIN list : Blocks(list[i], l)
  /\ l.id \in Posix => list = locks /\ st = status /\ stl = stale

LEMMA GivesUp ==
  ASSUME IInv, lost = "no", NEW l, MayCall(l), lf_getblock(l) # 0
  PROVE  \E list, st, stl : GivenUp(l, list, st, stl)
<1>1. /\ TypeOK /\ Core(locks) /\ OwnInOrder(locks)
      /\ Waits(locks, status, request, stale) /\ locks \in Seq(Lock)
      /\ request \in [Owner -> Request \cup {NoRequest}]
  BY DEF IInv, TypeOK, Core
<1>2. /\ l \in Call /\ l.id \in Owner /\ l.type \in LockType
      /\ l.id \in Flock => Whole(l)
  BY DEF MayCall, Call
<1>3. PICK b \in DOMAIN locks : Blocks(locks[b], l)
  BY <1>1, FirstBlockIs
<1>4. PICK list, st, stl :
        /\ list = Before(l)
        /\ st = [o \in Owner |-> IF o \in WokenBefore(l) THEN "awake" ELSE status[o]]
        /\ stl = stale \ WokenBefore(l)
  OBVIOUS
<1>5. CASE ~GivesUpShared(l)
  <2>1. list = locks /\ WokenBefore(l) = {} /\ stl = stale
    BY <1>4, <1>5 DEF Before, WokenBefore
  <2>2. st = status
    BY <1>1, <1>4, <2>1 DEF TypeOK
  <2>3. ASSUME l.id \in Flock, NEW i \in DOMAIN locks, locks[i].id = l.id PROVE FALSE
    <3>1. l.type = "F_RDLCK"
      BY <1>2, <1>5, <2>3 DEF GivesUpShared, LockType
    <3>2. locks[b].id # l.id /\ locks[b].type = "F_WRLCK"
      BY <1>3, <3>1 DEF Blocks
    <3>3. Whole(locks[i])
      BY <1>1, <2>3 DEF Core, FlocksWhole
    <3>4. PICK x \in Lock, y \in Lock : x = locks[i] /\ y = locks[b]
      BY <1>1
    <3>5. /\ x.start = 0 /\ End(x) = LastByte + 1 /\ LastByte \in Nat
          /\ y.start \in 0 .. LastByte + 1 /\ End(y) \in 0 .. LastByte + 1
      BY <3>3, <3>4, LockIs DEF Whole
    <3>6. y.start <= End(x) /\ x.start <= End(y)
      BY <3>5
    <3>7. Blocks(y, x)
      BY <2>3, <3>2, <3>4, <3>6 DEF Blocks, Overlap
    <3> QED
      BY <1>1, <3>4, <3>7 DEF Core, NoneInTheWay
  <2> QED
    BY <1>1, <1>3, <1>4, <2>1, <2>2, <2>3 DEF GivenUp
<1>6. CASE GivesUpShared(l)
  <2>1. list = Cleared(l) /\ l.id \in Flock /\ Whole(l)
    BY <1>2, <1>4, <1>6 DEF Before, GivesUpShared
  <2>2. PICK from : Rewritten(list, l, from, 0)
    BY <1>1, <1>2, <2>1, ClearedIs
  <2>3. list \in Seq(Lock) /\ Core(list)
    BY <1>1, <1>2, <2>2, RewrittenCore
  <2>4. \A q : q \in WokenBefore(l) <=> Woken(l, 0, q)
    BY <1>6, WokenAre DEF WokenBefore
  <2>5. \A q \in WokenBefore(l) : q \in Owner /\ status[q] = "asleep"
    BY <1>1, <2>4, WokenSlept
  <2>6. Waits(list, st, request, stl)
    <3>1. \A q \in Owner : st[q] = "asleep" <=> status[q] = "asleep" /\ ~Woken(l, 0, q)
      BY <1>4, <2>4
    <3>2. \A q \in Owner : q \in stale /\ st[q] = "asleep" => q \in stl
      BY <1>4
    <3> QED
      BY <1>1, <1>2, <2>2, <3>1, <3>2, RewrittenWaits
  <2>7. ASSUME NEW i \in DOMAIN list, list[i].id = l.id PROVE FALSE
    <3>1. PICK j \in DOMAIN locks : Fits(list[i], locks[j], l) /\ locks[j] \in Lock
      <4>1. i # 0
        BY <2>3
      <4> QED
        BY <1>1, <2>2, <4>1 DEF Rewritten
    <3>2. PICK x \in Lock : x = list[i]
      BY <2>3
    <3>3. ~Overlap(x, l)
      BY <1>2, <2>7, <3>1, <3>2, FitsIs
    <3>4. /\ l.start = 0 /\ End(l) = LastByte + 1 /\ LastByte \in Nat
          /\ x.start \in 0 .. LastByte + 1 /\ End(x) \in 0 .. LastByte + 1
      BY <2>1, LockIs DEF Whole
    <3> QED
      BY <3>3, <3>4 DEF Overlap
  <2>8. \E i \in DOMAIN list : Blocks(list[i], l)
    <3>1. ~Mine(locks[b], l)
      BY <1>3 DEF Blocks, Mine
    <3>2. PICK k \in DOMAIN list : from[k] = b /\ Fits(list[k], locks[b], l)
      BY <2>2, <3>1 DEF Rewritten
    <3>3. list[k] = locks[b]
      BY <3>1, <3>2 DEF Fits
    <3> QED
      BY <1>3, <3>3
  <2>9. l.id \notin Posix
    BY <2>1, OwnersDiffer
  <2> QED
    BY <1>4, <2>2, <2>3, <2>5, <2>6, <2>7, <2>8, <2>9 DEF GivenUp
<1> QED
  BY <1>5, <1>6

(* A sleeper that joins closes no circle, unless it goes through a stale   *)
(* lf_next or takes more than maxlockdepth + 1 of them.                    *)
LEMMA NoNewCircle ==
  ASSUME IInv, lost = "no", NEW l, MayCall(l), lf_getblock(l) # 0,
         Circle(l.id, locks[lf_getblock(l)].id) # "yes",
         NEW list, NEW st, NEW stl, GivenUp(l, list, st, stl),
         NEW M, NEW b, Queued(M, list, b, l.id), b = FirstBlock(list, l), Blocks(list[b], l),
         NEW st2, NEW rq2, Sleepers(M, st2, rq2),
         \A q \in Owner \ {l.id} : st2[q] = "asleep" <=> st[q] = "asleep",
         \A q \in Owner : st[q] = "asleep" => BlockerIn(M, q) = BlockerIn(list, q),
         BlockerIn(M, l.id) = list[b].id
  PROVE  NoCircle(M, Alive(st2, stl)) /\ IdleFlocks(M, st2)
<1>1. PICK p \in Owner : p = l.id
  BY DEF MayCall, Call
<1>2. /\ Waits(list, st, request, stl) /\ IdleFlocks(list, st)
      /\ NoCircle(list, Alive(st, stl)) /\ Sleepers(list, st, request)
      /\ p \in Flock => \A i \in DOMAIN list : list[i].id # p
      /\ p \in Posix => list = locks /\ st = status /\ stl = stale
      /\ list \in Seq(Lock)
  BY <1>1 DEF GivenUp, Waits
<1>3. /\ DOMAIN M = DOMAIN list /\ M \in Seq(Lock)
      /\ \A k \in DOMAIN M : M[k].id = list[k].id /\ M[k].id \in Owner
  BY DEF Queued, SameLocks, Lock
<1>4. IdleFlocks(M, st2)
  <2> SUFFICES ASSUME NEW q \in Flock, st2[q] = "asleep", NEW k \in DOMAIN M, M[k].id = q
               PROVE  FALSE
    BY DEF IdleFlocks
  <2>1. CASE q = p
    BY <1>2, <1>3, <2>1
  <2>2. CASE q # p
    <3>1. st[q] = "asleep"
      BY <1>1, <2>2 DEF Owner
    <3> QED
      BY <1>2, <1>3, <3>1 DEF IdleFlocks
  <2> QED
    BY <2>1, <2>2
<1>5. ASSUME NEW q \in Owner, st2[q] = "asleep"
      PROVE  \E k \in DOMAIN M : BlockerIn(M, q) = M[k].id
  <2>1. PICK k \in DOMAIN M : q \in ToSet(M[k].block)
    BY <1>5 DEF Sleepers
  <2>2. OneListEach(M)
    BY DEF Sleepers
  <2> QED
    BY <2>1, <2>2, BlockerIs
<1>6. p # list[b].id
  BY <1>1 DEF Blocks
<1>7. IsFiniteSet(Owner)
  BY OwnersDiffer
<1>8. ASSUME NEW S \in SUBSET Alive(st2, stl), S # {}, Cardinality(S) <= maxlockdepth + 1,
             \A o \in S : BlockerIn(M, o) \in S
      PROVE  FALSE
  <2>1. IsFiniteSet(S) /\ S \subseteq Owner /\ \A q \in S : st2[q] = "asleep" /\ q \notin stl
    <3>1. S \subseteq Owner /\ \A q \in S : st2[q] = "asleep" /\ q \notin stl
      BY DEF Alive
    <3> QED
      BY <1>7, <3>1, FS_Subset
  <2>2. \A q \in S \ {p} : /\ st[q] = "asleep" /\ q \in Alive(st, stl)
                           /\ BlockerIn(list, q) = BlockerIn(M, q)
    BY <1>1, <2>1 DEF Alive
  <2>3. ASSUME NEW W \in SUBSET (S \ {p}), W # {}, \A q \in W : BlockerIn(list, q) \in W
        PROVE  FALSE
    <3>1. Cardinality(W) <= Cardinality(S)
      BY <2>1, FS_Subset
    <3>2. IsFiniteSet(W) /\ Cardinality(W) \in Nat /\ Cardinality(S) \in Nat /\ maxlockdepth \in Nat
      BY <2>1, FS_Subset, FS_CardinalityType, BoundsAreNat
    <3>3. Cardinality(W) <= maxlockdepth + 1
      BY <1>8, <3>1, <3>2
    <3>4. W \in SUBSET Alive(st, stl)
      BY <2>2
    <3> QED
      BY <1>2, <2>3, <3>3, <3>4 DEF NoCircle
  <2>4. p \in S
    BY <1>8, <2>2, <2>3
  <2>5. BlockerIn(M, p) \in S \ {p} /\ BlockerIn(M, p) = list[b].id
    BY <1>1, <1>6, <1>8, <2>4
  <2>6. ASSUME NEW q \in S PROVE BlockerIn(M, q) \in Posix
    <3>1. PICK k \in DOMAIN M : BlockerIn(M, q) = M[k].id
      BY <1>5, <2>1
    <3>2. BlockerIn(M, q) \in S /\ st2[BlockerIn(M, q)] = "asleep"
      BY <1>8, <2>1
    <3>3. BlockerIn(M, q) \notin Flock
      BY <1>4, <3>1, <3>2 DEF IdleFlocks
    <3> QED
      BY <2>1, <3>2, <3>3 DEF Owner
  <2>7. CASE p \in Flock
    <3>1. p \notin Posix
      BY <2>7, OwnersDiffer
    <3>2. \A q \in S \ {p} : BlockerIn(list, q) \in S \ {p}
      BY <1>8, <2>2, <2>6, <3>1
    <3> QED
      BY <2>3, <2>5, <3>2
  <2>8. CASE p \in Posix
    <3>1. list = locks /\ st = status /\ stl = stale
      BY <1>2, <2>8
    <3>2. PICK T : T = S \cap Posix
      OBVIOUS
    <3>3. /\ IsFiniteSet(T) /\ T \subseteq Posix /\ p \in T /\ Cardinality(T) <= maxlockdepth + 1
      <4>1. Cardinality(T) <= Cardinality(S) /\ IsFiniteSet(T)
        BY <2>1, <3>2, FS_Subset
      <4>2. Cardinality(T) \in Nat /\ Cardinality(S) \in Nat /\ maxlockdepth \in Nat
        BY <2>1, <4>1, FS_CardinalityType, BoundsAreNat
      <4> QED
        BY <1>8, <2>4, <2>8, <3>2, <4>1, <4>2
    <3>4. PICK c : c = list[b].id
      OBVIOUS
    <3>5. c \in T \ {p}
      BY <2>4, <2>5, <2>6, <3>2, <3>4
    <3>6. Circle(p, c) # "yes"
      <4>1. lf_getblock(l) = b
        BY <3>1 DEF lf_getblock
      <4> QED
        BY <1>1, <3>1, <3>4, <4>1
    <3>7. \A q \in T \ {p} : /\ status[q] = "asleep" /\ q \notin stale /\ Blocker(q) \in T
                             /\ Blocker(q) = BlockerIn(list, q)
      <4> SUFFICES ASSUME NEW q \in T \ {p}
                   PROVE  /\ status[q] = "asleep" /\ q \notin stale /\ Blocker(q) \in T
                          /\ Blocker(q) = BlockerIn(list, q)
        OBVIOUS
      <4>1. q \in S \ {p}
        BY <3>2
      <4>2. st[q] = "asleep" /\ q \notin stl /\ BlockerIn(list, q) = BlockerIn(M, q)
        BY <2>1, <2>2, <4>1
      <4>3. BlockerIn(M, q) \in T
        BY <1>8, <2>6, <3>2, <4>1
      <4>4. Blocker(q) = BlockerIn(list, q)
        BY <3>1 DEF Blocker, BlockerIn
      <4> QED
        BY <3>1, <4>2, <4>3, <4>4
    <3>8. PICK W \in SUBSET (T \ {p}) : W # {} /\ \A q \in W : Blocker(q) \in W
      BY <3>3, <3>5, <3>6, <3>7, SearchFindsCircle
    <3>9. W \in SUBSET (S \ {p}) /\ \A q \in W : BlockerIn(list, q) \in W
      BY <3>2, <3>7, <3>8
    <3> QED
      BY <2>3, <3>8, <3>9
  <2> QED
    BY <1>1, <2>7, <2>8 DEF Owner
<1>9. NoCircle(M, Alive(st2, stl))
  BY <1>8 DEF NoCircle
<1> QED
  BY <1>4, <1>9

LEMMA BlockKeeps ==
  ASSUME IInv, lost = "no", NEW l, MayCall(l), lf_getblock(l) # 0,
         Circle(l.id, locks[lf_getblock(l)].id) # "yes", Block(l)
  PROVE  /\ IInv'
         /\ \E list : /\ SameLocks(locks', list)
                      /\ list = locks \/ \E from : Rewritten(list, l, from, 0)
<1>1. PICK list, st, stl : GivenUp(l, list, st, stl)
  BY GivesUp
<1>2. /\ list = Before(l) /\ stl = stale \ WokenBefore(l)
      /\ st = [o \in Owner |-> IF o \in WokenBefore(l) THEN "awake" ELSE status[o]]
      /\ list \in Seq(Lock) /\ Core(list) /\ Sleepers(list, st, request)
      /\ \A q \in WokenBefore(l) : q \in Owner /\ status[q] = "asleep"
      /\ list = locks \/ \E from : Rewritten(list, l, from, 0)
      /\ \E i \in DOMAIN list : Blocks(list[i], l)
  BY <1>1 DEF GivenUp, Waits
<1>3. PICK p \in Owner : /\ p = l.id /\ l \in Call /\ l = Lockf(l.id, RequestOf(l))
                         /\ RequestOf(l) \in Request /\ status[p] # "asleep"
                         /\ p \in Flock => RequestOf(l) \in WholeFile
  BY DEF MayCall, Call
<1>4. TypeOK /\ Asked(status, request)
  BY DEF IInv
<1>5. PICK b \in DOMAIN list : /\ Queued(Enqueue(list, l), list, b, l.id)
                               /\ b = FirstBlock(list, l) /\ Blocks(list[b], l)
  BY <1>2, <1>3, EnqueueIs
<1>6. /\ locks' = Enqueue(list, l) /\ stale' = stl /\ lost' = lost
      /\ request' = [request EXCEPT ![p] = RequestOf(l)]
      /\ status' = [o \in Owner |-> IF o = p THEN "asleep"
                                    ELSE IF o \in WokenBefore(l) THEN "awake" ELSE status[o]]
  BY <1>2, <1>3 DEF Block, Before, WokenBefore
<1>7. /\ request' \in [Owner -> Request \cup {NoRequest}]
      /\ request'[p] = RequestOf(l) /\ \A q \in Owner \ {p} : request'[q] = request[q]
  BY <1>3, <1>4, <1>6 DEF TypeOK
<1>8. /\ status' \in [Owner -> {"run", "asleep", "awake"}] /\ status'[p] = "asleep"
      /\ \A q \in Owner \ {p} : status'[q] = "asleep" <=> st[q] = "asleep"
      /\ \A q \in Owner \ {p} : status'[q] # "run" => status[q] # "run"
  BY <1>2, <1>4, <1>6 DEF TypeOK
<1>9. st[p] # "asleep"
  BY <1>2, <1>3
<1>10. /\ Sleepers(locks', status', request')
       /\ \A q \in Owner : st[q] = "asleep" => BlockerIn(locks', q) = BlockerIn(list, q)
       /\ BlockerIn(locks', l.id) = list[b].id
  <2>1. Queued(locks', list, b, l.id)
    BY <1>5, <1>6
  <2>2. /\ status'[l.id] = "asleep" /\ request'[l.id] = RequestOf(l) /\ st[l.id] # "asleep"
        /\ \A q \in Owner \ {l.id} : status'[q] = "asleep" <=> st[q] = "asleep"
        /\ \A q \in Owner \ {l.id} : request'[q] = request[q]
    BY <1>3, <1>7, <1>8, <1>9
  <2>3. /\ list \in Seq(Lock) /\ Sleepers(list, st, request) /\ Blocks(list[b], l)
        /\ l \in Call /\ l = Lockf(l.id, RequestOf(l))
    BY <1>2, <1>3, <1>5
  <2>4. /\ Sleepers(locks', status', request')
        /\ \A q \in Owner : st[q] = "asleep" => BlockerIn(locks', q) = BlockerIn(list, q)
        /\ BlockerIn(locks', l.id) = list[b].id
    <3>1. Joins(locks', status', request', list, st, request, l, b)
      BY <2>1, <2>2, <2>3 DEF Joins
    <3> QED
      BY ONLY <3>1, QueuedSleeps
  <2> QED
    BY ONLY <2>4
<1>11. NoCircle(locks', Alive(status', stl)) /\ IdleFlocks(locks', status')
  <2>1. Queued(locks', list, b, l.id)
    BY <1>5, <1>6
  <2>2. \A q \in Owner \ {l.id} : status'[q] = "asleep" <=> st[q] = "asleep"
    BY <1>3, <1>8
  <2> QED
    BY <1>1, <1>5, <1>10, <2>1, <2>2, NoNewCircle
<1>12. Waits(locks', status', request', stale')
  BY <1>6, <1>10, <1>11 DEF Waits
<1>13. SameLocks(locks', list) /\ locks' \in Seq(Lock)
  BY <1>5, <1>6 DEF Queued, SameLocks
<1>14. Core(locks')
  BY <1>2, <1>13, SameLocksKeep DEF Core
<1>15. Asked(status', request')
  BY <1>3, <1>4, <1>7, <1>8 DEF Asked
<1>16. TypeOK'
  BY <1>2, <1>4, <1>6, <1>7, <1>8, <1>13 DEF TypeOK
<1> QED
  BY <1>2, <1>12, <1>13, <1>14, <1>15, <1>16 DEF IInv

-----------------------------------------------------------------------------
LEMMA MayCallIs ==
  ASSUME NEW o \in Owner, NEW r \in Request, o \in Flock => r \in WholeFile,
         status[o] # "asleep"
  PROVE  MayCall(Lockf(o, r)) /\ Lockf(o, r).id = o
<1>1. PICK l : l = Lockf(o, r)
  OBVIOUS
<1>2. /\ l \in Call /\ l.id = o /\ l.type = r.type /\ l.start = r.start /\ l.end = r.end
      /\ l.type \in LockType
      /\ r \in WholeFile => Whole(l)
  BY <1>1, LockfIs
<1>3. r = [type |-> r.type, start |-> r.start, end |-> r.end]
  BY DEF Request
<1>4. RequestOf(l) = r
  BY <1>2, <1>3 DEF RequestOf
<1> QED
  BY <1>1, <1>2, <1>4 DEF MayCall

LEMMA AsksAre ==
  ASSUME NEW o \in Owner
  PROVE  /\ \A r \in Asks[o] : r \in Request /\ (o \in Flock => r \in WholeFile)
         /\ \A r \in WholeFile : r \in Request
BY AsksType DEF WholeFile

(* What a step makes of the locks: nothing; for a call that is granted or  *)
(* unlocks, or gives up a shared flock before it sleeps, l is put in place *)
(* of, or taken out of, its owner's locks; and lists of waiters change.    *)
Changes ==
  \/ locks' = locks
  \/ \E l \in Call : \E from, nw : /\ Rewritten(locks', l, from, nw)
                                   /\ nw = 0 \/ l.type \in LockType
                                   /\ nw # 0 => \A i \in DOMAIN locks : ~Blocks(locks[i], l)
  \/ \E list : /\ SameLocks(locks', list)
               /\ \/ list = locks
                  \/ \E l \in Call : \E from : Rewritten(list, l, from, 0)

LEMMA GrantChanges ==
  ASSUME IInv, NEW l, MayCall(l), lf_getblock(l) = 0, Grant(l)
  PROVE  Changes
<1>1. TypeOK /\ Core(locks) /\ locks \in Seq(Lock) /\ l \in Call /\ l.type \in LockType
  BY DEF IInv, TypeOK, MayCall
<1>2. \A i \in DOMAIN locks : ~Blocks(locks[i], l)
  BY <1>1, FirstBlockIs
<1>3. locks' = locks \/ \E from, nw : Rewritten(locks', l, from, nw)
  BY <1>1, GrantLocks
<1> QED
  BY <1>1, <1>2, <1>3 DEF Changes

LEMMA ScanKeeps ==
  ASSUME IInv, lost = "no", NEW l, MayCall(l), Scan(l)
  PROVE  IInv' /\ Changes
<1>1. CASE lf_getblock(l) = 0 /\ Grant(l)
  BY <1>1, GrantKeeps, GrantChanges
<1>2. CASE GiveUp(l.id) /\ UNCHANGED <<locks, stale, lost>>
  <2>1. l.id \in Owner /\ status[l.id] # "asleep"
    BY DEF MayCall, Call
  <2>2. IInv'
    BY <1>2, <2>1, GiveUpKeeps
  <2> QED
    BY <1>2, <2>2 DEF Changes
<1>3. CASE lf_getblock(l) # 0 /\ Circle(l.id, locks[lf_getblock(l)].id) # "yes" /\ Block(l)
  <2>1. l \in Call
    BY DEF MayCall
  <2>2. IInv' /\ \E list : /\ SameLocks(locks', list)
                           /\ list = locks \/ \E from : Rewritten(list, l, from, 0)
    BY <1>3, BlockKeeps
  <2> QED
    BY <2>1, <2>2 DEF Changes
<1> QED
  BY <1>1, <1>2, <1>3 DEF Scan

LEMMA NextKeeps ==
  ASSUME IInv, Next
  PROVE  IInv' /\ Changes
<1>1. /\ lost = "no"
      /\ \E o \in Owner :
           \/ \E r \in Asks[o] : SetLockWait(o, r) \/ SetLock(o, r)
           \/ \E r \in Asks[o] \cup WholeFile : Unlock(o, r)
           \/ Resume(o)
           \/ Interrupted(o)
  BY DEF Next
<1>2. PICK o \in Owner : \/ \E r \in Asks[o] : SetLockWait(o, r) \/ SetLock(o, r)
                         \/ \E r \in Asks[o] \cup WholeFile : Unlock(o, r)
                         \/ Resume(o)
                         \/ Interrupted(o)
  BY <1>1
<1>3. ASSUME NEW r \in Asks[o], SetLockWait(o, r) PROVE IInv' /\ Changes
  <2>1. r \in Request /\ (o \in Flock => r \in WholeFile)
    BY AsksAre
  <2>2. status[o] # "asleep" /\ Scan(Lockf(o, r))
    BY <1>3 DEF SetLockWait
  <2>3. MayCall(Lockf(o, r))
    BY <2>1, <2>2, MayCallIs
  <2> QED
    BY <1>1, <2>2, <2>3, ScanKeeps
<1>4. ASSUME NEW r \in Asks[o], SetLock(o, r) PROVE IInv' /\ Changes
  <2>1. r \in Request /\ (o \in Flock => r \in WholeFile)
    BY AsksAre
  <2>2. status[o] # "asleep" /\ lf_getblock(Lockf(o, r)) = 0 /\ Grant(Lockf(o, r))
    BY <1>4 DEF SetLock
  <2>3. MayCall(Lockf(o, r))
    BY <2>1, <2>2, MayCallIs
  <2> QED
    BY <1>1, <2>2, <2>3, GrantKeeps, GrantChanges
<1>5. ASSUME NEW r \in Asks[o] \cup WholeFile, Unlock(o, r) PROVE IInv' /\ Changes
  <2>1. r \in Request /\ (o \in Flock => r \in WholeFile)
    BY AsksAre
  <2>2. IInv' /\ \E l \in Call : \E from : Rewritten(locks', l, from, 0)
    BY <1>1, <1>5, <2>1, UnlockKeeps
  <2> QED
    BY <2>2 DEF Changes
<1>6. ASSUME Resume(o) PROVE IInv' /\ Changes
  <2>1. status[o] = "awake" /\ Scan(Lockf(o, request[o]))
    BY <1>6 DEF Resume
  <2>2. request[o] \in Request /\ (o \in Flock => request[o] \in WholeFile)
    BY <2>1 DEF IInv, Asked
  <2>3. MayCall(Lockf(o, request[o]))
    BY <2>1, <2>2, MayCallIs
  <2> QED
    BY <1>1, <2>1, <2>3, ScanKeeps
<1>7. ASSUME Interrupted(o) PROVE IInv' /\ Changes
  BY <1>1, <1>7, InterruptedKeeps DEF Changes
<1> QED
  BY <1>2, <1>3, <1>4, <1>5, <1>6, <1>7

LEMMA InitHolds ==
  ASSUME Init
  PROVE  IInv
<1>1. locks = <<>> /\ DOMAIN locks = {} /\ locks \in Seq(Lock)
  BY DEF Init
<1>2. \A o \in Owner : status[o] = "run"
  BY DEF Init
<1>3. TypeOK
  BY <1>1 DEF Init, TypeOK
<1>4. Core(locks)
  BY <1>1 DEF Core, OwnInOrder, NoneInTheWay, FlocksWhole
<1>5. Asked(status, request)
  BY <1>2 DEF Asked
<1>6. Sleepers(locks, status, request)
  BY <1>1, <1>2 DEF Sleepers, OneListEach
<1>7. IdleFlocks(locks, status)
  BY <1>1 DEF IdleFlocks
<1>8. Alive(status, stale) = {}
  BY <1>2 DEF Alive
<1>9. NoCircle(locks, Alive(status, stale))
  BY <1>8 DEF NoCircle
<1> QED
  BY <1>3, <1>4, <1>5, <1>6, <1>7, <1>9 DEF IInv, Waits

(* The invariant holds in every reachable state, whatever the owners, what *)
(* they ask for and maxlockdepth are.                                      *)
THEOREM LockFIInv == Spec => []IInv
<1>1. Init => IInv
  BY InitHolds
<1>2. IInv /\ [Next]_vars => IInv'
  <2>1. ASSUME IInv, Next PROVE IInv'
    BY <2>1, NextKeeps
  <2>2. ASSUME IInv, UNCHANGED vars PROVE IInv'
    <3>1. /\ locks' = locks /\ request' = request /\ status' = status
          /\ stale' = stale /\ lost' = lost
      BY <2>2 DEF vars
    <3>2. TypeOK'
      BY <2>2, <3>1 DEF IInv, TypeOK
    <3> QED
      BY <2>2, <3>1, <3>2 DEF IInv
  <2> QED
    BY <2>1, <2>2
<1> QED
  BY <1>1, <1>2, PTL DEF Spec

(* Locks, requests and sleepers are of the kinds the comments of LockF say.*)
THEOREM LockFTypeOK == Spec => []TypeOK
<1>1. IInv => TypeOK
  BY DEF IInv
<1> QED
  BY <1>1, LockFIInv, PTL

(* lf_findoverlap(), lf_setlock() and lf_clearlock() rely on the order of  *)
(* an owner's locks: no call, split or replacement upsets it.              *)
THEOREM LockFOrderKept == Spec => []OwnLocksInOrder
<1>1. IInv => OwnLocksInOrder
  BY DEF IInv, Core, OwnInOrder, OwnLocksInOrder
<1> QED
  BY <1>1, LockFIInv, PTL

(* Everybody who sleeps is on the list of exactly one lock, one that is in *)
(* its way, and everybody on a list sleeps: lf_setlock() and               *)
(* lf_clearlock() forget nobody.  That holds until somebody whose lf_next  *)
(* is stale is interrupted and panics or, found in freed memory only,      *)
(* leaves his request behind; both stop the model.                         *)
THEOREM LockFNobodyForgotten == Spec => []SleepsForAReason
<1>1. IInv => SleepsForAReason
  <2>1. ASSUME IInv, lost = "no" PROVE SleepsForAReason
    <3>1. locks \in Seq(Lock) /\ Sleepers(locks, status, request)
      BY <2>1 DEF IInv, TypeOK, Waits
    <3> QED
      BY <3>1, ReasonOfSleepers
  <2>2. ASSUME lost # "no" PROVE SleepsForAReason
    BY <2>2 DEF SleepsForAReason
  <2> QED
    BY <2>1, <2>2
<1> QED
  BY <1>1, LockFIInv, PTL

(* The search of lf_setlock() over at most maxlockdepth lf_next finds      *)
(* every circle of at most maxlockdepth + 1 sleepers before it closes, and *)
(* a flock closes none.                                                    *)
THEOREM LockFCirclesFound == Spec => []DeadlocksAreFound
<1>1. IInv => DeadlocksAreFound
  <2> SUFFICES ASSUME IInv, lost = "no" PROVE DeadlocksAreFound
    BY DEF DeadlocksAreFound
  <2>1. NoCircle(locks, Alive(status, stale))
    BY DEF IInv, Waits
  <2> QED
    BY <2>1 DEF DeadlocksAreFound, NoCircle, Alive, Blocker, BlockerIn
<1> QED
  BY <1>1, LockFIInv, PTL

-----------------------------------------------------------------------------
(* LockF implements ByteLocks.                                             *)
HeldIn(list, o, b) ==
  LET own == {l \in ToSet(list) : l.id = o}
      there == {l \in own : b \in l.start .. End(l)}
  IN IF there = {} THEN "F_UNLCK" ELSE (CHOOSE l \in there : TRUE).type

AllBytes == 0 .. LastByte + 1

LEMMA HeldIs ==
  ASSUME NEW list \in Seq(Lock), OwnInOrder(list), NEW o, NEW b \in AllBytes
  PROVE  /\ \A i \in DOMAIN list : list[i].id = o /\ At(b, list[i]) => HeldIn(list, o, b) = list[i].type
         /\ \/ HeldIn(list, o, b) = "F_UNLCK"
            \/ \E i \in DOMAIN list : list[i].id = o /\ At(b, list[i]) /\ HeldIn(list, o, b) = list[i].type
         /\ (\A i \in DOMAIN list : ~(list[i].id = o /\ At(b, list[i]))) => HeldIn(list, o, b) = "F_UNLCK"
<1> DEFINE there == {l \in {l \in ToSet(list) : l.id = o} : b \in l.start .. End(l)}
<1>1. LastByte \in Nat /\ b \in Nat
  BY BoundsAreNat DEF AllBytes
<1>2. HeldIn(list, o, b) = IF there = {} THEN "F_UNLCK" ELSE (CHOOSE l \in there : TRUE).type
  BY DEF HeldIn
<1>3. ASSUME NEW i \in DOMAIN list, list[i].id = o, At(b, list[i]) PROVE list[i] \in there
  <2>1. PICK x \in Lock : x = list[i]
    OBVIOUS
  <2>2. x.start \in Nat /\ End(x) \in Nat
    BY LockIs
  <2>3. b \in x.start .. End(x)
    BY <1>1, <1>3, <2>1, <2>2 DEF At
  <2> QED
    BY <1>3, <2>1, <2>3 DEF ToSet
<1>4. ASSUME NEW x \in there
      PROVE  \E i \in DOMAIN list : x = list[i] /\ list[i].id = o /\ At(b, list[i])
  <2>1. PICK i \in DOMAIN list : x = list[i]
    BY DEF ToSet
  <2>2. x \in Lock
    BY <2>1
  <2>3. x.start \in Nat /\ End(x) \in Nat
    BY <2>2, LockIs
  <2> QED
    BY <2>1, <2>3 DEF At
<1>5. ASSUME NEW i \in DOMAIN list, NEW j \in DOMAIN list, list[i].id = o, list[j].id = o,
             At(b, list[i]), At(b, list[j])
      PROVE  i = j
  <2>1. PICK x \in Lock, y \in Lock : x = list[i] /\ y = list[j]
    OBVIOUS
  <2>2. x.start \in Nat /\ End(x) \in Nat /\ y.start \in Nat /\ End(y) \in Nat
    BY LockIs
  <2>3. ~(End(x) < y.start) /\ ~(End(y) < x.start)
    BY <1>1, <1>5, <2>1, <2>2 DEF At
  <2>4. ~(i < j) /\ ~(j < i)
    BY <1>5, <2>1, <2>3 DEF OwnInOrder
  <2>5. i \in Nat /\ j \in Nat
    OBVIOUS
  <2> QED
    BY <2>4, <2>5
<1> HIDE DEF there
<1>6. CASE there = {}
  <2>1. HeldIn(list, o, b) = "F_UNLCK"
    BY <1>2, <1>6
  <2> QED
    BY <1>3, <1>6, <2>1
<1>7. CASE there # {}
  <2>1. PICK x : x = CHOOSE l \in there : TRUE
    OBVIOUS
  <2>2. x \in there
    BY <1>7, <2>1
  <2>3. PICK j \in DOMAIN list : x = list[j] /\ list[j].id = o /\ At(b, list[j])
    BY <1>4, <2>2
  <2>4. HeldIn(list, o, b) = list[j].type
    BY <1>2, <1>7, <2>1, <2>3
  <2> QED
    BY <1>5, <2>3, <2>4
<1> QED
  BY <1>6, <1>7

(* Exactly the bytes of l change, and only for its owner.                  *)
LEMMA RewrittenHeld ==
  ASSUME locks \in Seq(Lock), OwnInOrder(locks), NEW l \in Call,
         NEW M, NEW from, NEW nw, Rewritten(M, l, from, nw),
         NEW o, NEW b \in AllBytes
  PROVE  HeldIn(M, o, b) = IF o = l.id /\ At(b, l)
                           THEN IF nw = 0 THEN "F_UNLCK" ELSE l.type
                           ELSE HeldIn(locks, o, b)
<1>1. /\ M \in Seq(Lock) /\ OwnInOrder(M) /\ nw \in {0} \cup DOMAIN M
      /\ nw # 0 => nw \in DOMAIN M
      /\ \A k \in DOMAIN M : M[k] \in Lock /\ k # 0
  <2>1. OwnInOrder(M)
    BY RewrittenOrder
  <2>2. M \in Seq(Lock) /\ nw \in {0} \cup DOMAIN M
    BY DEF Rewritten
  <2> QED
    BY <2>1, <2>2
<1>2. b \in Nat
  BY BoundsAreNat DEF AllBytes
<1>3. CASE \E k \in DOMAIN M \ {nw} : M[k].id = o /\ At(b, M[k])
  <2>1. PICK k \in DOMAIN M \ {nw} : M[k].id = o /\ At(b, M[k])
    BY <1>3
  <2>2. HeldIn(M, o, b) = M[k].type
    BY <1>1, <2>1, HeldIs
  <2>3. PICK i \in DOMAIN locks : Fits(M[k], locks[i], l) /\ locks[i] \in Lock
    BY DEF Rewritten
  <2>4. PICK m \in Lock, x \in Lock : m = M[k] /\ x = locks[i]
    BY <1>1, <2>3
  <2>5. /\ m.id = x.id /\ m.type = x.type /\ x.start <= m.start /\ End(m) <= End(x)
        /\ m.start \in Nat /\ End(m) \in Nat /\ x.start \in Nat /\ End(x) \in Nat
        /\ m.id = l.id => ~Overlap(m, l)
    BY <2>3, <2>4, FitsIs
  <2>6. x.id = o /\ At(b, x)
    BY <1>2, <2>1, <2>4, <2>5 DEF At
  <2>7. HeldIn(locks, o, b) = x.type
    BY <2>4, <2>6, HeldIs
  <2>8. ~(o = l.id /\ At(b, l))
    <3>1. l.start \in Nat /\ End(l) \in Nat
      BY LockIs
    <3> QED
      BY <1>2, <2>1, <2>4, <2>5, <3>1 DEF At, Overlap
  <2> QED
    BY <2>2, <2>4, <2>5, <2>7, <2>8
<1>4. CASE nw # 0 /\ o = l.id /\ At(b, l)
  <2>1. M[nw].id = o /\ M[nw].type = l.type /\ At(b, M[nw])
    BY <1>4 DEF Rewritten, At
  <2>2. HeldIn(M, o, b) = l.type
    BY <1>1, <1>4, <2>1, HeldIs
  <2> QED
    BY <1>4, <2>2
<1>5. CASE /\ ~(\E k \in DOMAIN M \ {nw} : M[k].id = o /\ At(b, M[k]))
           /\ ~(nw # 0 /\ o = l.id /\ At(b, l))
  <2>1. \A k \in DOMAIN M : ~(M[k].id = o /\ At(b, M[k]))
    <3> SUFFICES ASSUME NEW k \in DOMAIN M, M[k].id = o, At(b, M[k]) PROVE FALSE
      OBVIOUS
    <3>1. k = nw /\ nw # 0
      BY <1>1, <1>5
    <3>2. o = l.id /\ At(b, l)
      BY <3>1 DEF Rewritten, At
    <3> QED
      BY <1>5, <3>1, <3>2
  <2>2. HeldIn(M, o, b) = "F_UNLCK"
    BY <1>1, <2>1, HeldIs
  <2>3. CASE o = l.id /\ At(b, l)
    BY <1>5, <2>2, <2>3
  <2>4. CASE ~(o = l.id /\ At(b, l))
    <3>1. ASSUME NEW i \in DOMAIN locks, locks[i].id = o, At(b, locks[i]) PROVE FALSE
      <4>1. CASE ~Mine(locks[i], l)
        <5>1. PICK k \in DOMAIN M \ {nw} : from[k] = i
          BY <4>1 DEF Rewritten
        <5>2. Fits(M[k], locks[i], l)
          BY <5>1 DEF Rewritten
        <5>3. M[k] = locks[i]
          BY <4>1, <5>2 DEF Fits
        <5> QED
          BY <2>1, <3>1, <5>3
      <4>2. CASE Mine(locks[i], l)
        <5>1. ~At(b, l)
          BY <2>4, <3>1, <4>2 DEF Mine
        <5>2. PICK k \in DOMAIN M \ {nw} : from[k] = i /\ At(b, M[k])
          BY <1>2, <3>1, <4>2, <5>1 DEF Rewritten
        <5>3. Fits(M[k], locks[i], l) /\ locks[i] \in Lock
          BY <5>2 DEF Rewritten
        <5>4. M[k].id = locks[i].id
          BY <1>1, <5>3, FitsIs
        <5> QED
          BY <2>1, <3>1, <5>2, <5>4
      <4> QED
        BY <4>1, <4>2
    <3>2. HeldIn(locks, o, b) = "F_UNLCK"
      BY <3>1, HeldIs
    <3> QED
      BY <2>2, <2>4, <3>2
  <2> QED
    BY <2>3, <2>4
<1> QED
  BY <1>3, <1>4, <1>5

LEMMA SameLocksHeld ==
  ASSUME NEW list \in Seq(Lock), OwnInOrder(list), NEW M, SameLocks(M, list),
         NEW o, NEW b \in AllBytes
  PROVE  HeldIn(M, o, b) = HeldIn(list, o, b)
<1>1. M \in Seq(Lock) /\ OwnInOrder(M) /\ DOMAIN M = DOMAIN list
  BY SameLocksKeep DEF SameLocks
<1>2. \A k \in DOMAIN list : /\ M[k].id = list[k].id /\ M[k].type = list[k].type
                             /\ At(b, M[k]) <=> At(b, list[k])
  BY DEF SameLocks, At, End
<1>3. CASE \E k \in DOMAIN list : list[k].id = o /\ At(b, list[k])
  <2>1. PICK k \in DOMAIN list : list[k].id = o /\ At(b, list[k])
    BY <1>3
  <2>2. HeldIn(list, o, b) = list[k].type
    BY <2>1, HeldIs
  <2>3. HeldIn(M, o, b) = M[k].type
    BY <1>1, <1>2, <2>1, HeldIs
  <2> QED
    BY <1>2, <2>2, <2>3
<1>4. CASE ~\E k \in DOMAIN list : list[k].id = o /\ At(b, list[k])
  <2>1. HeldIn(list, o, b) = "F_UNLCK"
    BY <1>4, HeldIs
  <2>2. HeldIn(M, o, b) = "F_UNLCK"
    BY <1>1, <1>2, <1>4, HeldIs
  <2> QED
    BY <2>1, <2>2
<1> QED
  BY <1>3, <1>4

LEMMA LocksHeldIs ==
  /\ LocksHeld = [o \in Owner |-> [b \in AllBytes |-> HeldIn(locks, o, b)]]
  /\ LocksHeld' = [o \in Owner |-> [b \in AllBytes |-> HeldIn(locks', o, b)]]
BY DEF LocksHeld, HeldIn, AllBytes

(* One owner's bytes first .. last become t, and nobody is in the way.     *)
Step(o, first, last, t) ==
  /\ \A q \in Owner \ {o} : LocksHeld'[q] = LocksHeld[q]
  /\ \A b \in AllBytes : LocksHeld'[o][b] = IF b \in first .. last THEN t ELSE LocksHeld[o][b]
  /\ \A q \in Owner \ {o}, b \in first .. last :
       "F_UNLCK" \in {t, LocksHeld[q][b]} \/ "F_WRLCK" \notin {t, LocksHeld[q][b]}

LEMMA StepIsNext ==
  ASSUME NEW o \in Owner, NEW first \in AllBytes, NEW last \in AllBytes,
         NEW t \in LockType \cup {"F_UNLCK"}, Step(o, first, last, t)
  PROVE  Bytes!Next
<1>1. Bytes!Byte = AllBytes /\ Bytes!LockType = LockType
  BY DEF Bytes!Byte, AllBytes, Bytes!LockType, LockType
<1>2. Bytes!Change(LocksHeld[o], LocksHeld'[o], first, last, t)
  BY <1>1 DEF Step, Bytes!Change
<1>3. Bytes!Allowed(o, first, last, t)
  BY DEF Step, Bytes!Allowed, Bytes!Compatible
<1>4. \A q \in Owner \ {o} : LocksHeld'[q] = LocksHeld[q]
  BY DEF Step
<1> QED
  BY <1>1, <1>2, <1>3, <1>4 DEF Bytes!Next

(* When a call rewrites the list to M, and locks' differs from M in who    *)
(* waits only, the bytes of the call's range change.                       *)
LEMMA RewrittenSteps ==
  ASSUME locks \in Seq(Lock), OwnInOrder(locks), NEW l \in Call,
         NEW M, NEW from, NEW nw, Rewritten(M, l, from, nw), nw = 0 \/ l.type \in LockType,
         nw # 0 => \A i \in DOMAIN locks : ~Blocks(locks[i], l),
         \A o \in Owner, b \in AllBytes : HeldIn(locks', o, b) = HeldIn(M, o, b)
  PROVE  Bytes!Next
<1>1. PICK t : t = IF nw = 0 THEN "F_UNLCK" ELSE l.type
  OBVIOUS
<1>2. t \in LockType \cup {"F_UNLCK"} /\ l.id \in Owner
  BY <1>1 DEF Call
<1>3. PICK first, last : first = l.start /\ last = End(l)
  OBVIOUS
<1>4. /\ first \in AllBytes /\ last \in AllBytes /\ first \in Nat /\ last \in Nat
      /\ \A b \in AllBytes : b \in Nat
  BY <1>3, LockIs DEF AllBytes
<1>5. \A b \in AllBytes : At(b, l) <=> b \in first .. last
  BY <1>3, <1>4 DEF At
<1>6. \A o \in Owner, b \in AllBytes :
        LocksHeld'[o][b] = IF o = l.id /\ b \in first .. last THEN t ELSE LocksHeld[o][b]
  <2> SUFFICES ASSUME NEW o \in Owner, NEW b \in AllBytes
               PROVE  LocksHeld'[o][b] = IF o = l.id /\ b \in first .. last THEN t
                                         ELSE LocksHeld[o][b]
    OBVIOUS
  <2>1. HeldIn(M, o, b) = IF o = l.id /\ At(b, l) THEN IF nw = 0 THEN "F_UNLCK" ELSE l.type
                          ELSE HeldIn(locks, o, b)
    BY RewrittenHeld
  <2>2. HeldIn(locks', o, b) = HeldIn(M, o, b)
    OBVIOUS
  <2>3. LocksHeld'[o][b] = HeldIn(locks', o, b) /\ LocksHeld[o][b] = HeldIn(locks, o, b)
    BY LocksHeldIs
  <2> QED
    BY ONLY <1>1, <1>5, <2>1, <2>2, <2>3, b \in AllBytes
<1>7. ASSUME NEW q \in Owner \ {l.id} PROVE LocksHeld'[q] = LocksHeld[q]
  <2>1. \A b \in AllBytes : LocksHeld'[q][b] = LocksHeld[q][b]
    BY <1>6
  <2>2. /\ LocksHeld'[q] = [b \in AllBytes |-> HeldIn(locks', q, b)]
        /\ LocksHeld[q] = [b \in AllBytes |-> HeldIn(locks, q, b)]
    BY LocksHeldIs
  <2>3. \A b \in AllBytes : HeldIn(locks', q, b) = HeldIn(locks, q, b)
    BY <2>1, <2>2
  <2> QED
    BY <2>2, <2>3
<1>8. ASSUME NEW q \in Owner \ {l.id}, NEW b \in first .. last
      PROVE  "F_UNLCK" \in {t, LocksHeld[q][b]} \/ "F_WRLCK" \notin {t, LocksHeld[q][b]}
  <2>1. b \in AllBytes /\ b \in Nat
    <3>1. LastByte \in Nat /\ last <= LastByte + 1 /\ first \in Nat /\ last \in Nat
      BY <1>4, BoundsAreNat DEF AllBytes
    <3> QED
      BY <3>1 DEF AllBytes
  <2>2. LocksHeld[q][b] = HeldIn(locks, q, b)
    BY <2>1, LocksHeldIs
  <2>3. CASE nw = 0
    BY <1>1, <2>3
  <2>4. CASE nw # 0 /\ HeldIn(locks, q, b) = "F_UNLCK"
    BY <2>2, <2>4
  <2>5. CASE nw # 0 /\ HeldIn(locks, q, b) # "F_UNLCK"
    <3>1. PICK i \in DOMAIN locks : /\ locks[i].id = q /\ At(b, locks[i])
                                    /\ HeldIn(locks, q, b) = locks[i].type
      BY <2>1, <2>5, HeldIs
    <3>2. PICK x \in Lock : x = locks[i]
      OBVIOUS
    <3>3. x.start \in Nat /\ End(x) \in Nat /\ l.start \in Nat /\ End(l) \in Nat
      BY LockIs
    <3>4. At(b, l)
      BY <1>5, <2>1
    <3>5. Overlap(x, l)
      BY <2>1, <3>1, <3>2, <3>3, <3>4 DEF At, Overlap
    <3>6. ~Blocks(x, l)
      BY <2>5, <3>2
    <3>7. "F_WRLCK" \notin {x.type, l.type}
      BY <3>1, <3>2, <3>5, <3>6 DEF Blocks
    <3> QED
      BY <1>1, <2>2, <2>5, <3>1, <3>2, <3>7
  <2> QED
    BY <2>3, <2>4, <2>5
<1>9. Step(l.id, first, last, t)
  BY <1>2, <1>6, <1>7, <1>8 DEF Step
<1> QED
  BY <1>2, <1>4, <1>9, StepIsNext

LEMMA ChangesAreSteps ==
  ASSUME IInv, Changes
  PROVE  Bytes!Next \/ LocksHeld' = LocksHeld
<1>1. locks \in Seq(Lock) /\ OwnInOrder(locks)
  BY DEF IInv, TypeOK, Core
<1>2. CASE locks' = locks
  BY <1>2, LocksHeldIs
<1>3. ASSUME NEW l \in Call, NEW from, NEW nw, Rewritten(locks', l, from, nw),
             nw = 0 \/ l.type \in LockType,
             nw # 0 => \A i \in DOMAIN locks : ~Blocks(locks[i], l)
      PROVE  Bytes!Next
  BY <1>1, <1>3, RewrittenSteps
<1>4. ASSUME SameLocks(locks', locks) PROVE LocksHeld' = LocksHeld
  <2>1. \A o \in Owner, b \in AllBytes : HeldIn(locks', o, b) = HeldIn(locks, o, b)
    BY <1>1, <1>4, SameLocksHeld
  <2> QED
    BY <2>1, LocksHeldIs
<1>5. ASSUME NEW list, SameLocks(locks', list), NEW l \in Call, NEW from,
             Rewritten(list, l, from, 0)
      PROVE  Bytes!Next
  <2>1. list \in Seq(Lock)
    BY <1>5 DEF Rewritten
  <2>2. OwnInOrder(list)
    BY <1>1, <1>5, RewrittenOrder
  <2>3. \A o \in Owner, b \in AllBytes : HeldIn(locks', o, b) = HeldIn(list, o, b)
    BY <1>5, <2>1, <2>2, SameLocksHeld
  <2>4. PICK nw : nw = 0 /\ Rewritten(list, l, from, nw)
    BY <1>5
  <2> QED
    BY <1>1, <2>3, <2>4, RewrittenSteps
<1> QED
  BY <1>2, <1>3, <1>4, <1>5 DEF Changes

LEMMA NothingHeld ==
  ASSUME Init
  PROVE  Bytes!Init
<1>1. locks = <<>> /\ locks \in Seq(Lock) /\ DOMAIN locks = {} /\ OwnInOrder(locks)
  BY DEF Init, OwnInOrder
<1>2. \A o \in Owner, b \in AllBytes : HeldIn(locks, o, b) = "F_UNLCK"
  BY <1>1, HeldIs
<1>3. LocksHeld = [o \in Owner |-> [b \in AllBytes |-> "F_UNLCK"]]
  BY <1>2, LocksHeldIs
<1> QED
  BY <1>3 DEF Bytes!Init, Bytes!Byte, AllBytes

(* The lists of lf_setlock() and lf_clearlock() implement locks on bytes:  *)
(* a call changes its owner's lock on the bytes of its range and on no     *)
(* other, and is granted only where no other owner is in the way.          *)
THEOREM LockFKeepsPromise == Spec => KeepsPromise
<1>1. Init => Bytes!Init
  BY NothingHeld
<1>2. IInv /\ [Next]_vars => [Bytes!Next]_LocksHeld
  <2>1. ASSUME IInv, Next PROVE Bytes!Next \/ LocksHeld' = LocksHeld
    BY <2>1, NextKeeps, ChangesAreSteps
  <2>2. ASSUME UNCHANGED vars PROVE LocksHeld' = LocksHeld
    <3>1. locks' = locks
      BY <2>2 DEF vars
    <3> QED
      BY <3>1, LocksHeldIs
  <2> QED
    BY <2>1, <2>2
<1> QED
  BY <1>1, <1>2, LockFIInv, PTL DEF Spec, KeepsPromise, Bytes!Spec

(* Whatever is split, replaced, handed over or changed from one type to    *)
(* another, two owners never have locks that conflict on a byte.           *)
THEOREM LockFNoConflict == Spec => []Bytes!NoConflict
<1>1. ASSUME IInv PROVE Bytes!NoConflict
  <2>1. locks \in Seq(Lock) /\ OwnInOrder(locks) /\ NoneInTheWay(locks)
    BY <1>1 DEF IInv, TypeOK, Core
  <2>2. ASSUME NEW o \in Owner, NEW q \in Owner, NEW b \in AllBytes, o # q
        PROVE  Bytes!Compatible(LocksHeld[o][b], LocksHeld[q][b])
    <3>1. PICK t, u : /\ t = HeldIn(locks, o, b) /\ t = LocksHeld[o][b]
                      /\ u = HeldIn(locks, q, b) /\ u = LocksHeld[q][b]
      BY LocksHeldIs
    <3>2. CASE t = "F_UNLCK" \/ u = "F_UNLCK"
      BY <3>1, <3>2 DEF Bytes!Compatible
    <3>3. CASE t # "F_UNLCK" /\ u # "F_UNLCK"
      <4>1. PICK i \in DOMAIN locks : locks[i].id = o /\ At(b, locks[i]) /\ t = locks[i].type
        <5>1. HeldIn(locks, o, b) # "F_UNLCK"
          BY <3>1, <3>3
        <5>2. \E k \in DOMAIN locks : /\ locks[k].id = o /\ At(b, locks[k])
                                     /\ HeldIn(locks, o, b) = locks[k].type
          BY <2>1, <5>1, HeldIs
        <5> QED
          BY <3>1, <5>2
      <4>2. PICK j \in DOMAIN locks : locks[j].id = q /\ At(b, locks[j]) /\ u = locks[j].type
        <5>1. HeldIn(locks, q, b) # "F_UNLCK"
          BY <3>1, <3>3
        <5>2. \E k \in DOMAIN locks : /\ locks[k].id = q /\ At(b, locks[k])
                                     /\ HeldIn(locks, q, b) = locks[k].type
          BY <2>1, <5>1, HeldIs
        <5> QED
          BY <3>1, <5>2
      <4>3. PICK x \in Lock, y \in Lock : x = locks[i] /\ y = locks[j]
        BY <2>1
      <4>4. /\ x.start \in Nat /\ End(x) \in Nat /\ y.start \in Nat /\ End(y) \in Nat
            /\ b \in Nat
        BY LockIs, BoundsAreNat DEF AllBytes
      <4>5. Overlap(x, y) /\ ~Blocks(x, y)
        BY <2>1, <4>1, <4>2, <4>3, <4>4 DEF At, Overlap, NoneInTheWay
      <4>6. "F_WRLCK" \notin {t, u}
        BY <2>2, <4>1, <4>2, <4>3, <4>5 DEF Blocks
      <4> QED
        BY <3>1, <4>6 DEF Bytes!Compatible
    <3> QED
      BY <3>2, <3>3
  <2> QED
    BY <2>2 DEF Bytes!NoConflict, Bytes!Byte, AllBytes
<1> QED
  BY <1>1, LockFIInv, PTL
=============================================================================
