-------------------------- MODULE TcpReceiveProofs --------------------------
(* The receiving half of tcp_input.c gives the process the bytes of the    *)
(* stream in order and promises no more room than it has, for a stream of  *)
(* any length, buffers and segments of any size, and a peer that overruns. *)
EXTENDS TcpReceive, FiniteSetTheorems, SequenceTheorems, TLAPS

-----------------------------------------------------------------------------
(* Arithmetic modulo SeqSpace.                                             *)

LEMMA Sizes ==
  /\ SeqSpace \in Nat \ {0} /\ irs \in SeqNo
  /\ N \in Nat /\ sb_hiwat \in Nat \ {0} /\ t_maxseg \in Nat \ {0}
  /\ 2 * (N + sb_hiwat + 2) < SeqSpace
<1>1. SeqSpace \in Nat /\ N \in Nat /\ sb_hiwat \in Nat
  BY SizesFit
<1>2. N + sb_hiwat + 2 < SeqSpace \div 2
  BY SizesFit
<1>3. PICK h \in Int : h = SeqSpace \div 2
  BY <1>1
<1>4. 2 * h <= SeqSpace
  BY <1>1, <1>3
<1> QED
  BY <1>1, <1>2, <1>3, <1>4, SizesFit DEF SeqNo

LEMMA UnsignedIs ==
  ASSUME NEW x \in Int
  PROVE  /\ Unsigned(x) \in SeqNo
         /\ \E k \in Int : Unsigned(x) = x + SeqSpace * k
<1>1. SeqSpace \in Nat \ {0}
  BY Sizes
<1>2. Unsigned(x) \in SeqNo
  BY <1>1 DEF Unsigned, SeqNo
<1>3. PICK k \in Int : k = 0 - (x \div SeqSpace)
  BY <1>1
<1>4. x = SeqSpace * (x \div SeqSpace) + (x % SeqSpace)
  BY <1>1
<1>5. Unsigned(x) = x + SeqSpace * k
  BY <1>1, <1>3, <1>4 DEF Unsigned
<1> QED
  BY <1>2, <1>5

LEMMA NoMultiple ==
  ASSUME NEW k \in Int, SeqSpace * k < SeqSpace, 0 - SeqSpace < SeqSpace * k
  PROVE  k = 0
<1>1. SeqSpace \in Nat \ {0}
  BY Sizes
<1> QED
  BY <1>1

LEMMA UnsignedUnique ==
  ASSUME NEW r \in SeqNo, NEW x \in Int, NEW k \in Int, x = r + SeqSpace * k
  PROVE  Unsigned(x) = r
<1>1. SeqSpace \in Nat \ {0}
  BY Sizes
<1>2. PICK u \in SeqNo : u = Unsigned(x)
  BY UnsignedIs
<1>3. PICK h \in Int : u = x + SeqSpace * h
  BY <1>2, UnsignedIs
<1>4. PICK d \in Int : d = k + h
  OBVIOUS
<1>5. SeqSpace * d = u - r
  BY <1>1, <1>3, <1>4 DEF SeqNo
<1>6. d = 0
  BY <1>1, <1>5, NoMultiple DEF SeqNo
<1> QED
  BY <1>1, <1>2, <1>5, <1>6 DEF SeqNo

LEMMA SignedUnique ==
  ASSUME NEW d \in Int, NEW x \in Int, NEW k \in Int, x = d + SeqSpace * k,
         2 * d < SeqSpace, 0 - SeqSpace < 2 * d
  PROVE  Signed(x) = d
<1>1. SeqSpace \in Nat \ {0}
  BY Sizes
<1>2. CASE d >= 0
  <2>1. d \in SeqNo
    BY <1>1, <1>2 DEF SeqNo
  <2>2. Unsigned(x) = d
    BY <2>1, UnsignedUnique
  <2> QED
    BY <1>1, <2>2 DEF Signed
<1>3. CASE d < 0
  <2>1. PICK h \in Int : h = k - 1
    OBVIOUS
  <2>2. x = (d + SeqSpace) + SeqSpace * h
    BY <1>1, <2>1
  <2>3. d + SeqSpace \in SeqNo
    BY <1>1, <1>3 DEF SeqNo
  <2>4. Unsigned(x) = d + SeqSpace
    BY <2>2, <2>3, UnsignedUnique
  <2>5. SeqSpace \in Int /\ d \in Int /\ 0 - SeqSpace < 2 * d
    BY <1>1
  <2> QED
    BY ONLY <2>4, <2>5 DEF Signed
<1> QED
  BY <1>2, <1>3

-----------------------------------------------------------------------------
(* x is a sequence number, not reduced perhaps, of byte a of the stream.   *)
At(x, a) == x \in Int /\ a \in Int /\ \E k \in Int : x = irs + a + SeqSpace * k

LEMMA AtPlus ==
  ASSUME NEW x, NEW a, At(x, a), NEW n \in Int
  PROVE  At(x + n, a + n)
<1>1. SeqSpace \in Nat /\ irs \in Nat /\ x \in Int /\ a \in Int
  BY Sizes DEF At, SeqNo
<1>2. PICK k \in Int : x = irs + a + SeqSpace * k
  BY DEF At
<1>3. PICK y \in Int : y = SeqSpace * k
  BY <1>1
<1>4. x + n = irs + (a + n) + SeqSpace * k
  BY <1>1, <1>2, <1>3
<1> QED
  BY <1>1, <1>4 DEF At

LEMMA AtUnsigned ==
  ASSUME NEW x, NEW a, At(x, a)
  PROVE  At(Unsigned(x), a) /\ Unsigned(x) \in SeqNo
<1>1. SeqSpace \in Nat \ {0} /\ irs \in Nat /\ x \in Int /\ a \in Int
  BY Sizes DEF At, SeqNo
<1>2. PICK k \in Int : x = irs + a + SeqSpace * k
  BY DEF At
<1>3. PICK h \in Int : Unsigned(x) = x + SeqSpace * h
  BY <1>1, UnsignedIs
<1>4. PICK g \in Int : g = k + h
  OBVIOUS
<1>5. Unsigned(x) = irs + a + SeqSpace * g
  BY <1>1, <1>2, <1>3, <1>4
<1>6. Unsigned(x) \in SeqNo
  BY <1>1, UnsignedIs
<1> QED
  BY <1>1, <1>4, <1>5, <1>6 DEF At, SeqNo

LEMMA AtSeqAt ==
  ASSUME NEW a \in Int
  PROVE  At(SeqAt(a), a) /\ SeqAt(a) \in SeqNo
<1>1. irs \in Int
  BY Sizes DEF SeqNo
<1>2. SeqSpace * 0 = 0
  BY Sizes
<1>3. At(irs + a, a)
  BY <1>1, <1>2 DEF At
<1> QED
  BY <1>3, AtUnsigned DEF SeqAt

LEMMA AtDifference ==
  ASSUME NEW x, NEW a, At(x, a), NEW y, NEW b, At(y, b),
         2 * (a - b) < SeqSpace, 0 - SeqSpace < 2 * (a - b)
  PROVE  Signed(x - y) = a - b
<1>1. SeqSpace \in Nat \ {0} /\ irs \in Nat /\ x \in Int /\ a \in Int /\ y \in Int /\ b \in Int
  BY Sizes DEF At, SeqNo
<1>2. PICK k \in Int : x = irs + a + SeqSpace * k
  BY DEF At
<1>3. PICK h \in Int : y = irs + b + SeqSpace * h
  BY DEF At
<1>4. PICK g \in Int : g = k - h
  OBVIOUS
<1>5. x - y = (a - b) + SeqSpace * g
  BY <1>1, <1>2, <1>3, <1>4
<1>6. x - y \in Int /\ a - b \in Int
  BY <1>1
<1> QED
  BY <1>4, <1>5, <1>6, SignedUnique

(* The same, of the unsigned difference.                                   *)
LEMMA AtUnsignedDifference ==
  ASSUME NEW x, NEW a, At(x, a), NEW y, NEW b, At(y, b), a - b \in SeqNo
  PROVE  Unsigned(x - y) = a - b
<1>1. SeqSpace \in Nat \ {0} /\ irs \in Nat /\ x \in Int /\ a \in Int /\ y \in Int /\ b \in Int
  BY Sizes DEF At, SeqNo
<1>2. PICK k \in Int : x = irs + a + SeqSpace * k
  BY DEF At
<1>3. PICK h \in Int : y = irs + b + SeqSpace * h
  BY DEF At
<1>4. PICK g \in Int : g = k - h
  OBVIOUS
<1>5. x - y = (a - b) + SeqSpace * g
  BY <1>1, <1>2, <1>3, <1>4
<1>6. x - y \in Int
  BY <1>1
<1> QED
  BY <1>4, <1>5, <1>6, UnsignedUnique

LEMMA AtPlusSpace ==
  ASSUME NEW x, NEW a, At(x, a)
  PROVE  At(x, a + SeqSpace) /\ At(x, a - SeqSpace)
<1>1. SeqSpace \in Nat \ {0} /\ irs \in Nat /\ x \in Int /\ a \in Int
  BY Sizes DEF At, SeqNo
<1>2. PICK k \in Int : x = irs + a + SeqSpace * k
  BY DEF At
<1>3. PICK g \in Int : g = k - 1
  OBVIOUS
<1>4. PICK h \in Int : h = k + 1
  OBVIOUS
<1>5. x = irs + (a + SeqSpace) + SeqSpace * g
  BY <1>1, <1>2, <1>3
<1>6. x = irs + (a - SeqSpace) + SeqSpace * h
  BY <1>1, <1>2, <1>4
<1> QED
  BY <1>1, <1>3, <1>4, <1>5, <1>6 DEF At

(* The byte a reduced sequence number is of.                               *)
Place(x) == Unsigned(x - irs)

LEMMA PlaceIs ==
  ASSUME NEW x, NEW a \in SeqNo, At(x, a)
  PROVE  Place(x) = a
<1>1. SeqSpace \in Nat \ {0} /\ irs \in Nat /\ x \in Int /\ a \in Int
  BY Sizes DEF At, SeqNo
<1>2. PICK k \in Int : x = irs + a + SeqSpace * k
  BY DEF At
<1>3. x - irs = a + SeqSpace * k /\ x - irs \in Int
  BY <1>1, <1>2
<1> QED
  BY <1>3, UnsignedUnique DEF Place

LEMMA AtPlace ==
  ASSUME NEW x \in SeqNo
  PROVE  At(x, Place(x)) /\ Place(x) \in SeqNo
<1>1. SeqSpace \in Nat \ {0} /\ irs \in Nat /\ x \in Int
  BY Sizes DEF SeqNo
<1>2. PICK d \in Int : d = x - irs
  BY <1>1
<1>3. PICK u : u = Unsigned(d)
  OBVIOUS
<1>4. u \in SeqNo
  BY <1>3, UnsignedIs
<1>5. PICK k \in Int : u = d + SeqSpace * k
  BY <1>3, UnsignedIs
<1>6. PICK h \in Int : h = 0 - k
  OBVIOUS
<1>7. x = irs + u + SeqSpace * h
  BY <1>1, <1>2, <1>4, <1>5, <1>6 DEF SeqNo
<1>8. At(x, u)
  BY <1>1, <1>4, <1>6, <1>7 DEF At, SeqNo
<1> QED
  BY <1>2, <1>3, <1>4, <1>8 DEF Place

LEMMA SamePlace ==
  ASSUME NEW x \in SeqNo, NEW y \in SeqNo, NEW a, NEW b, At(x, a), At(y, b),
         a - b < SeqSpace, 0 - SeqSpace < a - b
  PROVE  x = y <=> a = b
<1>1. SeqSpace \in Nat \ {0} /\ irs \in Nat /\ x \in Int /\ y \in Int /\ a \in Int /\ b \in Int
  BY Sizes DEF At, SeqNo
<1>2. PICK k \in Int : x = irs + a + SeqSpace * k
  BY DEF At
<1>3. PICK h \in Int : y = irs + b + SeqSpace * h
  BY DEF At
<1>4. PICK g \in Int : g = k - h
  OBVIOUS
<1>5. x - y = (a - b) + SeqSpace * g
  BY <1>1, <1>2, <1>3, <1>4
<1>6. PICK m \in Int : m = 0 - g
  OBVIOUS
<1>7. SeqSpace * m = (a - b) - (x - y)
  BY <1>1, <1>4, <1>5, <1>6
<1>8. ASSUME x = y PROVE a = b
  <2>1. SeqSpace * m < SeqSpace /\ 0 - SeqSpace < SeqSpace * m
    BY ONLY <1>1, <1>7, <1>8, a - b < SeqSpace, 0 - SeqSpace < a - b
  <2>2. m = 0
    BY <2>1, NoMultiple
  <2>3. SeqSpace * m = 0
    BY <1>1, <2>2
  <2> QED
    BY ONLY <1>1, <1>7, <1>8, <2>3
<1>9. ASSUME a = b PROVE x = y
  <2>1. SeqSpace * g = x - y /\ x - y < SeqSpace /\ 0 - SeqSpace < x - y
    <3>1. x \in SeqNo /\ y \in SeqNo
      OBVIOUS
    <3> QED
      BY ONLY <1>1, <1>5, <1>9, <3>1 DEF SeqNo
  <2>2. g = 0
    BY <2>1, NoMultiple
  <2>3. SeqSpace * g = 0
    BY <1>1, <2>2
  <2> QED
    BY ONLY <1>1, <2>1, <2>3
<1> QED
  BY <1>8, <1>9

-----------------------------------------------------------------------------
(* Loops over a queue.                                                     *)

LEMMA LeastExists ==
  ASSUME NEW n \in Nat, NEW K \in SUBSET (1..n), K # {}
  PROVE  \E l \in K : \A k \in K : l <= k
<1> DEFINE Upto == {1..k : k \in K}
<1>1. IsFiniteSet(1..n)
  BY FS_Interval
<1>2. \A k \in K : 1..k \in SUBSET (1..n) /\ IsFiniteSet(1..k)
  <2>1. \A k \in K : 1..k \in SUBSET (1..n)
    OBVIOUS
  <2> QED
    BY <1>1, <2>1, FS_Subset
<1>3. Upto \subseteq FiniteSubsetsOf(1..n) /\ Upto # {}
  BY <1>2 DEF FiniteSubsetsOf
<1>4. IsWellFoundedOn(StrictSubsetOrdering(1..n), FiniteSubsetsOf(1..n))
  BY <1>1, FS_StrictSubsetOrderingWellFounded
<1>5. PICK u \in Upto : \A v \in Upto : <<v, u>> \notin StrictSubsetOrdering(1..n)
  <2> HIDE DEF Upto
  <2> QED
    BY <1>3, <1>4, WFMin
<1>6. PICK l \in K : u = 1..l
  OBVIOUS
<1>7. ASSUME NEW k \in K, k < l PROVE FALSE
  <2>1. 1..k \subseteq 1..l /\ 1..l \subseteq 1..n /\ l \in 1..l /\ l \notin 1..k
    BY <1>7
  <2>2. <<1..k, 1..l>> \in StrictSubsetOrdering(1..n)
    BY <2>1 DEF StrictSubsetOrdering
  <2>3. 1..k \in Upto
    OBVIOUS
  <2> QED
    BY <1>5, <1>6, <2>2, <2>3
<1>8. \A k \in K : k \in Int /\ l \in Int
  OBVIOUS
<1> QED
  BY <1>7, <1>8

LEMMA LeadingIs ==
  ASSUME NEW n \in Nat, NEW S
  PROVE  /\ Leading(S, n) \in 0..n
         /\ 1..Leading(S, n) \subseteq S
         /\ Leading(S, n) < n => Leading(S, n) + 1 \notin S
<1> DEFINE Stop(i) == 1..i \subseteq S /\ (i < n => i + 1 \notin S)
<1>1. \E i \in 0..n : Stop(i)
  <2>1. CASE 1..n \subseteq S
    <3>1. n \in 0..n /\ Stop(n)
      BY <2>1
    <3> QED
      BY <3>1
  <2>2. CASE ~(1..n \subseteq S)
    <3> DEFINE K == {k \in 1..n : k \notin S}
    <3>1. K \in SUBSET (1..n) /\ K # {}
      BY <2>2
    <3>2. PICK l \in K : \A k \in K : l <= k
      <4> HIDE DEF K
      <4> QED
        BY <3>1, LeastExists
    <3>3. \A k \in 1..(l - 1) : k \in S
      BY <3>2
    <3>4. l - 1 \in 0..n /\ Stop(l - 1)
      BY <3>2, <3>3
    <3> QED
      BY <3>4
  <2> QED
    BY <2>1, <2>2
<1>2. Leading(S, n) = CHOOSE i \in 0..n : Stop(i)
  BY DEF Leading
<1> HIDE DEF Stop
<1>3. Leading(S, n) \in 0..n /\ Stop(Leading(S, n))
  BY <1>1, <1>2
<1> QED
  BY <1>3 DEF Stop

(* The concatenation of sequences of which g has the first i.              *)
LEMMA FlattenIs ==
  ASSUME NEW k \in Nat \ {0}, NEW seqs, DOMAIN seqs = 1..k, Len(seqs) = k,
         NEW g, g = [i \in 1..k |-> IF i = 1 THEN seqs[i] ELSE g[i - 1] \o seqs[i]]
  PROVE  FlattenSeq(seqs) = g[k]
<1> DEFINE Def(h) == [i \in 1..k |-> IF i = 1 THEN seqs[i] ELSE h[i - 1] \o seqs[i]]
<1>1. PICK f : f = CHOOSE h : h = Def(h)
  OBVIOUS
<1>2. FlattenSeq(seqs) = f[k]
  BY <1>1 DEF FlattenSeq
<1>3. f = Def(f)
  <2>1. g = Def(g)
    OBVIOUS
  <2> HIDE DEF Def
  <2> QED
    BY <1>1, <2>1
<1>4. \A i \in 1..k : f[i] = g[i]
  <2> SUFFICES ASSUME \E i \in 1..k : f[i] # g[i] PROVE FALSE
    OBVIOUS
  <2> DEFINE K == {i \in 1..k : f[i] # g[i]}
  <2>1. K \in SUBSET (1..k) /\ K # {}
    OBVIOUS
  <2>2. PICK l \in K : \A i \in K : l <= i
    <3> HIDE DEF K
    <3> QED
      BY <2>1, LeastExists
  <2>3. CASE l = 1
    <3>1. f[1] = seqs[1] /\ g[1] = seqs[1]
      BY <1>3
    <3> QED
      BY <2>2, <2>3, <3>1
  <2>4. CASE l # 1
    <3>1. l - 1 \in 1..k /\ l - 1 \notin K
      BY <2>2, <2>4
    <3>2. f[l - 1] = g[l - 1]
      BY <3>1
    <3>3. f[l] = f[l - 1] \o seqs[l] /\ g[l] = g[l - 1] \o seqs[l]
      BY <1>3, <2>2, <2>4
    <3> QED
      BY <2>2, <3>2, <3>3
  <2> QED
    BY <2>3, <2>4
<1> QED
  BY <1>2, <1>4

-----------------------------------------------------------------------------
(* Segments.  x holds, as its header says, x.len bytes of the stream from  *)
(* byte a on.                                                              *)
Holds(x, a) ==
  /\ x.seq \in SeqNo /\ At(x.seq, a)
  /\ x.len \in Nat /\ x.m \in Seq(Byte) /\ Len(x.m) = x.len
  /\ \A j \in 1..x.len : x.m[j] = a + j - 1

Sent == [seq : SeqNo, len : Nat, m : Seq(Byte), fin : BOOLEAN, tifin : BOOLEAN,
         acks : BOOLEAN, over : BOOLEAN]

InQueue == [seq : SeqNo, len : Nat, fin : BOOLEAN, m : Seq(Byte)]

LEMMA HoldsRest ==
  ASSUME NEW x, NEW a, Holds(x, a), NEW n \in 0..x.len,
         NEW y, y.seq = Unsigned(x.seq + n), y.len = x.len - n,
         y.m = SubSeq(x.m, n + 1, Len(x.m))
  PROVE  Holds(y, a + n)
<1>1. x.len \in Nat /\ x.m \in Seq(Byte) /\ Len(x.m) = x.len /\ a \in Int
  BY DEF Holds, At
<1>2. At(y.seq, a + n) /\ y.seq \in SeqNo
  <2>1. At(x.seq, a)
    BY DEF Holds
  <2>2. n \in Int
    BY <1>1
  <2>3. At(x.seq + n, a + n)
    BY <2>1, <2>2, AtPlus
  <2> QED
    BY <2>3, AtUnsigned
<1>3. y.m \in Seq(Byte) /\ Len(y.m) = y.len
  BY <1>1
<1>4. ASSUME NEW j \in 1..y.len PROVE y.m[j] = a + n + j - 1
  <2>1. y.m[j] = x.m[n + j]
    BY <1>1, <1>4
  <2>2. n + j \in 1..x.len
    BY <1>1, <1>4
  <2>3. x.m[n + j] = a + (n + j) - 1
    BY <2>2 DEF Holds
  <2> QED
    BY <1>1, <2>1, <2>3
<1>5. y.len \in Nat
  BY <1>1
<1> QED
  BY <1>2, <1>3, <1>4, <1>5 DEF Holds

(* A segment of the peer that loses its first n bytes.                     *)
LEMMA DropFrontSent ==
  ASSUME NEW x \in Sent, NEW a, Holds(x, a), NEW n \in 0..x.len
  PROVE  /\ DropFront(x, n) \in Sent /\ Holds(DropFront(x, n), a + n)
         /\ DropFront(x, n).len = x.len - n
         /\ DropFront(x, n).fin = x.fin /\ DropFront(x, n).tifin = x.tifin
         /\ DropFront(x, n).acks = x.acks /\ DropFront(x, n).over = x.over
<1>1. PICK u : u = Unsigned(x.seq + n)
  OBVIOUS
<1>2. PICK l : l = x.len - n
  OBVIOUS
<1>3. PICK v : v = SubSeq(x.m, n + 1, Len(x.m))
  OBVIOUS
<1>4. PICK y : y = DropFront(x, n)
  OBVIOUS
<1>5. y = [x EXCEPT !.seq = u, !.len = l, !.m = v]
  BY <1>1, <1>2, <1>3, <1>4 DEF DropFront
<1>6. y.seq = u /\ y.len = l /\ y.m = v
  BY <1>5 DEF Sent
<1>7. y.fin = x.fin /\ y.tifin = x.tifin /\ y.acks = x.acks /\ y.over = x.over
  BY <1>5 DEF Sent
<1>8. Holds(y, a + n)
  BY <1>1, <1>2, <1>3, <1>6, HoldsRest
<1>9. u \in SeqNo /\ l \in Nat /\ v \in Seq(Byte)
  BY <1>6, <1>8 DEF Holds
<1>10. y \in Sent
  BY <1>5, <1>9 DEF Sent
<1> QED
  BY <1>2, <1>4, <1>6, <1>7, <1>8, <1>10

(* One of the queue that does.                                             *)
LEMMA DropFrontQueued ==
  ASSUME NEW x \in InQueue, NEW a, Holds(x, a), NEW n \in 0..x.len
  PROVE  /\ DropFront(x, n) \in InQueue /\ Holds(DropFront(x, n), a + n)
         /\ DropFront(x, n).len = x.len - n /\ DropFront(x, n).fin = x.fin
<1>1. PICK u : u = Unsigned(x.seq + n)
  OBVIOUS
<1>2. PICK l : l = x.len - n
  OBVIOUS
<1>3. PICK v : v = SubSeq(x.m, n + 1, Len(x.m))
  OBVIOUS
<1>4. PICK y : y = DropFront(x, n)
  OBVIOUS
<1>5. y = [x EXCEPT !.seq = u, !.len = l, !.m = v]
  BY <1>1, <1>2, <1>3, <1>4 DEF DropFront
<1>6. y.seq = u /\ y.len = l /\ y.m = v /\ y.fin = x.fin
  BY <1>5 DEF InQueue
<1>7. Holds(y, a + n)
  BY <1>1, <1>2, <1>3, <1>6, HoldsRest
<1>8. u \in SeqNo /\ l \in Nat /\ v \in Seq(Byte)
  BY <1>6, <1>7 DEF Holds
<1>9. y \in InQueue
  BY <1>5, <1>8 DEF InQueue
<1> QED
  BY <1>2, <1>4, <1>6, <1>7, <1>9

(* The segment the peer sends with bytes a .. a + l - 1.                   *)
LEMMA SegmentIs ==
  ASSUME NEW a \in 1..(N + 2), NEW l \in Nat, l > 0 => a + l <= N + 1,
         NEW fin \in BOOLEAN, NEW acks \in BOOLEAN
  PROVE  /\ Segment(a, l, fin, acks) \in Sent /\ Holds(Segment(a, l, fin, acks), a)
         /\ Segment(a, l, fin, acks).len = l
         /\ Segment(a, l, fin, acks).fin = fin /\ Segment(a, l, fin, acks).tifin = fin
         /\ Segment(a, l, fin, acks).acks = acks
         /\ Segment(a, l, fin, acks).over = ~InWindow(a, l, fin)
<1>1. PICK u : u = SeqAt(a)
  OBVIOUS
<1>2. PICK v : v = [i \in 1..l |-> a + i - 1]
  OBVIOUS
<1>3. PICK o : o = ~InWindow(a, l, fin)
  OBVIOUS
<1>4. PICK s : s = Segment(a, l, fin, acks)
  OBVIOUS
<1>5. s = [seq |-> u, len |-> l, m |-> v, fin |-> fin, tifin |-> fin, acks |-> acks, over |-> o]
  BY <1>1, <1>2, <1>3, <1>4 DEF Segment
<1>6. a \in Int /\ N \in Nat
  BY Sizes
<1>7. u \in SeqNo /\ At(u, a)
  BY <1>1, <1>6, AtSeqAt
<1>8. v \in Seq(Byte) /\ Len(v) = l /\ \A j \in 1..l : v[j] = a + j - 1
  <2>1. \A i \in 1..l : a + i - 1 \in Byte
    BY <1>6 DEF Byte
  <2> QED
    BY <1>2, <2>1
<1>9. o \in BOOLEAN
  BY <1>3 DEF InWindow
<1>10. s \in Sent
  BY <1>5, <1>7, <1>8, <1>9 DEF Sent
<1>11. s.seq = u /\ s.len = l /\ s.m = v
  BY <1>5
<1>12. Holds(s, a)
  BY <1>7, <1>8, <1>11 DEF Holds
<1>13. s.fin = fin /\ s.tifin = fin /\ s.acks = acks /\ s.over = o
  BY <1>5
<1> QED
  BY <1>3, <1>4, <1>10, <1>11, <1>12, <1>13

-----------------------------------------------------------------------------
(* Queues.  low is where a segment of the queue may begin, limit where it  *)
(* may end; last says that a FIN is the end of the stream.                 *)
First(x) == Place(x.seq)
End(x) == First(x) + x.len

Held(x, low, limit, last) ==
  /\ x \in InQueue /\ First(x) \in 1..(N + 1) /\ Holds(x, First(x))
  /\ First(x) >= low /\ End(x) <= limit /\ End(x) <= N + 1
  /\ last /\ x.fin => End(x) = N + 1

QueueOk(q, low, limit, last) ==
  /\ q \in Seq(InQueue)
  /\ \A i \in 1..Len(q) : Held(q[i], low, limit, last)
  /\ \A i, j \in 1..Len(q) : i < j => End(q[i]) <= First(q[j])

LEMMA HeldNumbers ==
  ASSUME NEW x, NEW low, NEW limit, NEW last, Held(x, low, limit, last)
  PROVE  First(x) \in Int /\ x.len \in Nat /\ End(x) \in Int /\ First(x) <= End(x)
<1>1. First(x) \in Int /\ x.len \in Nat
  BY Sizes DEF Held, Holds
<1> QED
  BY <1>1 DEF End

LEMMA FirstIs ==
  ASSUME NEW x, NEW a \in 0..(N + 2), Holds(x, a)
  PROVE  First(x) = a /\ End(x) = a + x.len
<1>1. a \in SeqNo
  BY Sizes DEF SeqNo
<1>2. At(x.seq, a)
  BY DEF Holds
<1>3. First(x) = a
  BY <1>1, <1>2, PlaceIs DEF First
<1> QED
  BY <1>3 DEF End

(* How far x reaches into what begins at byte b.                           *)
LEMMA ReachIs ==
  ASSUME NEW x, NEW a \in 0..(N + 2), Holds(x, a), a + x.len <= N + 2,
         NEW y, NEW b \in 0..(N + sb_hiwat + 2), At(y, b)
  PROVE  Signed(EndOf(x) - y) = (a + x.len) - b
<1>1. x.len \in Nat /\ At(x.seq, a)
  BY DEF Holds
<1>2. At(EndOf(x), a + x.len)
  <2>1. x.len \in Int
    BY <1>1
  <2> QED
    BY <1>1, <2>1, AtPlus DEF EndOf
<1>3. 2 * ((a + x.len) - b) < SeqSpace /\ 0 - SeqSpace < 2 * ((a + x.len) - b)
  BY <1>1, Sizes
<1>4. Signed(EndOf(x) - y) = (a + x.len) - b
  BY <1>2, <1>3, AtDifference
<1> QED
  BY <1>4

LEMMA QueueParts ==
  ASSUME NEW q, NEW low, NEW limit, NEW last, QueueOk(q, low, limit, last),
         NEW m \in 0..Len(q), NEW n \in m..Len(q)
  PROVE  /\ QueueOk(SubSeq(q, m + 1, n), low, limit, last)
         /\ Len(SubSeq(q, m + 1, n)) = n - m
         /\ \A i \in 1..(n - m) : SubSeq(q, m + 1, n)[i] = q[m + i] /\ m + i \in 1..Len(q)
<1>1. q \in Seq(InQueue) /\ Len(q) \in Nat
  BY DEF QueueOk
<1>2. PICK r : r = SubSeq(q, m + 1, n)
  OBVIOUS
<1>3. r \in Seq(InQueue) /\ Len(r) = n - m
  BY <1>1, <1>2
<1>4. \A i \in 1..(n - m) : r[i] = q[m + i] /\ m + i \in 1..Len(q)
  BY <1>1, <1>2
<1>5. \A i \in 1..Len(r) : Held(r[i], low, limit, last)
  BY <1>3, <1>4 DEF QueueOk
<1>6. ASSUME NEW i \in 1..Len(r), NEW j \in 1..Len(r), i < j
      PROVE  End(r[i]) <= First(r[j])
  <2>1. m + i \in 1..Len(q) /\ m + j \in 1..Len(q) /\ m + i < m + j
    BY <1>1, <1>3, <1>4, <1>6
  <2>2. End(q[m + i]) <= First(q[m + j])
    BY <2>1 DEF QueueOk
  <2>3. i \in 1..(n - m) /\ j \in 1..(n - m)
    BY <1>3
  <2> QED
    BY <1>4, <2>2, <2>3
<1>7. QueueOk(r, low, limit, last)
  BY <1>3, <1>5, <1>6 DEF QueueOk
<1> QED
  BY <1>2, <1>3, <1>4, <1>7

LEMMA QueuesJoin ==
  ASSUME NEW q, NEW r, NEW low, NEW limit, NEW last,
         QueueOk(q, low, limit, last), QueueOk(r, low, limit, last),
         \A i \in 1..Len(q), j \in 1..Len(r) : End(q[i]) <= First(r[j])
  PROVE  /\ QueueOk(q \o r, low, limit, last)
         /\ Len(q \o r) = Len(q) + Len(r)
         /\ \A i \in 1..Len(q) : (q \o r)[i] = q[i]
         /\ \A j \in 1..Len(r) : (q \o r)[Len(q) + j] = r[j]
<1>1. q \in Seq(InQueue) /\ r \in Seq(InQueue) /\ Len(q) \in Nat /\ Len(r) \in Nat
  BY DEF QueueOk
<1>2. PICK s : s = q \o r
  OBVIOUS
<1>3. s \in Seq(InQueue) /\ Len(s) = Len(q) + Len(r)
  BY <1>1, <1>2
<1>4. \A i \in 1..Len(q) : s[i] = q[i]
  BY <1>1, <1>2
<1>5. \A j \in 1..Len(r) : s[Len(q) + j] = r[j]
  BY <1>1, <1>2
<1>6. \A i \in 1..Len(s) : i \in 1..Len(q) \/ (i - Len(q) \in 1..Len(r) /\ s[i] = r[i - Len(q)])
  <2> SUFFICES ASSUME NEW i \in 1..Len(s), i \notin 1..Len(q)
               PROVE  i - Len(q) \in 1..Len(r) /\ s[i] = r[i - Len(q)]
    OBVIOUS
  <2>1. i - Len(q) \in 1..Len(r) /\ i = Len(q) + (i - Len(q))
    BY <1>1, <1>3
  <2> QED
    BY <1>5, <2>1
<1>7. \A i \in 1..Len(s) : Held(s[i], low, limit, last)
  BY <1>4, <1>6 DEF QueueOk
<1>8. ASSUME NEW i \in 1..Len(s), NEW j \in 1..Len(s), i < j
      PROVE  End(s[i]) <= First(s[j])
  <2>1. CASE i \in 1..Len(q) /\ j \in 1..Len(q)
    BY <1>4, <1>8, <2>1 DEF QueueOk
  <2>2. CASE i \in 1..Len(q) /\ j \notin 1..Len(q)
    BY <1>4, <1>6, <2>2
  <2>3. CASE i \notin 1..Len(q) /\ j \notin 1..Len(q)
    <3>1. PICK g \in 1..Len(r) : g = i - Len(q) /\ s[i] = r[g]
      BY <1>6, <2>3
    <3>2. PICK h \in 1..Len(r) : h = j - Len(q) /\ s[j] = r[h]
      BY <1>6, <2>3
    <3>3. g < h
      BY <1>1, <1>3, <1>8, <3>1, <3>2
    <3> QED
      BY <3>1, <3>2, <3>3 DEF QueueOk
  <2>4. CASE i \notin 1..Len(q) /\ j \in 1..Len(q)
    BY <1>1, <1>3, <1>8, <2>4
  <2> QED
    BY <2>1, <2>2, <2>3, <2>4
<1>9. QueueOk(s, low, limit, last)
  BY <1>3, <1>7, <1>8 DEF QueueOk
<1> QED
  BY <1>2, <1>3, <1>4, <1>5, <1>9

LEMMA QueueOfOne ==
  ASSUME NEW x, NEW low, NEW limit, NEW last, Held(x, low, limit, last)
  PROVE  QueueOk(<<x>>, low, limit, last)
<1>1. PICK r : r = <<x>>
  OBVIOUS
<1>2. r \in Seq(InQueue) /\ Len(r) = 1 /\ r[1] = x
  BY <1>1 DEF Held
<1>3. \A i \in 1..Len(r) : i = 1
  BY <1>2
<1>4. \A i, j \in 1..Len(r) : ~(i < j)
  BY <1>2
<1>5. QueueOk(r, low, limit, last)
  BY <1>2, <1>3, <1>4 DEF QueueOk
<1> QED
  BY <1>1, <1>5

(* The same queue, asked for less.                                         *)
LEMMA QueueWeaker ==
  ASSUME NEW q, NEW low \in Int, NEW limit \in Int, NEW last \in BOOLEAN,
         QueueOk(q, low, limit, last),
         NEW low2 \in Int, NEW limit2 \in Int, NEW last2 \in BOOLEAN,
         limit <= limit2, last2 => last,
         \A i \in 1..Len(q) : First(q[i]) >= low2
  PROVE  QueueOk(q, low2, limit2, last2)
<1>1. ASSUME NEW i \in 1..Len(q) PROVE Held(q[i], low2, limit2, last2)
  <2>1. Held(q[i], low, limit, last)
    BY DEF QueueOk
  <2>2. First(q[i]) \in Int /\ End(q[i]) \in Int
    BY <2>1, HeldNumbers
  <2>3. End(q[i]) <= limit2 /\ First(q[i]) >= low2
    BY <2>1, <2>2 DEF Held
  <2> QED
    BY <2>1, <2>3 DEF Held
<1> QED
  BY <1>1 DEF QueueOk

-----------------------------------------------------------------------------
(* tcp_reass() puts a segment into the queue.                              *)

LEMMA AfterIs ==
  ASSUME NEW low, NEW limit, NEW last, NEW x, NEW y,
         Held(x, low, limit, last), Held(y, low, limit, last)
  PROVE  SEQ_GT(x.seq, y.seq) <=> First(x) > First(y)
<1>1. First(x) \in 1..(N + 1) /\ First(y) \in 1..(N + 1)
  BY DEF Held
<1>2. At(x.seq, First(x)) /\ At(y.seq, First(y))
  BY DEF Held, Holds
<1>3. 2 * (First(x) - First(y)) < SeqSpace /\ 0 - SeqSpace < 2 * (First(x) - First(y))
  BY <1>1, Sizes
<1>4. Signed(x.seq - y.seq) = First(x) - First(y)
  BY <1>2, <1>3, AtDifference
<1>5. First(x) \in Int /\ First(y) \in Int
  BY <1>1, Sizes
<1> QED
  BY <1>4, <1>5 DEF SEQ_GT

LEMMA HeldReach ==
  ASSUME NEW low, NEW limit, NEW last, NEW x, NEW y,
         Held(x, low, limit, last), Held(y, low, limit, last)
  PROVE  Signed(EndOf(x) - y.seq) = End(x) - First(y)
<1>1. First(x) \in 0..(N + 2) /\ First(y) \in 0..(N + sb_hiwat + 2)
  BY Sizes DEF Held
<1>2. First(x) + x.len <= N + 2
  <2>1. End(x) \in Int /\ End(x) <= N + 1
    BY HeldNumbers DEF Held
  <2> QED
    BY <2>1, Sizes DEF End
<1>3. Holds(x, First(x)) /\ At(y.seq, First(y))
  BY DEF Held, Holds
<1> QED
  BY <1>1, <1>2, <1>3, ReachIs DEF End

LEMMA PredecessorIs ==
  ASSUME NEW low, NEW limit, NEW last, QueueOk(segq, low, limit, last),
         NEW s, Held(s, low, limit, last)
  PROVE  /\ Predecessor(s) \in 0..Len(segq)
         /\ \A i \in 1..Predecessor(s) : First(segq[i]) <= First(s)
         /\ \A i \in (Predecessor(s) + 1)..Len(segq) : First(segq[i]) > First(s)
<1>1. Len(segq) \in Nat /\ DOMAIN segq = 1..Len(segq)
  BY DEF QueueOk
<1>2. PICK S : S = {j \in DOMAIN segq : ~SEQ_GT(segq[j].seq, s.seq)}
  OBVIOUS
<1>3. PICK p : p = Leading(S, Len(segq))
  OBVIOUS
<1>4. /\ p \in 0..Len(segq) /\ 1..p \subseteq S
      /\ p < Len(segq) => p + 1 \notin S
  BY <1>1, <1>3, LeadingIs
<1>5. \A i \in 1..Len(segq) : Held(segq[i], low, limit, last)
  BY DEF QueueOk
<1>6. \A i \in 1..Len(segq) : First(segq[i]) \in Int /\ First(s) \in Int
                              /\ First(segq[i]) <= End(segq[i]) /\ End(segq[i]) \in Int
  BY <1>5, HeldNumbers
<1>7. \A i \in 1..Len(segq) : i \in S <=> First(segq[i]) <= First(s)
  <2> SUFFICES ASSUME NEW i \in 1..Len(segq) PROVE i \in S <=> First(segq[i]) <= First(s)
    OBVIOUS
  <2>1. SEQ_GT(segq[i].seq, s.seq) <=> First(segq[i]) > First(s)
    BY <1>5, AfterIs
  <2>2. First(segq[i]) \in Int /\ First(s) \in Int
    BY <1>6
  <2> QED
    BY <1>1, <1>2, <2>1, <2>2
<1>8. \A i \in 1..p : First(segq[i]) <= First(s)
  BY <1>1, <1>4, <1>7
<1>9. ASSUME NEW i \in (p + 1)..Len(segq) PROVE First(segq[i]) > First(s)
  <2>1. p + 1 \in 1..Len(segq) /\ p < Len(segq) /\ i \in 1..Len(segq)
    BY <1>1, <1>4, <1>9
  <2>2. First(segq[p + 1]) > First(s)
    BY <1>4, <1>6, <1>7, <2>1
  <2>3. CASE i = p + 1
    BY <2>2, <2>3
  <2>4. CASE i > p + 1
    <3>1. End(segq[p + 1]) <= First(segq[i])
      BY <2>1, <2>4 DEF QueueOk
    <3> QED
      BY <1>6, <2>1, <2>2, <3>1
  <2> QED
    BY <1>1, <1>4, <2>3, <2>4
<1>10. p = Predecessor(s)
  BY <1>2, <1>3 DEF Predecessor
<1> QED
  BY <1>4, <1>8, <1>9, <1>10

LEMMA OverlapIs ==
  ASSUME NEW low, NEW limit, NEW last, QueueOk(segq, low, limit, last),
         NEW s, Held(s, low, limit, last)
  PROVE  /\ Overlap(s) \in Nat
         /\ \A i \in 1..Predecessor(s) : End(segq[i]) <= First(s) + Overlap(s)
<1>1. PICK p : p = Predecessor(s)
  OBVIOUS
<1>2. Len(segq) \in Nat
  BY DEF QueueOk
<1>3. p \in 0..Len(segq) /\ \A i \in 1..p : First(segq[i]) <= First(s)
  BY <1>1, PredecessorIs
<1>4. \A i \in 1..Len(segq) : First(segq[i]) \in Int /\ End(segq[i]) \in Int
  BY HeldNumbers DEF QueueOk
<1>5. First(s) \in Int
  BY HeldNumbers
<1>6. CASE p = 0
  <2>1. Overlap(s) = 0
    BY <1>1, <1>6 DEF Overlap
  <2> QED
    BY <1>1, <1>6, <2>1
<1>7. CASE p # 0
  <2>1. p \in 1..Len(segq)
    BY <1>2, <1>3, <1>7
  <2>2. Signed(EndOf(segq[p]) - s.seq) = End(segq[p]) - First(s)
    <3>1. Held(segq[p], low, limit, last)
      BY <2>1 DEF QueueOk
    <3> QED
      BY <3>1, HeldReach
  <2>3. Overlap(s) = Larger(0, End(segq[p]) - First(s))
    BY <1>1, <1>7, <2>2 DEF Overlap
  <2>4. Overlap(s) \in Nat /\ End(segq[p]) <= First(s) + Overlap(s)
    BY <1>4, <1>5, <2>1, <2>3 DEF Larger
  <2>5. ASSUME NEW i \in 1..p PROVE End(segq[i]) <= First(s) + Overlap(s)
    <3>1. i \in 1..Len(segq)
      BY <1>2, <1>3
    <3>2. CASE i = p
      BY <2>4, <3>2
    <3>3. CASE i # p
      <4>1. i < p
        BY <1>2, <1>3, <3>3
      <4>2. End(segq[i]) <= First(segq[p])
        BY <2>1, <3>1, <4>1 DEF QueueOk
      <4>3. First(segq[p]) <= First(s)
        BY <1>3, <2>1
      <4> QED
        BY <1>4, <1>5, <2>1, <2>4, <3>1, <4>2, <4>3
    <3> QED
      BY <3>2, <3>3
  <2> QED
    BY <1>1, <2>4, <2>5
<1> QED
  BY <1>6, <1>7

(* A segment of the queue that loses its beginning to what ends at e.      *)
LEMMA ShortenedHeld ==
  ASSUME NEW low \in Int, NEW limit \in Int, NEW last \in BOOLEAN, NEW x,
         Held(x, low, limit, last), NEW n \in Nat, n <= x.len,
         First(x) + n <= N + 1
  PROVE  /\ Held(DropFront(x, n), low, limit, last)
         /\ First(DropFront(x, n)) = First(x) + n
         /\ End(DropFront(x, n)) = End(x)
<1>1. PICK y : y = DropFront(x, n)
  OBVIOUS
<1>2. First(x) \in 1..(N + 1) /\ x.len \in Nat /\ First(x) \in Int
  BY HeldNumbers DEF Held
<1>3. /\ y \in InQueue /\ Holds(y, First(x) + n)
      /\ y.len = x.len - n /\ y.fin = x.fin
  BY <1>1, <1>2, DropFrontQueued DEF Held
<1>4. First(x) + n \in 1..(N + 1) /\ First(x) + n \in 0..(N + 2)
  BY <1>2, Sizes
<1>5. First(y) = First(x) + n /\ End(y) = (First(x) + n) + y.len
  BY <1>3, <1>4, FirstIs
<1>6. End(y) = End(x) /\ End(x) = First(x) + x.len
  BY <1>2, <1>3, <1>5 DEF End
<1>7. Holds(y, First(y))
  BY <1>3, <1>5
<1>8. First(y) >= low
  BY <1>2, <1>5 DEF Held
<1>9. Held(y, low, limit, last)
  BY <1>3, <1>4, <1>5, <1>6, <1>7, <1>8 DEF Held
<1> QED
  BY <1>1, <1>5, <1>6, <1>9

LEMMA SuccessorsOk ==
  ASSUME NEW low \in Int, NEW limit \in Int, NEW last \in BOOLEAN,
         NEW q, QueueOk(q, low, limit, last), NEW x, Held(x, low, limit, last)
  PROVE  /\ QueueOk(Successors(x, q), low, limit, last)
         /\ \A j \in 1..Len(Successors(x, q)) : End(x) <= First(Successors(x, q)[j])
<1>1. Len(q) \in Nat /\ DOMAIN q = 1..Len(q) /\ q \in Seq(InQueue)
  BY DEF QueueOk
<1>2. PICK S : S = {j \in DOMAIN q : Reach(x, q[j]) > 0 /\ Reach(x, q[j]) >= q[j].len}
  OBVIOUS
<1>3. PICK n : n = CoveredAtFront(x, q)
  OBVIOUS
<1>4. n = Leading(S, Len(q))
  BY <1>2, <1>3 DEF CoveredAtFront
<1>5. n \in 0..Len(q) /\ (n < Len(q) => n + 1 \notin S)
  BY <1>1, <1>4, LeadingIs
<1>6. \A i \in 1..Len(q) : Held(q[i], low, limit, last)
  BY DEF QueueOk
<1>7. \A i \in 1..Len(q) : /\ First(q[i]) \in Int /\ End(q[i]) \in Int /\ q[i].len \in Nat
                           /\ End(q[i]) = First(q[i]) + q[i].len
  BY <1>6, HeldNumbers DEF End
<1>8. End(x) \in Int /\ End(x) <= N + 1 /\ First(x) \in Int
  BY HeldNumbers DEF Held
<1>9. \A i \in 1..Len(q) : Reach(x, q[i]) = End(x) - First(q[i])
  BY <1>6, HeldReach DEF Reach
<1>10. PICK r : r = Successors(x, q)
  OBVIOUS
<1>11. r = [j \in 1..(Len(q) - n) |->
              IF j = 1 /\ Reach(x, q[n + 1]) > 0 THEN DropFront(q[n + 1], Reach(x, q[n + 1]))
              ELSE q[n + j]]
  BY <1>3, <1>10 DEF Successors
<1>12. Len(q) - n \in Nat /\ DOMAIN r = 1..(Len(q) - n)
  BY <1>1, <1>5, <1>11
<1>13. \A j \in 1..(Len(q) - n) : n + j \in 1..Len(q) /\ j \in Nat
  BY <1>1, <1>5
(* The first of them is cut to begin where x ends, the others are kept.    *)
<1>14. ASSUME Len(q) - n > 0
       PROVE  /\ Held(r[1], low, limit, last) /\ End(r[1]) = End(q[n + 1])
              /\ End(x) <= First(r[1]) /\ End(x) <= End(q[n + 1])
  <2>1. n + 1 \in 1..Len(q) /\ n < Len(q) /\ 1 \in 1..(Len(q) - n)
    BY <1>1, <1>5, <1>14
  <2>2. ~(Reach(x, q[n + 1]) > 0 /\ Reach(x, q[n + 1]) >= q[n + 1].len)
    BY <1>1, <1>2, <1>5, <2>1
  <2>3. PICK b \in Int : b = Reach(x, q[n + 1]) /\ b = End(x) - First(q[n + 1])
    <3>1. Reach(x, q[n + 1]) = End(x) - First(q[n + 1])
      BY <1>9, <2>1
    <3>2. End(x) - First(q[n + 1]) \in Int
      BY <1>7, <1>8, <2>1
    <3> QED
      BY <3>1, <3>2
  <2>4. CASE b > 0
    <3>1. r[1] = DropFront(q[n + 1], b)
      BY <1>11, <2>1, <2>3, <2>4
    <3>2. b \in Nat /\ b <= q[n + 1].len
      BY <1>7, <2>1, <2>2, <2>3, <2>4
    <3>3. First(q[n + 1]) + b = End(x)
      BY <1>7, <1>8, <2>1, <2>3
    <3>4. Held(q[n + 1], low, limit, last)
      BY <1>6, <2>1
    <3>5. First(q[n + 1]) + b <= N + 1
      BY <1>8, <3>3
    <3>6. /\ Held(r[1], low, limit, last) /\ First(r[1]) = First(q[n + 1]) + b
          /\ End(r[1]) = End(q[n + 1])
      BY <3>1, <3>2, <3>4, <3>5, ShortenedHeld
    <3>7. End(x) <= First(r[1])
      BY <1>8, <3>3, <3>6
    <3>8. End(x) <= End(q[n + 1])
      BY <1>7, <1>8, <2>1, <3>2, <3>3
    <3> QED
      BY <3>6, <3>7, <3>8
  <2>5. CASE ~(b > 0)
    <3>1. r[1] = q[n + 1]
      BY <1>11, <2>1, <2>3, <2>5
    <3>2. End(x) <= First(q[n + 1]) /\ End(x) <= End(q[n + 1])
      BY <1>7, <1>8, <2>1, <2>3, <2>5
    <3> QED
      BY <1>6, <2>1, <3>1, <3>2
  <2> QED
    BY <2>4, <2>5
<1>15. \A j \in 2..(Len(q) - n) : r[j] = q[n + j] /\ j \in 1..(Len(q) - n)
  BY <1>11, <1>12
<1>16. \A j \in 1..(Len(q) - n) : Held(r[j], low, limit, last) /\ End(r[j]) = End(q[n + j])
  <2> SUFFICES ASSUME NEW j \in 1..(Len(q) - n)
               PROVE  Held(r[j], low, limit, last) /\ End(r[j]) = End(q[n + j])
    OBVIOUS
  <2>1. CASE j = 1
    BY <1>12, <1>14, <2>1
  <2>2. CASE j # 1
    <3>1. j \in 2..(Len(q) - n)
      BY <1>12, <2>2
    <3> QED
      BY <1>6, <1>13, <1>15, <3>1
  <2> QED
    BY <2>1, <2>2
<1>17. r \in Seq(InQueue) /\ Len(r) = Len(q) - n
  <2>1. \A j \in 1..(Len(q) - n) : r[j] \in InQueue
    BY <1>16 DEF Held
  <2> QED
    BY <1>11, <1>12, <2>1
<1>18. \A j \in 1..Len(r) : End(x) <= First(r[j])
  <2> SUFFICES ASSUME NEW j \in 1..(Len(q) - n) PROVE End(x) <= First(r[j])
    BY <1>17
  <2>1. CASE j = 1
    BY <1>12, <1>14, <2>1
  <2>2. CASE j # 1
    <3>1. j \in 2..(Len(q) - n) /\ n + 1 < n + j /\ Len(q) - n > 0
      BY <1>5, <1>12, <2>2
    <3>2. n + 1 \in 1..Len(q) /\ n + j \in 1..Len(q)
      BY <1>1, <1>5, <1>13, <3>1
    <3>3. End(q[n + 1]) <= First(q[n + j])
      BY <3>1, <3>2 DEF QueueOk
    <3>4. r[j] = q[n + j]
      BY <1>15, <3>1
    <3> QED
      BY <1>7, <1>8, <1>14, <3>1, <3>2, <3>3, <3>4
  <2> QED
    BY <2>1, <2>2
<1>19. ASSUME NEW i \in 1..Len(r), NEW j \in 1..Len(r), i < j
       PROVE  End(r[i]) <= First(r[j])
  <2>1. i \in 1..(Len(q) - n) /\ j \in 2..(Len(q) - n) /\ n + i < n + j
    BY <1>5, <1>12, <1>17, <1>19
  <2>2. n + i \in 1..Len(q) /\ n + j \in 1..Len(q)
    BY <1>13, <1>15, <2>1
  <2>3. End(q[n + i]) <= First(q[n + j])
    BY <2>1, <2>2 DEF QueueOk
  <2>4. r[j] = q[n + j] /\ End(r[i]) = End(q[n + i])
    BY <1>15, <1>16, <2>1
  <2> QED
    BY <2>3, <2>4
<1>20. QueueOk(r, low, limit, last)
  BY <1>16, <1>17, <1>19 DEF QueueOk
<1> QED
  BY <1>10, <1>18, <1>20

LEMMA InsertOk ==
  ASSUME NEW low \in Int, NEW limit \in Int, NEW last \in BOOLEAN,
         QueueOk(segq, low, limit, last),
         NEW s, Held(s, low, limit, last), ~CoveredByPredecessor(s)
  PROVE  QueueOk(InsertSegment(s), low, limit, last)
<1>1. PICK p : p = Predecessor(s)
  OBVIOUS
<1>2. PICK o : o = Overlap(s)
  OBVIOUS
<1>3. Len(segq) \in Nat
  BY DEF QueueOk
<1>4. p \in 0..Len(segq)
  BY <1>1, PredecessorIs
<1>5. o \in Nat /\ \A i \in 1..p : End(segq[i]) <= First(s) + o
  BY <1>1, <1>2, OverlapIs
<1>6. First(s) \in Int /\ s.len \in Nat /\ End(s) = First(s) + s.len /\ End(s) <= N + 1
  BY HeldNumbers DEF Held, End
<1>7. o <= s.len
  BY <1>2, <1>5, <1>6 DEF CoveredByPredecessor
<1>8. First(s) + o <= N + 1
  BY <1>5, <1>6, <1>7, Sizes
<1>9. PICK x : x = DropFront(s, o)
  OBVIOUS
<1>10. Held(x, low, limit, last) /\ First(x) = First(s) + o
  BY <1>5, <1>7, <1>8, <1>9, ShortenedHeld
<1>11. PICK b : b = SubSeq(segq, 1, p)
  OBVIOUS
<1>12. /\ QueueOk(b, low, limit, last) /\ Len(b) = p
       /\ \A i \in 1..p : b[i] = segq[i]
  <2>1. 0 \in 0..Len(segq) /\ p \in 0..Len(segq) /\ 0 + 1 = 1 /\ p - 0 = p
    BY <1>3, <1>4
  <2>2. \A i \in 1..p : 0 + i = i
    BY <1>4
  <2> QED
    BY <1>11, <2>1, <2>2, QueueParts
<1>13. PICK t : t = SubSeq(segq, p + 1, Len(segq))
  OBVIOUS
<1>14. QueueOk(t, low, limit, last)
  <2>1. Len(segq) \in p..Len(segq)
    BY <1>3, <1>4
  <2> QED
    BY <1>4, <1>13, <2>1, QueueParts
<1>15. PICK r : r = Successors(x, t)
  OBVIOUS
<1>16. /\ QueueOk(r, low, limit, last)
       /\ \A j \in 1..Len(r) : End(x) <= First(r[j])
  BY <1>10, <1>14, <1>15, SuccessorsOk
<1>17. InsertSegment(s) = b \o <<x>> \o r
  BY <1>1, <1>2, <1>9, <1>11, <1>13, <1>15 DEF InsertSegment
<1>18. PICK c : c = b \o <<x>>
  OBVIOUS
<1>19. \A i \in 1..Len(b) : End(b[i]) <= First(x)
  BY <1>5, <1>10, <1>12
<1>20. /\ QueueOk(c, low, limit, last) /\ Len(c) = p + 1
       /\ \A i \in 1..p : c[i] = b[i]
       /\ c[p + 1] = x
  <2>1. PICK y : y = <<x>>
    OBVIOUS
  <2>2. Len(y) = 1 /\ y[1] = x
    BY <2>1
  <2>3. QueueOk(y, low, limit, last)
    BY <1>10, <2>1, QueueOfOne
  <2>4. \A i \in 1..Len(b), j \in 1..Len(y) : End(b[i]) <= First(y[j])
    BY <1>19, <2>2
  <2> QED
    BY <1>12, <1>18, <2>1, <2>2, <2>3, <2>4, QueuesJoin
<1>21. ASSUME NEW i \in 1..Len(c), NEW j \in 1..Len(r) PROVE End(c[i]) <= First(r[j])
  <2>1. End(x) <= First(r[j]) /\ End(x) \in Int /\ First(x) \in Int /\ First(x) <= End(x)
    BY <1>10, <1>16, HeldNumbers
  <2>2. CASE i = p + 1
    BY <1>20, <2>1, <2>2
  <2>3. CASE i # p + 1
    <3>1. i \in 1..p
      BY <1>4, <1>20, <2>3
    <3>2. End(c[i]) <= First(x)
      BY <1>12, <1>19, <1>20, <3>1
    <3>3. End(c[i]) \in Int /\ First(r[j]) \in Int
      BY <1>16, <1>20, HeldNumbers DEF QueueOk
    <3> QED
      BY <2>1, <3>2, <3>3
  <2> QED
    BY <2>2, <2>3
<1>22. QueueOk(c \o r, low, limit, last)
  BY <1>16, <1>20, <1>21, QueuesJoin
<1> QED
  BY <1>17, <1>18, <1>22

-----------------------------------------------------------------------------
(* What tcp_reass() presents.                                              *)

(* Segments 1 .. k of the queue are in sequence from byte n on.            *)
InRow(q, k, n) ==
  \A j \in 1..k : First(q[j]) = IF j = 1 THEN n ELSE End(q[j - 1])

LEMMA PresentableIs ==
  ASSUME rcv_nxt \in SeqNo, NEW n \in 1..(N + 2), n = Place(rcv_nxt),
         NEW low, NEW limit, NEW last, NEW q, QueueOk(q, low, limit, last)
  PROVE  /\ Presentable(q) \in 0..Len(q)
         /\ InRow(q, Presentable(q), n)
         /\ Presentable(q) < Len(q) =>
              First(q[Presentable(q) + 1]) #
                IF Presentable(q) = 0 THEN n ELSE End(q[Presentable(q)])
<1>1. Len(q) \in Nat /\ DOMAIN q = 1..Len(q)
  BY DEF QueueOk
<1>2. PICK S : S = {j \in DOMAIN q :
                      q[j].seq = IF j = 1 THEN rcv_nxt ELSE Unsigned(EndOf(q[j - 1]))}
  OBVIOUS
<1>3. PICK k : k = Presentable(q)
  OBVIOUS
<1>4. k = Leading(S, Len(q))
  BY <1>2, <1>3 DEF Presentable
<1>5. k \in 0..Len(q) /\ 1..k \subseteq S /\ (k < Len(q) => k + 1 \notin S)
  BY <1>1, <1>4, LeadingIs
<1>6. \A i \in 1..Len(q) : Held(q[i], low, limit, last)
  BY DEF QueueOk
<1>7. ASSUME NEW i \in 1..Len(q), NEW y \in SeqNo, NEW b \in 0..(N + 2), At(y, b)
      PROVE  q[i].seq = y <=> First(q[i]) = b
  <2>1. q[i].seq \in SeqNo /\ At(q[i].seq, First(q[i])) /\ First(q[i]) \in 1..(N + 1)
    BY <1>6 DEF Held, Holds
  <2>2. PICK f \in 1..(N + 1) : f = First(q[i])
    BY <2>1
  <2>3. f - b < SeqSpace /\ 0 - SeqSpace < f - b
    BY <2>2, Sizes
  <2> QED
    BY <1>7, <2>1, <2>2, <2>3, SamePlace
<1>8. ASSUME NEW j \in 1..Len(q)
      PROVE  j \in S <=> First(q[j]) = IF j = 1 THEN n ELSE End(q[j - 1])
  <2>1. CASE j = 1
    <3>1. j \in S <=> q[j].seq = rcv_nxt
      BY <1>1, <1>2, <2>1
    <3>2. At(rcv_nxt, n) /\ n \in 0..(N + 2)
      BY AtPlace
    <3>3. q[j].seq = rcv_nxt <=> First(q[j]) = n
      BY <1>7, <3>2
    <3> QED
      BY <2>1, <3>1, <3>3
  <2>2. CASE j # 1
    <3>1. j - 1 \in 1..Len(q)
      BY <1>1, <2>2
    <3>2. PICK x : x = q[j - 1]
      OBVIOUS
    <3>3. Held(x, low, limit, last) /\ x.len \in Nat /\ First(x) \in Int /\ End(x) \in Int
      BY <1>6, <3>1, <3>2, HeldNumbers
    <3>4. At(x.seq, First(x)) /\ First(x) \in 1..(N + 1) /\ End(x) <= N + 1
      BY <3>3 DEF Held, Holds
    <3>5. At(EndOf(x), End(x))
      <4>1. x.len \in Int
        BY <3>3
      <4>2. At(x.seq + x.len, First(x) + x.len)
        BY <3>4, <4>1, AtPlus
      <4> QED
        BY <4>2 DEF EndOf, End
    <3>6. At(Unsigned(EndOf(x)), End(x)) /\ Unsigned(EndOf(x)) \in SeqNo
      BY <3>5, AtUnsigned
    <3>7. End(x) \in 0..(N + 2)
      BY <3>3, <3>4, HeldNumbers, Sizes
    <3>8. j \in S <=> q[j].seq = Unsigned(EndOf(x))
      BY <1>1, <1>2, <2>2, <3>2
    <3> QED
      BY <1>7, <2>2, <3>2, <3>6, <3>7, <3>8
  <2> QED
    BY <2>1, <2>2
<1>9. InRow(q, k, n)
  <2>1. \A j \in 1..k : j \in 1..Len(q) /\ j \in S
    BY <1>1, <1>5
  <2> QED
    BY <1>8, <2>1 DEF InRow
<1>10. ASSUME k < Len(q)
       PROVE  First(q[k + 1]) # IF k = 0 THEN n ELSE End(q[k])
  <2>1. k + 1 \in 1..Len(q) /\ k + 1 \notin S /\ (k + 1) - 1 = k /\ (k + 1 = 1 <=> k = 0)
    BY <1>1, <1>5, <1>10
  <2>2. First(q[k + 1]) # IF k + 1 = 1 THEN n ELSE End(q[(k + 1) - 1])
    BY <1>8, <2>1
  <2> QED
    BY <2>1, <2>2
<1> QED
  BY <1>3, <1>5, <1>9, <1>10

(* Bytes n .. e - 1.                                                       *)
Bytes(n, e) == [j \in 1..(e - n) |-> n + j - 1]

LEMMA BytesOf ==
  ASSUME NEW x, NEW a \in Int, Holds(x, a)
  PROVE  x.m = Bytes(a, a + x.len)
<1>1. x.m \in Seq(Byte) /\ Len(x.m) = x.len /\ x.len \in Nat
  BY DEF Holds
<1>2. (a + x.len) - a = x.len
  BY <1>1
<1>3. DOMAIN x.m = 1..x.len
  BY <1>1
<1>4. \A j \in 1..x.len : x.m[j] = a + j - 1
  BY DEF Holds
<1>5. x.m = [j \in 1..x.len |-> x.m[j]]
  BY <1>1, <1>3
<1> QED
  BY <1>2, <1>4, <1>5 DEF Bytes

LEMMA BytesJoin ==
  ASSUME NEW a \in Int, NEW b \in Int, NEW c \in Int, a <= b, b <= c
  PROVE  Bytes(a, b) \o Bytes(b, c) = Bytes(a, c)
<1>1. PICK f : f = Bytes(a, b)
  OBVIOUS
<1>2. PICK g : g = Bytes(b, c)
  OBVIOUS
<1>3. b - a \in Nat /\ c - b \in Nat /\ c - a \in Nat /\ (b - a) + (c - b) = c - a
  OBVIOUS
<1>4. f \in Seq(Int) /\ Len(f) = b - a /\ \A j \in 1..(b - a) : f[j] = a + j - 1
  BY <1>1, <1>3 DEF Bytes
<1>5. g \in Seq(Int) /\ Len(g) = c - b /\ \A j \in 1..(c - b) : g[j] = b + j - 1
  BY <1>2, <1>3 DEF Bytes
<1>6. PICK h : h = f \o g
  OBVIOUS
<1>7. h \in Seq(Int) /\ Len(h) = c - a
  <2>1. f \in Seq(Int) /\ g \in Seq(Int)
    BY <1>4, <1>5
  <2>2. h \in Seq(Int) /\ Len(h) = Len(f) + Len(g)
    BY ONLY <1>6, <2>1
  <2>3. Len(f) = b - a /\ Len(g) = c - b
    BY <1>4, <1>5
  <2> QED
    BY ONLY <1>3, <2>2, <2>3
<1>8. \A j \in 1..(c - a) : h[j] = a + j - 1
  <2> SUFFICES ASSUME NEW j \in 1..(c - a) PROVE h[j] = a + j - 1
    OBVIOUS
  <2>1. CASE j <= b - a
    <3>1. h[j] = f[j] /\ j \in 1..(b - a)
      BY <1>3, <1>4, <1>5, <1>6, <2>1
    <3> QED
      BY <1>4, <3>1
  <2>2. CASE j > b - a
    <3>1. h[j] = g[j - (b - a)] /\ j - (b - a) \in 1..(c - b)
      BY <1>3, <1>4, <1>5, <1>6, <2>2
    <3>2. g[j - (b - a)] = b + (j - (b - a)) - 1
      BY <1>5, <3>1
    <3> QED
      BY <3>1, <3>2
  <2> QED
    BY <2>1, <2>2
<1>9. h = [j \in 1..(c - a) |-> h[j]]
  BY <1>3, <1>7
<1> QED
  BY <1>1, <1>2, <1>6, <1>8, <1>9 DEF Bytes

(* Segments in a row make the bytes up to the end of the last.             *)
LEMMA DataIs ==
  ASSUME NEW low, NEW limit, NEW last, NEW q, QueueOk(q, low, limit, last),
         NEW n \in Int, NEW k \in 1..Len(q), InRow(q, k, n)
  PROVE  /\ FlattenSeq([j \in 1..k |-> q[j].m]) = Bytes(n, End(q[k]))
         /\ n <= End(q[k])
<1>1. Len(q) \in Nat
  BY DEF QueueOk
<1>2. \A i \in 1..Len(q) : Held(q[i], low, limit, last)
  BY DEF QueueOk
<1>3. \A i \in 1..Len(q) : /\ First(q[i]) \in Int /\ End(q[i]) \in Int
                           /\ First(q[i]) <= End(q[i]) /\ q[i].len \in Nat
                           /\ q[i].m = Bytes(First(q[i]), End(q[i]))
  <2> SUFFICES ASSUME NEW i \in 1..Len(q)
               PROVE  /\ First(q[i]) \in Int /\ End(q[i]) \in Int
                      /\ First(q[i]) <= End(q[i]) /\ q[i].len \in Nat
                      /\ q[i].m = Bytes(First(q[i]), End(q[i]))
    OBVIOUS
  <2>1. PICK x : x = q[i]
    OBVIOUS
  <2>2. /\ First(x) \in Int /\ End(x) \in Int /\ First(x) <= End(x) /\ x.len \in Nat
        /\ Holds(x, First(x))
    BY <1>2, <2>1, HeldNumbers DEF Held
  <2>3. x.m = Bytes(First(x), End(x))
    BY <2>2, BytesOf DEF End
  <2> QED
    BY <2>1, <2>2, <2>3
<1>4. \A i \in 1..k : i \in 1..Len(q)
  BY <1>1
<1>5. First(q[1]) = n /\ 1 \in 1..k
  BY <1>1 DEF InRow
<1>6. \A i \in 1..k : n <= End(q[i])
  <2> SUFFICES ASSUME NEW i \in 1..k PROVE n <= End(q[i])
    OBVIOUS
  <2>1. CASE i = 1
    BY <1>3, <1>4, <1>5, <2>1
  <2>2. CASE i # 1
    <3>1. End(q[1]) <= First(q[i])
      BY <1>4, <1>5, <2>2 DEF QueueOk
    <3> QED
      BY <1>3, <1>4, <1>5, <3>1
  <2> QED
    BY <2>1, <2>2
<1>7. PICK d : d = [j \in 1..k |-> q[j].m]
  OBVIOUS
<1>8. PICK g : g = [i \in 1..k |-> Bytes(n, End(q[i]))]
  OBVIOUS
<1>9. k \in Nat \ {0} /\ DOMAIN d = 1..k /\ Len(d) = k
  BY <1>1, <1>7
<1>10. \A i \in 1..k : g[i] = IF i = 1 THEN d[i] ELSE g[i - 1] \o d[i]
  <2> SUFFICES ASSUME NEW i \in 1..k
               PROVE  g[i] = IF i = 1 THEN d[i] ELSE g[i - 1] \o d[i]
    OBVIOUS
  <2>1. CASE i = 1
    BY <1>3, <1>4, <1>5, <1>7, <1>8, <2>1
  <2>2. CASE i # 1
    <3>1. i - 1 \in 1..k
      BY <1>9, <2>2
    <3>2. First(q[i]) = End(q[i - 1])
      BY <2>2 DEF InRow
    <3>3. d[i] = Bytes(End(q[i - 1]), End(q[i]))
      BY <1>3, <1>4, <1>7, <3>2
    <3>4. g[i - 1] = Bytes(n, End(q[i - 1])) /\ g[i] = Bytes(n, End(q[i]))
      BY <1>8, <3>1
    <3>5. /\ End(q[i - 1]) \in Int /\ End(q[i]) \in Int
          /\ n <= End(q[i - 1]) /\ End(q[i - 1]) <= End(q[i])
      BY <1>3, <1>4, <1>6, <3>1, <3>2
    <3>6. Bytes(n, End(q[i - 1])) \o Bytes(End(q[i - 1]), End(q[i])) = Bytes(n, End(q[i]))
      BY <3>5, BytesJoin
    <3> QED
      BY <2>2, <3>3, <3>4, <3>6
  <2> QED
    BY <2>1, <2>2
<1>11. g = [i \in 1..k |-> IF i = 1 THEN d[i] ELSE g[i - 1] \o d[i]]
  BY <1>8, <1>10
<1>12. FlattenSeq(d) = g[k]
  BY <1>9, <1>11, FlattenIs
<1>13. k \in 1..k
  BY <1>9
<1> QED
  BY <1>6, <1>7, <1>8, <1>12, <1>13

-----------------------------------------------------------------------------
(* What becomes of the text of a segment when the next byte expected is n. *)

LowEnd(n) == IF cantrcvmore THEN 1 ELSE n

Outcome(r, n, limit, last) ==
  /\ r.nxt \in SeqNo /\ Place(r.nxt) \in n..(N + 2) /\ r.fin \in BOOLEAN
  /\ r.fin \/ Place(r.nxt) # n => Place(r.nxt) <= N + 1 /\ Place(r.nxt) <= limit
  /\ r.fin /\ last => Place(r.nxt) = N + 1
  /\ r.data = IF cantrcvmore THEN <<>> ELSE Bytes(n, Place(r.nxt))
  /\ QueueOk(r.q, IF cantrcvmore \/ r.fin THEN 1 ELSE Place(r.nxt) + 1, limit, last)

LEMMA NoBytes ==
  ASSUME NEW n \in Int
  PROVE  Bytes(n, n) = <<>>
<1>1. n - n = 0
  OBVIOUS
<1> QED
  BY <1>1 DEF Bytes

(* Nothing is taken.                                                       *)
LEMMA NothingOutcome ==
  ASSUME rcv_nxt \in SeqNo, NEW n \in 1..(N + 2), n = Place(rcv_nxt),
         NEW limit \in Int, NEW last \in BOOLEAN,
         QueueOk(segq, IF cantrcvmore THEN 1 ELSE n + 1, limit, last),
         NEW r, r = [nxt |-> rcv_nxt, q |-> segq, data |-> <<>>, fin |-> FALSE]
  PROVE  Outcome(r, n, limit, last)
<1>1. r.nxt = rcv_nxt /\ r.q = segq /\ r.data = <<>> /\ r.fin = FALSE
  OBVIOUS
<1>2. n \in n..(N + 2) /\ n \in Int
  BY Sizes
<1>3. Bytes(n, n) = <<>>
  BY <1>2, NoBytes
<1> QED
  BY <1>1, <1>2, <1>3 DEF Outcome

LEMMA PresentOk ==
  ASSUME rcv_nxt \in SeqNo, NEW n \in 1..(N + 2), n = Place(rcv_nxt),
         cantrcvmore \in BOOLEAN,
         NEW limit \in Int, NEW last \in BOOLEAN,
         NEW q, QueueOk(q, LowEnd(n), limit, last)
  PROVE  Outcome(Present(q), n, limit, last)
<1>1. Len(q) \in Nat /\ q \in Seq(InQueue)
  BY DEF QueueOk
<1>2. n \in Int /\ LowEnd(n) \in Int /\ N \in Nat
  BY Sizes DEF LowEnd
<1>3. PICK k : k = Presentable(q)
  OBVIOUS
<1>4. /\ k \in 0..Len(q) /\ InRow(q, k, n)
      /\ k < Len(q) => First(q[k + 1]) # IF k = 0 THEN n ELSE End(q[k])
  BY <1>3, PresentableIs
<1>5. \A i \in 1..Len(q) : Held(q[i], LowEnd(n), limit, last)
  BY DEF QueueOk
<1>6. \A i \in 1..Len(q) : First(q[i]) \in Int /\ End(q[i]) \in Int /\ First(q[i]) <= End(q[i])
  BY <1>5, HeldNumbers
<1>7. PICK x : x = IF k = 0 THEN rcv_nxt ELSE Unsigned(EndOf(q[k]))
  OBVIOUS
<1>8. PICK e : e = IF k = 0 THEN n ELSE End(q[k])
  OBVIOUS
<1>9. PICK t : t = SubSeq(q, k + 1, Len(q))
  OBVIOUS
<1>10. PICK d : d = Appended(FlattenSeq([j \in 1..k |-> q[j].m]))
  OBVIOUS
<1>11. PICK f : f = FinReached(q, k)
  OBVIOUS
<1>12. Present(q) = [nxt |-> x, q |-> t, data |-> d, fin |-> f]
  BY <1>3, <1>7, <1>9, <1>10, <1>11 DEF Present
<1>13. PICK r : r = Present(q)
  OBVIOUS
<1>14. r.nxt = x /\ r.q = t /\ r.data = d /\ r.fin = f
  BY <1>12, <1>13
(* Where the bytes presented end.                                          *)
<1>15. x \in SeqNo /\ Place(x) = e /\ e \in n..(N + 2) /\ e \in Int
  <2>1. CASE k = 0
    BY <1>2, <1>7, <1>8, <2>1
  <2>2. CASE k # 0
    <3>1. k \in 1..Len(q)
      BY <1>1, <1>4, <2>2
    <3>2. PICK y : y = q[k]
      OBVIOUS
    <3>3. Held(y, LowEnd(n), limit, last) /\ End(y) \in Int /\ y.len \in Int
      BY <1>5, <3>1, <3>2, HeldNumbers
    <3>4. At(y.seq, First(y)) /\ End(y) <= N + 1
      BY <3>3 DEF Held, Holds
    <3>5. At(y.seq + y.len, First(y) + y.len)
      BY <3>3, <3>4, AtPlus
    <3>6. At(x, e) /\ x \in SeqNo
      BY <1>7, <1>8, <2>2, <3>2, <3>5, AtUnsigned DEF EndOf, End
    <3>7. n <= e
      BY <1>2, <1>4, <1>8, <2>2, <3>1, DataIs
    <3>8. e \in n..(N + 2) /\ e \in SeqNo /\ e \in Int
      BY <1>2, <1>8, <2>2, <3>2, <3>3, <3>4, <3>7, Sizes DEF SeqNo
    <3> QED
      BY <3>6, <3>8, PlaceIs
  <2> QED
    BY <2>1, <2>2
<1>16. ASSUME k # 0
       PROVE  k \in 1..Len(q) /\ e = End(q[k]) /\ e <= N + 1 /\ e <= limit /\ (f /\ last => e = N + 1)
  <2>1. k \in 1..Len(q)
    BY <1>1, <1>4, <1>16
  <2>2. Held(q[k], LowEnd(n), limit, last)
    BY <1>5, <2>1
  <2>3. e = End(q[k])
    BY <1>8, <1>16
  <2> QED
    BY <1>11, <2>1, <2>2, <2>3 DEF Held, FinReached
<1>17. f \in BOOLEAN /\ (f => k # 0)
  <2>1. k \in Nat
    BY <1>1, <1>4
  <2>2. CASE k = 0
    <3>1. ~(k > 0)
      BY <2>2
    <3>2. f = FALSE
      BY <1>11, <3>1, Zenon DEF FinReached
    <3> QED
      BY <3>2
  <2>3. CASE k # 0
    <3>1. q[k].fin \in BOOLEAN
      BY <1>5, <1>16, <2>3 DEF Held, InQueue
    <3> QED
      BY <1>11, <2>1, <2>3, <3>1 DEF FinReached
  <2> QED
    BY <2>2, <2>3
<1>18. f \/ e # n => e <= N + 1 /\ e <= limit
  BY <1>8, <1>16, <1>17
<1>19. f /\ last => e = N + 1
  BY <1>16, <1>17
<1>20. d = IF cantrcvmore THEN <<>> ELSE Bytes(n, e)
  <2>1. CASE k = 0
    <3>1. PICK z : z = [j \in 1..k |-> q[j].m]
      OBVIOUS
    <3>2. z = <<>> /\ Len(z) = 0
      BY <2>1, <3>1
    <3>3. FlattenSeq(z) = <<>>
      BY <3>2 DEF FlattenSeq
    <3>4. Bytes(n, e) = <<>>
      BY <1>2, <1>8, <2>1, NoBytes
    <3> QED
      BY <1>10, <3>1, <3>3, <3>4 DEF Appended
  <2>2. CASE k # 0
    <3>1. k \in 1..Len(q) /\ e = End(q[k])
      BY <1>16, <2>2
    <3>2. FlattenSeq([j \in 1..k |-> q[j].m]) = Bytes(n, e)
      BY <1>2, <1>4, <3>1, DataIs
    <3> QED
      BY <1>10, <3>2 DEF Appended
  <2> QED
    BY <2>1, <2>2
(* What stays queued begins later.                                         *)
<1>21. /\ QueueOk(t, LowEnd(n), limit, last) /\ Len(t) = Len(q) - k
       /\ \A i \in 1..(Len(q) - k) : t[i] = q[k + i] /\ k + i \in 1..Len(q)
  <2>1. Len(q) \in k..Len(q)
    BY <1>1, <1>4
  <2> QED
    BY <1>4, <1>9, <2>1, QueueParts
<1>22. ASSUME ~cantrcvmore, NEW i \in 1..Len(t) PROVE First(t[i]) >= e + 1
  <2>1. k < Len(q) /\ i \in 1..(Len(q) - k) /\ i \in Nat /\ k \in Nat
    BY <1>1, <1>4, <1>21, <1>22
  <2>2. t[i] = q[k + i] /\ k + i \in 1..Len(q) /\ k + 1 \in 1..Len(q)
    BY <1>1, <1>21, <2>1
  <2>3. First(q[k + 1]) # e
    BY <1>4, <1>8, <2>1
  <2>4. First(q[k + 1]) >= e
    <3>1. CASE k = 0
      <4>1. First(q[k + 1]) >= n
        BY <1>5, <1>22, <2>2 DEF Held, LowEnd
      <4> QED
        BY <1>8, <3>1, <4>1
    <3>2. CASE k # 0
      <4>1. k \in 1..Len(q) /\ e = End(q[k]) /\ k < k + 1
        BY <1>16, <2>1, <3>2
      <4>2. End(q[k]) <= First(q[k + 1])
        BY <2>2, <4>1 DEF QueueOk
      <4> QED
        BY <1>6, <2>2, <4>1, <4>2
    <3> QED
      BY <3>1, <3>2
  <2>5. First(q[k + 1]) >= e + 1
    BY <1>6, <1>15, <2>2, <2>3, <2>4
  <2>6. CASE i = 1
    BY <2>2, <2>5, <2>6
  <2>7. CASE i # 1
    <3>1. k + 1 < k + i
      BY <2>1, <2>7
    <3>2. End(q[k + 1]) <= First(q[k + i])
      BY <2>2, <3>1 DEF QueueOk
    <3> QED
      BY <1>6, <1>15, <2>2, <2>5, <3>2
  <2> QED
    BY <2>6, <2>7
<1>23. QueueOk(t, IF cantrcvmore \/ f THEN 1 ELSE e + 1, limit, last)
  <2>1. CASE cantrcvmore \/ f
    <3>1. \A i \in 1..Len(t) : First(t[i]) >= 1
      <4> SUFFICES ASSUME NEW i \in 1..Len(t) PROVE First(t[i]) >= 1
        OBVIOUS
      <4>1. First(t[i]) \in 1..(N + 1)
        BY <1>21 DEF QueueOk, Held
      <4> QED
        BY <1>2, <4>1
    <3>2. QueueOk(t, 1, limit, last)
      <4>1. 1 \in Int /\ limit <= limit
        OBVIOUS
      <4> QED
        BY <1>2, <1>21, <3>1, <4>1, QueueWeaker
    <3> QED
      BY <2>1, <3>2
  <2>2. CASE ~(cantrcvmore \/ f)
    <3>1. \A i \in 1..Len(t) : First(t[i]) >= e + 1
      BY <1>22, <2>2
    <3>2. e + 1 \in Int /\ limit <= limit
      BY <1>15
    <3>3. QueueOk(t, e + 1, limit, last)
      BY <1>2, <1>21, <3>1, <3>2, QueueWeaker
    <3> QED
      BY <2>2, <3>3
  <2> QED
    BY <2>1, <2>2
<1>24. Outcome(r, n, limit, last)
  BY <1>14, <1>15, <1>17, <1>18, <1>19, <1>20, <1>23 DEF Outcome
<1> QED
  BY <1>13, <1>24

(* A segment trimmed to the window: its text begins at a.                  *)
Arriving(t, a, n, limit, last) ==
  /\ t \in Sent /\ Holds(t, a) /\ a \in 1..(N + 2)
  /\ t.len > 0 \/ t.tifin =>
       /\ a >= n /\ a + t.len <= N + 1 /\ a + t.len <= limit
       /\ t.fin /\ last => a + t.len = N + 1

LEMMA QueuedIs ==
  ASSUME NEW t \in Sent
  PROVE  /\ Queued(t) \in InQueue
         /\ Queued(t).seq = t.seq /\ Queued(t).len = t.len
         /\ Queued(t).fin = t.fin /\ Queued(t).m = t.m
<1>1. PICK u : u = t.seq
  OBVIOUS
<1>2. PICK l : l = t.len
  OBVIOUS
<1>3. PICK f : f = t.fin
  OBVIOUS
<1>4. PICK v : v = t.m
  OBVIOUS
<1>5. PICK y : y = Queued(t)
  OBVIOUS
<1>6. y = [seq |-> u, len |-> l, fin |-> f, m |-> v]
  BY <1>1, <1>2, <1>3, <1>4, <1>5 DEF Queued
<1>7. u \in SeqNo /\ l \in Nat /\ f \in BOOLEAN /\ v \in Seq(Byte)
  BY <1>1, <1>2, <1>3, <1>4 DEF Sent
<1>8. y \in InQueue
  BY <1>6, <1>7 DEF InQueue
<1>9. y.seq = u /\ y.len = l /\ y.fin = f /\ y.m = v
  BY <1>6
<1> QED
  BY <1>1, <1>2, <1>3, <1>4, <1>5, <1>8, <1>9

LEMMA ReassOk ==
  ASSUME rcv_nxt \in SeqNo, NEW n \in 1..(N + 2), n = Place(rcv_nxt),
         cantrcvmore \in BOOLEAN, NEW limit \in Int, NEW last \in BOOLEAN,
         QueueOk(segq, IF cantrcvmore THEN 1 ELSE n + 1, limit, last),
         NEW t, NEW a, Arriving(t, a, n, limit, last), t.len > 0 \/ t.tifin
  PROVE  Outcome(tcp_reass(t), n, limit, last)
<1>1. /\ t \in Sent /\ Holds(t, a) /\ a \in 1..(N + 2) /\ t.len \in Nat
      /\ a >= n /\ a + t.len <= N + 1 /\ a + t.len <= limit
      /\ t.fin /\ last => a + t.len = N + 1
  BY DEF Arriving, Holds
<1>2. PICK y : y = Queued(t)
  OBVIOUS
<1>3. y \in InQueue /\ y.seq = t.seq /\ y.len = t.len /\ y.fin = t.fin /\ y.m = t.m
  BY <1>1, <1>2, QueuedIs
<1>4. Holds(y, a)
  BY <1>1, <1>3 DEF Holds
<1>5. First(y) = a /\ End(y) = a + t.len
  <2>1. a \in 0..(N + 2)
    BY <1>1, Sizes
  <2> QED
    BY <1>3, <1>4, <2>1, FirstIs
<1>6. a \in 1..(N + 1) /\ a >= LowEnd(n)
  BY <1>1, Sizes DEF LowEnd
<1>7. Held(y, LowEnd(n), limit, last)
  BY <1>1, <1>3, <1>4, <1>5, <1>6 DEF Held
<1>8. LowEnd(n) \in Int
  BY Sizes DEF LowEnd
<1>9. QueueOk(segq, LowEnd(n), limit, last)
  <2>1. PICK h \in Int : h = IF cantrcvmore THEN 1 ELSE n + 1
    BY Sizes
  <2>2. \A i \in 1..Len(segq) : First(segq[i]) \in Int /\ First(segq[i]) >= h
    BY <2>1, HeldNumbers DEF QueueOk, Held
  <2>3. h >= LowEnd(n)
    BY <2>1, Sizes DEF LowEnd
  <2>4. \A i \in 1..Len(segq) : First(segq[i]) >= LowEnd(n)
    BY <1>8, <2>2, <2>3
  <2>5. limit <= limit
    OBVIOUS
  <2> QED
    BY <1>8, <2>1, <2>4, <2>5, QueueWeaker
<1>10. CASE CoveredByPredecessor(t)
  <2>1. tcp_reass(t) = [nxt |-> rcv_nxt, q |-> segq, data |-> <<>>, fin |-> FALSE]
    BY <1>10 DEF tcp_reass
  <2> QED
    BY <2>1, NothingOutcome
<1>11. CASE ~CoveredByPredecessor(t)
  <2>1. ~CoveredByPredecessor(y)
    BY <1>3, <1>11 DEF CoveredByPredecessor, Overlap, Predecessor
  <2>2. QueueOk(InsertSegment(y), LowEnd(n), limit, last)
    BY <1>7, <1>8, <1>9, <2>1, InsertOk
  <2>3. tcp_reass(t) = Present(InsertSegment(y))
    BY <1>2, <1>11 DEF tcp_reass
  <2> QED
    BY <2>2, <2>3, PresentOk
<1> QED
  BY <1>10, <1>11

(* TCP_REASS appends at once what is in sequence.                          *)
LEMMA InSequenceOutcome ==
  ASSUME rcv_nxt \in SeqNo, NEW n \in 1..(N + 2), n = Place(rcv_nxt),
         ~cantrcvmore, NEW limit \in Int, NEW last \in BOOLEAN, segq = <<>>,
         NEW t, Arriving(t, n, n, limit, last), t.len > 0 \/ t.tifin
  PROVE  Outcome([nxt |-> Unsigned(rcv_nxt + t.len), q |-> segq, data |-> t.m, fin |-> t.fin],
                 n, limit, last)
<1>1. /\ t \in Sent /\ Holds(t, n) /\ t.len \in Nat
      /\ n + t.len <= N + 1 /\ n + t.len <= limit
      /\ t.fin /\ last => n + t.len = N + 1
  BY DEF Arriving, Holds
<1>2. PICK x : x = Unsigned(rcv_nxt + t.len)
  OBVIOUS
<1>3. PICK v : v = t.m
  OBVIOUS
<1>4. PICK f : f = t.fin
  OBVIOUS
<1>5. f \in BOOLEAN
  BY <1>1, <1>4 DEF Sent
<1>6. PICK r : r = [nxt |-> x, q |-> segq, data |-> v, fin |-> f]
  OBVIOUS
<1>7. r.nxt = x /\ r.q = segq /\ r.data = v /\ r.fin = f
  BY <1>6
<1>8. PICK e \in Int : e = n + t.len
  BY <1>1, Sizes
<1>9. At(x, e) /\ x \in SeqNo
  <2>1. At(rcv_nxt, n) /\ t.len \in Int
    BY <1>1, AtPlace
  <2>2. At(rcv_nxt + t.len, n + t.len)
    BY <2>1, AtPlus
  <2> QED
    BY <1>2, <1>8, <2>2, AtUnsigned
<1>10. e \in n..(N + 2) /\ e \in SeqNo /\ e <= N + 1 /\ e <= limit
  BY <1>1, <1>8, Sizes DEF SeqNo
<1>11. Place(x) = e
  BY <1>9, <1>10, PlaceIs
<1>12. v = Bytes(n, e)
  BY <1>1, <1>3, <1>8, BytesOf
<1>13. QueueOk(segq, IF cantrcvmore \/ f THEN 1 ELSE e + 1, limit, last)
  <2>1. segq \in Seq(InQueue) /\ 1..Len(segq) = {}
    OBVIOUS
  <2> QED
    BY <2>1 DEF QueueOk
<1>14. Outcome(r, n, limit, last)
  BY <1>1, <1>4, <1>5, <1>7, <1>8, <1>9, <1>10, <1>11, <1>12, <1>13 DEF Outcome
<1> QED
  BY <1>2, <1>3, <1>4, <1>6, <1>14

LEMMA ReceivedOk ==
  ASSUME rcv_nxt \in SeqNo, NEW n \in 1..(N + 2), n = Place(rcv_nxt),
         cantrcvmore \in BOOLEAN, NEW limit \in Int, NEW last \in BOOLEAN,
         t_state = "ESTABLISHED" => ~cantrcvmore,
         QueueOk(segq, IF cantrcvmore THEN 1 ELSE n + 1, limit, last),
         NEW t, NEW a, Arriving(t, a, n, limit, last)
  PROVE  Outcome(Received(t), n, limit, last)
<1>1. CASE ~HasText(t)
  <2>1. Received(t) = [nxt |-> rcv_nxt, q |-> segq, data |-> <<>>, fin |-> FALSE]
    BY <1>1 DEF Received
  <2> QED
    BY <2>1, NothingOutcome
<1>2. CASE HasText(t) /\ InSequence(t)
  <2>1. Received(t) = [nxt |-> Unsigned(rcv_nxt + t.len), q |-> segq, data |-> t.m, fin |-> t.fin]
    BY <1>2 DEF Received, TCP_REASS
  <2>2. ~cantrcvmore /\ segq = <<>> /\ t.seq = rcv_nxt /\ (t.len > 0 \/ t.tifin)
    BY <1>2 DEF InSequence, HasText
  <2>3. a = n
    <3>1. a \in 0..(N + 2) /\ Holds(t, a)
      BY Sizes DEF Arriving
    <3>2. First(t) = a
      BY <3>1, FirstIs
    <3> QED
      BY <2>2, <3>2 DEF First
  <2> QED
    BY <2>1, <2>2, <2>3, InSequenceOutcome
<1>3. CASE HasText(t) /\ ~InSequence(t)
  <2>1. Received(t) = tcp_reass(t)
    BY <1>3 DEF Received, TCP_REASS
  <2>2. t.len > 0 \/ t.tifin
    BY <1>3 DEF HasText
  <2> QED
    BY <2>1, <2>2, ReassOk
<1> QED
  BY <1>1, <1>2, <1>3

-----------------------------------------------------------------------------
(* The windows tcp_output() promises and tcp_input() accepts.              *)

LEMMA OutputOk ==
  ASSUME rcv_adv \in SeqNo, NEW e \in 1..(N + sb_hiwat + 2), e = Place(rcv_adv),
         NEW nxt \in SeqNo, NEW n \in 1..(N + 2), n = Place(nxt),
         NEW cc \in 0..sb_hiwat, NEW owed \in BOOLEAN, NEW delayed \in BOOLEAN, NEW forced,
         tcp_output(nxt, cc, owed, delayed, forced)
  PROVE  /\ rcv_adv' \in SeqNo /\ acknow' \in BOOLEAN /\ delack' \in BOOLEAN
         /\ \/ Place(rcv_adv') = e
            \/ Place(rcv_adv') = n + (sb_hiwat - cc) /\ e < n + (sb_hiwat - cc)
<1>1. N \in Nat /\ sb_hiwat \in Nat /\ e \in Int /\ n \in Int /\ cc \in Int /\ SeqSpace \in Nat
  BY Sizes
<1>2. At(rcv_adv, e) /\ At(nxt, n)
  BY AtPlace
<1>3. \/ rcv_adv' = NewEdge(nxt, Advertised(nxt, cc)) /\ acknow' = FALSE /\ delack' = FALSE
      \/ rcv_adv' = rcv_adv /\ acknow' = owed /\ delack' = delayed
  BY DEF tcp_output
<1>4. CASE rcv_adv' = rcv_adv /\ acknow' = owed /\ delack' = delayed
  BY <1>4
<1>5. CASE rcv_adv' = NewEdge(nxt, Advertised(nxt, cc)) /\ acknow' = FALSE /\ delack' = FALSE
  <2>1. Signed(rcv_adv - nxt) = e - n
    <3>1. 2 * (e - n) < SeqSpace /\ 0 - SeqSpace < 2 * (e - n)
      BY <1>1, Sizes
    <3> QED
      BY <1>2, <3>1, AtDifference
  <2>2. PICK avoided \in {0, sb_hiwat - cc} : Advertised(nxt, cc) = Larger(avoided, e - n)
    BY <2>1 DEF Advertised
  <2>3. PICK w \in Int : w = Advertised(nxt, cc) /\ w \in {0, sb_hiwat - cc, e - n}
    BY <1>1, <2>2 DEF Larger
  <2>4. CASE ~(w > 0 /\ SEQ_GT(nxt + w, rcv_adv))
    <3>1. rcv_adv' = rcv_adv
      BY <1>5, <2>3, <2>4 DEF NewEdge
    <3> QED
      BY <1>5, <3>1
  <2>5. CASE w > 0 /\ SEQ_GT(nxt + w, rcv_adv)
    <3>1. rcv_adv' = Unsigned(nxt + w)
      BY <1>5, <2>3, <2>5 DEF NewEdge
    <3>2. At(nxt + w, n + w)
      BY <1>2, AtPlus
    <3>3. n + w \in 1..(N + sb_hiwat + 2)
      BY <1>1, <2>3, <2>5
    <3>4. 2 * ((n + w) - e) < SeqSpace /\ 0 - SeqSpace < 2 * ((n + w) - e)
      BY <1>1, <3>3, Sizes
    <3>5. Signed((nxt + w) - rcv_adv) = (n + w) - e
      BY <1>2, <3>2, <3>4, AtDifference
    <3>6. e < n + w
      BY <1>1, <2>5, <3>5 DEF SEQ_GT
    <3>7. w = sb_hiwat - cc
      BY <1>1, <2>3, <2>5, <3>6
    <3>8. At(rcv_adv', n + w) /\ rcv_adv' \in SeqNo
      BY <3>1, <3>2, AtUnsigned
    <3>9. Place(rcv_adv') = n + w
      <4>1. n + w \in SeqNo
        BY <1>1, <3>3, Sizes DEF SeqNo
      <4> QED
        BY <3>8, <4>1, PlaceIs
    <3> QED
      BY <1>5, <3>6, <3>7, <3>8, <3>9
  <2> QED
    BY <2>4, <2>5
<1> QED
  BY <1>3, <1>4, <1>5

(* Where the window ends: where the buffer is full, or, after the peer has *)
(* gone past it with one byte or a FIN, where it was.                      *)
LEMMA WindowIs ==
  ASSUME rcv_adv \in SeqNo, NEW e \in 1..(N + sb_hiwat + 2), e = Place(rcv_adv),
         rcv_nxt \in SeqNo, NEW n \in 1..(N + 2), n = Place(rcv_nxt),
         sb_cc \in 0..sb_hiwat, sb_cc + (e - n) <= sb_hiwat
  PROVE  \E limit \in e..(N + sb_hiwat + 2) :
           /\ At(rcv_nxt + RcvWnd, limit) /\ limit <= n + (sb_hiwat - sb_cc)
           /\ RcvWnd = 0 => limit = n
<1>1. N \in Nat /\ sb_hiwat \in Nat /\ e \in Int /\ n \in Int /\ sb_cc \in Int /\ SeqSpace \in Nat
  BY Sizes
<1>2. At(rcv_adv, e) /\ At(rcv_nxt, n)
  BY AtPlace
<1>3. PICK sp \in Nat : sp = sb_hiwat - sb_cc
  BY <1>1
<1>4. Unsigned(Larger(sbspace, 0)) = sp
  <2>1. sbspace = sp /\ Larger(sp, 0) = sp
    BY <1>3 DEF sbspace, Larger
  <2>2. SeqSpace * 0 = 0
    BY <1>1
  <2>3. sp \in SeqNo /\ sp = sp + SeqSpace * 0
    BY <1>1, <1>3, <2>2, Sizes DEF SeqNo
  <2> QED
    BY <2>1, <2>3, UnsignedUnique
<1>5. PICK u : u = Unsigned(rcv_adv - rcv_nxt)
  OBVIOUS
<1>6. PICK w : w = RcvWnd
  OBVIOUS
<1>7. w = Larger(sp, u)
  BY <1>4, <1>5, <1>6 DEF RcvWnd
<1>8. CASE e >= n
  <2>1. e - n \in SeqNo
    BY <1>1, <1>8, Sizes DEF SeqNo
  <2>2. u = e - n
    BY <1>2, <1>5, <2>1, AtUnsignedDifference
  <2>3. w = sp /\ w \in Int
    BY <1>1, <1>3, <1>7, <2>2 DEF Larger
  <2>4. At(rcv_nxt + w, n + w)
    BY <1>2, <2>3, AtPlus
  <2>5. n + w \in e..(N + sb_hiwat + 2) /\ n + w <= n + (sb_hiwat - sb_cc) /\ (w = 0 => n + w = n)
    BY <1>1, <1>3, <2>3
  <2> QED
    BY <1>6, <2>4, <2>5
<1>9. CASE e < n
  <2>1. At(rcv_adv, e + SeqSpace)
    BY <1>2, AtPlusSpace
  <2>2. (e + SeqSpace) - n \in SeqNo
    BY <1>1, <1>9, Sizes DEF SeqNo
  <2>3. u = (e + SeqSpace) - n
    BY <1>2, <1>5, <2>1, <2>2, AtUnsignedDifference
  <2>4. sp < u /\ u \in Int
    BY <1>1, <1>3, <2>3, Sizes
  <2>5. w = u /\ w \in Int /\ w # 0
    BY <1>3, <1>7, <2>4 DEF Larger
  <2>6. PICK h \in Int : h = n + w
    BY <1>1, <2>5
  <2>7. At(rcv_nxt + w, h)
    BY <1>2, <2>5, <2>6, AtPlus
  <2>8. At(rcv_nxt + w, h - SeqSpace)
    BY <2>7, AtPlusSpace
  <2>9. h - SeqSpace = e
    BY <1>1, <2>3, <2>5, <2>6
  <2>10. e \in e..(N + sb_hiwat + 2) /\ e <= n + (sb_hiwat - sb_cc)
    BY <1>1, <1>3, <1>9
  <2> QED
    BY <1>6, <2>5, <2>8, <2>9, <2>10
<1> QED
  BY <1>1, <1>8, <1>9

-----------------------------------------------------------------------------
(* tcp_input() trims a segment to the window.                              *)

LEMMA TrimFrontIs ==
  ASSUME rcv_nxt \in SeqNo, NEW n \in 1..(N + 2), n = Place(rcv_nxt),
         NEW s \in Sent, NEW f \in 1..(N + 2), Holds(s, f), f + s.len <= N + 2
  PROVE  \E a \in 1..(N + 2) :
           /\ TrimFront(s) \in Sent /\ Holds(TrimFront(s), a)
           /\ a + TrimFront(s).len = f + s.len /\ TrimFront(s).len <= s.len
           /\ TrimFront(s).fin = s.fin /\ (TrimFront(s).tifin => s.tifin)
           /\ TrimFront(s).over = s.over
           /\ TrimFront(s).len > 0 \/ TrimFront(s).tifin => a >= n
<1>1. N \in Nat /\ f \in Int /\ n \in Int /\ s.len \in Nat /\ SeqSpace \in Nat
  BY Sizes DEF Holds
<1>2. At(s.seq, f) /\ At(rcv_nxt, n)
  BY AtPlace DEF Holds
<1>3. PICK d \in Int : d = n - f
  BY <1>1
<1>4. Signed(rcv_nxt - s.seq) = d
  <2>1. 2 * (n - f) < SeqSpace /\ 0 - SeqSpace < 2 * (n - f)
    BY <1>1, Sizes
  <2> QED
    BY <1>2, <1>3, <2>1, AtDifference
<1>5. CASE d <= 0
  <2>1. TrimFront(s) = s
    BY <1>4, <1>5 DEF TrimFront
  <2>2. f >= n /\ s.len <= s.len
    BY <1>1, <1>3, <1>5
  <2> QED
    BY <2>1, <2>2
<1>6. CASE d > 0
  <2>1. PICK c : c = Lesser(d, s.len)
    OBVIOUS
  <2>2. c \in 0..s.len /\ (d < s.len => c = d) /\ (~(d < s.len) => c = s.len)
    BY <1>1, <1>6, <2>1 DEF Lesser
  <2>3. PICK x : x = DropFront(s, c)
    OBVIOUS
  <2>4. /\ x \in Sent /\ Holds(x, f + c) /\ x.len = s.len - c
        /\ x.fin = s.fin /\ x.tifin = s.tifin /\ x.over = s.over
    BY <2>2, <2>3, DropFrontSent
  <2>5. PICK b \in BOOLEAN : b = (x.tifin /\ d < s.len)
    OBVIOUS
  <2>6. PICK y : y = TrimFront(s)
    OBVIOUS
  <2>7. y = [x EXCEPT !.tifin = b]
    BY <1>4, <1>6, <2>1, <2>3, <2>5, <2>6 DEF TrimFront
  <2>8. /\ y \in Sent /\ y.seq = x.seq /\ y.len = x.len /\ y.m = x.m
        /\ y.fin = x.fin /\ y.over = x.over /\ y.tifin = b
    BY <2>4, <2>5, <2>7 DEF Sent
  <2>9. Holds(y, f + c)
    BY <2>4, <2>8 DEF Holds
  <2>10. f + c \in 1..(N + 2) /\ (f + c) + y.len = f + s.len /\ y.len <= s.len
    BY <1>1, <2>2, <2>4, <2>8
  <2>11. y.len > 0 \/ y.tifin => f + c >= n
    <3>1. ASSUME ~(d < s.len) PROVE ~(y.len > 0) /\ ~y.tifin
      <4>1. y.len = 0
        BY <1>1, <2>2, <2>4, <2>8, <3>1
      <4>2. b = FALSE
        BY <2>5, <3>1, Zenon
      <4> QED
        BY <2>8, <4>1, <4>2
    <3> QED
      BY <1>1, <1>3, <2>2, <3>1
  <2>12. y.tifin => s.tifin
    BY <2>4, <2>5, <2>8
  <2> QED
    BY <2>4, <2>6, <2>8, <2>9, <2>10, <2>11, <2>12
<1> QED
  BY <1>5, <1>6

LEMMA TrimBackIs ==
  ASSUME rcv_nxt \in SeqNo, NEW n \in 1..(N + 2), n = Place(rcv_nxt),
         NEW limit \in 1..(N + sb_hiwat + 2), At(rcv_nxt + RcvWnd, limit),
         RcvWnd = 0 => limit = n,
         NEW t \in Sent, NEW a \in 1..(N + 2), Holds(t, a), a + t.len <= N + 2,
         NothingInWindow(t) => ProbesClosedWindow(t)
  PROVE  /\ TrimBack(t) \in Sent /\ Holds(TrimBack(t), a)
         /\ TrimBack(t).fin = t.fin /\ TrimBack(t).over = t.over
         /\ a + TrimBack(t).len <= limit /\ TrimBack(t).len <= t.len
         /\ TrimBack(t) # t => a + t.len > limit /\ ~TrimBack(t).tifin
<1>1. N \in Nat /\ a \in Int /\ n \in Int /\ limit \in Int /\ t.len \in Nat
  BY Sizes DEF Holds
<1>2. PICK b \in Int : b = (a + t.len) - limit
  BY <1>1
<1>3. Beyond(t) = b
  <2>1. a \in 0..(N + 2) /\ limit \in 0..(N + sb_hiwat + 2)
    BY <1>1, Sizes
  <2> QED
    BY <1>2, <2>1, ReachIs DEF Beyond
<1>4. CASE b <= 0
  <2>1. TrimBack(t) = t
    BY <1>3, <1>4 DEF TrimBack
  <2>2. a + t.len <= limit /\ t.len <= t.len
    BY <1>1, <1>2, <1>4
  <2> QED
    BY <2>1, <2>2
<1>5. CASE b > 0
  <2>1. b <= t.len
    <3>1. CASE b >= t.len
      <4>1. RcvWnd = 0 /\ t.seq = rcv_nxt
        BY <1>3, <1>5, <3>1 DEF NothingInWindow, ProbesClosedWindow
      <4>2. a = n
        <5>1. a \in 0..(N + 2)
          BY <1>1, Sizes
        <5>2. First(t) = a
          BY <5>1, FirstIs
        <5> QED
          BY <4>1, <5>2 DEF First
      <4>3. limit = n
        BY <4>1
      <4> QED
        BY <1>1, <1>2, <4>2, <4>3
    <3>2. CASE b < t.len
      BY <1>1, <3>2
    <3> QED
      BY <1>1, <3>1, <3>2
  <2>2. PICK l \in Nat : l = t.len - b
    BY <1>1, <2>1
  <2>3. PICK v : v = SubSeq(t.m, 1, l)
    OBVIOUS
  <2>4. PICK y : y = TrimBack(t)
    OBVIOUS
  <2>5. y = [t EXCEPT !.len = l, !.m = v, !.tifin = FALSE]
    BY <1>3, <1>5, <2>2, <2>3, <2>4 DEF TrimBack
  <2>6. t.m \in Seq(Byte) /\ Len(t.m) = t.len /\ l <= t.len
    BY <1>1, <1>5, <2>2 DEF Holds
  <2>7. v \in Seq(Byte) /\ Len(v) = l
    <3>1. PICK m \in Seq(Byte) : m = t.m
      BY <2>6
    <3>2. l \in 0..Len(m)
      BY <1>1, <2>2, <2>6, <3>1
    <3>3. SubSeq(m, 1, l) \in Seq(Byte) /\ Len(SubSeq(m, 1, l)) = l
      BY ONLY <3>2, m \in Seq(Byte)
    <3> QED
      BY <2>3, <3>1, <3>3
  <2>8. \A j \in 1..l : v[j] = a + j - 1
    <3> SUFFICES ASSUME NEW j \in 1..l PROVE v[j] = a + j - 1
      OBVIOUS
    <3>1. v[j] = t.m[j] /\ j \in 1..t.len
      BY <1>1, <2>2, <2>3, <2>6
    <3> QED
      BY <3>1 DEF Holds
  <2>9. y \in Sent
    BY <2>2, <2>5, <2>7 DEF Sent
  <2>10. /\ y.seq = t.seq /\ y.len = l /\ y.m = v
         /\ y.fin = t.fin /\ y.over = t.over /\ y.tifin = FALSE
    BY <2>5 DEF Sent
  <2>11. Holds(y, a)
    BY <2>2, <2>7, <2>8, <2>10 DEF Holds
  <2>12. a + l <= limit /\ a + t.len > limit
    BY <1>1, <1>2, <1>5, <2>2
  <2> QED
    BY <2>4, <2>6, <2>9, <2>10, <2>11, <2>12
<1> QED
  BY <1>4, <1>5

(* A segment of the peer, trimmed.  If a FIN is not where the stream ends, *)
(* the peer sent past its window.                                          *)
LEMMA TrimmedOk ==
  ASSUME NEW e, Edge = e, rcv_nxt \in SeqNo, NEW n \in 1..(N + 2), n = Place(rcv_nxt),
         NEW limit \in 1..(N + sb_hiwat + 2), At(rcv_nxt + RcvWnd, limit),
         RcvWnd = 0 => limit = n, e \in Int, e <= limit, NEW last \in BOOLEAN,
         NEW f \in 1..(N + 2), NEW l \in Nat, l > 0 => f + l <= N + 1,
         NEW fin \in BOOLEAN, fin => f + l = N + 1, NEW acks \in BOOLEAN,
         NEW s, s = Segment(f, l, fin, acks), Acceptable(s), last => ~s.over
  PROVE  \E a : Arriving(Trimmed(s), a, n, limit, last)
<1>1. N \in Nat /\ f \in Int /\ n \in Int /\ limit \in Int
  BY Sizes
<1>2. /\ s \in Sent /\ Holds(s, f) /\ s.len = l /\ s.fin = fin /\ s.tifin = fin
      /\ s.over = ~InWindow(f, l, fin)
  BY SegmentIs
<1>3. f + s.len <= N + 2
  BY <1>1, <1>2
<1>4. PICK t : t = TrimFront(s)
  OBVIOUS
<1>5. PICK a \in 1..(N + 2) :
        /\ t \in Sent /\ Holds(t, a) /\ a + t.len = f + l /\ t.len <= l
        /\ t.fin = fin /\ (t.tifin => fin) /\ t.over = s.over
        /\ t.len > 0 \/ t.tifin => a >= n
  BY <1>2, <1>3, <1>4, TrimFrontIs
<1>6. PICK y : y = TrimBack(t)
  OBVIOUS
<1>7. a + t.len <= N + 2
  BY <1>2, <1>3, <1>5
<1>8. NothingInWindow(t) => ProbesClosedWindow(t)
  BY <1>4 DEF Acceptable
<1>9. /\ y \in Sent /\ Holds(y, a) /\ y.fin = t.fin /\ y.over = t.over
      /\ a + y.len <= limit /\ y.len <= t.len
      /\ y # t => a + t.len > limit /\ ~y.tifin
  BY <1>5, <1>6, <1>7, <1>8, TrimBackIs
<1>10. t.len \in Nat /\ y.len \in Nat /\ a \in Int
  BY <1>1, <1>5, <1>9 DEF Holds
<1>11. ASSUME y.len > 0 \/ y.tifin
       PROVE  a >= n /\ a + y.len <= N + 1 /\ a + y.len <= limit
  <2>1. t.len > 0 \/ t.tifin
    <3>1. CASE y = t
      BY <1>11, <3>1
    <3>2. CASE y # t
      BY <1>9, <1>10, <1>11, <3>2
    <3> QED
      BY <3>1, <3>2
  <2>2. f + l <= N + 1
    <3>1. CASE t.len > 0
      <4>1. l > 0
        BY <1>5, <1>10, <3>1
      <4> QED
        BY <4>1
    <3>2. CASE t.tifin
      <4>1. f + l = N + 1
        BY <1>5, <3>2
      <4> QED
        BY <1>1, <4>1
    <3> QED
      BY <2>1, <3>1, <3>2
  <2> QED
    BY <1>1, <1>5, <1>9, <1>10, <2>1, <2>2
<1>12. ASSUME y.fin, last PROVE a + y.len = N + 1
  <2>1. fin /\ InWindow(f, l, fin)
    BY <1>2, <1>5, <1>9, <1>12
  <2>2. f + l <= e
    BY <1>1, <2>1 DEF InWindow
  <2>3. y = t
    BY <1>1, <1>5, <1>9, <2>2
  <2> QED
    BY <1>5, <2>1, <2>3
<1>13. Arriving(y, a, n, limit, last)
  BY <1>9, <1>11, <1>12 DEF Arriving
<1> QED
  BY <1>4, <1>6, <1>13 DEF Trimmed

-----------------------------------------------------------------------------
(* The invariant: n and e are the bytes rcv_nxt and rcv_adv stand at, cc,  *)
(* g, closed, over and q are sb_cc, got, cantrcvmore, overran and segq.    *)

Kept(n, e, cc, g, closed, over, q) ==
  /\ n \in 1..(N + 2) /\ e \in 1..(N + sb_hiwat + 2)
  /\ Len(g) \in 0..N /\ g = Bytes(1, Len(g) + 1)
  /\ ~closed => n = Len(g) + 1
  /\ closed /\ ~over => Len(g) = N /\ n = N + 2
  /\ cc \in 0..sb_hiwat /\ cc <= Len(g) /\ cc + (e - n) <= sb_hiwat
  /\ QueueOk(q, IF closed THEN 1 ELSE n + 1, n + (sb_hiwat - cc), ~over)

LEMMA QueueLimit ==
  ASSUME NEW q, NEW low \in Int, NEW limit \in Int, NEW last \in BOOLEAN,
         QueueOk(q, low, limit, last),
         NEW limit2 \in Int, NEW last2 \in BOOLEAN, limit <= limit2, last2 => last
  PROVE  QueueOk(q, low, limit2, last2)
<1>1. \A i \in 1..Len(q) : First(q[i]) >= low
  BY DEF QueueOk, Held
<1> QED
  BY <1>1, QueueWeaker

(* The window may open.                                                    *)
LEMMA KeptAdvertised ==
  ASSUME NEW n, NEW e, NEW cc, NEW g, NEW closed, NEW over, NEW q,
         Kept(n, e, cc, g, closed, over, q),
         NEW e2, e2 = e \/ (e2 = n + (sb_hiwat - cc) /\ e < e2)
  PROVE  Kept(n, e2, cc, g, closed, over, q)
<1>1. /\ n \in 1..(N + 2) /\ e \in 1..(N + sb_hiwat + 2) /\ cc \in 0..sb_hiwat
      /\ cc + (e - n) <= sb_hiwat
  BY DEF Kept
<1>2. e2 \in 1..(N + sb_hiwat + 2) /\ cc + (e2 - n) <= sb_hiwat
  BY <1>1, Sizes
<1> QED
  BY <1>2 DEF Kept

(* The process may read.                                                   *)
LEMMA KeptRead ==
  ASSUME NEW n, NEW e, NEW cc, NEW g, NEW closed, NEW over \in BOOLEAN, NEW q,
         Kept(n, e, cc, g, closed, over, q), NEW m \in Nat, m <= cc
  PROVE  Kept(n, e, cc - m, g, closed, over, q)
<1>1. /\ n \in 1..(N + 2) /\ e \in 1..(N + sb_hiwat + 2) /\ cc \in 0..sb_hiwat
      /\ cc + (e - n) <= sb_hiwat /\ cc <= Len(g) /\ Len(g) \in 0..N
  BY DEF Kept
<1>2. cc - m \in 0..sb_hiwat /\ (cc - m) + (e - n) <= sb_hiwat /\ cc - m <= Len(g)
  BY <1>1, Sizes
<1>3. PICK low \in Int : low = IF closed THEN 1 ELSE n + 1
  BY <1>1, Sizes
<1>4. QueueOk(q, low, n + (sb_hiwat - (cc - m)), ~over)
  <2>1. QueueOk(q, low, n + (sb_hiwat - cc), ~over)
    BY <1>3 DEF Kept
  <2>2. PICK limit \in Int : limit = n + (sb_hiwat - cc)
    BY <1>1, Sizes
  <2>3. PICK limit2 \in Int : limit2 = n + (sb_hiwat - (cc - m))
    BY <1>1, Sizes
  <2>4. limit <= limit2
    BY <1>1, <2>2, <2>3, Sizes
  <2>5. PICK last \in BOOLEAN : last = ~over
    OBVIOUS
  <2> QED
    BY <2>1, <2>2, <2>3, <2>4, <2>5, QueueLimit
<1> QED
  BY <1>2, <1>3, <1>4 DEF Kept

(* The peer may be found to have sent past its window, and the queue may   *)
(* be freed.                                                               *)
LEMMA KeptOverrun ==
  ASSUME NEW n, NEW e, NEW cc, NEW g, NEW closed, NEW over \in BOOLEAN, NEW q,
         Kept(n, e, cc, g, closed, over, q),
         NEW over2 \in BOOLEAN, over => over2
  PROVE  Kept(n, e, cc, g, closed, over2, q)
<1>1. n \in 1..(N + 2) /\ cc \in 0..sb_hiwat
  BY DEF Kept
<1>2. PICK low \in Int : low = IF closed THEN 1 ELSE n + 1
  BY <1>1, Sizes
<1>3. PICK limit \in Int : limit = n + (sb_hiwat - cc)
  BY <1>1, Sizes
<1>4. PICK last \in BOOLEAN : last = ~over
  OBVIOUS
<1>5. PICK last2 \in BOOLEAN : last2 = ~over2
  OBVIOUS
<1>6. QueueOk(q, low, limit, last)
  BY <1>2, <1>3, <1>4 DEF Kept
<1>7. limit <= limit /\ (last2 => last)
  BY <1>4, <1>5
<1>8. QueueOk(q, low, limit, last2)
  BY <1>6, <1>7, QueueLimit
<1> QED
  BY <1>2, <1>3, <1>5, <1>8 DEF Kept

LEMMA KeptFreed ==
  ASSUME NEW n, NEW e, NEW cc, NEW g, NEW closed, NEW over, NEW q,
         Kept(n, e, cc, g, closed, over, q)
  PROVE  Kept(n, e, cc, g, closed, over, <<>>)
<1>1. PICK r : r = <<>>
  OBVIOUS
<1>2. r \in Seq(InQueue) /\ 1..Len(r) = {}
  BY <1>1
<1>3. QueueOk(r, IF closed THEN 1 ELSE n + 1, n + (sb_hiwat - cc), ~over)
  BY <1>2 DEF QueueOk
<1> QED
  BY <1>1, <1>3 DEF Kept

(* Text may arrive: what fits, and what it changes.                        *)
Room(n, cc, over, limit, last) == limit = n + (sb_hiwat - cc) /\ (last <=> ~over)

Follows(r, cc, g, n2, c, h, closed2) ==
  /\ n2 = IF r.fin THEN Place(r.nxt) + 1 ELSE Place(r.nxt)
  /\ c = cc + Len(r.data) /\ h = g \o r.data
  /\ closed2 <=> cantrcvmore \/ r.fin

LEMMA KeptReceived ==
  ASSUME NEW n, NEW e, NEW cc, NEW g, cantrcvmore \in BOOLEAN, NEW over \in BOOLEAN, NEW q,
         Kept(n, e, cc, g, cantrcvmore, over, q),
         NEW over2 \in BOOLEAN, over => over2,
         NEW limit, NEW last \in BOOLEAN, Room(n, cc, over2, limit, last),
         NEW r, Outcome(r, n, limit, last),
         NEW n2, NEW c, NEW h, NEW closed2 \in BOOLEAN, Follows(r, cc, g, n2, c, h, closed2)
  PROVE  Kept(n2, e, c, h, closed2, over2, r.q)
<1>1. /\ n \in 1..(N + 2) /\ e \in 1..(N + sb_hiwat + 2) /\ cc \in 0..sb_hiwat
      /\ cc + (e - n) <= sb_hiwat /\ cc <= Len(g) /\ Len(g) \in 0..N
      /\ n \in Int /\ e \in Int /\ cc \in Int /\ Len(g) \in Int
  BY Sizes DEF Kept
<1>2. N \in Nat /\ sb_hiwat \in Nat
  BY Sizes
<1>3. PICK p \in n..(N + 2) : p = Place(r.nxt)
  BY DEF Outcome
<1>4. PICK f \in BOOLEAN : f = r.fin
  BY DEF Outcome
<1>5. limit \in Int /\ limit = n + (sb_hiwat - cc)
  BY <1>1, <1>2 DEF Room
<1>6. last <=> ~over2
  BY DEF Room
<1>7. /\ f \/ p # n => p <= N + 1 /\ p <= limit
      /\ f /\ last => p = N + 1
      /\ r.data = IF cantrcvmore THEN <<>> ELSE Bytes(n, p)
      /\ QueueOk(r.q, IF cantrcvmore \/ f THEN 1 ELSE p + 1, limit, last)
  BY <1>3, <1>4, <1>5, <1>6 DEF Outcome
<1>8. n2 \in Int /\ n2 = IF f THEN p + 1 ELSE p
  <2>1. n2 = IF f THEN p + 1 ELSE p
    BY <1>3, <1>4 DEF Follows
  <2> QED
    BY <1>1, <1>2, <1>3, <2>1
<1>9. n2 \in 1..(N + 2) /\ n <= n2
  BY <1>1, <1>2, <1>3, <1>7, <1>8
<1>10. g = Bytes(1, Len(g) + 1)
  BY DEF Kept
<1>11. h = g \o r.data
  BY DEF Follows
<1>12. c = cc + Len(r.data)
  BY DEF Follows
<1>13. CASE cantrcvmore
  <2>1. h = g /\ c = cc
    <3>1. r.data = <<>> /\ Len(<<>>) = 0
      BY <1>7, <1>13
    <3>2. g \in Seq(Int)
      <4>1. \A j \in 1..((Len(g) + 1) - 1) : 1 + j - 1 \in Int
        BY <1>1
      <4>2. (Len(g) + 1) - 1 \in Nat
        BY <1>1
      <4> QED
        BY <1>10, <4>1, <4>2 DEF Bytes
    <3>3. g \o <<>> = g
      BY <3>2
    <3> QED
      BY <1>1, <1>11, <1>12, <3>1, <3>3
  <2>2. ASSUME ~over2 PROVE Len(g) = N /\ n2 = N + 2
    <3>1. Len(g) = N /\ n = N + 2
      BY <1>13, <2>2 DEF Kept
    <3>2. p = N + 2
      BY <1>1, <1>2, <1>3, <3>1
    <3>3. ~f
      BY <1>2, <1>7, <3>2
    <3> QED
      BY <1>8, <3>1, <3>2, <3>3
  <2>3. PICK limit2 \in Int : limit2 = n2 + (sb_hiwat - cc)
    BY <1>1, <1>2, <1>8
  <2>4. QueueOk(r.q, 1, limit2, last)
    <3>1. QueueOk(r.q, 1, limit, last)
      BY <1>7, <1>13
    <3>2. limit <= limit2 /\ 1 \in Int
      BY ONLY <1>1, <1>2, <1>5, <1>8, <1>9, <2>3
    <3> QED
      BY <1>5, <3>1, <3>2, QueueLimit
  <2>5. cc + (e - n2) <= sb_hiwat
    BY ONLY <1>1, <1>2, <1>8, <1>9
  <2>6. Kept(n2, e, cc, g, TRUE, over2, r.q)
    BY <1>1, <1>6, <1>9, <1>10, <2>2, <2>3, <2>4, <2>5 DEF Kept
  <2>7. closed2 = TRUE
    BY <1>13 DEF Follows
  <2> QED
    BY <2>1, <2>6, <2>7
<1>14. CASE ~cantrcvmore
  <2>1. n = Len(g) + 1
    BY <1>14 DEF Kept
  <2>2. r.data = Bytes(n, p)
    BY <1>7, <1>14
  <2>3. Len(r.data) = p - n
    <3>1. p - n \in Nat
      BY <1>1, <1>3
    <3> QED
      BY <2>2, <3>1 DEF Bytes
  <2>4. h = Bytes(1, p)
    <3>1. 1 \in Int /\ p \in Int /\ 1 <= n /\ n <= p
      BY <1>1, <1>2, <1>3
    <3>2. g = Bytes(1, n)
      BY <1>10, <2>1
    <3>3. Bytes(1, n) \o Bytes(n, p) = Bytes(1, p)
      BY <1>1, <3>1, BytesJoin
    <3> QED
      BY <1>11, <2>2, <3>2, <3>3
  <2>5. Len(h) = p - 1
    <3>1. p - 1 \in Nat
      BY <1>1, <1>3
    <3> QED
      BY <2>4, <3>1 DEF Bytes
  <2>6. p <= N + 1 /\ p \in Int /\ p >= 1
    BY <1>1, <1>2, <1>3, <1>7, <2>1
  <2>7. Len(h) \in 0..N /\ h = Bytes(1, Len(h) + 1)
    <3>1. Len(h) + 1 = p
      BY <2>5, <2>6
    <3> QED
      BY <1>2, <2>4, <2>5, <2>6, <3>1
  <2>8. ~f => n2 = Len(h) + 1
    BY <1>8, <2>5, <2>6
  <2>9. ASSUME f, ~over2 PROVE Len(h) = N /\ n2 = N + 2
    <3>1. p = N + 1
      BY <1>6, <1>7, <2>9
    <3>2. n2 = p + 1
      BY <1>8, <2>9
    <3> QED
      BY <1>2, <2>5, <3>1, <3>2
  <2>10. c = cc + (p - n) /\ c \in Int
    BY <1>1, <1>12, <2>3, <2>6
  <2>11. c \in 0..sb_hiwat /\ c <= Len(h) /\ c + (e - n2) <= sb_hiwat
    <3>1. p <= limit
      <4>1. CASE p = n
        BY <1>1, <1>2, <1>5, <4>1
      <4>2. CASE p # n
        BY <1>7, <4>2
      <4> QED
        BY <4>1, <4>2
    <3>2. p <= n2 /\ n <= p
      BY <1>1, <1>2, <1>3, <1>8
    <3>3. c \in 0..sb_hiwat
      BY ONLY <1>1, <1>2, <1>5, <2>6, <2>10, <3>1, <3>2
    <3>4. c <= Len(h)
      BY ONLY <1>1, <2>1, <2>5, <2>6, <2>10
    <3>5. c + (e - n2) <= sb_hiwat
      BY ONLY <1>1, <1>2, <2>6, <1>8, <2>10, <3>2
    <3> QED
      BY <3>3, <3>4, <3>5
  <2>12. PICK limit2 \in Int : limit2 = n2 + (sb_hiwat - c)
    BY <1>2, <1>8, <2>10
  <2>13. PICK low \in Int : low = IF f THEN 1 ELSE n2 + 1
    BY <1>8
  <2>14. QueueOk(r.q, low, limit2, last)
    <3>1. QueueOk(r.q, low, limit, last)
      <4>1. QueueOk(r.q, IF f THEN 1 ELSE p + 1, limit, last)
        BY <1>7, <1>14
      <4>2. CASE f
        BY <2>13, <4>1, <4>2
      <4>3. CASE ~f
        BY <1>8, <2>13, <4>1, <4>3
      <4> QED
        BY <4>2, <4>3
    <3>2. p <= n2
      BY <1>1, <1>2, <1>3, <1>8
    <3>3. limit <= limit2
      BY ONLY <1>1, <1>2, <1>5, <2>6, <2>10, <1>8, <2>12, <3>2
    <3> QED
      BY <1>5, <3>1, <3>3, QueueLimit
  <2>15. Kept(n2, e, c, h, f, over2, r.q)
    BY <1>1, <1>6, <1>9, <2>7, <2>8, <2>9, <2>11, <2>12, <2>13, <2>14 DEF Kept
  <2>16. closed2 = f
    BY <1>4, <1>14 DEF Follows
  <2> QED
    BY <2>15, <2>16
<1> QED
  BY <1>13, <1>14

States == {"ESTABLISHED", "CLOSE_WAIT", "FIN_WAIT_1", "CLOSING", "LAST_ACK",
           "FIN_WAIT_2", "TIME_WAIT", "CLOSED"}

TcpInv ==
  /\ t_state \in States /\ (t_state = "ESTABLISHED" => ~cantrcvmore)
  /\ rcv_nxt \in SeqNo /\ rcv_adv \in SeqNo
  /\ cantrcvmore \in BOOLEAN /\ acknow \in BOOLEAN /\ delack \in BOOLEAN /\ overran \in BOOLEAN
  /\ Kept(Place(rcv_nxt), Place(rcv_adv), sb_cc, got, cantrcvmore, overran, segq)

(* A step that sends or does not, and moves nothing else.                  *)
LEMMA SendsKeep ==
  ASSUME TcpInv, NEW owed \in BOOLEAN, NEW delayed \in BOOLEAN, NEW forced,
         tcp_output(rcv_nxt, sb_cc, owed, delayed, forced),
         UNCHANGED <<rcv_nxt, segq, got, sb_cc, cantrcvmore>>,
         t_state' \in States, t_state' = "ESTABLISHED" => t_state = "ESTABLISHED",
         overran' \in BOOLEAN, overran => overran'
  PROVE  TcpInv'
<1>1. PICK n : n = Place(rcv_nxt)
  OBVIOUS
<1>2. PICK e : e = Place(rcv_adv)
  OBVIOUS
<1>3. /\ rcv_nxt \in SeqNo /\ rcv_adv \in SeqNo /\ overran \in BOOLEAN /\ cantrcvmore \in BOOLEAN
      /\ t_state = "ESTABLISHED" => ~cantrcvmore
      /\ Kept(n, e, sb_cc, got, cantrcvmore, overran, segq)
  BY <1>1, <1>2 DEF TcpInv
<1>4. n \in 1..(N + 2) /\ e \in 1..(N + sb_hiwat + 2) /\ sb_cc \in 0..sb_hiwat
  BY <1>3 DEF Kept
<1>5. /\ rcv_adv' \in SeqNo /\ acknow' \in BOOLEAN /\ delack' \in BOOLEAN
      /\ \/ Place(rcv_adv') = e
         \/ Place(rcv_adv') = n + (sb_hiwat - sb_cc) /\ e < n + (sb_hiwat - sb_cc)
  BY <1>1, <1>2, <1>3, <1>4, OutputOk
<1>6. Kept(n, e, sb_cc, got, cantrcvmore, overran', segq)
  BY <1>3, KeptOverrun
<1>7. PICK e2 : e2 = Place(rcv_adv')
  OBVIOUS
<1>8. Kept(n, e2, sb_cc, got, cantrcvmore, overran', segq)
  BY <1>5, <1>6, <1>7, KeptAdvertised
<1>9. Place(rcv_nxt') = n /\ rcv_nxt' \in SeqNo
  BY <1>1, <1>3
<1> QED
  BY <1>3, <1>5, <1>7, <1>8, <1>9 DEF TcpInv

(* The text of a segment.                                                  *)
LEMMA TextKeeps ==
  ASSUME TcpInv, NEW t, NEW a, NEW owed \in BOOLEAN,
         overran' \in BOOLEAN, overran => overran', NEW limit, NEW last \in BOOLEAN,
         Room(Place(rcv_nxt), sb_cc, overran', limit, last),
         Arriving(t, a, Place(rcv_nxt), limit, last),
         Text(t, owed)
  PROVE  TcpInv' /\ (cantrcvmore => got' = got)
<1>1. PICK n : n = Place(rcv_nxt)
  OBVIOUS
<1>2. PICK e : e = Place(rcv_adv)
  OBVIOUS
<1>3. /\ rcv_nxt \in SeqNo /\ rcv_adv \in SeqNo /\ overran \in BOOLEAN /\ cantrcvmore \in BOOLEAN
      /\ t_state \in States /\ (t_state = "ESTABLISHED" => ~cantrcvmore) /\ delack \in BOOLEAN
      /\ Kept(n, e, sb_cc, got, cantrcvmore, overran, segq)
  BY <1>1, <1>2 DEF TcpInv
<1>4. n \in 1..(N + 2) /\ e \in 1..(N + sb_hiwat + 2) /\ sb_cc \in 0..sb_hiwat
  BY <1>3 DEF Kept
<1>5. limit \in Int /\ limit = n + (sb_hiwat - sb_cc)
  BY <1>1, <1>4, Sizes DEF Room
<1>6. last = ~overran'
  BY DEF Room
<1>7. QueueOk(segq, IF cantrcvmore THEN 1 ELSE n + 1, limit, last)
  <2>1. Kept(n, e, sb_cc, got, cantrcvmore, overran', segq)
    BY <1>3, KeptOverrun
  <2> QED
    BY ONLY <1>5, <1>6, <2>1 DEF Kept
<1>8. Arriving(t, a, n, limit, last)
  BY <1>1, <1>5, <1>6
<1>9. PICK r : r = Received(t)
  OBVIOUS
<1>10. Outcome(r, n, limit, last)
  BY <1>1, <1>3, <1>4, <1>5, <1>7, <1>8, <1>9, ReceivedOk
<1>11. /\ t_state' = IF r.fin THEN AfterFin(AfterAck(t)) ELSE AfterAck(t)
       /\ rcv_nxt' = IF r.fin THEN Unsigned(r.nxt + 1) ELSE r.nxt
       /\ segq' = r.q /\ got' = got \o r.data /\ sb_cc' = sb_cc + Len(r.data)
       /\ cantrcvmore' = (cantrcvmore \/ r.fin)
       /\ \E push, needoutput \in BOOLEAN :
            LET now == owed \/ r.fin \/ (HasText(t) /\ (push \/ ~InSequence(t)))
                later == delack \/ (HasText(t) /\ ~push /\ InSequence(t))
            IN IF needoutput \/ now THEN tcp_output(rcv_nxt', sb_cc', now, later, FALSE)
               ELSE rcv_adv' = rcv_adv /\ acknow' = now /\ delack' = later
  BY <1>9 DEF Text
<1>12. PICK p \in 1..(N + 2) : /\ p = Place(r.nxt) /\ r.nxt \in SeqNo
                               /\ r.fin => p <= N + 1
  <2>1. Place(r.nxt) \in n..(N + 2) /\ r.nxt \in SeqNo /\ (r.fin => Place(r.nxt) <= N + 1)
    BY <1>10 DEF Outcome
  <2>2. Place(r.nxt) \in 1..(N + 2)
    BY <1>4, <2>1, Sizes
  <2> QED
    BY <2>1, <2>2
<1>13. PICK f \in BOOLEAN : f = r.fin
  BY <1>10 DEF Outcome
<1>14. PICK n2 : n2 = IF f THEN p + 1 ELSE p
  OBVIOUS
<1>15. Kept(n2, e, sb_cc', got', cantrcvmore', overran', segq')
  <2>1. PICK over2 \in BOOLEAN : over2 = overran'
    OBVIOUS
  <2>2. PICK closed2 \in BOOLEAN : closed2 = (cantrcvmore \/ r.fin)
    OBVIOUS
  <2>3. PICK c : c = sb_cc + Len(r.data)
    OBVIOUS
  <2>4. PICK h : h = got \o r.data
    OBVIOUS
  <2>5. n2 = IF r.fin THEN Place(r.nxt) + 1 ELSE Place(r.nxt)
    BY <1>12, <1>13, <1>14
  <2>6. (last <=> ~over2) /\ (overran => over2)
    BY <1>6, <2>1
  <2>7. closed2 <=> cantrcvmore \/ r.fin
    BY <1>3, <1>13, <2>2
  <2>8. Kept(n2, e, c, h, closed2, over2, r.q)
    <3>1. Room(n, sb_cc, over2, limit, last)
      BY <1>5, <2>6 DEF Room
    <3>2. Follows(r, sb_cc, got, n2, c, h, closed2)
      BY <2>3, <2>4, <2>5, <2>7 DEF Follows
    <3> QED
      BY <1>3, <1>10, <2>6, <3>1, <3>2, KeptReceived
  <2>9. cantrcvmore' = closed2
    BY <1>11, <2>2
  <2> QED
    BY <1>11, <2>1, <2>3, <2>4, <2>8, <2>9
<1>16. n2 \in 1..(N + 2) /\ sb_cc' \in 0..sb_hiwat
  BY <1>15 DEF Kept
<1>17. rcv_nxt' \in SeqNo /\ Place(rcv_nxt') = n2
  <2>1. CASE ~f
    BY <1>11, <1>12, <1>13, <1>14, <2>1
  <2>2. CASE f
    <3>1. At(r.nxt, p)
      BY <1>12, AtPlace
    <3>2. At(r.nxt + 1, p + 1)
      <4>1. PICK one \in Int : one = 1
        OBVIOUS
      <4>2. At(r.nxt + one, p + one)
        BY <3>1, AtPlus
      <4> QED
        BY <4>1, <4>2
    <3>3. At(rcv_nxt', n2) /\ rcv_nxt' \in SeqNo
      BY <1>11, <1>13, <1>14, <2>2, <3>2, AtUnsigned
    <3>4. n2 \in SeqNo
      BY <1>16, Sizes DEF SeqNo
    <3> QED
      BY <3>3, <3>4, PlaceIs
  <2> QED
    BY <2>1, <2>2
(* The state, and the answer.                                              *)
<1>18. /\ t_state' \in States /\ cantrcvmore' \in BOOLEAN
       /\ t_state' = "ESTABLISHED" => ~cantrcvmore'
  <2>1. PICK x : x = AfterAck(t)
    OBVIOUS
  <2>2. x \in States /\ (x = "ESTABLISHED" => t_state = "ESTABLISHED")
    BY <1>3, <2>1 DEF AfterAck, States
  <2>3. AfterFin(x) \in States /\ AfterFin(x) # "ESTABLISHED"
    BY <2>2 DEF AfterFin, States
  <2>4. cantrcvmore' = (cantrcvmore \/ f) /\ t_state' = IF f THEN AfterFin(x) ELSE x
    BY <1>11, <1>13, <2>1
  <2> QED
    BY <1>3, <2>2, <2>3, <2>4
<1>19. PICK now \in BOOLEAN, later \in BOOLEAN :
         \/ tcp_output(rcv_nxt', sb_cc', now, later, FALSE)
         \/ rcv_adv' = rcv_adv /\ acknow' = now /\ delack' = later
  <2>1. PICK push \in BOOLEAN, needoutput \in BOOLEAN :
            LET now == owed \/ r.fin \/ (HasText(t) /\ (push \/ ~InSequence(t)))
                later == delack \/ (HasText(t) /\ ~push /\ InSequence(t))
            IN IF needoutput \/ now THEN tcp_output(rcv_nxt', sb_cc', now, later, FALSE)
               ELSE rcv_adv' = rcv_adv /\ acknow' = now /\ delack' = later
    BY <1>11
  <2>2. PICK now : now = (owed \/ r.fin \/ (HasText(t) /\ (push \/ ~InSequence(t))))
    OBVIOUS
  <2>3. PICK later : later = (delack \/ (HasText(t) /\ ~push /\ InSequence(t)))
    OBVIOUS
  <2>4. IF needoutput \/ now THEN tcp_output(rcv_nxt', sb_cc', now, later, FALSE)
        ELSE rcv_adv' = rcv_adv /\ acknow' = now /\ delack' = later
    BY <2>1, <2>2, <2>3
  <2>5. now \in BOOLEAN /\ later \in BOOLEAN
    BY <1>3, <1>13, <2>2, <2>3
  <2> QED
    BY <2>4, <2>5
<1>20. /\ rcv_adv' \in SeqNo /\ acknow' \in BOOLEAN /\ delack' \in BOOLEAN
       /\ Kept(n2, Place(rcv_adv'), sb_cc', got', cantrcvmore', overran', segq')
  <2>1. CASE rcv_adv' = rcv_adv /\ acknow' = now /\ delack' = later
    BY <1>2, <1>3, <1>15, <2>1
  <2>2. CASE tcp_output(rcv_nxt', sb_cc', now, later, FALSE)
    <3>1. PICK x : x = rcv_nxt'
      OBVIOUS
    <3>2. PICK c : c = sb_cc'
      OBVIOUS
    <3>3. PICK forced \in BOOLEAN : tcp_output(x, c, now, later, forced)
      BY <2>2, <3>1, <3>2
    <3>4. x \in SeqNo /\ n2 = Place(x) /\ c \in 0..sb_hiwat
      BY <1>16, <1>17, <3>1, <3>2
    <3>5. /\ rcv_adv' \in SeqNo /\ acknow' \in BOOLEAN /\ delack' \in BOOLEAN
          /\ \/ Place(rcv_adv') = e
             \/ Place(rcv_adv') = n2 + (sb_hiwat - c) /\ e < n2 + (sb_hiwat - c)
      BY <1>2, <1>3, <1>4, <1>16, <3>3, <3>4, OutputOk
    <3>6. PICK e2 : e2 = Place(rcv_adv')
      OBVIOUS
    <3>7. Kept(n2, e2, sb_cc', got', cantrcvmore', overran', segq')
      BY <1>15, <3>2, <3>5, <3>6, KeptAdvertised
    <3> QED
      BY <3>5, <3>6, <3>7
  <2> QED
    BY <1>19, <2>1, <2>2
<1>21. TcpInv'
  BY <1>17, <1>18, <1>20 DEF TcpInv
<1>22. ASSUME cantrcvmore PROVE got' = got
  <2>1. r.data = <<>>
    BY <1>10, <1>22 DEF Outcome
  <2>2. got = Bytes(1, Len(got) + 1) /\ Len(got) \in 0..N
    BY <1>3 DEF Kept
  <2>3. got \in Seq(Int)
    <3>1. (Len(got) + 1) - 1 \in Nat
      BY <2>2, Sizes
    <3>2. \A j \in 1..((Len(got) + 1) - 1) : 1 + j - 1 \in Int
      BY <3>1
    <3> QED
      BY <2>2, <3>1, <3>2 DEF Bytes
  <2>4. got \o <<>> = got
    BY <2>3
  <2> QED
    BY <1>11, <2>1, <2>4
<1> QED
  BY <1>21, <1>22

-----------------------------------------------------------------------------
(* The steps.                                                              *)

FromPeer(s, f, l, fin, acks) ==
  /\ f \in 1..(N + 2) /\ l \in Nat /\ fin \in BOOLEAN /\ acks \in BOOLEAN
  /\ l > 0 => f + l <= N + 1
  /\ fin => f + l = N + 1
  /\ s = Segment(f, l, fin, acks)

LEMMA ArrivalIs ==
  ASSUME NEW s \in Arrivals
  PROVE  \E f, l, fin, acks : FromPeer(s, f, l, fin, acks)
<1>1. PICK y \in (1..(N + 2)) \X (0..t_maxseg) \X BOOLEAN \X BOOLEAN :
        /\ y[2] > 0 => y[1] + y[2] <= N + 1
        /\ y[3] => y[1] + y[2] = N + 1
        /\ s = Segment(y[1], y[2], y[3], y[4])
  BY DEF Arrivals
<1>2. /\ y[1] \in 1..(N + 2) /\ y[2] \in 0..t_maxseg /\ y[3] \in BOOLEAN /\ y[4] \in BOOLEAN
  OBVIOUS
<1>3. y[2] \in Nat
  BY <1>2, Sizes
<1>4. FromPeer(s, y[1], y[2], y[3], y[4])
  BY <1>1, <1>2, <1>3 DEF FromPeer
<1> QED
  BY <1>4

LEMMA PredictedKeeps ==
  ASSUME TcpInv, NEW s \in Arrivals, AppendPredicted(s), overran' = (overran \/ s.over)
  PROVE  TcpInv' /\ (cantrcvmore => got' = got)
<1>1. PICK f, l, fin, acks : FromPeer(s, f, l, fin, acks)
  BY ArrivalIs
<1>2. /\ s \in Sent /\ Holds(s, f) /\ s.len = l /\ f \in 1..(N + 2) /\ l \in Nat
      /\ l > 0 => f + l <= N + 1
  BY <1>1, SegmentIs DEF FromPeer
<1>3. PICK n : n = Place(rcv_nxt)
  OBVIOUS
<1>4. PICK e : e = Place(rcv_adv)
  OBVIOUS
<1>5. /\ rcv_nxt \in SeqNo /\ rcv_adv \in SeqNo /\ overran \in BOOLEAN /\ cantrcvmore \in BOOLEAN
      /\ t_state = "ESTABLISHED" => ~cantrcvmore
      /\ acknow \in BOOLEAN /\ delack \in BOOLEAN /\ t_state \in States
      /\ Kept(n, e, sb_cc, got, cantrcvmore, overran, segq)
  BY <1>3, <1>4 DEF TcpInv
<1>6. n \in 1..(N + 2) /\ sb_cc \in 0..sb_hiwat
  BY <1>5 DEF Kept
<1>7. /\ t_state = "ESTABLISHED" /\ ~s.fin /\ s.seq = rcv_nxt /\ s.len > 0
      /\ segq = <<>> /\ s.len <= sb_hiwat - sb_cc
  BY DEF AppendPredicted, Predicted, sbspace
<1>8. f = n
  <2>1. f \in 0..(N + 2)
    BY <1>2, Sizes
  <2>2. First(s) = f
    BY <1>2, <2>1, FirstIs
  <2> QED
    BY <1>3, <1>7, <2>2 DEF First
<1>9. PICK over2 \in BOOLEAN : over2 = overran' /\ (overran => over2)
  <2>1. s.over \in BOOLEAN
    BY <1>2 DEF Sent
  <2> QED
    BY <1>5, <2>1
<1>10. PICK last \in BOOLEAN : last <=> ~over2
  OBVIOUS
<1>11. PICK limit : limit = n + (sb_hiwat - sb_cc)
  OBVIOUS
<1>12. limit \in Int /\ n + s.len <= limit /\ n + s.len <= N + 1
  BY <1>2, <1>6, <1>7, <1>8, <1>11, Sizes
<1>13. Arriving(s, n, n, limit, last)
  <2>1. n >= n
    BY <1>6, Sizes
  <2> QED
    BY <1>2, <1>6, <1>7, <1>8, <1>12, <2>1 DEF Arriving
<1>14. PICK r : r = [nxt |-> Unsigned(rcv_nxt + s.len), q |-> segq, data |-> s.m, fin |-> s.fin]
  OBVIOUS
<1>15. Outcome(r, n, limit, last)
  BY <1>3, <1>5, <1>6, <1>7, <1>12, <1>13, <1>14, InSequenceOutcome
<1>16. r.nxt = Unsigned(rcv_nxt + s.len) /\ r.q = segq /\ r.data = s.m /\ ~r.fin
  BY <1>7, <1>14
<1>17. Kept(Place(r.nxt), e, sb_cc', got', cantrcvmore, over2, r.q)
  <2>1. PICK n2 : n2 = Place(r.nxt)
    OBVIOUS
  <2>2. PICK c : c = sb_cc'
    OBVIOUS
  <2>3. PICK h : h = got'
    OBVIOUS
  <2>4. PICK closed2 \in BOOLEAN : closed2 = cantrcvmore
    BY <1>5
  <2>5. Room(n, sb_cc, over2, limit, last)
    BY <1>10, <1>11 DEF Room
  <2>6. Follows(r, sb_cc, got, n2, c, h, closed2)
    <3>1. sb_cc' = sb_cc + s.len /\ got' = got \o s.m
      BY DEF AppendPredicted
    <3>2. Len(s.m) = s.len
      BY <1>2 DEF Holds
    <3> QED
      BY <1>16, <2>1, <2>2, <2>3, <2>4, <3>1, <3>2 DEF Follows
  <2>7. Kept(n2, e, c, h, closed2, over2, r.q)
    <3>1. overran => over2
      BY <1>9
    <3> QED
      BY <1>5, <1>15, <2>5, <2>6, <3>1, KeptReceived
  <2> QED
    BY <2>1, <2>2, <2>3, <2>4, <2>7
<1>18. /\ rcv_nxt' = r.nxt /\ segq' = r.q /\ rcv_adv' = rcv_adv /\ t_state' = t_state
       /\ cantrcvmore' = cantrcvmore /\ acknow' \in BOOLEAN /\ delack' \in BOOLEAN
  BY <1>5, <1>16 DEF AppendPredicted
<1>19. rcv_nxt' \in SeqNo
  BY <1>15, <1>18 DEF Outcome
<1>20. Kept(Place(rcv_nxt'), Place(rcv_adv'), sb_cc', got', cantrcvmore', overran', segq')
  BY <1>4, <1>9, <1>17, <1>18
<1>21. TcpInv'
  BY <1>5, <1>9, <1>18, <1>19, <1>20 DEF TcpInv
<1> QED
  BY <1>5, <1>7, <1>21

(* A segment that is refused, or a duplicate ack too many.                 *)
LEMMA DropKeeps ==
  ASSUME TcpInv, NEW s \in Arrivals, overran' = (overran \/ s.over),
         NEW t, DropAfterAck(t) \/ DropDuplicateAck(t, Owed(s))
  PROVE  TcpInv' /\ (cantrcvmore => got' = got)
<1>1. s.over \in BOOLEAN
  <2>1. PICK f, l, fin, acks : FromPeer(s, f, l, fin, acks)
    BY ArrivalIs
  <2> QED
    BY <2>1, SegmentIs DEF FromPeer, Sent
<1>2. /\ overran \in BOOLEAN /\ acknow \in BOOLEAN /\ delack \in BOOLEAN
      /\ t_state \in States
  BY DEF TcpInv
<1>3. overran' \in BOOLEAN /\ (overran => overran')
  BY <1>1, <1>2
<1>4. UNCHANGED <<t_state, rcv_nxt, segq, got, sb_cc, cantrcvmore>>
  BY DEF DropAfterAck, DropDuplicateAck
<1>5. PICK owed \in BOOLEAN, forced \in BOOLEAN :
        tcp_output(rcv_nxt, sb_cc, owed, delack, forced)
  <2>1. CASE DropAfterAck(t)
    <3>1. tcp_output(rcv_nxt, sb_cc, TRUE, delack, FALSE)
      BY <2>1 DEF DropAfterAck
    <3> QED
      BY <3>1
  <2>2. CASE DropDuplicateAck(t, Owed(s))
    <3>1. PICK forced \in BOOLEAN : tcp_output(rcv_nxt, sb_cc, Owed(s), delack, forced)
      BY <2>2 DEF DropDuplicateAck
    <3>2. Owed(s) \in BOOLEAN
      BY <1>2 DEF Owed, AllOld, NothingInWindow
    <3> QED
      BY <3>1, <3>2
  <2> QED
    BY <2>1, <2>2
<1>6. TcpInv'
  BY <1>2, <1>3, <1>4, <1>5, SendsKeep
<1> QED
  BY <1>4, <1>6

LEMMA AcceptKeeps ==
  ASSUME TcpInv, NEW s \in Arrivals, Accept(s), overran' = (overran \/ s.over)
  PROVE  TcpInv' /\ (cantrcvmore => got' = got)
<1>1. PICK f, l, fin, acks : FromPeer(s, f, l, fin, acks)
  BY ArrivalIs
<1>2. /\ f \in 1..(N + 2) /\ l \in Nat /\ fin \in BOOLEAN /\ acks \in BOOLEAN
      /\ l > 0 => f + l <= N + 1
      /\ fin => f + l = N + 1
      /\ s = Segment(f, l, fin, acks) /\ s.over \in BOOLEAN
  BY <1>1, SegmentIs DEF FromPeer, Sent
<1>3. PICK n : n = Place(rcv_nxt)
  OBVIOUS
<1>4. PICK e : e = Place(rcv_adv)
  OBVIOUS
<1>5. /\ rcv_nxt \in SeqNo /\ rcv_adv \in SeqNo /\ overran \in BOOLEAN /\ cantrcvmore \in BOOLEAN
      /\ t_state = "ESTABLISHED" => ~cantrcvmore
      /\ acknow \in BOOLEAN /\ delack \in BOOLEAN /\ t_state \in States
      /\ Kept(n, e, sb_cc, got, cantrcvmore, overran, segq)
  BY <1>3, <1>4 DEF TcpInv
<1>6. /\ n \in 1..(N + 2) /\ sb_cc \in 0..sb_hiwat /\ e \in 1..(N + sb_hiwat + 2)
      /\ sb_cc + (e - n) <= sb_hiwat
  BY <1>5 DEF Kept
<1>7. overran' \in BOOLEAN /\ (overran => overran')
  BY <1>2, <1>5
<1>8. CASE t_state = "LAST_ACK" /\ s.acks
  <2>1. CloseConnection
    BY <1>8 DEF Accept
  <2>2. PICK over2 \in BOOLEAN : over2 = overran' /\ (overran => over2)
    BY <1>7
  <2>3. Kept(n, e, sb_cc, got, cantrcvmore, over2, segq)
    <3>1. overran => over2
      BY <2>2
    <3> QED
      BY <1>5, <3>1, KeptOverrun
  <2>4. Kept(n, e, sb_cc, got, cantrcvmore, over2, <<>>)
    BY <2>3, KeptFreed
  <2>5. /\ t_state' = "CLOSED" /\ segq' = <<>> /\ acknow' = FALSE /\ delack' = FALSE
        /\ UNCHANGED <<rcv_nxt, rcv_adv, got, sb_cc, cantrcvmore>>
    BY <2>1 DEF CloseConnection
  <2>6. Kept(Place(rcv_nxt'), Place(rcv_adv'), sb_cc', got', cantrcvmore', overran', segq')
    BY <1>3, <1>4, <2>2, <2>4, <2>5
  <2>7. TcpInv'
    BY <1>5, <1>7, <2>5, <2>6 DEF TcpInv, States
  <2> QED
    BY <2>5, <2>7
<1>9. CASE ~(t_state = "LAST_ACK" /\ s.acks)
  <2>1. PICK t : t = Trimmed(s)
    OBVIOUS
  <2>2. PICK owed : owed = Owed(s)
    OBVIOUS
  <2>3. Acceptable(s) /\ Text(t, owed)
    BY <1>9, <2>1, <2>2 DEF Accept
  <2>4. owed \in BOOLEAN
    BY <1>5, <2>2 DEF Owed, AllOld, NothingInWindow
  <2>5. PICK window \in e..(N + sb_hiwat + 2) :
          /\ At(rcv_nxt + RcvWnd, window) /\ window <= n + (sb_hiwat - sb_cc)
          /\ RcvWnd = 0 => window = n
    BY <1>3, <1>4, <1>5, <1>6, WindowIs
  <2>6. /\ window \in 1..(N + sb_hiwat + 2) /\ window \in Int /\ e \in Int /\ e <= window
        /\ n \in Int /\ sb_cc \in Int
    BY <1>6, <2>5, Sizes
  <2>7. PICK last \in BOOLEAN : last = ~overran'
    OBVIOUS
  <2>8. last => ~s.over
    BY <1>2, <1>5, <2>7
  <2>9. Edge = e
    BY <1>4 DEF Edge, Place
  <2>10. PICK a : Arriving(t, a, n, window, last)
    BY <1>2, <1>3, <1>5, <1>6, <2>1, <2>3, <2>5, <2>6, <2>8, <2>9, TrimmedOk
  <2>11. PICK limit : limit = n + (sb_hiwat - sb_cc)
    OBVIOUS
  <2>12. Arriving(t, a, n, limit, last)
    <3>1. a \in Int /\ t.len \in Nat /\ limit \in Int /\ window <= limit
      BY <1>6, <2>5, <2>6, <2>10, <2>11, Sizes DEF Arriving, Holds
    <3>2. a + t.len <= window => a + t.len <= limit
      BY <2>6, <3>1
    <3> QED
      BY <2>10, <3>2 DEF Arriving
  <2>13. Room(Place(rcv_nxt), sb_cc, overran', limit, last)
    BY <1>3, <2>7, <2>11 DEF Room
  <2>14. Arriving(t, a, Place(rcv_nxt), limit, last)
    BY <1>3, <2>12
  <2> QED
    BY <1>7, <2>3, <2>4, <2>13, <2>14, TextKeeps
<1> QED
  BY <1>8, <1>9

LEMMA InputKeeps ==
  ASSUME TcpInv, NEW s \in Arrivals, tcp_input(s)
  PROVE  TcpInv' /\ (cantrcvmore => got' = got)
<1>1. overran' = (overran \/ s.over)
  BY DEF tcp_input
<1>2. CASE AppendPredicted(s)
  BY <1>1, <1>2, PredictedKeeps
<1>3. CASE DropAfterAck(TrimFront(s))
  <2>1. PICK t : DropAfterAck(t)
    BY <1>3
  <2> QED
    BY <1>1, <2>1, DropKeeps
<1>4. CASE DropDuplicateAck(Trimmed(s), Owed(s))
  <2>1. PICK t : DropDuplicateAck(t, Owed(s))
    BY <1>4
  <2> QED
    BY <1>1, <2>1, DropKeeps
<1>5. CASE Accept(s)
  BY <1>1, <1>5, AcceptKeeps
<1> QED
  BY <1>2, <1>3, <1>4, <1>5 DEF tcp_input

LEMMA ReadKeeps ==
  ASSUME TcpInv, NEW m \in 1..sb_hiwat, PRU_RCVD(m)
  PROVE  TcpInv' /\ (cantrcvmore => got' = got)
<1>1. PICK n : n = Place(rcv_nxt)
  OBVIOUS
<1>2. PICK e : e = Place(rcv_adv)
  OBVIOUS
<1>3. /\ rcv_nxt \in SeqNo /\ rcv_adv \in SeqNo /\ overran \in BOOLEAN /\ cantrcvmore \in BOOLEAN
      /\ t_state = "ESTABLISHED" => ~cantrcvmore
      /\ acknow \in BOOLEAN /\ delack \in BOOLEAN /\ t_state \in States
      /\ Kept(n, e, sb_cc, got, cantrcvmore, overran, segq)
  BY <1>1, <1>2 DEF TcpInv
<1>4. n \in 1..(N + 2) /\ e \in 1..(N + sb_hiwat + 2) /\ sb_cc \in 0..sb_hiwat
  BY <1>3 DEF Kept
<1>5. /\ m <= sb_cc /\ sb_cc' = sb_cc - m
      /\ UNCHANGED <<t_state, rcv_nxt, segq, got, cantrcvmore, overran>>
  BY DEF PRU_RCVD
<1>6. PICK c : c = sb_cc - m
  OBVIOUS
<1>7. c \in 0..sb_hiwat
  BY <1>4, <1>5, <1>6, Sizes
<1>8. Kept(n, e, c, got, cantrcvmore, overran, segq)
  <2>1. m \in Nat
    BY Sizes
  <2> QED
    BY <1>3, <1>5, <1>6, <2>1, KeptRead
<1>9. /\ rcv_adv' \in SeqNo /\ acknow' \in BOOLEAN /\ delack' \in BOOLEAN
      /\ Kept(n, Place(rcv_adv'), c, got, cantrcvmore, overran, segq)
  <2>1. CASE t_state = "CLOSED"
    <3>1. UNCHANGED <<rcv_adv, acknow, delack>>
      BY <2>1 DEF PRU_RCVD
    <3> QED
      BY <1>2, <1>3, <1>8, <3>1
  <2>2. CASE t_state # "CLOSED"
    <3>1. PICK forced \in BOOLEAN : tcp_output(rcv_nxt, c, acknow, delack, forced)
      BY <1>6, <2>2 DEF PRU_RCVD
    <3>2. /\ rcv_adv' \in SeqNo /\ acknow' \in BOOLEAN /\ delack' \in BOOLEAN
          /\ \/ Place(rcv_adv') = e
             \/ Place(rcv_adv') = n + (sb_hiwat - c) /\ e < n + (sb_hiwat - c)
      BY <1>1, <1>2, <1>3, <1>4, <1>7, <3>1, OutputOk
    <3>3. PICK e2 : e2 = Place(rcv_adv')
      OBVIOUS
    <3>4. Kept(n, e2, c, got, cantrcvmore, overran, segq)
      BY <1>8, <3>2, <3>3, KeptAdvertised
    <3> QED
      BY <3>2, <3>3, <3>4
  <2> QED
    BY <2>1, <2>2
<1>10. Kept(Place(rcv_nxt'), Place(rcv_adv'), sb_cc', got', cantrcvmore', overran', segq')
  BY <1>1, <1>5, <1>6, <1>9
<1>11. TcpInv'
  BY <1>3, <1>5, <1>9, <1>10 DEF TcpInv
<1> QED
  BY <1>5, <1>11

LEMMA FastTimeoutKeeps ==
  ASSUME TcpInv, tcp_fasttimo
  PROVE  TcpInv' /\ (cantrcvmore => got' = got)
<1>1. PICK owed \in BOOLEAN, delayed \in BOOLEAN, forced \in BOOLEAN :
        tcp_output(rcv_nxt, sb_cc, owed, delayed, forced)
  BY DEF tcp_fasttimo
<1>2. UNCHANGED <<t_state, rcv_nxt, segq, got, sb_cc, cantrcvmore, overran>>
  BY DEF tcp_fasttimo
<1>3. t_state \in States /\ overran \in BOOLEAN
  BY DEF TcpInv
<1>4. TcpInv'
  BY <1>1, <1>2, <1>3, SendsKeep
<1> QED
  BY <1>2, <1>4

LEMMA ShutdownKeeps ==
  ASSUME TcpInv, PRU_SHUTDOWN
  PROVE  TcpInv' /\ (cantrcvmore => got' = got)
<1>1. acknow \in BOOLEAN /\ delack \in BOOLEAN /\ overran \in BOOLEAN
  BY DEF TcpInv
<1>2. PICK forced \in BOOLEAN : tcp_output(rcv_nxt, sb_cc, acknow, delack, forced)
  BY DEF PRU_SHUTDOWN
<1>3. UNCHANGED <<rcv_nxt, segq, got, sb_cc, cantrcvmore, overran>>
  BY DEF PRU_SHUTDOWN
<1>4. t_state' \in States /\ t_state' # "ESTABLISHED"
  BY DEF PRU_SHUTDOWN, States
<1>5. TcpInv'
  BY <1>1, <1>2, <1>3, <1>4, SendsKeep
<1> QED
  BY <1>3, <1>5

LEMMA NextKeeps ==
  ASSUME TcpInv, [Next]_vars
  PROVE  TcpInv' /\ (cantrcvmore => got' = got)
<1>1. ASSUME NEW s \in Arrivals, tcp_input(s)
      PROVE  TcpInv' /\ (cantrcvmore => got' = got)
  BY <1>1, InputKeeps
<1>2. ASSUME NEW m \in 1..sb_hiwat, PRU_RCVD(m)
      PROVE  TcpInv' /\ (cantrcvmore => got' = got)
  BY <1>2, ReadKeeps
<1>3. CASE tcp_fasttimo
  BY <1>3, FastTimeoutKeeps
<1>4. CASE PRU_SHUTDOWN
  BY <1>4, ShutdownKeeps
<1>5. CASE UNCHANGED vars
  BY <1>5 DEF vars, TcpInv
<1> QED
  BY <1>1, <1>2, <1>3, <1>4, <1>5 DEF Next

LEMMA InitInv ==
  ASSUME Init
  PROVE  TcpInv
<1>1. N \in Nat /\ sb_hiwat \in Nat /\ SeqSpace \in Nat /\ 1 \in Int /\ 1 \in SeqNo
      /\ sb_hiwat + 1 \in SeqNo
  BY Sizes DEF SeqNo
<1>2. At(rcv_nxt, 1) /\ rcv_nxt \in SeqNo
  BY <1>1, AtSeqAt DEF Init
<1>3. Place(rcv_nxt) = 1
  BY <1>1, <1>2, PlaceIs
<1>4. PICK e \in Int : e = 1 + sb_hiwat
  BY <1>1
<1>5. At(rcv_adv, e) /\ rcv_adv \in SeqNo
  <2>1. At(rcv_nxt + sb_hiwat, e)
    BY <1>1, <1>2, <1>4, AtPlus
  <2> QED
    BY <2>1, AtUnsigned DEF Init
<1>6. Place(rcv_adv) = e
  <2>1. e \in SeqNo
    BY <1>1, <1>4
  <2> QED
    BY <1>5, <2>1, PlaceIs
<1>7. PICK z : z = <<>>
  OBVIOUS
<1>8. z \in Seq(InQueue) /\ Len(z) = 0 /\ 1..Len(z) = {}
  BY <1>7
<1>9. PICK n \in Int, cc \in Int, closed \in BOOLEAN, over \in BOOLEAN :
        n = 1 /\ cc = 0 /\ ~closed /\ ~over
  <2>1. 1 \in Int /\ 0 \in Int /\ FALSE \in BOOLEAN /\ ~FALSE
    OBVIOUS
  <2> QED
    BY <2>1, Zenon
<1>10. QueueOk(z, IF closed THEN 1 ELSE n + 1, n + (sb_hiwat - cc), ~over)
  BY <1>8 DEF QueueOk
<1>11. z = Bytes(1, 1)
  BY <1>7, NoBytes
<1>12. Kept(n, e, cc, z, closed, over, z)
  <2>1. n \in 1..(N + 2) /\ e \in 1..(N + sb_hiwat + 2) /\ cc \in 0..sb_hiwat
    BY <1>1, <1>4, <1>9
  <2>2. Len(z) \in 0..N /\ z = Bytes(1, Len(z) + 1) /\ n = Len(z) + 1 /\ cc <= Len(z)
    BY <1>1, <1>8, <1>9, <1>11
  <2>3. cc + (e - n) <= sb_hiwat
    BY <1>1, <1>4, <1>9
  <2> QED
    BY <1>9, <1>10, <2>1, <2>2, <2>3 DEF Kept
<1>13. Kept(1, e, 0, z, FALSE, FALSE, z)
  <2>1. closed = FALSE /\ over = FALSE
    BY <1>9
  <2> QED
    BY <1>9, <1>12, <2>1
<1> QED
  BY <1>2, <1>3, <1>5, <1>6, <1>7, <1>13 DEF Init, TcpInv, States

-----------------------------------------------------------------------------
(* What the invariant says of the variables.                               *)

LEMMA InvTypes ==
  ASSUME TcpInv
  PROVE  TypeOK
<1>1. PICK n : n = Place(rcv_nxt)
  OBVIOUS
<1>2. PICK e : e = Place(rcv_adv)
  OBVIOUS
<1>3. Kept(n, e, sb_cc, got, cantrcvmore, overran, segq)
  BY <1>1, <1>2 DEF TcpInv
<1>4. /\ Len(got) \in 0..N /\ got = Bytes(1, Len(got) + 1) /\ sb_cc \in 0..Len(got)
      /\ segq \in Seq(InQueue)
  <2>1. sb_cc \in 0..sb_hiwat /\ sb_cc <= Len(got) /\ Len(got) \in 0..N
    BY <1>3 DEF Kept
  <2>2. sb_cc \in 0..Len(got)
    BY <2>1, Sizes
  <2> QED
    BY <1>3, <2>1, <2>2 DEF Kept, QueueOk
<1>5. got \in Seq(Byte)
  <2>1. PICK l \in 0..N : l = Len(got)
    BY <1>4
  <2>2. l \in Nat /\ (l + 1) - 1 = l
    BY <2>1, Sizes
  <2>3. got = [j \in 1..l |-> 1 + j - 1]
    BY <1>4, <2>1, <2>2 DEF Bytes
  <2>4. \A j \in 1..l : 1 + j - 1 \in Byte
    BY <2>1, Sizes DEF Byte
  <2> QED
    BY <2>2, <2>3, <2>4
<1> QED
  BY <1>4, <1>5 DEF TypeOK, TcpInv, States, InQueue

LEMMA InvOrder ==
  ASSUME TcpInv
  PROVE  StreamInOrder
<1>1. PICK n : n = Place(rcv_nxt)
  OBVIOUS
<1>2. PICK e : e = Place(rcv_adv)
  OBVIOUS
<1>3. /\ Kept(n, e, sb_cc, got, cantrcvmore, overran, segq)
      /\ rcv_nxt \in SeqNo
  BY <1>1, <1>2 DEF TcpInv
<1>4. At(rcv_nxt, n) /\ n \in 1..(N + 2)
  BY <1>1, <1>3, AtPlace DEF Kept
<1>5. PICK low : low = IF cantrcvmore THEN 1 ELSE n + 1
  OBVIOUS
<1>6. PICK limit, last : QueueOk(segq, low, limit, last)
  BY <1>3, <1>5 DEF Kept
<1>7. /\ segq \in Seq(InQueue)
      /\ \A i \in 1..Len(segq) : Held(segq[i], low, limit, last)
      /\ \A i, j \in 1..Len(segq) : i < j => End(segq[i]) <= First(segq[j])
  BY <1>6 DEF QueueOk
<1>8. ASSUME NEW i \in DOMAIN got PROVE got[i] = i
  <2>1. PICK l \in 0..N : l = Len(got) /\ got = Bytes(1, l + 1)
    BY <1>3 DEF Kept
  <2>2. l \in Nat /\ (l + 1) - 1 = l
    BY <2>1, Sizes
  <2>3. got = [j \in 1..l |-> 1 + j - 1]
    BY <2>1, <2>2 DEF Bytes
  <2>4. i \in 1..l
    BY <2>3
  <2>5. got[i] = 1 + i - 1
    BY <2>3, <2>4
  <2> QED
    BY <2>2, <2>4, <2>5
<1>9. ASSUME NEW x, Held(x, low, limit, last)
      PROVE  /\ x.len = Len(x.m) /\ x.len \in Nat
             /\ \A j \in 1..x.len : Unsigned(x.seq + j - 1) = SeqAt(x.m[j])
             /\ At(x.seq, First(x)) /\ At(EndOf(x), End(x))
             /\ First(x) \in 1..(N + 1) /\ End(x) \in 1..(N + 1)
  <2>1. PICK f \in 1..(N + 1) : f = First(x)
    BY <1>9 DEF Held
  <2>2. /\ x.seq \in SeqNo /\ At(x.seq, f) /\ x.len \in Nat /\ Len(x.m) = x.len
        /\ \A j \in 1..x.len : x.m[j] = f + j - 1
        /\ f + x.len <= N + 1
    BY <1>9, <2>1 DEF Held, Holds, End
  <2>3. ASSUME NEW j \in 1..x.len PROVE Unsigned(x.seq + j - 1) = SeqAt(x.m[j])
    <3>1. PICK d \in Int : d = j - 1
      OBVIOUS
    <3>2. At(x.seq + d, f + d)
      BY <2>2, AtPlus
    <3>3. At(Unsigned(x.seq + d), f + d) /\ Unsigned(x.seq + d) \in SeqNo
      BY <3>2, AtUnsigned
    <3>4. f + d \in Int /\ x.m[j] = f + d
      BY <2>1, <2>2, <3>1, Sizes
    <3>5. At(SeqAt(f + d), f + d) /\ SeqAt(f + d) \in SeqNo
      BY <3>4, AtSeqAt
    <3>6. (f + d) - (f + d) < SeqSpace /\ 0 - SeqSpace < (f + d) - (f + d)
      BY <3>4, Sizes
    <3>7. Unsigned(x.seq + d) = SeqAt(f + d)
      BY <3>3, <3>5, <3>6, SamePlace
    <3>8. x.seq + d = x.seq + j - 1
      BY <2>2, <3>1, Sizes DEF SeqNo
    <3> QED
      BY <3>4, <3>7, <3>8
  <2>4. At(EndOf(x), f + x.len)
    <3>1. PICK l \in Int : l = x.len
      BY <2>2
    <3>2. At(x.seq + l, f + l)
      BY <2>2, AtPlus
    <3> QED
      BY <3>1, <3>2 DEF EndOf
  <2>5. f + x.len \in 1..(N + 1)
    BY <2>1, <2>2, Sizes
  <2> QED
    BY <2>1, <2>2, <2>3, <2>4, <2>5 DEF End
<1>10. \A i \in 1..Len(segq) :
         /\ segq[i].len = Len(segq[i].m)
         /\ \A j \in 1..segq[i].len : Unsigned(segq[i].seq + j - 1) = SeqAt(segq[i].m[j])
  BY <1>7, <1>9
<1>11. ASSUME NEW i \in 1..Len(segq), i > 1
       PROVE  Signed(segq[i].seq - EndOf(segq[i - 1])) >= 0
  <2>1. Len(segq) \in Nat
    BY <1>7
  <2>2. PICK h \in 1..Len(segq) : h = i - 1 /\ h < i
    BY <1>11, <2>1
  <2>3. PICK x : x = segq[i]
    OBVIOUS
  <2>4. PICK y : y = segq[h]
    OBVIOUS
  <2>5. Held(x, low, limit, last) /\ Held(y, low, limit, last) /\ End(y) <= First(x)
    BY <1>7, <2>2, <2>3, <2>4
  <2>6. PICK f \in 1..(N + 1) : f = First(x) /\ At(x.seq, f)
    BY <1>9, <2>5
  <2>7. PICK b \in 1..(N + 1) : b = End(y) /\ At(EndOf(y), b)
    BY <1>9, <2>5
  <2>8. 2 * (f - b) < SeqSpace /\ 0 - SeqSpace < 2 * (f - b) /\ f - b >= 0
    BY <2>5, <2>6, <2>7, Sizes
  <2>9. Signed(x.seq - EndOf(y)) = f - b
    BY <2>6, <2>7, <2>8, AtDifference
  <2> QED
    BY <2>2, <2>3, <2>4, <2>8, <2>9
<1>12. ASSUME segq # <<>>, ~cantrcvmore PROVE SEQ_GT(segq[1].seq, rcv_nxt)
  <2>1. Len(segq) \in Nat /\ Len(segq) # 0
    BY <1>7, <1>12
  <2>2. 1 \in 1..Len(segq)
    BY <2>1
  <2>3. PICK x : x = segq[1]
    OBVIOUS
  <2>4. Held(x, low, limit, last)
    BY <1>7, <2>2, <2>3
  <2>5. PICK f \in 1..(N + 1) : f = First(x) /\ At(x.seq, f)
    BY <1>9, <2>4
  <2>6. f >= n + 1
    BY <1>5, <1>12, <2>4, <2>5 DEF Held
  <2>7. 2 * (f - n) < SeqSpace /\ 0 - SeqSpace < 2 * (f - n) /\ f - n > 0
    BY <1>4, <2>5, <2>6, Sizes
  <2>8. Signed(x.seq - rcv_nxt) = f - n
    BY <1>4, <2>5, <2>7, AtDifference
  <2> QED
    BY <2>3, <2>7, <2>8 DEF SEQ_GT
<1>13. DOMAIN segq = 1..Len(segq)
  BY <1>7
<1> QED
  BY <1>8, <1>10, <1>11, <1>12, <1>13 DEF StreamInOrder

LEMMA InvAcks ==
  ASSUME TcpInv
  PROVE  AcksWhatArrived
<1>1. PICK n : n = Place(rcv_nxt)
  OBVIOUS
<1>2. PICK e : e = Place(rcv_adv)
  OBVIOUS
<1>3. Kept(n, e, sb_cc, got, cantrcvmore, overran, segq) /\ rcv_nxt \in SeqNo
  BY <1>1, <1>2 DEF TcpInv
<1>4. At(rcv_nxt, n) /\ n \in Int
  BY <1>1, <1>3, AtPlace DEF Kept
<1>5. rcv_nxt = SeqAt(n)
  <2>1. At(SeqAt(n), n) /\ SeqAt(n) \in SeqNo
    BY <1>4, AtSeqAt
  <2>2. n - n < SeqSpace /\ 0 - SeqSpace < n - n
    BY <1>4, Sizes
  <2> QED
    BY <1>3, <1>4, <2>1, <2>2, SamePlace
<1> QED
  BY <1>3, <1>5 DEF AcksWhatArrived, Kept

LEMMA InvPromise ==
  ASSUME TcpInv
  PROVE  PromiseFits
<1>1. PICK n : n = Place(rcv_nxt)
  OBVIOUS
<1>2. PICK e : e = Place(rcv_adv)
  OBVIOUS
<1>3. /\ Kept(n, e, sb_cc, got, cantrcvmore, overran, segq)
      /\ rcv_nxt \in SeqNo /\ rcv_adv \in SeqNo
  BY <1>1, <1>2 DEF TcpInv
<1>4. /\ n \in 1..(N + 2) /\ e \in 1..(N + sb_hiwat + 2)
      /\ sb_cc \in 0..sb_hiwat /\ sb_cc + (e - n) <= sb_hiwat
  BY <1>3 DEF Kept
<1>5. At(rcv_nxt, n) /\ At(rcv_adv, e)
  BY <1>1, <1>2, <1>3, AtPlace
<1>6. 2 * (e - n) < SeqSpace /\ 0 - SeqSpace < 2 * (e - n)
  BY <1>4, Sizes
<1>7. Signed(rcv_adv - rcv_nxt) = e - n
  BY <1>5, <1>6, AtDifference
<1>8. PICK d \in Int : d = e - n /\ sb_cc + d <= sb_hiwat
  BY <1>4, Sizes
<1> QED
  BY <1>4, <1>7, <1>8, Sizes DEF PromiseFits, Larger

-----------------------------------------------------------------------------
(* Whatever arrives, however the process reads and tcp_output() fails, the *)
(* connection is as TcpInv says after every handler.                       *)
THEOREM TcpInductive == Spec => []TcpInv
<1>1. Init => TcpInv
  BY InitInv
<1>2. TcpInv /\ [Next]_vars => TcpInv'
  BY NextKeeps
<1> QED
  BY <1>1, <1>2, PTL DEF Spec

(* Every field of the connection and of its reassembly queue keeps its     *)
(* range, and no more is unread than was appended.                         *)
THEOREM TcpReceiveTypeOK == Spec => []TypeOK
<1>1. TcpInv => TypeOK
  BY InvTypes
<1> QED
  BY <1>1, TcpInductive, PTL

(* tcp_reass() and TCP_REASS give the process the bytes of the stream in   *)
(* order, each once; the queue holds what its headers say, in order.       *)
THEOREM TcpStreamInOrder == Spec => []StreamInOrder
<1>1. TcpInv => StreamInOrder
  BY InvOrder
<1> QED
  BY <1>1, TcpInductive, PTL

(* rcv_nxt, which every ACK carries, is what was given to the process; the *)
(* FIN is taken at the end of the stream unless the peer overran.          *)
THEOREM TcpAcksWhatArrived == Spec => []AcksWhatArrived
<1>1. TcpInv => AcksWhatArrived
  BY InvAcks
<1> QED
  BY <1>1, TcpInductive, PTL

(* The window tcp_output() advertised never exceeds the room of so_rcv,    *)
(* even when the peer sends past it.                                       *)
THEOREM TcpPromiseFits == Spec => []PromiseFits
<1>1. TcpInv => PromiseFits
  BY InvPromise
<1> QED
  BY <1>1, TcpInductive, PTL

(* After the FIN tcp_input() appends nothing: "If a FIN has already been   *)
(* received on this connection then we just ignore the text."              *)
THEOREM TcpNoTextAfterFin == Spec => NoTextAfterFin
<1>1. TcpInv /\ [Next]_vars => [cantrcvmore => got' = got]_vars
  BY NextKeeps
<1> QED
  BY <1>1, TcpInductive, PTL DEF Spec, NoTextAfterFin
=============================================================================
