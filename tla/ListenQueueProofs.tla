-------------------------- MODULE ListenQueueProofs --------------------------
(* The queues of a listening socket agree with their counts, every socket  *)
(* is freed when nobody refers to it, and no wakeup of accept() is lost,   *)
(* for any number of processes and sockets and any backlog.                *)
EXTENDS ListenQueue, SequenceTheorems, TLAPS

-----------------------------------------------------------------------------
(* Sequences without repetitions.                                          *)

LEMMA AppendOne ==
  ASSUME NEW S, NEW q \in Seq(S), NEW s \in S, IsInjective(q), s \notin Range(q)
  PROVE  /\ Append(q, s) \in Seq(S) /\ Len(Append(q, s)) = Len(q) + 1
         /\ IsInjective(Append(q, s)) /\ Range(Append(q, s)) = Range(q) \cup {s}
<1> PICK t : t = Append(q, s)
  OBVIOUS
<1>1. /\ t \in Seq(S) /\ Len(t) = Len(q) + 1 /\ t[Len(q) + 1] = s
      /\ \A i \in 1..Len(q) : t[i] = q[i]
  BY AppendProperties
<1>2. DOMAIN t = 1..Len(q) + 1 /\ DOMAIN q = 1..Len(q) /\ Len(q) \in Nat
  BY <1>1
<1>3. \A i \in 1..Len(q) : q[i] # s
  BY <1>2 DEF Range
<1>4. IsInjective(t)
  <2> SUFFICES ASSUME NEW i \in 1..Len(q) + 1, NEW j \in 1..Len(q) + 1, t[i] = t[j] PROVE i = j
    BY <1>2 DEF IsInjective
  <2>1. CASE i \in 1..Len(q) /\ j \in 1..Len(q)
    BY <1>1, <1>2, <2>1 DEF IsInjective
  <2>2. CASE i = Len(q) + 1 \/ j = Len(q) + 1
    BY <1>1, <1>2, <1>3, <2>2
  <2> QED BY <1>2, <2>1, <2>2
<1>5. Range(t) = Range(q) \cup {s}
  <2>1. ASSUME NEW x \in Range(t) PROVE x \in Range(q) \cup {s}
    BY <1>1, <1>2, <2>1 DEF Range
  <2>2. ASSUME NEW x \in Range(q) PROVE x \in Range(t)
    BY <1>1, <1>2, <2>2 DEF Range
  <2>3. s \in Range(t)
    BY <1>1, <1>2 DEF Range
  <2> QED BY <2>1, <2>2, <2>3
<1> QED BY <1>1, <1>4, <1>5

LEMMA RemoveOne ==
  ASSUME NEW S, NEW q \in Seq(S), NEW s \in Range(q), IsInjective(q)
  PROVE  /\ RemoveFirst(q, s) \in Seq(S) /\ Len(RemoveFirst(q, s)) = Len(q) - 1
         /\ IsInjective(RemoveFirst(q, s)) /\ Range(RemoveFirst(q, s)) = Range(q) \ {s}
<1>1. DOMAIN q = 1..Len(q) /\ Len(q) \in Nat
  OBVIOUS
<1>2. PICK k \in 1..Len(q) : q[k] = s
  BY <1>1 DEF Range
<1>3. {i \in 1..Len(q) : q[i] = s} = {k}
  BY <1>1, <1>2 DEF IsInjective
<1>4. SelectInSeq(q, LAMBDA v : v = s) = k
  <2>1. (CHOOSE x \in {k} : \A y \in {k} : x =< y) = k
    BY <1>2
  <2> QED BY <1>3, <2>1 DEF SelectInSeq, Min
<1> PICK t, n : t = RemoveFirst(q, s) /\ n = Len(q)
  OBVIOUS
<1>n. n \in Nat /\ k \in Nat /\ 1 <= k /\ k <= n /\ DOMAIN q = 1..n /\ \A i \in 1..n : q[i] \in S
  BY <1>1, <1>2
<1>5. t = SubSeq(q, 1, k - 1) \o SubSeq(q, k + 1, n)
  BY <1>2, <1>4 DEF RemoveFirst, RemoveAt
<1> PICK u, v : u = SubSeq(q, 1, k - 1) /\ v = SubSeq(q, k + 1, n)
  OBVIOUS
<1>6. u \in Seq(S) /\ Len(u) = k - 1 /\ \A i \in 1..k - 1 : u[i] = q[i]
  <2>1. (\A i \in 1..k - 1 : q[i] \in S) /\ 1 \in Int /\ k - 1 \in Int
    BY <1>n
  <2>2. /\ u \in Seq(S) /\ Len(u) = IF 1 <= k - 1 THEN (k - 1) - 1 + 1 ELSE 0
        /\ \A i \in 1..(k - 1) - 1 + 1 : u[i] = q[1 + i - 1]
    BY <2>1, SubSeqProperties
  <2> QED BY <1>n, <2>2
<1>7. v \in Seq(S) /\ Len(v) = n - k /\ \A i \in 1..n - k : v[i] = q[i + k]
  <2>1. (\A i \in k + 1..n : q[i] \in S) /\ k + 1 \in Int /\ n \in Int
    BY <1>n
  <2>2. /\ v \in Seq(S) /\ Len(v) = IF k + 1 <= n THEN n - (k + 1) + 1 ELSE 0
        /\ \A i \in 1..n - (k + 1) + 1 : v[i] = q[(k + 1) + i - 1]
    BY <2>1, SubSeqProperties
  <2>3. ASSUME NEW i \in 1..n - k PROVE v[i] = q[i + k]
    <3>1. i \in 1..n - (k + 1) + 1 /\ (k + 1) + i - 1 = i + k
      BY <1>n
    <3>2. v[i] = q[(k + 1) + i - 1]
      BY <2>2, <3>1
    <3> QED BY <3>1, <3>2
  <2>4. Len(v) = n - k
    BY <1>n, <2>2
  <2> QED BY <2>2, <2>3, <2>4
<1>8. /\ t \in Seq(S) /\ Len(t) = n - 1
      /\ \A i \in 1..n - 1 : t[i] = IF i < k THEN q[i] ELSE q[i + 1]
  <2>1. /\ t \in Seq(S) /\ Len(t) = Len(u) + Len(v)
        /\ \A i \in 1..Len(u) + Len(v) : t[i] = IF i <= Len(u) THEN u[i] ELSE v[i - Len(u)]
    <3>1. u \in Seq(S) /\ v \in Seq(S)
      BY <1>6, <1>7
    <3>2. /\ u \o v \in Seq(S) /\ Len(u \o v) = Len(u) + Len(v)
          /\ \A i \in 1..Len(u) + Len(v) : (u \o v)[i] = IF i <= Len(u) THEN u[i] ELSE v[i - Len(u)]
      BY <3>1, ConcatProperties, ZenonT(30)
    <3>3. t = u \o v
      BY <1>5
    <3> QED BY <3>2, <3>3, Zenon
  <2>2. (k - 1) + (n - k) = n - 1
    BY <1>n
  <2>3. /\ Len(t) = n - 1
        /\ \A i \in 1..n - 1 : t[i] = IF i <= k - 1 THEN u[i] ELSE v[i - (k - 1)]
    BY <1>6, <1>7, <2>1, <2>2, Zenon
  <2>4. ASSUME NEW i \in 1..n - 1, i < k PROVE t[i] = q[i]
    <3>1. i \in 1..k - 1 /\ i <= k - 1
      BY <1>n, <2>4
    <3> QED BY <1>6, <2>3, <3>1
  <2>5. ASSUME NEW i \in 1..n - 1, ~(i < k) PROVE t[i] = q[i + 1]
    <3>1. ~(i <= k - 1) /\ i - (k - 1) \in 1..n - k /\ (i - (k - 1)) + k = i + 1
      BY <1>n, <2>5
    <3>2. t[i] = v[i - (k - 1)]
      BY <2>3, <3>1
    <3> QED BY <1>7, <3>1, <3>2
  <2> QED BY <2>1, <2>3, <2>4, <2>5
<1>9. DOMAIN t = 1..n - 1
  BY <1>n, <1>8
<1> DEFINE old(i) == IF i < k THEN i ELSE i + 1
<1>10. \A i \in 1..n - 1 : old(i) \in 1..n /\ old(i) # k /\ t[i] = q[old(i)]
  BY <1>n, <1>8
<1>11. \A i, j \in 1..n - 1 : old(i) = old(j) => i = j
  BY <1>n
<1>12. \A j \in 1..n : j # k => \E i \in 1..n - 1 : old(i) = j
  <2> SUFFICES ASSUME NEW j \in 1..n, j # k PROVE \E i \in 1..n - 1 : old(i) = j
    OBVIOUS
  <2>1. CASE j < k
    <3>1. j \in 1..n - 1 /\ old(j) = j
      BY <1>n, <2>1
    <3> QED BY <3>1
  <2>2. CASE j > k
    <3>1. j - 1 \in 1..n - 1 /\ old(j - 1) = j
      BY <1>n, <2>2
    <3> QED BY <3>1
  <2> QED BY <1>n, <2>1, <2>2
<1> HIDE DEF old
<1>13. \A i, j \in 1..n : q[i] = q[j] => i = j
  BY <1>n DEF IsInjective
<1>14. IsInjective(t)
  <2> SUFFICES ASSUME NEW i \in 1..n - 1, NEW j \in 1..n - 1, t[i] = t[j] PROVE i = j
    BY <1>9 DEF IsInjective
  <2>1. /\ old(i) \in 1..n /\ t[i] = q[old(i)]
        /\ old(j) \in 1..n /\ t[j] = q[old(j)]
    BY <1>10
  <2>2. q[old(i)] = q[old(j)]
    BY <2>1
  <2>3. old(i) = old(j)
    BY <1>13, <2>1, <2>2
  <2> QED BY <1>11, <2>3
<1>15. Range(t) \subseteq Range(q) \ {s}
  <2> SUFFICES ASSUME NEW i \in 1..n - 1 PROVE t[i] \in Range(q) /\ t[i] # s
    BY <1>9 DEF Range
  <2>1. t[i] = q[old(i)] /\ old(i) \in 1..n /\ old(i) # k
    BY <1>10
  <2>2. q[old(i)] # q[k]
    BY <1>13, <2>1
  <2> QED BY <1>n, <1>2, <2>1, <2>2 DEF Range
<1>16. Range(q) \ {s} \subseteq Range(t)
  <2> SUFFICES ASSUME NEW j \in 1..n, j # k PROVE q[j] \in Range(t)
    BY <1>n, <1>2 DEF Range
  <2>1. PICK i \in 1..n - 1 : old(i) = j
    BY <1>12
  <2>2. t[i] = q[j]
    BY <1>10, <2>1
  <2> QED BY <1>9, <2>2 DEF Range
<1>17. Range(t) = Range(q) \ {s}
  BY <1>15, <1>16
<1> QED BY <1>8, <1>14, <1>17

-----------------------------------------------------------------------------
(* The queues of sockets k as sets, and their structure.                   *)
Q(k, i) == Range(k.queue[i])

Queues(k) ==
  /\ k \in Sockets
  /\ \A i \in {0, 1} : k.len[i] = Len(k.queue[i]) /\ IsInjective(k.queue[i])
  /\ Q(k, 0) \cap Q(k, 1) = {}
  /\ k.head = Q(k, 0) \cup Q(k, 1)

(* The sockets n are k with others on the queues.                          *)
Requeued(k, n) ==
  n \in Sockets /\ n.alloc = k.alloc /\ n.pcb = k.pcb /\ n.nofdref = k.nofdref

LEMMA Inserted ==
  ASSUME NEW k, Queues(k), NEW i \in {0, 1}, NEW j \in {0, 1}, i # j,
         NEW s \in Sock, s \notin Q(k, 0) \cup Q(k, 1)
  PROVE  LET n == soqinsque(k, s, i)
         IN /\ Queues(n) /\ Requeued(k, n)
            /\ Q(n, i) = Q(k, i) \cup {s} /\ Q(n, j) = Q(k, j)
            /\ n.len[i] = k.len[i] + 1 /\ n.len[j] = k.len[j]
<1> PICK n, q : n = soqinsque(k, s, i) /\ q = Append(k.queue[i], s)
  OBVIOUS
<1>1. k \in Sockets /\ k.queue[i] \in Seq(Sock) /\ s \notin Range(k.queue[i]) /\ IsInjective(k.queue[i])
  BY DEF Queues, Q, Sockets
<1>2. /\ q \in Seq(Sock) /\ Len(q) = Len(k.queue[i]) + 1
      /\ IsInjective(q) /\ Range(q) = Q(k, i) \cup {s}
  BY <1>1, AppendOne DEF Q
<1>3. /\ n.alloc = k.alloc /\ n.pcb = k.pcb /\ n.nofdref = k.nofdref
      /\ n.head = k.head \cup {s} /\ n.queue = [k.queue EXCEPT ![i] = q]
      /\ n.len = [k.len EXCEPT ![i] = k.len[i] + 1]
      /\ n = [alloc |-> n.alloc, pcb |-> n.pcb, nofdref |-> n.nofdref, head |-> n.head,
              queue |-> n.queue, len |-> n.len]
  BY <1>1 DEF soqinsque, Sockets
<1>4. \A x \in {0, 1} : x = i \/ x = j
  OBVIOUS
<1>5. n.queue[i] = q /\ n.queue[j] = k.queue[j]
  BY <1>1, <1>3, <1>4 DEF Sockets
<1>6. n.len[i] = k.len[i] + 1 /\ n.len[j] = k.len[j]
  BY <1>1, <1>3, <1>4 DEF Sockets
<1>7. n \in Sockets
  <2>1. n.alloc \in SUBSET Sock /\ n.pcb \in [Sock -> State] /\ n.nofdref \in SUBSET Sock
    BY <1>1, <1>3 DEF Sockets
  <2>2. n.head \in SUBSET Sock
    BY <1>1, <1>3 DEF Sockets
  <2>3. n.queue \in [{0, 1} -> Seq(Sock)]
    BY <1>1, <1>2, <1>3 DEF Sockets
  <2>4. n.len \in [{0, 1} -> Nat]
    BY <1>1, <1>3 DEF Sockets
  <2> QED BY <1>3, <2>1, <2>2, <2>3, <2>4 DEF Sockets
<1>8. Q(n, i) = Q(k, i) \cup {s} /\ Q(n, j) = Q(k, j)
  BY <1>2, <1>5 DEF Q
<1>9. \A x \in {0, 1} : n.len[x] = Len(n.queue[x]) /\ IsInjective(n.queue[x])
  BY <1>2, <1>4, <1>5, <1>6 DEF Queues
<1>10. Q(n, 0) \cap Q(n, 1) = {} /\ n.head = Q(n, 0) \cup Q(n, 1)
  <2>1. CASE i = 0
    BY <1>3, <1>8, <2>1 DEF Queues
  <2>2. CASE i = 1
    BY <1>3, <1>8, <2>2 DEF Queues
  <2> QED BY <2>1, <2>2
<1> QED BY <1>3, <1>6, <1>7, <1>8, <1>9, <1>10 DEF Queues, Requeued

LEMMA Removed ==
  ASSUME NEW k, Queues(k), NEW i \in {0, 1}, NEW j \in {0, 1}, i # j,
         NEW s \in Q(k, i)
  PROVE  LET n == soqremque(k, s, i)
         IN /\ Queues(n) /\ Requeued(k, n)
            /\ Q(n, i) = Q(k, i) \ {s} /\ Q(n, j) = Q(k, j)
            /\ n.len[i] = k.len[i] - 1 /\ n.len[j] = k.len[j]
<1> PICK n, q : n = soqremque(k, s, i) /\ q = RemoveFirst(k.queue[i], s)
  OBVIOUS
<1>1. k \in Sockets /\ k.queue[i] \in Seq(Sock) /\ s \in Range(k.queue[i]) /\ IsInjective(k.queue[i])
  BY DEF Queues, Q, Sockets
<1>2. /\ q \in Seq(Sock) /\ Len(q) = Len(k.queue[i]) - 1
      /\ IsInjective(q) /\ Range(q) = Q(k, i) \ {s}
  BY <1>1, RemoveOne DEF Q
<1>3. /\ n.alloc = k.alloc /\ n.pcb = k.pcb /\ n.nofdref = k.nofdref
      /\ n.head = k.head \ {s} /\ n.queue = [k.queue EXCEPT ![i] = q]
      /\ n.len = [k.len EXCEPT ![i] = k.len[i] - 1]
      /\ n = [alloc |-> n.alloc, pcb |-> n.pcb, nofdref |-> n.nofdref, head |-> n.head,
              queue |-> n.queue, len |-> n.len]
  BY <1>1 DEF soqremque, Sockets
<1>4. \A x \in {0, 1} : x = i \/ x = j
  OBVIOUS
<1>5. n.queue[i] = q /\ n.queue[j] = k.queue[j]
  BY <1>1, <1>3, <1>4 DEF Sockets
<1>6. n.len[i] = k.len[i] - 1 /\ n.len[j] = k.len[j]
  BY <1>1, <1>3, <1>4 DEF Sockets
<1>7. n \in Sockets
  <2>1. n.alloc \in SUBSET Sock /\ n.pcb \in [Sock -> State] /\ n.nofdref \in SUBSET Sock
    BY <1>1, <1>3 DEF Sockets
  <2>2. n.head \in SUBSET Sock
    BY <1>1, <1>3 DEF Sockets
  <2>3. n.queue \in [{0, 1} -> Seq(Sock)]
    BY <1>1, <1>2, <1>3 DEF Sockets
  <2>4. Len(q) \in Nat /\ k.len[i] - 1 = Len(q)
    <3>1. Len(q) \in Nat
      BY <1>2
    <3>2. k.len[i] = Len(k.queue[i])
      BY DEF Queues
    <3> QED BY <1>2, <3>1, <3>2
  <2>5. n.len \in [{0, 1} -> Nat]
    BY <1>1, <1>3, <2>4 DEF Sockets
  <2> QED BY <1>3, <2>1, <2>2, <2>3, <2>5 DEF Sockets
<1>8. Q(n, i) = Q(k, i) \ {s} /\ Q(n, j) = Q(k, j)
  BY <1>2, <1>5 DEF Q
<1>9. \A x \in {0, 1} : n.len[x] = Len(n.queue[x]) /\ IsInjective(n.queue[x])
  BY <1>2, <1>4, <1>5, <1>6 DEF Queues
<1>10. Q(n, 0) \cap Q(n, 1) = {} /\ n.head = Q(n, 0) \cup Q(n, 1)
  <2>1. CASE i = 0
    BY <1>3, <1>8, <2>1 DEF Queues
  <2>2. CASE i = 1
    BY <1>3, <1>8, <2>2 DEF Queues
  <2> QED BY <2>1, <2>2
<1> QED BY <1>3, <1>6, <1>7, <1>8, <1>9, <1>10 DEF Queues, Requeued

(* The queues do not depend on the other fields.                           *)
LEMMA SameQueues ==
  ASSUME NEW k, Queues(k), NEW n \in Sockets, n.head = k.head, n.queue = k.queue, n.len = k.len
  PROVE  Queues(n) /\ \A i \in {0, 1} : Q(n, i) = Q(k, i)
BY DEF Queues, Q

LEMMA WithState ==
  ASSUME NEW k, Queues(k), NEW s \in Sock, NEW state \in State
  PROVE  LET n == [k EXCEPT !.pcb[s] = state]
         IN /\ Queues(n) /\ \A i \in {0, 1} : Q(n, i) = Q(k, i)
            /\ n.alloc = k.alloc /\ n.nofdref = k.nofdref /\ n.len = k.len
            /\ n.pcb = [k.pcb EXCEPT ![s] = state]
<1> PICK n : n = [k EXCEPT !.pcb[s] = state]
  OBVIOUS
<1>1. /\ n.alloc = k.alloc /\ n.nofdref = k.nofdref /\ n.head = k.head
      /\ n.queue = k.queue /\ n.len = k.len /\ n.pcb = [k.pcb EXCEPT ![s] = state]
  BY DEF Queues, Sockets
<1>2. n \in Sockets
  BY DEF Queues, Sockets
<1> QED BY <1>1, <1>2, SameQueues

LEMMA DequeuedOff ==
  ASSUME NEW k, Queues(k), NEW s \in Sock
  PROVE  LET n == Dequeued(k, s)
         IN /\ Queues(n) /\ Requeued(k, n)
            /\ \A i \in {0, 1} : Q(n, i) = Q(k, i) \ {s} /\ n.len[i] <= k.len[i]
<1> PICK n : n = Dequeued(k, s)
  OBVIOUS
<1>0. k \in Sockets /\ \A i \in {0, 1} : k.len[i] \in Nat
  BY DEF Queues, Sockets
<1>1. ASSUME NEW i \in {0, 1}, s \in Q(k, i), n = soqremque(k, s, i)
      PROVE  /\ Queues(n) /\ Requeued(k, n)
             /\ \A j \in {0, 1} : Q(n, j) = Q(k, j) \ {s} /\ n.len[j] <= k.len[j]
  <2>0. PICK o \in {0, 1} : o # i
    OBVIOUS
  <2>1. /\ Queues(n) /\ Requeued(k, n)
        /\ Q(n, i) = Q(k, i) \ {s} /\ Q(n, o) = Q(k, o)
        /\ n.len[i] = k.len[i] - 1 /\ n.len[o] = k.len[o]
    BY <1>1, <2>0, Removed
  <2>2. \A j \in {0, 1} : j = i \/ j = o
    BY <2>0
  <2>3. s \notin Q(k, o)
    <3>1. CASE i = 0
      BY <1>1, <2>0, <3>1 DEF Queues
    <3>2. CASE i = 1
      BY <1>1, <2>0, <3>2 DEF Queues
    <3> QED BY <3>1, <3>2
  <2>4. \A j \in {0, 1} : Q(n, j) = Q(k, j) \ {s}
    BY <2>1, <2>2, <2>3
  <2>5. n.len[i] <= k.len[i] /\ n.len[o] <= k.len[o]
    BY <1>0, <2>0, <2>1, <2>2
  <2> QED BY <2>1, <2>2, <2>4, <2>5
<1>2. CASE s \in Q(k, 0)
  BY <1>1, <1>2 DEF Dequeued, On, Q
<1>3. CASE s \notin Q(k, 0) /\ s \in Q(k, 1)
  BY <1>1, <1>3 DEF Dequeued, On, Q
<1>4. CASE s \notin Q(k, 0) /\ s \notin Q(k, 1)
  <2>1. n = k
    BY <1>4 DEF Dequeued, On, Q
  <2>2. \A i \in {0, 1} : s \notin Q(k, i)
    BY <1>4
  <2> QED BY <1>0, <2>1, <2>2 DEF Requeued
<1> QED BY <1>2, <1>3, <1>4

LEMMA Freed ==
  ASSUME NEW k, Queues(k), NEW s \in Sock
  PROVE  LET n == sofree(k, s)
         IN /\ Queues(n) /\ n.pcb = k.pcb
            /\ \A i \in {0, 1} : n.len[i] <= k.len[i]
            /\ Unused(k, s) =>
                 /\ n.alloc = k.alloc \ {s} /\ n.nofdref = k.nofdref \ {s}
                 /\ \A i \in {0, 1} : Q(n, i) = Q(k, i) \ {s}
            /\ ~Unused(k, s) => n = k
<1> PICK n, d : n = sofree(k, s) /\ d = Dequeued(k, s)
  OBVIOUS
<1>1. CASE ~Unused(k, s)
  <2>1. n = k
    BY <1>1 DEF sofree
  <2>2. \A i \in {0, 1} : k.len[i] <= k.len[i]
    BY DEF Queues, Sockets
  <2> QED BY <1>1, <2>1, <2>2
<1>2. CASE Unused(k, s)
  <2>1. /\ Queues(d) /\ Requeued(k, d)
        /\ \A i \in {0, 1} : Q(d, i) = Q(k, i) \ {s} /\ d.len[i] <= k.len[i]
    BY DequeuedOff
  <2>2. n = [d EXCEPT !.alloc = @ \ {s}, !.nofdref = @ \ {s}]
    BY <1>2 DEF sofree
  <2>3. d \in Sockets
    BY <2>1 DEF Queues
  <2>4. /\ n.alloc = d.alloc \ {s} /\ n.nofdref = d.nofdref \ {s} /\ n.head = d.head
        /\ n.queue = d.queue /\ n.len = d.len /\ n.pcb = d.pcb
    BY <2>2, <2>3, SMTT(30) DEF Sockets
  <2>5. n \in Sockets
    BY <2>2, <2>3 DEF Sockets
  <2>6. Queues(n) /\ \A i \in {0, 1} : Q(n, i) = Q(d, i)
    BY <2>1, <2>4, <2>5, SameQueues
  <2> QED BY <1>2, <2>1, <2>4, <2>6 DEF Requeued
<1> QED BY <1>1, <1>2

(* A connection ends: what nobody else refers to is freed.                 *)
LEMMA Closed ==
  ASSUME NEW k, Queues(k), NEW s \in Sock
  PROVE  LET n == tcp_close(k, s)
         IN /\ Queues(n) /\ n.pcb = [k.pcb EXCEPT ![s] = "none"]
            /\ \A i \in {0, 1} : n.len[i] <= k.len[i]
            /\ s \in k.nofdref =>
                 /\ n.alloc = k.alloc \ {s} /\ n.nofdref = k.nofdref \ {s}
                 /\ \A i \in {0, 1} : Q(n, i) = Q(k, i) \ {s}
            /\ s \notin k.nofdref =>
                 /\ n.alloc = k.alloc /\ n.nofdref = k.nofdref
                 /\ \A i \in {0, 1} : Q(n, i) = Q(k, i)
<1>0. PICK n, m : n = tcp_close(k, s) /\ m = [k EXCEPT !.pcb[s] = "none"]
  OBVIOUS
<1>1. /\ Queues(m) /\ \A i \in {0, 1} : Q(m, i) = Q(k, i)
      /\ m.alloc = k.alloc /\ m.nofdref = k.nofdref /\ m.len = k.len
      /\ m.pcb = [k.pcb EXCEPT ![s] = "none"]
  <2>1. "none" \in State
    BY DEF State
  <2> QED BY <1>0, <2>1, WithState
<1>2. n = sofree(m, s)
  BY <1>0 DEF tcp_close
<1>3. /\ Queues(n) /\ n.pcb = m.pcb
      /\ \A i \in {0, 1} : n.len[i] <= m.len[i]
      /\ Unused(m, s) =>
           /\ n.alloc = m.alloc \ {s} /\ n.nofdref = m.nofdref \ {s}
           /\ \A i \in {0, 1} : Q(n, i) = Q(m, i) \ {s}
      /\ ~Unused(m, s) => n = m
  BY <1>1, <1>2, Freed, SMTT(30)
<1>4. m.pcb[s] = "none"
  BY <1>1 DEF Queues, Sockets
<1>5. Unused(m, s) <=> s \in k.nofdref
  BY <1>1, <1>4 DEF Unused
<1> QED BY <1>0, <1>1, <1>3, <1>5

-----------------------------------------------------------------------------
(* The invariant.  Who refers to a socket, and when it may be on a queue.  *)
Open(s) == {p \in Proc : s \in files[p]}
Taken(s) == {p \in Proc : proc[p].aso = s}

Kept(s) ==
  /\ s \in Q(so, 0) => so.pcb[s] \in {"SYN_RECEIVED", "CLOSE_WAIT"}
  /\ s \in Q(so, 1) => so.pcb[s] \in {"ESTABLISHED", "CLOSE_WAIT"}
  /\ s \in Q(so, 0) \cup Q(so, 1) => s \in so.nofdref
  /\ s \in so.nofdref <=> s \in so.alloc /\ Open(s) = {}
  /\ s \in so.alloc <=> so.pcb[s] # "none" \/ Open(s) # {}
  /\ \A p, q \in Open(s) \cup Taken(s) : p = q
  /\ Taken(s) # {} => s \in so.nofdref /\ s \notin Q(so, 0) \cup Q(so, 1)

(* A process in accept1() has the listener open, holds a socket only in    *)
(* m_get(), and sleeps only while one may still come.                      *)
Placed(p) ==
  /\ proc[p].at # "user" => p \in listener.open
  /\ proc[p].aso # NONE => proc[p].at = "m_get"
  /\ proc[p].at = "asleep" => so.len[1] = 0 /\ listener.pcb = "LISTEN"

ListenerKept ==
  /\ listener.closing => listener.open = {}
  /\ listener.pcb = "LISTEN" => listener.open # {} \/ listener.closing
  /\ listener.pcb = "none" => listener.cantrcvmore \/ listener.open = {}
  /\ listener.open = {} /\ ~listener.closing => Q(so, 0) \cup Q(so, 1) = {}

WithinLimit == so.len[0] + so.len[1] <= (3 * Qlimit) \div 2 + 1

IInv ==
  /\ TypeOK /\ Queues(so) /\ WithinLimit
  /\ \A s \in Sock : Kept(s)
  /\ \A p \in Proc : Placed(p)
  /\ ListenerKept

LEMMA InitIInv == Init => IInv
<1> SUFFICES ASSUME Init PROVE IInv
  OBVIOUS
<1>1. Q(so, 0) = {} /\ Q(so, 1) = {}
  <2>1. so.queue[0] = <<>> /\ so.queue[1] = <<>>
    BY DEF Init
  <2>2. Range(<<>>) = {}
    BY DEF Range
  <2> QED BY <2>1, <2>2 DEF Q
<1>2. so \in Sockets
  <2>1. [i \in {0, 1} |-> <<>>] \in [{0, 1} -> Seq(Sock)]
    OBVIOUS
  <2>2. [s \in Sock |-> "none"] \in [Sock -> State]
    BY DEF State
  <2> QED BY <2>1, <2>2 DEF Init, Sockets
<1>3. TypeOK
  BY <1>2 DEF Init, TypeOK, Listener, Process, Place, Idle
<1>4. Queues(so)
  <2>1. so.queue[0] = <<>> /\ so.queue[1] = <<>> /\ so.len[0] = 0 /\ so.len[1] = 0 /\ so.head = {}
    BY DEF Init
  <2>2. Len(<<>>) = 0 /\ IsInjective(<<>>)
    BY DEF IsInjective
  <2> QED BY <1>1, <1>2, <2>1, <2>2 DEF Queues
<1>5. WithinLimit
  BY QlimitType DEF Init, WithinLimit
<1>6. ASSUME NEW s \in Sock PROVE Kept(s)
  <2>1. Open(s) = {} /\ Taken(s) = {}
    BY NoneIsNew DEF Init, Open, Taken, Idle
  <2>2. s \notin so.nofdref /\ s \notin so.alloc /\ so.pcb[s] = "none"
    BY DEF Init
  <2> QED BY <1>1, <2>1, <2>2 DEF Kept
<1>7. ASSUME NEW p \in Proc PROVE Placed(p)
  BY DEF Init, Placed, Idle
<1>8. ListenerKept
  BY <1>1, SomebodyListens DEF Init, ListenerKept
<1> QED BY <1>3, <1>4, <1>5, <1>6, <1>7, <1>8 DEF IInv

-----------------------------------------------------------------------------
(* What a step leaves alone.                                               *)
SameSocket(t) ==
  /\ so'.pcb[t] = so.pcb[t]
  /\ t \in so'.nofdref <=> t \in so.nofdref
  /\ t \in so'.alloc <=> t \in so.alloc
  /\ \A i \in {0, 1} : t \in Q(so', i) <=> t \in Q(so, i)
  /\ \A p \in Proc : /\ t \in files'[p] <=> t \in files[p]
                     /\ proc'[p].aso = t <=> proc[p].aso = t

LEMMA OtherSocket ==
  ASSUME NEW t \in Sock, Kept(t), SameSocket(t)
  PROVE  Kept(t)'
<1>1. Open(t)' = Open(t) /\ Taken(t)' = Taken(t)
  BY DEF SameSocket, Open, Taken
<1>2. \A i \in {0, 1} : t \in Q(so, i)' <=> t \in Q(so, i)
  BY DEF SameSocket, Q
<1>3. /\ so'.pcb[t] = so.pcb[t] /\ (t \in so'.nofdref <=> t \in so.nofdref)
      /\ t \in so'.alloc <=> t \in so.alloc
  BY DEF SameSocket
<1> QED BY <1>1, <1>2, <1>3 DEF Kept

(* A process stays where it is, but may lose the socket it took.           *)
LEMMA OtherProcess ==
  ASSUME NEW p \in Proc, Placed(p), listener' = listener, proc'[p].at = proc[p].at,
         proc'[p].aso \in {proc[p].aso, NONE},
         proc[p].at = "asleep" => (so.len[1] = 0 => so'.len[1] = 0)
  PROVE  Placed(p)'
BY DEF Placed

LEMMA SameListener ==
  ASSUME ListenerKept, listener' = listener,
         Q(so', 0) \cup Q(so', 1) \subseteq Q(so, 0) \cup Q(so, 1)
  PROVE  ListenerKept'
<1>1. Q(so, 0)' = Q(so', 0) /\ Q(so, 1)' = Q(so', 1)
  BY DEF Q
<1> QED BY <1>1 DEF ListenerKept

(* The types of the fields, for the steps below.                           *)
LEMMA Types ==
  ASSUME IInv
  PROVE  /\ so \in Sockets /\ so.alloc \subseteq Sock /\ so.pcb \in [Sock -> State]
         /\ so.nofdref \subseteq Sock /\ so.len[0] \in Nat /\ so.len[1] \in Nat
         /\ proc \in [Proc -> Process] /\ files \in [Proc -> SUBSET Sock] /\ listener \in Listener
         /\ Q(so, 0) \subseteq Sock /\ Q(so, 1) \subseteq Sock
<1>1. so \in Sockets /\ so.queue[0] \in Seq(Sock) /\ so.queue[1] \in Seq(Sock)
  BY DEF IInv, TypeOK, Sockets
<1>2. Q(so, 0) \subseteq Sock /\ Q(so, 1) \subseteq Sock
  BY <1>1, RangeOfSeq DEF Q
<1> QED BY <1>1, <1>2 DEF IInv, TypeOK, Sockets

-----------------------------------------------------------------------------
(* The network and the timers.                                             *)

LEMMA SynKeeps ==
  ASSUME IInv, NEW s \in Sock, SynArrives(s), UNCHANGED broken
  PROVE  IInv'
<1>0. PICK state \in {"SYN_RECEIVED", "CLOSE_WAIT"} : so' = [sonewconn(so, s) EXCEPT !.pcb[s] = state]
  BY DEF SynArrives
<1>t. /\ so \in Sockets /\ so.alloc \subseteq Sock /\ so.pcb \in [Sock -> State]
      /\ so.nofdref \subseteq Sock /\ so.len[0] \in Nat /\ so.len[1] \in Nat
      /\ proc \in [Proc -> Process] /\ files \in [Proc -> SUBSET Sock]
  BY Types
<1>u. UNCHANGED <<listener, proc, files>> /\ s \notin so.alloc /\ RoomFor(so) /\ listener.pcb = "LISTEN"
  BY DEF SynArrives
<1>1. /\ s \notin Q(so, 0) \cup Q(so, 1) /\ s \notin so.nofdref /\ Open(s) = {} /\ Taken(s) = {}
  BY <1>u DEF IInv, Kept
<1>k. PICK k : k = [so EXCEPT !.alloc = @ \cup {s}, !.nofdref = @ \cup {s}]
  OBVIOUS
<1>2. /\ k \in Sockets /\ k.head = so.head /\ k.queue = so.queue /\ k.len = so.len /\ k.pcb = so.pcb
      /\ k.alloc = so.alloc \cup {s} /\ k.nofdref = so.nofdref \cup {s}
  BY <1>k, <1>t DEF Sockets
<1>3. Queues(k) /\ \A i \in {0, 1} : Q(k, i) = Q(so, i)
  BY <1>2, SameQueues DEF IInv
<1>n. PICK n : n = soqinsque(k, s, 0)
  OBVIOUS
<1>4. /\ Queues(n) /\ Requeued(k, n)
      /\ Q(n, 0) = Q(k, 0) \cup {s} /\ Q(n, 1) = Q(k, 1)
      /\ n.len[0] = k.len[0] + 1 /\ n.len[1] = k.len[1]
  <2>1. s \notin Q(k, 0) \cup Q(k, 1)
    BY <1>1, <1>3
  <2> QED BY <1>3, <1>n, <2>1, Inserted
<1>5. so' = [n EXCEPT !.pcb[s] = state]
  BY <1>0, <1>k, <1>n DEF sonewconn
<1>6. /\ Queues(so') /\ \A i \in {0, 1} : Q(so', i) = Q(n, i)
      /\ so'.alloc = n.alloc /\ so'.nofdref = n.nofdref /\ so'.len = n.len
      /\ so'.pcb = [n.pcb EXCEPT ![s] = state]
  <2>1. state \in State
    BY DEF State
  <2> QED BY <1>4, <1>5, <2>1, WithState
<1>7. /\ Q(so', 0) = Q(so, 0) \cup {s} /\ Q(so', 1) = Q(so, 1)
      /\ so'.alloc = so.alloc \cup {s} /\ so'.nofdref = so.nofdref \cup {s}
      /\ so'.len[0] = so.len[0] + 1 /\ so'.len[1] = so.len[1]
      /\ so'.pcb = [so.pcb EXCEPT ![s] = state]
  BY <1>2, <1>3, <1>4, <1>6 DEF Requeued
<1>8. TypeOK'
  BY <1>6, <1>u DEF IInv, TypeOK, Queues
<1>9. WithinLimit'
  BY <1>7, <1>t, <1>u, QlimitType DEF RoomFor, WithinLimit
<1>10. ASSUME NEW x \in Sock PROVE Kept(x)'
  <2>1. CASE x # s
    <3>1. SameSocket(x)
      BY <1>7, <1>t, <1>u, <2>1 DEF SameSocket
    <3> QED BY <3>1, OtherSocket DEF IInv
  <2>2. CASE x = s
    <3>1. Open(s)' = {} /\ Taken(s)' = {}
      BY <1>1, <1>u DEF Open, Taken
    <3>2. s \in Q(so, 0)' /\ s \notin Q(so, 1)' /\ s \in so'.alloc /\ s \in so'.nofdref /\ so'.pcb[s] = state
      BY <1>1, <1>7, <1>t DEF Q
    <3> QED BY <2>2, <3>1, <3>2 DEF Kept
  <2> QED BY <2>1, <2>2
<1>11. ASSUME NEW p \in Proc PROVE Placed(p)'
  BY <1>7, <1>u, OtherProcess DEF IInv
<1>12. ListenerKept'
  <2>1. listener.open # {} \/ listener.closing
    BY <1>u DEF IInv, ListenerKept
  <2> QED BY <1>u, <2>1 DEF IInv, ListenerKept
<1> QED BY <1>6, <1>8, <1>9, <1>10, <1>11, <1>12 DEF IInv, Queues, Q

LEMMA AckKeeps ==
  ASSUME IInv, NEW s \in Sock, AckArrives(s), UNCHANGED broken
  PROVE  IInv'
<1>t. /\ so \in Sockets /\ so.alloc \subseteq Sock /\ so.pcb \in [Sock -> State]
      /\ so.nofdref \subseteq Sock /\ so.len[0] \in Nat /\ so.len[1] \in Nat
      /\ proc \in [Proc -> Process] /\ files \in [Proc -> SUBSET Sock]
  BY Types
<1>u. UNCHANGED <<listener, files>> /\ so.pcb[s] = "SYN_RECEIVED"
  BY DEF AckArrives
<1>k. PICK k : k = [so EXCEPT !.pcb[s] = "ESTABLISHED"]
  OBVIOUS
<1>1. /\ Queues(k) /\ \A i \in {0, 1} : Q(k, i) = Q(so, i)
      /\ k.alloc = so.alloc /\ k.nofdref = so.nofdref /\ k.len = so.len
      /\ k.pcb = [so.pcb EXCEPT ![s] = "ESTABLISHED"]
  <2>1. "ESTABLISHED" \in State
    BY DEF State
  <2> QED BY <1>k, <2>1, WithState DEF IInv
<1>2. s \notin Q(so, 1)
  BY <1>u DEF IInv, Kept
<1>3. s \in k.head /\ On(k, s, 0) <=> s \in Q(so, 0)
  <2>1. On(k, s, 0) <=> s \in Q(so, 0)
    BY <1>1 DEF On, Q
  <2>2. s \in Q(so, 0) => s \in k.head
    BY <1>1 DEF Queues
  <2> QED BY <2>1, <2>2
<1>4. CASE s \in Q(so, 0)
  <2>m. PICK m : m = soqremque(k, s, 0)
    OBVIOUS
  <2>1. so' = soqinsque(m, s, 1) /\ proc' = Wakeup(proc)
    BY <1>3, <1>4, <1>k, <2>m DEF AckArrives, soisconnected
  <2>2. /\ Queues(m) /\ Requeued(k, m)
        /\ Q(m, 0) = Q(k, 0) \ {s} /\ Q(m, 1) = Q(k, 1)
        /\ m.len[0] = k.len[0] - 1 /\ m.len[1] = k.len[1]
    <3>1. s \in Q(k, 0)
      BY <1>1, <1>4
    <3> QED BY <1>1, <2>m, <3>1, Removed
  <2>3. /\ Queues(so') /\ Requeued(m, so')
        /\ Q(so', 1) = Q(m, 1) \cup {s} /\ Q(so', 0) = Q(m, 0)
        /\ so'.len[1] = m.len[1] + 1 /\ so'.len[0] = m.len[0]
    <3>1. s \notin Q(m, 0) \cup Q(m, 1)
      BY <1>1, <1>2, <2>2
    <3> QED BY <2>1, <2>2, <3>1, Inserted
  <2>4. /\ Q(so', 0) = Q(so, 0) \ {s} /\ Q(so', 1) = Q(so, 1) \cup {s}
        /\ so'.alloc = so.alloc /\ so'.nofdref = so.nofdref
        /\ so'.len[0] = so.len[0] - 1 /\ so'.len[1] = so.len[1] + 1
        /\ so'.pcb = [so.pcb EXCEPT ![s] = "ESTABLISHED"]
    BY <1>1, <2>2, <2>3 DEF Requeued
  <2>5. /\ proc' \in [Proc -> Process]
        /\ \A p \in Proc : /\ proc'[p].aso = proc[p].aso /\ proc'[p].at # "asleep"
                           /\ proc'[p].at # "user" => proc[p].at # "user"
                           /\ proc[p].at = "m_get" => proc'[p].at = "m_get"
    BY <1>t, <2>1 DEF Wakeup, Process, Place
  <2>6. TypeOK'
    BY <2>3, <2>5, <1>u DEF IInv, TypeOK, Queues
  <2>7. WithinLimit'
    BY <1>t, <2>4, QlimitType DEF IInv, WithinLimit
  <2>8. ASSUME NEW x \in Sock PROVE Kept(x)'
    <3>1. CASE x # s
      <4>1. SameSocket(x)
        BY <1>t, <1>u, <2>4, <2>5, <3>1 DEF SameSocket
      <4> QED BY <4>1, OtherSocket DEF IInv
    <3>2. CASE x = s
      <4>1. Open(s)' = Open(s) /\ Taken(s)' = Taken(s)
        BY <1>u, <2>5 DEF Open, Taken
      <4>2. s \notin Q(so, 0)' /\ s \in Q(so, 1)' /\ so'.pcb[s] = "ESTABLISHED"
        BY <1>t, <2>4 DEF Q
      <4>3. Kept(s)
        BY DEF IInv
      <4>4. Taken(s) = {}
        BY <1>4, <4>3 DEF Kept
      <4> QED BY <1>4, <1>u, <2>4, <3>2, <4>1, <4>2, <4>3, <4>4 DEF Kept
    <3> QED BY <3>1, <3>2
  <2>9. ASSUME NEW p \in Proc PROVE Placed(p)'
    BY <2>5, <1>u DEF IInv, Placed
  <2>10. ListenerKept'
    BY <1>4, <1>u, <2>4, SameListener DEF IInv
  <2> QED BY <2>3, <2>6, <2>7, <2>8, <2>9, <2>10 DEF IInv, Queues, Q
<1>5. CASE s \notin Q(so, 0)
  <2>1. so' = k /\ proc' = proc
    BY <1>3, <1>5, <1>k DEF AckArrives, soisconnected
  <2>2. TypeOK'
    BY <1>1, <1>u, <2>1 DEF IInv, TypeOK, Queues
  <2>3. WithinLimit'
    BY <1>1, <2>1 DEF IInv, WithinLimit
  <2>4. ASSUME NEW x \in Sock PROVE Kept(x)'
    <3>1. CASE x # s
      <4>1. SameSocket(x)
        BY <1>1, <1>t, <1>u, <2>1, <3>1 DEF SameSocket
      <4> QED BY <4>1, OtherSocket DEF IInv
    <3>2. CASE x = s
      <4>1. Open(s)' = Open(s) /\ Taken(s)' = Taken(s)
        BY <1>u, <2>1 DEF Open, Taken
      <4>2. s \notin Q(so, 0)' /\ s \notin Q(so, 1)' /\ so'.pcb[s] = "ESTABLISHED"
        BY <1>1, <1>2, <1>5, <1>t, <2>1 DEF Q
      <4>3. Kept(s)
        BY DEF IInv
      <4> QED BY <1>1, <1>u, <2>1, <3>2, <4>1, <4>2, <4>3 DEF Kept
    <3> QED BY <3>1, <3>2
  <2>5. ASSUME NEW p \in Proc PROVE Placed(p)'
    BY <1>1, <1>u, <2>1, OtherProcess DEF IInv
  <2>6. ListenerKept'
    BY <1>1, <1>u, <2>1, SameListener DEF IInv
  <2> QED BY <1>1, <2>1, <2>2, <2>3, <2>4, <2>5, <2>6 DEF IInv, Queues, Q
<1> QED BY <1>4, <1>5

LEMMA FinKeeps ==
  ASSUME IInv, NEW s \in Sock, FinArrives(s), UNCHANGED broken
  PROVE  IInv'
<1>t. /\ so.pcb \in [Sock -> State] /\ so.len[0] \in Nat /\ so.len[1] \in Nat
  BY Types
<1>u. UNCHANGED <<listener, proc, files>> /\ so.pcb[s] = "ESTABLISHED"
  BY DEF FinArrives
<1>1. /\ Queues(so') /\ \A i \in {0, 1} : Q(so', i) = Q(so, i)
      /\ so'.alloc = so.alloc /\ so'.nofdref = so.nofdref /\ so'.len = so.len
      /\ so'.pcb = [so.pcb EXCEPT ![s] = "CLOSE_WAIT"]
  <2>1. "CLOSE_WAIT" \in State /\ so' = [so EXCEPT !.pcb[s] = "CLOSE_WAIT"]
    BY DEF State, FinArrives
  <2> QED BY <2>1, WithState DEF IInv
<1>2. TypeOK'
  BY <1>1, <1>u DEF IInv, TypeOK, Queues
<1>3. WithinLimit'
  BY <1>1 DEF IInv, WithinLimit
<1>4. ASSUME NEW x \in Sock PROVE Kept(x)'
  <2>1. CASE x # s
    <3>1. SameSocket(x)
      BY <1>1, <1>t, <1>u, <2>1 DEF SameSocket
    <3> QED BY <3>1, OtherSocket DEF IInv
  <2>2. CASE x = s
    <3>1. Open(s)' = Open(s) /\ Taken(s)' = Taken(s)
      BY <1>u DEF Open, Taken
    <3>2. /\ s \in Q(so, 0)' <=> s \in Q(so, 0)
          /\ s \in Q(so, 1)' <=> s \in Q(so, 1)
          /\ so'.pcb[s] = "CLOSE_WAIT"
      BY <1>1, <1>t DEF Q
    <3>3. Kept(s)
      BY DEF IInv
    <3> QED BY <1>1, <1>u, <2>2, <3>1, <3>2, <3>3 DEF Kept
  <2> QED BY <2>1, <2>2
<1>5. ASSUME NEW p \in Proc PROVE Placed(p)'
  BY <1>1, <1>u, OtherProcess DEF IInv
<1>6. ListenerKept'
  BY <1>1, <1>u, SameListener DEF IInv
<1> QED BY <1>1, <1>2, <1>3, <1>4, <1>5, <1>6 DEF IInv, Queues, Q

(* A socket whose connection ends is freed unless a descriptor refers to   *)
(* it; a process that took it in accept1() is left without.                *)
LEMMA EndsKeeps ==
  ASSUME IInv, NEW s \in Sock, so.pcb[s] # "none", Ends(s), UNCHANGED broken
  PROVE  IInv'
<1>t. /\ so.alloc \subseteq Sock /\ so.pcb \in [Sock -> State]
      /\ so.len[0] \in Nat /\ so.len[1] \in Nat /\ proc \in [Proc -> Process]
  BY Types
<1>u. UNCHANGED <<listener, files>> /\ so' = tcp_close(so, s) /\ proc' = Dangling(so')
  BY DEF Ends
<1>s. Kept(s)
  BY DEF IInv
<1>1. /\ Queues(so') /\ so'.pcb = [so.pcb EXCEPT ![s] = "none"]
      /\ \A i \in {0, 1} : so'.len[i] <= so.len[i]
      /\ s \in so.nofdref =>
           /\ so'.alloc = so.alloc \ {s} /\ so'.nofdref = so.nofdref \ {s}
           /\ \A i \in {0, 1} : Q(so', i) = Q(so, i) \ {s}
      /\ s \notin so.nofdref =>
           /\ so'.alloc = so.alloc /\ so'.nofdref = so.nofdref
           /\ \A i \in {0, 1} : Q(so', i) = Q(so, i)
  BY <1>u, Closed DEF IInv
<1>l. so'.len[0] \in Nat /\ so'.len[1] \in Nat
  BY <1>1 DEF Queues, Sockets
<1>2. ASSUME NEW p \in Proc
      PROVE  /\ proc'[p].at = proc[p].at
             /\ proc'[p].aso = IF proc[p].aso \in so'.alloc THEN proc[p].aso ELSE NONE
  BY <1>t, <1>u DEF Dangling, Process
<1>3. proc' \in [Proc -> Process]
  BY <1>t, <1>u DEF Dangling, Process
<1>4. ASSUME NEW x \in Sock PROVE Kept(x)'
  <2>1. CASE x # s
    <3>1. ASSUME NEW p \in Proc PROVE proc'[p].aso = x <=> proc[p].aso = x
      <4>1. proc[p].aso = x => x \in so.alloc
        <5>1. Kept(x)
          BY DEF IInv
        <5>2. proc[p].aso = x => Taken(x) # {}
          BY DEF Taken
        <5> QED BY <5>1, <5>2 DEF Kept
      <4>2. x \in so.alloc => x \in so'.alloc
        BY <1>1, <2>1
      <4>3. x # NONE
        BY NoneIsNew
      <4> QED BY <1>2, <4>1, <4>2, <4>3
    <3>2. SameSocket(x)
      BY <1>1, <1>t, <1>u, <2>1, <3>1 DEF SameSocket
    <3> QED BY <3>2, OtherSocket DEF IInv
  <2>2. CASE x = s /\ s \in so.nofdref
    <3>1. Open(s)' = {} /\ Open(s) = {}
      BY <1>s, <1>u, <2>2 DEF Kept, Open
    <3>2. s \notin so'.alloc /\ s \notin so'.nofdref /\ so'.pcb[s] = "none"
      BY <1>1, <1>t, <2>2
    <3>3. Taken(s)' = {}
      BY <1>2, <3>2, NoneIsNew DEF Taken
    <3>4. s \notin Q(so, 0)' /\ s \notin Q(so, 1)'
      BY <1>1, <2>2 DEF Q
    <3> QED BY <2>2, <3>1, <3>2, <3>3, <3>4 DEF Kept
  <2>3. CASE x = s /\ s \notin so.nofdref
    <3>1. Open(s)' = Open(s) /\ Open(s) # {} /\ s \in so.alloc /\ Taken(s) = {}
      BY <1>s, <1>u, <2>3 DEF Kept, Open
    <3>2. s \in so'.alloc /\ s \notin so'.nofdref /\ so'.pcb[s] = "none"
      BY <1>1, <1>t, <2>3, <3>1
    <3>3. Taken(s)' = {}
      BY <1>2, <3>1, NoneIsNew DEF Taken
    <3>4. s \notin Q(so, 0)' /\ s \notin Q(so, 1)'
      BY <1>1, <1>s, <2>3 DEF Q, Kept
    <3> QED BY <1>s, <2>3, <3>1, <3>2, <3>3, <3>4 DEF Kept
  <2> QED BY <2>1, <2>2, <2>3
<1>5. TypeOK'
  BY <1>1, <1>3, <1>u DEF IInv, TypeOK, Queues
<1>6. WithinLimit'
  BY <1>1, <1>t, <1>l, QlimitType DEF IInv, WithinLimit
<1>7. ASSUME NEW p \in Proc PROVE Placed(p)'
  <2>1. so.len[1] = 0 => so'.len[1] = 0
    BY <1>1, <1>t, <1>l
  <2>2. proc'[p].at = proc[p].at /\ proc'[p].aso \in {proc[p].aso, NONE}
    BY <1>2
  <2> QED BY <1>u, <2>1, <2>2, OtherProcess DEF IInv
<1>8. ListenerKept'
  BY <1>1, <1>u, SameListener DEF IInv
<1> QED BY <1>1, <1>4, <1>5, <1>6, <1>7, <1>8 DEF IInv, Queues, Q

-----------------------------------------------------------------------------
(* accept1().                                                              *)

LEMMA PlaceKeeps ==
  ASSUME IInv, NEW p \in Proc, NEW at \in Place \ {"m_get"}, proc[p].aso = NONE,
         proc' \in [Proc -> Process], proc'[p].at = at, proc'[p].aso = NONE,
         \A q \in Proc : q # p => proc'[q] = proc[q],
         UNCHANGED <<so, listener, files, broken>>,
         at # "user" => p \in listener.open,
         at = "asleep" => so.len[1] = 0 /\ listener.pcb = "LISTEN"
  PROVE  IInv'
<1>1. \A q \in Proc : proc'[q].aso = proc[q].aso
  OBVIOUS
<1>2. \A q \in Proc : Placed(q)'
  BY <1>1 DEF IInv, Placed
<1>3. \A x \in Sock : Kept(x)'
  <2> SUFFICES ASSUME NEW x \in Sock PROVE Kept(x)'
    OBVIOUS
  <2>1. SameSocket(x)
    BY <1>1 DEF SameSocket
  <2> QED BY <2>1, OtherSocket DEF IInv
<1>4. TypeOK'
  BY <1>1 DEF IInv, TypeOK
<1>5. ListenerKept' /\ WithinLimit' /\ Queues(so)'
  BY DEF IInv, ListenerKept, WithinLimit, Queues, Q
<1> QED BY <1>2, <1>3, <1>4, <1>5 DEF IInv

LEMMA WaitsKeep ==
  ASSUME IInv, NEW p \in Proc, AcceptSleeps(p) \/ AcceptFails(p) \/ AcceptAllocates(p)
  PROVE  IInv'
<1>t. proc \in [Proc -> Process]
  BY Types
<1>p. Placed(p)
  BY DEF IInv
<1>1. CASE AcceptSleeps(p)
  <2>1. proc[p].aso = NONE /\ p \in listener.open
    BY <1>1, <1>p DEF AcceptSleeps, Looks, Placed
  <2>2. listener.pcb = "LISTEN"
    <3>1. listener.pcb \in {"none", "LISTEN"}
      BY DEF IInv, TypeOK, Listener
    <3> QED BY <1>1, <2>1, <3>1 DEF AcceptSleeps, IInv, ListenerKept
  <2>3. /\ proc' \in [Proc -> Process] /\ proc'[p].at = "asleep" /\ proc'[p].aso = NONE
        /\ \A q \in Proc : q # p => proc'[q] = proc[q]
    BY <1>t, <1>1, <2>1 DEF AcceptSleeps, Process, Place
  <2>4. "asleep" \in Place \ {"m_get"} /\ so.len[1] = 0 /\ UNCHANGED <<so, listener, files, broken>>
    BY <1>1 DEF AcceptSleeps, Place
  <2> QED BY <2>1, <2>2, <2>3, <2>4, PlaceKeeps
<1>2. CASE AcceptFails(p)
  <2>1. proc[p].aso = NONE
    BY <1>2, <1>p DEF AcceptFails, Looks, Placed
  <2>2. /\ proc' \in [Proc -> Process] /\ proc'[p].at = "user" /\ proc'[p].aso = NONE
        /\ \A q \in Proc : q # p => proc'[q] = proc[q]
    BY <1>t, <1>2 DEF AcceptFails, Idle, Process, Place
  <2>3. "user" \in Place \ {"m_get"} /\ UNCHANGED <<so, listener, files, broken>>
    BY <1>2 DEF AcceptFails, Place
  <2> QED BY <2>1, <2>2, <2>3, PlaceKeeps
<1>3. CASE AcceptAllocates(p)
  <2>1. proc[p].aso = NONE /\ p \in listener.open
    BY <1>3, <1>p DEF AcceptAllocates, Looks, Placed
  <2>2. PICK at \in {"user", "falloc"} : proc' = [proc EXCEPT ![p].at = at]
    BY <1>3 DEF AcceptAllocates
  <2>3. /\ proc' \in [Proc -> Process] /\ proc'[p].at = at /\ proc'[p].aso = NONE
        /\ \A q \in Proc : q # p => proc'[q] = proc[q]
    BY <1>t, <2>1, <2>2 DEF Process, Place
  <2>4. at \in Place \ {"m_get"} /\ at # "asleep" /\ UNCHANGED <<so, listener, files, broken>>
    BY <1>3 DEF AcceptAllocates, Place
  <2> QED BY <2>1, <2>3, <2>4, PlaceKeeps
<1> QED BY <1>1, <1>2, <1>3

LEMMA BrokenKeeps ==
  ASSUME IInv, UNCHANGED <<so, listener, proc, files>>, broken' \in BOOLEAN
  PROVE  IInv'
BY DEF IInv, TypeOK, WithinLimit, ListenerKept, Queues, Q, Kept, Open, Taken, Placed

LEMMA TakesKeeps ==
  ASSUME IInv, NEW p \in Proc, AcceptTakes(p)
  PROVE  IInv'
<1>t. /\ so.queue[1] \in Seq(Sock) /\ so.len[0] \in Nat /\ so.len[1] \in Nat
      /\ so.nofdref \subseteq Sock /\ proc \in [Proc -> Process]
  BY Types DEF Sockets
<1>1. CASE broken' = TRUE /\ UNCHANGED <<so, proc>>
  BY <1>1, BrokenKeeps DEF AcceptTakes
<1>2. CASE so.queue[1] # <<>> /\ ~(broken' = TRUE /\ UNCHANGED <<so, proc>>)
  <2>0. PICK s : s = Head(so.queue[1])
    OBVIOUS
  <2>1. s \in Q(so, 1) /\ s \in Sock
    <3>1. s = so.queue[1][1] /\ 1 \in DOMAIN so.queue[1] /\ s \in Sock
      BY <1>t, <1>2, <2>0
    <3> QED BY <3>1 DEF Q, Range
  <2>2. /\ so' = soqremque(so, s, 1) /\ proc' = [proc EXCEPT ![p] = [at |-> "m_get", aso |-> s]]
        /\ UNCHANGED <<listener, files, broken>>
    BY <1>2, <2>0 DEF AcceptTakes
  <2>3. /\ Queues(so') /\ Requeued(so, so')
        /\ Q(so', 1) = Q(so, 1) \ {s} /\ Q(so', 0) = Q(so, 0)
        /\ so'.len[1] = so.len[1] - 1 /\ so'.len[0] = so.len[0]
    BY <2>1, <2>2, Removed DEF IInv
  <2>4. so'.alloc = so.alloc /\ so'.nofdref = so.nofdref /\ so'.pcb = so.pcb
    BY <2>3 DEF Requeued
  <2>5. proc[p].at = "falloc" /\ proc[p].aso = NONE /\ p \in listener.open
    <3>1. Placed(p)
      BY DEF IInv
    <3> QED BY <3>1 DEF AcceptTakes, Placed
  <2>6. Open(s) = {} /\ Taken(s) = {} /\ s \in so.nofdref /\ s \notin Q(so, 0)
    <3>1. Kept(s)
      BY <2>1 DEF IInv
    <3>2. s \notin Q(so, 0)
      BY <2>1 DEF IInv, Queues
    <3> QED BY <2>1, <3>1, <3>2 DEF Kept
  <2>7. /\ proc' \in [Proc -> Process] /\ proc'[p].at = "m_get" /\ proc'[p].aso = s
        /\ \A q \in Proc : q # p => proc'[q] = proc[q]
    BY <1>t, <2>1, <2>2 DEF Process, Place
  <2>8. ASSUME NEW x \in Sock PROVE Kept(x)'
    <3>1. CASE x # s
      <4>1. \A q \in Proc : proc'[q].aso = x <=> proc[q].aso = x
        BY <2>5, <2>7, <3>1, NoneIsNew
      <4>2. SameSocket(x)
        BY <2>2, <2>3, <2>4, <3>1, <4>1 DEF SameSocket
      <4> QED BY <4>2, OtherSocket DEF IInv
    <3>2. CASE x = s
      <4>1. Open(s)' = {}
        BY <2>2, <2>6 DEF Open
      <4>2. Taken(s)' = {p}
        BY <2>6, <2>7 DEF Taken
      <4>3. s \notin Q(so, 0)' /\ s \notin Q(so, 1)'
        BY <2>3, <2>6 DEF Q
      <4>4. Kept(s)
        BY <2>1 DEF IInv
      <4> QED BY <2>4, <2>6, <3>2, <4>1, <4>2, <4>3, <4>4 DEF Kept
    <3> QED BY <3>1, <3>2
  <2>9. TypeOK'
    BY <2>2, <2>3, <2>7 DEF IInv, TypeOK, Queues
  <2>10. WithinLimit'
    BY <1>t, <2>3, QlimitType DEF IInv, WithinLimit
  <2>11. ASSUME NEW q \in Proc PROVE Placed(q)'
    <3>1. CASE q = p
      BY <2>2, <2>5, <2>7, <3>1 DEF Placed
    <3>2. CASE q # p
      <4>1. so.len[1] # 0
        BY <1>t, <1>2 DEF IInv, Queues
      <4> QED BY <2>2, <2>7, <3>2, <4>1 DEF IInv, Placed
    <3> QED BY <3>1, <3>2
  <2>12. ListenerKept'
    BY <2>2, <2>3, SameListener DEF IInv
  <2> QED BY <2>3, <2>8, <2>9, <2>10, <2>11, <2>12 DEF IInv, Queues, Q
<1> QED BY <1>1, <1>2 DEF AcceptTakes

LEMMA SoacceptKeeps ==
  ASSUME IInv, NEW p \in Proc, soaccept(p)
  PROVE  IInv'
<1>t. /\ so \in Sockets /\ so.nofdref \subseteq Sock /\ proc \in [Proc -> Process]
      /\ files \in [Proc -> SUBSET Sock]
  BY Types
<1>1. CASE proc[p].aso = NONE
  BY <1>1, BrokenKeeps DEF soaccept
<1>2. CASE proc[p].aso # NONE
  <2>0. PICK s \in Sock : s = proc[p].aso
    BY <1>t, <1>2 DEF Process
  <2>1. /\ so' = [so EXCEPT !.nofdref = @ \ {s}] /\ files' = [files EXCEPT ![p] = @ \cup {s}]
        /\ proc' = [proc EXCEPT ![p] = Idle] /\ UNCHANGED <<listener, broken>>
    BY <1>2, <2>0 DEF soaccept
  <2>2. /\ so' \in Sockets /\ so'.alloc = so.alloc /\ so'.pcb = so.pcb /\ so'.nofdref = so.nofdref \ {s}
        /\ so'.head = so.head /\ so'.queue = so.queue /\ so'.len = so.len
    BY <1>t, <2>1 DEF Sockets
  <2>3. Queues(so') /\ \A i \in {0, 1} : Q(so', i) = Q(so, i)
    BY <2>2, SameQueues DEF IInv
  <2>4. /\ Kept(s) /\ Taken(s) = {p} /\ Open(s) = {} /\ s \in so.alloc
        /\ s \notin Q(so, 0) /\ s \notin Q(so, 1)
    <3>1. Kept(s)
      BY DEF IInv
    <3>2. p \in Taken(s)
      BY <2>0 DEF Taken
    <3>3. \A q \in Taken(s) : q = p
      BY <3>1, <3>2 DEF Kept
    <3>4. Taken(s) = {p}
      BY <3>2, <3>3
    <3> QED BY <3>1, <3>4 DEF Kept
  <2>5. /\ files' \in [Proc -> SUBSET Sock] /\ files'[p] = files[p] \cup {s}
        /\ \A q \in Proc : q # p => files'[q] = files[q]
    BY <1>t, <2>1
  <2>6. /\ proc' \in [Proc -> Process] /\ proc'[p].at = "user" /\ proc'[p].aso = NONE
        /\ \A q \in Proc : q # p => proc'[q] = proc[q]
    BY <1>t, <2>1 DEF Process, Place, Idle
  <2>7. ASSUME NEW x \in Sock PROVE Kept(x)'
    <3>1. CASE x # s
      <4>1. \A q \in Proc : /\ proc'[q].aso = x <=> proc[q].aso = x
                            /\ x \in files'[q] <=> x \in files[q]
        BY <2>0, <2>5, <2>6, <3>1, NoneIsNew
      <4>2. SameSocket(x)
        BY <2>2, <2>3, <3>1, <4>1 DEF SameSocket
      <4> QED BY <4>2, OtherSocket DEF IInv
    <3>2. CASE x = s
      <4>1. Open(s)' = {p}
        BY <2>4, <2>5 DEF Open
      <4>2. Taken(s)' = {}
        BY <2>4, <2>6, NoneIsNew DEF Taken
      <4>3. s \notin Q(so, 0)' /\ s \notin Q(so, 1)'
        BY <2>3, <2>4 DEF Q
      <4> QED BY <2>2, <2>4, <3>2, <4>1, <4>2, <4>3 DEF Kept
    <3> QED BY <3>1, <3>2
  <2>8. TypeOK'
    BY <2>1, <2>2, <2>5, <2>6 DEF IInv, TypeOK
  <2>9. WithinLimit'
    BY <2>2 DEF IInv, WithinLimit
  <2>10. ASSUME NEW q \in Proc PROVE Placed(q)'
    BY <2>1, <2>2, <2>6 DEF IInv, Placed
  <2>11. ListenerKept'
    BY <2>1, <2>3, SameListener DEF IInv
  <2> QED BY <2>3, <2>7, <2>8, <2>9, <2>10, <2>11 DEF IInv, Queues, Q
<1> QED BY <1>1, <1>2

-----------------------------------------------------------------------------
(* Closing.                                                                *)

LEMMA CloseAcceptedKeeps ==
  ASSUME IInv, NEW p \in Proc, NEW s \in Sock, CloseAccepted(p, s), UNCHANGED broken
  PROVE  IInv'
<1>t. /\ so \in Sockets /\ so.alloc \subseteq Sock /\ so.pcb \in [Sock -> State]
      /\ so.nofdref \subseteq Sock /\ so.len[0] \in Nat /\ so.len[1] \in Nat
      /\ files \in [Proc -> SUBSET Sock]
  BY Types
<1>0. PICK state \in {"closing", "none"} :
        /\ so.pcb[s] = "none" => state = "none"
        /\ so' = sofree([so EXCEPT !.pcb[s] = state, !.nofdref = @ \cup {s}], s)
  BY DEF CloseAccepted
<1>u. /\ UNCHANGED <<listener, proc>> /\ files' = [files EXCEPT ![p] = @ \ {s}]
      /\ proc[p].at = "user" /\ s \in files[p]
  BY DEF CloseAccepted
<1>1. /\ Kept(s) /\ Open(s) = {p} /\ Taken(s) = {} /\ s \in so.alloc /\ s \notin so.nofdref
      /\ s \notin Q(so, 0) /\ s \notin Q(so, 1)
  <2>1. Kept(s)
    BY DEF IInv
  <2>2. p \in Open(s)
    BY <1>u DEF Open
  <2>3. \A q \in Open(s) : q = p
    BY <2>1, <2>2 DEF Kept
  <2>4. Open(s) = {p}
    BY <2>2, <2>3
  <2> QED BY <2>1, <2>4 DEF Kept
<1>k. PICK k : k = [so EXCEPT !.pcb[s] = state, !.nofdref = @ \cup {s}]
  OBVIOUS
<1>2. /\ k \in Sockets /\ k.alloc = so.alloc /\ k.pcb = [so.pcb EXCEPT ![s] = state]
      /\ k.nofdref = so.nofdref \cup {s}
      /\ k.head = so.head /\ k.queue = so.queue /\ k.len = so.len
  BY <1>t, <1>k DEF Sockets, State
<1>3. Queues(k) /\ \A i \in {0, 1} : Q(k, i) = Q(so, i)
  BY <1>2, SameQueues DEF IInv
<1>f. so' = sofree(k, s)
  BY <1>0, <1>k
<1>4. /\ Queues(so') /\ so'.pcb = k.pcb
      /\ \A i \in {0, 1} : so'.len[i] <= k.len[i]
      /\ Unused(k, s) =>
           /\ so'.alloc = k.alloc \ {s} /\ so'.nofdref = k.nofdref \ {s}
           /\ \A i \in {0, 1} : Q(so', i) = Q(k, i) \ {s}
      /\ ~Unused(k, s) => so' = k
  BY <1>f, <1>3, Freed, SMTT(30)
<1>5. \A i \in {0, 1} : Q(so', i) = Q(so, i)
  BY <1>1, <1>3, <1>4
<1>6. Unused(k, s) <=> state = "none"
  BY <1>2, <1>t DEF Unused
<1>7. /\ so'.pcb = [so.pcb EXCEPT ![s] = state]
      /\ state = "none" => so'.alloc = so.alloc \ {s} /\ so'.nofdref = so.nofdref
      /\ state # "none" => so'.alloc = so.alloc /\ so'.nofdref = so.nofdref \cup {s}
  <2>1. so'.pcb = [so.pcb EXCEPT ![s] = state]
    BY <1>2, <1>4
  <2>2. CASE state = "none"
    <3>1. so'.alloc = k.alloc \ {s} /\ so'.nofdref = k.nofdref \ {s}
      BY <1>4, <1>6, <2>2
    <3> QED BY <1>1, <1>2, <2>1, <2>2, <3>1
  <2>3. CASE state # "none"
    <3>1. so' = k
      BY <1>4, <1>6, <2>3
    <3> QED BY <1>2, <2>1, <2>3, <3>1
  <2> QED BY <2>2, <2>3
<1>8. /\ files' \in [Proc -> SUBSET Sock] /\ files'[p] = files[p] \ {s}
      /\ \A q \in Proc : q # p => files'[q] = files[q]
  BY <1>t, <1>u
<1>9. ASSUME NEW x \in Sock PROVE Kept(x)'
  <2>1. CASE x # s
    <3>1. \A q \in Proc : x \in files'[q] <=> x \in files[q]
      BY <1>8, <2>1
    <3>2. SameSocket(x)
      BY <1>5, <1>7, <1>t, <1>u, <2>1, <3>1 DEF SameSocket
    <3> QED BY <3>2, OtherSocket DEF IInv
  <2>2. CASE x = s
    <3>1. Open(s)' = {}
      BY <1>1, <1>8 DEF Open
    <3>2. Taken(s)' = {}
      BY <1>1, <1>u DEF Taken
    <3>3. s \notin Q(so, 0)' /\ s \notin Q(so, 1)'
      BY <1>1, <1>5 DEF Q
    <3>4. so'.pcb[s] = state
      BY <1>7, <1>t
    <3> QED BY <1>1, <1>7, <2>2, <3>1, <3>2, <3>3, <3>4 DEF Kept
  <2> QED BY <2>1, <2>2
<1>10. TypeOK'
  BY <1>4, <1>8, <1>u DEF IInv, TypeOK, Queues
<1>l. so'.len[0] \in Nat /\ so'.len[1] \in Nat /\ so'.len[0] <= so.len[0] /\ so'.len[1] <= so.len[1]
  BY <1>2, <1>4 DEF Queues, Sockets
<1>11. WithinLimit'
  BY <1>l, <1>t, QlimitType DEF IInv, WithinLimit
<1>12. ASSUME NEW q \in Proc PROVE Placed(q)'
  <2>1. so.len[1] = 0 => so'.len[1] = 0
    BY <1>l, <1>t
  <2> QED BY <1>u, <2>1, OtherProcess DEF IInv
<1>13. ListenerKept'
  BY <1>5, <1>u, SameListener DEF IInv
<1> QED BY <1>4, <1>9, <1>10, <1>11, <1>12, <1>13 DEF IInv, Queues, Q

(* Steps that change the rest of the listening socket only, and wake.      *)
LEMMA ListenerKeeps ==
  ASSUME IInv, UNCHANGED <<so, files, broken>>, proc' \in [Proc -> Process], listener' \in Listener,
         \A q \in Proc : proc'[q].aso = proc[q].aso /\ Placed(q)',
         ListenerKept'
  PROVE  IInv'
<1>1. ASSUME NEW x \in Sock PROVE Kept(x)'
  <2>1. SameSocket(x)
    BY DEF SameSocket
  <2> QED BY <2>1, OtherSocket DEF IInv
<1>2. TypeOK'
  BY DEF IInv, TypeOK
<1>3. WithinLimit' /\ Queues(so)'
  BY DEF IInv, WithinLimit, Queues, Q
<1> QED BY <1>1, <1>2, <1>3 DEF IInv

LEMMA CloseListenerKeeps ==
  ASSUME IInv, NEW p \in Proc, ~listener.closing, CloseListener(p), UNCHANGED broken
  PROVE  IInv'
<1>t. proc \in [Proc -> Process] /\ listener \in Listener
  BY Types
<1>1. /\ listener' \in Listener /\ listener'.open = listener.open \ {p}
      /\ listener'.closing = (listener.open = {p}) /\ listener'.pcb = listener.pcb
      /\ listener'.cantrcvmore = listener.cantrcvmore
  BY <1>t DEF CloseListener, Listener
<1>2. UNCHANGED <<so, files, proc>> /\ proc[p].at = "user" /\ p \in listener.open
  BY DEF CloseListener
<1>3. ASSUME NEW q \in Proc PROVE Placed(q)'
  BY <1>1, <1>2 DEF IInv, Placed
<1>4. ListenerKept'
  <2>1. listener'.open = {} <=> listener.open = {p}
    BY <1>1, <1>2
  <2>2. Q(so, 0)' = Q(so, 0) /\ Q(so, 1)' = Q(so, 1)
    BY <1>2 DEF Q
  <2> QED BY <1>1, <1>2, <2>1, <2>2 DEF IInv, ListenerKept
<1> QED BY <1>t, <1>1, <1>2, <1>3, <1>4, ListenerKeeps

LEMMA ShutKeeps ==
  ASSUME IInv, NEW p \in Proc, ShutRead(p) \/ ShutWrite(p), UNCHANGED broken
  PROVE  IInv'
<1>t. proc \in [Proc -> Process] /\ listener \in Listener
  BY Types
<1>u. UNCHANGED <<so, files>>
  BY DEF ShutRead, ShutWrite
<1>q. Q(so, 0)' = Q(so, 0) /\ Q(so, 1)' = Q(so, 1)
  BY <1>u DEF Q
<1>1. CASE ShutRead(p)
  <2>1. /\ listener' \in Listener /\ listener'.open = listener.open /\ listener'.cantrcvmore
        /\ listener'.closing = listener.closing /\ listener'.pcb = listener.pcb /\ proc' = proc
    BY <1>1, <1>t DEF ShutRead, Listener
  <2>2. ListenerKept'
    BY <1>q, <2>1 DEF IInv, ListenerKept
  <2>3. ASSUME NEW q \in Proc PROVE Placed(q)'
    BY <1>u, <2>1 DEF IInv, Placed
  <2> QED BY <1>t, <1>u, <2>1, <2>2, <2>3, ListenerKeeps
<1>2. CASE ShutWrite(p)
  <2>1. /\ listener' \in Listener /\ listener'.open = listener.open /\ listener'.cantrcvmore
        /\ listener'.closing = listener.closing /\ listener'.pcb = "none" /\ p \in listener.open
    BY <1>2, <1>t DEF ShutWrite, Listener
  <2>2. ListenerKept'
    BY <1>q, <2>1 DEF IInv, ListenerKept
  <2>3. /\ proc' \in [Proc -> Process]
        /\ \A q \in Proc : /\ proc'[q].aso = proc[q].aso /\ proc'[q].at # "asleep"
                           /\ proc'[q].at # "user" => proc[q].at # "user"
                           /\ proc[q].at = "m_get" => proc'[q].at = "m_get"
    BY <1>2, <1>t DEF ShutWrite, Wakeup, Process, Place
  <2>4. ASSUME NEW q \in Proc PROVE Placed(q)'
    BY <2>1, <2>3 DEF IInv, Placed
  <2> QED BY <1>u, <2>1, <2>2, <2>3, <2>4, ListenerKeeps
<1> QED BY <1>1, <1>2

LEMMA SocloseKeeps ==
  ASSUME IInv, SocloseAborts \/ SocloseEnds
  PROVE  IInv'
<1>t. /\ so.queue[0] \in Seq(Sock) /\ so.queue[1] \in Seq(Sock)
      /\ proc \in [Proc -> Process] /\ listener \in Listener
  BY Types DEF Sockets
<1>1. CASE SocloseAborts
  <2>1. PICK i \in {0, 1} : so.queue[i] # <<>> /\ so' = soabort(so, Head(so.queue[i]))
    BY <1>1 DEF SocloseAborts
  <2>2. PICK s : s = Head(so.queue[i])
    OBVIOUS
  <2>3. s \in Q(so, i) /\ s \in Sock
    <3>1. s = so.queue[i][1] /\ 1 \in DOMAIN so.queue[i] /\ s \in Sock
      BY <1>t, <2>1, <2>2
    <3> QED BY <3>1 DEF Q, Range
  <2>4. Kept(s) /\ s \in Q(so, 0) \cup Q(so, 1)
    BY <2>3 DEF IInv
  <2>5. so.pcb[s] # "none" /\ s \in so.nofdref /\ Taken(s) = {}
    BY <2>4 DEF Kept
  <2>6. so' = tcp_close(so, s)
    BY <2>1, <2>2, <2>5 DEF soabort
  <2>7. so'.alloc = so.alloc \ {s}
    <3>1. Queues(so)
      BY DEF IInv
    <3> QED BY <2>3, <2>5, <2>6, <3>1, Closed
  <2>8. Dangling(so') = proc
    <3>1. ASSUME NEW q \in Proc, proc[q].aso \notin so'.alloc PROVE proc[q].aso = NONE
      <4>1. CASE proc[q].aso \in Sock
        <5>1. PICK x \in Sock : x = proc[q].aso
          BY <4>1
        <5>2. q \in Taken(x) /\ Kept(x)
          BY <5>1 DEF Taken, IInv
        <5>3. x \in so.alloc
          BY <5>2 DEF Kept
        <5>4. x = s
          BY <2>7, <3>1, <5>1, <5>3
        <5> QED BY <2>5, <5>2, <5>4
      <4> QED BY <1>t, <4>1 DEF Process
    <3>2. ASSUME NEW q \in Proc, proc[q].aso = NONE PROVE [proc[q] EXCEPT !.aso = NONE] = proc[q]
      BY <1>t, <3>2 DEF Process
    <3>3. \A q \in Proc : Dangling(so')[q] = proc[q]
      BY <3>1, <3>2 DEF Dangling
    <3> QED BY <1>t, <3>3 DEF Dangling
  <2>9. Ends(s)
    BY <1>1, <2>6, <2>8 DEF SocloseAborts, Ends
  <2> QED BY <1>1, <2>3, <2>5, <2>9, EndsKeeps DEF SocloseAborts
<1>2. CASE SocloseEnds
  <2>1. /\ listener' \in Listener /\ listener'.open = listener.open /\ listener'.pcb = "none"
        /\ ~listener'.closing /\ UNCHANGED <<so, files, proc, broken>>
    BY <1>2, <1>t DEF SocloseEnds, Listener
  <2>2. listener.open = {}
    BY <1>2 DEF SocloseEnds, IInv, ListenerKept
  <2>3. Q(so, 0)' = {} /\ Q(so, 1)' = {}
    BY <1>2, <2>1 DEF SocloseEnds, AllAborted, Q, Range
  <2>4. ListenerKept'
    BY <2>1, <2>2, <2>3 DEF ListenerKept
  <2>5. ASSUME NEW q \in Proc PROVE Placed(q)'
    <3>1. proc[q].at = "user"
      BY <2>2 DEF IInv, Placed
    <3> QED BY <2>1, <3>1 DEF IInv, Placed
  <2> QED BY <1>t, <2>1, <2>4, <2>5, ListenerKeeps
<1> QED BY <1>1, <1>2

-----------------------------------------------------------------------------
LEMMA NextIInv == IInv /\ [Next]_vars => IInv'
<1> SUFFICES ASSUME IInv, [Next]_vars PROVE IInv'
  OBVIOUS
<1>1. ASSUME NEW p \in Proc, Accepts(p) PROVE IInv'
  BY <1>1, WaitsKeep, TakesKeeps, SoacceptKeeps DEF Accepts
<1>2. ASSUME NEW p \in Proc, Closes(p) PROVE IInv'
  BY <1>2, CloseAcceptedKeeps, CloseListenerKeeps, ShutKeeps DEF Closes, Runs
<1>3. ASSUME NEW s \in Sock, Network(s) PROVE IInv'
  BY <1>3, SynKeeps, AckKeeps, FinKeeps, EndsKeeps DEF Network, ConnectionEnds
<1>4. ASSUME NEW s \in Sock, Timer(s) PROVE IInv'
  BY <1>4, EndsKeeps DEF Timer, TimerDrops, Embryonic
<1>5. CASE SocloseAborts \/ SocloseEnds
  BY <1>5, SocloseKeeps
<1>6. CASE UNCHANGED vars
  <2>1. UNCHANGED <<so, listener, proc, files>> /\ broken' \in BOOLEAN
    BY <1>6 DEF vars, IInv, TypeOK
  <2> QED BY <2>1, BrokenKeeps
<1> QED BY <1>1, <1>2, <1>3, <1>4, <1>5, <1>6 DEF Next

LEMMA Inductive == Spec => []IInv
<1> QED BY InitIInv, NextIInv, PTL DEF Spec

(* The sockets, the listener and the processes keep their types.           *)
THEOREM ListenQueueTypeOK == Spec => []TypeOK
<1>1. IInv => TypeOK
  BY DEF IInv
<1> QED BY <1>1, Inductive, PTL

(* sonewconn(), soisconnected(), soqremque() and sofree() keep the queues, *)
(* their counts and so_head in agreement, whoever calls them when.         *)
THEOREM ListenQueuesAgree == Spec => []QueuesAgree
<1>1. IInv => QueuesAgree
  <2> SUFFICES ASSUME IInv PROVE QueuesAgree
    OBVIOUS
  <2>1. Queues(so) /\ WithinLimit /\ (\A s \in Sock : Kept(s))
    BY DEF IInv
  <2>2. Q(so, 0) \subseteq Sock /\ Q(so, 1) \subseteq Sock
    BY Types
  <2>3. \A s \in Q(so, 0) : so.pcb[s] \in {"SYN_RECEIVED", "CLOSE_WAIT"}
    BY <2>1, <2>2 DEF Kept
  <2>4. \A s \in Q(so, 1) : so.pcb[s] \in {"ESTABLISHED", "CLOSE_WAIT"}
    BY <2>1, <2>2 DEF Kept
  <2>5. /\ \A i \in {0, 1} : so.len[i] = Len(so.queue[i]) /\ IsInjective(so.queue[i])
        /\ Len(so.queue[0]) + Len(so.queue[1]) <= (3 * Qlimit) \div 2 + 1
    BY <2>1 DEF Queues, WithinLimit
  <2> QED BY <2>1, <2>3, <2>4, <2>5 DEF QueuesAgree, Queues, Q, Queued
<1> QED BY <1>1, Inductive, PTL

(* so_pcb, SS_NOFDREF and so_head always say who refers to a socket, and   *)
(* sofree() frees it once, when nobody does.                               *)
THEOREM ListenQueueNothingLeaks == Spec => []NothingLeaks
<1>1. IInv => NothingLeaks
  <2> SUFFICES ASSUME IInv PROVE NothingLeaks
    OBVIOUS
  <2>1. Queued = Q(so, 0) \cup Q(so, 1)
    BY DEF Queued, Q
  <2>2. listener.open = {} /\ ~listener.closing => Queued = {}
    BY <2>1 DEF IInv, ListenerKept
  <2>3. ASSUME NEW s \in Sock
        PROVE  /\ s \in Queued => so.pcb[s] # "none" /\ s \in so.nofdref
               /\ s \in so.nofdref <=> s \in so.alloc /\ Open(s) = {}
               /\ s \in so.alloc <=> so.pcb[s] # "none" \/ Open(s) # {}
               /\ \A p, q \in Open(s) \cup Taken(s) : p = q
               /\ Taken(s) # {} => s \in so.nofdref \ Queued
    BY <2>1 DEF IInv, Kept
  <2> QED BY <2>2, <2>3 DEF NothingLeaks, Open, Taken
<1> QED BY <1>1, Inductive, PTL

(* The wakeups of soisconnected() and soisdisconnected() miss nobody who   *)
(* sleeps in accept1().                                                    *)
THEOREM NoAcceptorSleepsInVain == Spec => []NoAcceptorForgotten
<1>1. IInv => NoAcceptorForgotten
  BY DEF IInv, Placed, NoAcceptorForgotten
<1> QED BY <1>1, Inductive, PTL
=============================================================================
