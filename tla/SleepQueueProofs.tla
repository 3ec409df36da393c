-------------------------- MODULE SleepQueueProofs --------------------------
(* The sleep queues, the timeouts, the pending signals and what tsleep()   *)
(* returns agree, for any processes, channels, buckets, handlers and       *)
(* masks: wakeups, timeouts, signals and stops in any order.               *)
EXTENDS SleepQueue, FiniteSetTheorems, SequenceTheorems, TLAPS

-----------------------------------------------------------------------------
(* Queues.                                                                 *)

(* The members of a set K of numbers, each with its rank in K.             *)
Upto(K, i) == {j \in K : j <= i}
Rank(K) == [i \in K |-> Cardinality(Upto(K, i))]

LEMMA RankIsOnto ==
  ASSUME NEW n \in Nat, NEW K \in SUBSET (1..n)
  PROVE  /\ Cardinality(K) \in Nat /\ Rank(K) \in [K -> 1..Cardinality(K)]
         /\ \A i, j \in K : Rank(K)[i] = Rank(K)[j] => i = j
         /\ \A k \in 1..Cardinality(K) : \E i \in K : Rank(K)[i] = k
<1>m. PICK m, rank : m = Cardinality(K) /\ rank = Rank(K)
  OBVIOUS
<1>0. IsFiniteSet(1..n)
  BY FS_Interval
<1>1. IsFiniteSet(K) /\ m \in Nat
  BY <1>m, <1>0, FS_Subset, FS_CardinalityType
<1>2. ASSUME NEW i \in K
      PROVE  IsFiniteSet(Upto(K, i)) /\ Cardinality(Upto(K, i)) \in 1..m
  <2>1. IsFiniteSet(Upto(K, i)) /\ Cardinality(Upto(K, i)) \in Nat /\ Cardinality(Upto(K, i)) <= m
    <3>1. Upto(K, i) \subseteq K
      BY DEF Upto
    <3> QED BY <3>1, <1>m, <1>1, FS_Subset, FS_CardinalityType
  <2>2. i \in Upto(K, i)
    BY DEF Upto
  <2>3. Cardinality(Upto(K, i)) # 0
    BY <2>1, <2>2, FS_EmptySet
  <2> QED BY <1>1, <2>1, <2>3
<1>3. ASSUME NEW i \in K, NEW j \in K, i < j PROVE rank[i] < rank[j]
  <2>1. Upto(K, i) \subseteq Upto(K, j) /\ j \in Upto(K, j) /\ j \notin Upto(K, i)
    <3>1. i \in Int /\ j \in Int /\ \A h \in K : h \in Int
      OBVIOUS
    <3>2. \A h \in K : h <= i => h <= j
      BY <3>1, <1>3
    <3>3. j <= j /\ ~(j <= i)
      BY <3>1, <1>3
    <3> QED BY <3>2, <3>3 DEF Upto
  <2>2. Cardinality(Upto(K, i)) < Cardinality(Upto(K, j))
    BY <2>1, <1>2, FS_Subset
  <2> QED BY <2>2, <1>m DEF Rank
<1>4. rank \in [K -> 1..m]
  BY <1>2, <1>m DEF Rank
<1>5. ASSUME NEW i \in K, NEW j \in K, rank[i] = rank[j] PROVE i = j
  <2>1. i < j \/ j < i \/ i = j
    <3>1. K \subseteq Int
      OBVIOUS
    <3> QED BY <3>1
  <2>2. rank[i] \in 1..m /\ rank[j] \in 1..m
    BY <1>4
  <2>3. ~(rank[i] < rank[j]) /\ ~(rank[j] < rank[i])
    BY <1>1, <1>5, <2>2
  <2> QED BY <1>3, <2>1, <2>3
<1>6. rank \in Surjection(K, 1..m)
  <2>1. rank \in Injection(K, 1..m)
    BY <1>4, <1>5 DEF Injection, IsInjective
  <2>2. IsFiniteSet(1..m) /\ Cardinality(1..m) = m
    BY <1>1, FS_Interval
  <2> QED BY <1>m, <2>1, <2>2, FS_Injection
<1> QED BY <1>m, <1>1, <1>4, <1>5, <1>6 DEF Surjection

(* unsleep() and wakeup() take processes off a queue and leave the others  *)
(* as they were.                                                           *)
LEMMA WithoutKeepsOthers ==
  ASSUME NEW S, NEW q \in Seq(S), NEW P
  PROVE  /\ Without(q, P) \in Seq(S)
         /\ ToSet(Without(q, P)) = ToSet(q) \ P
         /\ IsInjective(q) => IsInjective(Without(q, P))
<1>n. PICK n : n = Len(q)
  OBVIOUS
<1>1. n \in Nat /\ DOMAIN q = 1..n /\ \A i \in 1..n : q[i] \in S
  BY <1>n
<1>K. PICK K : K = {i \in 1..n : q[i] \notin P}
  OBVIOUS
<1>m. PICK m : m = Cardinality(K)
  OBVIOUS
<1>r. PICK rank : rank = Rank(K)
  OBVIOUS
<1>2. /\ m \in Nat /\ rank \in [K -> 1..m]
      /\ \A i, j \in K : rank[i] = rank[j] => i = j
      /\ \A k \in 1..m : \E i \in K : rank[i] = k
  <2>1. K \in SUBSET (1..n)
    BY <1>K
  <2>2. /\ Cardinality(K) \in Nat /\ Rank(K) \in [K -> 1..Cardinality(K)]
        /\ \A i, j \in K : Rank(K)[i] = Rank(K)[j] => i = j
        /\ \A k \in 1..Cardinality(K) : \E i \in K : Rank(K)[i] = k
    BY <1>1, <2>1, RankIsOnto
  <2> QED BY <2>2, <1>m, <1>r
<1>a. PICK at : at = [k \in 1..m |-> CHOOSE i \in K : rank[i] = k]
  OBVIOUS
<1>3. at \in [1..m -> K] /\ \A k \in 1..m : rank[at[k]] = k
  BY <1>2, <1>a
<1>t. PICK t : t = Without(q, P)
  OBVIOUS
<1>4. t = [k \in 1..m |-> q[at[k]]]
  <2> DEFINE ch(k) == CHOOSE i \in K : Cardinality({j \in K : j <= i}) = k
  <2>1. \A i \in K : Cardinality({j \in K : j <= i}) = rank[i]
    BY <1>r DEF Rank, Upto
  <2>2. ASSUME NEW k \in 1..m PROVE ch(k) = at[k]
    <3>1. \A i : (i \in K /\ Cardinality({j \in K : j <= i}) = k) <=> (i \in K /\ rank[i] = k)
      BY <2>1
    <3>2. (CHOOSE i : i \in K /\ Cardinality({j \in K : j <= i}) = k) = (CHOOSE i : i \in K /\ rank[i] = k)
      BY <3>1
    <3> QED BY <3>2, <1>a
  <2>3. t = [k \in 1..m |-> q[ch(k)]]
    BY <1>1, <1>K, <1>m, <1>t DEF Without
  <2> HIDE DEF ch
  <2> QED BY <2>2, <2>3
<1>5. t \in Seq(S) /\ DOMAIN t = 1..m
  BY <1>1, <1>2, <1>3, <1>4, <1>K
<1>6. ToSet(t) = ToSet(q) \ P
  <2>1. ASSUME NEW k \in 1..m PROVE t[k] \in ToSet(q) \ P
    BY <1>1, <1>3, <1>4, <1>K DEF ToSet
  <2>2. ASSUME NEW i \in 1..n, q[i] \notin P PROVE q[i] \in ToSet(t)
    <3>1. i \in K /\ rank[i] \in 1..m
      BY <1>2, <1>K, <2>2
    <3>2. at[rank[i]] = i
      BY <3>1, <1>2, <1>3
    <3>3. t[rank[i]] = q[i]
      BY <3>1, <3>2, <1>4
    <3> QED BY <3>1, <3>3, <1>5 DEF ToSet
  <2> QED BY <1>1, <1>5, <2>1, <2>2 DEF ToSet
<1>7. ASSUME IsInjective(q) PROVE IsInjective(t)
  <2> SUFFICES ASSUME NEW k \in 1..m, NEW h \in 1..m, t[k] = t[h] PROVE k = h
    BY <1>5 DEF IsInjective
  <2>1. at[k] \in 1..n /\ at[h] \in 1..n /\ q[at[k]] = q[at[h]]
    BY <1>3, <1>4, <1>K
  <2>2. at[k] = at[h]
    BY <1>1, <1>7, <2>1 DEF IsInjective
  <2> QED BY <2>2, <1>3
<1> QED BY <1>5, <1>6, <1>7, <1>t

(* tsleep() puts a process at the end of a queue it is not in.             *)
LEMMA AppendOne ==
  ASSUME NEW S, NEW q \in Seq(S), NEW s \in S
  PROVE  /\ Append(q, s) \in Seq(S)
         /\ ToSet(Append(q, s)) = ToSet(q) \cup {s}
         /\ IsInjective(q) /\ s \notin ToSet(q) => IsInjective(Append(q, s))
<1>t. PICK t, n : t = Append(q, s) /\ n = Len(q)
  OBVIOUS
<1>1. /\ t \in Seq(S) /\ n \in Nat /\ DOMAIN t = 1..n + 1 /\ t[n + 1] = s
      /\ DOMAIN q = 1..n /\ \A i \in 1..n : t[i] = q[i]
  BY <1>t, AppendProperties
<1>2. ToSet(t) = ToSet(q) \cup {s}
  <2>1. ASSUME NEW i \in 1..n + 1 PROVE t[i] \in ToSet(q) \cup {s}
    BY <1>1 DEF ToSet
  <2>2. ASSUME NEW i \in 1..n PROVE q[i] \in ToSet(t)
    BY <1>1 DEF ToSet
  <2>3. s \in ToSet(t)
    BY <1>1 DEF ToSet
  <2> QED BY <1>1, <2>1, <2>2, <2>3 DEF ToSet
<1>3. ASSUME IsInjective(q), s \notin ToSet(q) PROVE IsInjective(t)
  <2> SUFFICES ASSUME NEW i \in 1..n + 1, NEW j \in 1..n + 1, t[i] = t[j] PROVE i = j
    BY <1>1 DEF IsInjective
  <2>1. CASE i \in 1..n /\ j \in 1..n
    BY <1>1, <1>3, <2>1 DEF IsInjective
  <2>2. \A k \in 1..n : q[k] # s
    BY <1>1, <1>3 DEF ToSet
  <2>3. CASE i = n + 1 \/ j = n + 1
    BY <1>1, <2>2, <2>3
  <2> QED BY <1>1, <2>1, <2>3
<1> QED BY <1>t, <1>1, <1>2, <1>3

-----------------------------------------------------------------------------
(* issignal(): what it finds among the pending signals S.                  *)

Passed(p, s) == s \in Blocked[p] \/ (s = "cont" /\ s \notin Caught[p])

LEMMA IssignalFinds ==
  ASSUME NEW p \in Proc, NEW S \in SUBSET Sig
  PROVE  /\ issignal(p, S) = NONE <=> \A s \in S : Passed(p, s)
         /\ issignal(p, S) # NONE => issignal(p, S) \in S /\ ~Passed(p, issignal(p, S))
         /\ issignal(p, S) = "tstp" => \A s \in S : Passed(p, s) \/ s \in {"tstp", "cont"}
<1>f. PICK F : F = S \ (Blocked[p] \cup Dropped(p, S))
  OBVIOUS
<1>1. F = {s \in S : ~Passed(p, s)}
  BY <1>f DEF Dropped, Passed
<1>2. F \subseteq {"kill", "term", "tstp", "cont"} /\ NONE \notin F
  BY <1>f, SigType, NoneIsNew DEF SigNo
<1>s. PICK s : s = issignal(p, S)
  OBVIOUS
<1>3. s = IF F = {} THEN NONE ELSE CHOOSE x \in F : \A t \in F : SigNo[x] <= SigNo[t]
  BY <1>f, <1>s DEF issignal
<1>4. ASSUME F # {} PROVE s \in F /\ \A t \in F : SigNo[s] <= SigNo[t]
  <2>1. \E x \in F : \A t \in F : SigNo[x] <= SigNo[t]
    <3>1. CASE "kill" \in F
      BY <1>2, <3>1 DEF SigNo
    <3>2. CASE "kill" \notin F /\ "term" \in F
      BY <1>2, <3>2 DEF SigNo
    <3>3. CASE "kill" \notin F /\ "term" \notin F /\ "tstp" \in F
      BY <1>2, <3>3 DEF SigNo
    <3>4. CASE F = {"cont"}
      BY <3>4 DEF SigNo
    <3> QED BY <1>2, <1>4, <3>1, <3>2, <3>3, <3>4
  <2> QED BY <1>3, <1>4, <2>1
<1>5. s = NONE <=> F = {}
  BY <1>2, <1>3, <1>4
<1>6. ASSUME s = "tstp" PROVE \A t \in S : Passed(p, t) \/ t \in {"tstp", "cont"}
  <2>1. F # {}
    BY <1>3, <1>6, NoneIsNew DEF SigNo
  <2>2. \A t \in F : 18 <= SigNo[t]
    BY <2>1, <1>4, <1>6 DEF SigNo
  <2>3. "kill" \notin F /\ "term" \notin F
    BY <2>2 DEF SigNo
  <2> QED BY <1>1, <1>2, <2>3
<1> QED BY <1>1, <1>4, <1>5, <1>6, <1>s
-----------------------------------------------------------------------------
(* The inductive invariant.                                                *)

(* One bucket: what the first part of QueuesAgree says of it.              *)
QueueKept(b) ==
  /\ IsInjective(slpque[b])
  /\ ToSet(slpque[b]) = {p \in Proc : wchan[p] # NONE /\ LOOKUP[wchan[p]] = b}

QueueInv ==
  /\ slpque \in [Bucket -> Seq(Proc)]
  /\ wchan \in [Proc -> Chan \cup {NONE}]
  /\ \A b \in Bucket : QueueKept(b)

Call == [catch : BOOLEAN, timo : BOOLEAN, sig : Sig \cup {NONE},
         cause : {NONE, "wakeup", "timeout", "signal"},
         ret : {NONE, "0", "EWOULDBLOCK", "signal"}]

(* Outside tsleep(); between "resume:" and the return; up to mi_switch().  *)
AtRest == {"run", "stopuser"}
Answering == {"cursig2", "stop2"}
Waiting == {"tsleep", "stop1"}

(* p_stat, p_wchan, p_flag and the timeout fit the place p is at.          *)
PlaceKept(p) ==
  /\ curproc = p => stat[p] = "SRUN"
  /\ stat[p] = "SRUN" => wchan[p] = NONE
  /\ stat[p] = "SSLEEP" => wchan[p] # NONE
  /\ stat[p] = "SSTOP" /\ wchan[p] # NONE => "P_SINTR" \in flag[p]
  /\ pc[p] = "run" => stat[p] = "SRUN"
  /\ pc[p] \in AtRest \cup Answering => flag[p] = {} /\ callout[p] = 0 /\ wchan[p] = NONE
  /\ pc[p] = "sleep" => flag[p] = {} /\ callout[p] = 0
  /\ pc[p] = "resume" => wchan[p] = NONE

(* P_TIMEOUT says that the timeout ended the sleep.                        *)
TimeoutKept(p) ==
  /\ callout[p] <= 1
  /\ callout[p] = 1 => call[p].timo /\ "P_TIMEOUT" \notin flag[p]
  /\ "P_TIMEOUT" \in flag[p] => call[p].timo
  /\ wchan[p] # NONE => call[p].cause = NONE
  /\ pc[p] \in Waiting \cup {"resume"} => ("P_TIMEOUT" \in flag[p] <=> call[p].cause = "timeout")

(* What tsleep() will return, or has returned, fits its cause.             *)
AnswerKept(p) ==
  /\ pc[p] \in Waiting => call[p].sig = NONE
  /\ pc[p] = "stop1" => call[p].catch
  /\ pc[p] \in InTsleep /\ call[p].sig # NONE => call[p].catch
  /\ pc[p] \in Answering /\ call[p].sig = NONE => call[p].cause # "timeout"
  /\ pc[p] = "sleep" => call[p].ret = NONE
  /\ pc[p] \in AtRest /\ call[p].ret = "EWOULDBLOCK" => call[p].cause = "timeout"
  /\ pc[p] \in AtRest /\ call[p].ret = "0" => call[p].cause # "timeout"

(* No signal is pending that would end an interruptible sleep, not even    *)
(* while the process is stopped; the stop signal itself may be.            *)
SignalsKept(p) ==
  /\ "tstp" \in siglist[p] => "cont" \notin siglist[p]
  /\ "P_SINTR" \in flag[p] /\ wchan[p] # NONE =>
       \A s \in siglist[p] : Passed(p, s) \/ (s = "tstp" /\ stat[p] # "SSLEEP")

(* A signal is pending that ends the process if it catches nothing.        *)
Deadly(p) == \E s \in siglist[p] : ~Passed(p, s) /\ s # "tstp"

(* Every sleep that is over has a cause; when that is a signal, there is   *)
(* one to return for.                                                      *)
CauseKept(p) ==
  Caught[p] \cap {"tstp", "cont"} = {} =>
    /\ pc[p] \in Waiting /\ "P_SINTR" \in flag[p] => call[p].catch
    /\ pc[p] \in Waiting \cup {"resume"} /\ wchan[p] = NONE => call[p].cause # NONE
    /\ pc[p] \in InTsleep /\ call[p].cause = "signal" =>
         call[p].sig # NONE \/ (call[p].catch /\ Deadly(p))
    /\ pc[p] \in Answering /\ call[p].sig = NONE => call[p].cause # NONE
    /\ pc[p] \in AtRest /\ call[p].ret = "0" => call[p].cause = "wakeup"

ProcKept(p) ==
  PlaceKept(p) /\ TimeoutKept(p) /\ AnswerKept(p) /\ SignalsKept(p) /\ CauseKept(p)

SleepInv == TypeOK /\ QueueInv /\ \A p \in Proc : ProcKept(p)

-----------------------------------------------------------------------------
(* The queues.                                                             *)

LEMMA QueuesSame ==
  ASSUME QueueInv, wchan' = wchan, slpque' = slpque
  PROVE  QueueInv'
BY DEF QueueInv, QueueKept

LEMMA EnqueueKeepsQueues ==
  ASSUME QueueInv, NEW p \in Proc, NEW c \in Chan, wchan[p] = NONE, Enqueue(p, c)
  PROVE  QueueInv'
<1>0. LOOKUP[c] \in Bucket /\ c # NONE
  BY LookupType, NoneIsNew
<1>1. wchan' = [wchan EXCEPT ![p] = c] /\ wchan' \in [Proc -> Chan \cup {NONE}]
  BY DEF QueueInv, Enqueue
<1>2. ASSUME NEW b \in Bucket
      PROVE  slpque'[b] = IF b = LOOKUP[c] THEN Append(slpque[b], p) ELSE slpque[b]
  BY <1>0 DEF QueueInv, Enqueue
<1>3. p \notin ToSet(slpque[LOOKUP[c]])
  BY <1>0 DEF QueueInv, QueueKept
<1>4. slpque[LOOKUP[c]] \in Seq(Proc)
  BY <1>0 DEF QueueInv
<1>5. slpque' \in [Bucket -> Seq(Proc)]
  <2>1. Append(slpque[LOOKUP[c]], p) \in Seq(Proc)
    BY <1>4, AppendOne
  <2> QED BY <2>1 DEF QueueInv, Enqueue
<1>6. ASSUME NEW b \in Bucket, b # LOOKUP[c] PROVE QueueKept(b)'
  <2>1. slpque'[b] = slpque[b]
    BY <1>2, <1>6
  <2>2. {q \in Proc : wchan'[q] # NONE /\ LOOKUP[wchan'[q]] = b}
          = {q \in Proc : wchan[q] # NONE /\ LOOKUP[wchan[q]] = b}
    BY <1>1, <1>6 DEF QueueInv
  <2> QED BY <2>1, <2>2 DEF QueueInv, QueueKept
<1>7. QueueKept(LOOKUP[c])'
  <2>b. PICK b \in Bucket : b = LOOKUP[c]
    BY <1>0
  <2>1. slpque'[b] = Append(slpque[b], p)
    BY <1>2, <2>b
  <2>2. /\ IsInjective(slpque'[b])
        /\ ToSet(slpque'[b]) = ToSet(slpque[b]) \cup {p}
    BY <1>3, <1>4, <2>b, <2>1, AppendOne DEF QueueInv, QueueKept
  <2>3. {q \in Proc : wchan'[q] # NONE /\ LOOKUP[wchan'[q]] = b}
          = {q \in Proc : wchan[q] # NONE /\ LOOKUP[wchan[q]] = b} \cup {p}
    BY <1>0, <1>1, <2>b DEF QueueInv
  <2>4. LOOKUP'[c] = LOOKUP[c]
    OBVIOUS
  <2> QED BY <2>b, <2>2, <2>3 DEF QueueInv, QueueKept
<1> QED BY <1>1, <1>5, <1>6, <1>7 DEF QueueInv

(* A set P of processes that leave the queues.                             *)
LEMMA LeavingKeepsQueues ==
  ASSUME QueueInv, NEW P,
         wchan' = [q \in Proc |-> IF q \in P THEN NONE ELSE wchan[q]],
         slpque' \in [Bucket -> Seq(Proc)],
         \A b \in Bucket :
           slpque'[b] = Without(slpque[b], P) \/ (slpque'[b] = slpque[b] /\ P \cap ToSet(slpque[b]) = {})
  PROVE  QueueInv'
<1>1. wchan' \in [Proc -> Chan \cup {NONE}]
  BY DEF QueueInv
<1>2. ASSUME NEW b \in Bucket PROVE QueueKept(b)'
  <2>1. slpque[b] \in Seq(Proc)
    BY DEF QueueInv
  <2>2. IsInjective(slpque'[b]) /\ ToSet(slpque'[b]) = ToSet(slpque[b]) \ P
    BY <2>1, WithoutKeepsOthers DEF QueueInv, QueueKept
  <2>3. {q \in Proc : wchan'[q] # NONE /\ LOOKUP[wchan'[q]] = b}
          = {q \in Proc : wchan[q] # NONE /\ LOOKUP[wchan[q]] = b} \ P
    BY DEF QueueInv
  <2> QED BY <2>2, <2>3 DEF QueueInv, QueueKept
<1> QED BY <1>1, <1>2 DEF QueueInv

LEMMA UnsleepKeepsQueues ==
  ASSUME QueueInv, NEW p \in Proc,
         slpque' = Unqueued(p), wchan' = [wchan EXCEPT ![p] = NONE]
  PROVE  QueueInv'
<1>1. wchan' = [q \in Proc |-> IF q \in {p} THEN NONE ELSE wchan[q]]
  BY DEF QueueInv
<1>2. CASE wchan[p] = NONE
  <2>1. slpque' = slpque /\ wchan' = wchan
    BY <1>2 DEF Unqueued, QueueInv
  <2> QED BY <2>1, QueuesSame
<1>3. CASE wchan[p] # NONE
  <2>b. PICK b \in Bucket : b = LOOKUP[wchan[p]]
    BY <1>3, LookupType DEF QueueInv
  <2>1. slpque' = [slpque EXCEPT ![b] = Without(slpque[b], {p})]
    BY <1>3, <2>b DEF Unqueued
  <2>2. slpque[b] \in Seq(Proc)
    BY DEF QueueInv
  <2>3. slpque' \in [Bucket -> Seq(Proc)] /\ slpque'[b] = Without(slpque[b], {p})
    BY <2>1, <2>2, WithoutKeepsOthers DEF QueueInv
  <2>4. ASSUME NEW a \in Bucket, a # b
        PROVE  slpque'[a] = slpque[a] /\ {p} \cap ToSet(slpque[a]) = {}
    <3>1. p \notin ToSet(slpque[a])
      BY <1>3, <2>b, <2>4 DEF QueueInv, QueueKept
    <3>2. slpque'[a] = slpque[a]
      BY <2>1, <2>4 DEF QueueInv
    <3> QED BY <3>1, <3>2
  <2>5. \A a \in Bucket :
           slpque'[a] = Without(slpque[a], {p}) \/ (slpque'[a] = slpque[a] /\ {p} \cap ToSet(slpque[a]) = {})
    BY <2>3, <2>4
  <2> QED BY <1>1, <2>3, <2>5, LeavingKeepsQueues
<1> QED BY <1>2, <1>3

LEMMA WakeupKeepsQueues ==
  ASSUME QueueInv, NEW c \in Chan,
         slpque' = [slpque EXCEPT ![LOOKUP[c]] = Unlink(c)], wchan' = Unwait(c)
  PROVE  QueueInv' /\ \A p \in Proc : p \in Waiters(c) <=> wchan[p] = c
<1>P. PICK P : P = Waiters(c)
  OBVIOUS
<1>b. PICK b \in Bucket : b = LOOKUP[c]
  BY LookupType
<1>1. wchan' = [q \in Proc |-> IF q \in P THEN NONE ELSE wchan[q]]
  BY <1>P DEF Unwait
<1>2. slpque' = [slpque EXCEPT ![b] = Without(slpque[b], P)]
  BY <1>P, <1>b DEF Unlink
<1>3. slpque[b] \in Seq(Proc)
  BY DEF QueueInv
<1>4. slpque' \in [Bucket -> Seq(Proc)] /\ slpque'[b] = Without(slpque[b], P)
  <2>1. Without(slpque[b], P) \in Seq(Proc)
    BY <1>3, WithoutKeepsOthers
  <2> QED BY <1>2, <2>1 DEF QueueInv
<1>5. \A p \in Proc : p \in P <=> wchan[p] = c
  BY <1>P, <1>b, NoneIsNew DEF Waiters, QueueInv, QueueKept
<1>6. ASSUME NEW a \in Bucket, a # b
      PROVE  slpque'[a] = slpque[a] /\ P \cap ToSet(slpque[a]) = {}
  <2>1. P \cap ToSet(slpque[a]) = {}
    BY <1>b, <1>5, <1>6 DEF QueueInv, QueueKept
  <2>2. slpque'[a] = slpque[a]
    BY <1>2, <1>6 DEF QueueInv
  <2> QED BY <2>1, <2>2
<1>7. \A a \in Bucket :
           slpque'[a] = Without(slpque[a], P) \/ (slpque'[a] = slpque[a] /\ P \cap ToSet(slpque[a]) = {})
  BY <1>4, <1>6
<1>8. QueueInv'
  BY <1>1, <1>4, <1>7, LeavingKeepsQueues
<1> QED BY <1>5, <1>8, <1>P

-----------------------------------------------------------------------------
(* The processes.  A step of one process leaves the others as they are.    *)

Same(q) ==
  /\ pc'[q] = pc[q] /\ stat'[q] = stat[q] /\ wchan'[q] = wchan[q] /\ flag'[q] = flag[q]
  /\ siglist'[q] = siglist[q] /\ callout'[q] = callout[q] /\ call'[q] = call[q]
  /\ curproc' = q => curproc = q

LEMMA SameIsKept ==
  ASSUME NEW q \in Proc, ProcKept(q), Same(q)
  PROVE  ProcKept(q)'
<1>1. PlaceKept(q)'
  BY DEF ProcKept, PlaceKept, Same, AtRest, Answering
<1>2. TimeoutKept(q)' /\ AnswerKept(q)'
  BY DEF ProcKept, TimeoutKept, AnswerKept, Same, AtRest, Answering, Waiting, InTsleep
<1>3. SignalsKept(q)'
  BY DEF ProcKept, SignalsKept, Passed, Same
<1>4. CauseKept(q)'
  BY DEF ProcKept, CauseKept, Deadly, Passed, Same, AtRest, Answering, Waiting, InTsleep
<1> QED BY <1>1, <1>2, <1>3, <1>4 DEF ProcKept

LEMMA OneStepKeepsInv ==
  ASSUME SleepInv, NEW p \in Proc, TypeOK', QueueInv', ProcKept(p)',
         \A q \in Proc : q # p => Same(q)
  PROVE  SleepInv'
BY SameIsKept DEF SleepInv

LEMMA SwitchKeepsInv ==
  ASSUME SleepInv, NEW p \in Proc, cpu_switch(p) \/ Preempt(p)
  PROVE  SleepInv'
<1>1. TypeOK' /\ QueueInv'
  BY QueuesSame DEF SleepInv, TypeOK, cpu_switch, Preempt
<1>2. ProcKept(p)'
  <2>1. PlaceKept(p)' /\ TimeoutKept(p)' /\ AnswerKept(p)'
    BY NoneIsNew DEF SleepInv, ProcKept, PlaceKept, TimeoutKept, AnswerKept, cpu_switch, Preempt
  <2>2. SignalsKept(p)' /\ CauseKept(p)'
    BY DEF SleepInv, ProcKept, SignalsKept, CauseKept, Deadly, Passed, cpu_switch, Preempt
  <2> QED BY <2>1, <2>2 DEF ProcKept
<1>3. \A q \in Proc : q # p => Same(q)
  BY NoneIsNew DEF Same, cpu_switch, Preempt
<1> QED BY <1>1, <1>2, <1>3, OneStepKeepsInv

LEMMA sleepKeepsInv ==
  ASSUME SleepInv, NEW p \in Proc, NEW c \in Chan, sleep(p, c)
  PROVE  SleepInv'
<1>1. wchan[p] = NONE /\ c # NONE
  BY NoneIsNew DEF SleepInv, ProcKept, PlaceKept, sleep, AtRest
<1>2. QueueInv'
  BY <1>1, EnqueueKeepsQueues DEF SleepInv, sleep
<1>3. TypeOK'
  BY <1>2 DEF SleepInv, QueueInv, TypeOK, sleep, mi_switch, NewCall, Places
<1>4. \A q \in Proc : q # p => Same(q)
  BY NoneIsNew DEF SleepInv, TypeOK, Same, sleep, Enqueue, mi_switch, NewCall
<1>5. /\ pc'[p] = "sleep" /\ stat'[p] = "SSLEEP" /\ wchan'[p] = c /\ curproc' = NONE
      /\ flag'[p] = {} /\ siglist'[p] = siglist[p] /\ callout'[p] = 0
      /\ call'[p] = NewCall(FALSE, FALSE, NONE, NONE)
  BY DEF SleepInv, TypeOK, ProcKept, PlaceKept, sleep, Enqueue, mi_switch, AtRest
<1>6. ProcKept(p)'
  <2>1. PlaceKept(p)'
    BY <1>1, <1>5, NoneIsNew DEF PlaceKept, AtRest, Answering
  <2>2. TimeoutKept(p)' /\ AnswerKept(p)' /\ CauseKept(p)'
    BY <1>5 DEF TimeoutKept, AnswerKept, CauseKept, NewCall, AtRest, Answering, Waiting, InTsleep
  <2>3. SignalsKept(p)'
    BY <1>5 DEF SleepInv, ProcKept, SignalsKept
  <2> QED BY <2>1, <2>2, <2>3 DEF ProcKept
<1> QED BY <1>2, <1>3, <1>4, <1>6, OneStepKeepsInv

LEMMA ScannedKeeps ==
  ASSUME NEW p \in Proc, NEW S \in SUBSET Sig
  PROVE  Scanned(p, S) \subseteq S /\ \A s \in S : Passed(p, s) \/ s \in Scanned(p, S)
BY DEF Scanned, Dropped, Passed

LEMMA tsleepKeepsInv ==
  ASSUME SleepInv, NEW p \in Proc, NEW c \in Chan, NEW catch \in BOOLEAN, NEW timo \in BOOLEAN,
         tsleep(p, c, catch, timo)
  PROVE  SleepInv'
<1>1. /\ wchan[p] = NONE /\ c # NONE /\ flag[p] = {} /\ callout[p] = 0 /\ stat[p] = "SRUN"
      /\ siglist[p] \in SUBSET Sig
  BY NoneIsNew DEF SleepInv, TypeOK, ProcKept, PlaceKept, tsleep, AtRest
<1>s. PICK s : s = IF catch THEN issignal(p, siglist[p]) ELSE NONE
  OBVIOUS
<1>2. /\ s = NONE /\ catch => \A x \in siglist[p] : Passed(p, x)
      /\ s # NONE => catch /\ s \in Sig /\ s \in siglist[p] /\ ~Passed(p, s)
      /\ s = "tstp" => \A x \in siglist[p] : Passed(p, x) \/ x = "tstp"
  BY <1>1, <1>s, IssignalFinds, NoneIsNew DEF SleepInv, ProcKept, SignalsKept, SigNo
<1>3. /\ flag'[p] = (IF catch THEN {"P_SINTR"} ELSE {})
      /\ callout'[p] = (IF timo THEN 1 ELSE 0)
      /\ siglist'[p] \subseteq siglist[p]
      /\ \A x \in siglist[p] : Passed(p, x) \/ x \in siglist'[p]
  BY <1>1, ScannedKeeps DEF SleepInv, TypeOK, tsleep
<1>4. /\ flag' \in [Proc -> SUBSET {"P_SINTR", "P_TIMEOUT"}]
      /\ siglist' \in [Proc -> SUBSET Sig]
      /\ callout' \in [Proc -> Nat]
      /\ \A q \in Proc : q # p => flag'[q] = flag[q] /\ siglist'[q] = siglist[q] /\ callout'[q] = callout[q]
  BY <1>1, ScannedKeeps DEF SleepInv, TypeOK, tsleep
<1>5. CASE s = NONE \/ Stops(p, s)
  <2>1. /\ Enqueue(p, c)
        /\ call' = [call EXCEPT ![p] = NewCall(catch, timo, NONE, NONE)]
        /\ IF s = NONE THEN mi_switch(p, "tsleep", "SSLEEP") ELSE mi_switch(p, "stop1", "SSTOP")
    BY <1>5, <1>s DEF tsleep
  <2>2. QueueInv'
    BY <1>1, <2>1, EnqueueKeepsQueues DEF SleepInv
  <2>3. NewCall(catch, timo, NONE, NONE) \in Call
    BY DEF NewCall, Call
  <2>4. TypeOK'
    <3>1. call' \in [Proc -> Call]
      BY <2>1, <2>3 DEF SleepInv, TypeOK, Call
    <3>2. /\ pc' \in [Proc -> Places] /\ stat' \in [Proc -> {"SRUN", "SSLEEP", "SSTOP"}]
          /\ curproc' \in Proc \cup {NONE}
      BY <2>1 DEF SleepInv, TypeOK, mi_switch, Places
    <3> QED BY <1>4, <2>2, <3>1, <3>2 DEF TypeOK, QueueInv, Call
  <2>5. \A q \in Proc : q # p => Same(q)
    BY <1>4, <2>1, NoneIsNew DEF SleepInv, TypeOK, Same, Enqueue, mi_switch
  <2>6. /\ pc'[p] = (IF s = NONE THEN "tsleep" ELSE "stop1")
        /\ stat'[p] = (IF s = NONE THEN "SSLEEP" ELSE "SSTOP")
        /\ wchan'[p] = c /\ curproc' = NONE /\ call'[p] = NewCall(catch, timo, NONE, NONE)
    BY <2>1 DEF SleepInv, TypeOK, Enqueue, mi_switch
  <2>7. ProcKept(p)'
    <3>1. PlaceKept(p)'
      <4>1. s # NONE => "P_SINTR" \in flag'[p]
        BY <1>2, <1>3
      <4> QED BY <1>1, <2>6, <4>1, NoneIsNew DEF PlaceKept, AtRest, Answering
    <3>c. s # NONE => call'[p].catch
      <4>1. call'[p].catch = catch
        BY <2>6 DEF NewCall
      <4>2. s # NONE => catch
        BY <1>2
      <4> QED BY <4>1, <4>2, Zenon
    <3>2. TimeoutKept(p)' /\ AnswerKept(p)' /\ CauseKept(p)'
      BY <1>1, <1>3, <2>6, <3>c, NoneIsNew
      DEF TimeoutKept, AnswerKept, CauseKept, NewCall, AtRest, Answering, Waiting, InTsleep
    <3>3. s # NONE => s = "tstp"
      BY <1>5 DEF Stops
    <3>4. SignalsKept(p)'
      BY <1>2, <1>3, <2>6, <3>3 DEF SleepInv, ProcKept, SignalsKept, Passed
    <3> QED BY <3>1, <3>2, <3>4 DEF ProcKept
  <2> QED BY <2>2, <2>4, <2>5, <2>7, OneStepKeepsInv
<1>6. CASE s # NONE /\ ~Stops(p, s)
  <2>1. /\ call' = [call EXCEPT ![p] = NewCall(catch, timo, s, "signal")]
        /\ GoOn(p, "resume") /\ UNCHANGED <<wchan, slpque>>
    BY <1>6, <1>s DEF tsleep
  <2>2. QueueInv'
    BY <2>1, QueuesSame DEF SleepInv
  <2>3. NewCall(catch, timo, s, "signal")
          = [catch |-> catch, timo |-> timo, sig |-> s, cause |-> "signal", ret |-> NONE]
    BY DEF NewCall
  <2>4. TypeOK'
    <3>0. NewCall(catch, timo, s, "signal") \in Call
      <4>1. s \in Sig
        BY <1>2, <1>6
      <4> QED BY <4>1 DEF NewCall, Call
    <3>1. call' \in [Proc -> Call]
      BY <2>1, <3>0 DEF SleepInv, TypeOK, Call
    <3>2. /\ pc' \in [Proc -> Places] /\ stat' \in [Proc -> {"SRUN", "SSLEEP", "SSTOP"}]
          /\ curproc' \in Proc \cup {NONE}
      BY <2>1 DEF SleepInv, TypeOK, GoOn, Places
    <3> QED BY <1>4, <2>2, <3>1, <3>2 DEF TypeOK, QueueInv, Call
  <2>5. \A q \in Proc : q # p => Same(q)
    BY <1>4, <2>1 DEF SleepInv, TypeOK, Same, GoOn
  <2>6. /\ pc'[p] = "resume" /\ stat'[p] = "SRUN" /\ wchan'[p] = NONE /\ curproc' = curproc
        /\ call'[p].catch = catch /\ call'[p].timo = timo /\ call'[p].sig = s
        /\ call'[p].cause = "signal" /\ call'[p].ret = NONE
    BY <1>1, <2>1, <2>3 DEF SleepInv, TypeOK, GoOn
  <2>7. ProcKept(p)'
    <3>1. PlaceKept(p)'
      BY <1>1, <2>6 DEF PlaceKept, AtRest, Answering
    <3>2. TimeoutKept(p)'
      BY <1>3, <2>6 DEF TimeoutKept, Waiting
    <3>c. call'[p].catch
      <4>1. catch
        BY <1>2, <1>6
      <4> QED BY <2>6, <4>1, Zenon
    <3>3. AnswerKept(p)' /\ CauseKept(p)'
      BY <1>6, <2>6, <3>c, NoneIsNew DEF AnswerKept, CauseKept, AtRest, Answering, Waiting, InTsleep
    <3>4. SignalsKept(p)'
      BY <1>3, <2>6 DEF SleepInv, ProcKept, SignalsKept
    <3> QED BY <3>1, <3>2, <3>3, <3>4 DEF ProcKept
  <2> QED BY <2>2, <2>4, <2>5, <2>7, OneStepKeepsInv
<1>7. s = NONE \/ Stops(p, s) \/ (s # NONE /\ ~Stops(p, s))
  OBVIOUS
<1> QED BY <1>5, <1>6, <1>7

(* The return of mi_switch() in sleep(), and every return of tsleep().     *)
LEMMA SleepReturnsKeepsInv ==
  ASSUME SleepInv, NEW p \in Proc, SleepReturns(p)
  PROVE  SleepInv'
<1>1. QueueInv'
  BY QueuesSame DEF SleepInv, SleepReturns
<1>2. TypeOK'
  BY <1>1 DEF SleepInv, QueueInv, TypeOK, SleepReturns, GoOn, Places
<1>3. \A q \in Proc : q # p => Same(q)
  BY DEF SleepInv, TypeOK, Same, SleepReturns, GoOn
<1>4. /\ pc[p] = "sleep" /\ pc'[p] = "run" /\ stat'[p] = "SRUN" /\ wchan'[p] = NONE
      /\ stat[p] = "SRUN" /\ wchan[p] = NONE
      /\ flag'[p] = {} /\ siglist'[p] = siglist[p] /\ callout'[p] = 0 /\ call'[p] = call[p]
      /\ call[p].ret = NONE
  BY DEF SleepInv, TypeOK, ProcKept, PlaceKept, AnswerKept, SleepReturns, GoOn
<1>5. ProcKept(p)'
  <2>1. PlaceKept(p)'
    BY <1>4 DEF PlaceKept, AtRest, Answering
  <2>2. TimeoutKept(p)' /\ AnswerKept(p)' /\ CauseKept(p)'
    BY <1>4, NoneIsNew DEF TimeoutKept, AnswerKept, CauseKept, AtRest, Answering, Waiting, InTsleep
  <2>3. SignalsKept(p)'
    BY <1>4 DEF SleepInv, ProcKept, SignalsKept
  <2> QED BY <2>1, <2>2, <2>3 DEF ProcKept
<1> QED BY <1>1, <1>2, <1>3, <1>5, OneStepKeepsInv

LEMMA ResumeKeepsInv ==
  ASSUME SleepInv, NEW p \in Proc, Resume(p)
  PROVE  SleepInv'
<1>1. QueueInv'
  BY QueuesSame DEF SleepInv, Resume
<1>2. /\ pc[p] \in {"tsleep", "resume"} /\ stat[p] = "SRUN" /\ wchan[p] = NONE
      /\ callout[p] \in {0, 1} /\ call[p] \in Call
  <2>1. callout[p] \in Nat /\ callout[p] <= 1
    BY DEF SleepInv, TypeOK, ProcKept, TimeoutKept
  <2> QED BY <2>1 DEF SleepInv, TypeOK, ProcKept, PlaceKept, Resume, Call
<1>3. Untimeout(p) = 0
  BY <1>2 DEF SleepInv, ProcKept, TimeoutKept, Untimeout
<1>4. /\ flag' = [flag EXCEPT ![p] = {}] /\ callout' = [callout EXCEPT ![p] = 0]
      /\ UNCHANGED <<wchan, slpque, siglist, stat, curproc>>
  BY <1>3 DEF Resume, Return, GoOn
<1>5. CASE "P_TIMEOUT" \in flag[p] /\ call[p].sig = NONE
  <2>1. /\ pc' = [pc EXCEPT ![p] = "run"]
        /\ call' = [call EXCEPT ![p].ret = "EWOULDBLOCK"]
    BY <1>5 DEF Resume, Return, GoOn
  <2>2. call'[p] = [call[p] EXCEPT !.ret = "EWOULDBLOCK"] /\ call' \in [Proc -> Call]
    <3>1. call \in [Proc -> Call]
      BY DEF SleepInv, TypeOK, Call
    <3>2. [call[p] EXCEPT !.ret = "EWOULDBLOCK"] \in Call
      BY <1>2 DEF Call
    <3> QED BY <2>1, <3>1, <3>2
  <2>3. TypeOK'
    BY <1>1, <1>4, <2>1, <2>2 DEF SleepInv, QueueInv, TypeOK, Places, Call
  <2>4. \A q \in Proc : q # p => Same(q)
    BY <1>4, <2>1 DEF SleepInv, TypeOK, Same
  <2>5. /\ pc'[p] = "run" /\ stat'[p] = "SRUN" /\ wchan'[p] = NONE /\ flag'[p] = {} /\ callout'[p] = 0
        /\ siglist'[p] = siglist[p]
    BY <1>2, <1>4, <2>1 DEF SleepInv, TypeOK
  <2>6. call'[p].ret = "EWOULDBLOCK" /\ call'[p].cause = "timeout"
    BY <1>2, <1>5, <2>2 DEF SleepInv, ProcKept, TimeoutKept, Waiting, Call
  <2>7. ProcKept(p)'
    <3>1. PlaceKept(p)'
      BY <2>5 DEF PlaceKept, AtRest, Answering
    <3>2. TimeoutKept(p)' /\ AnswerKept(p)' /\ CauseKept(p)'
      BY <2>5, <2>6, NoneIsNew DEF TimeoutKept, AnswerKept, CauseKept, AtRest, Answering, Waiting, InTsleep
    <3>3. SignalsKept(p)'
      BY <2>5 DEF SleepInv, ProcKept, SignalsKept
    <3> QED BY <3>1, <3>2, <3>3 DEF ProcKept
  <2> QED BY <1>1, <2>3, <2>4, <2>7, OneStepKeepsInv
<1>6. CASE ~("P_TIMEOUT" \in flag[p] /\ call[p].sig = NONE)
  <2>1. pc' = [pc EXCEPT ![p] = "cursig2"] /\ call' = call
    BY <1>6 DEF Resume, GoOn
  <2>2. TypeOK'
    BY <1>1, <1>4, <2>1 DEF SleepInv, QueueInv, TypeOK, Places
  <2>3. \A q \in Proc : q # p => Same(q)
    BY <1>4, <2>1 DEF SleepInv, TypeOK, Same
  <2>4. /\ pc'[p] = "cursig2" /\ stat'[p] = "SRUN" /\ wchan'[p] = NONE /\ flag'[p] = {}
        /\ callout'[p] = 0 /\ siglist'[p] = siglist[p] /\ call'[p] = call[p]
    BY <1>2, <1>4, <2>1 DEF SleepInv, TypeOK
  <2>5. ProcKept(p)'
    <3>1. PlaceKept(p)'
      BY <2>4 DEF PlaceKept, AtRest, Answering
    <3>2. TimeoutKept(p)'
      BY <1>2, <2>4 DEF TimeoutKept, Waiting
    <3>3. AnswerKept(p)'
      BY <1>2, <1>6, <2>4 DEF SleepInv, ProcKept, TimeoutKept, AnswerKept, AtRest, Answering, Waiting, InTsleep
    <3>4. CauseKept(p)'
      BY <1>2, <2>4 DEF SleepInv, ProcKept, CauseKept, Deadly, Passed, AtRest, Answering, Waiting, InTsleep
    <3>5. SignalsKept(p)'
      BY <2>4 DEF SleepInv, ProcKept, SignalsKept
    <3> QED BY <3>1, <3>2, <3>3, <3>4, <3>5 DEF ProcKept
  <2> QED BY <1>1, <2>2, <2>3, <2>5, OneStepKeepsInv
<1> QED BY <1>5, <1>6

LEMMA SecondCursigKeepsInv ==
  ASSUME SleepInv, NEW p \in Proc, SecondCursig(p)
  PROVE  SleepInv'
<1>1. QueueInv'
  BY QueuesSame DEF SleepInv, SecondCursig
<1>2. /\ pc[p] = "cursig2" /\ curproc = p /\ stat[p] = "SRUN" /\ wchan[p] = NONE /\ flag[p] = {}
      /\ callout[p] = 0 /\ call[p] \in Call /\ siglist[p] \in SUBSET Sig
  BY DEF SleepInv, TypeOK, ProcKept, PlaceKept, SecondCursig, Call, AtRest, Answering
<1>3. /\ siglist' \in [Proc -> SUBSET Sig]
      /\ siglist'[p] \subseteq siglist[p]
      /\ \A x \in siglist[p] : Passed(p, x) \/ x \in siglist'[p]
      /\ \A q \in Proc : q # p => siglist'[q] = siglist[q]
  <2>1. siglist' = siglist \/ siglist' = [siglist EXCEPT ![p] = Scanned(p, siglist[p])]
    BY DEF SecondCursig
  <2>2. /\ Scanned(p, siglist[p]) \in SUBSET Sig /\ Scanned(p, siglist[p]) \subseteq siglist[p]
        /\ \A x \in siglist[p] : Passed(p, x) \/ x \in Scanned(p, siglist[p])
    BY <1>2, ScannedKeeps
  <2> QED BY <1>2, <2>1, <2>2 DEF SleepInv, TypeOK
<1>4. SignalsKept(p)'
  BY <1>2, <1>3 DEF SleepInv, ProcKept, SignalsKept, SecondCursig
<1>5. ASSUME NEW r \in {"0", "signal"}, Return(p, r),
             r = "0" => /\ call[p].cause # "timeout"
                        /\ Caught[p] \cap {"tstp", "cont"} = {} => call[p].cause = "wakeup"
      PROVE  SleepInv'
  <2>1. /\ pc' = [pc EXCEPT ![p] = "run"] /\ call' = [call EXCEPT ![p].ret = r]
        /\ UNCHANGED <<stat, curproc, wchan, slpque, flag, callout>>
    BY <1>5 DEF Return, GoOn, SecondCursig
  <2>2. /\ call'[p] = [call[p] EXCEPT !.ret = r] /\ call' \in [Proc -> Call]
        /\ call'[p].ret = r /\ call'[p].cause = call[p].cause
    BY <1>2, <2>1 DEF SleepInv, TypeOK, Call
  <2>3. TypeOK'
    BY <1>1, <1>3, <2>1, <2>2 DEF SleepInv, QueueInv, TypeOK, Places, Call
  <2>4. \A q \in Proc : q # p => Same(q)
    BY <1>3, <2>1 DEF SleepInv, TypeOK, Same
  <2>5. pc'[p] = "run"
    BY <2>1 DEF SleepInv, TypeOK
  <2>6. PlaceKept(p)'
    BY <1>2, <2>1, <2>5 DEF PlaceKept, AtRest, Answering
  <2>7. TimeoutKept(p)' /\ AnswerKept(p)' /\ CauseKept(p)'
    BY <1>2, <1>5, <2>1, <2>2, <2>5
    DEF TimeoutKept, AnswerKept, CauseKept, AtRest, Answering, Waiting, InTsleep
  <2> QED BY <1>1, <1>4, <2>3, <2>4, <2>6, <2>7, OneStepKeepsInv DEF ProcKept
<1>6. CASE ~call[p].catch \/ call[p].sig # NONE
  <2>1. CASE call[p].catch
    <3>1. Return(p, "signal")
      BY <1>6, <2>1 DEF SecondCursig
    <3> QED BY <3>1, <1>5
  <2>2. CASE ~call[p].catch
    <3>1. Return(p, "0")
      BY <2>2 DEF SecondCursig
    <3>2. call[p].sig = NONE /\ call[p].cause # "timeout"
      BY <1>2, <2>2 DEF SleepInv, ProcKept, AnswerKept, Answering, InTsleep
    <3>3. Caught[p] \cap {"tstp", "cont"} = {} => call[p].cause = "wakeup"
      <4>1. call[p].cause \in {NONE, "wakeup", "timeout", "signal"}
        BY <1>2 DEF Call
      <4> QED BY <1>2, <2>2, <3>2, <4>1 DEF SleepInv, ProcKept, CauseKept, Answering, InTsleep
    <3> QED BY <3>1, <3>2, <3>3, <1>5
  <2> QED BY <2>1, <2>2
<1>7. CASE call[p].catch /\ call[p].sig = NONE
  <2>s. PICK s : s = issignal(p, siglist[p])
    OBVIOUS
  <2>1. /\ siglist' = [siglist EXCEPT ![p] = Scanned(p, @)]
        /\ IF Stops(p, s) THEN mi_switch(p, "stop2", "SSTOP") /\ UNCHANGED call
                       ELSE Return(p, IF s = NONE THEN "0" ELSE "signal")
    BY <1>7, <2>s DEF SecondCursig
  <2>2. CASE Stops(p, s)
    <3>1. /\ pc' = [pc EXCEPT ![p] = "stop2"] /\ stat' = [stat EXCEPT ![p] = "SSTOP"]
          /\ curproc' = NONE /\ UNCHANGED <<call, wchan, slpque, flag, callout>>
      BY <2>1, <2>2 DEF mi_switch, SecondCursig
    <3>2. TypeOK'
      BY <1>1, <1>3, <3>1 DEF SleepInv, QueueInv, TypeOK, Places
    <3>3. \A q \in Proc : q # p => Same(q)
      BY <1>3, <3>1, NoneIsNew DEF SleepInv, TypeOK, Same
    <3>4. pc'[p] = "stop2" /\ stat'[p] = "SSTOP"
      BY <3>1 DEF SleepInv, TypeOK
    <3>5. PlaceKept(p)'
      BY <1>2, <3>1, <3>4, NoneIsNew DEF PlaceKept, AtRest, Answering
    <3>6. TimeoutKept(p)' /\ AnswerKept(p)'
      BY <1>2, <3>1, <3>4
      DEF SleepInv, ProcKept, TimeoutKept, AnswerKept, AtRest, Answering, Waiting, InTsleep
    <3>7. Deadly(p) => Deadly(p)'
      BY <1>3 DEF Deadly, Passed
    <3>8. CauseKept(p)'
      BY <1>2, <3>1, <3>4, <3>7 DEF SleepInv, ProcKept, CauseKept, AtRest, Answering, Waiting, InTsleep
    <3> QED BY <1>1, <1>4, <3>2, <3>3, <3>5, <3>6, <3>8, OneStepKeepsInv DEF ProcKept
  <2>3. CASE ~Stops(p, s) /\ s # NONE
    <3>1. Return(p, "signal")
      BY <2>1, <2>3
    <3> QED BY <3>1, <1>5
  <2>4. CASE s = NONE /\ ~Stops(p, s)
    <3>1. Return(p, "0")
      BY <2>1, <2>4
    <3>2. call[p].cause # "timeout"
      BY <1>2, <1>7 DEF SleepInv, ProcKept, AnswerKept, Answering
    <3>3. ~Deadly(p)
      <4>1. siglist[p] \in SUBSET Sig /\ issignal(p, siglist[p]) = NONE
        BY <1>2, <2>s, <2>4
      <4>2. \A x \in siglist[p] : Passed(p, x)
        BY <4>1, IssignalFinds
      <4> QED BY <4>2 DEF Deadly
    <3>4. Caught[p] \cap {"tstp", "cont"} = {} => call[p].cause = "wakeup"
      <4>1. call[p].cause \in {NONE, "wakeup", "timeout", "signal"}
        BY <1>2 DEF Call
      <4> QED BY <1>2, <1>7, <3>2, <3>3, <4>1 DEF SleepInv, ProcKept, CauseKept, Answering, InTsleep
    <3> QED BY <3>1, <3>2, <3>4, <1>5
  <2> QED BY <2>2, <2>3, <2>4
<1> QED BY <1>6, <1>7

(* The process goes on after a stop in the second CURSIG or in userret().  *)
LEMMA StoppedGoesOnKeepsInv ==
  ASSUME SleepInv, NEW p \in Proc, StoppedInSecondCursig(p) \/ StoppedInUserret(p)
  PROVE  SleepInv'
<1>1. QueueInv'
  BY QueuesSame DEF SleepInv, StoppedInSecondCursig, StoppedInUserret
<1>2. /\ \/ pc[p] = "stop2" /\ pc' = [pc EXCEPT ![p] = "cursig2"]
         \/ pc[p] = "stopuser" /\ pc' = [pc EXCEPT ![p] = "run"]
      /\ siglist' = [siglist EXCEPT ![p] = @ \ {"tstp"}]
      /\ UNCHANGED <<stat, curproc, wchan, slpque, flag, callout, call>>
  BY DEF StoppedInSecondCursig, StoppedInUserret, GoOn
<1>3. TypeOK'
  <2>1. siglist' \in [Proc -> SUBSET Sig]
    BY <1>2 DEF SleepInv, TypeOK
  <2>2. pc' \in [Proc -> Places]
    <3>1. PICK place \in Places : pc' = [pc EXCEPT ![p] = place]
      BY <1>2 DEF Places
    <3> QED BY <3>1 DEF SleepInv, TypeOK
  <2> QED BY <1>2, <2>1, <2>2 DEF SleepInv, TypeOK
<1>4. \A q \in Proc : q # p => Same(q)
  BY <1>2 DEF SleepInv, TypeOK, Same
<1>5. /\ \/ pc[p] = "stop2" /\ pc'[p] = "cursig2"
         \/ pc[p] = "stopuser" /\ pc'[p] = "run"
      /\ siglist'[p] = siglist[p] \ {"tstp"} /\ stat[p] = "SRUN" /\ wchan[p] = NONE
  BY <1>2 DEF SleepInv, TypeOK, ProcKept, PlaceKept, StoppedInSecondCursig, StoppedInUserret
<1>6. ProcKept(p)'
  <2>1. PlaceKept(p)'
    BY <1>2, <1>5 DEF SleepInv, ProcKept, PlaceKept, AtRest, Answering
  <2>2. TimeoutKept(p)' /\ AnswerKept(p)'
    BY <1>2, <1>5
    DEF SleepInv, ProcKept, TimeoutKept, AnswerKept, AtRest, Answering, Waiting, InTsleep
  <2>3. Deadly(p) => Deadly(p)'
    BY <1>5 DEF Deadly, Passed
  <2>4. CauseKept(p)'
    BY <1>2, <1>5, <2>3 DEF SleepInv, ProcKept, CauseKept, AtRest, Answering, Waiting, InTsleep
  <2>5. SignalsKept(p)'
    BY <1>2, <1>5 DEF SleepInv, ProcKept, SignalsKept
  <2> QED BY <2>1, <2>2, <2>4, <2>5 DEF ProcKept
<1> QED BY <1>1, <1>3, <1>4, <1>6, OneStepKeepsInv

LEMMA userretKeepsInv ==
  ASSUME SleepInv, NEW p \in Proc, userret(p)
  PROVE  SleepInv'
<1>1. QueueInv'
  BY QueuesSame DEF SleepInv, userret
<1>2. pc[p] = "run" /\ curproc = p /\ stat[p] = "SRUN" /\ wchan[p] = NONE /\ flag[p] = {} /\ callout[p] = 0
  BY DEF SleepInv, ProcKept, PlaceKept, userret, AtRest
<1>3. /\ \/ pc' = [pc EXCEPT ![p] = "stopuser"] /\ stat' = [stat EXCEPT ![p] = "SSTOP"] /\ curproc' = NONE
         \/ pc' = [pc EXCEPT ![p] = "run"] /\ stat' = stat /\ curproc' = curproc
      /\ UNCHANGED <<wchan, slpque, flag, callout, call>>
  BY DEF userret, mi_switch, GoOn
<1>4. /\ siglist' \in [Proc -> SUBSET Sig] /\ siglist'[p] \subseteq siglist[p]
      /\ \A q \in Proc : q # p => siglist'[q] = siglist[q]
  <2>1. siglist[p] \in SUBSET Sig
    BY DEF SleepInv, TypeOK
  <2>2. Scanned(p, siglist[p]) \subseteq siglist[p]
    BY <2>1, ScannedKeeps
  <2>3. PICK S \in SUBSET siglist[p] : siglist' = [siglist EXCEPT ![p] = S]
    <3>1. siglist' = siglist => siglist' = [siglist EXCEPT ![p] = siglist[p]]
      BY DEF SleepInv, TypeOK
    <3> QED BY <2>2, <3>1 DEF userret
  <2> QED BY <2>1, <2>3 DEF SleepInv, TypeOK
<1>5. TypeOK'
  <2>1. pc' \in [Proc -> Places] /\ stat' \in [Proc -> {"SRUN", "SSLEEP", "SSTOP"}]
    BY <1>3 DEF SleepInv, TypeOK, Places
  <2>2. curproc' \in Proc \cup {NONE}
    BY <1>3 DEF SleepInv, TypeOK
  <2> QED BY <1>3, <1>4, <2>1, <2>2 DEF SleepInv, TypeOK
<1>6. \A q \in Proc : q # p => Same(q)
  BY <1>3, <1>4, NoneIsNew DEF SleepInv, TypeOK, Same
<1>7. \/ pc'[p] = "stopuser" /\ stat'[p] = "SSTOP" /\ curproc' = NONE
      \/ pc'[p] = "run" /\ stat'[p] = "SRUN"
  BY <1>2, <1>3 DEF SleepInv, TypeOK
<1>8. ProcKept(p)'
  <2>1. PlaceKept(p)'
    BY <1>2, <1>3, <1>7, NoneIsNew DEF PlaceKept, AtRest, Answering
  <2>2. TimeoutKept(p)' /\ AnswerKept(p)' /\ CauseKept(p)'
    BY <1>2, <1>3, <1>7
    DEF SleepInv, ProcKept, TimeoutKept, AnswerKept, CauseKept, AtRest, Answering, Waiting, InTsleep
  <2>3. SignalsKept(p)'
    BY <1>2, <1>3, <1>4 DEF SleepInv, ProcKept, SignalsKept
  <2> QED BY <2>1, <2>2, <2>3 DEF ProcKept
<1> QED BY <1>1, <1>5, <1>6, <1>8, OneStepKeepsInv

(* What unsleep() does to a process that tsleep() or sleep() put to sleep. *)
LEMMA UnsleepView ==
  ASSUME SleepInv, NEW p \in Proc, NEW why \in {"timeout", "signal"}, Unsleep(p, why)
  PROVE  /\ QueueInv' /\ wchan'[p] = NONE
         /\ call' \in [Proc -> Call]
         /\ call'[p].catch = call[p].catch /\ call'[p].timo = call[p].timo
         /\ call'[p].sig = call[p].sig /\ call'[p].ret = call[p].ret
         /\ call'[p].cause = IF wchan[p] = NONE THEN call[p].cause ELSE why
         /\ \A q \in Proc : q # p => wchan'[q] = wchan[q] /\ call'[q] = call[q]
<1>1. QueueInv'
  BY UnsleepKeepsQueues DEF SleepInv, Unsleep
<1>2. wchan'[p] = NONE /\ \A q \in Proc : q # p => wchan'[q] = wchan[q]
  BY DEF SleepInv, TypeOK, Unsleep
<1>3. call \in [Proc -> Call]
  BY DEF SleepInv, TypeOK, Call
<1>4. CASE wchan[p] = NONE
  <2>1. call' = call
    BY <1>4 DEF Unsleep
  <2> QED BY <1>1, <1>2, <1>3, <1>4, <2>1
<1>5. CASE wchan[p] # NONE
  <2>r. PICK r : r = [call[p] EXCEPT !.cause = why]
    OBVIOUS
  <2>1. call' = [call EXCEPT ![p] = r]
    BY <1>5, <2>r DEF Unsleep
  <2>2. call[p] \in Call
    BY <1>3
  <2>3. /\ r \in Call /\ r.catch = call[p].catch /\ r.timo = call[p].timo /\ r.sig = call[p].sig
        /\ r.ret = call[p].ret /\ r.cause = why
    BY <2>2, <2>r DEF Call
  <2>4. call' \in [Proc -> Call] /\ call'[p] = r /\ \A q \in Proc : q # p => call'[q] = call[q]
    BY <1>3, <2>1, <2>3
  <2> QED BY <1>1, <1>2, <1>5, <2>3, <2>4
<1> QED BY <1>4, <1>5

LEMMA endtsleepKeepsInv ==
  ASSUME SleepInv, NEW p \in Proc, endtsleep(p)
  PROVE  SleepInv'
<1>1. /\ callout[p] = 1 /\ call[p].timo /\ "P_TIMEOUT" \notin flag[p] /\ pc[p] \in Waiting \cup {"resume"}
  <2>1. callout[p] \in Nat /\ callout[p] > 0 /\ callout[p] <= 1
    BY DEF SleepInv, TypeOK, ProcKept, TimeoutKept, endtsleep
  <2>2. pc[p] \in Places
    BY DEF SleepInv, TypeOK
  <2> QED BY <2>1, <2>2
     DEF SleepInv, ProcKept, PlaceKept, TimeoutKept, Places, AtRest, Answering, Waiting
<1>2. /\ Unsleep(p, "timeout")
      /\ stat' = [stat EXCEPT ![p] = IF wchan[p] # NONE /\ stat[p] = "SSLEEP" THEN "SRUN" ELSE stat[p]]
  BY DEF endtsleep, UndoSleep, setrunnable, SleepInv, TypeOK
<1>3. /\ QueueInv' /\ wchan'[p] = NONE
      /\ call' \in [Proc -> Call]
      /\ call'[p].catch = call[p].catch /\ call'[p].timo = call[p].timo
      /\ call'[p].sig = call[p].sig /\ call'[p].ret = call[p].ret
      /\ call'[p].cause = IF wchan[p] = NONE THEN call[p].cause ELSE "timeout"
      /\ \A q \in Proc : q # p => wchan'[q] = wchan[q] /\ call'[q] = call[q]
  BY <1>2, UnsleepView
<1>4. /\ callout' = [callout EXCEPT ![p] = 0] /\ flag' = [flag EXCEPT ![p] = Expired(p)]
      /\ UNCHANGED <<curproc, pc, siglist>>
  BY <1>1 DEF endtsleep
<1>5. TypeOK'
  <2>1. stat' \in [Proc -> {"SRUN", "SSLEEP", "SSTOP"}]
    BY <1>2 DEF SleepInv, TypeOK
  <2>2. callout' \in [Proc -> Nat] /\ flag' \in [Proc -> SUBSET {"P_SINTR", "P_TIMEOUT"}]
    BY <1>4 DEF SleepInv, TypeOK, Expired
  <2> QED BY <1>3, <1>4, <2>1, <2>2 DEF SleepInv, TypeOK, QueueInv, Call
<1>6. \A q \in Proc : q # p => Same(q)
  BY <1>2, <1>3, <1>4 DEF SleepInv, TypeOK, Same
<1>7. /\ stat'[p] = (IF stat[p] = "SSLEEP" THEN "SRUN" ELSE stat[p])
      /\ callout'[p] = 0 /\ flag'[p] = Expired(p) /\ pc'[p] = pc[p]
  BY <1>2, <1>4 DEF SleepInv, TypeOK, ProcKept, PlaceKept
<1>8. ProcKept(p)'
  <2>1. PlaceKept(p)'
    BY <1>1, <1>3, <1>4, <1>7 DEF SleepInv, ProcKept, PlaceKept, AtRest, Answering, Waiting
  <2>2. TimeoutKept(p)'
    BY <1>1, <1>3, <1>7 DEF SleepInv, ProcKept, TimeoutKept, Expired
  <2>3. AnswerKept(p)' /\ CauseKept(p)'
    <3>1. Deadly(p)' <=> Deadly(p)
      BY <1>4 DEF Deadly
    <3> QED BY <1>1, <1>3, <1>7, <3>1, NoneIsNew
       DEF SleepInv, ProcKept, AnswerKept, CauseKept, Expired, AtRest, Answering, Waiting, InTsleep
  <2>4. SignalsKept(p)'
    BY <1>3, <1>4 DEF SleepInv, ProcKept, SignalsKept
  <2> QED BY <2>1, <2>2, <2>3, <2>4 DEF ProcKept
<1> QED BY <1>3, <1>5, <1>6, <1>8, OneStepKeepsInv

LEMMA wakeupKeepsInv ==
  ASSUME SleepInv, NEW c \in Chan, wakeup(c)
  PROVE  SleepInv'
<1>1. QueueInv' /\ \A p \in Proc : p \in Waiters(c) <=> wchan[p] = c
  BY WakeupKeepsQueues DEF SleepInv, wakeup
<1>2. c # NONE
  BY NoneIsNew
<1>3. \A p \in Proc : wchan[p] # c => Same(p)
  BY <1>1 DEF SleepInv, TypeOK, Same, wakeup, Unwait
<1>4. ASSUME NEW p \in Proc, wchan[p] = c
      PROVE  /\ wchan'[p] = NONE /\ stat'[p] = (IF stat[p] = "SSLEEP" THEN "SRUN" ELSE stat[p])
             /\ call'[p] = [call[p] EXCEPT !.cause = "wakeup"]
  BY <1>1, <1>4 DEF SleepInv, TypeOK, wakeup, Unwait
<1>5. \A p \in Proc : call[p] \in Call
  BY DEF SleepInv, TypeOK, Call
<1>6. ASSUME NEW p \in Proc, wchan[p] = c
      PROVE  /\ call'[p] \in Call
             /\ call'[p].catch = call[p].catch /\ call'[p].timo = call[p].timo
             /\ call'[p].sig = call[p].sig /\ call'[p].ret = call[p].ret
             /\ call'[p].cause = "wakeup"
  BY <1>4, <1>5, <1>6 DEF Call
<1>7. TypeOK'
  <2>1. stat' \in [Proc -> {"SRUN", "SSLEEP", "SSTOP"}]
    BY DEF SleepInv, TypeOK, wakeup
  <2>2. call' \in [Proc -> Call]
    <3>1. call' = [p \in Proc |-> call'[p]]
      BY DEF wakeup
    <3>2. \A p \in Proc : call'[p] \in Call
      BY <1>3, <1>5, <1>6 DEF Same
    <3> QED BY <3>1, <3>2
  <2> QED BY <1>1, <2>1, <2>2 DEF SleepInv, TypeOK, QueueInv, Call, wakeup
<1>8. ASSUME NEW p \in Proc, wchan[p] = c PROVE ProcKept(p)'
  <2>1. /\ pc'[p] = pc[p] /\ flag'[p] = flag[p] /\ siglist'[p] = siglist[p] /\ callout'[p] = callout[p]
        /\ curproc' = curproc
    BY DEF wakeup
  <2>2. pc[p] \in Waiting \cup {"sleep"} /\ call[p].cause = NONE
    <3>1. pc[p] \in Places
      BY DEF SleepInv, TypeOK
    <3> QED BY <1>2, <1>8, <3>1
       DEF SleepInv, ProcKept, PlaceKept, TimeoutKept, Places, AtRest, Answering, Waiting
  <2>3. PlaceKept(p)'
    BY <1>2, <1>4, <1>8, <2>1, <2>2 DEF SleepInv, ProcKept, PlaceKept, AtRest, Answering, Waiting
  <2>4. TimeoutKept(p)'
    BY <1>4, <1>6, <1>8, <2>1, <2>2, NoneIsNew DEF SleepInv, ProcKept, TimeoutKept, Waiting
  <2>5. AnswerKept(p)' /\ CauseKept(p)'
    BY <1>4, <1>6, <1>8, <2>1, <2>2, NoneIsNew
    DEF SleepInv, ProcKept, AnswerKept, CauseKept, AtRest, Answering, Waiting, InTsleep
  <2>6. SignalsKept(p)'
    BY <1>4, <1>8, <2>1 DEF SleepInv, ProcKept, SignalsKept
  <2> QED BY <2>3, <2>4, <2>5, <2>6 DEF ProcKept
<1>9. \A p \in Proc : ProcKept(p)'
  BY <1>3, <1>8, SameIsKept DEF SleepInv
<1> QED BY <1>1, <1>7, <1>9 DEF SleepInv

(* psignal() when it leaves p where it waits.  S is what is pending after  *)
(* it, st the state of p.                                                  *)
LEMMA LeftWaitingKeepsInv ==
  ASSUME SleepInv, NEW p \in Proc, NEW S \in SUBSET Sig, NEW st \in {"SRUN", "SSLEEP", "SSTOP"},
         siglist' = [siglist EXCEPT ![p] = S], stat' = [stat EXCEPT ![p] = st],
         UNCHANGED <<curproc, pc, wchan, slpque, flag, callout, call>>,
         "tstp" \in S => "cont" \notin S,
         st = stat[p] \/ (stat[p] # "SRUN" /\ st # "SRUN" /\ "P_SINTR" \in flag[p] /\ wchan[p] # NONE),
         "P_SINTR" \in flag[p] /\ wchan[p] # NONE =>
           \A x \in S : Passed(p, x) \/ (x = "tstp" /\ st # "SSLEEP"),
         Caught[p] \cap {"tstp", "cont"} = {} /\ Deadly(p) => \E x \in S : ~Passed(p, x) /\ x # "tstp"
  PROVE  SleepInv'
<1>1. QueueInv'
  BY QueuesSame DEF SleepInv
<1>2. TypeOK'
  BY DEF SleepInv, TypeOK
<1>3. \A q \in Proc : q # p => Same(q)
  BY DEF SleepInv, TypeOK, Same
<1>4. siglist'[p] = S /\ stat'[p] = st
  BY DEF SleepInv, TypeOK
<1>5. ProcKept(p)'
  <2>1. PlaceKept(p)'
    BY <1>4 DEF SleepInv, ProcKept, PlaceKept, AtRest, Answering
  <2>2. TimeoutKept(p)' /\ AnswerKept(p)'
    BY DEF SleepInv, ProcKept, TimeoutKept, AnswerKept, AtRest, Answering, Waiting, InTsleep
  <2>3. SignalsKept(p)'
    BY <1>4 DEF SignalsKept, Passed
  <2>4. Caught[p] \cap {"tstp", "cont"} = {} /\ Deadly(p) => Deadly(p)'
    BY <1>4 DEF Deadly, Passed
  <2>5. CauseKept(p)'
    BY <2>4 DEF SleepInv, ProcKept, CauseKept, AtRest, Answering, Waiting, InTsleep
  <2> QED BY <2>1, <2>2, <2>3, <2>5 DEF ProcKept
<1> QED BY <1>1, <1>2, <1>3, <1>5, OneStepKeepsInv

(* psignal() when it ends the sleep of p.                                  *)
LEMMA TakenOffKeepsInv ==
  ASSUME SleepInv, NEW p \in Proc, NEW S \in SUBSET Sig, NEW st \in {"SRUN", "SSTOP"},
         siglist' = [siglist EXCEPT ![p] = S], stat' = [stat EXCEPT ![p] = st],
         Unsleep(p, "signal"), UNCHANGED <<curproc, pc, flag, callout>>,
         "tstp" \in S => "cont" \notin S,
         stat[p] # "SRUN", wchan[p] # NONE => "P_SINTR" \in flag[p],
         Caught[p] \cap {"tstp", "cont"} = {} /\ (Deadly(p) \/ wchan[p] # NONE) =>
           \E x \in S : ~Passed(p, x) /\ x # "tstp"
  PROVE  SleepInv'
<1>1. /\ QueueInv' /\ wchan'[p] = NONE
      /\ call' \in [Proc -> Call]
      /\ call'[p].catch = call[p].catch /\ call'[p].timo = call[p].timo
      /\ call'[p].sig = call[p].sig /\ call'[p].ret = call[p].ret
      /\ call'[p].cause = IF wchan[p] = NONE THEN call[p].cause ELSE "signal"
      /\ \A q \in Proc : q # p => wchan'[q] = wchan[q] /\ call'[q] = call[q]
  BY UnsleepView
<1>2. TypeOK'
  <2>1. stat' \in [Proc -> {"SRUN", "SSLEEP", "SSTOP"}] /\ siglist' \in [Proc -> SUBSET Sig]
    BY DEF SleepInv, TypeOK
  <2> QED BY <1>1, <2>1 DEF SleepInv, TypeOK, QueueInv, Call
<1>3. \A q \in Proc : q # p => Same(q)
  BY <1>1 DEF SleepInv, TypeOK, Same
<1>4. /\ siglist'[p] = S /\ stat'[p] = st /\ pc'[p] = pc[p] /\ flag'[p] = flag[p]
      /\ callout'[p] = callout[p] /\ curproc' = curproc
  BY DEF SleepInv, TypeOK
<1>5. wchan[p] # NONE => pc[p] \in Waiting /\ call[p].cause = NONE
  BY DEF SleepInv, TypeOK, ProcKept, PlaceKept, TimeoutKept, Places, AtRest, Answering, Waiting
<1>6. ProcKept(p)'
  <2>1. PlaceKept(p)'
    BY <1>1, <1>4 DEF SleepInv, ProcKept, PlaceKept, AtRest, Answering
  <2>2. TimeoutKept(p)'
    BY <1>1, <1>4, <1>5, NoneIsNew DEF SleepInv, ProcKept, TimeoutKept, Waiting
  <2>3. AnswerKept(p)'
    BY <1>1, <1>4, <1>5, NoneIsNew
    DEF SleepInv, ProcKept, AnswerKept, AtRest, Answering, Waiting, InTsleep
  <2>4. SignalsKept(p)'
    BY <1>1, <1>4 DEF SignalsKept
  <2>5. Caught[p] \cap {"tstp", "cont"} = {} /\ (Deadly(p) \/ wchan[p] # NONE) => Deadly(p)'
    BY <1>4 DEF Deadly, Passed
  <2>6. CauseKept(p)'
    <3>1. CASE wchan[p] = NONE
      BY <1>1, <1>4, <2>5, <3>1
      DEF SleepInv, ProcKept, CauseKept, AtRest, Answering, Waiting, InTsleep
    <3>2. CASE wchan[p] # NONE
      <4>1. Caught[p] \cap {"tstp", "cont"} = {} => call[p].catch
        BY <1>5, <3>2 DEF SleepInv, ProcKept, CauseKept
      <4> QED BY <1>1, <1>4, <1>5, <2>5, <3>2, <4>1, NoneIsNew
         DEF CauseKept, AtRest, Answering, Waiting, InTsleep
    <3> QED BY <3>1, <3>2
  <2> QED BY <2>1, <2>2, <2>3, <2>4, <2>6 DEF ProcKept
<1> QED BY <1>1, <1>2, <1>3, <1>6, OneStepKeepsInv

LEMMA PostedKeeps ==
  ASSUME SleepInv, NEW p \in Proc, NEW s \in Sig
  PROVE  /\ Posted(p, s) \in SUBSET Sig /\ s \in Posted(p, s)
         /\ Posted(p, s) \subseteq siglist[p] \cup {s}
         /\ \A x \in siglist[p] : x \in Posted(p, s) \/ x \in {"tstp", "cont"}
         /\ "tstp" \in Posted(p, s) => "cont" \notin Posted(p, s)
         /\ s = "cont" => "tstp" \notin Posted(p, s)
BY DEF SleepInv, TypeOK, ProcKept, SignalsKept, Posted

LEMMA psignalKeepsInv ==
  ASSUME SleepInv, NEW p \in Proc, NEW s \in Sig, psignal(p, s)
  PROVE  SleepInv'
<1>P. PICK P : P = Posted(p, s)
  OBVIOUS
<1>1. /\ P \in SUBSET Sig /\ s \in P /\ P \subseteq siglist[p] \cup {s}
      /\ \A x \in siglist[p] : x \in P \/ x \in {"tstp", "cont"}
      /\ "tstp" \in P => "cont" \notin P
      /\ s = "cont" => "tstp" \notin P
  BY <1>P, PostedKeeps
<1>2. UNCHANGED <<curproc, pc, flag, callout>>
  BY DEF psignal
<1>3. /\ stat[p] \in {"SRUN", "SSLEEP", "SSTOP"} /\ stat = [stat EXCEPT ![p] = stat[p]]
      /\ stat[p] = "SRUN" => wchan[p] = NONE
      /\ stat[p] = "SSLEEP" => wchan[p] # NONE
      /\ stat[p] = "SSTOP" /\ wchan[p] # NONE => "P_SINTR" \in flag[p]
  BY DEF SleepInv, TypeOK, ProcKept, PlaceKept
<1>4. "P_SINTR" \in flag[p] /\ wchan[p] # NONE =>
        \A x \in siglist[p] : Passed(p, x) \/ (x = "tstp" /\ stat[p] # "SSLEEP")
  BY DEF SleepInv, ProcKept, SignalsKept
<1>5. "kill" \notin Blocked[p] /\ "kill" \notin Caught[p]
  BY SigType
(* A deadly signal stays pending, whatever else is posted or dropped.      *)
<1>6. ASSUME NEW S \in SUBSET P, P \ {s} \subseteq S, s \in {"tstp", "cont"} \/ s \in S
      PROVE  Caught[p] \cap {"tstp", "cont"} = {} /\ Deadly(p) => \E x \in S : ~Passed(p, x) /\ x # "tstp"
  BY <1>1, <1>6 DEF Deadly, Passed
<1>h. PICK held \in BOOLEAN, quiet \in BOOLEAN :
        /\ held <=> (s \in Blocked[p] /\ ~(s = "cont" /\ stat[p] = "SSTOP"))
        /\ quiet <=> (held \/ stat[p] = "SRUN" \/ (stat[p] = "SSLEEP" /\ "P_SINTR" \notin flag[p]))
  OBVIOUS
<1>7. CASE quiet /\ siglist' = [siglist EXCEPT ![p] = P] /\ UNCHANGED <<stat, wchan, slpque, call>>
  <2>1. "P_SINTR" \in flag[p] /\ wchan[p] # NONE =>
          \A x \in P : Passed(p, x) \/ (x = "tstp" /\ stat[p] # "SSLEEP")
    BY <1>1, <1>3, <1>4, <1>7, <1>h DEF Passed
  <2>2. Caught[p] \cap {"tstp", "cont"} = {} /\ Deadly(p) => \E x \in P : ~Passed(p, x) /\ x # "tstp"
    BY <1>1, <1>6
  <2>3. stat' = [stat EXCEPT ![p] = stat[p]]
    BY <1>3, <1>7
  <2> QED BY <1>1, <1>2, <1>3, <1>7, <2>1, <2>2, <2>3, LeftWaitingKeepsInv
<1>8. CASE ~quiet /\ stat[p] = "SSLEEP" /\ SignalSleeper(p, s)
  <2>1. "P_SINTR" \in flag[p] /\ wchan[p] # NONE /\ s \notin Blocked[p]
    BY <1>3, <1>8, <1>h
  <2>2. CASE /\ s = "cont" /\ s \notin Caught[p]
             /\ siglist' = [siglist EXCEPT ![p] = P \ {s}]
             /\ UNCHANGED <<stat, wchan, slpque, call>>
    <3>1. \A x \in P \ {s} : Passed(p, x)
      BY <1>1, <1>4, <1>8, <2>1
    <3>2. Caught[p] \cap {"tstp", "cont"} = {} /\ Deadly(p) => \E x \in P \ {s} : ~Passed(p, x) /\ x # "tstp"
      BY <1>6, <2>2
    <3>3. P \ {s} \in SUBSET Sig /\ ("tstp" \in P \ {s} => "cont" \notin P \ {s}) /\ stat' = [stat EXCEPT ![p] = stat[p]]
      BY <1>1, <1>3, <2>2
    <3> QED BY <1>2, <1>3, <2>2, <3>1, <3>2, <3>3, LeftWaitingKeepsInv
  <2>3. CASE /\ Stops(p, s)
             /\ siglist' = [siglist EXCEPT ![p] = P \ {s}]
             /\ stat' = [stat EXCEPT ![p] = "SSTOP"]
             /\ UNCHANGED <<wchan, slpque, call>>
    <3>1. \A x \in P \ {s} : Passed(p, x)
      BY <1>1, <1>4, <1>8, <2>1
    <3>2. Caught[p] \cap {"tstp", "cont"} = {} /\ Deadly(p) => \E x \in P \ {s} : ~Passed(p, x) /\ x # "tstp"
      BY <1>6, <2>3 DEF Stops
    <3>3. P \ {s} \in SUBSET Sig /\ ("tstp" \in P \ {s} => "cont" \notin P \ {s})
      BY <1>1
    <3> QED BY <1>2, <1>8, <2>1, <2>3, <3>1, <3>2, <3>3, LeftWaitingKeepsInv
  <2>4. CASE /\ s \in {"kill", "term"} \cup Caught[p]
             /\ siglist' = [siglist EXCEPT ![p] = P]
             /\ setrunnable(p, "signal")
    <3>1. Caught[p] \cap {"tstp", "cont"} = {} => \E x \in P : ~Passed(p, x) /\ x # "tstp"
      BY <1>1, <2>1, <2>4 DEF Passed
    <3>2. stat' = [stat EXCEPT ![p] = "SRUN"] /\ Unsleep(p, "signal")
      BY <2>4 DEF setrunnable
    <3> QED BY <1>1, <1>2, <1>8, <2>1, <2>4, <3>1, <3>2, TakenOffKeepsInv
  <2> QED BY <1>8, <1>P, <2>2, <2>3, <2>4 DEF SignalSleeper
<1>9. CASE ~quiet /\ stat[p] = "SSTOP" /\ SignalStopped(p, s)
  <2>k. PICK kept : kept = IF s = "tstp" \/ (s = "cont" /\ s \notin Blocked[p] \cup Caught[p]) THEN {} ELSE {s}
    OBVIOUS
  <2>S. PICK S : S = (P \ {s}) \cup kept
    OBVIOUS
  <2>1. s = "cont" \/ s \notin Blocked[p]
    BY <1>9, <1>h
  <2>2. /\ S \in SUBSET P /\ S \in SUBSET Sig /\ P \ {s} \subseteq S
        /\ s \notin {"tstp", "cont"} => s \in S
        /\ "tstp" \in S => "cont" \notin S
    BY <1>1, <2>k, <2>S
  <2>3. /\ siglist' = [siglist EXCEPT ![p] = S]
        /\ \/ Continues(p, s) /\ setrunnable(p, "signal")
           \/ /\ s = "cont" /\ ~Continues(p, s)
              /\ stat' = [stat EXCEPT ![p] = "SSLEEP"]
              /\ UNCHANGED <<wchan, slpque, call>>
           \/ s = "tstp" /\ UNCHANGED <<stat, wchan, slpque, call>>
           \/ /\ s \notin {"cont", "tstp"} /\ ~Continues(p, s)
              /\ SimulateWakeup(p)
              /\ UNCHANGED stat
    BY <1>9, <1>P, <2>k, <2>S DEF SignalStopped
  <2>4. Caught[p] \cap {"tstp", "cont"} = {} /\ Deadly(p) => \E x \in S : ~Passed(p, x) /\ x # "tstp"
    BY <1>6, <2>2
  <2>5. CASE Continues(p, s) /\ setrunnable(p, "signal")
    <3>1. Caught[p] \cap {"tstp", "cont"} = {} /\ wchan[p] # NONE => \E x \in S : ~Passed(p, x) /\ x # "tstp"
      BY <1>5, <2>2, <2>5 DEF Continues, Passed
    <3>2. stat' = [stat EXCEPT ![p] = "SRUN"] /\ Unsleep(p, "signal")
      BY <2>5 DEF setrunnable
    <3> QED BY <1>2, <1>3, <1>9, <2>2, <2>3, <2>4, <3>1, <3>2, TakenOffKeepsInv
  <2>6. CASE s = "cont" /\ ~Continues(p, s) /\ stat' = [stat EXCEPT ![p] = "SSLEEP"]
             /\ UNCHANGED <<wchan, slpque, call>>
    <3>1. wchan[p] # NONE /\ "P_SINTR" \in flag[p] /\ Passed(p, s)
      BY <1>3, <1>9, <2>6 DEF Continues, Passed
    <3>2. \A x \in S : Passed(p, x)
      BY <1>1, <1>4, <2>2, <2>6, <3>1
    <3> QED BY <1>2, <1>9, <2>2, <2>3, <2>4, <2>6, <3>1, <3>2, LeftWaitingKeepsInv
  <2>7. CASE s = "tstp" /\ UNCHANGED <<stat, wchan, slpque, call>>
    <3>1. stat' = [stat EXCEPT ![p] = stat[p]]
      BY <1>3, <2>7
    <3>2. "P_SINTR" \in flag[p] /\ wchan[p] # NONE => \A x \in S : Passed(p, x) \/ (x = "tstp" /\ stat[p] # "SSLEEP")
      BY <1>1, <1>4, <1>9, <2>2, <2>7
    <3> QED BY <1>2, <1>3, <2>2, <2>3, <2>4, <2>7, <3>1, <3>2, LeftWaitingKeepsInv
  <2>8. CASE s \notin {"cont", "tstp"} /\ SimulateWakeup(p) /\ UNCHANGED stat
    <3>1. stat' = [stat EXCEPT ![p] = stat[p]]
      BY <1>3, <2>8
    <3>2. CASE "P_SINTR" \in flag[p]
      <4>1. Unsleep(p, "signal")
        BY <2>8, <3>2 DEF SimulateWakeup
      <4>2. \E x \in S : ~Passed(p, x) /\ x # "tstp"
        BY <2>1, <2>2, <2>8 DEF Passed
      <4> QED BY <1>2, <1>9, <2>2, <2>3, <3>1, <3>2, <4>1, <4>2, TakenOffKeepsInv
    <3>3. CASE "P_SINTR" \notin flag[p]
      BY <1>2, <1>3, <2>2, <2>3, <2>4, <2>8, <3>1, <3>3, LeftWaitingKeepsInv DEF SimulateWakeup
    <3> QED BY <3>2, <3>3
  <2> QED BY <2>3, <2>5, <2>6, <2>7, <2>8
<1> QED BY <1>7, <1>8, <1>9, <1>P, <1>h DEF psignal

(* p runs, so it is on no queue: what is left of its sleep is to return    *)
(* for a signal, or for whatever took it off the queue.                    *)
LEMMA StoppedInFirstCursigKeepsInv ==
  ASSUME SleepInv, NEW p \in Proc, StoppedInFirstCursig(p)
  PROVE  SleepInv'
<1>1. /\ pc[p] = "stop1" /\ curproc = p /\ stat[p] = "SRUN" /\ wchan[p] = NONE
      /\ call[p] \in Call /\ siglist[p] \in SUBSET Sig /\ call[p].sig = NONE /\ call[p].catch
  BY DEF SleepInv, TypeOK, ProcKept, PlaceKept, AnswerKept, StoppedInFirstCursig, Waiting, Call
<1>r. PICK rest : rest = siglist[p] \ {"tstp"}
  OBVIOUS
<1>s. PICK s : s = issignal(p, rest)
  OBVIOUS
<1>2. /\ s = NONE <=> \A x \in rest : Passed(p, x)
      /\ s # NONE => s \in Sig
  BY <1>1, <1>r, <1>s, IssignalFinds
<1>3. /\ siglist' = [siglist EXCEPT ![p] = Scanned(p, rest)]
      /\ \/ /\ s # NONE
            /\ slpque' = Unqueued(p)
            /\ wchan' = [wchan EXCEPT ![p] = NONE]
            /\ call' = [call EXCEPT ![p].sig = s,
                          ![p].cause = IF wchan[p] = NONE THEN @ ELSE "signal"]
            /\ GoOn(p, "resume")
         \/ /\ s = NONE /\ Awakened(p)
            /\ call' = [call EXCEPT ![p].catch = FALSE]
            /\ GoOn(p, "resume")
            /\ UNCHANGED <<wchan, slpque>>
         \/ /\ s = NONE /\ ~Awakened(p)
            /\ mi_switch(p, "tsleep", "SSLEEP")
            /\ UNCHANGED <<wchan, slpque, call>>
  BY <1>r, <1>s DEF StoppedInFirstCursig
<1>4. wchan' = wchan /\ slpque' = slpque /\ GoOn(p, "resume")
  BY <1>1, <1>3 DEF Awakened, Unqueued, SleepInv, TypeOK
<1>5. /\ call' \in [Proc -> Call] /\ \A q \in Proc : q # p => call'[q] = call[q]
      /\ call'[p].timo = call[p].timo /\ call'[p].ret = call[p].ret /\ call'[p].cause = call[p].cause
      /\ call'[p].sig = s /\ (s # NONE => call'[p].catch)
  <2>1. call \in [Proc -> Call]
    BY DEF SleepInv, TypeOK, Call
  <2>2. CASE s # NONE
    <3>r. PICK r : r = [call[p] EXCEPT !.sig = s]
      OBVIOUS
    <3>1. /\ r \in Call /\ r.timo = call[p].timo /\ r.ret = call[p].ret /\ r.cause = call[p].cause
          /\ r.sig = s
      BY <1>1, <1>2, <2>2, <3>r DEF Call
    <3>2. r.catch
      <4>1. r.catch = call[p].catch
        BY <1>1, <3>r DEF Call
      <4> QED BY <1>1, <4>1
    <3>3. call' = [call EXCEPT ![p] = r]
      <4>1. call' = [call EXCEPT ![p].sig = s, ![p].cause = IF wchan[p] = NONE THEN @ ELSE "signal"]
        BY <1>3, <2>2
      <4>2. [call EXCEPT ![p].sig = s] = [call EXCEPT ![p] = r]
        BY <2>1, <3>r
      <4>3. call' = [[call EXCEPT ![p] = r] EXCEPT ![p].cause = r.cause]
        BY <1>1, <2>1, <3>1, <4>1, <4>2
      <4>4. [r EXCEPT !.cause = r.cause] = r
        BY <3>1 DEF Call
      <4> QED BY <2>1, <3>1, <4>3, <4>4
    <3>4. call' \in [Proc -> Call] /\ call'[p] = r /\ \A q \in Proc : q # p => call'[q] = call[q]
      BY <2>1, <3>1, <3>3
    <3> QED BY <3>1, <3>2, <3>4
  <2>3. CASE s = NONE
    <3>r. PICK r : r = [call[p] EXCEPT !.catch = FALSE]
      OBVIOUS
    <3>1. /\ r \in Call /\ r.timo = call[p].timo /\ r.ret = call[p].ret /\ r.cause = call[p].cause
          /\ r.sig = call[p].sig
      BY <1>1, <3>r DEF Call
    <3>2. call' = [call EXCEPT ![p] = r]
      BY <1>1, <1>3, <2>3, <3>r DEF Awakened
    <3>3. call' \in [Proc -> Call] /\ call'[p] = r /\ \A q \in Proc : q # p => call'[q] = call[q]
      BY <2>1, <3>1, <3>2
    <3> QED BY <1>1, <2>3, <3>1, <3>3
  <2> QED BY <2>2, <2>3
<1>6. QueueInv'
  BY <1>4, QueuesSame DEF SleepInv
<1>7. /\ siglist' \in [Proc -> SUBSET Sig] /\ siglist'[p] \subseteq siglist[p]
      /\ \A q \in Proc : q # p => siglist'[q] = siglist[q]
  <2>1. rest \in SUBSET Sig /\ rest \subseteq siglist[p]
    BY <1>1, <1>r
  <2>2. Scanned(p, rest) \subseteq rest
    BY <2>1, ScannedKeeps
  <2> QED BY <1>3, <2>1, <2>2 DEF SleepInv, TypeOK
<1>8. pc' = [pc EXCEPT ![p] = "resume"] /\ UNCHANGED <<stat, curproc, flag, callout>>
  BY <1>4 DEF GoOn, StoppedInFirstCursig
<1>9. TypeOK'
  BY <1>4, <1>5, <1>6, <1>7, <1>8 DEF SleepInv, QueueInv, TypeOK, Places, Call
<1>10. \A q \in Proc : q # p => Same(q)
  BY <1>4, <1>5, <1>7, <1>8 DEF SleepInv, TypeOK, Same
<1>11. ProcKept(p)'
  <2>1. pc'[p] = "resume"
    BY <1>8 DEF SleepInv, TypeOK
  <2>2. PlaceKept(p)'
    BY <1>1, <1>4, <1>8, <2>1 DEF PlaceKept, AtRest, Answering
  <2>3. TimeoutKept(p)'
    BY <1>1, <1>4, <1>5, <1>8, <2>1 DEF SleepInv, ProcKept, TimeoutKept, Waiting
  <2>4. AnswerKept(p)'
    BY <1>5, <2>1 DEF AnswerKept, AtRest, Answering, Waiting
  <2>5. SignalsKept(p)'
    BY <1>1, <1>4, <1>7 DEF SleepInv, ProcKept, SignalsKept
  <2>6. s = NONE => ~Deadly(p)
    BY <1>2, <1>r DEF Deadly
  <2>7. Caught[p] \cap {"tstp", "cont"} = {} => call[p].cause # NONE /\ (s = NONE => call[p].cause # "signal")
    BY <1>1, <2>6 DEF SleepInv, ProcKept, CauseKept, Waiting, InTsleep
  <2>8. CauseKept(p)'
    BY <1>5, <2>1, <2>7 DEF CauseKept, AtRest, Answering, Waiting
  <2> QED BY <2>2, <2>3, <2>4, <2>5, <2>8 DEF ProcKept
<1> QED BY <1>6, <1>9, <1>10, <1>11, OneStepKeepsInv

-----------------------------------------------------------------------------
(* The specification.                                                      *)

LEMMA InitSleepInv == Init => SleepInv
<1> SUFFICES ASSUME Init PROVE SleepInv
  OBVIOUS
<1>1. QueueInv
  <2>1. \A b \in Bucket : slpque[b] = <<>> /\ ToSet(slpque[b]) = {} /\ IsInjective(slpque[b])
    BY DEF Init, ToSet, IsInjective
  <2>2. \A p \in Proc : wchan[p] = NONE
    BY DEF Init
  <2>3. slpque \in [Bucket -> Seq(Proc)] /\ wchan \in [Proc -> Chan \cup {NONE}]
    BY DEF Init
  <2> QED BY <2>1, <2>2, <2>3 DEF QueueInv, QueueKept
<1>2. TypeOK
  BY <1>1 DEF Init, TypeOK, QueueInv, Places
<1>3. ASSUME NEW p \in Proc PROVE ProcKept(p)
  <2>1. /\ curproc = NONE /\ pc[p] = "run" /\ stat[p] = "SRUN" /\ wchan[p] = NONE /\ flag[p] = {}
        /\ siglist[p] = {} /\ callout[p] = 0 /\ call[p].ret = NONE
    BY DEF Init
  <2>2. PlaceKept(p) /\ TimeoutKept(p) /\ SignalsKept(p)
    BY <2>1, NoneIsNew DEF PlaceKept, TimeoutKept, SignalsKept, AtRest, Answering, Waiting
  <2>3. AnswerKept(p) /\ CauseKept(p)
    BY <2>1, NoneIsNew DEF AnswerKept, CauseKept, AtRest, Answering, Waiting, InTsleep
  <2> QED BY <2>2, <2>3 DEF ProcKept
<1> QED BY <1>1, <1>2, <1>3 DEF SleepInv

LEMMA NextSleepInv == SleepInv /\ [Next]_vars => SleepInv'
<1> SUFFICES ASSUME SleepInv, [Next]_vars PROVE SleepInv'
  OBVIOUS
<1>1. ASSUME NEW p \in Proc, cpu_switch(p) \/ Preempt(p) PROVE SleepInv'
  BY <1>1, SwitchKeepsInv
<1>2. ASSUME NEW p \in Proc, NEW c \in Chan, sleep(p, c) PROVE SleepInv'
  BY <1>2, sleepKeepsInv
<1>3. ASSUME NEW p \in Proc, NEW c \in Chan, NEW catch \in BOOLEAN, NEW timo \in BOOLEAN,
             tsleep(p, c, catch, timo)
      PROVE  SleepInv'
  BY <1>3, tsleepKeepsInv
<1>4. ASSUME NEW p \in Proc, StoppedInFirstCursig(p) PROVE SleepInv'
  BY <1>4, StoppedInFirstCursigKeepsInv
<1>5. ASSUME NEW p \in Proc, SleepReturns(p) \/ Resume(p) PROVE SleepInv'
  BY <1>5, SleepReturnsKeepsInv, ResumeKeepsInv
<1>6. ASSUME NEW p \in Proc, SecondCursig(p) PROVE SleepInv'
  BY <1>6, SecondCursigKeepsInv
<1>7. ASSUME NEW p \in Proc, StoppedInSecondCursig(p) \/ StoppedInUserret(p) PROVE SleepInv'
  BY <1>7, StoppedGoesOnKeepsInv
<1>8. ASSUME NEW p \in Proc, userret(p) PROVE SleepInv'
  BY <1>8, userretKeepsInv
<1>9. ASSUME NEW p \in Proc, endtsleep(p) PROVE SleepInv'
  BY <1>9, endtsleepKeepsInv
<1>10. ASSUME NEW p \in Proc, NEW s \in Sig, psignal(p, s) PROVE SleepInv'
  BY <1>10, psignalKeepsInv
<1>11. ASSUME NEW c \in Chan, wakeup(c) PROVE SleepInv'
  BY <1>11, wakeupKeepsInv
<1>12. CASE UNCHANGED vars
  <2>1. TypeOK' /\ QueueInv'
    BY <1>12, QueuesSame DEF vars, SleepInv, TypeOK
  <2>2. \A p \in Proc : Same(p)
    BY <1>12 DEF vars, Same
  <2> QED BY <2>1, <2>2, SameIsKept DEF SleepInv
<1> QED BY <1>1, <1>2, <1>3, <1>4, <1>5, <1>6, <1>7, <1>8, <1>9, <1>10, <1>11, <1>12 DEF Next

(* The invariant that the theorems below rest on: the queues are kept, and *)
(* every process is in one of the states its place in tsleep() allows.     *)
THEOREM SleepQueueInductive == Spec => []SleepInv
BY InitSleepInv, NextSleepInv, PTL DEF Spec

(* The queues and every field of struct proc that the code of              *)
(* kern_synch.c and kern_sig.c works on keep their types.                  *)
THEOREM SleepQueueTypeOK == Spec => []TypeOK
<1>1. SleepInv => TypeOK
  BY DEF SleepInv
<1> QED BY <1>1, SleepQueueInductive, PTL

(* p_wchan and slpque always agree: unsleep() finds the process it looks   *)
(* for, wakeup() finds everyone who waits, and tsleep() never panics.      *)
THEOREM SleepQueuesAgree == Spec => []QueuesAgree
<1>1. SleepInv => QueuesAgree
  BY DEF SleepInv, QueueInv, QueueKept, ProcKept, PlaceKept, QueuesAgree
<1> QED BY <1>1, SleepQueueInductive, PTL

(* timeout(endtsleep), P_TIMEOUT and untimeout() always speak of the       *)
(* tsleep() in progress, and EWOULDBLOCK is returned just when the timeout *)
(* ended it.                                                               *)
THEOREM SleepTimeoutsBelong == Spec => []TimeoutsBelong
<1>1. SleepInv => TimeoutsBelong
  <2> SUFFICES ASSUME SleepInv, NEW p \in Proc
      PROVE  /\ callout[p] <= 1
             /\ callout[p] = 1 => pc[p] \in InTsleep /\ call[p].timo
             /\ "P_TIMEOUT" \in flag[p] => pc[p] \in InTsleep /\ call[p].timo /\ callout[p] = 0
             /\ pc[p] = "run" /\ call[p].ret = "EWOULDBLOCK" => call[p].cause = "timeout"
             /\ pc[p] = "run" /\ call[p].ret = "0" => call[p].cause # "timeout"
    BY DEF TimeoutsBelong
  <2>1. pc[p] \in Places /\ callout[p] \in Nat
    BY DEF SleepInv, TypeOK
  <2>2. callout[p] = 1 \/ "P_TIMEOUT" \in flag[p] => pc[p] \in InTsleep
    BY <2>1 DEF SleepInv, ProcKept, PlaceKept, Places, InTsleep, AtRest, Answering
  <2>3. callout[p] <= 1 /\ ("P_TIMEOUT" \in flag[p] => callout[p] = 0)
    BY <2>1 DEF SleepInv, ProcKept, TimeoutKept
  <2> QED BY <2>2, <2>3 DEF SleepInv, ProcKept, TimeoutKept, AnswerKept, AtRest
<1> QED BY <1>1, SleepQueueInductive, PTL

(* tsleep() and psignal() between them never let a process sleep           *)
(* interruptibly with a signal pending that would end its sleep.           *)
THEOREM SleepersMissNoSignal == Spec => []NoSignalLeftBehind
<1>1. SleepInv => NoSignalLeftBehind
  <2> SUFFICES ASSUME SleepInv, NEW p \in Proc, stat[p] = "SSLEEP", "P_SINTR" \in flag[p]
      PROVE  issignal(p, siglist[p]) = NONE
    BY DEF NoSignalLeftBehind
  <2>1. siglist[p] \in SUBSET Sig /\ \A s \in siglist[p] : Passed(p, s)
    BY DEF SleepInv, TypeOK, ProcKept, PlaceKept, SignalsKept
  <2> QED BY <2>1, IssignalFinds
<1> QED BY <1>1, SleepQueueInductive, PTL

(* Among processes that catch neither SIGTSTP nor SIGCONT, tsleep()        *)
(* returns 0 only after wakeup().                                          *)
THEOREM SleepZeroMeansWakeup ==
  ASSUME \A p \in Proc : Caught[p] \cap {"tstp", "cont"} = {}
  PROVE  Spec => []ZeroMeansWakeup
<1>1. SleepInv => ZeroMeansWakeup
  BY DEF SleepInv, ProcKept, CauseKept, AtRest, ZeroMeansWakeup
<1> QED BY <1>1, SleepQueueInductive, PTL

(* Whoever runs is not stopped, so only what others do matters: wakeup()   *)
(* and endtsleep() take a stopped process off its queue and leave p_stat.  *)
THEOREM SleepersStayStopped == Spec => StoppedStaysStopped
<1>1. SleepInv /\ [Next]_vars =>
        [\A p \in Proc : stat[p] = "SSTOP" /\ stat'[p] # "SSTOP" =>
           \E s \in {"cont", "kill"} : psignal(p, s)]_vars
  <2> SUFFICES ASSUME SleepInv, Next, NEW p \in Proc, stat[p] = "SSTOP", stat'[p] # "SSTOP"
      PROVE  \E s \in {"cont", "kill"} : psignal(p, s)
    OBVIOUS
  <2>0. stat \in [Proc -> {"SRUN", "SSLEEP", "SSTOP"}]
    BY DEF SleepInv, TypeOK
  <2>1. ASSUME NEW q \in Proc,
               \/ cpu_switch(q) \/ Preempt(q)
               \/ \E c \in Chan : sleep(q, c)
               \/ \E c \in Chan, catch, timo \in BOOLEAN : tsleep(q, c, catch, timo)
               \/ StoppedInFirstCursig(q) \/ SleepReturns(q) \/ Resume(q)
               \/ SecondCursig(q) \/ StoppedInSecondCursig(q) \/ userret(q) \/ StoppedInUserret(q)
        PROVE  FALSE
    <3>1. CASE cpu_switch(q) \/ Preempt(q)
      BY <3>1 DEF cpu_switch, Preempt
    <3>2. CASE curproc = q
      <4>1. p # q
        BY <3>2 DEF SleepInv, ProcKept, PlaceKept
      <4>2. stat' = stat \/ \E st : stat' = [stat EXCEPT ![q] = st]
        <5>1. CASE cpu_switch(q) \/ Preempt(q) \/ \E c \in Chan : sleep(q, c)
          BY <5>1 DEF cpu_switch, Preempt, sleep, mi_switch
        <5>2. CASE \E c \in Chan, catch, timo \in BOOLEAN : tsleep(q, c, catch, timo)
          BY <5>2 DEF tsleep, mi_switch, GoOn
        <5>3. CASE StoppedInFirstCursig(q) \/ SleepReturns(q) \/ Resume(q)
          BY <5>3 DEF StoppedInFirstCursig, SleepReturns, Resume, Return, mi_switch, GoOn
        <5>4. CASE SecondCursig(q) \/ StoppedInSecondCursig(q) \/ userret(q) \/ StoppedInUserret(q)
          BY <5>4 DEF SecondCursig, StoppedInSecondCursig, userret, StoppedInUserret, Return, mi_switch, GoOn
        <5> QED BY <2>1, <5>1, <5>2, <5>3, <5>4
      <4> QED BY <2>0, <4>1, <4>2
    <3>3. curproc = q \/ cpu_switch(q)
      BY <2>1 DEF Preempt, sleep, tsleep, StoppedInFirstCursig, SleepReturns, Resume, SecondCursig,
                  StoppedInSecondCursig, userret, StoppedInUserret
    <3> QED BY <3>1, <3>2, <3>3
  <2>2. ASSUME NEW q \in Proc, endtsleep(q) PROVE FALSE
    BY <2>0, <2>2 DEF endtsleep, UndoSleep, setrunnable
  <2>3. ASSUME NEW c \in Chan, wakeup(c) PROVE FALSE
    BY <2>0, <2>3 DEF wakeup
  <2>4. ASSUME NEW q \in Proc, NEW s \in Sig, psignal(q, s)
        PROVE  \E r \in {"cont", "kill"} : psignal(p, r)
    <3>1. p = q
      BY <2>0, <2>4 DEF psignal, SignalSleeper, SignalStopped, setrunnable
    <3>2. s \in {"cont", "kill"}
      BY <2>0, <2>4, <3>1 DEF psignal, SignalSleeper, SignalStopped, Continues
    <3> QED BY <2>4, <3>1, <3>2
  <2> QED BY <2>1, <2>2, <2>3, <2>4 DEF Next
<1> QED BY <1>1, SleepQueueInductive, PTL DEF Spec, StoppedStaysStopped

=============================================================================
