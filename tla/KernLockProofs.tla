--------------------------- MODULE KernLockProofs ---------------------------
(***************************************************************************)
(* Proofs about KernLock for every finite set of processes and every       *)
(* nesting bound: type correctness, mutual exclusion, the agreement of the *)
(* lock's counts with what its users hold, and the absence of lost         *)
(* wakeups.                                                                *)
(***************************************************************************)
EXTENDS KernLock, FiniteSetTheorems, TLAPS

(* The process that owns l->want_write holds the lock by lock_write(), or  *)
(* waits for readers in its second loop; likewise for l->want_upgrade.     *)
OwnsWrite(p) == excl[p] = "write" \/ pc[p] = "drain"
OwnsUpgrade(p) == excl[p] = "upgrade" \/ pc[p] = "upgrade"

OneOwner ==
  /\ want_write => \E p \in Proc : OwnsWrite(p)
  /\ want_upgrade => \E p \in Proc : OwnsUpgrade(p)
  /\ \A p \in Proc : OwnsWrite(p) => want_write
  /\ \A p \in Proc : OwnsUpgrade(p) => want_upgrade
  /\ \A p, q \in Proc : OwnsWrite(p) /\ OwnsWrite(q) => p = q
  /\ \A p, q \in Proc : OwnsUpgrade(p) /\ OwnsUpgrade(q) => p = q

(* A waiting process holds nothing.                                        *)
WaitersHoldNothing ==
  \A p \in Proc : pc[p] # "run" =>
    excl[p] = "none" /\ reads[p] = 0 /\ nest[p] = 0 /\ thread # p

WritersExclude ==
  \A p, q \in Proc :
    /\ p # q /\ excl[p] # "none" => excl[q] = "none" /\ reads[q] = 0
    /\ excl[p] = "write" => ~OwnsUpgrade(q)

(* l->thread names a holder, and only that holder nests writes.            *)
OneRecursive ==
  /\ thread # NoThread => reads[thread] > 0 \/ excl[thread] # "none"
  /\ thread = NoThread => recursion_depth = 0
  /\ \A p \in Proc : nest[p] = IF thread = p THEN recursion_depth ELSE 0
  /\ \A p \in Proc : nest[p] > 0 => excl[p] # "none"

ReadsCounted ==
  /\ \A p \in Proc : reads[p] <= MaxReads
  /\ IsFiniteSet(ReadTokens(reads))
  /\ read_count = Cardinality(ReadTokens(reads))

IInv ==
  /\ TypeOK /\ OneOwner /\ WaitersHoldNothing /\ WritersExclude
  /\ OneRecursive /\ ReadsCounted

-----------------------------------------------------------------------------
(* lock_init() leaves the lock in the invariant.                           *)
THEOREM InitIInv == Init => IInv
<1> SUFFICES ASSUME Init PROVE IInv OBVIOUS
<1>1. TypeOK
  BY DEF Init, TypeOK
<1>2. OneOwner /\ WaitersHoldNothing /\ WritersExclude /\ OneRecursive
  BY NoThreadIsNoProc
  DEF Init, OneOwner, WaitersHoldNothing, WritersExclude, OneRecursive, OwnsWrite, OwnsUpgrade
<1>3. ReadTokens(reads) = {}
  BY DEF Init, ReadTokens
<1>4. ReadsCounted
  BY <1>3, FS_EmptySet, BoundsAreNat DEF Init, ReadsCounted
<1> QED BY <1>1, <1>2, <1>4 DEF IInv

-----------------------------------------------------------------------------
(* Lemmas on the tokens of read holds: they change one at a time.          *)

(* Taking one more read lock adds one token (AddReader).                   *)
LEMMA MoreTokens ==
  ASSUME NEW r \in [Proc -> Nat], NEW p \in Proc, r[p] < MaxReads,
         IsFiniteSet(ReadTokens(r)), NEW s, s = [r EXCEPT ![p] = r[p] + 1]
  PROVE  IsFiniteSet(ReadTokens(s)) /\ Cardinality(ReadTokens(s)) = Cardinality(ReadTokens(r)) + 1
<1> DEFINE t == <<p, r[p] + 1>>
<1>1. t \in Proc \X (1..MaxReads) /\ t \notin ReadTokens(r)
  BY BoundsAreNat DEF ReadTokens
<1>2. \A u \in Proc \X (1..MaxReads) : u[2] <= s[u[1]] <=> u[2] <= r[u[1]] \/ u = t
  <2> SUFFICES ASSUME NEW q \in Proc, NEW k \in 1..MaxReads
               PROVE  k <= s[q] <=> k <= r[q] \/ <<q, k>> = t
    OBVIOUS
  <2>1. CASE q = p
    BY <2>1
  <2>2. CASE q # p
    BY <2>2
  <2> QED BY <2>1, <2>2
<1>3. ReadTokens(s) = ReadTokens(r) \cup {t}
  <2> HIDE DEF t
  <2> QED BY <1>1, <1>2 DEF ReadTokens
<1>4. /\ IsFiniteSet(ReadTokens(r) \cup {t})
      /\ Cardinality(ReadTokens(r) \cup {t}) = Cardinality(ReadTokens(r)) + 1
  <2> HIDE DEF t
  <2> QED BY <1>1, FS_AddElement
<1> QED BY <1>3, <1>4

(* Giving one up removes one token (DropReader, lock_done()).              *)
LEMMA FewerTokens ==
  ASSUME NEW r \in [Proc -> Nat], NEW p \in Proc, 0 < r[p], r[p] <= MaxReads,
         IsFiniteSet(ReadTokens(r)), NEW s, s = [r EXCEPT ![p] = r[p] - 1]
  PROVE  IsFiniteSet(ReadTokens(s)) /\ Cardinality(ReadTokens(s)) = Cardinality(ReadTokens(r)) - 1
<1> DEFINE t == <<p, r[p]>>
<1>1. t \in ReadTokens(r)
  BY BoundsAreNat DEF ReadTokens
<1>2. \A u \in Proc \X (1..MaxReads) : u[2] <= s[u[1]] <=> u[2] <= r[u[1]] /\ u # t
  <2> SUFFICES ASSUME NEW q \in Proc, NEW k \in 1..MaxReads
               PROVE  k <= s[q] <=> k <= r[q] /\ <<q, k>> # t
    OBVIOUS
  <2>1. CASE q = p
    BY <2>1
  <2>2. CASE q # p
    BY <2>2
  <2> QED BY <2>1, <2>2
<1>3. ReadTokens(s) = ReadTokens(r) \ {t}
  <2> HIDE DEF t
  <2> QED BY <1>2 DEF ReadTokens
<1> HIDE DEF t
<1> QED BY <1>1, <1>3, FS_RemoveElement

(* read_count is zero exactly when nobody holds a read lock.               *)
LEMMA NoTokens ==
  ASSUME NEW r \in [Proc -> Nat], \A p \in Proc : r[p] <= MaxReads, IsFiniteSet(ReadTokens(r))
  PROVE  Cardinality(ReadTokens(r)) = 0 <=> \A p \in Proc : r[p] = 0
<1>1. Cardinality(ReadTokens(r)) = 0 <=> ReadTokens(r) = {}
  BY FS_EmptySet
<1>2. ASSUME NEW p \in Proc, r[p] # 0 PROVE <<p, 1>> \in ReadTokens(r)
  <2>1. r[p] \in Nat /\ r[p] >= 1 /\ MaxReads >= 1
    BY <1>2, BoundsAreNat
  <2> QED BY <2>1, BoundsAreNat DEF ReadTokens
<1>3. ASSUME \A p \in Proc : r[p] = 0 PROVE ReadTokens(r) = {}
  BY <1>3 DEF ReadTokens
<1> QED BY <1>1, <1>2, <1>3

(* The same facts in terms of the lock's fields.                           *)
LEMMA ReadCountZero ==
  ASSUME TypeOK, ReadsCounted
  PROVE  read_count = 0 <=> \A p \in Proc : reads[p] = 0
BY NoTokens DEF TypeOK, ReadsCounted

(* The same in the next state.                                             *)
LEMMA ReadCountZeroNext ==
  ASSUME TypeOK', ReadsCounted'
  PROVE  read_count' = 0 <=> \A p \in Proc : reads'[p] = 0
BY NoTokens DEF TypeOK, ReadsCounted

(* read_count++ (lock_read() and the downgrade) keeps the types.           *)
LEMMA AddReaderType ==
  ASSUME NEW p \in Proc, TypeOK, AddReader(p)
  PROVE  read_count' \in Nat /\ reads' \in [Proc -> Nat]
BY DEF TypeOK, AddReader

(* read_count++ keeps read_count the number of read locks held.            *)
LEMMA AddReaderCounts ==
  ASSUME NEW p \in Proc, TypeOK, ReadsCounted, AddReader(p), reads[p] < MaxReads
  PROVE  ReadsCounted'
<1>1. \A q \in Proc : reads'[q] <= MaxReads
  BY BoundsAreNat DEF TypeOK, ReadsCounted, AddReader
<1>2. reads \in [Proc -> Nat] /\ reads' = [reads EXCEPT ![p] = reads[p] + 1]
  BY DEF TypeOK, AddReader
<1>3. IsFiniteSet(ReadTokens(reads)) /\ read_count' = Cardinality(ReadTokens(reads)) + 1
  BY DEF ReadsCounted, AddReader
<1> QED BY <1>1, <1>2, <1>3, MoreTokens DEF ReadsCounted

(* read_count-- (the upgrades) keeps the types: it was not zero.           *)
LEMMA DropReaderType ==
  ASSUME NEW p \in Proc, TypeOK, ReadsCounted, DropReader(p), reads[p] > 0
  PROVE  read_count > 0 /\ read_count' \in Nat /\ reads' \in [Proc -> Nat]
<1>1. read_count > 0
  BY ReadCountZero DEF TypeOK
<1>2. read_count' \in Nat
  BY <1>1 DEF TypeOK, DropReader
<1>3. reads' = [reads EXCEPT ![p] = reads[p] - 1] /\ reads[p] - 1 \in Nat /\ reads \in [Proc -> Nat]
  BY DEF TypeOK, DropReader
<1> QED BY <1>1, <1>2, <1>3

(* read_count-- keeps read_count the number of read locks held.            *)
LEMMA DropReaderCounts ==
  ASSUME NEW p \in Proc, TypeOK, ReadsCounted, DropReader(p), reads[p] > 0
  PROVE  ReadsCounted'
<1>1. \A q \in Proc : reads'[q] <= MaxReads
  BY BoundsAreNat DEF TypeOK, ReadsCounted, DropReader
<1>2. /\ reads \in [Proc -> Nat] /\ reads[p] <= MaxReads
      /\ reads' = [reads EXCEPT ![p] = reads[p] - 1]
  BY DEF TypeOK, ReadsCounted, DropReader
<1>3. IsFiniteSet(ReadTokens(reads)) /\ read_count' = Cardinality(ReadTokens(reads)) - 1
  BY DEF ReadsCounted, DropReader
<1> QED BY <1>1, <1>2, <1>3, FewerTokens DEF ReadsCounted

(* So does a step that leaves the read locks alone.                        *)
LEMMA SameReadersCounts ==
  ASSUME ReadsCounted, UNCHANGED <<read_count, reads>>
  PROVE  ReadsCounted'
BY DEF ReadsCounted, ReadTokens
-----------------------------------------------------------------------------
(* Every action preserves the invariant, conjunct by conjunct.             *)

(* lock_write(): recursive, granted, or asleep in one of its two loops.    *)
LEMMA lock_write_Preserves ==
  ASSUME NEW p \in Proc, IInv, lock_write(p)
  PROVE  IInv'
<1>0. read_count = 0 <=> \A q \in Proc : reads[q] = 0
  BY ReadCountZero DEF IInv
<1>1. TypeOK'
  <2>1. CASE Recursive(p)
    BY <2>1 DEF IInv, TypeOK, lock_write, Recursive
  <2>2. CASE ~Recursive(p)
    BY <2>2 DEF IInv, TypeOK, lock_write, GetWantWrite, DrainReaders, SleepIn, NoSleep, Loop
  <2> QED BY <2>1, <2>2
<1>2. OneOwner'
  <2>1. CASE Recursive(p)
    BY <2>1 DEF IInv, lock_write, OneOwner, OwnsWrite, OwnsUpgrade
  <2>2. CASE ~Recursive(p)
    BY <2>2 DEF IInv, TypeOK, lock_write, GetWantWrite, DrainReaders, SleepIn, NoSleep,
            OneOwner, OwnsWrite, OwnsUpgrade, MayWrite, Running
  <2> QED BY <2>1, <2>2
<1>3. WaitersHoldNothing'
  BY <1>0, NoThreadIsNoProc DEF IInv, TypeOK, OneOwner, WaitersHoldNothing, OneRecursive,
                            lock_write, GetWantWrite, DrainReaders, SleepIn, NoSleep, MayWrite,
                            Running, Held
<1>4. WritersExclude'
  BY <1>0, NoThreadIsNoProc DEF IInv, TypeOK, OneOwner, WritersExclude, OwnsWrite, OwnsUpgrade,
                            lock_write, GetWantWrite, DrainReaders, SleepIn, NoSleep
<1>5. OneRecursive'
  BY <1>0, NoThreadIsNoProc DEF IInv, TypeOK, OneRecursive, lock_write, GetWantWrite,
                            DrainReaders, SleepIn, NoSleep, MayWrite, Running, Held, Recursive
<1>6. ReadsCounted'
  BY SameReadersCounts DEF IInv, lock_write
<1> QED BY <1>1, <1>2, <1>3, <1>4, <1>5, <1>6 DEF IInv

(* lock_write() woken in its first loop.                                   *)
LEMMA WriteResume_Preserves ==
  ASSUME NEW p \in Proc, IInv, WriteResume(p)
  PROVE  IInv'
<1>0. read_count = 0 <=> \A q \in Proc : reads[q] = 0
  BY ReadCountZero DEF IInv
<1>1. TypeOK'
  BY <1>0, NoThreadIsNoProc DEF IInv, TypeOK, Loop, WriteResume, GetWantWrite, DrainReaders,
                            SleepIn, NoSleep
<1>2. OneOwner'
  BY <1>0, NoThreadIsNoProc DEF IInv, TypeOK, OneOwner, OwnsWrite, OwnsUpgrade, WriteResume,
                            GetWantWrite, DrainReaders, SleepIn, NoSleep, Woken
<1>3. WaitersHoldNothing'
  BY <1>0, NoThreadIsNoProc DEF IInv, TypeOK, WaitersHoldNothing, WriteResume, GetWantWrite,
                            DrainReaders, SleepIn, NoSleep, Woken
<1>4. WritersExclude'
  BY <1>0, NoThreadIsNoProc DEF IInv, TypeOK, OneOwner, WritersExclude, OwnsWrite, OwnsUpgrade,
                            WriteResume, GetWantWrite, DrainReaders, SleepIn, NoSleep
<1>5. OneRecursive'
  BY <1>0, NoThreadIsNoProc DEF IInv, TypeOK, OneRecursive, WriteResume, GetWantWrite,
                                DrainReaders
<1>6. ReadsCounted'
  BY SameReadersCounts DEF IInv, WriteResume
<1> QED BY <1>1, <1>2, <1>3, <1>4, <1>5, <1>6 DEF IInv

(* lock_write() woken in its second loop.                                  *)
LEMMA DrainResume_Preserves ==
  ASSUME NEW p \in Proc, IInv, DrainResume(p)
  PROVE  IInv'
<1>0. read_count = 0 <=> \A q \in Proc : reads[q] = 0
  BY ReadCountZero DEF IInv
<1>1. TypeOK'
  BY <1>0, NoThreadIsNoProc DEF IInv, TypeOK, DrainResume, DrainReaders, SleepIn, NoSleep, Woken
<1>2. OneOwner'
  BY <1>0, NoThreadIsNoProc DEF IInv, TypeOK, OneOwner, OwnsWrite, OwnsUpgrade, DrainResume,
                            DrainReaders, SleepIn, NoSleep, Woken
<1>3. WaitersHoldNothing'
  BY <1>0, NoThreadIsNoProc DEF IInv, TypeOK, WaitersHoldNothing, DrainResume, DrainReaders,
                            SleepIn, NoSleep, Woken
<1>4. WritersExclude'
  BY <1>0, NoThreadIsNoProc DEF IInv, TypeOK, OneOwner, WritersExclude, OwnsWrite, OwnsUpgrade,
                            DrainResume, DrainReaders, SleepIn, NoSleep, Woken
<1>5. OneRecursive'
  BY <1>0, NoThreadIsNoProc DEF IInv, TypeOK, OneRecursive, DrainResume, DrainReaders
<1>6. ReadsCounted'
  BY SameReadersCounts DEF IInv, DrainResume
<1> QED BY <1>1, <1>2, <1>3, <1>4, <1>5, <1>6 DEF IInv

(* lock_read(): recursive, granted, or asleep.                             *)
LEMMA lock_read_Preserves ==
  ASSUME NEW p \in Proc, IInv, lock_read(p)
  PROVE  IInv'
<1>0. read_count = 0 <=> \A q \in Proc : reads[q] = 0
  BY ReadCountZero DEF IInv
<1>1. TypeOK'
  <2>1. read_count' \in Nat /\ reads' \in [Proc -> Nat]
    BY AddReaderType DEF IInv, TypeOK, lock_read, GetRead
  <2> QED BY <2>1 DEF IInv, TypeOK, lock_read, GetRead, SleepIn, NoSleep, Loop
<1>2. OneOwner'
  BY <1>0, NoThreadIsNoProc DEF IInv, TypeOK, OneOwner, OwnsWrite, OwnsUpgrade, lock_read,
                            GetRead, SleepIn, NoSleep, MayRead, Running
<1>3. WaitersHoldNothing'
  BY <1>0, NoThreadIsNoProc DEF IInv, TypeOK, WaitersHoldNothing, WritersExclude, OneRecursive,
                            lock_read, GetRead, AddReader, SleepIn, NoSleep, MayRead, Held
<1>4. WritersExclude'
  BY <1>0, NoThreadIsNoProc DEF IInv, TypeOK, OneOwner, WritersExclude, OneRecursive,
                            OwnsWrite, OwnsUpgrade, lock_read, GetRead, AddReader, SleepIn,
                            NoSleep, Recursive
<1>5. OneRecursive'
  BY <1>0, NoThreadIsNoProc DEF IInv, TypeOK, OneRecursive, lock_read, GetRead, AddReader
<1>6. ReadsCounted'
  <2>1. CASE AddReader(p)
    BY <2>1, AddReaderCounts DEF IInv, lock_read, MayRead
  <2>2. CASE UNCHANGED <<read_count, reads>>
    BY <2>2, SameReadersCounts DEF IInv
  <2> QED BY <2>1, <2>2 DEF lock_read, GetRead
<1> QED BY <1>1, <1>2, <1>3, <1>4, <1>5, <1>6 DEF IInv

(* lock_read() woken.                                                      *)
LEMMA ReadResume_Preserves ==
  ASSUME NEW p \in Proc, IInv, ReadResume(p)
  PROVE  IInv'
<1>0. read_count = 0 <=> \A q \in Proc : reads[q] = 0
  BY ReadCountZero DEF IInv
<1>1. TypeOK'
  <2>1. read_count' \in Nat /\ reads' \in [Proc -> Nat]
    BY AddReaderType DEF IInv, TypeOK, ReadResume, GetRead
  <2> QED BY <2>1 DEF IInv, TypeOK, ReadResume, GetRead, SleepIn, NoSleep, Loop
<1>2. OneOwner'
  BY <1>0, NoThreadIsNoProc DEF IInv, TypeOK, OneOwner, OwnsWrite, OwnsUpgrade, ReadResume,
                            GetRead, SleepIn, NoSleep, Woken
<1>3. WaitersHoldNothing'
  BY <1>0, NoThreadIsNoProc DEF IInv, TypeOK, WaitersHoldNothing, ReadResume, GetRead,
                            AddReader, SleepIn, NoSleep, Woken
<1>4. WritersExclude'
  BY <1>0, NoThreadIsNoProc DEF IInv, TypeOK, OneOwner, WritersExclude, OwnsWrite, OwnsUpgrade,
                            ReadResume, GetRead, SleepIn
<1>5. OneRecursive'
  BY <1>0, NoThreadIsNoProc DEF IInv, TypeOK, OneRecursive, ReadResume, GetRead, AddReader
<1>6. ReadsCounted'
  <2>1. CASE AddReader(p)
    <3>1. reads[p] = 0 /\ 0 < MaxReads
      BY BoundsAreNat DEF IInv, ReadResume, Woken, WaitersHoldNothing
    <3> QED BY <2>1, <3>1, AddReaderCounts DEF IInv
  <2>2. CASE UNCHANGED <<read_count, reads>>
    BY <2>2, SameReadersCounts DEF IInv
  <2> QED BY <2>1, <2>2 DEF ReadResume, GetRead
<1> QED BY <1>1, <1>2, <1>3, <1>4, <1>5, <1>6 DEF IInv

(* lock_read_to_write(): recursive, first upgrader, or loser.              *)
LEMMA lock_read_to_write_Preserves ==
  ASSUME NEW p \in Proc, IInv, lock_read_to_write(p)
  PROVE  IInv'
<1>0. DropReader(p) /\ reads[p] > 0
  BY DEF lock_read_to_write, MayUpgrade, UpgradeRecursive, UpgradeFirst
<1>6. ReadsCounted'
  BY <1>0, DropReaderCounts DEF IInv
<1>1. TypeOK'
  <2>1. read_count' \in Nat /\ reads' \in [Proc -> Nat]
    BY <1>0, DropReaderType DEF IInv
  <2>2. CASE UpgradeRecursive(p)
    BY <2>1, <2>2 DEF IInv, TypeOK, lock_read_to_write, UpgradeRecursive, NoSleep
  <2>3. CASE UpgradeFirst(p)
    BY <2>1, <2>3 DEF IInv, TypeOK, lock_read_to_write, UpgradeFirst, NoSleep, SleepIn, Loop
  <2>4. CASE WakeWaiters /\ UNCHANGED <<want_upgrade, recursion_depth, pc, excl, nest>>
    BY <2>1, <2>4 DEF IInv, TypeOK, lock_read_to_write, WakeWaiters
  <2> QED BY <2>2, <2>3, <2>4 DEF lock_read_to_write
<1>2. OneOwner'
  BY NoThreadIsNoProc DEF IInv, TypeOK, OneOwner, OwnsWrite, OwnsUpgrade, lock_read_to_write,
                      UpgradeRecursive, UpgradeFirst, SleepIn, NoSleep, MayUpgrade, Running
<1>3. WaitersHoldNothing'
  BY NoThreadIsNoProc DEF IInv, TypeOK, WaitersHoldNothing, OneRecursive, lock_read_to_write,
                      UpgradeRecursive, UpgradeFirst, DropReader, SleepIn, NoSleep, MayUpgrade,
                      Recursive
<1>4. WritersExclude'
  <2>1. \A q \in Proc : reads'[q] = IF q = p THEN reads[q] - 1 ELSE reads[q]
    BY <1>0 DEF DropReader, IInv, TypeOK
  <2>2. \A q, r \in Proc : q # r /\ excl[q] # "none" => reads'[r] = 0
    BY <1>0, <2>1 DEF IInv, WritersExclude
  <2>3. CASE UpgradeRecursive(p)
    <3>1. \A q \in Proc : excl'[q] = excl[q] /\ (OwnsUpgrade(q)' => OwnsUpgrade(q))
      BY <2>3 DEF UpgradeRecursive, NoSleep, OwnsUpgrade
    <3> QED BY <2>2, <3>1 DEF IInv, WritersExclude
  <2>4. CASE UpgradeFirst(p)
    <3>1. excl[p] = "none" /\ \A q \in Proc : excl[q] # "none" => q = p
      BY <2>4 DEF IInv, WritersExclude, lock_read_to_write, MayUpgrade, UpgradeFirst
    <3>2. read_count' = 0 <=> \A q \in Proc : reads'[q] = 0
      BY <1>1, <1>6, ReadCountZeroNext
    <3> QED
      BY <2>1, <2>4, <3>1, <3>2
      DEF IInv, WritersExclude, OwnsUpgrade, UpgradeFirst, NoSleep, SleepIn, TypeOK
  <2>5. CASE WakeWaiters /\ UNCHANGED <<want_upgrade, recursion_depth, pc, excl, nest>>
    BY <2>2, <2>5 DEF IInv, WritersExclude, OwnsUpgrade
  <2> QED BY <2>3, <2>4, <2>5 DEF lock_read_to_write
<1>5. OneRecursive'
  BY NoThreadIsNoProc DEF IInv, TypeOK, OneRecursive, lock_read_to_write, UpgradeRecursive,
                      UpgradeFirst, DropReader, MayUpgrade, Recursive
<1> QED BY <1>1, <1>2, <1>3, <1>4, <1>5, <1>6 DEF IInv

(* lock_try_read_to_write(): recursive or first upgrader.                  *)
LEMMA lock_try_read_to_write_Preserves ==
  ASSUME NEW p \in Proc, IInv, lock_try_read_to_write(p)
  PROVE  IInv'
<1>0. DropReader(p) /\ reads[p] > 0
  BY DEF lock_try_read_to_write, MayUpgrade, UpgradeRecursive, UpgradeFirst
<1>6. ReadsCounted'
  BY <1>0, DropReaderCounts DEF IInv
<1>1. TypeOK'
  <2>1. read_count' \in Nat /\ reads' \in [Proc -> Nat]
    BY <1>0, DropReaderType DEF IInv
  <2>2. CASE UpgradeRecursive(p)
    BY <2>1, <2>2 DEF IInv, TypeOK, lock_try_read_to_write, UpgradeRecursive, NoSleep
  <2>3. CASE UpgradeFirst(p)
    BY <2>1, <2>3 DEF IInv, TypeOK, lock_try_read_to_write, UpgradeFirst, NoSleep, SleepIn, Loop
  <2> QED BY <2>2, <2>3 DEF lock_try_read_to_write
<1>2. OneOwner'
  BY NoThreadIsNoProc DEF IInv, TypeOK, OneOwner, OwnsWrite, OwnsUpgrade,
                      lock_try_read_to_write, UpgradeRecursive, UpgradeFirst, SleepIn, NoSleep,
                      MayUpgrade, Running
<1>3. WaitersHoldNothing'
  BY NoThreadIsNoProc DEF IInv, TypeOK, WaitersHoldNothing, OneRecursive,
                      lock_try_read_to_write, UpgradeRecursive, UpgradeFirst, DropReader,
                      SleepIn, NoSleep, MayUpgrade, Recursive
<1>4. WritersExclude'
  <2>1. \A q \in Proc : reads'[q] = IF q = p THEN reads[q] - 1 ELSE reads[q]
    BY <1>0 DEF DropReader, IInv, TypeOK
  <2>2. \A q, r \in Proc : q # r /\ excl[q] # "none" => reads'[r] = 0
    BY <1>0, <2>1 DEF IInv, WritersExclude
  <2>3. CASE UpgradeRecursive(p)
    <3>1. \A q \in Proc : excl'[q] = excl[q] /\ (OwnsUpgrade(q)' => OwnsUpgrade(q))
      BY <2>3 DEF UpgradeRecursive, NoSleep, OwnsUpgrade
    <3> QED BY <2>2, <3>1 DEF IInv, WritersExclude
  <2>4. CASE UpgradeFirst(p)
    <3>1. excl[p] = "none" /\ \A q \in Proc : excl[q] # "none" => q = p
      BY <2>4 DEF IInv, WritersExclude, lock_try_read_to_write, MayUpgrade, UpgradeFirst
    <3>2. read_count' = 0 <=> \A q \in Proc : reads'[q] = 0
      BY <1>1, <1>6, ReadCountZeroNext
    <3> QED
      BY <2>1, <2>4, <3>1, <3>2
      DEF IInv, WritersExclude, OwnsUpgrade, UpgradeFirst, NoSleep, SleepIn, TypeOK
  <2> QED BY <2>3, <2>4 DEF lock_try_read_to_write
<1>5. OneRecursive'
  BY NoThreadIsNoProc DEF IInv, TypeOK, OneRecursive, lock_try_read_to_write, UpgradeRecursive,
                      UpgradeFirst, DropReader, MayUpgrade, Recursive
<1> QED BY <1>1, <1>2, <1>3, <1>4, <1>5, <1>6 DEF IInv

(* Either upgrade routine woken.                                           *)
LEMMA UpgradeResume_Preserves ==
  ASSUME NEW p \in Proc, IInv, UpgradeResume(p)
  PROVE  IInv'
<1>0. read_count = 0 <=> \A q \in Proc : reads[q] = 0
  BY ReadCountZero DEF IInv
<1>1. TypeOK'
  BY <1>0, NoThreadIsNoProc DEF IInv, TypeOK, UpgradeResume, SleepIn, NoSleep, Woken
<1>2. OneOwner'
  BY <1>0, NoThreadIsNoProc DEF IInv, TypeOK, OneOwner, WritersExclude, OwnsWrite, OwnsUpgrade,
                            UpgradeResume, SleepIn, NoSleep, Woken
<1>3. WaitersHoldNothing'
  BY <1>0, NoThreadIsNoProc DEF IInv, TypeOK, WaitersHoldNothing, UpgradeResume, SleepIn,
                            NoSleep, Woken
<1>4. WritersExclude'
  BY <1>0, NoThreadIsNoProc DEF IInv, TypeOK, OneOwner, WritersExclude, OwnsUpgrade,
                            UpgradeResume, Woken
<1>5. OneRecursive'
  BY <1>0, NoThreadIsNoProc DEF IInv, TypeOK, OneRecursive, UpgradeResume
<1>6. ReadsCounted'
  BY SameReadersCounts DEF IInv, UpgradeResume
<1> QED BY <1>1, <1>2, <1>3, <1>4, <1>5, <1>6 DEF IInv

(* lock_try_write() succeeding.                                            *)
LEMMA lock_try_write_Preserves ==
  ASSUME NEW p \in Proc, IInv, lock_try_write(p)
  PROVE  IInv'
<1>0. read_count = 0 <=> \A q \in Proc : reads[q] = 0
  BY ReadCountZero DEF IInv
<1>1. TypeOK'
  <2>1. CASE Recursive(p)
    BY <2>1 DEF IInv, TypeOK, lock_try_write, Recursive
  <2>2. CASE ~Recursive(p)
    BY <2>2 DEF IInv, TypeOK, lock_try_write, Recursive
  <2> QED BY <2>1, <2>2
<1>2. OneOwner'
  BY <1>0, NoThreadIsNoProc DEF IInv, TypeOK, OneOwner, OwnsWrite, OwnsUpgrade, lock_try_write
<1>3. WaitersHoldNothing'
  BY <1>0, NoThreadIsNoProc DEF IInv, TypeOK, WaitersHoldNothing, lock_try_write, MayWrite,
                                Running, Held, Recursive
<1>4. WritersExclude'
  BY <1>0, NoThreadIsNoProc DEF IInv, TypeOK, OneOwner, WaitersHoldNothing, WritersExclude,
                                OwnsWrite, OwnsUpgrade, lock_try_write, MayWrite, Running,
                                Held, Recursive
<1>5. OneRecursive'
  BY <1>0, NoThreadIsNoProc DEF IInv, TypeOK, WaitersHoldNothing, OneRecursive,
                                lock_try_write, MayWrite, Running, Held, Recursive
<1>6. ReadsCounted'
  BY SameReadersCounts DEF IInv, lock_try_write
<1> QED BY <1>1, <1>2, <1>3, <1>4, <1>5, <1>6 DEF IInv

(* lock_try_read() succeeding.                                             *)
LEMMA lock_try_read_Preserves ==
  ASSUME NEW p \in Proc, IInv, lock_try_read(p)
  PROVE  IInv'
<1>0. read_count = 0 <=> \A q \in Proc : reads[q] = 0
  BY ReadCountZero DEF IInv
<1>1. TypeOK'
  BY <1>0, NoThreadIsNoProc DEF IInv, TypeOK, lock_try_read, AddReader, MayRead, Running,
                                Held, Recursive
<1>2. OneOwner'
  BY <1>0, NoThreadIsNoProc DEF IInv, TypeOK, OneOwner, WritersExclude, OwnsWrite,
                                OwnsUpgrade, lock_try_read, AddReader, MayRead, Running,
                                Held, Recursive
<1>3. WaitersHoldNothing'
  BY <1>0, NoThreadIsNoProc DEF IInv, TypeOK, WaitersHoldNothing, lock_try_read, AddReader,
                                MayRead, Running, Held, Recursive
<1>4. WritersExclude'
  BY <1>0, NoThreadIsNoProc DEF OneRecursive, IInv, TypeOK, OneOwner, WaitersHoldNothing,
                                WritersExclude, OwnsWrite, OwnsUpgrade, lock_try_read,
                                AddReader, MayRead, Running, Held, Recursive
<1>5. OneRecursive'
  BY <1>0, NoThreadIsNoProc DEF IInv, TypeOK, WaitersHoldNothing, OneRecursive,
                                lock_try_read, AddReader, MayRead, Running, Held, Recursive
<1>6. ReadsCounted'
  BY AddReaderCounts DEF IInv, lock_try_read, MayRead
<1> QED BY <1>1, <1>2, <1>3, <1>4, <1>5, <1>6 DEF IInv

(* lock_done(): the release it guesses is the caller's.                    *)
LEMMA lock_done_Preserves ==
  ASSUME NEW p \in Proc, IInv, lock_done(p)
  PROVE  IInv'
<1>0. read_count = 0 <=> \A q \in Proc : reads[q] = 0
  BY ReadCountZero DEF IInv
<1>1. TypeOK'
  <2>1. read_count' \in Nat /\ recursion_depth' \in Nat
    BY DEF IInv, TypeOK, lock_done, DropExclusive
  <2>2. /\ reads' \in [Proc -> Nat] /\ nest' \in [Proc -> Nat]
        /\ excl' \in [Proc -> {"none", "write", "upgrade"}]
    <3>1. CASE reads[p] > 0
      <4>1. /\ reads' = [reads EXCEPT ![p] = reads[p] - 1] /\ reads[p] - 1 \in Nat
            /\ UNCHANGED <<excl, nest>>
        BY <3>1 DEF IInv, TypeOK, lock_done
      <4> QED BY <4>1 DEF IInv, TypeOK
    <3>2. CASE ~(reads[p] > 0) /\ nest[p] > 0
      <4>1. /\ nest' = [nest EXCEPT ![p] = nest[p] - 1] /\ nest[p] - 1 \in Nat
            /\ UNCHANGED <<excl, reads>>
        BY <3>2 DEF IInv, TypeOK, lock_done, ForgetWrite
      <4> QED BY <4>1 DEF IInv, TypeOK
    <3>3. CASE ~(reads[p] > 0) /\ ~(nest[p] > 0)
      BY <3>3 DEF IInv, TypeOK, lock_done, ForgetWrite
    <3> QED BY <3>1, <3>2, <3>3
  <2> QED BY <2>1, <2>2 DEF IInv, TypeOK, lock_done, DropExclusive, WakeWaiters
<1>2. OneOwner'
  BY <1>0, NoThreadIsNoProc DEF WaitersHoldNothing, OneRecursive, IInv, TypeOK, OneOwner,
                                WritersExclude, OwnsWrite, OwnsUpgrade, lock_done,
                                DropExclusive, ForgetWrite, WakeWaiters, Running, Held,
                                Recursive
<1>3. WaitersHoldNothing'
  BY <1>0, NoThreadIsNoProc DEF IInv, TypeOK, WaitersHoldNothing, lock_done, DropExclusive,
                                ForgetWrite, WakeWaiters, Running, Held, Recursive
<1>4. WritersExclude'
  BY <1>0, NoThreadIsNoProc DEF IInv, TypeOK, OneOwner, WaitersHoldNothing, WritersExclude,
                                OwnsWrite, OwnsUpgrade, lock_done, DropExclusive,
                                ForgetWrite, WakeWaiters, Running, Held, Recursive
<1>5. OneRecursive'
  BY <1>0, NoThreadIsNoProc DEF WritersExclude, OneOwner, OwnsWrite, OwnsUpgrade, IInv,
                                TypeOK, WaitersHoldNothing, OneRecursive, lock_done,
                                DropExclusive, ForgetWrite, WakeWaiters, Running, Held,
                                Recursive
<1>6. ReadsCounted'
  <2>1. CASE reads[p] > 0
    <3>1. read_count # 0
      BY <2>1, ReadCountZero DEF IInv
    <3> QED BY <2>1, <3>1, DropReaderCounts DEF IInv, lock_done, DropReader
  <2>2. CASE ~(reads[p] > 0)
    <3>1. excl[p] # "none" /\ reads[p] = 0
      BY <2>2 DEF IInv, TypeOK, OneRecursive, lock_done, Held
    <3>2. read_count = 0
      BY <3>1, <1>0 DEF IInv, WritersExclude
    <3> QED BY <2>2, <3>2, SameReadersCounts DEF IInv, lock_done, DropExclusive, ForgetWrite
  <2> QED BY <2>1, <2>2
<1> QED BY <1>1, <1>2, <1>3, <1>4, <1>5, <1>6 DEF IInv

(* lock_write_to_read().                                                   *)
LEMMA lock_write_to_read_Preserves ==
  ASSUME NEW p \in Proc, IInv, lock_write_to_read(p)
  PROVE  IInv'
<1>0. read_count = 0 <=> \A q \in Proc : reads[q] = 0
  BY ReadCountZero DEF IInv
<1>1. TypeOK'
  <2>1. read_count' \in Nat /\ reads' \in [Proc -> Nat]
    BY AddReaderType DEF IInv, TypeOK, lock_write_to_read
  <2>2. nest' \in [Proc -> Nat] /\ excl' \in [Proc -> {"none", "write", "upgrade"}]
    <3>1. CASE nest[p] > 0
      <4>1. nest' = [nest EXCEPT ![p] = nest[p] - 1] /\ nest[p] - 1 \in Nat /\ UNCHANGED excl
        BY <3>1 DEF IInv, TypeOK, lock_write_to_read, ForgetWrite
      <4> QED BY <4>1 DEF IInv, TypeOK
    <3>2. CASE ~(nest[p] > 0)
      BY <3>2 DEF IInv, TypeOK, lock_write_to_read, ForgetWrite
    <3> QED BY <3>1, <3>2
  <2>3. want_write' \in BOOLEAN /\ want_upgrade' \in BOOLEAN /\ recursion_depth' \in Nat
    <3>1. DropExclusive /\ recursion_depth \in Nat /\ want_write \in BOOLEAN /\ want_upgrade \in BOOLEAN
      BY DEF IInv, TypeOK, lock_write_to_read
    <3>2. CASE recursion_depth # 0
      BY <3>1, <3>2 DEF DropExclusive
    <3>3. CASE recursion_depth = 0
      BY <3>1, <3>3 DEF DropExclusive
    <3> QED BY <3>1, <3>2, <3>3
  <2>4. waiting' \in BOOLEAN /\ asleep' \subseteq Proc /\ UNCHANGED <<thread, pc, panicked>>
    BY DEF IInv, TypeOK, lock_write_to_read, WakeWaiters
  <2> QED BY <2>1, <2>2, <2>3, <2>4 DEF IInv, TypeOK
<1>2. OneOwner'
  BY <1>0, NoThreadIsNoProc DEF WaitersHoldNothing, OneRecursive, IInv, TypeOK, OneOwner,
                                WritersExclude, OwnsWrite, OwnsUpgrade, lock_write_to_read,
                                AddReader, DropExclusive, ForgetWrite, WakeWaiters, Running
<1>3. WaitersHoldNothing'
  BY <1>0, NoThreadIsNoProc DEF IInv, TypeOK, WaitersHoldNothing, lock_write_to_read,
                                AddReader, DropExclusive, ForgetWrite, WakeWaiters, Running
<1>4. WritersExclude'
  BY <1>0, NoThreadIsNoProc DEF IInv, TypeOK, OneOwner, WaitersHoldNothing, WritersExclude,
                                OwnsWrite, OwnsUpgrade, lock_write_to_read, AddReader,
                                DropExclusive, ForgetWrite, WakeWaiters, Running
<1>5. OneRecursive'
  BY <1>0, NoThreadIsNoProc DEF WritersExclude, OneOwner, OwnsWrite, OwnsUpgrade, IInv,
                                TypeOK, WaitersHoldNothing, OneRecursive,
                                lock_write_to_read, AddReader, DropExclusive, ForgetWrite,
                                WakeWaiters, Running
<1>6. ReadsCounted'
  BY AddReaderCounts DEF IInv, lock_write_to_read
<1> QED BY <1>1, <1>2, <1>3, <1>4, <1>5, <1>6 DEF IInv

(* lock_set_recursive().                                                   *)
LEMMA lock_set_recursive_Preserves ==
  ASSUME NEW p \in Proc, IInv, lock_set_recursive(p)
  PROVE  IInv'
<1>0. read_count = 0 <=> \A q \in Proc : reads[q] = 0
  BY ReadCountZero DEF IInv
<1>1. TypeOK'
  BY <1>0, NoThreadIsNoProc DEF IInv, TypeOK, lock_set_recursive, Running, Recursive, clientVars
<1>2. OneOwner'
  BY <1>0, NoThreadIsNoProc DEF IInv, TypeOK, OneOwner, WritersExclude, OwnsWrite,
                                OwnsUpgrade, lock_set_recursive, Running, Recursive,
                                clientVars
<1>3. WaitersHoldNothing'
  BY <1>0, NoThreadIsNoProc DEF IInv, TypeOK, WaitersHoldNothing, lock_set_recursive,
                                Running, Recursive, clientVars
<1>4. WritersExclude'
  BY <1>0, NoThreadIsNoProc DEF IInv, TypeOK, OneOwner, WaitersHoldNothing, WritersExclude,
                                OwnsWrite, OwnsUpgrade, lock_set_recursive, Running,
                                Recursive, clientVars
<1>5. OneRecursive'
  BY <1>0, NoThreadIsNoProc DEF WritersExclude, OneOwner, OwnsWrite, OwnsUpgrade, Loop,
                                IInv, TypeOK, WaitersHoldNothing, OneRecursive,
                                lock_set_recursive, Running, Recursive, clientVars
<1>6. ReadsCounted'
  BY SameReadersCounts DEF IInv, lock_set_recursive, clientVars
<1> QED BY <1>1, <1>2, <1>3, <1>4, <1>5, <1>6 DEF IInv

(* lock_clear_recursive().                                                 *)
LEMMA lock_clear_recursive_Preserves ==
  ASSUME NEW p \in Proc, IInv, lock_clear_recursive(p)
  PROVE  IInv'
<1>0. read_count = 0 <=> \A q \in Proc : reads[q] = 0
  BY ReadCountZero DEF IInv
<1>1. TypeOK'
  BY <1>0, NoThreadIsNoProc DEF IInv, TypeOK, lock_clear_recursive, Running, Recursive,
                                clientVars
<1>2. OneOwner'
  BY <1>0, NoThreadIsNoProc DEF IInv, TypeOK, OneOwner, WritersExclude, OwnsWrite,
                                OwnsUpgrade, lock_clear_recursive, Running, Recursive,
                                clientVars
<1>3. WaitersHoldNothing'
  BY <1>0, NoThreadIsNoProc DEF IInv, TypeOK, WaitersHoldNothing, lock_clear_recursive,
                                Running, Recursive, clientVars
<1>4. WritersExclude'
  BY <1>0, NoThreadIsNoProc DEF IInv, TypeOK, OneOwner, WaitersHoldNothing, WritersExclude,
                                OwnsWrite, OwnsUpgrade, lock_clear_recursive, Running,
                                Recursive, clientVars
<1>5. OneRecursive'
  BY <1>0, NoThreadIsNoProc DEF IInv, TypeOK, WaitersHoldNothing, OneRecursive,
                                lock_clear_recursive, Running, Recursive, clientVars
<1>6. ReadsCounted'
  BY SameReadersCounts DEF IInv, lock_clear_recursive, clientVars
<1> QED BY <1>1, <1>2, <1>3, <1>4, <1>5, <1>6 DEF IInv

(* The invariant is inductive.                                             *)
THEOREM NextIInv == IInv /\ [Next]_vars => IInv'
<1> SUFFICES ASSUME IInv, [Next]_vars PROVE IInv'
  OBVIOUS
<1>1. CASE Next
  <2>1. ASSUME NEW p \in Proc, lock_write(p) PROVE IInv'
    BY <2>1, lock_write_Preserves
  <2>2. ASSUME NEW p \in Proc, WriteResume(p) PROVE IInv'
    BY <2>2, WriteResume_Preserves
  <2>3. ASSUME NEW p \in Proc, DrainResume(p) PROVE IInv'
    BY <2>3, DrainResume_Preserves
  <2>4. ASSUME NEW p \in Proc, lock_read(p) PROVE IInv'
    BY <2>4, lock_read_Preserves
  <2>5. ASSUME NEW p \in Proc, ReadResume(p) PROVE IInv'
    BY <2>5, ReadResume_Preserves
  <2>6. ASSUME NEW p \in Proc, lock_read_to_write(p) PROVE IInv'
    BY <2>6, lock_read_to_write_Preserves
  <2>7. ASSUME NEW p \in Proc, lock_try_read_to_write(p) PROVE IInv'
    BY <2>7, lock_try_read_to_write_Preserves
  <2>8. ASSUME NEW p \in Proc, UpgradeResume(p) PROVE IInv'
    BY <2>8, UpgradeResume_Preserves
  <2>9. ASSUME NEW p \in Proc, lock_try_write(p) PROVE IInv'
    BY <2>9, lock_try_write_Preserves
  <2>10. ASSUME NEW p \in Proc, lock_try_read(p) PROVE IInv'
    BY <2>10, lock_try_read_Preserves
  <2>11. ASSUME NEW p \in Proc, lock_done(p) PROVE IInv'
    BY <2>11, lock_done_Preserves
  <2>12. ASSUME NEW p \in Proc, lock_write_to_read(p) PROVE IInv'
    BY <2>12, lock_write_to_read_Preserves
  <2>13. ASSUME NEW p \in Proc, lock_set_recursive(p) PROVE IInv'
    BY <2>13, lock_set_recursive_Preserves
  <2>14. ASSUME NEW p \in Proc, lock_clear_recursive(p) PROVE IInv'
    BY <2>14, lock_clear_recursive_Preserves
  <2> QED
    BY <1>1, <2>1, <2>2, <2>3, <2>4, <2>5, <2>6, <2>7, <2>8, <2>9, <2>10, <2>11, <2>12, <2>13, <2>14
    DEF Next
<1>2. CASE UNCHANGED vars
  BY <1>2 DEF vars, lockVars, clientVars, IInv, TypeOK, OneOwner, WaitersHoldNothing,
              WritersExclude,
              OneRecursive, OwnsWrite, OwnsUpgrade, ReadsCounted, ReadTokens
<1> QED BY <1>1, <1>2

(* Hence it holds in every state of every behaviour.                       *)
THEOREM Inductive == Spec => []IInv
BY InitIInv, NextIInv, PTL DEF Spec

(* Every field keeps its type: no count of kern_lock.c goes below zero.    *)
THEOREM TypeCorrect == Spec => []TypeOK
<1>1. IInv => TypeOK
  BY DEF IInv
<1> QED BY <1>1, Inductive, PTL

(* A holder for write excludes every other holder.                         *)
THEOREM WriteExcludes == Spec => []MutualExclusion
<1>1. IInv => MutualExclusion
  BY DEF IInv, WritersExclude, MutualExclusion
<1> QED BY <1>1, Inductive, PTL

(* lock_done() releases what its caller holds, never somebody else's hold. *)
THEOREM CountsCorrect == Spec => []CountsAgree
<1>1. IInv => CountsAgree
  BY DEF IInv, OneRecursive, ReadsCounted, CountsAgree
<1> QED BY <1>1, Inductive, PTL
-----------------------------------------------------------------------------
(* The lost-wakeup invariant, kept by the counts being right (IInv).       *)
SleepInv == SleepsForAReason /\ \A p \in asleep : pc[p] # "run"

(* A step leaves every sleeper a reason to sleep: whatever takes the last  *)
(* one away also calls thread_wakeup().                                    *)
THEOREM NextSleepInv == IInv /\ IInv' /\ SleepInv /\ [Next]_vars => SleepInv'
<1> SUFFICES ASSUME IInv, IInv', SleepInv, [Next]_vars PROVE SleepInv'
  OBVIOUS
<1> USE DEF SleepInv, SleepsForAReason, IInv, TypeOK, OneOwner, WritersExclude,
            OwnsWrite, OwnsUpgrade, Loop
<1>1. CASE Next
  <2>1. ASSUME NEW p \in Proc, lock_write(p) PROVE SleepInv'
    BY <2>1 DEF lock_write, GetWantWrite, DrainReaders, SleepIn, NoSleep, MayWrite, Running
  <2>2. ASSUME NEW p \in Proc, WriteResume(p) PROVE SleepInv'
    BY <2>2 DEF WriteResume, GetWantWrite, DrainReaders, SleepIn, NoSleep, Woken
  <2>3. ASSUME NEW p \in Proc, DrainResume(p) PROVE SleepInv'
    BY <2>3 DEF DrainResume, DrainReaders, SleepIn, NoSleep, Woken
  <2>4. ASSUME NEW p \in Proc, lock_read(p) PROVE SleepInv'
    BY <2>4 DEF lock_read, GetRead, AddReader, SleepIn, NoSleep, MayRead, Running, Recursive
  <2>5. ASSUME NEW p \in Proc, ReadResume(p) PROVE SleepInv'
    BY <2>5 DEF ReadResume, GetRead, AddReader, SleepIn, NoSleep, Woken
  <2>6. ASSUME NEW p \in Proc, lock_read_to_write(p) PROVE SleepInv'
    BY <2>6 DEF lock_read_to_write, UpgradeRecursive, UpgradeFirst, DropReader, WakeWaiters,
                SleepIn, NoSleep, MayUpgrade, Running, Recursive
  <2>7. ASSUME NEW p \in Proc, lock_try_read_to_write(p) PROVE SleepInv'
    BY <2>7 DEF lock_try_read_to_write, UpgradeRecursive, UpgradeFirst, DropReader, SleepIn,
                NoSleep, MayUpgrade, Running, Recursive
  <2>8. ASSUME NEW p \in Proc, UpgradeResume(p) PROVE SleepInv'
    BY <2>8 DEF UpgradeResume, SleepIn, NoSleep, Woken
  <2>9. ASSUME NEW p \in Proc, lock_try_write(p) PROVE SleepInv'
    BY <2>9 DEF lock_try_write, MayWrite, Running
  <2>10. ASSUME NEW p \in Proc, lock_try_read(p) PROVE SleepInv'
    BY <2>10 DEF lock_try_read, AddReader, MayRead, Running
  <2>11. ASSUME NEW p \in Proc, lock_done(p) PROVE SleepInv'
    BY <2>11 DEF lock_done, WakeWaiters, Running
  <2>12. ASSUME NEW p \in Proc, lock_write_to_read(p) PROVE SleepInv'
    BY <2>12 DEF lock_write_to_read, WakeWaiters, Running
  <2>13. ASSUME NEW p \in Proc, lock_set_recursive(p) PROVE SleepInv'
    BY <2>13 DEF lock_set_recursive, Running
  <2>14. ASSUME NEW p \in Proc, lock_clear_recursive(p) PROVE SleepInv'
    BY <2>14 DEF lock_clear_recursive, Running
  <2> QED
    BY <1>1, <2>1, <2>2, <2>3, <2>4, <2>5, <2>6, <2>7, <2>8, <2>9, <2>10, <2>11, <2>12, <2>13, <2>14
    DEF Next
<1>2. CASE UNCHANGED vars
  BY <1>2 DEF vars, lockVars, clientVars
<1> QED BY <1>1, <1>2

(* Both invariants together.                                               *)
THEOREM InductiveSleep == Spec => [](IInv /\ SleepInv)
<1>1. Init => SleepInv
  BY DEF Init, SleepInv, SleepsForAReason
<1> QED BY <1>1, Inductive, NextSleepInv, PTL DEF Spec

(* No sleep in kern_lock.c outlives its reason: no wakeup is lost.         *)
THEOREM NoLostWakeup == Spec => []SleepsForAReason
<1>1. SleepInv => SleepsForAReason
  BY DEF SleepInv
<1> QED BY <1>1, InductiveSleep, PTL

(* Processes never wait on the lock for each other alone.                  *)
THEOREM DeadlockFree == Spec => []NoDeadlock
<1>1. IInv /\ SleepInv => NoDeadlock
  <2> SUFFICES ASSUME IInv, SleepInv, NEW p \in asleep,
                      \A q \in Proc : ~(Held(q) > 0) /\ (pc[q] # "run" => q \in asleep)
               PROVE  FALSE
    BY DEF NoDeadlock
  <2>1. \A q \in Proc : reads[q] = 0 /\ excl[q] = "none"
    BY DEF IInv, TypeOK, Held
  <2>2. read_count = 0
    BY <2>1, ReadCountZero DEF IInv
  <2>3. ~want_upgrade
    <3> SUFFICES ASSUME want_upgrade PROVE FALSE
      OBVIOUS
    <3>1. PICK q \in Proc : OwnsUpgrade(q)
      BY DEF IInv, OneOwner
    <3>2. pc[q] = "upgrade" /\ q \in asleep
      BY <3>1, <2>1 DEF OwnsUpgrade
    <3> QED BY <3>2, <2>2 DEF SleepInv, SleepsForAReason
  <2>4. ~want_write
    <3> SUFFICES ASSUME want_write PROVE FALSE
      OBVIOUS
    <3>1. PICK q \in Proc : OwnsWrite(q)
      BY DEF IInv, OneOwner
    <3>2. pc[q] = "drain" /\ q \in asleep
      BY <3>1, <2>1 DEF OwnsWrite
    <3> QED BY <3>2, <2>2, <2>3 DEF SleepInv, SleepsForAReason
  <2>5. p \in Proc /\ pc[p] \in Loop
    BY DEF IInv, TypeOK, SleepInv
  <2> QED BY <2>2, <2>3, <2>4, <2>5 DEF Loop, SleepInv, SleepsForAReason
<1> QED BY <1>1, InductiveSleep, PTL
=============================================================================
