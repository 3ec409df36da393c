------------------------------ MODULE KernLock ------------------------------
(***************************************************************************)
(* The multiple-reader / single-writer sleep lock of sys/vm/kern_lock.c,   *)
(* as built for one processor: simple_lock() is empty, lock_wait_time is 0 *)
(* and every lock is initialised with can_sleep = TRUE (vm_map.c), so a    *)
(* routine runs without interruption from its entry, or from the return of *)
(* thread_sleep(), to its next thread_sleep() or its return.  Each such    *)
(* segment is one action here.                                             *)
(*                                                                         *)
(* The variables in lockVars are the fields of struct lock.  The variables *)
(* in clientVars are what each process believes it holds, kept apart from  *)
(* the lock's own counts because lock_done() never asks who is calling.    *)
(***************************************************************************)
EXTENDS Naturals, FiniteSets

CONSTANTS
  Proc,              \* processes sharing the lock (one vm_map, in practice)
  NoThread,          \* the value (char *)-1 of l->thread
  MaxReads,          \* bound on read locks one process nests
  MaxDepth,          \* bound on write locks one process nests
  AnyWriterRecurses  \* may a holder by upgrade call lock_set_recursive()?

ASSUME ProcFinite == IsFiniteSet(Proc)
ASSUME NoThreadIsNoProc == NoThread \notin Proc
ASSUME BoundsAreNat == MaxReads \in Nat \ {0} /\ MaxDepth \in Nat
ASSUME AnyWriterRecursesBool == AnyWriterRecurses \in BOOLEAN

VARIABLES
  want_write, want_upgrade, waiting, read_count, thread, recursion_depth,
  pc,       \* "run", or the loop of kern_lock.c the process waits in
  asleep,   \* processes inside thread_sleep() on this lock
  reads,    \* read locks each process holds
  excl,     \* how each process came to hold the lock for write, if it does
  nest,     \* recursive write locks each process holds
  panicked  \* lock_set_recursive() called panic()

lockVars == <<want_write, want_upgrade, waiting, read_count, thread, recursion_depth>>
clientVars == <<reads, excl, nest>>
vars == <<lockVars, pc, asleep, clientVars, panicked>>

Loop == {"write", "drain", "read", "upgrade"}

Init ==
  /\ want_write = FALSE /\ want_upgrade = FALSE /\ waiting = FALSE
  /\ read_count = 0 /\ thread = NoThread /\ recursion_depth = 0
  /\ pc = [p \in Proc |-> "run"]
  /\ asleep = {}
  /\ reads = [p \in Proc |-> 0]
  /\ excl = [p \in Proc |-> "none"]
  /\ nest = [p \in Proc |-> 0]
  /\ panicked = FALSE

-----------------------------------------------------------------------------
(* What a process may ask for.  The kernel's callers are in vm_map.c.      *)

Held(p) == reads[p] + nest[p] + (IF excl[p] = "none" THEN 0 ELSE 1)
Recursive(p) == thread = p
Running(p) == pc[p] = "run" /\ ~panicked

(* Outside a recursive section a process takes the lock only when it holds *)
(* none of it.  Inside one it nests reads, and, while it still holds the   *)
(* lock for write, writes: vm_map_pageable() downgrades and then, "because *)
(* of problems in the recursive lock package", never asks for write again. *)
MayRead(p) == Running(p) /\ (Held(p) = 0 \/ Recursive(p)) /\ reads[p] < MaxReads
MayWrite(p) ==
  /\ Running(p)
  /\ \/ Held(p) = 0
     \/ Recursive(p) /\ excl[p] # "none" /\ reads[p] = 0 /\ nest[p] < MaxDepth
MayUpgrade(p) ==
  /\ Running(p)
  /\ \/ ~Recursive(p) /\ reads[p] = 1 /\ excl[p] = "none"
     \/ Recursive(p) /\ excl[p] # "none" /\ reads[p] > 0 /\ nest[p] < MaxDepth

-----------------------------------------------------------------------------
(* thread_sleep() and thread_wakeup() on the lock's address (vm_glue.c).   *)

(* Faulty variant: forgets l->waiting.                                     *)
SleepInUnannounced(p, loop) ==
  /\ UNCHANGED waiting
  /\ asleep' = asleep \cup {p}
  /\ pc' = [pc EXCEPT ![p] = loop]

SleepIn(p, loop) ==
  /\ waiting' = TRUE
  /\ asleep' = asleep \cup {p}
  /\ pc' = [pc EXCEPT ![p] = loop]

(* Faulty variant: does not reach the sleepers of lock_write()'s first     *)
(* loop.                                                                   *)
WakeAllButFirstLoop ==
  /\ waiting' = FALSE
  /\ asleep' = IF waiting THEN {p \in asleep : pc[p] = "write"} ELSE asleep

WakeWaiters ==
  /\ waiting' = FALSE
  /\ asleep' = IF waiting THEN {} ELSE asleep

NoSleep(p) ==
  /\ pc' = [pc EXCEPT ![p] = "run"]
  /\ UNCHANGED <<waiting, asleep>>

Woken(p, loop) == pc[p] = loop /\ p \notin asleep /\ ~panicked

-----------------------------------------------------------------------------
(* lock_write(), and what follows each of its two sleeps.                  *)

(* Second loop: want_write is ours, wait for readers and upgrades.         *)
DrainReaders(p) ==
  \/ /\ read_count = 0 /\ ~want_upgrade
     /\ excl' = [excl EXCEPT ![p] = "write"]
     /\ NoSleep(p)
  \/ /\ read_count # 0 \/ want_upgrade
     /\ SleepIn(p, "drain")
     /\ UNCHANGED excl

(* First loop: get the want_write bit.                                     *)
GetWantWrite(p) ==
  \/ want_write /\ SleepIn(p, "write") /\ UNCHANGED <<want_write, excl>>
  \/ ~want_write /\ want_write' = TRUE /\ DrainReaders(p)

lock_write(p) ==
  /\ MayWrite(p)
  /\ \/ /\ Recursive(p)
        /\ recursion_depth' = recursion_depth + 1
        /\ nest' = [nest EXCEPT ![p] = @ + 1]
        /\ UNCHANGED <<want_write, waiting, pc, asleep, excl>>
     \/ /\ ~Recursive(p)
        /\ GetWantWrite(p)
        /\ UNCHANGED <<recursion_depth, nest>>
  /\ UNCHANGED <<want_upgrade, read_count, thread, reads, panicked>>

WriteResume(p) ==
  /\ Woken(p, "write")
  /\ GetWantWrite(p)
  /\ UNCHANGED <<want_upgrade, read_count, thread, recursion_depth, reads, nest, panicked>>

DrainResume(p) ==
  /\ Woken(p, "drain")
  /\ DrainReaders(p)
  /\ UNCHANGED <<want_write, want_upgrade, read_count, thread, recursion_depth,
                 reads, nest, panicked>>

-----------------------------------------------------------------------------
(* lock_read(), and what follows its sleep.                                *)

AddReader(p) ==
  /\ read_count' = read_count + 1
  /\ reads' = [reads EXCEPT ![p] = @ + 1]

(* Faulty variant: does not test l->want_upgrade.                          *)
GetReadPastUpgrade(p) ==
  \/ want_write /\ SleepIn(p, "read") /\ UNCHANGED <<read_count, reads>>
  \/ ~want_write /\ AddReader(p) /\ NoSleep(p)

GetRead(p) ==
  \/ (want_write \/ want_upgrade) /\ SleepIn(p, "read") /\ UNCHANGED <<read_count, reads>>
  \/ ~want_write /\ ~want_upgrade /\ AddReader(p) /\ NoSleep(p)

lock_read(p) ==
  /\ MayRead(p)
  /\ \/ Recursive(p) /\ AddReader(p) /\ NoSleep(p)
     \/ ~Recursive(p) /\ GetRead(p)
  /\ UNCHANGED <<want_write, want_upgrade, thread, recursion_depth, excl, nest, panicked>>

ReadResume(p) ==
  /\ Woken(p, "read")
  /\ GetRead(p)
  /\ UNCHANGED <<want_write, want_upgrade, thread, recursion_depth, excl, nest, panicked>>

-----------------------------------------------------------------------------
(* lock_read_to_write() and lock_try_read_to_write().                      *)

DropReader(p) ==
  /\ read_count' = read_count - 1
  /\ reads' = [reads EXCEPT ![p] = @ - 1]

UpgradeRecursive(p) ==
  /\ Recursive(p)
  /\ DropReader(p)
  /\ recursion_depth' = recursion_depth + 1
  /\ nest' = [nest EXCEPT ![p] = @ + 1]
  /\ NoSleep(p)
  /\ UNCHANGED <<want_upgrade, excl>>

(* Give up the read lock, set want_upgrade, wait for the other readers.    *)
UpgradeFirst(p) ==
  /\ ~Recursive(p) /\ ~want_upgrade
  /\ want_upgrade' = TRUE
  /\ DropReader(p)
  /\ \/ read_count' = 0 /\ excl' = [excl EXCEPT ![p] = "upgrade"] /\ NoSleep(p)
     \/ read_count' # 0 /\ SleepIn(p, "upgrade") /\ UNCHANGED excl
  /\ UNCHANGED <<recursion_depth, nest>>

lock_read_to_write(p) ==
  /\ MayUpgrade(p)
  /\ \/ UpgradeRecursive(p)
     \/ UpgradeFirst(p)
     \/ /\ ~Recursive(p) /\ want_upgrade   \* the loser keeps no lock
        /\ DropReader(p)
        /\ WakeWaiters
        /\ UNCHANGED <<want_upgrade, recursion_depth, pc, excl, nest>>
  /\ UNCHANGED <<want_write, thread, panicked>>

lock_try_read_to_write(p) ==
  /\ MayUpgrade(p)
  /\ UpgradeRecursive(p) \/ UpgradeFirst(p)   \* the loser keeps its read lock
  /\ UNCHANGED <<want_write, thread, panicked>>

UpgradeResume(p) ==
  /\ Woken(p, "upgrade")
  /\ \/ read_count = 0 /\ excl' = [excl EXCEPT ![p] = "upgrade"] /\ NoSleep(p)
     \/ read_count # 0 /\ SleepIn(p, "upgrade") /\ UNCHANGED excl
  /\ UNCHANGED <<want_write, want_upgrade, read_count, thread, recursion_depth,
                 reads, nest, panicked>>

-----------------------------------------------------------------------------
(* lock_try_write() and lock_try_read(): a failing call changes nothing.   *)

lock_try_write(p) ==
  /\ MayWrite(p)
  /\ \/ /\ Recursive(p)
        /\ recursion_depth' = recursion_depth + 1
        /\ nest' = [nest EXCEPT ![p] = @ + 1]
        /\ UNCHANGED <<want_write, excl>>
     \/ /\ ~Recursive(p)
        /\ ~want_write /\ ~want_upgrade /\ read_count = 0
        /\ want_write' = TRUE
        /\ excl' = [excl EXCEPT ![p] = "write"]
        /\ UNCHANGED <<recursion_depth, nest>>
  /\ UNCHANGED <<want_upgrade, waiting, read_count, thread, pc, asleep, reads, panicked>>

lock_try_read(p) ==
  /\ MayRead(p)
  /\ Recursive(p) \/ (~want_write /\ ~want_upgrade)
  /\ AddReader(p)
  /\ UNCHANGED <<want_write, want_upgrade, waiting, thread, recursion_depth,
                 pc, asleep, excl, nest, panicked>>

-----------------------------------------------------------------------------
(* lock_done() and lock_write_to_read().                                   *)

(* Faulty variants: l->want_write tested before l->want_upgrade; recursion *)
(* taken from l->thread instead of l->recursion_depth.                     *)
DropExclusiveWriteFirst ==
  IF recursion_depth # 0
  THEN recursion_depth' = recursion_depth - 1 /\ UNCHANGED <<want_write, want_upgrade>>
  ELSE /\ UNCHANGED recursion_depth
       /\ IF want_write
          THEN want_write' = FALSE /\ UNCHANGED want_upgrade
          ELSE want_upgrade' = FALSE /\ UNCHANGED want_write

DropExclusiveByThread ==
  IF thread # NoThread
  THEN recursion_depth' = recursion_depth - 1 /\ UNCHANGED <<want_write, want_upgrade>>
  ELSE /\ UNCHANGED recursion_depth
       /\ IF want_upgrade
          THEN want_upgrade' = FALSE /\ UNCHANGED want_write
          ELSE want_write' = FALSE /\ UNCHANGED want_upgrade

(* lock_done() after the read_count test, and lock_write_to_read(): undo   *)
(* the innermost exclusive hold, guessing which from the lock's own        *)
(* fields.                                                                 *)
DropExclusive ==
  IF recursion_depth # 0
  THEN recursion_depth' = recursion_depth - 1 /\ UNCHANGED <<want_write, want_upgrade>>
  ELSE /\ UNCHANGED recursion_depth
       /\ IF want_upgrade
          THEN want_upgrade' = FALSE /\ UNCHANGED want_write
          ELSE want_write' = FALSE /\ UNCHANGED want_upgrade

(* What the caller thinks it gave up: its reads nest inside its writes.    *)
ForgetWrite(p) ==
  IF nest[p] > 0
  THEN nest' = [nest EXCEPT ![p] = @ - 1] /\ UNCHANGED excl
  ELSE excl' = [excl EXCEPT ![p] = "none"] /\ UNCHANGED nest

lock_done(p) ==
  /\ Running(p)
  /\ Held(p) > 0
  /\ Held(p) = 1 => ~Recursive(p)  \* vm_map.c clears recursion before it unlocks
  /\ IF read_count # 0
     THEN read_count' = read_count - 1 /\ UNCHANGED <<want_write, want_upgrade, recursion_depth>>
     ELSE DropExclusive /\ UNCHANGED read_count
  /\ IF reads[p] > 0
     THEN reads' = [reads EXCEPT ![p] = @ - 1] /\ UNCHANGED <<excl, nest>>
     ELSE ForgetWrite(p) /\ UNCHANGED reads
  /\ WakeWaiters
  /\ UNCHANGED <<thread, pc, panicked>>

lock_write_to_read(p) ==
  /\ Running(p)
  /\ excl[p] # "none" /\ reads[p] < MaxReads
  /\ AddReader(p)
  /\ DropExclusive
  /\ ForgetWrite(p)
  /\ WakeWaiters
  /\ UNCHANGED <<thread, pc, panicked>>

-----------------------------------------------------------------------------
(* lock_set_recursive() and lock_clear_recursive().                        *)

lock_set_recursive(p) ==
  /\ Running(p)
  /\ ~Recursive(p)
  /\ excl[p] = "write" \/ (AnyWriterRecurses /\ excl[p] = "upgrade")
  /\ \/ ~want_write /\ panicked' = TRUE /\ UNCHANGED thread
     \/ want_write /\ thread' = p /\ UNCHANGED panicked
  /\ UNCHANGED <<want_write, want_upgrade, waiting, read_count, recursion_depth,
                 pc, asleep, clientVars>>

(* Faulty variant: does not test l->recursion_depth.                       *)
ClearRecursiveAlways(p) ==
  /\ Running(p)
  /\ Recursive(p)
  /\ thread' = NoThread
  /\ UNCHANGED <<want_write, want_upgrade, waiting, read_count, recursion_depth,
                 pc, asleep, clientVars, panicked>>

lock_clear_recursive(p) ==
  /\ Running(p)
  /\ Recursive(p)
  /\ thread' = IF recursion_depth = 0 THEN NoThread ELSE thread
  /\ UNCHANGED <<want_write, want_upgrade, waiting, read_count, recursion_depth,
                 pc, asleep, clientVars, panicked>>

-----------------------------------------------------------------------------
Resume(p) == WriteResume(p) \/ DrainResume(p) \/ ReadResume(p) \/ UpgradeResume(p)

Next ==
  \E p \in Proc :
    \/ lock_write(p) \/ WriteResume(p) \/ DrainResume(p)
    \/ lock_read(p) \/ ReadResume(p)
    \/ lock_read_to_write(p) \/ lock_try_read_to_write(p) \/ UpgradeResume(p)
    \/ lock_try_write(p) \/ lock_try_read(p)
    \/ lock_done(p) \/ lock_write_to_read(p)
    \/ lock_set_recursive(p) \/ lock_clear_recursive(p)

Spec == Init /\ [][Next]_vars

(* A process that was made runnable is eventually run (cpu_switch() takes  *)
(* it from the run queue), and one that can drop its last hold on the lock *)
(* again and again eventually does: no caller in vm_map.c keeps a map      *)
(* locked for ever.                                                        *)
Fairness ==
  \A p \in Proc :
    /\ WF_vars(Resume(p))
    /\ WF_vars(lock_done(p))
    /\ SF_vars(lock_done(p) /\ Held(p) = 1)
    /\ SF_vars(lock_clear_recursive(p))

FairSpec == Spec /\ Fairness

-----------------------------------------------------------------------------
TypeOK ==
  /\ want_write \in BOOLEAN /\ want_upgrade \in BOOLEAN /\ waiting \in BOOLEAN
  /\ read_count \in Nat
  /\ thread \in Proc \cup {NoThread}
  /\ recursion_depth \in Nat
  /\ pc \in [Proc -> {"run"} \cup Loop]
  /\ asleep \subseteq Proc
  /\ reads \in [Proc -> Nat]
  /\ excl \in [Proc -> {"none", "write", "upgrade"}]
  /\ nest \in [Proc -> Nat]
  /\ panicked \in BOOLEAN

(* A process that holds the lock for write, by lock_write() or by an       *)
(* upgrade, excludes every other writer and every reader (the purpose of   *)
(* want_write, want_upgrade and read_count in kern_lock.c).                *)
MutualExclusion ==
  \A p, q \in Proc :
    p # q /\ excl[p] # "none" => excl[q] = "none" /\ reads[q] = 0

(* One token for every read lock held, r giving each process's number.     *)
ReadTokens(r) == {t \in Proc \X (1..MaxReads) : t[2] <= r[t[1]]}

(* lock_done() decides from the lock's counts alone what to release; they  *)
(* must agree with what the processes believe they hold, so that it never  *)
(* releases somebody else's hold.                                          *)
CountsAgree ==
  /\ read_count = Cardinality(ReadTokens(reads))
  /\ \A p \in Proc : nest[p] = IF thread = p THEN recursion_depth ELSE 0

(* No wakeup is lost: whoever sleeps in one of kern_lock.c's loops does so *)
(* with that loop's condition still true and with l->waiting set, so that  *)
(* the next lock_done() wakes it.                                          *)
SleepsForAReason ==
  \A p \in asleep :
    /\ waiting
    /\ pc[p] = "write" => want_write
    /\ pc[p] = "drain" => want_write /\ (read_count # 0 \/ want_upgrade)
    /\ pc[p] = "read" => want_write \/ want_upgrade
    /\ pc[p] = "upgrade" => want_upgrade /\ read_count # 0

(* Nobody waits on a lock that is free: when a process sleeps, some other  *)
(* process holds the lock or has been made runnable to take it.  This is   *)
(* freedom from deadlock among lock_write(), lock_read() and upgrades.     *)
NoDeadlock ==
  asleep # {} => \E p \in Proc : Held(p) > 0 \/ (pc[p] # "run" /\ p \notin asleep)

(* A process asleep in a loop of kern_lock.c is eventually made runnable.  *)
SleepersWake == \A p \in Proc : p \in asleep ~> p \notin asleep
=============================================================================
