------------------------------- MODULE LockF -------------------------------
(***************************************************************************)
(* Advisory record locks: sys/kern/vfs_lockf.c, called by fcntl(),         *)
(* flock() and closef() of sys/kern/kern_descrip.c through VOP_ADVLOCK().  *)
(*                                                                         *)
(* One file.  The kernel is not preempted, so a call is one step up to its *)
(* tsleep(), and from its return up to the next one.  MALLOC(M_WAITOK) is  *)
(* taken not to sleep: lf_split() calls it with the list half examined.    *)
(***************************************************************************)
EXTENDS Integers, FiniteSets, Sequences, SequencesExt

CONSTANTS
  Posix,         \* processes that lock with fcntl() (F_POSIX)
  Flock,         \* open files that are locked with flock() (F_FLOCK)
  LastByte,      \* the last byte a range names, see End
  Asks,          \* Asks[o]: the locks owner o asks for
  maxlockdepth,  \* steps of the search for a deadlock
  MaxLocks       \* bound: with as many locks nobody asks for another

Owner == Posix \cup Flock

ASSUME OwnersDiffer == Posix \cap Flock = {} /\ IsFiniteSet(Owner)
ASSUME BoundsAreNat == {LastByte, maxlockdepth, MaxLocks} \subseteq Nat

EOF == -1   \* lf_end of a lock up to the end of the file, wherever that is
LockType == {"F_RDLCK", "F_WRLCK"}
Request ==
  {r \in [type : LockType, start : 0 .. LastByte, end : (0 .. LastByte) \cup {EOF}] :
     r.end = EOF \/ r.start <= r.end}
WholeFile == {r \in Request : r.start = 0 /\ r.end = EOF}

ASSUME AsksType ==
  /\ Asks \in [Owner -> SUBSET Request]
  /\ \A o \in Flock : Asks[o] \subseteq WholeFile

VARIABLES
  locks,    \* the list *head: lf_id, lf_type, lf_start, lf_end, and lf_block
            \* as the sequence of owners whose requests are on it
  request,  \* request[o]: the lock o is in lf_setlock() for
  status,   \* "run", or in tsleep(): "asleep", or "awake" but not yet running
  stale,    \* owners asleep whose lf_next points to a lockf that was freed
  lost      \* what came of an interrupted sleeper that did not leave the list
            \* it is on: "panic", or "freed"; "no" until then

vars == <<locks, request, status, stale, lost>>

NoRequest == [type |-> "F_UNLCK", start |-> 0, end |-> EOF]

Init ==
  /\ locks = <<>>
  /\ request = [o \in Owner |-> NoRequest]
  /\ status = [o \in Owner |-> "run"]
  /\ stale = {}
  /\ lost = "no"

-----------------------------------------------------------------------------
(* lf_findoverlap() and lf_getblock().  LastByte + 1 is any byte past the  *)
(* last one a finite range names.                                          *)

End(r) == IF r.end = EOF THEN LastByte + 1 ELSE r.end
Overlap(a, b) == a.start <= End(b) /\ b.start <= End(a)
Covers(a, b) == a.start <= b.start /\ End(b) <= End(a)
SameRange(a, b) == a.start = b.start /\ a.end = b.end

(* Faulty variant: only the requested type is looked at.                   *)
OnlyWritersAreBlocked(l, o) == o.id # l.id /\ Overlap(o, l) /\ l.type = "F_WRLCK"

Blocks(o, l) == o.id # l.id /\ Overlap(o, l) /\ "F_WRLCK" \in {o.type, l.type}
Mine(o, l) == o.id = l.id /\ Overlap(o, l)

(* The first of the places S in a list, or 0.                              *)
FirstOf(S) == IF S = {} THEN 0 ELSE Min(S)

(* The first lock of the list that is in the way of l, or 0.               *)
FirstBlock(list, l) == FirstOf({i \in DOMAIN list : Blocks(list[i], l)})

lf_getblock(l) == FirstBlock(locks, l)

-----------------------------------------------------------------------------
(* What is left of a lock o around l, as shortened in place or split off   *)
(* by lf_split(); waiters were woken.                                      *)

(* Faulty variants: the head reaches into l; a tail is split off even if   *)
(* nothing is left; lf_block is copied to the part split off.              *)
HeadTooLong(o, l) ==
  IF o.start < l.start THEN <<[o EXCEPT !.end = l.start, !.block = <<>>]>> ELSE <<>>
TailOfNothing(o, l) ==
  IF End(l) <= End(o) THEN <<[o EXCEPT !.start = l.end + 1, !.block = <<>>]>> ELSE <<>>
TailWithWaiters(o, l) == IF End(l) < End(o) THEN <<[o EXCEPT !.start = l.end + 1]>> ELSE <<>>

HeadOf(o, l) ==
  IF o.start < l.start THEN <<[o EXCEPT !.end = l.start - 1, !.block = <<>>]>> ELSE <<>>
TailOf(o, l) ==
  IF End(l) < End(o) THEN <<[o EXCEPT !.start = l.end + 1, !.block = <<>>]>> ELSE <<>>

Waiters(S) == UNION {ToSet(o.block) : o \in S}
MyOverlaps(l) == {o \in ToSet(locks) : Mine(o, l)}

(* lf_clearlock(): every overlap loses the part, and all its waiters.      *)
Cleared(l) ==
  FlattenSeq([i \in DOMAIN locks |->
    IF Mine(locks[i], l) THEN HeadOf(locks[i], l) \o TailOf(locks[i], l) ELSE <<locks[i]>>])

(* lf_wakelock() on the waiters W.                                         *)
lf_wakelock(W) ==
  /\ status' = [o \in Owner |-> IF o \in W THEN "awake" ELSE status[o]]
  /\ stale' = stale \ W

-----------------------------------------------------------------------------
(* lf_setlock() once nothing blocks l.                                     *)

(* Faulty variant: whoever waits for a lock that is replaced goes on       *)
(* waiting.                                                                *)
AlwaysHandedOver(o, l) == Covers(l, o)

(* Cases 1 and 3, unless it is a downgrade: who waited for o now waits for *)
(* the new lock.  In all other cases they are woken.                       *)
HandedOver(o, l) ==
  Covers(l, o) /\ ~(l.type = "F_RDLCK" /\ o.type = "F_WRLCK")

(* Case 2, and case 1 when nothing is new.                                 *)
HasAlready(o, l) == Covers(o, l) /\ o.type = l.type /\ (l.end # EOF \/ SameRange(o, l))

(* Case 0: before the first lock of the owner's that lies behind l, or     *)
(* last.                                                                   *)
Place(l) ==
  LET behind == FirstOf({i \in DOMAIN locks :
                           locks[i].id = l.id /\ l.end # EOF /\ locks[i].start > l.end})
  IN IF behind = 0 THEN Len(locks) + 1 ELSE behind

(* lf_block of the new lock: the list of each overlap goes in front.       *)
TakenOver(l) ==
  FlattenSeq(Reverse([i \in DOMAIN locks |->
    IF Mine(locks[i], l) /\ HandedOver(locks[i], l) THEN locks[i].block ELSE <<>>]))

Replaced(l) ==
  LET first == FirstOf({i \in DOMAIN locks : Mine(locks[i], l)})
      new   == <<[l EXCEPT !.block = TakenOver(l)]>>
  IN FlattenSeq([i \in DOMAIN locks |->
       IF ~Mine(locks[i], l) THEN <<locks[i]>>
       ELSE HeadOf(locks[i], l) \o (IF i = first THEN new ELSE <<>>) \o TailOf(locks[i], l)])

(* The waiters an overlap of another range hands over keep their lf_next,  *)
(* and the overlap is freed.                                               *)
Grant(l) ==
  LET O     == MyOverlaps(l)
      woken == Waiters({o \in O : ~HandedOver(o, l)})
      moved == Waiters({o \in O : HandedOver(o, l) /\ ~SameRange(o, l)})
  IN /\ request' = [request EXCEPT ![l.id] = NoRequest]
     /\ \/ /\ O = {}
           /\ locks' = InsertAt(locks, Place(l), l)
           /\ status' = [status EXCEPT ![l.id] = "run"]
           /\ UNCHANGED stale
        \/ /\ \E o \in O : HasAlready(o, l)
           /\ status' = [status EXCEPT ![l.id] = "run"]
           /\ UNCHANGED <<locks, stale>>
        \/ /\ O # {} /\ \A o \in O : ~HasAlready(o, l)
           /\ locks' = Replaced(l)
           /\ status' = [o \in Owner |-> IF o \in woken THEN "awake"
                                         ELSE IF o = l.id THEN "run" ELSE status[o]]
           /\ stale' = (stale \ woken) \cup moved
  /\ UNCHANGED lost

-----------------------------------------------------------------------------
(* The search for a deadlock.                                              *)

(* The owner of the lock on whose list q is.                               *)
Blocker(q) == (CHOOSE o \in ToSet(locks) : q \in ToSet(o.block)).id

(* Faulty variant: one step too few.                                       *)
ShortSearch(p, b) ==
  LET found[n \in 0 .. maxlockdepth] ==
        [q \in Owner |->
           IF n <= 1 \/ status[q] # "asleep" THEN "no"
           ELSE IF q \in stale THEN "unknown"
           ELSE IF Blocker(q) \in Flock THEN "no"
           ELSE IF Blocker(q) = p THEN "yes"
           ELSE found[n - 1][Blocker(q)]]
  IN IF {p, b} \subseteq Posix THEN found[maxlockdepth][b] ELSE "no"

(* Does waiting for b's lock close a circle through p?  The lf_flags and   *)
(* lf_id read through a stale lf_next may be anything.                     *)
Circle(p, b) ==
  LET found[n \in 0 .. maxlockdepth] ==
        [q \in Owner |->
           IF n = 0 \/ status[q] # "asleep" THEN "no"
           ELSE IF q \in stale THEN "unknown"
           ELSE IF Blocker(q) \in Flock THEN "no"
           ELSE IF Blocker(q) = p THEN "yes"
           ELSE found[n - 1][Blocker(q)]]
  IN IF {p, b} \subseteq Posix THEN found[maxlockdepth][b] ELSE "no"

(* Without the lock: EDEADLK, or a signal that ended the sleep.            *)
GiveUp(o) ==
  /\ request' = [request EXCEPT ![o] = NoRequest]
  /\ status' = [status EXCEPT ![o] = "run"]

(* Faulty variant: a shared flock is kept while waiting for an exclusive   *)
(* one.                                                                    *)
NothingGivenUp(l) == FALSE

(* A flock gives up the shared lock before it waits for an exclusive one.  *)
GivesUpShared(l) == l.id \in Flock /\ l.type = "F_WRLCK"

RequestOf(l) == [type |-> l.type, start |-> l.start, end |-> l.end]

(* lf_addblock() to the lock of the first one in the way.                  *)
Enqueue(list, l) == [list EXCEPT ![FirstBlock(list, l)].block = Append(@, l.id)]

Block(l) ==
  LET woken == IF GivesUpShared(l) THEN Waiters(MyOverlaps(l)) ELSE {}
  IN /\ locks' = Enqueue(IF GivesUpShared(l) THEN Cleared(l) ELSE locks, l)
     /\ request' = [request EXCEPT ![l.id] = RequestOf(l)]
     /\ status' = [o \in Owner |-> IF o = l.id THEN "asleep"
                                   ELSE IF o \in woken THEN "awake" ELSE status[o]]
     /\ stale' = stale \ woken
     /\ UNCHANGED lost

(* One round of the loop of lf_setlock() with F_WAIT.                      *)
Scan(l) ==
  LET b == lf_getblock(l)
  IN \/ b = 0 /\ Grant(l)
     \/ /\ b # 0 /\ Circle(l.id, locks[b].id) # "no"
        /\ GiveUp(l.id)
        /\ UNCHANGED <<locks, stale, lost>>
     \/ /\ b # 0 /\ Circle(l.id, locks[b].id) # "yes"
        /\ Block(l)

-----------------------------------------------------------------------------
Lockf(o, r) ==
  [id |-> o, type |-> r.type, start |-> r.start, end |-> r.end, block |-> <<>>]

(* F_SETLKW, or flock() without LOCK_NB.                                   *)
SetLockWait(o, r) ==
  /\ status[o] = "run" /\ Len(locks) < MaxLocks
  /\ Scan(Lockf(o, r))

(* F_SETLK, or flock() with LOCK_NB; otherwise EAGAIN.                     *)
SetLock(o, r) ==
  /\ status[o] = "run" /\ Len(locks) < MaxLocks
  /\ lf_getblock(Lockf(o, r)) = 0
  /\ Grant(Lockf(o, r))

(* F_UNLCK, LOCK_UN, and closef(), which unlocks the whole file.           *)
Unlock(o, r) ==
  LET l == [Lockf(o, r) EXCEPT !.type = "F_UNLCK"]
  IN /\ status[o] = "run"
     /\ MyOverlaps(l) # {}
     /\ locks' = Cleared(l)
     /\ lf_wakelock(Waiters(MyOverlaps(l)))
     /\ UNCHANGED <<request, lost>>

(* tsleep() returned 0.                                                    *)
Resume(o) ==
  /\ status[o] = "awake"
  /\ Scan(Lockf(o, request[o]))

(* Faulty variant: a sleeper whose lf_next is good stays on the list, too. *)
NobodyRemoved(o) == locks

OffList(list, o) ==
  LET n == FirstOf({i \in DOMAIN list : list[i] = o})
  IN IF n = 0 THEN list ELSE RemoveAt(list, n)

Without(o) ==
  [i \in DOMAIN locks |-> [locks[i] EXCEPT !.block = OffList(@, o)]]

(* tsleep() returned an error.  A process that was woken is on no list any *)
(* more; others search from lf_next, the lock that is in their way.  If it *)
(* is stale they search from freed memory, whose lf_block nobody cleared   *)
(* and anybody may have overwritten since.  Then they reach the request    *)
(* before theirs and leave the list, or do not find theirs and panic, or   *)
(* find it in the freed memory and unlink it there only: the request is    *)
(* freed, and the list still leads through it.  As long as the memory was  *)
(* not used again, that is what happens to the first of those handed over. *)
Interrupted(o) ==
  /\ status[o] # "run"
  /\ GiveUp(o)
  /\ \/ locks' = Without(o) /\ UNCHANGED lost
     \/ o \in stale /\ lost' \in {"panic", "freed"} /\ UNCHANGED locks
  /\ stale' = stale \ {o}

-----------------------------------------------------------------------------
(* After a panic, and after a use of freed memory as a request, nothing    *)
(* more is said.                                                           *)
Next ==
  /\ lost = "no"
  /\ \E o \in Owner :
       \/ \E r \in Asks[o] : SetLockWait(o, r) \/ SetLock(o, r)
       \/ \E r \in Asks[o] \cup WholeFile : Unlock(o, r)
       \/ Resume(o)
       \/ Interrupted(o)

Spec == Init /\ [][Next]_vars

-----------------------------------------------------------------------------
Lock ==
  {o \in [id : Owner, type : LockType, start : 0 .. LastByte + 1,
          end : (0 .. LastByte) \cup {EOF}, block : Seq(Owner)] :
     o.end = EOF \/ o.start <= o.end}

TypeOK ==
  /\ locks \in Seq(Lock)
  /\ request \in [Owner -> Request \cup {NoRequest}]
  /\ status \in [Owner -> {"run", "asleep", "awake"}]
  /\ stale \subseteq Owner
  /\ lost \in {"no", "panic", "freed"}

(* The locks of one owner are in order of their first bytes and do not     *)
(* overlap: lf_findoverlap() stops, and lf_setlock() and lf_clearlock()    *)
(* leave their loops, relying on it.                                       *)
OwnLocksInOrder ==
  \A i, j \in DOMAIN locks :
    i < j /\ locks[i].id = locks[j].id => End(locks[i]) < locks[j].start

(* Nobody sleeps without a reason and nobody is forgotten: whoever sleeps  *)
(* is on the list of exactly one lock, one that still stands in its way,   *)
(* however locks were split, replaced, shortened or changed since, and     *)
(* nobody else is on a list; until somebody with a stale lf_next is        *)
(* interrupted and does not leave his.                                     *)
SleepsForAReason ==
  lost = "no" =>
    /\ IsInjective(FlattenSeq([i \in DOMAIN locks |-> locks[i].block]))
    /\ Waiters(ToSet(locks)) = {o \in Owner : status[o] = "asleep"}
    /\ \A i \in DOMAIN locks : \A o \in ToSet(locks[i].block) :
         Blocks(locks[i], Lockf(o, request[o]))

(* "For byte-range locks we must check for deadlock", and "since flock     *)
(* style locks cover the whole file, there is no chance for deadlock"      *)
(* (vfs_lockf.c): no circle of at most maxlockdepth + 1 sleepers, of both  *)
(* kinds, unless the way around it leads through a stale lf_next.          *)
DeadlocksAreFound ==
  lost = "no" =>
    \A S \in SUBSET {o \in Owner : status[o] = "asleep" /\ o \notin stale} :
      S # {} /\ Cardinality(S) <= maxlockdepth + 1 => \E o \in S : Blocker(o) \notin S

(* "Delete ourselves from the waiting to lock list", and "If we did not    *)
(* find ourselves on the list, but are still linked onto a lock list, then *)
(* something is very wrong" (vfs_lockf.c): whoever gives up its wait finds *)
(* itself, and is on no list afterwards.                                   *)
NeverLost ==
  /\ lost # "panic"
  /\ Waiters(ToSet(locks)) \subseteq {o \in Owner : status[o] = "asleep"}

(* The locks that are granted implement ByteLocks: no two owners ever      *)
(* conflict on a byte, and a call changes its own bytes only.              *)
LocksHeld ==
  [o \in Owner |->
     LET own == {l \in ToSet(locks) : l.id = o}
     IN [b \in 0 .. LastByte + 1 |->
           LET there == {l \in own : b \in l.start .. End(l)}
           IN IF there = {} THEN "F_UNLCK" ELSE (CHOOSE l \in there : TRUE).type]]

Bytes == INSTANCE ByteLocks WITH held <- LocksHeld

KeepsPromise == Bytes!Spec
=============================================================================
