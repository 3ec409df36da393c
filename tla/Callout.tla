------------------------------ MODULE Callout ------------------------------
(***************************************************************************)
(* The callout queue of sys/kern/kern_clock.c: a list of timers, each with *)
(* the ticks between it and the one before it, taken from a fixed table.   *)
(* timeout() and untimeout() work on it at splhigh(), hardclock() counts   *)
(* it down on every tick, and softclock() runs what is due, dropping to a  *)
(* lower level around each call, when anything else may happen.            *)
(***************************************************************************)
EXTENDS Integers, Sequences, SequencesExt, FiniteSets

CONSTANTS
  Key,         \* pairs of c_func and c_arg
  ncallout,    \* size of the callout table
  MaxTicks,    \* bound on the ticks argument of timeout()
  MaxOverdue   \* bound on the ticks softclock() may be late

ASSUME BoundsAreNat == ncallout \in Nat \ {0} /\ MaxTicks \in Nat \ {0} /\ MaxOverdue \in Nat

VARIABLES
  calltodo,   \* the queue, a sequence of table entries
  callfree,   \* the free entries, a stack
  c_time,     \* of each entry: ticks after the one before it, or overdue
  c_key,      \* of each entry: c_func and c_arg
  softpend,   \* a soft clock interrupt is pending
  insoft,     \* softclock() is between two entries
  panicked    \* panic("timeout table full")

vars == <<calltodo, callfree, c_time, c_key, softpend, insoft, panicked>>

Entry == 1..ncallout

Init ==
  /\ calltodo = <<>>
  /\ callfree = [i \in Entry |-> i]
  /\ c_time = [e \in Entry |-> 0]
  /\ c_key \in [Entry -> Key] /\ \A e, f \in Entry : c_key[e] = c_key[f]
  /\ softpend = FALSE /\ insoft = FALSE /\ panicked = FALSE

-----------------------------------------------------------------------------
Positive(n) == IF n > 0 THEN n ELSE 0

(* The ticks that the entries E count, one by one: none that are negative. *)
Ticks(E) == UNION {{e} \X (1..c_time[e]) : e \in E}

(* Those counted by the first i entries: what the walk in timeout() has    *)
(* subtracted when it has passed them.                                     *)
Passed(i) == Cardinality(Ticks({calltodo[j] : j \in 1..i}))

(* The walk stops before the first entry with ticks <= t->c_time.          *)
Place(n, i) ==
  /\ i <= Len(calltodo) => n - Passed(i - 1) <= c_time[calltodo[i]]
  /\ \A j \in 1..(i - 1) : n - Passed(j - 1) > c_time[calltodo[j]]

(* Faulty variant: the entry after the new one keeps its ticks.            *)
InsertUncorrected(k, i, n) ==
  LET new == Head(callfree)
  IN /\ callfree' = Tail(callfree)
     /\ calltodo' = InsertAt(calltodo, i, new)
     /\ c_key' = [c_key EXCEPT ![new] = k]
     /\ c_time' = [c_time EXCEPT ![new] = n]

(* Put the first free entry before the i-th, n ticks after the (i-1)-th.   *)
Insert(k, i, n) ==
  LET new == Head(callfree)
  IN /\ callfree' = Tail(callfree)
     /\ calltodo' = InsertAt(calltodo, i, new)
     /\ c_key' = [c_key EXCEPT ![new] = k]
     /\ c_time' = [e \in Entry |->
          IF e = new THEN n
          ELSE IF i <= Len(calltodo) /\ e = calltodo[i] THEN c_time[e] - n ELSE c_time[e]]

AtLeastOne(ticks) == IF ticks <= 0 THEN 1 ELSE ticks

timeout(k, ticks) ==
  /\ ~panicked
  /\ \/ /\ callfree = <<>> /\ panicked' = TRUE
        /\ UNCHANGED <<calltodo, callfree, c_time, c_key>>
     \/ /\ callfree # <<>>
        /\ LET n == AtLeastOne(ticks)
           IN \E i \in 1..(Len(calltodo) + 1) : Place(n, i) /\ Insert(k, i, n - Passed(i - 1))
        /\ UNCHANGED panicked
  /\ UNCHANGED <<softpend, insoft>>

(* Faulty variants: a cancelled entry is not given back; its ticks are     *)
(* passed on even when it is overdue.                                      *)
NotGivenBack(e) == callfree
HandedOnOverdue(e) == c_time[e]

GivenBack(e) == <<e>> \o callfree
HandedOn(e) == Positive(c_time[e])

(* The first entry with this key goes, and its ticks to the one after it.  *)
untimeout(k) ==
  /\ ~panicked
  /\ \/ /\ \A i \in DOMAIN calltodo : c_key[calltodo[i]] # k
        /\ UNCHANGED <<calltodo, callfree, c_time>>
     \/ \E i \in DOMAIN calltodo :
          /\ c_key[calltodo[i]] = k /\ \A j \in 1..(i - 1) : c_key[calltodo[j]] # k
          /\ calltodo' = RemoveAt(calltodo, i)
          /\ callfree' = GivenBack(calltodo[i])
          /\ c_time' = IF i < Len(calltodo)
                       THEN [c_time EXCEPT ![calltodo[i + 1]] = @ + HandedOn(calltodo[i])]
                       ELSE c_time
  /\ UNCHANGED <<c_key, softpend, insoft, panicked>>

-----------------------------------------------------------------------------
Due(e) == c_time[e] <= 0

(* The loop counts down every overdue entry and the first that is not.     *)
CountedDown ==
  {calltodo[i] : i \in {j \in DOMAIN calltodo : \A h \in 1..(j - 1) : Due(calltodo[h])}}

(* Faulty variant: the soft interrupt is asked for only when an entry is   *)
(* overdue.                                                                *)
NeedsSoftLate(e) == c_time[e] - 1 < 0

NeedsSoft(e) == c_time[e] - 1 <= 0

hardclock ==
  /\ ~panicked
  /\ calltodo # <<>> => c_time[calltodo[1]] > -MaxOverdue
  /\ c_time' = [e \in Entry |-> IF e \in CountedDown THEN c_time[e] - 1 ELSE c_time[e]]
  /\ softpend' = (softpend \/ \E e \in CountedDown : NeedsSoft(e))
  /\ UNCHANGED <<calltodo, callfree, c_key, insoft, panicked>>

(* The soft clock interrupt: from here to SoftclockReturns is one call.    *)
softclock ==
  /\ ~panicked /\ softpend /\ ~insoft
  /\ softpend' = FALSE /\ insoft' = TRUE
  /\ UNCHANGED <<calltodo, callfree, c_time, c_key, panicked>>

(* One turn of the loop; the call of c_func itself is whatever comes next. *)
SoftclockRuns ==
  /\ ~panicked /\ insoft
  /\ calltodo # <<>> /\ Due(Head(calltodo))
  /\ calltodo' = Tail(calltodo)
  /\ callfree' = <<Head(calltodo)>> \o callfree
  /\ UNCHANGED <<c_time, c_key, softpend, insoft, panicked>>

(* Faulty variant: one entry is run for each soft interrupt.               *)
SoftclockReturnsAfterOne ==
  /\ ~panicked /\ insoft
  /\ insoft' = FALSE
  /\ UNCHANGED <<calltodo, callfree, c_time, c_key, softpend, panicked>>

SoftclockReturns ==
  /\ ~panicked /\ insoft
  /\ calltodo # <<>> => ~Due(Head(calltodo))
  /\ insoft' = FALSE
  /\ UNCHANGED <<calltodo, callfree, c_time, c_key, softpend, panicked>>

Next ==
  \/ \E k \in Key : (\E ticks \in 0..MaxTicks : timeout(k, ticks)) \/ untimeout(k)
  \/ hardclock \/ softclock \/ SoftclockRuns \/ SoftclockReturns

Spec == Init /\ [][Next]_vars

(* The clock ticks and its soft interrupt is taken.                        *)
Fairness ==
  /\ WF_vars(hardclock) /\ WF_vars(softclock)
  /\ WF_vars(SoftclockRuns \/ SoftclockReturns)

FairSpec == Spec /\ Fairness

-----------------------------------------------------------------------------
(* An entry is never overdue by more than the first one.                   *)
TypeOK ==
  /\ calltodo \in Seq(Entry) /\ callfree \in Seq(Entry)
  /\ c_time \in [Entry -> (-MaxOverdue)..MaxTicks] /\ c_key \in [Entry -> Key]
  /\ softpend \in BOOLEAN /\ insoft \in BOOLEAN /\ panicked \in BOOLEAN

(* No timer is lost: every table entry is on exactly one of the two lists, *)
(* once, whatever is cancelled or called in the middle of softclock(), and *)
(* what is due is about to be run, without waiting for a later timer to    *)
(* become due.                                                             *)
TableIsKept ==
  LET all == calltodo \o callfree
  IN /\ IsInjective(all) /\ ToSet(all) = Entry
     /\ calltodo # <<>> /\ Due(calltodo[1]) => softpend \/ insoft

(* Ticks left of the i-th timer, negative when it is overdue.              *)
Left(i) == IF Passed(i) > 0 THEN Passed(i) ELSE c_time[calltodo[i]]

(* timeout(), untimeout(), hardclock() and softclock() together keep the   *)
(* promise of Timers.                                                      *)
Armed == [e \in ToSet(calltodo) |->
  [key |-> c_key[e], left |-> Left(CHOOSE i \in DOMAIN calltodo : calltodo[i] = e)]]

Abstract == INSTANCE Timers WITH timers <- Armed, Delay <- 1..MaxTicks

KeepsPromise == Abstract!Spec

(* A timer that is armed is run or cancelled: it does not wait for ever.   *)
TimersFire ==
  \A e \in Entry : e \in ToSet(calltodo) ~> e \in ToSet(callfree) \/ panicked
=============================================================================
