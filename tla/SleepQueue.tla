----------------------------- MODULE SleepQueue -----------------------------
(***************************************************************************)
(* Sleeping, waking, timing out and being signalled: tsleep(), sleep(),    *)
(* endtsleep(), unsleep(), wakeup() and setrunnable() of                   *)
(* sys/kern/kern_synch.c with psignal(), issignal() and stop() of          *)
(* sys/kern/kern_sig.c, which work on the same fields of struct proc.      *)
(*                                                                         *)
(* One processor.  Kernel code is not preempted: only curproc runs, until  *)
(* it calls mi_switch().  Interrupts (a device's wakeup() or signal, the   *)
(* clock's endtsleep()) come between any two steps, and a step is code run *)
(* at splhigh(), or code whose interrupt windows change nothing.           *)
(*                                                                         *)
(* Left out: traced processes (P_TRACED), vfork (P_PPWAIT), orphaned       *)
(* process groups, swapping and priorities.  A parent's wait channel and   *)
(* SIGCHLD are not modelled.                                               *)
(***************************************************************************)
EXTENDS Naturals, FiniteSets, Sequences, SequencesExt

CONSTANTS
  Proc,      \* processes
  Chan,      \* sleep channels
  Bucket,    \* buckets of slpque
  LOOKUP,    \* LOOKUP[c]: the bucket of channel c
  Sig,       \* signals that are sent: some of those SigNo names
  IntrSig,   \* those of them that an interrupt handler sends (a terminal's)
  Caught,    \* Caught[p]: the signals p has a handler for (p_sigcatch)
  Blocked,   \* Blocked[p]: those it holds (p_sigmask)
  NONE       \* no channel, no process, no signal, no cause or result yet

SigNo == [kill |-> 9, term |-> 15, tstp |-> 18, cont |-> 19]   \* sys/signal.h

ASSUME LookupType == LOOKUP \in [Chan -> Bucket]
ASSUME SigType ==
  /\ Sig \subseteq DOMAIN SigNo /\ IntrSig \subseteq Sig \ {"kill", "cont"}
  /\ Caught \in [Proc -> SUBSET (Sig \ {"kill"})]
  /\ Blocked \in [Proc -> SUBSET (Sig \ {"kill"})]
ASSUME NoneIsNew ==
  NONE \notin Proc \cup Chan \cup DOMAIN SigNo \cup {"wakeup", "timeout", "signal", "0", "EWOULDBLOCK"}

VARIABLES
  curproc,   \* the running process, or NONE: cpu_switch() looks for one, or a
             \* process outside Proc runs
  pc,        \* where a process is, see Places
  stat,      \* p_stat: SRUN, SSLEEP or SSTOP
  wchan,     \* p_wchan, or NONE
  slpque,    \* the sleep queues
  flag,      \* p_flag: P_SINTR and P_TIMEOUT
  siglist,   \* p_siglist
  callout,   \* number of pending timeouts calling endtsleep(p)
  call       \* arguments, locals and result of p's current or last tsleep()

vars == <<curproc, pc, stat, wchan, slpque, flag, siglist, callout, call>>

(* Where a process is: in other code; in mi_switch() called by sleep() or  *)
(* by tsleep(); in mi_switch() called by issignal() from tsleep()'s first  *)
(* CURSIG, from its second, or on the way to user mode; in tsleep() after  *)
(* "resume: splx(s)", or before its second CURSIG.                         *)
Places == {"run", "sleep", "tsleep", "stop1", "stop2", "stopuser", "resume", "cursig2"}
InTsleep == {"tsleep", "stop1", "stop2", "resume", "cursig2"}

Init ==
  /\ curproc = NONE
  /\ pc = [p \in Proc |-> "run"]
  /\ stat = [p \in Proc |-> "SRUN"]
  /\ wchan = [p \in Proc |-> NONE]
  /\ slpque = [b \in Bucket |-> <<>>]
  /\ flag = [p \in Proc |-> {}]
  /\ siglist = [p \in Proc |-> {}]
  /\ callout = [p \in Proc |-> 0]
  /\ call = [p \in Proc |-> [catch |-> FALSE, timo |-> FALSE, sig |-> NONE,
                             cause |-> NONE, ret |-> NONE]]

-----------------------------------------------------------------------------
(* unsleep() and setrunnable().  why is the reason p left the queue.       *)

(* A queue without the processes P, the others in the order they were in:  *)
(* the k-th is the one with k of them up to its place.                     *)
Without(queue, P) ==
  LET kept  == {i \in DOMAIN queue : queue[i] \notin P}
      at(k) == CHOOSE i \in kept : Cardinality({j \in kept : j <= i}) = k
  IN [k \in 1..Cardinality(kept) |-> queue[at(k)]]

Unqueued(p) ==
  IF wchan[p] = NONE THEN slpque
  ELSE [slpque EXCEPT ![LOOKUP[wchan[p]]] = Without(@, {p})]

Unsleep(p, why) ==
  /\ slpque' = Unqueued(p)
  /\ wchan' = [wchan EXCEPT ![p] = NONE]
  /\ call' = IF wchan[p] = NONE THEN call ELSE [call EXCEPT ![p].cause = why]

setrunnable(p, why) ==
  /\ Unsleep(p, why)
  /\ stat' = [stat EXCEPT ![p] = "SRUN"]

-----------------------------------------------------------------------------
(* issignal() on the pending signals S: the first one that is delivered or *)
(* stops the process, or NONE after dropping a SIGCONT nobody catches.     *)

Stops(p, s) == s = "tstp" /\ s \notin Caught[p]
Dropped(p, S) == S \cap ({"cont"} \ (Blocked[p] \cup Caught[p]))

issignal(p, S) ==
  LET found == S \ (Blocked[p] \cup Dropped(p, S))
  IN IF found = {} THEN NONE ELSE CHOOSE s \in found : \A t \in found : SigNo[s] <= SigNo[t]

Scanned(p, S) == IF issignal(p, S) = NONE THEN S \ Dropped(p, S) ELSE S

-----------------------------------------------------------------------------
(* mi_switch() and cpu_switch(): any runnable process may be next.         *)

mi_switch(p, place, newstat) ==
  /\ pc' = [pc EXCEPT ![p] = place]
  /\ stat' = [stat EXCEPT ![p] = newstat]
  /\ curproc' = NONE

GoOn(p, place) ==
  /\ pc' = [pc EXCEPT ![p] = place]
  /\ UNCHANGED <<stat, curproc>>

cpu_switch(p) ==
  /\ curproc = NONE /\ stat[p] = "SRUN"
  /\ curproc' = p
  /\ UNCHANGED <<pc, stat, wchan, slpque, flag, siglist, callout, call>>

(* A process on its way to user mode gives way to another.                 *)
Preempt(p) ==
  /\ curproc = p /\ pc[p] = "run"
  /\ curproc' = NONE
  /\ UNCHANGED <<pc, stat, wchan, slpque, flag, siglist, callout, call>>

-----------------------------------------------------------------------------
(* sleep() and tsleep() up to mi_switch().                                 *)

Enqueue(p, c) ==
  /\ wchan' = [wchan EXCEPT ![p] = c]
  /\ slpque' = [slpque EXCEPT ![LOOKUP[c]] = Append(@, p)]

NewCall(catch, timo, sig, cause) ==
  [catch |-> catch, timo |-> timo, sig |-> sig, cause |-> cause, ret |-> NONE]

sleep(p, c) ==
  /\ curproc = p /\ pc[p] = "run"
  /\ Enqueue(p, c)
  /\ call' = [call EXCEPT ![p] = NewCall(FALSE, FALSE, NONE, NONE)]
  /\ mi_switch(p, "sleep", "SSLEEP")
  /\ UNCHANGED <<flag, siglist, callout>>

(* A signal that is already pending takes p off the queue again.           *)
tsleep(p, c, catch, timo) ==
  /\ curproc = p /\ pc[p] = "run"
  /\ callout' = [callout EXCEPT ![p] = @ + IF timo THEN 1 ELSE 0]
  /\ flag' = [flag EXCEPT ![p] = IF catch THEN @ \cup {"P_SINTR"} ELSE @]
  /\ LET s == IF catch THEN issignal(p, siglist[p]) ELSE NONE
     IN /\ siglist' = [siglist EXCEPT ![p] = IF catch THEN Scanned(p, @) ELSE @]
        /\ \/ /\ s = NONE \/ Stops(p, s)
              /\ Enqueue(p, c)
              /\ call' = [call EXCEPT ![p] = NewCall(catch, timo, NONE, NONE)]
              /\ IF s = NONE THEN mi_switch(p, "tsleep", "SSLEEP")
                             ELSE mi_switch(p, "stop1", "SSTOP")
           \/ /\ s # NONE /\ ~Stops(p, s)
              /\ call' = [call EXCEPT ![p] = NewCall(catch, timo, s, "signal")]
              /\ GoOn(p, "resume")
              /\ UNCHANGED <<wchan, slpque>>

(* Faulty variant: p_wchan is not looked at again.                         *)
AwakenedNotAsked(p) == FALSE

Awakened(p) == wchan[p] = NONE

(* The first CURSIG after its stop: the stop signal is taken, the scan     *)
(* goes on, and only then does tsleep() look at p_wchan.                   *)
StoppedInFirstCursig(p) ==
  /\ curproc = p /\ pc[p] = "stop1"
  /\ LET rest == siglist[p] \ {"tstp"}
         s    == issignal(p, rest)
     IN /\ siglist' = [siglist EXCEPT ![p] = Scanned(p, rest)]
        /\ \/ /\ s # NONE
              /\ slpque' = Unqueued(p)
              /\ wchan' = [wchan EXCEPT ![p] = NONE]
              /\ call' = [call EXCEPT ![p].sig = s,
                            ![p].cause = IF wchan[p] = NONE THEN @ ELSE "signal"]
              /\ GoOn(p, "resume")
           \/ /\ s = NONE /\ Awakened(p)
              /\ call' = [call EXCEPT ![p].catch = FALSE]
              /\ GoOn(p, "resume")
              /\ UNCHANGED <<wchan, slpque>>
           \/ /\ s = NONE /\ ~Awakened(p)
              /\ mi_switch(p, "tsleep", "SSLEEP")
              /\ UNCHANGED <<wchan, slpque, call>>
  /\ UNCHANGED <<flag, callout>>

-----------------------------------------------------------------------------
(* After mi_switch(): the end of sleep(), and tsleep() from "resume:".     *)

SleepReturns(p) ==
  /\ curproc = p /\ pc[p] = "sleep"
  /\ GoOn(p, "run")
  /\ UNCHANGED <<wchan, slpque, flag, siglist, callout, call>>

Return(p, r) ==
  /\ GoOn(p, "run")
  /\ call' = [call EXCEPT ![p].ret = r]

(* Faulty variants: no untimeout(); a timeout that expired counted again.  *)
UntimeoutForgotten(p) == callout[p]
UntimeoutTwice(p) == IF call[p].timo THEN callout[p] - 1 ELSE callout[p]

(* else if (timo) untimeout(endtsleep, p), which may find none.            *)
Untimeout(p) ==
  IF "P_TIMEOUT" \notin flag[p] /\ call[p].timo /\ callout[p] > 0
  THEN callout[p] - 1 ELSE callout[p]

(* P_SINTR and P_TIMEOUT are cleared and the timeout is cancelled.  An     *)
(* endtsleep() in between finds p_wchan = 0 and does nothing.              *)
Resume(p) ==
  /\ curproc = p /\ pc[p] \in {"tsleep", "resume"}
  /\ LET expired == "P_TIMEOUT" \in flag[p]
     IN /\ flag' = [flag EXCEPT ![p] = {}]
        /\ callout' = [callout EXCEPT ![p] = Untimeout(p)]
        /\ IF expired /\ call[p].sig = NONE
           THEN Return(p, "EWOULDBLOCK")
           ELSE GoOn(p, "cursig2") /\ UNCHANGED call
  /\ UNCHANGED <<wchan, slpque, siglist>>

(* if (catch && (sig != 0 || (sig = CURSIG(p)))) return (EINTR or ERESTART) *)
SecondCursig(p) ==
  /\ curproc = p /\ pc[p] = "cursig2"
  /\ IF ~call[p].catch \/ call[p].sig # NONE
     THEN Return(p, IF call[p].catch THEN "signal" ELSE "0") /\ UNCHANGED siglist
     ELSE LET s == issignal(p, siglist[p])
          IN /\ siglist' = [siglist EXCEPT ![p] = Scanned(p, @)]
             /\ IF Stops(p, s) THEN mi_switch(p, "stop2", "SSTOP") /\ UNCHANGED call
                            ELSE Return(p, IF s = NONE THEN "0" ELSE "signal")
  /\ UNCHANGED <<wchan, slpque, flag, callout>>

StoppedInSecondCursig(p) ==
  /\ curproc = p /\ pc[p] = "stop2"
  /\ siglist' = [siglist EXCEPT ![p] = @ \ {"tstp"}]
  /\ GoOn(p, "cursig2")
  /\ UNCHANGED <<wchan, slpque, flag, callout, call>>

(* On the way to user mode: while (sig = CURSIG(p)) postsig(sig).  A       *)
(* process that a signal ends makes room for a new one in its slot.        *)
userret(p) ==
  /\ curproc = p /\ pc[p] = "run"
  /\ siglist[p] \ Blocked[p] # {}
  /\ LET s == issignal(p, siglist[p])
     IN IF Stops(p, s)
        THEN mi_switch(p, "stopuser", "SSTOP") /\ UNCHANGED siglist
        ELSE /\ siglist' = [siglist EXCEPT ![p] =
                  {x \in Scanned(p, @) : s = NONE \/ (s \in Caught[p] /\ x # s)}]
             /\ GoOn(p, "run")
  /\ UNCHANGED <<wchan, slpque, flag, callout, call>>

StoppedInUserret(p) ==
  /\ curproc = p /\ pc[p] = "stopuser"
  /\ siglist' = [siglist EXCEPT ![p] = @ \ {"tstp"}]
  /\ GoOn(p, "run")
  /\ UNCHANGED <<wchan, slpque, flag, callout, call>>

-----------------------------------------------------------------------------
(* wakeup(), endtsleep() and psignal(): from interrupts, or from whichever *)
(* process runs.                                                           *)

Waiters(c) == {p \in ToSet(slpque[LOOKUP[c]]) : wchan[p] = c}

(* Faulty variant: the whole bucket is unlinked.                           *)
UnlinkBucket(c) == <<>>

Unlink(c) == Without(slpque[LOOKUP[c]], Waiters(c))
Unwait(c) == [p \in Proc |-> IF p \in Waiters(c) THEN NONE ELSE wchan[p]]

(* A stopped process is taken off the queue but stays stopped.             *)
wakeup(c) ==
  /\ Waiters(c) # {}
  /\ slpque' = [slpque EXCEPT ![LOOKUP[c]] = Unlink(c)]
  /\ wchan' = Unwait(c)
  /\ stat' = [p \in Proc |->
       IF p \in Waiters(c) /\ stat[p] = "SSLEEP" THEN "SRUN" ELSE stat[p]]
  /\ call' = [p \in Proc |->
       IF p \in Waiters(c) THEN [call[p] EXCEPT !.cause = "wakeup"] ELSE call[p]]
  /\ UNCHANGED <<curproc, pc, flag, siglist, callout>>

(* Faulty variants: a stopped process is made runnable; a stopped process  *)
(* keeps waiting; P_TIMEOUT is set even after a wakeup(), or not set for a *)
(* stopped process.                                                        *)
UndoSleepOfAny(p) ==
  IF wchan[p] # NONE THEN setrunnable(p, "timeout") ELSE UNCHANGED <<stat, wchan, slpque, call>>
UndoSleepOfSleeper(p) ==
  IF stat[p] = "SSLEEP" THEN setrunnable(p, "timeout") ELSE UNCHANGED <<stat, wchan, slpque, call>>
AlwaysExpired(p) == flag[p] \cup {"P_TIMEOUT"}
ExpiredUnlessStopped(p) ==
  IF wchan[p] = NONE \/ stat[p] = "SSTOP" THEN flag[p] ELSE flag[p] \cup {"P_TIMEOUT"}

UndoSleep(p) ==
  IF wchan[p] # NONE /\ stat[p] = "SSLEEP" THEN setrunnable(p, "timeout")
  ELSE Unsleep(p, "timeout") /\ UNCHANGED stat
Expired(p) == IF wchan[p] = NONE THEN flag[p] ELSE flag[p] \cup {"P_TIMEOUT"}

endtsleep(p) ==
  /\ callout[p] > 0
  /\ callout' = [callout EXCEPT ![p] = @ - 1]
  /\ UndoSleep(p)
  /\ flag' = [flag EXCEPT ![p] = Expired(p)]
  /\ UNCHANGED <<curproc, pc, siglist>>

(* p_siglist with s added: a SIGCONT and a stop signal cancel each other.  *)
Posted(p, s) ==
  ((siglist[p] \ IF s = "cont" THEN {"tstp"} ELSE {}) \ IF s = "tstp" THEN {"cont"} ELSE {})
    \cup {s}

(* psignal() to a process that sleeps interruptibly (case SSLEEP).         *)
SignalSleeper(p, s) ==
  \/ /\ s = "cont" /\ s \notin Caught[p]
     /\ siglist' = [siglist EXCEPT ![p] = Posted(p, s) \ {s}]
     /\ UNCHANGED <<stat, wchan, slpque, call>>
  \/ /\ Stops(p, s)
     /\ siglist' = [siglist EXCEPT ![p] = Posted(p, s) \ {s}]
     /\ stat' = [stat EXCEPT ![p] = "SSTOP"]
     /\ UNCHANGED <<wchan, slpque, call>>
  \/ /\ s \in {"kill", "term"} \cup Caught[p]
     /\ siglist' = [siglist EXCEPT ![p] = Posted(p, s)]
     /\ setrunnable(p, "signal")

(* Faulty variants: SIGKILL waits for SIGCONT like any other signal; an    *)
(* interruptible sleeper stays queued.                                     *)
ContinuesSparingKill(p, s) ==
  s = "cont" /\ (s \in Caught[p] \ Blocked[p] \/ wchan[p] = NONE)
LeaveQueued(p) == UNCHANGED <<wchan, slpque, call>>

(* A stopped process is made runnable by SIGKILL, and by SIGCONT when it   *)
(* catches that or waits for nothing.                                      *)
Continues(p, s) ==
  s = "kill" \/ (s = "cont" /\ (s \in Caught[p] \ Blocked[p] \/ wchan[p] = NONE))

(* Its interruptible sleep is over, though it stays stopped.               *)
SimulateWakeup(p) ==
  IF "P_SINTR" \in flag[p] THEN Unsleep(p, "signal") ELSE UNCHANGED <<wchan, slpque, call>>

(* psignal() to a stopped process (case SSTOP).                            *)
SignalStopped(p, s) ==
  LET kept == IF s = "tstp" \/ (s = "cont" /\ s \notin Blocked[p] \cup Caught[p]) THEN {} ELSE {s}
  IN /\ siglist' = [siglist EXCEPT ![p] = (Posted(p, s) \ {s}) \cup kept]
     /\ \/ Continues(p, s) /\ setrunnable(p, "signal")
        \/ /\ s = "cont" /\ ~Continues(p, s)
           /\ stat' = [stat EXCEPT ![p] = "SSLEEP"]
           /\ UNCHANGED <<wchan, slpque, call>>
        \/ /\ s = "tstp" /\ UNCHANGED <<stat, wchan, slpque, call>>
        \/ /\ s \notin {"cont", "tstp"} /\ ~Continues(p, s)
           /\ SimulateWakeup(p)
           /\ UNCHANGED stat

psignal(p, s) ==
  /\ s \in IntrSig \/ \A q \in Proc : curproc = q => pc[q] = "run"
  /\ LET held  == s \in Blocked[p] /\ ~(s = "cont" /\ stat[p] = "SSTOP")
         quiet == held \/ stat[p] = "SRUN" \/ (stat[p] = "SSLEEP" /\ "P_SINTR" \notin flag[p])
     IN \/ /\ quiet
           /\ siglist' = [siglist EXCEPT ![p] = Posted(p, s)]
           /\ UNCHANGED <<stat, wchan, slpque, call>>
        \/ ~quiet /\ stat[p] = "SSLEEP" /\ SignalSleeper(p, s)
        \/ ~quiet /\ stat[p] = "SSTOP" /\ SignalStopped(p, s)
  /\ UNCHANGED <<curproc, pc, flag, callout>>

-----------------------------------------------------------------------------
Next ==
  \/ \E p \in Proc :
       \/ cpu_switch(p) \/ Preempt(p)
       \/ \E c \in Chan : sleep(p, c)
       \/ \E c \in Chan, catch, timo \in BOOLEAN : tsleep(p, c, catch, timo)
       \/ StoppedInFirstCursig(p) \/ SleepReturns(p) \/ Resume(p)
       \/ SecondCursig(p) \/ StoppedInSecondCursig(p) \/ userret(p) \/ StoppedInUserret(p)
       \/ endtsleep(p)
       \/ \E s \in Sig : psignal(p, s)
  \/ \E c \in Chan : wakeup(c)

Spec == Init /\ [][Next]_vars

(* The scheduler serves every runnable process (its priority decays until  *)
(* it is the best), a process does not keep the processor for ever (the    *)
(* clock's roundrobin() sees to that), kernel code runs on, and the clock  *)
(* ticks.                                                                  *)
Fairness ==
  \A p \in Proc :
    /\ SF_vars(cpu_switch(p))
    /\ SF_vars(Preempt(p))
    /\ WF_vars(StoppedInFirstCursig(p) \/ SleepReturns(p) \/ Resume(p)
                 \/ SecondCursig(p) \/ StoppedInSecondCursig(p) \/ StoppedInUserret(p))
    /\ WF_vars(endtsleep(p))

FairSpec == Spec /\ Fairness

-----------------------------------------------------------------------------
TypeOK ==
  /\ curproc \in Proc \cup {NONE}
  /\ pc \in [Proc -> Places]
  /\ stat \in [Proc -> {"SRUN", "SSLEEP", "SSTOP"}]
  /\ wchan \in [Proc -> Chan \cup {NONE}]
  /\ slpque \in [Bucket -> Seq(Proc)]
  /\ flag \in [Proc -> SUBSET {"P_SINTR", "P_TIMEOUT"}]
  /\ siglist \in [Proc -> SUBSET Sig]
  /\ callout \in [Proc -> Nat]
  /\ call \in [Proc -> [catch : BOOLEAN, timo : BOOLEAN, sig : Sig \cup {NONE},
                        cause : {NONE, "wakeup", "timeout", "signal"},
                        ret : {NONE, "0", "EWOULDBLOCK", "signal"}]]

(* p_wchan and the queues agree: a process is in one queue, once, exactly  *)
(* when its p_wchan is set, and that is the queue wakeup() will search     *)
(* (unsleep() runs off the end of a queue if this fails).  Nobody sleeps   *)
(* where no wakeup() can reach: an SSLEEP process is queued, and a queued  *)
(* process never runs (tsleep() panics on such a process).                 *)
QueuesAgree ==
  /\ \A b \in Bucket :
       /\ IsInjective(slpque[b])
       /\ ToSet(slpque[b]) = {p \in Proc : wchan[p] # NONE /\ LOOKUP[wchan[p]] = b}
  /\ \A p \in Proc :
       /\ stat[p] = "SSLEEP" => wchan[p] # NONE
       /\ stat[p] = "SRUN" => wchan[p] = NONE

(* A pending endtsleep() and a set P_TIMEOUT belong to the tsleep() that   *)
(* is in progress: neither is left over to cut a later sleep short.  And   *)
(* the timeout alone decides whether the sleep is said to have run out:    *)
(* "Returns 0 if awakened, EWOULDBLOCK if the timeout expires"             *)
(* (kern_synch.c).                                                         *)
TimeoutsBelong ==
  \A p \in Proc :
    /\ callout[p] <= 1
    /\ callout[p] = 1 => pc[p] \in InTsleep /\ call[p].timo
    /\ "P_TIMEOUT" \in flag[p] => pc[p] \in InTsleep /\ call[p].timo /\ callout[p] = 0
    /\ pc[p] = "run" /\ call[p].ret = "EWOULDBLOCK" => call[p].cause = "timeout"
    /\ pc[p] = "run" /\ call[p].ret = "0" => call[p].cause # "timeout"

(* A process in an interruptible sleep has no signal that would end it: a  *)
(* signal is never left behind, however stops, SIGCONTs and the start of   *)
(* the sleep interleave.                                                   *)
NoSignalLeftBehind ==
  \A p \in Proc :
    stat[p] = "SSLEEP" /\ "P_SINTR" \in flag[p] => issignal(p, siglist[p]) = NONE

(* "Returns 0 if awakened" (kern_synch.c): with default actions no signal  *)
(* and no timeout makes tsleep() return 0.                                 *)
ZeroMeansWakeup ==
  \A p \in Proc : pc[p] = "run" /\ call[p].ret = "0" => call[p].cause = "wakeup"

(* Only SIGCONT or SIGKILL lets a stopped process run: neither wakeup()    *)
(* nor endtsleep() does, though both take it off its queue.                *)
StoppedStaysStopped ==
  [][\A p \in Proc : stat[p] = "SSTOP" /\ stat'[p] # "SSTOP" =>
       \E s \in {"cont", "kill"} : psignal(p, s)]_vars

(* A sleep with a timeout ends, unless the process is stopped.             *)
TimedSleepEnds ==
  \A p \in Proc :
    pc[p] \in InTsleep /\ call[p].timo ~> pc[p] = "run" \/ stat[p] = "SSTOP"

(* SIGKILL ends an interruptible tsleep(), a stopped one included.         *)
KillEndsSleep ==
  \A p \in Proc :
    pc[p] \in InTsleep /\ "P_SINTR" \in flag[p] /\ "kill" \in siglist[p] ~> pc[p] = "run"
=============================================================================
