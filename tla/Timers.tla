------------------------------- MODULE Timers -------------------------------
(***************************************************************************)
(* What timeout() and untimeout() of sys/kern/kern_clock.c promise: each   *)
(* armed timer runs once, after the number of ticks asked for and never    *)
(* before, the timers that are due in the order of their deadlines, unless *)
(* it is cancelled by the key (function and argument) it was armed with.   *)
(***************************************************************************)
EXTENDS Integers

CONSTANTS
  Entry,   \* names for armed timers
  Key,     \* what a timer runs
  Delay    \* the numbers of ticks a timer may be armed with, all positive

VARIABLE timers   \* armed timers: [Entry used -> key and ticks left]

Init == timers = <<>>

Without(e) == [f \in DOMAIN timers \ {e} |-> timers[f]]

Arm(e, k, n) ==
  /\ e \notin DOMAIN timers
  /\ timers' = [f \in DOMAIN timers \cup {e} |->
       IF f = e THEN [key |-> k, left |-> n] ELSE timers[f]]

(* The timer with this key that would have run first is cancelled.         *)
Cancel(e) ==
  /\ e \in DOMAIN timers
  /\ \A f \in DOMAIN timers :
       timers[f].key = timers[e].key => timers[e].left <= timers[f].left
  /\ timers' = Without(e)

Tick == timers' = [e \in DOMAIN timers |-> [timers[e] EXCEPT !.left = @ - 1]]

Fire(e) ==
  /\ e \in DOMAIN timers
  /\ timers[e].left <= 0
  /\ \A f \in DOMAIN timers : timers[e].left <= timers[f].left
  /\ timers' = Without(e)

Next ==
  \/ \E e \in Entry : (\E k \in Key, n \in Delay : Arm(e, k, n)) \/ Cancel(e) \/ Fire(e)
  \/ Tick

Spec == Init /\ [][Next]_timers
=============================================================================
