---------------------------- MODULE MCSleepQueue ----------------------------
(* Instances of SleepQueue for TLC.                                        *)
EXTENDS SleepQueue, TLC

CONSTANTS p1, p2, c1, c2, b1

OneBucket == [c \in Chan |-> b1]

(* p1 catches SIGCONT; p2 holds it, and does not catch it.                 *)
CaughtBy == p1 :> {"cont"} @@ p2 :> {}
BlockedBy == p1 :> {} @@ p2 :> {"cont"}

NoSignals == [p \in Proc |-> {}]
=============================================================================
