----------------------------- MODULE ByteLocks -----------------------------
(***************************************************************************)
(* What advisory record locking promises about one file: which owner has   *)
(* which lock on which byte.  LockF implements it.                         *)
(***************************************************************************)
EXTENDS Integers

CONSTANTS
  Owner,     \* processes, and open files that are locked with flock()
  LastByte   \* LastByte + 1 stands for every byte past LastByte

VARIABLE held   \* held[o][b]: the lock of o on byte b

Byte == 0 .. LastByte + 1
LockType == {"F_RDLCK", "F_WRLCK"}

Init == held = [o \in Owner |-> [b \in Byte |-> "F_UNLCK"]]

Compatible(t, u) == "F_UNLCK" \in {t, u} \/ "F_WRLCK" \notin {t, u}

(* The bytes first .. last become t, the others stay.                      *)
Change(old, new, first, last, t) ==
  \A b \in Byte : new[b] = IF b \in first .. last THEN t ELSE old[b]

(* A lock replaces what its owner had, if no other owner is in the way;    *)
(* an unlock is never refused.                                             *)
Allowed(o, first, last, t) ==
  \A q \in Owner \ {o}, b \in first .. last : Compatible(t, held[q][b])

(* One owner locks or unlocks a range.                                     *)
Next ==
  \E o \in Owner :
    LET old == held[o]
        new == held'[o]
    IN /\ \A q \in Owner \ {o} : held'[q] = held[q]
       /\ \E first, last \in Byte, t \in LockType \cup {"F_UNLCK"} :
            Change(old, new, first, last, t) /\ Allowed(o, first, last, t)

Spec == Init /\ [][Next]_held

(* Two owners never hold conflicting locks on a byte: if one may write,    *)
(* no other has any lock there.                                            *)
NoConflict ==
  \A o, q \in Owner, b \in Byte : o # q => Compatible(held[o][b], held[q][b])
=============================================================================
