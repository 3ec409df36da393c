-------------------------- MODULE ByteLocksProofs --------------------------
(* What ByteLocks grants never conflicts, for any number of owners and     *)
(* bytes.  LockF implements ByteLocks, so neither do its locks.            *)
EXTENDS ByteLocks, TLAPS

(* A range that changes leaves its owner compatible with another one on    *)
(* every byte: on the bytes of the range because lf_getblock() found       *)
(* nothing in the way, on the others because nothing changed there.        *)
LEMMA ChangeIsCompatible ==
  ASSUME NEW o \in Owner, NEW q \in Owner \ {o}, NEW b \in Byte,
         NEW first \in Byte, NEW last \in Byte, NEW t \in LockType \cup {"F_UNLCK"},
         Compatible(held[o][b], held[q][b]),
         held'[q] = held[q],
         Change(held[o], held'[o], first, last, t),
         Allowed(o, first, last, t)
  PROVE  Compatible(held'[o][b], held'[q][b])
<1>1. CASE b \in first .. last
  <2>1. held'[o][b] = t
    BY <1>1 DEF Change
  <2>2. Compatible(t, held[q][b])
    BY <1>1 DEF Allowed
  <2> QED
    BY <2>1, <2>2
<1>2. CASE b \notin first .. last
  <2>1. held'[o][b] = held[o][b]
    BY <1>2 DEF Change
  <2> QED
    BY <2>1
<1> QED
  BY <1>1, <1>2

(* One step of one owner keeps all pairs compatible.                       *)
LEMMA NoConflictIsKept == NoConflict /\ Next => NoConflict'
<1> SUFFICES ASSUME NoConflict, Next,
                    NEW p \in Owner, NEW q \in Owner, NEW b \in Byte, p # q
             PROVE  Compatible(held'[p][b], held'[q][b])
  BY DEF NoConflict, Byte
<1>1. PICK o \in Owner, first \in Byte, last \in Byte, t \in LockType \cup {"F_UNLCK"} :
        /\ \A r \in Owner \ {o} : held'[r] = held[r]
        /\ Change(held[o], held'[o], first, last, t)
        /\ Allowed(o, first, last, t)
  BY DEF Next
<1>2. Compatible(held[p][b], held[q][b]) /\ Compatible(held[q][b], held[p][b])
  BY DEF NoConflict
<1>3. CASE p = o
  BY <1>1, <1>2, <1>3, ChangeIsCompatible
<1>4. CASE q = o
  <2>1. Compatible(held'[q][b], held'[p][b])
    BY <1>1, <1>2, <1>4, ChangeIsCompatible
  <2> QED
    BY <2>1 DEF Compatible
<1>5. CASE p # o /\ q # o
  BY <1>1, <1>2, <1>5
<1> QED
  BY <1>3, <1>4, <1>5

(* Two owners never hold conflicting locks on a byte.                      *)
THEOREM LocksNeverConflict == Spec => []NoConflict
<1>1. Init => NoConflict
  BY DEF Init, NoConflict, Compatible
<1>2. NoConflict /\ [Next]_held => NoConflict'
  <2>1. NoConflict /\ UNCHANGED held => NoConflict'
    BY DEF NoConflict, Compatible, Byte
  <2> QED
    BY <2>1, NoConflictIsKept
<1> QED
  BY <1>1, <1>2, PTL DEF Spec
=============================================================================
