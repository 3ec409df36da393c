------------------------------ MODULE MCLockF ------------------------------
(* Instances of LockF for TLC.                                             *)
EXTENDS LockF, TLC

CONSTANTS p1, p2, p3, f1

On(types, first, last) == [type : types, start : {first}, end : {last}]

(* p1 splits, cuts and joins its locks in every way.  p2 and p3 stand in   *)
(* its way and in each other's, so that three can wait in a circle.        *)
AskedFor ==
  p1 :> On(LockType, 0, 1) \cup On(LockType, 1, 1) \cup On(LockType, 1, EOF) \cup WholeFile
    @@ p2 :> On(LockType, 0, 0)
    @@ p3 :> On({"F_WRLCK"}, 1, 1) \cup On({"F_WRLCK"}, 0, 1)
    @@ f1 :> WholeFile
=============================================================================
