---------------------------- MODULE MCListenQueue ----------------------------
(* Instances of ListenQueue for TLC.                                       *)
EXTENDS ListenQueue

CONSTANTS p1, p2, s1, s2, s3
=============================================================================
