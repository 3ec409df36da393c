----------------------------- MODULE MCBufCache -----------------------------
(* Instances of BufCache for TLC: one header has a page more than the      *)
(* others, as bufinit() leaves them when nbuf does not divide bufpages.    *)
(* Three blocks are the least for which every header but one can be taken  *)
(* while the third block is not in the cache.                              *)
EXTENDS BufCache, TLC

CONSTANTS p1, p2, b1, b2, b3, s1, s2, large

Bufpages == b1 :> 2 @@ b2 :> 1 @@ b3 :> 1
Sizes == s1 :> 1 @@ s2 :> 1 @@ large :> 2
Versions == s1 :> 0 @@ s2 :> 0 @@ large :> 1
Symmetry == Permutations(Proc) \cup Permutations({b2, b3}) \cup Permutations({s1, s2})
=============================================================================
