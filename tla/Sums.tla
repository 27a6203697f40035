-------------------------------- MODULE Sums --------------------------------
(***************************************************************************)
(* Sums along a sequence, as a recursive function.  SumProofs shows what   *)
(* they are.                                                               *)
(***************************************************************************)
EXTENDS Integers, Sequences

\* What num gives the elements of l, added up
SumOver(num, l) ==
  LET sum[k \in 0..Len(l)] == IF k = 0 THEN 0 ELSE sum[k - 1] + num[l[k]]
  IN  sum[Len(l)]
=============================================================================
