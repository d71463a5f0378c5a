-------------------------------- MODULE Sums --------------------------------
(* The sum of a sequence of numbers. *)
EXTENDS Functions

Sum(q) == FoldFunction(+, 0, q)
=============================================================================
