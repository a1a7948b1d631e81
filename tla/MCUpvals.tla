------------------------------ MODULE MCUpvals ------------------------------
(* Upvals on a small stack; MAXDELTA = 2 makes dummy nodes necessary, and   *)
(* upvalues are interchangeable.                                            *)
EXTENDS Upvals, TLC
UpvSymmetry == Permutations(UpvIds)
=============================================================================
