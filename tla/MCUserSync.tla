----------------------------- MODULE MCUserSync -----------------------------
(* Constant values of the TLC run of UserSync. *)
EXTENDS UserSync

CONSTANTS p1, p2, t1, t2
=============================================================================
