------------------------------ MODULE MCJobTree ------------------------------
(* Constant values of the TLC run of JobCatalog and the loops of JobTree. *)
EXTENDS JobCatalog

CONSTANTS collect, load, c1, c2
=============================================================================
