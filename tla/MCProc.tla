------------------------------- MODULE MCProc -------------------------------
(* Slots are not interchangeable, the loops over proc[] visit them in order; *)
(* so there is no symmetry to use here.                                      *)
EXTENDS Proc
=============================================================================
