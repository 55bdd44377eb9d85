----------------------------- MODULE MCSpinlock -----------------------------
(* CPUs are interchangeable; locks are not, they are taken in order. *)
EXTENDS Spinlock, TLC

MCSymmetry == Permutations(CPUs)
=============================================================================
