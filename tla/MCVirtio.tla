------------------------------ MODULE MCVirtio ------------------------------
EXTENDS Virtio, TLC

MCSymmetry == Permutations(Procs)
=============================================================================
