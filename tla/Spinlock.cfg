SPECIFICATION Spec
CONSTANTS
  CPUs = {c1, c2}
  Locks = {1, 2}
  NoCPU = NoCPU
SYMMETRY MCSymmetry
INVARIANTS MutualExclusion NoPanic InterruptsOff IntrRestored
