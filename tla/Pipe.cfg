SPECIFICATION Spec
CONSTANTS
  Readers = {r1, r2}
  Writers = {w1}
  NoProc = NoProc
  Bytes = {a, b}
  NoByte = NoByte
  PIPESIZE = 2
  Wrap = 4
  MaxN = 3
SYMMETRY MCSymmetry
INVARIANT NoUseAfterFree NoLostWakeup
PROPERTY IsQueue
CHECK_DEADLOCK FALSE
