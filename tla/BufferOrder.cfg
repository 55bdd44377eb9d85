CONSTANTS
  Procs = {p1, p2, p3}
  NoProc = NoProc
  LogBlocks = {lb}
  MetaBlocks = {bm}
  Bitmap = {bm}
  FileBlocks = {f1, f2}
  NoBlock = NoBlock
  Values = {v1}
  NBUF = 3
  MaxPinned = 0
SPECIFICATION Spec
INVARIANT NoCircle
SYMMETRY MCSymmetry
CHECK_DEADLOCK FALSE
