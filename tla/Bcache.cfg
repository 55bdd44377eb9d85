CONSTANTS
  Procs = {p1, p2}
  NoProc = NoProc
  LogBlocks = {lb}
  MetaBlocks = {bm}
  Bitmap = {bm}
  FileBlocks = {f1}
  NoBlock = NoBlock
  Values = {v1, v2}
  NBUF = 2
  MaxPinned = 1
SPECIFICATION Spec
INVARIANT RefcntCountsUsers
SYMMETRY MCSymmetry
CHECK_DEADLOCK FALSE
PROPERTY IsBlockStore
