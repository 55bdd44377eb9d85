CONSTANTS
  Procs = {p1, p2}
  First = p1
  NoProc = NoProc
  Names = {a}
  NINUM = 2
  NINODE = 2
SPECIFICATION Spec
INVARIANT InUseIsAllocated CrashConsistent ReclaimIsComplete
