SPECIFICATION MCSpec
CONSTANTS
  Procs = {p1, p2}
  Blocks = {b1, b2}
  ManyBlocks = {b1, b2, b3, b4}
  Values = {v0, v1}
  OneValue = {v0}
  NotCached = NotCached
  NoBlock = NoBlock
  LOGBLOCKS = 6
  MAXOPBLOCKS = 3
  OpBlocks = 2
INVARIANTS RecycleLosesNothing QuiescentIsDurable NoPanic
PROPERTIES CrashAtomic BeginOpWakes
