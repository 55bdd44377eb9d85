SPECIFICATION Spec
CONSTANTS
  Procs = {p1, p2, p3}
  NoProc = NoProc
  Intr = Intr
  NUM = 8
  Wrap = 16
SYMMETRY MCSymmetry
INVARIANTS DeviceOwnsChains NoLostWakeup ReturnsWhenDone
