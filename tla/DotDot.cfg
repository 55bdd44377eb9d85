CONSTANTS
  Procs = {1, 2}
  Names = {"a"}
  Dots = {".."}
  NINUM = 4
SPECIFICATION Spec
INVARIANT IlockFindsType
