SPECIFICATION Spec
INVARIANT NoSleeperForgotten UserSpaceSound
PROPERTY IsLineInput ShellReturns
CHECK_DEADLOCK FALSE
