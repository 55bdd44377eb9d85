CONSTANTS
  Procs = {1, 2}
  initproc = 1
  NPAGES = 40
  Budgets = {0, 1, 2, 3, 4, 5, 6, 7, 8, 9, 10, 11, 12, 13}
  MaxSz = 8
  MAXARG = 2
  Calls <- MCCalls
SPECIFICATION MCSpec
INVARIANT PagesConserved BlocksPartition ReadsBack FilesCounted TreeSound
PROPERTY IsUserMemory
CHECK_DEADLOCK FALSE
