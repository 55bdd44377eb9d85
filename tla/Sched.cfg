SPECIFICATION FairSpec
CONSTANTS
  CPUs = {c1, c2}
  NPROC = 2
  NoCPU = NoCPU
INVARIANTS OneCPUPerThread NoLostWakeup IntrFollowsThread
PROPERTIES RunnableRuns SleeperWakes
