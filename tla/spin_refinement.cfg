CONSTANTS
  t1 = t1
  t2 = t2
  t3 = t3
  NoThread = NoThread
  Threads <- MC_Threads
  Uses <- MC_MixedUses
  DebugBuild = TRUE
SPECIFICATION Spec
PROPERTY SpinLockRefinement
CHECK_DEADLOCK FALSE
