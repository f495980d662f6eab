CONSTANTS
  t1 = t1
  t2 = t2
  t3 = t3
  NoThread = NoThread
  Threads <- MC_Threads2
  Uses <- MC_InStackUses
  DebugBuild = FALSE
SPECIFICATION Spec
PROPERTY SpinLockRefinement
CHECK_DEADLOCK FALSE
