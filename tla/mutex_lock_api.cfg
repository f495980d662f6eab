CONSTANTS
  t1 = t1  t2 = t2
  NoThread = NoThread
  Threads <- MC_Threads
  Uses <- MC_Uses
  InitCall = "init_lock"
SPECIFICATION FairSpec
PROPERTY LockReturns
CHECK_DEADLOCK FALSE
