CONSTANTS
  r1 = r1  r2 = r2  r3 = r3  f1 = f1  f2 = f2  e1 = e1  e2 = e2
  BadHandle = BadHandle
  NoValue = NoValue
  Irps <- MC_Irp1
  Files <- MC_File1
  Events <- MC_Event1
  Kinds <- EventKinds
  Cancellable <- MC_Irp1
SPECIFICATION Spec
INVARIANT RecordFreedOnlyWhenIdle
CHECK_DEADLOCK FALSE
