CONSTANTS
  r1 = r1  r2 = r2  r3 = r3  f1 = f1  f2 = f2  e1 = e1  e2 = e2
  BadHandle = BadHandle
  NoValue = NoValue
  Irps <- MC_Irps
  Files <- MC_Files
  Events <- MC_Event1
  Kinds <- EventOnly
  Cancellable <- MC_Irps
SPECIFICATION Spec
INVARIANT EventReferenceAccounting
CHECK_DEADLOCK FALSE
SYMMETRY Symmetry
