CONSTANTS
  p1 = p1
  p2 = p2
  NoProc = NoProc
  Procs <- MC_Procs
  ImageOf <- MC_ImageOf
  Requests <- MC_Requests
  MaxProtects = 2
SPECIFICATION Spec
PROPERTY FailedProtectRegistersNothing
CHECK_DEADLOCK FALSE
