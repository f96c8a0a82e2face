\* Two caller threads contending for the SIO2 lock; liveness is checked
\* without symmetry reduction.
CONSTANTS
  Threads <- MC_Threads2
  Files <- MC_Files2
  Units = {0}
  MMCE_FS_MAX_FD = 2
  DevFds = {0, 255}
  ReqSize = 2
  CountReports <- MC_Counts
  Ops = {"open", "read", "close"}
  NULL = NULL
  t1 = t1
  t2 = t2
  f1 = f1
  f2 = f2
  f3 = f3
SPECIFICATION Spec
PROPERTY OperationsReturn
