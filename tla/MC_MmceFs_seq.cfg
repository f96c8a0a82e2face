\* One caller thread, three file objects, a two-slot handle table.
CONSTANTS
  Threads <- MC_Threads1
  Files <- MC_Files3
  Units = {0, 1}
  MMCE_FS_MAX_FD = 2
  DevFds <- MC_DevFds
  ReqSize = 2
  CountReports <- MC_Counts
  Ops <- MC_AllOps
  NULL = NULL
  t1 = t1
  t2 = t2
  f1 = f1
  f2 = f2
  f3 = f3
SYMMETRY Symmetry1
SPECIFICATION Spec
INVARIANT TypeOK
INVARIANT SlotIntegrity
INVARIANT PacketsToOwnUnit
PROPERTY FailedCallKeepsTable
