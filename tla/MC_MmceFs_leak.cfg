\* One thread opening and closing: a reserved descriptor or a non-zero close status.
CONSTANTS
  Threads <- MC_Threads1
  Files <- MC_Files2
  Units = {0}
  MMCE_FS_MAX_FD = 2
  DevFds = {0, 250}
  ReqSize = 2
  CountReports <- MC_Counts
  Ops = {"open", "close"}
  NULL = NULL
  t1 = t1
  t2 = t2
  f1 = f1
  f2 = f2
  f3 = f3
SPECIFICATION Spec
INVARIANT NoLeakedSlot
