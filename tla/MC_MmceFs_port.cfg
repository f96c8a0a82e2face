\* Two caller threads on different units: the port is switched outside the lock.
CONSTANTS
  Threads <- MC_Threads2
  Files <- MC_Files2
  Units = {0, 1}
  MMCE_FS_MAX_FD = 2
  DevFds = {0}
  ReqSize = 2
  CountReports <- MC_Counts
  Ops = {"mkdir"}
  NULL = NULL
  t1 = t1
  t2 = t2
  f1 = f1
  f2 = f2
  f3 = f3
SPECIFICATION Spec
INVARIANT PacketsToOwnUnit
