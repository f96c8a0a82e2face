\* One thread reading and writing; the card reports an under-report, an
\* over-report, or a count with the top bit set.
CONSTANTS
  Threads <- MC_Threads1
  Files <- MC_Files2
  Units = {0}
  MMCE_FS_MAX_FD = 2
  DevFds = {0}
  ReqSize = 2
  CountReports <- MC_AllCounts
  Ops = {"open", "read", "write"}
  NULL = NULL
  t1 = t1
  t2 = t2
  f1 = f1
  f2 = f2
  f3 = f3
SPECIFICATION Spec
INVARIANT CountWithinRequest
