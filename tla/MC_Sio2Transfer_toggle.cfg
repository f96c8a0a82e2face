\* devctl may change use_alarm on another thread during a transfer.
CONSTANTS
  Sizes <- MC_Sizes
  AlarmSettings = {TRUE, FALSE}
  ConcurrentSettings = TRUE
SPECIFICATION Spec
CONSTRAINT StaleBound
INVARIANT
  NoStaleAlarm
