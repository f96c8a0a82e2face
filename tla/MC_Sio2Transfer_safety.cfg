\* Bulk and PIO calls of every kind, alarms on or off; use_alarm changes only
\* between transfers; the device may never complete a transfer.
CONSTANTS
  Sizes <- MC_Sizes
  AlarmSettings = {TRUE, FALSE}
  ConcurrentSettings = FALSE
SPECIFICATION Spec
INVARIANTS
  TypeOK
  QueueBound
  CompletionIsCurrent
  NoStaleAlarm
PROPERTY
  CallsReturn
  EngineRefinement
