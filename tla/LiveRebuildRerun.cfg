CONSTANTS
  Debounce = 1
  ParkDwell = 1
  OfflineEnd = 2
  Window = 4
  Warmup = 1
  MaxTime = 7
SPECIFICATION Spec
PROPERTY RerunKeepsSessions
CHECK_DEADLOCK FALSE
