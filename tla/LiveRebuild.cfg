CONSTANTS
  Debounce = 1
  ParkDwell = 1
  OfflineEnd = 2
  Window = 2
  Warmup = 1
  MaxTime = 7
SPECIFICATION Spec
INVARIANT TypeOK
PROPERTIES HistoryStays RollingIsWhole
CHECK_DEADLOCK FALSE
