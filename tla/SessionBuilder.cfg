CONSTANTS
  Debounce = 1
  ParkDwell = 2
  OfflineEnd = 2
  MaxTime = 7
  MaxGap = 2
SPECIFICATION Spec
INVARIANTS Timeline DriveEndsOffline DrivesApart OfflineIsOffline Settles
CHECK_DEADLOCK FALSE
