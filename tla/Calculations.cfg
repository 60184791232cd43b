CONSTANTS
  Hour = 2
  Spring = 2
  Autumn = 6
  LastInstant = 8
  MaxRows = 4
  Day = 4
  Week = 2
  Slice = 2
  Minute = 2
  Month = 2
  MaxPoints = 2
  Midnights = 3
  Places = {"home", "free", "other", "none"}
  MaxUnlogged = 2
  OdometerSlack = 3
  OdometerShare = 10
  MetricShare = 4
  MaxTelemetryGap = 2
  Horizon = 6
  MoveMiles = {1, 2, 40}
  MaxMoves = 4
  ChargeKwh = {1, 40}
  MaxLinks = 3
  MaxSamples = 6
SPECIFICATION Spec
INVARIANTS ImportedInOrder FilesMakeOneHistory CostIsFair ReportsAgree LinesAreDrives LostDrivesShow GapsShow
CHECK_DEADLOCK FALSE
