CONSTANTS
  Sessions <- Week
  Charges <- WeekCharges
  Begins <- BeginsAt
  Ends <- EndsAt
  Known <- KnownFrom
  Records <- TwoRecords
  Billed <- BilledFor
  RecordStart <- RecordStartAt
  RecordStop <- RecordStopAt
  Appears <- AppearsAt
  Tolerance = 3
  Prefilter = 12
  LiveWindow = 576
  Warmup = 12
  DayLength = 288
  SyncDays = 7
  CommandDays = 90
  Pause = 144
  LastMoment = 2880
  MaxMisfortunes = 2
  MaxSyncCommands = 1
  Requests = {p1, p2}
  MaxFailures = 2
  Lockout = 3
  MaxWait = 1
  LastTime = 6
  CaDays = 6
  ServerDays = 3
  ConfigDays = 2
  Soon = 1
  LastDay = 3
  MaxInits = 2
  MaxRotations = 1
  MaxInterrupts = 1
SPECIFICATION Spec
INVARIANTS
  LinksFit
  GuessesAreSlow
  GoodNewsIsTrue
PROPERTIES
  OldLinksStay
  RecordsAreInvoiced
CHECK_DEADLOCK FALSE
