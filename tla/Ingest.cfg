CONSTANTS
  Fields = {gear, charge}
  Values = {a, b}
  NoValue = NoValue
  MaxInflight = 2
  Faults = {"crash", "drop", "db", "disk", "answer"}
  MaxSent = 4
  MaxFaults = 2
SPECIFICATION Spec
INVARIANTS TypeOK CommittedIsShown UsageCoversAcked ConnectivityMatchesSent
           StaleOnlyIfOvertaken KnownUnlessResent
PROPERTY KeepsPromise
SYMMETRY Symmetry
CHECK_DEADLOCK FALSE
