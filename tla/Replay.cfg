CONSTANTS
  Fields = {gear}
  Values = {a, b}
  NoValue = NoValue
  MaxInflight = 2
  Faults = {"crash", "drop"}
  MaxSent = 3
  MaxFaults = 1
  MaxReplays = 2
SPECIFICATION ReplayFairSpec
INVARIANT ReplayKeepsHistory
PROPERTIES ReplayAgainStoresNothing EventuallyAcked
CHECK_DEADLOCK FALSE
