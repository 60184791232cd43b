CONSTANTS
  Fields = {gear}
  Values = {a, b}
  NoValue = NoValue
  MaxInflight = 2
  Faults = {"db"}
  MaxSent = 2
  MaxFaults = 1
SPECIFICATION FairSpec
PROPERTY EventuallyAcked
CHECK_DEADLOCK FALSE
