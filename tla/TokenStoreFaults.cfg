CONSTANTS
  Procs = {"monitor", "command"}
  Faults = {"answer"}
  MaxLogins = 1
  MaxExpiries = 2
  MaxFaults = 1
SPECIFICATION Spec
INVARIANT NeverSpentTwice
