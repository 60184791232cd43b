CONSTANTS
  Procs = {"monitor", "command"}
  Faults = {"unreachable", "answer", "commit", "crash"}
  MaxLogins = 2
  MaxExpiries = 2
  MaxFaults = 2
SPECIFICATION FairSpec
INVARIANTS TypeOK SpentOnceUnlessLost StoredTokenWorks OneRotationPerExpiry
PROPERTIES NewestLoginStays EveryoneAnswered
