CONSTANTS
  Monitors = {"loop", "once"}
  Keys = {"unlocked_away", "new_software"}
  Informational = {"new_software"}
  Faults = {"notify", "crash"}
  MaxChanges = 3
  MaxFaults = 1
SPECIFICATION FairSpec
INVARIANTS TypeOK NobodyToldTwice OwnerIsTold
PROPERTY FiringsFollowConditions
