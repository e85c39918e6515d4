CONSTANTS
  MaxRevision = 3
  Faults <- FaultKinds
  MaxFaults = 3
SPECIFICATION FairSpec
INVARIANTS UpdateInv SupervisorGoesOn
PROPERTIES OnlyUpgrades RestartBringsNewest
