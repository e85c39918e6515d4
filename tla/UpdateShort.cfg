CONSTANTS
  MaxRevision = 3
  Faults <- ShortFiles
  MaxFaults = 1
SPECIFICATION Spec
INVARIANTS RestartsForWholeProgram
