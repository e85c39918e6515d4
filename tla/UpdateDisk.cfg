CONSTANTS
  MaxRevision = 3
  Faults <- FullDisk
  MaxFaults = 1
SPECIFICATION Spec
PROPERTIES InstallsWholeProgram
