CONSTANTS
  two = two
  one = one
  s1 = s1
  s2 = s2
  s3 = s3
  s4 = s4
  Clients <- TwoClients
  Sensors <- FourSensors
  versions <- Versions
  gpio <- Gpios
  type <- Types
  None = None
  MaxEvents = 2
  MaxFaults = 2
SPECIFICATION FairSpec
INVARIANTS OneClientAtATime RowsShowTheirPin
PROPERTIES EventsGetOn RowsOnlyAdvance EventsReachTheirRow
