CONSTANTS
  opto = opto
  dht = dht
  Sensors <- OptoDht
  Kind <- OptoDhtKind
  Pulses = 2
  DhtAnswers = TRUE
SPECIFICATION FairSpec
INVARIANTS NoLostActivation SamplesInput ReportsCheckedData
PROPERTIES KeepsReporting DeletionEnds
