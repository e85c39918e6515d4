CONSTANTS
  opto = opto
  dht = dht
  Sensors <- OnlyDht
  Kind <- DhtKind
  Pulses = 2
  DhtAnswers = FALSE
SPECIFICATION FairSpec
PROPERTIES DeletionEnds
