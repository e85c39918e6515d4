CONSTANTS
  opto = opto
  dht = dht
  Sensors <- OnlyDht
  Kind <- DhtKind
  Pulses = 2
  DhtAnswers = TRUE
SPECIFICATION Spec
INVARIANTS ThreadRunsOnWholeSensor
