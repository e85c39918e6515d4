CONSTANTS
  p1 = p1
  p2 = p2
  Producers <- TwoSensors
  Main = Main
  NoThread = NoThread
  MaxMessages = 4
  IdLimit = 8
  ConsumerMayFail = TRUE
SPECIFICATION FairSpec
INVARIANTS IInv HeldIsLive OneOwner QuietTeardown
PROPERTIES ImplementsFifo RemovesWhatItUsed TeardownCompletes Delivered
