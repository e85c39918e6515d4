CONSTANTS
  c1 = c1
  c2 = c2
  Clients <- TwoClients
  Proxy = Proxy
  Head_ = Head_
  MaxEvents = 1
  MaxFailures = 1
  Backlog = 1
SPECIFICATION FairSpec
INVARIANTS TypeOK AckMeansAccepted NobodyWaitsInVain
PROPERTIES EveryoneGetsConnected EventsAreShown
