CONSTANTS
  c1 = c1
  c2 = c2
  Clients <- OneClient
  Proxy = Proxy
  Head_ = Head_
  MaxEvents = 3
  MaxFailures = 2
  Backlog = 2
SPECIFICATION FairSpec
INVARIANTS OnlyTheOldestIsInDoubt NothingIsLost
PROPERTIES ImplementsDelivery ClientsRecover LateEventsAreShown
