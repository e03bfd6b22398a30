SPECIFICATION FairExchangeSpec
CONSTANTS
  p1 = p1
  p2 = p2
  c1 = c1
  c2 = c2
  k1 = k1
  Shared = Shared
  Publishers <- MCPublishers
  Consumers <- MCConsumers
  Closers <- MCClosers
  Nackers <- MCNackers
  Cancellable <- MCCancellable
  Kinds <- BothKinds
INVARIANTS Conserved ChannelsOpen
PROPERTIES PublishReturns SubscriptionEnds
CHECK_DEADLOCK FALSE
