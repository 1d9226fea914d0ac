SPECIFICATION FairSpec
CONSTANTS
  Goroutines = {t1, t2, t3}
  Deliveries = {d1, d2, d3, d4}
  NoDelivery = NoDelivery
  Prefetch = 3
INVARIANTS
  TypeOK
  NoErrorDropped
  ReturnedMeansStopped
  FullConcurrency
  NothingLostOrDoubled
PROPERTIES
  ImplementsDeliveryLoop
  ShutdownEnds
  ConnectionReturns
