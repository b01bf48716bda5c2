SPECIFICATION FairStatusSpec
CONSTANTS
  Callers = {bidder, status}
  Status = status
  NoOne = NoOne
  Classes <- MCClasses
  Sold <- MCSold
  Offers <- MCOffers
  Wants <- MCWants
  Reports = {}
  MemoryPercent = 3
INVARIANTS
  StatusTypeOK
  RefreshOnlyExpired
  SomebodyGoesOn
  NeverForgotten
PROPERTIES
  WithdrawnStaysOut
  ImplementsCache
  CallReturns
  StatusCatchesUp
