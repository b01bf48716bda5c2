SPECIFICATION FairCapacitySpec
CONSTANTS
  Callers = {c1}
  NoOne = NoOne
  Classes <- MCClasses
  Sold <- MCSold
  Offers <- MCOffers
  Wants <- MCWants
  Reports = {}
  MemoryPercent = 3
  Nodes <- MCNodes
  Reported <- MCReported
INVARIANTS
  SmallestSeen
  AnswersFitNodes
PROPERTIES
  EventuallyMeasured
