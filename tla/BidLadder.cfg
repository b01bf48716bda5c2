SPECIFICATION FairSpec
CONSTANTS
  Prices <- MCPrices
  Feeds <- MCFeeds
INVARIANTS
  LowestRung
  BidWins
PROPERTIES
  AlwaysNearer
  BidIsMade
CHECK_DEADLOCK FALSE
