CONSTANTS
  Paths <- MCPaths
  RailOf <- MCRailOf
  Rates <- MCRates
  RailCount = 2
  ChunkBytes = 2
  Sizes = {2, 3}
  MaxTransfers = 2
  MaxPreempt = 1
SPECIFICATION DrainSpec
INVARIANT CompletedIsDelivered
