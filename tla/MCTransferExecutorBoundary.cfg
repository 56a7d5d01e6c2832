CONSTANTS
  Paths <- MCPaths
  RailOf <- MCRailOf
  Rates <- MCRates
  RailCount = 2
  ChunkBytes = 2
  Sizes = {1, 5}
  MaxTransfers = 2
  MaxPreempt = 1
SPECIFICATION Spec
INVARIANT PausedAtBoundary
