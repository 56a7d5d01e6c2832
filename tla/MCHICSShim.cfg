CONSTANTS
  Paths <- MCPaths
  Routes <- MCRoutes
  RailOf <- MCRailOf
  Rates <- MCRates
  RailCount = 2
  ChunkBytes = 2
  Sizes = {1, 5}
  MaxTransfers = 2
  MaxPreempt = 1
SPECIFICATION ShimSpec
INVARIANTS ShimTypeOK SuspendedIsQueued KvFlowsAreLive PausedAtBoundary
PROPERTIES KeepsPromise EveryTransferIsDelivered
