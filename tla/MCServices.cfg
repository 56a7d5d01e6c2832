\* Two buffers of the host and one of a device, two threads that register.
\* Two threads that copy, four communicators.  Small clusters.  Up to seven
\* edges, in batches of two.  Two transfers of one chunk or two.
CONSTANTS
  HostBuffers = {h1, h2}
  DeviceBuffers = {d1}
  Registrars = {t1, t2}
  NoBuffer = none
  MaxRegions = 4
  Posters = {p1, p2}
  PollBatch = 1
  TickBatch = 2
  PluginRailCount = 2
  FoundCounts = {0, 1, 3}
  MaxComms = 4
  Searches <- MCSearches
  PredictedEdges = {1, 2, 3, 5, 7}
  HistoryLen = 3
  Batch = 2
  FirstCursors = {0, 1, 6}
  WeightFiles <- MCWeightFiles
  MaxPushes = 8
  Paths <- MCPaths
  RailOf <- MCRailOf
  Rates <- MCRates
  RailCount = 2
  ChunkBytes = 2
  Sizes = {2, 3}
  MaxTransfers = 2
  MaxPreempt = 1
SPECIFICATION ServicesSpec
INVARIANTS
  PinnedWhileRegistered
  NothingLeftPending
  SameRail
  CheapestFirst
  RailsAvailable
  LoopFree
  PredictionsKeepUp
  LoadedMeansRead
  CopiedExactlyOnce
  CallbackOnce
PROPERTY DrainReturns
CHECK_DEADLOCK FALSE
