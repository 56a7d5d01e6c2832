\* Two edges, two IB devices.
CONSTANTS
  NumEdges = 2
  NumDevices = 2
  Layouts <- MCLayouts
  Peak = 2
  Cadence = 2
  BaseLimit = 2
  Traffic <- MCTraffic
  Levels <- MCLevels
  NotSet = 101
  MaxTime = 5
SPECIFICATION Spec
INVARIANTS
  TypeOK
  UtilIsTraffic
  StaleOnlyAfterFailure
  AlwaysHasSource
  OwnFabricFirst
CHECK_DEADLOCK FALSE
