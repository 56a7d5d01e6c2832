CONSTANTS
  NumEdges = 3
  RingSize = 5
  IndexLimit = 10
  MaxWrites = 13
SPECIFICATION Spec
INVARIANTS TypeOK ReadIsLatest MissedMeansOvertaken SampledIsKept StoppedIsQuiet
PROPERTY StopReturns
