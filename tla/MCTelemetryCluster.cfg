CONSTANTS
  NumEdges = 5
  RingSize = 4
  IndexLimit = 8
  MaxWrites = 10
SPECIFICATION Spec
INVARIANT SampledIsKept
