CONSTANTS
  Paths <- MCPaths
  RailOf <- MCRailOf
  RailCount = 2
  ChunkBytes = 2
  SendBuffers = {"s1", "s2"}
  RecvBuffers = {"r1", "r2"}
  CommOf <- MCCommOf
  NoBuffer = NoBuffer
  Sizes = {2, 3}
  SubmitUnits = 1
  TestUnits = 2
  MaxRequests = 4
SPECIFICATION Spec
INVARIANTS TypeOK OneReceiverPerSend
PROPERTIES DoneMeansDelivered TestedIsDone
CHECK_DEADLOCK FALSE
