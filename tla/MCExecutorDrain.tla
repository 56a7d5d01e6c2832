--------------------------- MODULE MCExecutorDrain ---------------------------
(***************************************************************************)
(* drain_ready against any other calls: transfers of one chunk and of two, *)
(* the two on one rail (the second waits) or on one rail each.             *)
(***************************************************************************)
EXTENDS ExecutorDrain

MCPaths == {{"e0"}, {"e1"}}
MCRailOf == [p \in MCPaths |-> IF p = {"e0"} THEN 0 ELSE 1]
MCRates == [MCPaths -> 0..2]
=============================================================================
