------------------------- MODULE MCTransferExecutor -------------------------
(***************************************************************************)
(* A small executor for TLC: one path on each of the two IB rails, a chunk *)
(* quantum of two units, so that a tick can stop halfway through a chunk,  *)
(* and sizes from a single unit to three chunks (two start, one per rail,  *)
(* and the last one waits).                                                *)
(***************************************************************************)
EXTENDS TransferExecutor

MCPaths == {{"e0"}, {"e1"}}
MCRailOf == [p \in MCPaths |-> IF p = {"e0"} THEN 0 ELSE 1]
MCRates == [MCPaths -> 0..2]
=============================================================================
