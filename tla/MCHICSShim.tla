----------------------------- MODULE MCHICSShim -----------------------------
(***************************************************************************)
(* Two routes between the endpoints, one per rail, and the empty path of a *)
(* request that cannot be routed.                                          *)
(***************************************************************************)
EXTENDS HICSShim

MCRoutes == {{"e0"}, {"e1"}}
MCPaths == MCRoutes \cup {{}}
MCRailOf == [p \in MCPaths |-> IF p = {"e1"} THEN 1 ELSE 0]

(* Both rails alike, one faster than the other, and a poll so soon after   *)
(* the last one that no whole unit moves.                                  *)
MCRates ==
  {[p \in MCPaths |-> IF p = {"e0"} THEN r[1] ELSE IF p = {"e1"} THEN r[2] ELSE 1] :
     r \in {<<1, 1>>, <<2, 1>>, <<0, 0>>}}
=============================================================================
