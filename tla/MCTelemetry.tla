----------------------------- MODULE MCTelemetry -----------------------------
(***************************************************************************)
(* The ring for TLC.  MCTelemetry.cfg has more slots than edges, as for    *)
(* the two nodes of the demo program (252 edges, 512 slots);               *)
(* MCTelemetryCluster.cfg has more edges than slots, as for the eight      *)
(* nodes that HICSShim::initialize builds by default (1104 edges).  In     *)
(* both write_idx_ wraps around within the run.                            *)
(***************************************************************************)
EXTENDS Telemetry
=============================================================================
